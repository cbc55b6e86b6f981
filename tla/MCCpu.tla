------------------------------- MODULE MCCpu -------------------------------
\* The programs, with operands that matter to them.
EXTENDS Guests

MCGuests ==
  [program : {"hello", "copying", "filling", "ports", "stacking", "critical", "indexed"},
   x : {72}, y : {255}]
    \cup [program : {"hex"}, x : {9, 26, 63, 160, 188, 205}, y : {0}]
    \cup [program : {"blocks"}, x : {5, 111}, y : {111, 7}]
    \cup [program : {"multiply"}, x : {0, 171, 255}, y : {129, 255}]
    \cup [program : {"bits"}, x : {1, 90, 198}, y : {0}]
=============================================================================
