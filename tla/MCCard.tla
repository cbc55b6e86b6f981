------------------------------- MODULE MCCard -------------------------------
(***************************************************************************)
(* Small instances of Card for TLC: a sector of two bytes, LBA registers   *)
(* of one bit.                                                             *)
(***************************************************************************)
EXTENDS Card, TLC

\* Two sectors and a byte over: LBA 2 begins inside the image and does not fit
\* in it, and LBA 3 begins past its end.
OneImage == 0 :> 5

\* Two drives: a sector and a half, and half a sector.
TwoImages == 0 :> 3 @@ 1 :> 1
=============================================================================
