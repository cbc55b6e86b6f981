----------------------------- MODULE MCHdDriver -----------------------------
(***************************************************************************)
(* A small instance of HdDriver for TLC: one drive of two sectors of two   *)
(* bytes, and an address past its end.                                     *)
(***************************************************************************)
EXTENDS HdDriver, TLC

TwoSectors == 0 :> 4

\* Sectors whose two bytes are equal: a torn one shows.
Uniform == {[i \in 0 .. 1 |-> b] : b \in {0, 1}}

\* One payload, for runs whose bytes are all alike.
Zeros == {[i \in 0 .. 1 |-> 0]}
=============================================================================
