----------------------------- MODULE MCDmaCopy -----------------------------
(***************************************************************************)
(* Small instances of DmaCopy for TLC: nibbles of one bit, addresses and   *)
(* lengths below 16, and a different byte in every cell.                   *)
(***************************************************************************)
EXTENDS DmaCopy

AllDistinct ==
  [s \in Spaces |->
     [w \in Words |->
        {k \in 0 .. 4 :
           ((w + (IF s = "io" THEN 16 ELSE 0)) \div (2 ^ k)) % 2 = 1}]]

At(a, b) == [p \in Ports |-> IF p = "A" THEN a ELSE b]
Memory == [p \in Ports |-> "memory"]

\* Every direction and mode, in memory, on the ports and in between, at
\* addresses the masks let through: apart, overlapping and wrapping around.
AllJobs ==
  [direction : {"AToB", "BToA"}, start : {At(0, 1), At(1, 0), At(0, 13), At(13, 8)},
   length : {0, 1, 5}, mode : [Ports -> Modes],
   space : {Memory, [Memory EXCEPT !["B"] = "io"], [p \in Ports |-> "io"]},
   search : {FALSE}, stop : {FALSE}, match : {{}}]

PlainJob ==
  [direction |-> "AToB", start |-> At(0, 8), length |-> 4,
   mode |-> [p \in Ports |-> "Increment"], space |-> Memory,
   search |-> FALSE, stop |-> FALSE, match |-> {}]

\* A plain block, one with both ports fixed, and searches for 3, 4 and a byte
\* out of reach.
PlainJobs == {PlainJob}
SomeJobs == {PlainJob, [PlainJob EXCEPT !.direction = "BToA",
                                        !.mode = [p \in Ports |-> "Fixed"]]}
            \cup {[PlainJob EXCEPT !.search = TRUE, !.stop = s, !.match = m] :
                    s \in BOOLEAN, m \in {{0, 1}, {2}, {0, 1, 2, 3}}}

\* A block that starts at 2, the lowest address with a bit in the high nibble
\* of its low byte.
WideJobs == {[PlainJob EXCEPT !.start["A"] = 2]}
=============================================================================
