------------------------------- MODULE MCDma -------------------------------
(***************************************************************************)
(* Small instances of Dma for TLC: nibbles of one bit, so addresses and    *)
(* lengths below 16, and data bytes of one bit.                            *)
(***************************************************************************)
EXTENDS Dma

Empty == [s \in Spaces |-> [w \in Words |-> {}]]

\* Every combination of following bytes and every command; where the bytes are
\* and the mode of the ports do not matter to the stacks, and a search ends a
\* transfer no later than its block.
SomeHeaders ==
  {h \in WR0 : h.transfer /\ ~h.search /\ h.direction = "AToB"}
    \cup {h \in WR1 : h.space = "memory" /\ h.mode = "Fixed"}
    \cup {h \in WR2 : h.space = "memory" /\ h.mode = "Fixed"}
    \cup {h \in WR3 : ~h.interrupts /\ ~h.stop_on_match}
    \cup WR4
    \cup {h \in WR5 : ~h.restart}
    \cup WR6

SomeControls == {c \in Control : ~c.on_match /\ ~c.on_ready}
SomeMasks == {{}, {"Status", "ByteCounterLow"}}
=============================================================================
