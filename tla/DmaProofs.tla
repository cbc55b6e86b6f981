----------------------------- MODULE DmaProofs -----------------------------
(***************************************************************************)
(* Theorems about the controller: of Dma, for a guest that writes any      *)
(* bytes, the stack of awaited registers and the type of every variable;   *)
(* of DmaCopy, for blocks of any length, that the block is moved.  All for *)
(* nibbles of up to four bits, as many as the code's or fewer.             *)
(***************************************************************************)
EXTENDS DmaCopy, SequenceTheorems, NumberFacts

\* A stack of at most n registers, each among regs and none twice.
Waiting(s, regs, n) ==
  /\ s \in Seq(regs)
  /\ Len(s) <= n
  /\ \A i, j \in 1 .. Len(s) : s[i] = s[j] => i = j

\* The interrupt control byte, which may ask for more, is the last one awaited.
ControlLast(s) == \A i \in 1 .. Len(s) : s[i] = "InterruptControl" => i = 1

\* The inductive invariant.
Orderly == \E g \in Groups : Waiting(write_order, g, 4) /\ ControlLast(write_order)

(***************************************************************************)
(* Pushing and popping.                                                    *)
(***************************************************************************)
LEMMA AskOne ==
  ASSUME NEW r, NEW follow
  PROVE  Waiting(Ask(r, follow), {r}, 1)
<1>1. CASE r \in follow
  <2>1. Ask(r, follow) = <<r>>
    BY <1>1 DEF Ask
  <2> QED BY <2>1 DEF Waiting
<1>2. CASE r \notin follow
  <2>1. Ask(r, follow) = <<>>
    BY <1>2 DEF Ask
  <2> QED BY <2>1 DEF Waiting
<1> QED BY <1>1, <1>2

\* Two stacks of different registers, one on the other.
LEMMA PushMore ==
  ASSUME NEW R, NEW Q, R \cap Q = {}, NEW m \in Nat, NEW n \in Nat,
         NEW s, Waiting(s, R, m), NEW t, Waiting(t, Q, n)
  PROVE  Waiting(s \o t, R \cup Q, m + n)
<1>1. s \in Seq(R) /\ t \in Seq(Q)
  BY DEF Waiting
<1>2. s \in Seq(R \cup Q) /\ t \in Seq(R \cup Q)
  BY <1>1
<1>3. /\ s \o t \in Seq(R \cup Q)
      /\ Len(s \o t) = Len(s) + Len(t)
      /\ \A i \in 1 .. Len(s) + Len(t) :
           (s \o t)[i] = IF i <= Len(s) THEN s[i] ELSE t[i - Len(s)]
  BY <1>2, ConcatProperties
<1>4. Len(s) \in Nat /\ Len(t) \in Nat
  BY <1>1
<1>5. ASSUME NEW i \in 1 .. Len(s \o t), NEW j \in 1 .. Len(s \o t),
             (s \o t)[i] = (s \o t)[j]
      PROVE  i = j
  <2>1. \A k \in 1 .. Len(s) : s[k] \in R
    BY <1>1
  <2>2. \A k \in 1 .. Len(t) : t[k] \in Q
    BY <1>1
  <2>3. CASE i <= Len(s) /\ j <= Len(s)
    BY <1>3, <1>4, <1>5, <2>3 DEF Waiting
  <2>4. CASE i > Len(s) /\ j > Len(s)
    <3>1. i - Len(s) \in 1 .. Len(t) /\ j - Len(s) \in 1 .. Len(t)
      BY <1>3, <1>4, <2>4
    <3>2. t[i - Len(s)] = t[j - Len(s)]
      BY <1>3, <1>4, <1>5, <2>4
    <3>3. i - Len(s) = j - Len(s)
      BY <3>1, <3>2 DEF Waiting
    <3> QED BY <1>3, <1>4, <3>3
  <2>5. CASE i <= Len(s) /\ j > Len(s)
    <3>1. i \in 1 .. Len(s) /\ j - Len(s) \in 1 .. Len(t)
      BY <1>3, <1>4, <2>5
    <3>2. s[i] = t[j - Len(s)]
      BY <1>3, <1>4, <1>5, <2>5
    <3> QED BY <2>1, <2>2, <3>1, <3>2
  <2>6. CASE i > Len(s) /\ j <= Len(s)
    <3>1. j \in 1 .. Len(s) /\ i - Len(s) \in 1 .. Len(t)
      BY <1>3, <1>4, <2>6
    <3>2. s[j] = t[i - Len(s)]
      BY <1>3, <1>4, <1>5, <2>6
    <3> QED BY <2>1, <2>2, <3>1, <3>2
  <2> QED BY <1>3, <1>4, <2>3, <2>4, <2>5, <2>6
<1>6. Len(s \o t) <= m + n
  BY <1>3, <1>4 DEF Waiting
<1> QED BY <1>3, <1>5, <1>6 DEF Waiting

\* Asking for one register more.
LEMMA PushOne ==
  ASSUME NEW R, NEW n \in Nat, NEW s, Waiting(s, R, n), NEW r, r \notin R, NEW follow
  PROVE  Waiting(s \o Ask(r, follow), R \cup {r}, n + 1)
BY AskOne, PushMore

\* The register on top goes.
LEMMA PopOne ==
  ASSUME NEW R, NEW n \in Nat, NEW s, Waiting(s, R, n), s # <<>>
  PROVE  /\ Waiting(Rest(s), R, n)
         /\ ControlLast(s) => ControlLast(Rest(s))
<1>1. s \in Seq(R) /\ Len(s) \in Nat /\ Len(s) > 0 /\ Len(s) <= n
  BY DEF Waiting
<1>2. \A i \in 1 .. Len(s) - 1 : s[i] \in R
  BY <1>1
<1>3. /\ Rest(s) \in Seq(R)
      /\ Len(Rest(s)) = Len(s) - 1
      /\ \A i \in 1 .. Len(s) - 1 : Rest(s)[i] = s[i]
  <2> DEFINE k == Len(s) - 1
  <2>1. k \in Nat /\ k \in Int
    BY <1>1
  <2> HIDE DEF k
  <2>2. /\ SubSeq(s, 1, k) \in Seq(R)
        /\ Len(SubSeq(s, 1, k)) = IF 1 <= k THEN k - 1 + 1 ELSE 0
        /\ \A i \in 1 .. k - 1 + 1 : SubSeq(s, 1, k)[i] = s[1 + i - 1]
    <3>1. \A i \in 1 .. k : s[i] \in R
      BY <1>2 DEF k
    <3> QED BY <2>1, <3>1, SubSeqProperties
  <2>3. Len(SubSeq(s, 1, k)) = k
    BY <2>1, <2>2
  <2>4. ASSUME NEW i \in 1 .. k
        PROVE  SubSeq(s, 1, k)[i] = s[i]
    <3>1. i \in 1 .. k - 1 + 1 /\ 1 + i - 1 = i
      BY <2>1
    <3> QED BY <2>2, <3>1
  <2> QED BY <2>2, <2>3, <2>4 DEF Rest, k
<1>4. \A i, j \in 1 .. Len(Rest(s)) : Rest(s)[i] = Rest(s)[j] => i = j
  BY <1>1, <1>3 DEF Waiting
<1>5. ControlLast(s) => ControlLast(Rest(s))
  BY <1>1, <1>3 DEF ControlLast
<1> QED BY <1>1, <1>3, <1>4, <1>5 DEF Waiting

\* Without the interrupt control byte in sight, it is the last one awaited.
LEMMA NoControl ==
  ASSUME NEW R, "InterruptControl" \notin R, NEW n \in Nat, NEW s, Waiting(s, R, n)
  PROVE  ControlLast(s)
<1>1. \A i \in 1 .. Len(s) : s[i] \in R
  BY DEF Waiting
<1> QED BY <1>1 DEF ControlLast

(***************************************************************************)
(* What the bytes leave on the stack.                                      *)
(***************************************************************************)
\* Up to four registers of one group in some order, asked for one by one.
LEMMA AskedInOrder ==
  ASSUME NEW a, NEW b, NEW c, NEW d, NEW follow,
         a # b, a # c, a # d, b # c, b # d, c # d
  PROVE  /\ Waiting(Ask(a, follow) \o Ask(b, follow), {a, b}, 2)
         /\ Waiting(Ask(a, follow) \o Ask(b, follow) \o Ask(c, follow), {a, b, c}, 3)
         /\ Waiting(Ask(a, follow) \o Ask(b, follow) \o Ask(c, follow) \o Ask(d, follow),
                    {a, b, c, d}, 4)
<1>1. Waiting(Ask(a, follow), {a}, 1)
  BY AskOne
<1>2. Waiting(Ask(a, follow) \o Ask(b, follow), {a} \cup {b}, 1 + 1)
  BY <1>1, PushOne
<1>3. {a} \cup {b} = {a, b}
  OBVIOUS
<1>4. Waiting(Ask(a, follow) \o Ask(b, follow), {a, b}, 2)
  BY <1>2, <1>3
<1>5. Waiting(Ask(a, follow) \o Ask(b, follow) \o Ask(c, follow), {a, b} \cup {c}, 2 + 1)
  BY <1>4, PushOne
<1>6. {a, b} \cup {c} = {a, b, c}
  OBVIOUS
<1>7. Waiting(Ask(a, follow) \o Ask(b, follow) \o Ask(c, follow), {a, b, c}, 3)
  BY <1>5, <1>6
<1>8. Waiting(Ask(a, follow) \o Ask(b, follow) \o Ask(c, follow) \o Ask(d, follow),
              {a, b, c} \cup {d}, 3 + 1)
  BY <1>7, PushOne
<1>9. {a, b, c} \cup {d} = {a, b, c, d}
  OBVIOUS
<1> QED BY <1>4, <1>7, <1>8, <1>9

\* Registers pushed on it leave the control byte where it is.
LEMMA ControlKept ==
  ASSUME NEW Q, NEW m \in Nat, NEW s, Waiting(s, Q, m), ControlLast(s),
         NEW r, r # "InterruptControl", NEW follow
  PROVE  ControlLast(s \o Ask(r, follow))
<1> DEFINE t == Ask(r, follow)
<1>1. Waiting(t, {r}, 1)
  BY AskOne
<1>2. s \in Seq(Q) /\ t \in Seq({r})
  BY <1>1 DEF Waiting
<1> HIDE DEF t
<1>3. s \in Seq(Q \cup {r}) /\ t \in Seq(Q \cup {r})
  BY <1>2
<1>4. /\ Len(s \o t) = Len(s) + Len(t)
      /\ \A i \in 1 .. Len(s) + Len(t) :
           (s \o t)[i] = IF i <= Len(s) THEN s[i] ELSE t[i - Len(s)]
  BY <1>3, ConcatProperties
<1>5. Len(s) \in Nat /\ Len(t) \in Nat
  BY <1>2
<1>6. ASSUME NEW i \in 1 .. Len(s \o t), (s \o t)[i] = "InterruptControl"
      PROVE  i = 1
  <2>1. CASE i <= Len(s)
    BY <1>4, <1>5, <1>6, <2>1 DEF ControlLast
  <2>2. CASE i > Len(s)
    <3>1. i - Len(s) \in 1 .. Len(t)
      BY <1>4, <1>5, <2>2
    <3>2. (s \o t)[i] = t[i - Len(s)]
      BY <1>4, <1>5, <2>2
    <3>3. t[i - Len(s)] = r
      BY <1>2, <3>1
    <3> QED BY <1>6, <3>2, <3>3
  <2> QED BY <1>4, <1>5, <2>1, <2>2
<1> QED BY <1>6 DEF ControlLast, t

\* Fewer registers awaited than a group has.
LEMMA Fewer ==
  ASSUME NEW g \in Groups, NEW m \in 0 .. 4, NEW s, Waiting(s, g, m), ControlLast(s)
  PROVE  \E h \in Groups : Waiting(s, h, 4) /\ ControlLast(s)
<1>1. Len(s) \in Nat
  BY DEF Waiting
<1>2. Waiting(s, g, 4)
  BY <1>1 DEF Waiting
<1> QED BY <1>2

\* One register or two of a group without the control byte.
LEMMA OneAsked ==
  ASSUME NEW r, {r} \in Groups, NEW follow
  PROVE  \E g \in Groups : Waiting(Ask(r, follow), g, 4) /\ ControlLast(Ask(r, follow))
<1>1. "InterruptControl" \notin {r}
  BY DEF Groups
<1>2. Waiting(Ask(r, follow), {r}, 1)
  BY AskOne
<1>3. ControlLast(Ask(r, follow))
  BY <1>1, <1>2, NoControl
<1> QED BY <1>2, <1>3, Fewer

LEMMA TwoAsked ==
  ASSUME NEW a, NEW b, a # b, {a, b} \in Groups, NEW follow
  PROVE  \E g \in Groups : /\ Waiting(Ask(a, follow) \o Ask(b, follow), g, 4)
                           /\ ControlLast(Ask(a, follow) \o Ask(b, follow))
<1>1. "InterruptControl" \notin {a, b}
  BY DEF Groups
<1>2. Waiting(Ask(a, follow), {a}, 1)
  BY AskOne
<1>3. Waiting(Ask(a, follow) \o Ask(b, follow), {a} \cup {b}, 1 + 1)
  BY <1>2, PushOne
<1>4. {a} \cup {b} = {a, b}
  OBVIOUS
<1>5. Waiting(Ask(a, follow) \o Ask(b, follow), {a, b}, 2)
  BY <1>3, <1>4
<1>6. ControlLast(Ask(a, follow) \o Ask(b, follow))
  BY <1>1, <1>5, NoControl
<1> QED BY <1>5, <1>6, Fewer

(***************************************************************************)
(* The stack of the controller.                                            *)
(***************************************************************************)
\* A following byte that asks for nothing.
LEMMA Popped ==
  ASSUME Orderly, write_order # <<>>, write_order' = Rest(write_order)
  PROVE  Orderly'
<1>1. PICK g \in Groups : Waiting(write_order, g, 4) /\ ControlLast(write_order)
  BY DEF Orderly
<1>2. Waiting(Rest(write_order), g, 4) /\ ControlLast(Rest(write_order))
  BY <1>1, PopOne
<1> QED BY <1>2 DEF Orderly

\* The control byte, which leaves the stack to what it asks for.
LEMMA ControlPopped ==
  ASSUME Orderly, AcceptsFor("InterruptControl")
  PROVE  Rest(write_order) = <<>>
<1>1. PICK g \in Groups : Waiting(write_order, g, 4) /\ ControlLast(write_order)
  BY DEF Orderly
<1>2. write_order \in Seq(g) /\ write_order # <<>>
  BY <1>1 DEF Waiting, AcceptsFor
<1>3. Len(write_order) \in 1 .. Len(write_order)
  BY <1>2
<1>4. Len(write_order) = 1
  BY <1>1, <1>3 DEF ControlLast, AcceptsFor
<1>5. 1 - 1 \in Int /\ 1 \in Int /\ 1 - 1 < 1
  OBVIOUS
<1>6. SubSeq(write_order, 1, 1 - 1) = <<>>
  BY <1>5, SubSeqEmpty
<1> QED BY <1>4, <1>6 DEF Rest

LEMMA OrderlyInit == Init => Orderly
<1> SUFFICES ASSUME Init PROVE Orderly
  OBVIOUS
<1>1. Waiting(<<>>, {"ReadMask"}, 0) /\ ControlLast(<<>>)
  BY DEF Waiting, ControlLast
<1>2. {"ReadMask"} \in Groups
  BY DEF Groups
<1>3. \E g \in Groups : Waiting(<<>>, g, 4) /\ ControlLast(<<>>)
  BY <1>1, <1>2, Fewer
<1> QED BY <1>3 DEF Orderly, Init

LEMMA OrderlyBase ==
  ASSUME Orderly, NEW h \in Headers, WriteBase(h)
  PROVE  Orderly'
<1>1. CASE WriteWR0(h)
  <2> DEFINE s == Ask("BlockLengthHigh", h.follow) \o Ask("BlockLengthLow", h.follow)
                    \o Ask("PortAAddressHigh", h.follow) \o Ask("PortAAddressLow", h.follow)
             R == {"BlockLengthHigh", "BlockLengthLow", "PortAAddressHigh",
                   "PortAAddressLow"}
  <2>1. Waiting(s, R, 4)
    BY AskedInOrder
  <2>2. R \in Groups
    BY DEF Groups
  <2>3. ControlLast(s)
    BY <2>1, NoControl
  <2>4. write_order' = s
    BY <1>1 DEF WriteWR0
  <2> QED BY <2>1, <2>2, <2>3, <2>4 DEF Orderly
<1>2. CASE WriteWR1(h)
  <2>1. {"PortATiming"} \in Groups
    BY DEF Groups
  <2>2. write_order' = Ask("PortATiming", h.follow)
    BY <1>2 DEF WriteWR1, WriteWR12
  <2> QED BY <2>1, <2>2, OneAsked DEF Orderly
<1>3. CASE WriteWR2(h)
  <2>1. {"PortBTiming"} \in Groups
    BY DEF Groups
  <2>2. write_order' = Ask("PortBTiming", h.follow)
    BY <1>3 DEF WriteWR2, WriteWR12
  <2> QED BY <2>1, <2>2, OneAsked DEF Orderly
<1>4. CASE WriteWR3(h)
  <2>1. {"MatchByte", "MaskByte"} \in Groups
    BY DEF Groups
  <2>2. write_order' = Ask("MatchByte", h.follow) \o Ask("MaskByte", h.follow)
    BY <1>4 DEF WriteWR3
  <2> QED BY <2>1, <2>2, TwoAsked DEF Orderly
<1>5. CASE WriteWR4(h)
  <2> DEFINE a == Ask("InterruptControl", h.follow)
             b == a \o Ask("PortBAddressHigh", h.follow)
             c == b \o Ask("PortBAddressLow", h.follow)
  <2>1. Waiting(a, {"InterruptControl"}, 1) /\ ControlLast(a)
    BY AskOne DEF Waiting, ControlLast
  <2>2. Waiting(b, {"InterruptControl"} \cup {"PortBAddressHigh"}, 1 + 1)
    BY <2>1, PushOne
  <2>3. ControlLast(b)
    BY <2>1, ControlKept
  <2>4. Waiting(c, ({"InterruptControl"} \cup {"PortBAddressHigh"})
                     \cup {"PortBAddressLow"}, 1 + 1 + 1)
    BY <2>2, PushOne
  <2>5. ControlLast(c)
    BY <2>2, <2>3, ControlKept
  <2>6. ({"InterruptControl"} \cup {"PortBAddressHigh"}) \cup {"PortBAddressLow"}
          = {"PortBAddressLow", "PortBAddressHigh", "InterruptControl"}
    OBVIOUS
  <2>7. {"PortBAddressLow", "PortBAddressHigh", "InterruptControl"} \in Groups
    BY DEF Groups
  <2>8. write_order' = c
    BY <1>5 DEF WriteWR4
  <2> HIDE DEF c
  <2>9. \E g \in Groups : Waiting(c, g, 4) /\ ControlLast(c)
    BY <2>4, <2>5, <2>6, <2>7, Fewer
  <2> QED BY <2>8, <2>9 DEF Orderly
<1>6. CASE WriteWR5(h)
  BY <1>6 DEF WriteWR5, Orderly
<1>7. CASE h.reg = "WR6" /\ WriteWR6(h)
  <2>1. CASE write_order' = <<"ReadMask">>
    <3>1. {"ReadMask"} \in Groups /\ "ReadMask" \in {"ReadMask"}
      BY DEF Groups
    <3>2. Ask("ReadMask", {"ReadMask"}) = <<"ReadMask">>
      BY DEF Ask
    <3> QED BY <2>1, <3>1, <3>2, OneAsked DEF Orderly
  <2>2. CASE UNCHANGED write_order
    BY <2>2 DEF Orderly
  <2>3. h \in WR6
    BY <1>7, HeadersAssumption DEF WR0, WR1, WR2, WR3, WR4, WR5
  <2>4. h.command \in Commands \cup TodoCommands
    BY <2>3 DEF WR6
  <2>5. CASE h.command \in TodoCommands
    BY <1>7, <2>2, <2>5 DEF WriteWR6
  <2>6. CASE h.command \in Commands \ TodoCommands
    <3>1. CommandEffect(h.command)
      BY <1>7, <2>6 DEF WriteWR6
    <3>2. CASE h.command = "ReadMaskFollows"
      BY <2>1, <3>1, <3>2 DEF CommandEffect
    <3>3. CASE h.command # "ReadMaskFollows"
      BY <2>2, <2>6, <3>1, <3>3 DEF CommandEffect, Commands
    <3> QED BY <3>2, <3>3
  <2> QED BY <2>4, <2>5, <2>6
<1> QED BY <1>1, <1>2, <1>3, <1>4, <1>5, <1>6, <1>7 DEF WriteBase

LEMMA OrderlyFollowing ==
  ASSUME Orderly, WriteFollowing
  PROVE  Orderly'
<1>1. ASSUME NEW r \in Halves, NEW data \in Bytes, WriteHalf(r, data)
      PROVE  Orderly'
  BY <1>1, Popped DEF WriteHalf, AcceptsFor
<1>2. ASSUME NEW c \in Controls, WriteInterruptControl(c)
      PROVE  Orderly'
  <2> DEFINE asked == Ask("InterruptVector", c.follow) \o Ask("PulseControl", c.follow)
  <2>1. Rest(write_order) = <<>>
    BY <1>2, ControlPopped DEF WriteInterruptControl
  <2>2. CASE c.pulse
    BY <1>2, <2>2, Popped DEF WriteInterruptControl, AcceptsFor
  <2>3. CASE ~c.pulse
    <3>1. {"InterruptVector", "PulseControl"} \in Groups
      BY DEF Groups
    <3>2. Waiting(Ask("InterruptVector", c.follow), {"InterruptVector"}, 1)
      BY AskOne
    <3>3. <<>> \o Ask("InterruptVector", c.follow) = Ask("InterruptVector", c.follow)
      BY <3>2, ConcatEmptySeq DEF Waiting
    <3>4. write_order' = asked
      BY <1>2, <2>1, <2>3, <3>3 DEF WriteInterruptControl
    <3> QED BY <3>1, <3>4, TwoAsked DEF Orderly
  <2> QED BY <2>2, <2>3
<1>3. ASSUME NEW mask \in Masks, WriteReadMask(mask)
      PROVE  Orderly'
  BY <1>3, Popped DEF WriteReadMask, AcceptsFor
<1>4. ASSUME NEW p \in Patterns, WriteMaskByte(p) \/ WriteMatchByte(p)
      PROVE  Orderly'
  BY <1>4, Popped DEF WriteMaskByte, WriteMatchByte, AcceptsFor
<1>5. CASE WriteVector
  BY <1>5, Popped DEF WriteVector, AcceptsFor
<1>6. ASSUME NEW r, WriteTodo(r)
      PROVE  Orderly'
  BY <1>6, Popped DEF WriteTodo, AcceptsFor
<1> QED BY <1>1, <1>2, <1>3, <1>4, <1>5, <1>6 DEF WriteFollowing

LEMMA OrderlyStep == Orderly /\ [Next]_vars => Orderly'
<1> SUFFICES ASSUME Orderly, [Next]_vars PROVE Orderly'
  OBVIOUS
<1>1. ASSUME NEW h \in Headers, WriteBase(h)
      PROVE  Orderly'
  BY <1>1, OrderlyBase
<1>2. CASE WriteFollowing
  BY <1>2, OrderlyFollowing
<1>3. CASE Read
  BY <1>3 DEF Read, Orderly
<1>4. CASE Tick
  BY <1>4 DEF Tick, Orderly
<1>5. CASE UNCHANGED vars
  BY <1>5 DEF vars, Orderly
<1> QED BY <1>1, <1>2, <1>3, <1>4, <1>5 DEF Next, Guest

\* The stack is always in order: the registers awaited belong to one group, none
\* twice, and the control byte is the last (dma/mod.rs:386-483).
THEOREM StackOrderly == Spec => []Orderly
<1> QED BY OrderlyInit, OrderlyStep, PTL DEF Spec

\* No guest makes the stack of awaited registers longer than four
\* (dma/mod.rs:387).
THEOREM StackBounded == Spec => []WriteOrderBounded
<1>1. Orderly => WriteOrderBounded
  BY DEF Orderly, Waiting, WriteOrderBounded
<1> QED BY <1>1, StackOrderly, PTL

\* A byte always goes to a register that the last base byte or control byte asked
\* for, and to each once (dma/mod.rs:386-483).
THEOREM OneCommandAwaited == Spec => []ParametersOfOneCommand
<1>1. ASSUME Orderly
      PROVE  ParametersOfOneCommand
  <2>1. PICK g \in Groups : Waiting(write_order, g, 4)
    BY <1>1 DEF Orderly
  <2>2. \A i \in 1 .. Len(write_order) : write_order[i] \in g
    BY <2>1 DEF Waiting
  <2> QED BY <2>1, <2>2 DEF Waiting, ParametersOfOneCommand
<1> QED BY <1>1, StackOrderly, PTL
(***************************************************************************)
(* Types.                                                                  *)
(***************************************************************************)
LEMMA WordSize ==
  /\ Nibble \in Nat \ {0} /\ Nibble * Nibble \in Nat \ {0} /\ Word \in Nat \ {0}
  /\ Nibble * Nibble <= Word
BY NibbleAssumption DEF Word

LEMMA OrRange ==
  ASSUME NEW x \in 0 .. Nibble - 1, NEW y \in 0 .. Nibble - 1
  PROVE  Or(x, y) \in 0 .. Nibble - 1
<1>1. CASE Nibble = 2
  BY <1>1 DEF Or, OrBit
<1>2. CASE Nibble = 4
  BY <1>2 DEF Or, OrBit
<1>3. CASE Nibble = 8
  BY <1>3 DEF Or, OrBit
<1>4. CASE Nibble = 16
  BY <1>4 DEF Or, OrBit
<1> QED BY <1>1, <1>2, <1>3, <1>4, NibbleAssumption

\* The halves of a register make a word, whatever the masks lose.
LEMMA HalvesMakeWords ==
  ASSUME NEW w \in Words, NEW data \in 0 .. Nibble * Nibble - 1
  PROVE  WithLow(w, data) \in Words /\ WithHigh(w, data) \in Words
<1> DEFINE x == (w \div Nibble) % Nibble
           y == data \div Nibble
           z == data % Nibble
<1>1. x \in 0 .. Nibble - 1 /\ y \in 0 .. Nibble - 1 /\ z \in 0 .. Nibble - 1
  BY NibbleAssumption DEF Words, Word
<1>2. Or(x, y) \in 0 .. Nibble - 1
  BY <1>1, OrRange
<1>3. WithLow(w, data) = Or(x, y) * Nibble + z
  BY DEF WithLow
<1>4. WithLow(w, data) \in Words
  <2> HIDE DEF x, y, z
  <2> QED BY <1>1, <1>2, <1>3, NibbleAssumption DEF Words, Word
<1>5. WithHigh(w, data) \in Words
  BY NibbleAssumption DEF WithHigh, Words, Word
<1> QED BY <1>4, <1>5

LEMMA StepMakesWords ==
  ASSUME NEW w \in Words, NEW mode \in Modes
  PROVE  Step(w, mode) \in Words
BY WordSize DEF Step, Words, Modes

LEMMA AskType ==
  ASSUME NEW S, NEW r \in S, NEW follow
  PROVE  Ask(r, follow) \in Seq(S)
BY DEF Ask

LEMMA RestType ==
  ASSUME NEW S, NEW s \in Seq(S), s # <<>>
  PROVE  Rest(s) \in Seq(S)
<1>1. Len(s) - 1 \in Int /\ \A i \in 1 .. Len(s) - 1 : s[i] \in S
  OBVIOUS
<1> DEFINE k == Len(s) - 1
<1> HIDE DEF k
<1>2. SubSeq(s, 1, k) \in Seq(S)
  BY <1>1, SubSeqProperties DEF k
<1> QED BY <1>2 DEF Rest, k

LEMMA ReadSequenceType ==
  ASSUME NEW mask
  PROVE  ReadSequence(mask) \in Seq(ReadRegisters)
<1>1. \A r \in ReadRegisters : Ask(r, mask) \in Seq(ReadRegisters)
  BY AskType
<1>2. \A s, t \in Seq(ReadRegisters) : s \o t \in Seq(ReadRegisters)
  OBVIOUS
<1> QED BY <1>1, <1>2 DEF ReadSequence, ReadRegisters

\* Two or four registers asked for.
LEMMA AsksType ==
  ASSUME NEW a \in WriteRegisters, NEW b \in WriteRegisters, NEW c \in WriteRegisters,
         NEW d \in WriteRegisters, NEW follow
  PROVE  /\ Ask(a, follow) \in Seq(WriteRegisters)
         /\ Ask(a, follow) \o Ask(b, follow) \in Seq(WriteRegisters)
         /\ Ask(a, follow) \o Ask(b, follow) \o Ask(c, follow) \in Seq(WriteRegisters)
         /\ Ask(a, follow) \o Ask(b, follow) \o Ask(c, follow) \o Ask(d, follow)
              \in Seq(WriteRegisters)
<1>1. \A s, t \in Seq(WriteRegisters) : s \o t \in Seq(WriteRegisters)
  OBVIOUS
<1> QED BY <1>1, AskType

LEMMA Registers ==
  /\ {"PortAAddressLow", "PortAAddressHigh", "BlockLengthLow", "BlockLengthHigh"}
       \subseteq WriteRegisters
  /\ {"PortATiming", "PortBTiming", "MaskByte", "MatchByte", "ReadMask"}
       \subseteq WriteRegisters
  /\ {"PortBAddressLow", "PortBAddressHigh", "InterruptControl", "InterruptVector",
      "PulseControl"} \subseteq WriteRegisters
BY DEF WriteRegisters, Groups

LEMMA WR0Type ==
  ASSUME DmaTypeOK, NEW h \in WR0, WriteWR0(h)
  PROVE  DmaTypeOK'
<1>1. program' \in Program
  <2>1. program \in Program /\ h.transfer \in BOOLEAN /\ h.search \in BOOLEAN
        /\ h.direction \in {"AToB", "BToA"}
    BY DEF DmaTypeOK, WR0
  <2> DEFINE t == program.transfer \/ h.transfer
             s == program.search \/ h.search
  <2>2. program' = [program EXCEPT !.transfer = t, !.search = s, !.direction = h.direction]
    BY DEF WriteWR0, Set
  <2>3. t \in BOOLEAN /\ s \in BOOLEAN
    OBVIOUS
  <2> HIDE DEF t, s
  <2> QED BY <2>1, <2>2, <2>3 DEF Program
<1>2. write_order' \in Seq(WriteRegisters)
  BY AsksType, Registers DEF WriteWR0
<1> QED BY <1>1, <1>2 DEF DmaTypeOK, WriteWR0

LEMMA WR12Type ==
  ASSUME DmaTypeOK, NEW h \in WR1 \cup WR2, WriteWR1(h) \/ WriteWR2(h)
  PROVE  DmaTypeOK'
<1>1. PICK port \in Ports, timing \in {"PortATiming", "PortBTiming"} :
        WriteWR12(h, port, timing)
  BY DEF WriteWR1, WriteWR2, Ports
<1>2. h.space \in Spaces /\ h.mode \in Modes
  BY DEF WR1, WR2
<1>3. program' \in Program
  BY <1>1, <1>2 DEF DmaTypeOK, WriteWR12, Set, Program
<1>4. write_order' \in Seq(WriteRegisters)
  BY <1>1, AskType, Registers DEF WriteWR12
<1> QED BY <1>1, <1>3, <1>4 DEF DmaTypeOK, WriteWR12

LEMMA WR3Type ==
  ASSUME DmaTypeOK, NEW h \in WR3, WriteWR3(h)
  PROVE  DmaTypeOK'
<1>1. program' \in Program
  BY DEF DmaTypeOK, WriteWR3, Set, Program, WR3
<1>2. write_order' \in Seq(WriteRegisters)
  BY AsksType, Registers DEF WriteWR3
<1>3. enabled' \in BOOLEAN
  BY DEF WriteWR3, WR3
<1> QED BY <1>1, <1>2, <1>3 DEF DmaTypeOK, WriteWR3

LEMMA WR4Type ==
  ASSUME DmaTypeOK, NEW h, WriteWR4(h)
  PROVE  DmaTypeOK'
<1>1. write_order' \in Seq(WriteRegisters)
  BY AsksType, Registers DEF WriteWR4
<1> QED BY <1>1 DEF DmaTypeOK, WriteWR4

LEMMA WR5Type ==
  ASSUME DmaTypeOK, NEW h \in WR5, WriteWR5(h)
  PROVE  DmaTypeOK'
<1>1. program' \in Program
  <2>1. CASE h.wait
    BY <2>1 DEF DmaTypeOK, WriteWR5
  <2>2. CASE ~h.wait
    <3>1. program' = [program EXCEPT !.restart_at_end_of_block = h.restart]
      BY <2>2 DEF WriteWR5, Set
    <3> QED BY <3>1 DEF DmaTypeOK, Program, WR5
  <2> QED BY <2>1, <2>2
<1>2. panicked' \in BOOLEAN
  BY DEF DmaTypeOK, WriteWR5
<1> QED BY <1>1, <1>2 DEF DmaTypeOK, WriteWR5

LEMMA CommandType ==
  ASSUME DmaTypeOK, NEW c \in Commands, CommandEffect(c), UNCHANGED <<bus, panicked>>
  PROVE  DmaTypeOK'
<1>1. CASE c = "Reset"
  <2>1. program' = [program EXCEPT !.interrupts_enabled = FALSE,
                                   !.restart_at_end_of_block = FALSE]
    BY <1>1 DEF CommandEffect, Set
  <2>2. program' \in Program
    BY <2>1 DEF DmaTypeOK, Program
  <2> QED BY <1>1, <2>2 DEF CommandEffect, DmaTypeOK
<1>2. CASE c = "Load"
  <2>1. Source \in Ports
    BY DEF Source, Ports
  <2>2. counter' \in [Ports -> Words] /\ byte_counter' \in Words
    BY <1>2, <2>1, WordSize DEF CommandEffect, DmaTypeOK, Program, Words
  <2> QED BY <1>2, <2>2 DEF CommandEffect, DmaTypeOK
<1>3. CASE c = "Continue"
  BY <1>3, WordSize DEF CommandEffect, DmaTypeOK, Words
<1>4. CASE c = "EnableInterrupts"
  <2>1. program' = [program EXCEPT !.interrupts_enabled = TRUE]
    BY <1>4 DEF CommandEffect, Set
  <2>2. program' \in Program
    BY <2>1 DEF DmaTypeOK, Program
  <2> QED BY <1>4, <2>2 DEF CommandEffect, DmaTypeOK
<1>5. CASE c = "ReadStatus"
  <2>1. read_order' = Append(read_order, "Status") /\ "Status" \in ReadRegisters
    BY <1>5 DEF CommandEffect, ReadRegisters
  <2>2. read_order' \in Seq(ReadRegisters)
    BY <2>1, AppendProperties DEF DmaTypeOK
  <2> QED BY <1>5, <2>2 DEF CommandEffect, DmaTypeOK
<1>6. CASE c = "ReinitializeStatus"
  BY <1>6 DEF CommandEffect, DmaTypeOK, Flags
<1>7. CASE c = "ReadMaskFollows"
  <2>1. write_order' = <<"ReadMask">> /\ "ReadMask" \in WriteRegisters
    BY <1>7, Registers DEF CommandEffect
  <2>2. write_order' \in Seq(WriteRegisters)
    BY <2>1
  <2> QED BY <1>7, <2>2 DEF CommandEffect, DmaTypeOK
<1>8. CASE c = "InitiateReadSequence"
  <2> DEFINE s == ReadSequence(program.read_mask)
  <2>1. s \in Seq(ReadRegisters)
    BY ReadSequenceType
  <2>2. read_order' = read_order \o s
    BY <1>8 DEF CommandEffect
  <2> HIDE DEF s
  <2>3. read_order' \in Seq(ReadRegisters)
    BY <2>1, <2>2 DEF DmaTypeOK
  <2> QED BY <1>8, <2>3 DEF CommandEffect, DmaTypeOK
<1>9. CASE c = "EnableDma"
  BY <1>9 DEF CommandEffect, DmaTypeOK
<1>10. CASE c = "DisableDma"
  BY <1>10 DEF CommandEffect, DmaTypeOK
<1> QED BY <1>1, <1>2, <1>3, <1>4, <1>5, <1>6, <1>7, <1>8, <1>9, <1>10 DEF Commands

LEMMA WR6Type ==
  ASSUME DmaTypeOK, NEW h \in WR6, WriteWR6(h)
  PROVE  DmaTypeOK'
<1>1. CASE h.command \in TodoCommands
  BY <1>1 DEF DmaTypeOK, WriteWR6
<1>2. CASE h.command \notin TodoCommands
  <2>1. h.command \in Commands
    BY <1>2 DEF WR6
  <2> QED BY <1>2, <2>1, CommandType DEF WriteWR6
<1> QED BY <1>1, <1>2

LEMMA HalfType ==
  ASSUME DmaTypeOK, NEW r \in Halves, NEW data \in 0 .. Nibble * Nibble - 1,
         WriteHalf(r, data)
  PROVE  DmaTypeOK'
<1>1. write_order' \in Seq(WriteRegisters)
  BY RestType DEF DmaTypeOK, WriteHalf, AcceptsFor
<1>2. /\ program.start["A"] \in Words /\ program.start["B"] \in Words
      /\ program.block_length \in Words
  BY DEF DmaTypeOK, Program, Ports
<1>3. \A w \in Words : WithLow(w, data) \in Words /\ WithHigh(w, data) \in Words
  BY HalvesMakeWords
<1>4. \/ \E port \in Ports, w \in Words : program' = [program EXCEPT !.start[port] = w]
      \/ \E w \in Words : program' = [program EXCEPT !.block_length = w]
  BY <1>2, <1>3 DEF WriteHalf, Set, Halves, Ports
<1>5. program' \in Program
  <2>1. ASSUME NEW port \in Ports, NEW w \in Words,
               program' = [program EXCEPT !.start[port] = w]
        PROVE  program' \in Program
    <3>1. [program.start EXCEPT ![port] = w] \in [Ports -> Words]
      BY DEF DmaTypeOK, Program
    <3>2. program' = [program EXCEPT !.start = [program.start EXCEPT ![port] = w]]
      BY <2>1
    <3> QED BY <3>1, <3>2 DEF DmaTypeOK, Program
  <2>2. ASSUME NEW w \in Words, program' = [program EXCEPT !.block_length = w]
        PROVE  program' \in Program
    BY <2>2 DEF DmaTypeOK, Program
  <2> QED BY <1>4, <2>1, <2>2
<1> QED BY <1>1, <1>5 DEF DmaTypeOK, WriteHalf

LEMMA ControlType ==
  ASSUME DmaTypeOK, NEW c \in Control, WriteInterruptControl(c)
  PROVE  DmaTypeOK'
<1>1. program' \in Program
  <2>1. CASE c.pulse
    <3>1. program' = [program EXCEPT !.interrupt_on_match = c.on_match,
                                     !.interrupt_at_end_of_block = c.at_end]
      BY <2>1 DEF WriteInterruptControl, Set
    <3> QED BY <3>1 DEF DmaTypeOK, Program, Control
  <2>2. CASE ~c.pulse
    <3>1. program' = [program EXCEPT !.interrupt_on_match = c.on_match,
                                     !.interrupt_at_end_of_block = c.at_end,
                                     !.interrupt_on_ready = c.on_ready]
      BY <2>2 DEF WriteInterruptControl, Set
    <3> QED BY <3>1 DEF DmaTypeOK, Program, Control
  <2> QED BY <2>1, <2>2
<1>2. Rest(write_order) \in Seq(WriteRegisters)
  BY RestType DEF DmaTypeOK, WriteInterruptControl, AcceptsFor
<1>3. /\ Ask("InterruptVector", c.follow) \in Seq(WriteRegisters)
      /\ Ask("PulseControl", c.follow) \in Seq(WriteRegisters)
  BY AskType, Registers
<1>4. write_order' \in Seq(WriteRegisters)
  <2>1. \/ write_order' = Rest(write_order)
        \/ write_order' = Rest(write_order) \o Ask("InterruptVector", c.follow)
                            \o Ask("PulseControl", c.follow)
    BY DEF WriteInterruptControl
  <2>2. \A s, t \in Seq(WriteRegisters) : s \o t \in Seq(WriteRegisters)
    OBVIOUS
  <2> QED BY <1>2, <1>3, <2>1, <2>2
<1>5. panicked' \in BOOLEAN
  BY DEF DmaTypeOK, WriteInterruptControl
<1> QED BY <1>1, <1>4, <1>5 DEF DmaTypeOK, WriteInterruptControl

\* The other bytes that follow.
LEMMA ByteType ==
  ASSUME DmaTypeOK,
         \/ \E mask \in SUBSET ReadRegisters : WriteReadMask(mask)
         \/ \E p \in SUBSET Bits : WriteMaskByte(p) \/ WriteMatchByte(p)
         \/ WriteVector
         \/ \E r \in WriteRegisters : WriteTodo(r)
  PROVE  DmaTypeOK'
<1>1. write_order' = Rest(write_order) /\ write_order # <<>>
  BY DEF WriteReadMask, WriteMaskByte, WriteMatchByte, WriteVector, WriteTodo, AcceptsFor
<1>2. write_order' \in Seq(WriteRegisters)
  BY <1>1, RestType DEF DmaTypeOK
<1>3. ASSUME NEW mask \in SUBSET ReadRegisters, WriteReadMask(mask)
      PROVE  DmaTypeOK'
  <2>1. program' \in Program
    BY <1>3 DEF DmaTypeOK, WriteReadMask, Set, Program
  <2> QED BY <1>2, <1>3, <2>1 DEF DmaTypeOK, WriteReadMask
<1>4. ASSUME NEW p \in SUBSET Bits, WriteMaskByte(p)
      PROVE  DmaTypeOK'
  <2>1. program' \in Program
    BY <1>4 DEF DmaTypeOK, WriteMaskByte, Set, Program
  <2> QED BY <1>2, <1>4, <2>1 DEF DmaTypeOK, WriteMaskByte
<1>5. ASSUME NEW p \in SUBSET Bits, WriteMatchByte(p)
      PROVE  DmaTypeOK'
  <2>1. program' \in Program
    BY <1>5 DEF DmaTypeOK, WriteMatchByte, Set, Program
  <2> QED BY <1>2, <1>5, <2>1 DEF DmaTypeOK, WriteMatchByte
<1>6. CASE WriteVector
  BY <1>2, <1>6 DEF DmaTypeOK, WriteVector
<1>7. ASSUME NEW r \in WriteRegisters, WriteTodo(r)
      PROVE  DmaTypeOK'
  BY <1>2, <1>7 DEF DmaTypeOK, WriteTodo
<1> QED BY <1>3, <1>4, <1>5, <1>6, <1>7

LEMMA ReadType ==
  ASSUME DmaTypeOK, Read
  PROVE  DmaTypeOK'
BY RestType DEF DmaTypeOK, Read

LEMMA TickType ==
  ASSUME DmaTypeOK, Tick
  PROVE  DmaTypeOK'
<1>1. Source \in Ports /\ Dest \in Ports /\ Source # Dest
  BY DEF Source, Dest, Ports
<1>2. /\ program.mode \in [Ports -> Modes] /\ program.space \in [Ports -> Spaces]
      /\ program.start \in [Ports -> Words] /\ program.block_length \in Words
      /\ counter \in [Ports -> Words] /\ byte_counter \in Words
      /\ bus \in [Spaces -> [Words -> SUBSET Bits]]
  BY DEF DmaTypeOK, Program
<1>3. DestCounter \in Words
  BY <1>1, <1>2 DEF DestCounter
<1>4. ByteRead \in SUBSET Bits
  BY <1>1, <1>2 DEF ByteRead
<1>5. counter' \in [Ports -> Words]
  <2>1. \A w \in Words, p \in Ports : Step(w, program.mode[p]) \in Words
    BY <1>2, StepMakesWords
  <2> QED BY <1>1, <1>2, <1>3, <2>1 DEF Tick
<1>6. bus' \in [Spaces -> [Words -> SUBSET Bits]]
  <2>1. program.space[Dest] \in Spaces
    BY <1>1, <1>2
  <2> DEFINE s == program.space[Dest]
             d == DestCounter
             v == ByteRead
  <2> HIDE DEF s, d, v
  <2>2. [bus EXCEPT ![s][d] = v] \in [Spaces -> [Words -> SUBSET Bits]]
    BY <1>2, <1>3, <1>4, <2>1 DEF s, d, v
  <2>3. bus' = [bus EXCEPT ![s][d] = v] \/ bus' = bus
    BY DEF Tick, s, d, v
  <2> QED BY <1>2, <2>2, <2>3
<1>7. byte_counter' \in Words
  BY <1>2, WordSize DEF Tick, Words
<1>8. enabled' \in BOOLEAN /\ panicked' \in BOOLEAN
  BY DEF Tick, Matched, Ended, Restarts, Stopped, DmaTypeOK, Program
<1>9. status' \subseteq Flags
  BY DEF Tick, DmaTypeOK, Flags
<1> QED BY <1>5, <1>6, <1>7, <1>8, <1>9 DEF Tick, DmaTypeOK

LEMMA TypeInit == Init => DmaTypeOK
<1>1. 0 \in Words
  BY WordSize DEF Words
<1>2. DefaultProgram \in Program
  BY <1>1 DEF DefaultProgram, Program, Ports, Modes, Spaces
<1>3. InitialBus \in [Spaces -> [Words -> SUBSET Bits]]
  BY BytesAssumption
<1>4. <<>> \in Seq(WriteRegisters) /\ <<>> \in Seq(ReadRegisters)
  OBVIOUS
<1>5. [p \in Ports |-> 0] \in [Ports -> Words]
  BY <1>1
<1> QED BY <1>1, <1>2, <1>3, <1>4, <1>5 DEF Init, DmaTypeOK

LEMMA TypeStep == DmaTypeOK /\ [Next]_vars => DmaTypeOK'
<1> SUFFICES ASSUME DmaTypeOK, [Next]_vars PROVE DmaTypeOK'
  OBVIOUS
<1>1. ASSUME NEW h \in Headers, WriteBase(h)
      PROVE  DmaTypeOK'
  <2>1. h \in WR0 \cup WR1 \cup WR2 \cup WR3 \cup WR4 \cup WR5 \cup WR6
    BY HeadersAssumption
  <2>2. CASE h.reg = "WR0"
    <3>1. h \in WR0
      BY <2>1, <2>2 DEF WR1, WR2, WR3, WR4, WR5, WR6
    <3> QED BY <1>1, <2>2, <3>1, WR0Type DEF WriteBase
  <2>3. CASE h.reg \in {"WR1", "WR2"}
    <3>1. h \in WR1 \cup WR2
      BY <2>1, <2>3 DEF WR0, WR3, WR4, WR5, WR6
    <3> QED BY <1>1, <2>3, <3>1, WR12Type DEF WriteBase
  <2>4. CASE h.reg = "WR3"
    <3>1. h \in WR3
      BY <2>1, <2>4 DEF WR0, WR1, WR2, WR4, WR5, WR6
    <3> QED BY <1>1, <2>4, <3>1, WR3Type DEF WriteBase
  <2>5. CASE h.reg = "WR4"
    BY <1>1, <2>5, WR4Type DEF WriteBase
  <2>6. CASE h.reg = "WR5"
    <3>1. h \in WR5
      BY <2>1, <2>6 DEF WR0, WR1, WR2, WR3, WR4, WR6
    <3> QED BY <1>1, <2>6, <3>1, WR5Type DEF WriteBase
  <2>7. CASE h.reg = "WR6"
    <3>1. h \in WR6
      BY <2>1, <2>7 DEF WR0, WR1, WR2, WR3, WR4, WR5
    <3> QED BY <1>1, <2>7, <3>1, WR6Type DEF WriteBase
  <2> QED BY <1>1, <2>2, <2>3, <2>4, <2>5, <2>6, <2>7 DEF WriteBase
<1>2. CASE WriteFollowing
  <2>1. ASSUME NEW r \in Halves, NEW data \in Bytes, WriteHalf(r, data)
        PROVE  DmaTypeOK'
    <3>1. data \in 0 .. Nibble * Nibble - 1
      BY BytesAssumption
    <3> QED BY <2>1, <3>1, HalfType
  <2>2. ASSUME NEW c \in Controls, WriteInterruptControl(c)
        PROVE  DmaTypeOK'
    BY <2>2, ControlType, BytesAssumption
  <2>3. ASSUME NEW mask \in Masks, WriteReadMask(mask)
        PROVE  DmaTypeOK'
    BY <2>3, ByteType, BytesAssumption
  <2>4. ASSUME NEW p \in Patterns, WriteMaskByte(p) \/ WriteMatchByte(p)
        PROVE  DmaTypeOK'
    BY <2>4, ByteType, BytesAssumption
  <2>5. CASE WriteVector
    BY <2>5, ByteType
  <2>6. ASSUME NEW r \in {"PortATiming", "PortBTiming", "PulseControl"}, WriteTodo(r)
        PROVE  DmaTypeOK'
    BY <2>6, ByteType, Registers
  <2> QED BY <1>2, <2>1, <2>2, <2>3, <2>4, <2>5, <2>6 DEF WriteFollowing
<1>3. CASE Read
  BY <1>3, ReadType
<1>4. CASE Tick
  BY <1>4, TickType
<1>5. CASE UNCHANGED vars
  BY <1>5 DEF vars, DmaTypeOK
<1> QED BY <1>1, <1>2, <1>3, <1>4, <1>5 DEF Next, Guest

\* Every variable of the controller keeps its type whatever bytes the guest writes:
\* the masks lose bits but make no word out of range (dma/mod.rs:634-661), and the
\* counters wrap (dma/mod.rs:244-264).
THEOREM TypeCorrect == Spec => []DmaTypeOK
<1> QED BY TypeInit, TypeStep, PTL DEF Spec

(***************************************************************************)
(* The program of the test: blocks of any length, anywhere the masks let   *)
(* through, are moved byte by byte.                                        *)
(***************************************************************************)
\* A word whose low byte has an empty high nibble, the one the masks lose.
Kept(w) == (w \div Nibble) % Nibble = 0

\* The blocks the theorem is about: addresses and lengths that the masks let through,
\* and the detour for every block but the first.
LetThrough ==
  \A j \in Jobs \cup LaterJobs :
    Kept(j.start["A"]) /\ Kept(j.start["B"]) /\ Kept(j.length)
DetourTaken == Detour \/ Blocks = 1

Bus == [Spaces -> [Words -> SUBSET Bits]]

Steps ==
  {"reset", "wr0", "a_low", "a_high", "len_low", "len_high", "wr1", "wr2", "wr3",
   "match", "wr4", "b_low", "b_high", "control", "swap", "swap_load", "swap_back",
   "load", "interrupts", "enable", "wait", "done"}

CopyTypeOK ==
  /\ DmaTypeOK
  /\ job \in Jobs \cup LaterJobs
  /\ left \in 0 .. Blocks - 1
  /\ at \in Steps
  /\ before \in Bus

\* How far the program has come.
Started == at \notin {"reset", "wr0"}
HasA == Started /\ at \notin {"a_low", "a_high"}
HasLength == HasA /\ at \notin {"len_low", "len_high"}
HasPortA == HasLength /\ at # "wr1"
HasPortB == HasPortA /\ at # "wr2"
HasMatch == HasPortB /\ at \notin {"wr3", "match"}
HasB == HasMatch /\ at \notin {"wr4", "b_low", "b_high"}
HasControl == HasB /\ at # "control"
Loading == at \in {"load", "interrupts", "enable"}
Moving == at \in {"wait", "done"}

\* What the registers hold by then.
Addresses ==
  /\ Kept(program.start["A"]) /\ Kept(program.start["B"]) /\ Kept(program.block_length)
  /\ at = "a_high" => program.start["A"] = Low(job.start["A"])
  /\ HasA => program.start["A"] = job.start["A"]
  /\ at = "len_high" => program.block_length = Low(job.length)
  /\ HasLength => program.block_length = job.length
  /\ at = "b_high" => program.start["B"] = Low(job.start["B"])
  /\ HasB => program.start["B"] = job.start["B"]

PortsSet ==
  /\ HasPortA => program.space["A"] = job.space["A"] /\ program.mode["A"] = job.mode["A"]
  /\ HasPortB => program.space["B"] = job.space["B"] /\ program.mode["B"] = job.mode["B"]
  /\ Started => program.transfer
  /\ Started /\ at \notin {"swap_load", "swap_back"} => program.direction = job.direction
  /\ at = "swap_load" => program.direction = Other(job.direction)

\* Nothing turns searching off: a block without a search may come after one with it.
SearchSet ==
  /\ program.mask_byte = {}
  /\ Started /\ job.search => program.search
  /\ HasMatch /\ job.search => program.match_byte = job.match

InterruptsSet ==
  /\ ~program.restart_at_end_of_block /\ ~program.interrupt_on_ready
  /\ HasControl => program.interrupt_at_end_of_block
  /\ HasControl => program.interrupt_on_match = job.search
  /\ at = "enable" \/ Moving => program.interrupts_enabled

\* What the controller has done by then.
Swapped == (Later /\ Detour) \/ job.mode[JobDest] = "Fixed"
CountersSet ==
  /\ at \in {"interrupts", "enable"} =>
       byte_counter = 0 /\ counter[JobSource] = job.start[JobSource]
  /\ (at = "swap_back" \/ (Loading /\ Swapped)) => counter[JobDest] = job.start[JobDest]
  /\ at # "reset" /\ ~Moving => "INTERRUPT_PENDING" \notin status
  /\ ~Later /\ ~Moving => "TRANSFER_OCCURRED" \notin status

MovedSoFar(n) ==
  /\ n \in 0 .. Length - 1
  /\ byte_counter = n
  /\ bus = Moved[n]
  /\ \A i \in 0 .. n - 1 : ~Found(i)
  /\ counter[JobSource] = Address(JobSource, n)
  /\ DestCounter = Address(JobDest, n)
  /\ "INTERRUPT_PENDING" \notin status

Finished == \E n \in 1 .. Length : IsBlock(n) /\ bus = Moved[n]

\* A byte that a block without a search is stopped by: no interrupt will come.
StoppedSilently == ~enabled /\ ~job.search /\ "INTERRUPT_PENDING" \notin status

Progress ==
  /\ at = "wait" => \/ \E n \in 0 .. Length - 1 : MovedSoFar(n)
                    \/ Finished /\ "INTERRUPT_PENDING" \in status
                    \/ StoppedSilently
  /\ at = "done" => Finished

\* The inductive invariant.
CopyInv ==
  /\ CopyTypeOK /\ Addresses /\ PortsSet /\ SearchSet /\ InterruptsSet
  /\ CountersSet /\ Progress

(***************************************************************************)
(* Halves, addresses and the reference.                                    *)
(***************************************************************************)
\* A word that the masks let through comes out of its halves.
LEMMA HalvesKept ==
  ASSUME NEW w \in Words, Kept(w), NEW old \in Words, Kept(old)
  PROVE  /\ Low(w) \in 0 .. Nibble * Nibble - 1 /\ High(w) \in 0 .. Nibble * Nibble - 1
         /\ WithLow(old, Low(w)) = Low(w) /\ Kept(Low(w))
         /\ WithHigh(Low(w), High(w)) = w
<1> DEFINE b == Nibble * Nibble
           r == w % Nibble
           q == w \div Nibble
           p == q \div Nibble
<1>1. Nibble \in Nat \ {0} /\ b \in Nat \ {0} /\ Nibble <= b /\ Word = b * b
  BY NibbleAssumption DEF Word
<1>2. w \in Nat /\ w \in 0 .. b * b - 1
  BY <1>1 DEF Words
<1>3. r \in 0 .. Nibble - 1 /\ q \in Nat /\ w = r + Nibble * q
  BY <1>1, <1>2, Divided, Zenon
<1>4. p \in Nat /\ q = Nibble * p
  <2>1. p \in Nat /\ q = (q % Nibble) + Nibble * p
    BY <1>1, <1>3, Divided, Zenon
  <2>2. q % Nibble = 0
    BY DEF Kept
  <2> HIDE DEF p, q
  <2> QED BY <1>1, <2>1, <2>2, SMT
<1> HIDE DEF p, q, r
<1>5. w = r + b * p
  BY <1>1, <1>3, <1>4, SMT
<1> HIDE DEF b
<1>6. r \in 0 .. b - 1
  BY <1>1, <1>3
<1>7. w % b = r /\ w \div b = p
  BY <1>1, <1>4, <1>5, <1>6, DividedUniquely
<1>8. w \div b \in 0 .. b - 1
  BY <1>1, <1>2, QuotientBound
<1>9. Low(w) = r /\ High(w) = p
  BY <1>7 DEF Low, High, b
<1>10. r % Nibble = r /\ r \div Nibble = 0
  <2>1. r = r + Nibble * 0
    BY <1>1, <1>3
  <2>2. 0 \in Nat
    OBVIOUS
  <2> QED BY <1>1, <1>3, <2>1, <2>2, DividedUniquely
<1>11. Kept(r)
  <2>1. 0 = 0 + Nibble * 0 /\ 0 \in 0 .. Nibble - 1
    BY <1>1
  <2>2. 0 % Nibble = 0
    BY <1>1, <2>1, DividedUniquely
  <2> QED BY <1>10, <2>2 DEF Kept
<1>12. WithLow(old, r) = r
  <2>1. WithLow(old, r) = Or(0, 0) * Nibble + r
    BY <1>10 DEF WithLow, Kept
  <2>2. Or(0, 0) = 0
    BY DEF Or, OrBit
  <2> QED BY <1>1, <1>3, <2>1, <2>2
<1>13. WithHigh(r, p) = w
  <2>1. WithHigh(r, p) = r + p * Nibble * Nibble
    BY <1>10 DEF WithHigh
  <2> QED BY <1>1, <1>3, <1>4, <1>5, <2>1, SMT DEF b
<1> QED BY <1>6, <1>7, <1>8, <1>9, <1>11, <1>12, <1>13 DEF b

LEMMA JobPorts ==
  /\ JobSource \in Ports /\ JobDest \in Ports /\ JobSource # JobDest
  /\ Source \in Ports /\ Dest \in Ports /\ Source # Dest
BY DEF JobSource, JobDest, Source, Dest, Ports

LEMMA AddressOfByte ==
  ASSUME job \in Job, NEW port \in Ports, NEW i \in 0 .. Word - 1
  PROVE  /\ Address(port, i) \in Words
         /\ Address(port, 0) = job.start[port]
         /\ Step(Address(port, i), job.mode[port]) = Address(port, i + 1)
<1>1. job.start[port] \in 0 .. Word - 1 /\ job.mode[port] \in Modes
  BY DEF Job, Words
<1> DEFINE w == job.start[port]
<1> HIDE DEF w
<1>2. Word \in Nat \ {0} /\ w \in 0 .. Word - 1
  BY <1>1, WordSize DEF w
<1>3. \A a \in 0 .. Word + Word - 1 : a % Word = IF a < Word THEN a ELSE a - Word
  BY <1>2, WrapsOnce
<1>4. CASE job.mode[port] = "Increment"
  <2> DEFINE now == (w + i) % Word
             then == (w + (i + 1)) % Word
  <2>1. w + i \in 0 .. Word + Word - 1 /\ w + (i + 1) \in 0 .. Word + Word - 1
    BY <1>2
  <2>2. (w + 0) % Word = w
    <3>1. w + 0 = w /\ w \in 0 .. Word + Word - 1 /\ w < Word
      BY <1>2
    <3> QED BY <1>2, <3>1, <1>3
  <2>3. now = IF w + i < Word THEN w + i ELSE w + i - Word
    BY <1>2, <2>1, <1>3
  <2>4. then = IF w + (i + 1) < Word THEN w + (i + 1) ELSE w + (i + 1) - Word
    BY <1>2, <2>1, <1>3
  <2> HIDE DEF now, then
  <2>5. now \in 0 .. Word - 1 /\ now + 1 \in 0 .. Word + Word - 1
    BY <1>2, <2>3
  <2>6. (now + 1) % Word = IF now + 1 < Word THEN now + 1 ELSE now + 1 - Word
    BY <1>2, <2>5, <1>3
  <2>7. (now + 1) % Word = then
    BY <1>2, <2>3, <2>4, <2>6
  <2> QED BY <1>4, <2>2, <2>5, <2>7 DEF Address, Step, Words, w, now, then
<1>5. CASE job.mode[port] = "Decrement"
  <2> DEFINE now == (w + Word - i) % Word
             then == (w + Word - (i + 1)) % Word
  <2>1. w + Word - i \in 0 .. Word + Word - 1 /\ w + Word - (i + 1) \in 0 .. Word + Word - 1
    BY <1>2
  <2>2. (w + Word - 0) % Word = w
    <3> DEFINE whole == w + Word - 0
    <3>1. whole \in 0 .. Word + Word - 1 /\ ~(whole < Word) /\ whole - Word = w
      BY <1>2
    <3> HIDE DEF whole
    <3>2. whole % Word = w
      BY <1>2, <3>1, <1>3
    <3> QED BY <3>2 DEF whole
  <2>3. now = IF w + Word - i < Word THEN w + Word - i ELSE w + Word - i - Word
    BY <1>2, <2>1, <1>3
  <2>4. then = IF w + Word - (i + 1) < Word THEN w + Word - (i + 1)
                                            ELSE w + Word - (i + 1) - Word
    BY <1>2, <2>1, <1>3
  <2> HIDE DEF now, then
  <2>5. now \in 0 .. Word - 1 /\ now + Word - 1 \in 0 .. Word + Word - 1
    BY <1>2, <2>3
  <2>6. (now + Word - 1) % Word = IF now + Word - 1 < Word THEN now + Word - 1
                                                           ELSE now + Word - 1 - Word
    BY <1>2, <2>5, <1>3
  <2>7. (now + Word - 1) % Word = then
    BY <1>2, <2>3, <2>4, <2>6
  <2> QED BY <1>5, <2>2, <2>5, <2>7 DEF Address, Step, Words, w, now, then
<1>6. CASE job.mode[port] = "Fixed"
  BY <1>1, <1>6 DEF Address, Step, Words
<1> QED BY <1>1, <1>4, <1>5, <1>6 DEF Modes

\* One byte more.
LEMMA MovedUnfolds ==
  ASSUME job \in Job, before \in Bus
  PROVE  /\ Moved[0] = before
         /\ \A n \in 0 .. Word : Moved[n] \in Bus
         /\ \A n \in 0 .. Word - 1 :
              Moved[n + 1] =
                [Moved[n] EXCEPT ![job.space[JobDest]][Address(JobDest, n)] =
                   Moved[n][job.space[JobSource]][Address(JobSource, n)]]
<1> DEFINE s == job.space[JobSource]
           d == job.space[JobDest]
           from(n) == Address(JobSource, n)
           to(n) == Address(JobDest, n)
           g == [p \in (0 + 1 .. Word) \X Bus |->
                   [p[2] EXCEPT ![d][to(p[1] - 1)] = p[2][s][from(p[1] - 1)]]]
<1>1. s \in Spaces /\ d \in Spaces
  BY JobPorts DEF Job
<1>2. \A n \in 0 .. Word - 1 : from(n) \in Words /\ to(n) \in Words
  BY AddressOfByte, JobPorts
<1>3. Word \in Nat \ {0}
  BY WordSize
<1> HIDE DEF s, d, from, to
<1>4. ASSUME NEW n \in 0 .. Word - 1, NEW b \in Bus
      PROVE  [b EXCEPT ![d][to(n)] = b[s][from(n)]] \in Bus
  BY <1>1, <1>2 DEF Bus
<1>5. PICK f \in [0 .. Word -> Bus] : Follows(f, 0, Word, before, g)
  <2>1. ASSUME NEW n \in 0 + 1 .. Word, NEW b \in Bus
        PROVE  g[<<n, b>>] \in Bus
    <3>1. n - 1 \in 0 .. Word - 1
      BY <1>3
    <3> QED BY <1>4, <3>1
  <2>2. g \in Rules(0, Word, Bus)
    BY <2>1 DEF Rules
  <2>3. 0 \in Int /\ Word \in Int /\ 0 <= Word
    BY <1>3
  <2> HIDE DEF g
  <2> QED BY <2>2, <2>3, Recursion
<1>6. f = [n \in 0 .. Word |->
             IF n = 0 THEN before
             ELSE [f[n - 1] EXCEPT ![d][to(n - 1)] = f[n - 1][s][from(n - 1)]]]
  <2>1. ASSUME NEW n \in 0 .. Word, n # 0
        PROVE  f[n] = [f[n - 1] EXCEPT ![d][to(n - 1)] = f[n - 1][s][from(n - 1)]]
    <3>1. n \in 0 + 1 .. Word /\ f[n - 1] \in Bus
      BY <1>3, <2>1
    <3>2. f[n] = g[<<n, f[n - 1]>>]
      BY <1>5, <3>1 DEF Follows
    <3> QED BY <3>1, <3>2
  <2>2. f[0] = before
    BY <1>5 DEF Follows
  <2> HIDE DEF g
  <2> QED BY <1>5, <2>1, <2>2
<1>7. Moved = [n \in 0 .. Word |->
                 IF n = 0 THEN before
                 ELSE [Moved[n - 1] EXCEPT ![d][to(n - 1)] = Moved[n - 1][s][from(n - 1)]]]
  BY <1>6 DEF Moved, s, d, from, to
<1>8. /\ Moved[0] = before
      /\ \A n \in 0 .. Word - 1 :
           Moved[n + 1] = [Moved[n] EXCEPT ![d][to(n)] = Moved[n][s][from(n)]]
  <2> DEFINE F == Moved
  <2>1. F = [n \in 0 .. Word |->
               IF n = 0 THEN before
               ELSE [F[n - 1] EXCEPT ![d][to(n - 1)] = F[n - 1][s][from(n - 1)]]]
    BY <1>7
  <2> HIDE DEF F
  <2>2. 0 \in 0 .. Word
    BY <1>3
  <2>3. F[0] = before
    BY <2>1, <2>2
  <2>4. ASSUME NEW n \in 0 .. Word - 1
        PROVE  F[n + 1] = [F[n] EXCEPT ![d][to(n)] = F[n][s][from(n)]]
    <3>1. n + 1 \in 0 .. Word /\ n + 1 # 0 /\ (n + 1) - 1 = n
      BY <1>3
    <3> QED BY <2>1, <3>1
  <2> QED BY <2>3, <2>4 DEF F
<1>9. \A n \in 0 .. Word : Moved[n] \in Bus
  <2> DEFINE S == {n \in 0 .. Word : Moved[n] \in Bus}
  <2>1. 0 \in S
    BY <1>3, <1>8
  <2>2. ASSUME NEW n \in 0 .. Word - 1, n \in S PROVE n + 1 \in S
    <3>1. n + 1 \in 0 .. Word /\ Moved[n] \in Bus
      BY <1>3, <2>2
    <3>2. [Moved[n] EXCEPT ![d][to(n)] = Moved[n][s][from(n)]] \in Bus
      BY <1>4, <3>1
    <3>3. Moved[n + 1] \in Bus
      BY <1>8, <3>2
    <3> QED BY <3>1, <3>3
  <2> HIDE DEF S
  <2>3. 0 .. Word \subseteq S
    BY <1>3, <2>1, <2>2, UpTo
  <2> QED BY <2>3 DEF S
<1> QED BY <1>8, <1>9 DEF s, d, from, to

(***************************************************************************)
(* The program sets the controller up.                                     *)
(***************************************************************************)
LEMMA JobTyped ==
  ASSUME CopyTypeOK
  PROVE  /\ job \in Job /\ job.start \in [Ports -> Words] /\ job.length \in Words
         /\ program \in Program /\ program.start \in [Ports -> Words]
         /\ program.block_length \in Words
BY JobsAssumption DEF CopyTypeOK, DmaTypeOK, Job, Program

\* What is written at each step.
LEMMA SetupAt ==
  ASSUME WriteProgram
  PROVE  /\ at = "reset" => Issue("Reset") /\ at' = "wr0"
         /\ at = "wr0" => /\ WriteWR0(JobWR0(job.direction,
                                             {"PortAAddressLow", "PortAAddressHigh",
                                              "BlockLengthLow", "BlockLengthHigh"}))
                          /\ at' = "a_low"
         /\ at = "a_low" => WriteHalf("PortAAddressLow", Low(job.start["A"])) /\ at' = "a_high"
         /\ at = "a_high" =>
              WriteHalf("PortAAddressHigh", High(job.start["A"])) /\ at' = "len_low"
         /\ at = "len_low" => WriteHalf("BlockLengthLow", Low(job.length)) /\ at' = "len_high"
         /\ at = "len_high" => WriteHalf("BlockLengthHigh", High(job.length)) /\ at' = "wr1"
         /\ at = "wr1" => WriteWR1(JobWR12("WR1", "A")) /\ at' = "wr2"
         /\ at = "wr2" => /\ WriteWR2(JobWR12("WR2", "B"))
                          /\ at' = IF job.search THEN "wr3" ELSE "wr4"
         /\ at = "wr3" => WriteWR3(JobWR3) /\ at' = "match"
         /\ at = "match" => WriteMatchByte(job.match) /\ at' = "wr4"
         /\ at = "wr4" => WriteWR4(JobWR4) /\ at' = "b_low"
         /\ at = "b_low" => WriteHalf("PortBAddressLow", Low(job.start["B"])) /\ at' = "b_high"
         /\ at = "b_high" =>
              WriteHalf("PortBAddressHigh", High(job.start["B"])) /\ at' = "control"
         /\ at = "control" => /\ WriteInterruptControl(JobControl)
                              /\ at' = IF Swapped THEN "swap" ELSE "load"
         /\ at = "swap" => WriteWR0(JobWR0(Other(job.direction), {})) /\ at' = "swap_load"
         /\ at = "swap_load" => Issue("Load") /\ at' = "swap_back"
         /\ at = "swap_back" => WriteWR0(JobWR0(job.direction, {})) /\ at' = "load"
         /\ at = "load" => Issue("Load") /\ at' = "interrupts"
         /\ at = "interrupts" => Issue("EnableInterrupts") /\ at' = "enable"
         /\ at \in Steps \ {"enable", "wait", "done"} /\ at' \in Steps \ {"wait", "done"}
         /\ UNCHANGED <<job, left, before>>
BY DEF WriteProgram, Setup, Do, Swapped, Steps

LEMMA IssueEffect ==
  ASSUME NEW c \in Commands, Issue(c)
  PROVE  CommandEffect(c) /\ UNCHANGED <<bus, panicked>>
BY DEF Issue, WriteWR6, Commands, TodoCommands

LEMMA SetupTypes ==
  ASSUME CopyTypeOK, LetThrough, WriteProgram
  PROVE  CopyTypeOK'
<1>1. DmaTypeOK /\ job \in Job
  BY JobTyped DEF CopyTypeOK
<1>2. /\ \A p \in Ports : job.space[p] \in Spaces /\ job.mode[p] \in Modes
      /\ job.direction \in {"AToB", "BToA"} /\ Other(job.direction) \in {"AToB", "BToA"}
      /\ job.search \in BOOLEAN /\ job.stop \in BOOLEAN /\ job.match \in SUBSET Bits
  BY <1>1 DEF Job, Other
<1>3. ASSUME NEW w \in {job.start["A"], job.start["B"], job.length}
      PROVE  Low(w) \in 0 .. Nibble * Nibble - 1 /\ High(w) \in 0 .. Nibble * Nibble - 1
  <2>1. w \in Words /\ Kept(w)
    BY JobTyped DEF LetThrough, CopyTypeOK, Ports
  <2> QED BY <2>1, HalvesKept
<1>4. CASE at \in {"a_low", "a_high", "len_low", "len_high", "b_low", "b_high"}
  <2>1. PICK r \in Halves, data \in 0 .. Nibble * Nibble - 1 : WriteHalf(r, data)
    BY <1>3, <1>4, SetupAt DEF Halves
  <2>2. DmaTypeOK'
    BY <1>1, <2>1, HalfType
  <2> QED BY <2>2, SetupAt DEF CopyTypeOK
<1>5. CASE at \in {"wr0", "swap", "swap_back"}
  <2>1. PICK h \in WR0 : WriteWR0(h)
    BY <1>2, <1>5, SetupAt DEF JobWR0, WR0
  <2>2. DmaTypeOK'
    BY <1>1, <2>1, WR0Type
  <2> QED BY <2>2, SetupAt DEF CopyTypeOK
<1>6. CASE at \in {"wr1", "wr2"}
  <2>1. PICK h \in WR1 \cup WR2 : WriteWR1(h) \/ WriteWR2(h)
    BY <1>2, <1>6, SetupAt DEF JobWR12, WR1, WR2, Ports
  <2>2. DmaTypeOK'
    BY <1>1, <2>1, WR12Type
  <2> QED BY <2>2, SetupAt DEF CopyTypeOK
<1>7. CASE at = "wr3"
  <2>1. JobWR3 \in WR3
    BY <1>2 DEF JobWR3, WR3
  <2>2. DmaTypeOK'
    BY <1>1, <1>7, <2>1, SetupAt, WR3Type
  <2> QED BY <2>2, SetupAt DEF CopyTypeOK
<1>8. CASE at = "match"
  <2>1. DmaTypeOK'
    BY <1>1, <1>2, <1>8, SetupAt, ByteType
  <2> QED BY <2>1, SetupAt DEF CopyTypeOK
<1>9. CASE at = "wr4"
  <2>1. DmaTypeOK'
    BY <1>1, <1>9, SetupAt, WR4Type
  <2> QED BY <2>1, SetupAt DEF CopyTypeOK
<1>10. CASE at = "control"
  <2>1. JobControl \in Control
    BY <1>2 DEF JobControl, Control
  <2>2. DmaTypeOK'
    BY <1>1, <1>10, <2>1, SetupAt, ControlType
  <2> QED BY <2>2, SetupAt DEF CopyTypeOK
<1>11. CASE at \in {"reset", "swap_load", "load", "interrupts"}
  <2>1. PICK c \in Commands : Issue(c)
    BY <1>11, SetupAt DEF Commands
  <2>2. DmaTypeOK'
    BY <1>1, <2>1, IssueEffect, CommandType
  <2> QED BY <2>2, SetupAt DEF CopyTypeOK
<1> QED BY <1>4, <1>5, <1>6, <1>7, <1>8, <1>9, <1>10, <1>11, SetupAt DEF Steps

LEMMA SetupAddresses ==
  ASSUME CopyInv, LetThrough, WriteProgram
  PROVE  Addresses'
<1> USE DEF Addresses, Started, HasA, HasLength, HasPortA, HasPortB, HasMatch, HasB
<1>1. program \in Program /\ UNCHANGED job
  BY JobTyped, SetupAt DEF CopyInv
<1>2. /\ "A" \in Ports /\ "B" \in Ports
      /\ job.start["A"] \in Words /\ job.start["B"] \in Words /\ job.length \in Words
      /\ Kept(job.start["A"]) /\ Kept(job.start["B"]) /\ Kept(job.length)
  BY JobTyped DEF CopyInv, CopyTypeOK, LetThrough, Ports
<1>3. /\ program.start["A"] \in Words /\ program.start["B"] \in Words
      /\ program.block_length \in Words
      /\ Kept(program.start["A"]) /\ Kept(program.start["B"]) /\ Kept(program.block_length)
  BY <1>2, JobTyped DEF CopyInv
<1>4. ASSUME NEW w \in Words, Kept(w), NEW old \in Words, Kept(old)
      PROVE  /\ WithLow(old, Low(w)) = Low(w) /\ Kept(Low(w))
             /\ WithHigh(Low(w), High(w)) = w
  BY <1>4, HalvesKept
<1>5. CASE at = "a_low"
  <2>1. program' = [program EXCEPT !.start["A"] = Low(job.start["A"])]
    BY <1>2, <1>3, <1>4, <1>5, SetupAt DEF WriteHalf, Set
  <2> QED BY <1>1, <1>2, <1>4, <1>5, <2>1, SetupAt DEF CopyInv, Program, Ports
<1>6. CASE at = "a_high"
  <2>1. program' = [program EXCEPT !.start["A"] = job.start["A"]]
    BY <1>2, <1>4, <1>6, SetupAt DEF CopyInv, WriteHalf, Set
  <2> QED BY <1>1, <1>2, <1>6, <2>1, SetupAt DEF CopyInv, Program, Ports
<1>7. CASE at = "len_low"
  <2>1. program' = [program EXCEPT !.block_length = Low(job.length)]
    BY <1>2, <1>3, <1>4, <1>7, SetupAt DEF WriteHalf, Set
  <2> QED BY <1>1, <1>2, <1>4, <1>7, <2>1, SetupAt DEF CopyInv, Program, Ports
<1>8. CASE at = "len_high"
  <2>1. program' = [program EXCEPT !.block_length = job.length]
    BY <1>2, <1>4, <1>8, SetupAt DEF CopyInv, WriteHalf, Set
  <2> QED BY <1>1, <1>2, <1>8, <2>1, SetupAt DEF CopyInv, Program, Ports
<1>9. CASE at = "b_low"
  <2>1. program' = [program EXCEPT !.start["B"] = Low(job.start["B"])]
    BY <1>2, <1>3, <1>4, <1>9, SetupAt DEF WriteHalf, Set
  <2> QED BY <1>1, <1>2, <1>4, <1>9, <2>1, SetupAt DEF CopyInv, Program, Ports
<1>10. CASE at = "b_high"
  <2>1. program' = [program EXCEPT !.start["B"] = job.start["B"]]
    BY <1>2, <1>4, <1>10, SetupAt DEF CopyInv, WriteHalf, Set
  <2> QED BY <1>1, <1>2, <1>10, <2>1, SetupAt DEF CopyInv, Program, Ports
<1>11. CASE at \notin {"a_low", "a_high", "len_low", "len_high", "b_low", "b_high"}
  <2>1. program'.start = program.start /\ program'.block_length = program.block_length
    <3>1. CASE at \in {"reset", "swap_load", "load", "interrupts"}
      BY <1>1, <3>1, IssueEffect, SetupAt DEF Commands, CommandEffect, Set, Program
    <3>2. CASE at \in {"wr0", "swap", "swap_back"}
      BY <1>1, <3>2, SetupAt DEF WriteWR0, Set, Program
    <3>3. CASE at \in {"wr1", "wr2", "wr3", "match", "wr4", "control"}
      BY <1>1, <3>3, SetupAt DEF WriteWR1, WriteWR2, WriteWR12, WriteWR3, WriteMatchByte,
        WriteWR4, WriteInterruptControl, Set, Program
    <3> QED BY <1>11, <3>1, <3>2, <3>3, SetupAt DEF Steps
  <2> QED BY <1>1, <1>11, <2>1, SetupAt DEF CopyInv, Steps
<1> QED BY <1>5, <1>6, <1>7, <1>8, <1>9, <1>10, <1>11

\* WR0 leaves the other registers alone.
LEMMA BaseWritten ==
  ASSUME program \in Program, NEW h, WriteWR0(h)
  PROVE  /\ program'.transfer = (program.transfer \/ h.transfer)
         /\ program'.search = (program.search \/ h.search)
         /\ program'.direction = h.direction
         /\ \A f \in DOMAIN program \ {"transfer", "search", "direction"} :
              program'[f] = program[f]
<1>1. program' = [program EXCEPT !.transfer = @ \/ h.transfer,
                                 !.search = @ \/ h.search,
                                 !.direction = h.direction]
  BY DEF WriteWR0, Set
<1> QED BY <1>1 DEF Program

LEMMA SetupPorts ==
  ASSUME CopyInv, WriteProgram
  PROVE  PortsSet'
<1> USE DEF PortsSet, Started, HasA, HasLength, HasPortA, HasPortB
<1>1. program \in Program /\ UNCHANGED <<job, left>> /\ "A" \in Ports /\ "B" \in Ports
  BY JobTyped, SetupAt DEF CopyInv, Ports
<1>2. PortsSet
  BY DEF CopyInv
<1>3. CASE at \in {"wr0", "swap", "swap_back"}
  <2> DEFINE d == IF at = "swap" THEN Other(job.direction) ELSE job.direction
  <2>1. PICK follow : WriteWR0(JobWR0(d, follow))
    BY <1>3, SetupAt
  <2> DEFINE h == JobWR0(d, follow)
  <2>2. h.transfer = TRUE /\ h.direction = d /\ WriteWR0(h)
    BY <2>1 DEF JobWR0
  <2> HIDE DEF d, h
  <2>3. program'.transfer = TRUE /\ program'.direction = d
    BY <1>1, <2>2, BaseWritten
  <2>4. program'.space = program.space /\ program'.mode = program.mode
    BY <1>1, <2>2, BaseWritten DEF Program
  <2> QED BY <1>1, <1>2, <1>3, <2>3, <2>4, SetupAt DEF d
<1>4. CASE at = "wr1"
  <2>1. program' = [program EXCEPT !.space["A"] = job.space["A"], !.mode["A"] = job.mode["A"]]
    BY <1>4, SetupAt DEF WriteWR1, WriteWR12, JobWR12, Set
  <2> QED BY <1>1, <1>2, <1>4, <2>1, SetupAt DEF Program
<1>5. CASE at = "wr2"
  <2>1. program' = [program EXCEPT !.space["B"] = job.space["B"], !.mode["B"] = job.mode["B"]]
    BY <1>5, SetupAt DEF WriteWR2, WriteWR12, JobWR12, Set
  <2> QED BY <1>1, <1>2, <1>5, <2>1, SetupAt DEF Program
<1>6. CASE at \notin {"wr0", "swap", "swap_back", "wr1", "wr2"}
  <2>1. /\ program'.space = program.space /\ program'.mode = program.mode
        /\ program'.transfer = program.transfer /\ program'.direction = program.direction
    <3>1. CASE at \in {"reset", "swap_load", "load", "interrupts"}
      BY <1>1, <3>1, IssueEffect, SetupAt DEF Commands, CommandEffect, Set, Program
    <3>2. CASE at \in {"a_low", "a_high", "len_low", "len_high", "b_low", "b_high"}
      BY <1>1, <3>2, SetupAt DEF WriteHalf, Set, Program
    <3>3. CASE at \in {"wr3", "match", "wr4", "control"}
      BY <1>1, <3>3, SetupAt DEF WriteWR3, WriteMatchByte, WriteWR4, WriteInterruptControl,
        Set, Program
    <3> QED BY <1>6, <3>1, <3>2, <3>3, SetupAt DEF Steps
  <2> QED BY <1>1, <1>2, <1>6, <2>1, SetupAt DEF Steps
<1> QED BY <1>3, <1>4, <1>5, <1>6

LEMMA SetupSearch ==
  ASSUME CopyInv, WriteProgram
  PROVE  SearchSet'
<1> USE DEF SearchSet, Started, HasA, HasLength, HasPortA, HasPortB, HasMatch
<1>1. /\ program \in Program /\ UNCHANGED <<job, left>>
      /\ job.search \in BOOLEAN /\ job.match \in SUBSET Bits
  BY JobTyped, SetupAt DEF CopyInv, Job
<1>2. SearchSet
  BY DEF CopyInv
<1>3. CASE at \in {"wr0", "swap", "swap_back"}
  <2>1. /\ program'.mask_byte = program.mask_byte /\ program'.match_byte = program.match_byte
        /\ program'.search = (program.search \/ job.search)
    BY <1>1, <1>3, BaseWritten, SetupAt DEF JobWR0, Program
  <2> QED BY <1>1, <1>2, <1>3, <2>1, SetupAt
<1>4. CASE at = "match"
  <2>1. program' = [program EXCEPT !.match_byte = job.match]
    BY <1>4, SetupAt DEF WriteMatchByte, Set
  <2> QED BY <1>1, <1>2, <1>4, <2>1, SetupAt DEF Program
<1>5. CASE at \notin {"wr0", "swap", "swap_back", "match"}
  <2>1. /\ program'.mask_byte = program.mask_byte /\ program'.match_byte = program.match_byte
        /\ program'.search = program.search
    <3>1. CASE at \in {"reset", "swap_load", "load", "interrupts"}
      BY <1>1, <3>1, IssueEffect, SetupAt DEF Commands, CommandEffect, Set, Program
    <3>2. CASE at \in {"a_low", "a_high", "len_low", "len_high", "b_low", "b_high"}
      BY <1>1, <3>2, SetupAt DEF WriteHalf, Set, Program
    <3>3. CASE at \in {"wr1", "wr2", "wr3", "wr4", "control"}
      BY <1>1, <3>3, SetupAt DEF WriteWR1, WriteWR2, WriteWR12, WriteWR3, WriteWR4,
        WriteInterruptControl, Set, Program
    <3> QED BY <1>5, <3>1, <3>2, <3>3, SetupAt DEF Steps
  <2> QED BY <1>1, <1>2, <1>5, <2>1, SetupAt DEF Steps
<1> QED BY <1>3, <1>4, <1>5

LEMMA SetupInterrupts ==
  ASSUME CopyInv, WriteProgram
  PROVE  InterruptsSet'
<1> USE DEF InterruptsSet, Started, HasA, HasLength, HasPortA, HasPortB, HasMatch, HasB,
      HasControl, Moving
<1>1. program \in Program /\ UNCHANGED <<job, left>> /\ job.search \in BOOLEAN
  BY JobTyped, SetupAt DEF CopyInv, Job
<1>2. InterruptsSet
  BY DEF CopyInv
<1>3. CASE at = "reset"
  <2>1. program' = [program EXCEPT !.interrupts_enabled = FALSE,
                                   !.restart_at_end_of_block = FALSE]
    BY <1>3, IssueEffect, SetupAt DEF Commands, CommandEffect, Set
  <2> QED BY <1>1, <1>2, <1>3, <2>1, SetupAt DEF Program
<1>4. CASE at = "control"
  <2>1. program' = [program EXCEPT !.interrupt_on_match = job.search,
                                   !.interrupt_at_end_of_block = TRUE,
                                   !.interrupt_on_ready = FALSE]
    BY <1>4, SetupAt DEF WriteInterruptControl, JobControl, Set
  <2> QED BY <1>1, <1>2, <1>4, <2>1, SetupAt DEF Program
<1>5. CASE at = "interrupts"
  <2>1. program' = [program EXCEPT !.interrupts_enabled = TRUE]
    BY <1>5, IssueEffect, SetupAt DEF Commands, CommandEffect, Set
  <2> QED BY <1>1, <1>2, <1>5, <2>1, SetupAt DEF Program
<1>6. CASE at \notin {"reset", "control", "interrupts"}
  <2>1. /\ program'.restart_at_end_of_block = program.restart_at_end_of_block
        /\ program'.interrupt_on_ready = program.interrupt_on_ready
        /\ program'.interrupt_on_match = program.interrupt_on_match
        /\ program'.interrupt_at_end_of_block = program.interrupt_at_end_of_block
    <3>1. CASE at \in {"swap_load", "load"}
      BY <1>1, <3>1, IssueEffect, SetupAt DEF Commands, CommandEffect, Set, Program
    <3>2. CASE at \in {"a_low", "a_high", "len_low", "len_high", "b_low", "b_high"}
      BY <1>1, <3>2, SetupAt DEF WriteHalf, Set, Program
    <3>3. CASE at \in {"wr0", "swap", "swap_back"}
      <4>1. PICK h : WriteWR0(h)
        BY <3>3, SetupAt
      <4> QED BY <1>1, <4>1, BaseWritten DEF Program
    <3>4. CASE at \in {"wr1", "wr2", "wr3", "wr4", "match"}
      BY <1>1, <3>4, SetupAt DEF WriteWR1, WriteWR2, WriteWR12, WriteWR3, WriteWR4,
        WriteMatchByte, Set, Program
    <3> QED BY <1>6, <3>1, <3>2, <3>3, <3>4, SetupAt DEF Steps
  <2> QED BY <1>1, <1>2, <1>6, <2>1, SetupAt DEF Steps
<1> QED BY <1>3, <1>4, <1>5, <1>6

LEMMA SetupCounters ==
  ASSUME CopyInv, WriteProgram
  PROVE  CountersSet'
<1> USE DEF CountersSet, Loading, Moving, Later, Swapped
<1>1. /\ counter \in [Ports -> Words] /\ program \in Program /\ UNCHANGED <<job, left>>
      /\ JobSource \in Ports /\ JobDest \in Ports /\ JobSource # JobDest
      /\ UNCHANGED <<JobSource, JobDest>>
  BY JobTyped, JobPorts, SetupAt DEF CopyInv, CopyTypeOK, DmaTypeOK, JobSource, JobDest
<1>2. CountersSet
  BY DEF CopyInv
<1>3. CASE at \in {"swap_load", "load"}
  <2>1. /\ counter' = [counter EXCEPT ![Source] = program.start[Source]]
        /\ byte_counter' = 0 /\ status' = status
    BY <1>3, IssueEffect, SetupAt DEF Commands, CommandEffect
  <2>2. program.start["A"] = job.start["A"] /\ program.start["B"] = job.start["B"]
    BY <1>3
    DEF CopyInv, Addresses, Started, HasA, HasLength, HasPortA, HasPortB, HasMatch, HasB
  <2>3. Source = IF at = "load" THEN JobSource ELSE JobDest
    BY <1>3, JobTyped DEF CopyInv, PortsSet, Started, Source, JobSource, JobDest, Other, Job
  <2>4. program.start[Source] = job.start[Source]
    BY <2>2 DEF Source
  <2> QED BY <1>1, <1>2, <1>3, <2>1, <2>3, <2>4, SetupAt
<1>4. CASE at = "reset"
  <2>1. status' = status \ {"INTERRUPT_PENDING"}
    BY <1>4, IssueEffect, SetupAt DEF Commands, CommandEffect
  <2> QED BY <1>1, <1>2, <1>4, <2>1, SetupAt
<1>5. CASE at \notin {"reset", "swap_load", "load"}
  <2>1. UNCHANGED <<counter, byte_counter, status>>
    <3>1. CASE at = "interrupts"
      BY <3>1, IssueEffect, SetupAt DEF Commands, CommandEffect
    <3>2. CASE at # "interrupts"
      BY <1>5, <3>2, SetupAt DEF Steps, WriteHalf, WriteWR0, WriteWR1, WriteWR2, WriteWR12,
        WriteWR3, WriteWR4, WriteMatchByte, WriteInterruptControl
    <3> QED BY <3>1, <3>2
  <2> QED BY <1>1, <1>2, <1>5, <2>1, SetupAt DEF Steps
<1> QED BY <1>3, <1>4, <1>5

LEMMA SetupStep ==
  ASSUME CopyInv, LetThrough, WriteProgram
  PROVE  CopyInv'
<1>1. Progress'
  BY SetupAt DEF Progress, Steps
<1> QED BY <1>1, SetupTypes, SetupAddresses, SetupPorts, SetupSearch, SetupInterrupts,
           SetupCounters DEF CopyInv

(***************************************************************************)
(* The controller moves the block.                                         *)
(***************************************************************************)
\* The reference depends on the job and on the bus the controller started with only.
LEMMA Unmoved ==
  ASSUME UNCHANGED <<job, before>>
  PROVE  /\ UNCHANGED <<JobSource, JobDest, Length, Moved>>
         /\ \A p, i : Address(p, i)' = Address(p, i)
         /\ \A i : Found(i)' = Found(i)
         /\ \A n : IsBlock(n)' = IsBlock(n)
<1>1. UNCHANGED <<JobSource, JobDest, Length>>
  BY DEF JobSource, JobDest, Length
<1>2. \A p, i : Address(p, i)' = Address(p, i)
  BY DEF Address
<1>3. UNCHANGED Moved
  BY <1>1, <1>2 DEF Moved, Address
<1>4. \A i : Found(i)' = Found(i)
  BY <1>1, <1>2, <1>3 DEF Found
<1>5. \A n : IsBlock(n)' = IsBlock(n)
  BY <1>1, <1>4 DEF IsBlock
<1> QED BY <1>1, <1>2, <1>3, <1>4, <1>5

LEMMA MovedStarts == job \in Job /\ before \in Bus => Moved[0] = before
BY MovedUnfolds

LEMMA MovedStartsNext == (job \in Job /\ before \in Bus => Moved[0] = before)'
BY MovedStarts, PTL
\* With the program at its end, the registers are the job's.
LEMMA SetUp ==
  ASSUME CopyInv, at \in {"enable", "wait"}
  PROVE  /\ Source = JobSource /\ Dest = JobDest
         /\ \A p \in Ports : /\ program.start[p] = job.start[p]
                             /\ program.space[p] = job.space[p]
                             /\ program.mode[p] = job.mode[p]
         /\ program.block_length = job.length /\ program.transfer
         /\ job.search => program.search /\ program.match_byte = job.match
         /\ program.mask_byte = {} /\ program.interrupt_on_match = job.search
         /\ program.interrupt_at_end_of_block /\ program.interrupts_enabled
         /\ ~program.restart_at_end_of_block /\ ~program.interrupt_on_ready
<1> USE DEF Started, HasA, HasLength, HasPortA, HasPortB, HasMatch, HasB, HasControl, Moving
<1>1. program \in Program /\ job \in Job
  BY JobTyped DEF CopyInv
<1>2. program.direction = job.direction /\ program.transfer
  BY DEF CopyInv, PortsSet
<1>3. Source = JobSource /\ Dest = JobDest
  BY <1>2 DEF Source, JobSource, Dest, JobDest
<1>4. \A p \in Ports : /\ program.start[p] = job.start[p]
                       /\ program.space[p] = job.space[p]
                       /\ program.mode[p] = job.mode[p]
  BY DEF CopyInv, Addresses, PortsSet, Ports
<1>5. program.block_length = job.length
  BY DEF CopyInv, Addresses
<1>6. /\ job.search => program.search /\ program.match_byte = job.match
      /\ program.mask_byte = {}
  BY <1>1 DEF CopyInv, SearchSet, Program, Job
<1>7. /\ program.interrupt_on_match = job.search
      /\ program.interrupt_at_end_of_block /\ program.interrupts_enabled
      /\ ~program.restart_at_end_of_block /\ ~program.interrupt_on_ready
  BY DEF CopyInv, InterruptsSet
<1> QED BY <1>2, <1>3, <1>4, <1>5, <1>6, <1>7

LEMMA LengthInRange ==
  ASSUME job \in Job
  PROVE  /\ Length \in 1 .. Word
         /\ \A n \in 1 .. Word : n % Word = job.length <=> n = Length
<1>1. job.length \in 0 .. Word - 1
  BY DEF Job, Words
<1>2. Word \in Nat \ {0}
  BY WordSize
<1>3. ASSUME NEW n \in 1 .. Word PROVE n % Word = IF n = Word THEN 0 ELSE n
  BY NibbleAssumption, <1>2, <1>3 DEF Word
<1> QED BY <1>1, <1>2, <1>3 DEF Length

LEMMA EnableStep ==
  ASSUME CopyInv, DetourTaken, EnableBlock
  PROVE  CopyInv'
<1>1. /\ at = "enable" /\ at' = "wait" /\ before' = bus
      /\ UNCHANGED <<job, left, bus, status, program, counter, byte_counter, write_order,
                     read_order, panicked>>
      /\ enabled' = TRUE
  BY IssueEffect DEF EnableBlock, Do, CommandEffect, Commands
<1>2. CopyTypeOK /\ job \in Job
  BY JobTyped DEF CopyInv
<1>3. CopyTypeOK'
  BY <1>1, <1>2 DEF CopyTypeOK, DmaTypeOK, Steps, Bus
<1>4. Addresses' /\ PortsSet' /\ SearchSet' /\ InterruptsSet' /\ CountersSet'
  BY <1>1 DEF CopyInv, Addresses, PortsSet, SearchSet, InterruptsSet, CountersSet, Started,
    HasA, HasLength, HasPortA, HasPortB, HasMatch, HasB, HasControl, Loading, Moving
<1>5. /\ UNCHANGED <<JobSource, JobDest, Length>>
      /\ \A p : Address(p, 0)' = Address(p, 0)
  BY <1>1 DEF JobSource, JobDest, Length, Address
<1>6. /\ Address(JobSource, 0) = job.start[JobSource]
      /\ Address(JobDest, 0) = job.start[JobDest]
  <2>1. 0 \in 0 .. Word - 1
    BY WordSize
  <2> QED BY <1>2, <2>1, AddressOfByte, JobPorts
<1>7. DestCounter = job.start[JobDest]
  <2>1. Swapped => counter[JobDest] = job.start[JobDest]
    BY <1>1 DEF CopyInv, CountersSet, Loading
  <2>2. "TRANSFER_OCCURRED" \in status => Later
    BY <1>1 DEF CopyInv, CountersSet, Moving
  <2>3. Later => Detour
    BY <1>2, JobsAssumption DEF Later, DetourTaken, CopyTypeOK
  <2>4. program.start[Dest] = job.start[JobDest] /\ program.mode[Dest] = job.mode[JobDest]
    BY <1>1, SetUp, JobPorts
  <2>5. Dest = JobDest
    BY <1>1, SetUp
  <2> QED BY <2>1, <2>2, <2>3, <2>4, <2>5 DEF DestCounter, Swapped
<1>8. DestCounter' = DestCounter
  BY <1>1 DEF DestCounter, Dest
<1>9. Moved[0]' = bus'
  BY <1>1, <1>3, MovedStartsNext, <1>2, JobsAssumption DEF CopyTypeOK, Bus
<1>10. byte_counter = 0 /\ counter[JobSource] = job.start[JobSource]
       /\ "INTERRUPT_PENDING" \notin status
  BY <1>1 DEF CopyInv, CountersSet, Moving
<1>11. 0 \in 0 .. Length - 1 /\ 0 .. 0 - 1 = {}
  BY <1>2, LengthInRange
<1>12. MovedSoFar(0)'
  BY <1>1, <1>5, <1>6, <1>7, <1>8, <1>9, <1>10, <1>11 DEF MovedSoFar
<1>13. Progress'
  BY <1>1, <1>5, <1>11, <1>12 DEF Progress
<1> QED BY <1>3, <1>4, <1>13 DEF CopyInv

LEMMA WaitStep ==
  ASSUME CopyInv, WaitBlock
  PROVE  CopyInv'
<1>1. /\ at = "wait" /\ at' = "done" /\ "INTERRUPT_PENDING" \in status
      /\ UNCHANGED <<vars, job, left, before>>
  BY DEF WaitBlock, Do
<1>2. CopyTypeOK'
  BY <1>1 DEF CopyInv, CopyTypeOK, DmaTypeOK, Steps, vars
<1>3. Addresses' /\ PortsSet' /\ SearchSet' /\ InterruptsSet' /\ CountersSet'
  BY <1>1 DEF CopyInv, Addresses, PortsSet, SearchSet, InterruptsSet, CountersSet, Started,
    HasA, HasLength, HasPortA, HasPortB, HasMatch, HasB, HasControl, Loading, Moving, vars,
    Later, Swapped
<1>4. Finished
  BY <1>1 DEF CopyInv, Progress, MovedSoFar, StoppedSilently
<1>5. Finished'
  BY <1>1, <1>4, Unmoved DEF Finished, vars
<1>6. Progress'
  BY <1>1, <1>5 DEF Progress
<1> QED BY <1>2, <1>3, <1>6 DEF CopyInv

LEMMA NextStep ==
  ASSUME CopyInv, NextBlock
  PROVE  CopyInv'
<1>1. /\ at = "done" /\ at' = "reset" /\ left > 0 /\ left' = left - 1 /\ job' \in LaterJobs
      /\ UNCHANGED <<vars, before>>
  BY DEF NextBlock
<1>2. left \in 0 .. Blocks - 1 /\ Blocks \in Nat \ {0}
  BY JobsAssumption DEF CopyInv, CopyTypeOK
<1>3. CopyTypeOK'
  BY <1>1, <1>2 DEF CopyInv, CopyTypeOK, DmaTypeOK, Steps, vars
<1>4. Addresses' /\ PortsSet' /\ InterruptsSet'
  BY <1>1 DEF CopyInv, Addresses, PortsSet, InterruptsSet, Started,
    HasA, HasLength, HasPortA, HasPortB, HasMatch, HasB, HasControl, Moving, vars
<1>5. SearchSet'
  BY <1>1 DEF CopyInv, SearchSet, Started, HasA, HasLength, HasPortA, HasPortB, HasMatch, vars
<1>6. CountersSet'
  BY <1>1, <1>2 DEF CountersSet, Later, Loading, Moving
<1>7. Progress'
  BY <1>1 DEF Progress
<1> QED BY <1>3, <1>4, <1>5, <1>6, <1>7 DEF CopyInv

\* The next byte of a block is moved.  The controller interrupts after the last one or
\* one that was found, and a block without a search may be stopped before, silently.
LEMMA ByteMoved ==
  ASSUME CopyInv, at = "wait", Tick, NEW n \in 0 .. Length - 1, MovedSoFar(n)
  PROVE  /\ bus' = Moved[n + 1]
         /\ counter'[JobSource] = Address(JobSource, n + 1)
         /\ counter'[JobDest] = Address(JobDest, n + 1)
         /\ "TRANSFER_OCCURRED" \in status'
         /\ "INTERRUPT_PENDING" \in status' => Found(n) \/ n + 1 = Length
         /\ "INTERRUPT_PENDING" \notin status' =>
              \/ ~Found(n) /\ n + 1 # Length /\ byte_counter' = n + 1
              \/ ~enabled' /\ ~job.search
<1>1. job \in Job /\ before \in Bus /\ counter \in [Ports -> Words]
  BY JobTyped DEF CopyInv, CopyTypeOK, DmaTypeOK
<1>2. n \in 0 .. Word - 1 /\ n + 1 \in 1 .. Word /\ Word \in Nat \ {0}
  BY <1>1, LengthInRange, WordSize
<1> DEFINE byte == Moved[n][job.space[JobSource]][Address(JobSource, n)]
<1>3. JobSource \in Ports /\ JobDest \in Ports /\ JobSource # JobDest
  BY JobPorts
<1>4. /\ Source = JobSource /\ Dest = JobDest
      /\ program.space[Source] = job.space[JobSource]
      /\ program.space[Dest] = job.space[JobDest]
      /\ program.mode[Source] = job.mode[JobSource]
      /\ program.mode[Dest] = job.mode[JobDest]
  BY <1>3, SetUp
<1>5. /\ bus = Moved[n] /\ byte_counter = n /\ "INTERRUPT_PENDING" \notin status
      /\ counter[Source] = Address(JobSource, n) /\ DestCounter = Address(JobDest, n)
  BY <1>4 DEF MovedSoFar
<1>6. ByteRead = byte
  BY <1>4, <1>5 DEF ByteRead
<1>7. bus' = Moved[n + 1]
  BY <1>1, <1>2, <1>4, <1>5, <1>6, SetUp, MovedUnfolds DEF Tick
<1>8. /\ counter'[JobSource] = Address(JobSource, n + 1)
      /\ counter'[JobDest] = Address(JobDest, n + 1)
  <2>1. counter' = [counter EXCEPT
                      ![JobSource] = Step(@, job.mode[JobSource]),
                      ![JobDest] = Step(DestCounter, job.mode[JobDest])]
    BY <1>4 DEF Tick
  <2>2. /\ Step(Address(JobSource, n), job.mode[JobSource]) = Address(JobSource, n + 1)
        /\ Step(Address(JobDest, n), job.mode[JobDest]) = Address(JobDest, n + 1)
    BY <1>1, <1>2, <1>3, AddressOfByte
  <2> QED BY <1>1, <1>3, <1>4, <1>5, <2>1, <2>2
<1>9. (Found(n) => Matched) /\ (Matched /\ job.search => Found(n))
  BY <1>6, SetUp DEF Matched, Found
<1>10. Ended <=> ~Stopped /\ n + 1 = Length
  BY <1>1, <1>2, <1>5, LengthInRange, SetUp DEF Ended
<1>11. "TRANSFER_OCCURRED" \in status' /\ ("INTERRUPT_PENDING" \in status' <=> Interrupts)
  BY <1>5 DEF Tick
<1>12. Interrupts => Found(n) \/ n + 1 = Length
  BY <1>9, <1>10, SetUp DEF Interrupts
<1>13. ASSUME ~Interrupts, Matched
       PROVE  ~enabled' /\ ~job.search
  <2>1. ~job.search
    BY <1>9, <1>13, SetUp DEF Interrupts
  <2> QED BY <1>13, <2>1 DEF Tick
<1>14. ASSUME ~Interrupts, ~Matched
       PROVE  ~Found(n) /\ n + 1 # Length /\ byte_counter' = n + 1
  <2>1. ~Stopped /\ ~Ended
    BY <1>14, SetUp DEF Stopped, Interrupts
  <2>2. n + 1 # Length
    BY <1>10, <2>1
  <2>3. n + 1 \in 0 .. Word - 1
    BY <1>1, <1>2, <2>2, LengthInRange
  <2>4. (n + 1) % Word = n + 1
    BY <1>2, <2>3
  <2> QED BY <1>5, <1>9, <1>14, <2>1, <2>2, <2>4 DEF Tick
<1> QED BY <1>7, <1>8, <1>11, <1>12, <1>13, <1>14

LEMMA TickStep ==
  ASSUME CopyInv, TickBlock
  PROVE  CopyInv'
<1>1. /\ at = "wait" /\ "INTERRUPT_PENDING" \notin status /\ Tick
      /\ UNCHANGED <<job, at, left, before, program>>
  BY DEF TickBlock, Tick
<1>2. CopyTypeOK /\ job \in Job
  BY JobTyped DEF CopyInv
<1>3. DmaTypeOK'
  BY <1>1, <1>2, TickType DEF CopyTypeOK
<1>4. CopyTypeOK'
  BY <1>1, <1>2, <1>3 DEF CopyTypeOK
<1>5. Addresses' /\ PortsSet' /\ SearchSet' /\ InterruptsSet' /\ CountersSet'
  BY <1>1 DEF CopyInv, Addresses, PortsSet, SearchSet, InterruptsSet, CountersSet, Started,
    HasA, HasLength, HasPortA, HasPortB, HasMatch, HasB, HasControl, Loading, Moving
<1>6. PICK n \in 0 .. Length - 1 : MovedSoFar(n)
  BY <1>1 DEF CopyInv, Progress, StoppedSilently, Tick
<1>7. Length \in 1 .. Word /\ n \in Nat /\ Length \in Nat
  BY <1>2, LengthInRange, WordSize
<1>8. n + 1 \in 1 .. Length /\ (n + 1) - 1 = n /\ (n + 1) - 2 = n - 1
  BY <1>7
<1>9. CASE "INTERRUPT_PENDING" \in status'
  <2>1. IsBlock(n + 1)
    <3>1. Found(n) \/ n + 1 = Length
      BY <1>1, <1>6, <1>9, ByteMoved
    <3> QED BY <1>6, <1>8, <3>1 DEF IsBlock, MovedSoFar
  <2>2. bus' = Moved[n + 1]
    BY <1>1, <1>6, ByteMoved
  <2>3. Finished'
    BY <1>1, <1>8, <2>1, <2>2, Unmoved DEF Finished
  <2>4. Progress'
    BY <1>1, <1>9, <2>3 DEF Progress
  <2> QED BY <1>4, <1>5, <2>4 DEF CopyInv
<1>10. CASE "INTERRUPT_PENDING" \notin status' /\ ~enabled' /\ ~job.search
  <2>1. Progress'
    BY <1>1, <1>10 DEF Progress, StoppedSilently
  <2> QED BY <1>4, <1>5, <2>1 DEF CopyInv
<1>11. CASE "INTERRUPT_PENDING" \notin status' /\ (enabled' \/ job.search)
  <2>1. /\ ~Found(n) /\ n + 1 # Length
        /\ bus' = Moved[n + 1] /\ byte_counter' = n + 1
        /\ counter'[JobSource] = Address(JobSource, n + 1)
        /\ counter'[JobDest] = Address(JobDest, n + 1)
        /\ "TRANSFER_OCCURRED" \in status'
    BY <1>1, <1>6, <1>11, ByteMoved
  <2>2. n + 1 \in 0 .. Length - 1
    BY <1>7, <2>1
  <2>3. \A i \in 0 .. (n + 1) - 1 : ~Found(i)
    <3>1. \A i \in 0 .. n - 1 : ~Found(i)
      BY <1>6 DEF MovedSoFar
    <3>2. \A i \in 0 .. (n + 1) - 1 : i = n \/ i \in 0 .. n - 1
      BY <1>7
    <3> QED BY <2>1, <3>1, <3>2
  <2>4. DestCounter' = Address(JobDest, n + 1)
    <3>1. Dest = JobDest
      BY <1>1, SetUp
    <3>2. DestCounter' = counter'[Dest]
      BY <1>1, <2>1 DEF DestCounter, Dest
    <3> QED BY <2>1, <3>1, <3>2
  <2>5. MovedSoFar(n + 1)'
    BY <1>1, <1>11, <2>1, <2>2, <2>3, <2>4, Unmoved DEF MovedSoFar
  <2>6. Progress'
    BY <1>1, <2>2, <2>5, Unmoved DEF Progress
  <2> QED BY <1>4, <1>5, <2>6 DEF CopyInv
<1> QED BY <1>9, <1>10, <1>11

LEMMA CopyStarts == CopyInit => CopyInv
<1> SUFFICES ASSUME CopyInit PROVE CopyInv
  OBVIOUS
<1>1. Init /\ job \in Jobs /\ at = "wr0" /\ left = Blocks - 1 /\ before = bus
  BY DEF CopyInit
<1>2. DmaTypeOK
  BY <1>1, TypeInit
<1>3. CopyTypeOK
  BY <1>1, <1>2, JobsAssumption DEF CopyTypeOK, DmaTypeOK, Steps, Bus
<1>4. Kept(0)
  BY NibbleAssumption DEF Kept
<1>5. program = DefaultProgram /\ status = {}
  BY <1>1 DEF Init
<1>6. Addresses /\ PortsSet
  BY <1>1, <1>4, <1>5 DEF DefaultProgram, Addresses, PortsSet, Started,
    HasA, HasLength, HasPortA, HasPortB, HasMatch, HasB, Ports
<1>7. InterruptsSet /\ CountersSet /\ Progress
  BY <1>1, <1>5 DEF DefaultProgram, InterruptsSet, CountersSet, Progress, Started,
    HasA, HasLength, HasPortA, HasPortB, HasMatch, HasB, HasControl, Loading, Moving
<1>8. SearchSet
  BY <1>1, <1>5, JobsAssumption
  DEF DefaultProgram, SearchSet, Started, HasA, HasLength, HasPortA,
    HasPortB, HasMatch
<1> QED BY <1>3, <1>6, <1>7, <1>8 DEF CopyInv

LEMMA CopyStep ==
  LetThrough /\ DetourTaken /\ CopyInv /\ [CopyNext]_copyVars => CopyInv'
<1> SUFFICES ASSUME LetThrough, DetourTaken, CopyInv, [CopyNext]_copyVars
             PROVE  CopyInv'
  OBVIOUS
<1>1. CASE WriteProgram
  BY <1>1, SetupStep
<1>2. CASE EnableBlock
  BY <1>2, EnableStep
<1>3. CASE TickBlock
  BY <1>3, TickStep
<1>4. CASE WaitBlock
  BY <1>4, WaitStep
<1>5. CASE NextBlock
  BY <1>5, NextStep
<1>6. CASE UNCHANGED copyVars
  <2>1. UNCHANGED <<vars, job, at, left, before>>
    BY <1>6 DEF copyVars, vars
  <2>2. CopyTypeOK'
    BY <2>1 DEF CopyInv, CopyTypeOK, DmaTypeOK, vars
  <2>3. Addresses' /\ PortsSet' /\ SearchSet' /\ InterruptsSet' /\ CountersSet'
    BY <2>1 DEF CopyInv, Addresses, PortsSet, SearchSet, InterruptsSet, CountersSet, Started,
      HasA, HasLength, HasPortA, HasPortB, HasMatch, HasB, HasControl, Loading, Moving, vars,
      Later, Swapped, JobSource, JobDest
  <2>4. Finished => Finished'
    BY <2>1, Unmoved DEF Finished, vars
  <2>5. ASSUME NEW n \in 0 .. Length - 1, MovedSoFar(n)
        PROVE  MovedSoFar(n)'
    <3>1. DestCounter' = DestCounter
      BY <2>1 DEF DestCounter, Dest, vars
    <3> QED BY <2>1, <2>5, <3>1, Unmoved DEF MovedSoFar, vars
  <2>6. Progress'
    BY <2>1, <2>4, <2>5, Unmoved DEF CopyInv, Progress, StoppedSilently, vars
  <2> QED BY <2>2, <2>3, <2>6 DEF CopyInv
<1> QED BY <1>1, <1>2, <1>3, <1>4, <1>5, <1>6 DEF CopyNext

\* What the controller's test claims of the block it copies (dma/tests.rs:33), for
\* blocks of every length, direction, address mode and space, overlapping or wrapping
\* around, one after the other: when the interrupt arrives, the bytes up to the end of
\* the block, or to the first one searched for, were moved one by one and no other byte
\* of the bus was touched (dma/mod.rs:221-363).  The hypotheses are what the code needs:
\* without LetThrough the masks lose part of an address (dma/mod.rs:634-661), without
\* DetourTaken a second destination is not loaded (dma/mod.rs:267-280).  A block after
\* a search searches too (dma/mod.rs:433-441): a byte that matches stops it without an
\* interrupt, and it never comes to its end.
THEOREM BlocksCopied ==
  LetThrough /\ DetourTaken => (CopySpec => []BlockCopied)
<1>1. CopyInv => BlockCopied
  BY DEF CopyInv, Progress, Finished, BlockCopied
<1>2. SUFFICES ASSUME LetThrough /\ DetourTaken
               PROVE  CopySpec => []BlockCopied
  OBVIOUS
<1>3. CopyInit => CopyInv
  BY <1>2, CopyStarts
<1>4. CopyInv /\ [CopyNext]_copyVars => CopyInv'
  BY <1>2, CopyStep
<1> QED BY <1>1, <1>3, <1>4, PTL DEF CopySpec
=============================================================================
