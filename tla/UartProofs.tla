----------------------------- MODULE UartProofs -----------------------------
(***************************************************************************)
(* Theorems about Uart: for any bytes, any size of the fifo and any number *)
(* of bytes each way, nothing is lost, repeated or overtaken between the   *)
(* host and the guest.                                                     *)
(***************************************************************************)
EXTENDS Uart, SequenceTheorems, TLAPS

(***************************************************************************)
(* Moving an element from the front of one sequence to the end of another. *)
(***************************************************************************)
LEMMA MovedOver ==
  ASSUME NEW S, NEW s \in Seq(S), NEW t \in Seq(S), t # <<>>
  PROVE  Append(s, Head(t)) \o Tail(t) = s \o t
<1>1. /\ Head(t) \in S /\ Tail(t) \in Seq(S) /\ Len(Tail(t)) = Len(t) - 1
      /\ \A i \in 1 .. Len(Tail(t)) : Tail(t)[i] = t[i + 1]
      /\ Head(t) = t[1]
  BY HeadTailProperties
<1>2. /\ Append(s, Head(t)) \in Seq(S) /\ Len(Append(s, Head(t))) = Len(s) + 1
      /\ \A i \in 1 .. Len(s) : Append(s, Head(t))[i] = s[i]
      /\ Append(s, Head(t))[Len(s) + 1] = t[1]
  BY <1>1, AppendProperties
<1> DEFINE a == Append(s, Head(t))  r == Tail(t)
<1>3. /\ a \o r \in Seq(S) /\ Len(a \o r) = Len(a) + Len(r)
      /\ \A i \in 1 .. Len(a) + Len(r) :
           (a \o r)[i] = IF i <= Len(a) THEN a[i] ELSE r[i - Len(a)]
  BY <1>1, <1>2, ConcatProperties
<1>4. /\ s \o t \in Seq(S) /\ Len(s \o t) = Len(s) + Len(t)
      /\ \A i \in 1 .. Len(s) + Len(t) :
           (s \o t)[i] = IF i <= Len(s) THEN s[i] ELSE t[i - Len(s)]
  BY ConcatProperties
<1>5. Len(s) \in Nat /\ Len(t) \in Nat
  BY LenProperties
<1>6. ASSUME NEW i \in 1 .. Len(a \o r)
      PROVE  (a \o r)[i] = (s \o t)[i]
  <2> HIDE DEF a, r
  <2>1. i \in 1 .. Len(s) + Len(t) /\ Len(a) = Len(s) + 1 /\ Len(r) = Len(t) - 1
    BY <1>1, <1>2, <1>3, <1>5 DEF a, r
  <2>2. CASE i <= Len(s)
    BY <1>2, <1>3, <1>4, <1>5, <2>1, <2>2 DEF a
  <2>3. CASE i = Len(s) + 1
    BY <1>2, <1>3, <1>4, <1>5, <2>1, <2>3 DEF a
  <2>4. CASE i > Len(s) + 1
    <3>1. i - Len(a) \in 1 .. Len(r) /\ (i - Len(a)) + 1 = i - Len(s)
      BY <1>5, <2>1, <2>4
    <3>2. (a \o r)[i] = r[i - Len(a)]
      BY <1>3, <1>5, <2>1, <2>4
    <3>3. r[i - Len(a)] = t[i - Len(s)]
      BY <1>1, <3>1 DEF r
    <3> QED BY <1>4, <1>5, <2>1, <2>4, <3>2, <3>3
  <2> QED BY <1>5, <2>1, <2>2, <2>3, <2>4
<1>7. Len(a \o r) = Len(s \o t)
  BY <1>1, <1>2, <1>3, <1>4, <1>5
<1> QED
  <2> HIDE DEF a, r
  <2>1. a \o r = s \o t
    BY <1>3, <1>4, <1>6, <1>7, SeqEqual
  <2> QED BY <2>1 DEF a, r

\* An element appended to the second of two sequences.
LEMMA AppendedBehind ==
  ASSUME NEW S, NEW s \in Seq(S), NEW t \in Seq(S), NEW e \in S
  PROVE  s \o Append(t, e) = Append(s \o t, e)
<1>1. Append(t, e) = t \o <<e>> /\ s \o t \in Seq(S) /\ <<e>> \in Seq(S)
  BY AppendIsConcat, ConcatProperties
<1>2. Append(s \o t, e) = (s \o t) \o <<e>>
  BY <1>1, AppendIsConcat
<1> QED BY <1>1, <1>2, ConcatAssociative

\* A sequence cut in two.
LEMMA CutInTwo ==
  ASSUME NEW S, NEW s \in Seq(S), NEW n \in 0 .. Len(s)
  PROVE  /\ SubSeq(s, 1, n) \in Seq(S) /\ Len(SubSeq(s, 1, n)) = n
         /\ SubSeq(s, n + 1, Len(s)) \in Seq(S)
         /\ SubSeq(s, 1, n) \o SubSeq(s, n + 1, Len(s)) = s
<1>1. Len(s) \in Nat /\ \A i \in 1 .. Len(s) : s[i] \in S
  BY LenProperties, ElementOfSeq
<1>2. SubSeq(s, 1, n) \in Seq(S) /\ Len(SubSeq(s, 1, n)) = n
  BY <1>1, SubSeqProperties
<1>3. SubSeq(s, n + 1, Len(s)) \in Seq(S)
  BY <1>1, SubSeqProperties
<1>4. SubSeq(s, 1, n) \o SubSeq(s, n + 1, Len(s)) = SubSeq(s, 1, Len(s))
  <2>1. 1 \in 1 .. Len(s) + 1 /\ n \in 1 - 1 .. Len(s) /\ Len(s) \in n .. Len(s)
    BY <1>1
  <2> QED BY ONLY <2>1, s \in Seq(S), ConcatAdjacentSubSeq
<1> QED BY <1>2, <1>3, <1>4, SubSeqFull

(***************************************************************************)
(* The types.                                                              *)
(***************************************************************************)
LEMMA NewByteTyped ==
  ASSUME UartTypeOK, ~panicked, rx_fifo = <<>>, NEW n \in 0 .. Len(waiting)
  PROVE  /\ rx_fifo \o SubSeq(waiting, 1, n) \in Seq(Byte)
         /\ SubSeq(waiting, n + 1, Len(waiting)) \in Seq(Byte)
<1>1. waiting \in Seq(Byte) /\ rx_fifo \in Seq(Byte)
  BY DEF UartTypeOK
<1> QED BY <1>1, CutInTwo, ConcatProperties

LEMMA TypedFirst == Init => UartTypeOK
<1> SUFFICES ASSUME Init PROVE UartTypeOK
  OBVIOUS
<1>1. \A S : <<>> \in Seq(S)
  BY EmptySeq
<1>2. [low |-> 0, high |-> 0] \in [low : Byte, high : Byte]
  BY UartAssumption
<1> QED BY <1>1, <1>2, UartAssumption DEF Init, UartTypeOK

\* Every variable keeps its type.
THEOREM Typed == Spec => []UartTypeOK
<1>1. Init => UartTypeOK
  BY TypedFirst
<1>2. UartTypeOK /\ [Next]_vars => UartTypeOK'
  <2> SUFFICES ASSUME UartTypeOK, [Next]_vars PROVE UartTypeOK'
    OBVIOUS
  <2> USE DEF UartTypeOK
  <2>1. CASE Tick
    <3>1. rx_fifo' \in Seq(Byte) /\ waiting' \in Seq(Byte)
      <4>1. CASE rx_fifo = <<>>
        <5>1. PICK n \in 0 .. Len(waiting) :
                /\ rx_fifo' = rx_fifo \o SubSeq(waiting, 1, n)
                /\ waiting' = SubSeq(waiting, n + 1, Len(waiting))
          <6>1. PICK n \in 0 .. (IF Len(waiting) < FIFO_SIZE THEN Len(waiting) ELSE FIFO_SIZE) :
                  /\ rx_fifo' = rx_fifo \o SubSeq(waiting, 1, n)
                  /\ waiting' = SubSeq(waiting, n + 1, Len(waiting))
            BY <2>1, <4>1 DEF Tick, TickWith
          <6>2. n \in 0 .. Len(waiting)
            BY UartAssumption, LenProperties
          <6> QED BY <6>1, <6>2
        <5> QED BY <2>1, <4>1, <5>1, NewByteTyped DEF Tick, TickWith
      <4>2. CASE rx_fifo # <<>>
        BY <2>1, <4>2 DEF Tick, TickWith
      <4> QED BY <4>1, <4>2
    <3>2. tx_fifo' \in Seq(Byte) /\ sent' \in Seq([data : Byte, taken : BOOLEAN])
      <4>1. CASE tx_fifo # <<>>
        <5>1. Head(tx_fifo) \in Byte /\ Tail(tx_fifo) \in Seq(Byte)
          BY <4>1, HeadTailProperties
        <5>2. PICK taken \in BOOLEAN :
                /\ sent' = Append(sent, [data |-> Head(tx_fifo), taken |-> taken])
                /\ tx_fifo' = Tail(tx_fifo)
          BY <2>1, <4>1 DEF Tick, TickWith
        <5> QED BY <5>1, <5>2, AppendProperties
      <4>2. CASE tx_fifo = <<>>
        BY <2>1, <4>2 DEF Tick, TickWith
      <4> QED BY <4>1, <4>2
    <3> QED BY <2>1, <3>1, <3>2 DEF Tick, TickWith, registers
  <2>2. CASE ReadData
    <3>1. Head(rx_fifo) \in Byte /\ Tail(rx_fifo) \in Seq(Byte)
      BY <2>2, HeadTailProperties DEF ReadData
    <3> QED BY <2>2, <3>1, AppendProperties DEF ReadData, registers, sending
  <2>3. ASSUME NEW data \in Byte, WriteData(data) PROVE UartTypeOK'
    <3>1. CASE DivisorAccess
      BY <2>3, <3>1 DEF WriteData, receiving, sending
    <3>2. CASE ~DivisorAccess
      <4>1. Append(tx_fifo, data) \in Seq(Byte) /\ Append(written, data) \in Seq(Byte)
        BY AppendProperties
      <4> QED BY <2>3, <3>2, <4>1 DEF WriteData, receiving
    <3> QED BY <3>1, <3>2
  <2>4. ASSUME NEW data \in Byte, WriteInterruptEnable(data) PROVE UartTypeOK'
    <3>1. /\ interrupt_enable' \in {interrupt_enable, data}
          /\ divisor_latch' \in {divisor_latch, [divisor_latch EXCEPT !.high = data]}
          /\ panicked' = TestOverflows /\ UNCHANGED <<line_control, receiving, sending>>
      BY <2>4 DEF WriteInterruptEnable
    <3>2. TestOverflows \in BOOLEAN
      BY UartAssumption DEF TestOverflows
    <3> QED BY <3>1, <3>2 DEF receiving, sending
  <2>5. ASSUME NEW data \in LineControls, WriteLineControl(data) PROVE UartTypeOK'
    BY <2>5 DEF WriteLineControl, receiving, sending
  <2>6. ASSUME NEW data \in Byte, Arrive(data) PROVE UartTypeOK'
    BY <2>6, AppendProperties DEF Arrive, registers, sending
  <2>7. CASE UNCHANGED vars
    BY <2>7 DEF vars, registers, receiving, sending
  <2> QED BY <2>1, <2>2, <2>3, <2>4, <2>5, <2>6, <2>7 DEF Next
<1> QED BY <1>1, <1>2, PTL DEF Spec

(***************************************************************************)
(* From the host to the guest.                                             *)
(***************************************************************************)
\* A fetch brings at most a fifo of bytes, and joins what it leaves behind.
LEMMA Fetched ==
  ASSUME UartTypeOK, Tick, rx_fifo = <<>>
  PROVE  /\ rx_fifo' \in Seq(Byte) /\ waiting' \in Seq(Byte)
         /\ rx_fifo' \o waiting' = waiting
         /\ Len(rx_fifo') <= FIFO_SIZE
<1>1. waiting \in Seq(Byte) /\ Len(waiting) \in Nat
  BY LenProperties DEF UartTypeOK
<1>2. PICK n \in 0 .. (IF Len(waiting) < FIFO_SIZE THEN Len(waiting) ELSE FIFO_SIZE) :
        /\ rx_fifo' = rx_fifo \o SubSeq(waiting, 1, n)
        /\ waiting' = SubSeq(waiting, n + 1, Len(waiting))
  BY DEF Tick, TickWith
<1>3. n \in 0 .. Len(waiting) /\ n <= FIFO_SIZE
  BY <1>1, <1>2, UartAssumption
<1>4. /\ SubSeq(waiting, 1, n) \in Seq(Byte) /\ Len(SubSeq(waiting, 1, n)) = n
      /\ waiting' \in Seq(Byte)
      /\ SubSeq(waiting, 1, n) \o waiting' = waiting
  BY <1>1, <1>2, <1>3, CutInTwo
<1>5. rx_fifo' = SubSeq(waiting, 1, n)
  BY <1>2, <1>4, ConcatEmptySeq
<1> QED BY <1>3, <1>4, <1>5

\* What the host sends reaches the guest whole and in order (ser/mod.rs:76-82, 90-97).
THEOREM Received == Spec => []ReceivedInOrder
<1>1. Init => ReceivedInOrder
  BY UartAssumption, ConcatEmptySeq DEF Init, ReceivedInOrder
<1>2. UartTypeOK /\ UartTypeOK' /\ ReceivedInOrder /\ [Next]_vars => ReceivedInOrder'
  <2> SUFFICES ASSUME UartTypeOK, UartTypeOK', ReceivedInOrder, [Next]_vars
               PROVE  ReceivedInOrder'
    OBVIOUS
  <2>a. /\ arrived \in Seq(Byte) /\ delivered \in Seq(Byte)
        /\ rx_fifo \in Seq(Byte) /\ waiting \in Seq(Byte)
    BY DEF UartTypeOK
  <2>b. /\ arrived = (delivered \o rx_fifo) \o waiting
        /\ Len(rx_fifo) <= FIFO_SIZE
        /\ delivered \o rx_fifo \in Seq(Byte)
    BY <2>a, ConcatProperties DEF ReceivedInOrder
  <2>1. CASE Tick
    <3>1. arrived' = arrived /\ delivered' = delivered
      BY <2>1 DEF Tick, TickWith
    <3>2. CASE rx_fifo = <<>>
      <4>1. /\ rx_fifo' \in Seq(Byte) /\ waiting' \in Seq(Byte)
            /\ rx_fifo' \o waiting' = waiting /\ Len(rx_fifo') <= FIFO_SIZE
        BY <2>1, <3>2, Fetched
      <4>2. arrived = delivered \o waiting
        BY <2>a, <2>b, <3>2, ConcatEmptySeq
      <4>3. delivered \o (rx_fifo' \o waiting') = (delivered \o rx_fifo') \o waiting'
        <5>1. \A r, t, u \in Seq(Byte) : r \o (t \o u) = (r \o t) \o u
          BY ConcatAssociative
        <5>2. /\ delivered \in Seq(Byte)
              /\ rx_fifo' \in Seq(Byte) /\ waiting' \in Seq(Byte)
          BY <2>a, <4>1
        <5> QED BY ONLY <5>1, <5>2, Zenon
      <4> QED BY <3>1, <4>1, <4>2, <4>3 DEF ReceivedInOrder
    <3>3. CASE rx_fifo # <<>>
      BY <2>1, <2>b, <3>1, <3>3 DEF Tick, TickWith, ReceivedInOrder
    <3> QED BY <3>2, <3>3
  <2>2. CASE ReadData
    <3>1. /\ rx_fifo # <<>> /\ rx_fifo' = Tail(rx_fifo)
          /\ delivered' = Append(delivered, Head(rx_fifo))
          /\ arrived' = arrived /\ waiting' = waiting
      BY <2>2 DEF ReadData
    <3>2. delivered' \o rx_fifo' = delivered \o rx_fifo
      BY <2>a, <3>1, MovedOver
    <3>3. Len(rx_fifo') <= FIFO_SIZE
      BY <2>a, <2>b, <3>1, HeadTailProperties, LenProperties, UartAssumption
    <3> QED BY <2>b, <3>1, <3>2, <3>3 DEF ReceivedInOrder
  <2>3. ASSUME NEW data \in Byte, Arrive(data) PROVE ReceivedInOrder'
    <3>1. /\ arrived' = Append(arrived, data) /\ waiting' = Append(waiting, data)
          /\ rx_fifo' = rx_fifo /\ delivered' = delivered
      BY <2>3 DEF Arrive
    <3>2. (delivered \o rx_fifo) \o Append(waiting, data) = Append(arrived, data)
      BY <2>a, <2>b, AppendedBehind
    <3> QED BY <2>b, <3>1, <3>2 DEF ReceivedInOrder
  <2>4. CASE UNCHANGED receiving
    BY <2>4, <2>b DEF receiving, ReceivedInOrder
  <2>5. ASSUME NEW data \in Byte, WriteData(data) \/ WriteInterruptEnable(data)
        PROVE  UNCHANGED receiving
    BY <2>5 DEF WriteData, WriteInterruptEnable
  <2>6. ASSUME NEW data \in LineControls, WriteLineControl(data)
        PROVE  UNCHANGED receiving
    BY <2>6 DEF WriteLineControl
  <2> QED BY <2>1, <2>2, <2>3, <2>4, <2>5, <2>6 DEF Next, vars
<1> QED BY <1>1, <1>2, Typed, PTL DEF Spec

(***************************************************************************)
(* From the guest to the host.                                             *)
(***************************************************************************)
\* One more byte handed over is one more byte in the list of those.
LEMMA HandedOver ==
  ASSUME UartTypeOK, NEW data \in Byte, NEW taken \in BOOLEAN,
         sent' = Append(sent, [data |-> data, taken |-> taken])
  PROVE  Handed' = Append(Handed, data)
<1> DEFINE S == [data : Byte, taken : BOOLEAN]  e == [data |-> data, taken |-> taken]
<1>1. sent \in Seq(S) /\ Len(sent) \in Nat /\ DOMAIN sent = 1 .. Len(sent)
  BY LenProperties DEF UartTypeOK
<1>2. e \in S
  OBVIOUS
<1>3. /\ sent' \in Seq(S) /\ Len(sent') = Len(sent) + 1
      /\ \A i \in 1 .. Len(sent) : sent'[i] = sent[i]
      /\ sent'[Len(sent) + 1] = e
  BY <1>1, <1>2, AppendProperties
<1>4. DOMAIN sent' = 1 .. Len(sent) + 1
  BY <1>3, LenProperties
<1>5. \A i \in 1 .. Len(sent) : sent[i].data \in Byte
  <2>1. \A i \in 1 .. Len(sent) : sent[i] \in S
    BY <1>1, ElementOfSeq
  <2> QED BY <2>1
<1>6. Handed = [k \in 1 .. Len(sent) |-> sent[k].data] /\ Handed \in Seq(Byte)
      /\ Len(Handed) = Len(sent)
  BY <1>1, <1>5, IsASeq DEF Handed
<1>7. Handed' = [k \in 1 .. Len(sent) + 1 |-> sent'[k].data]
  BY <1>4 DEF Handed
<1>8. \A k \in 1 .. Len(sent) + 1 : sent'[k].data \in Byte
  BY <1>1, <1>3, <1>5
<1>9. Handed' \in Seq(Byte) /\ Len(Handed') = Len(sent) + 1
  BY <1>1, <1>7, <1>8, IsASeq
<1>10. /\ Append(Handed, data) \in Seq(Byte) /\ Len(Append(Handed, data)) = Len(sent) + 1
       /\ \A i \in 1 .. Len(sent) : Append(Handed, data)[i] = Handed[i]
       /\ Append(Handed, data)[Len(sent) + 1] = data
  BY <1>6, AppendProperties
<1>11. \A i \in 1 .. Len(sent) + 1 : Handed'[i] = Append(Handed, data)[i]
  BY <1>1, <1>3, <1>6, <1>7, <1>10
<1> QED BY <1>9, <1>10, <1>11, SeqEqual

\* What the guest sends is handed over once and in order (ser/mod.rs:84-86, 123-129).
THEOREM Sent == Spec => []SentInOrder
<1>0. ASSUME UartTypeOK PROVE Handed \in Seq(Byte)
  <2>1. sent \in Seq([data : Byte, taken : BOOLEAN]) /\ Len(sent) \in Nat
        /\ DOMAIN sent = 1 .. Len(sent)
    BY <1>0, LenProperties DEF UartTypeOK
  <2>2. \A i \in 1 .. Len(sent) : sent[i].data \in Byte
    <3>1. \A i \in 1 .. Len(sent) : sent[i] \in [data : Byte, taken : BOOLEAN]
      BY <2>1, ElementOfSeq
    <3> QED BY <3>1
  <2> QED BY <2>1, <2>2, IsASeq DEF Handed
<1>1. Init => SentInOrder
  <2> SUFFICES ASSUME Init PROVE SentInOrder
    OBVIOUS
  <2>1. sent = <<>> /\ tx_fifo = <<>> /\ written = <<>>
    BY DEF Init
  <2>2. Handed = <<>>
    BY <2>1 DEF Handed
  <2> QED BY <2>1, <2>2, ConcatEmptySeq DEF SentInOrder
<1>2. UartTypeOK /\ SentInOrder /\ [Next]_vars => SentInOrder'
  <2> SUFFICES ASSUME UartTypeOK, SentInOrder, [Next]_vars PROVE SentInOrder'
    OBVIOUS
  <2>a. Handed \in Seq(Byte) /\ tx_fifo \in Seq(Byte) /\ written = Handed \o tx_fifo
    BY <1>0 DEF UartTypeOK, SentInOrder
  <2>1. CASE Tick
    <3>1. CASE tx_fifo # <<>>
      <4>1. Head(tx_fifo) \in Byte
        BY <2>a, <3>1, HeadTailProperties
      <4>2. PICK taken \in BOOLEAN :
              /\ sent' = Append(sent, [data |-> Head(tx_fifo), taken |-> taken])
              /\ tx_fifo' = Tail(tx_fifo) /\ written' = written
        BY <2>1, <3>1 DEF Tick, TickWith
      <4>3. Handed' = Append(Handed, Head(tx_fifo))
        BY <4>1, <4>2, HandedOver
      <4>4. Handed' \o tx_fifo' = Handed \o tx_fifo
        BY <2>a, <3>1, <4>2, <4>3, MovedOver
      <4> QED BY <2>a, <4>2, <4>4 DEF SentInOrder
    <3>2. CASE tx_fifo = <<>>
      BY <2>1, <3>2 DEF Tick, TickWith, SentInOrder, Handed
    <3> QED BY <3>1, <3>2
  <2>2. ASSUME NEW data \in Byte, WriteData(data) PROVE SentInOrder'
    <3>1. CASE DivisorAccess
      BY <2>2, <3>1 DEF WriteData, sending, SentInOrder, Handed
    <3>2. CASE ~DivisorAccess
      <4>1. /\ tx_fifo' = Append(tx_fifo, data) /\ written' = Append(written, data)
            /\ sent' = sent
        BY <2>2, <3>2 DEF WriteData
      <4>2. Handed \o Append(tx_fifo, data) = Append(written, data)
        BY <2>a, AppendedBehind
      <4> QED BY <4>1, <4>2 DEF SentInOrder, Handed
    <3> QED BY <3>1, <3>2
  <2>3. CASE UNCHANGED sending
    BY <2>3 DEF sending, SentInOrder, Handed
  <2>4. ASSUME NEW data \in Byte, WriteInterruptEnable(data) \/ Arrive(data)
        PROVE  UNCHANGED sending
    BY <2>4 DEF WriteInterruptEnable, Arrive
  <2>5. ASSUME NEW data \in LineControls, WriteLineControl(data) PROVE UNCHANGED sending
    BY <2>5 DEF WriteLineControl
  <2>6. ReadData => UNCHANGED sending
    BY DEF ReadData
  <2> QED BY <2>1, <2>2, <2>3, <2>4, <2>5, <2>6 DEF Next, vars
<1> QED BY <1>1, <1>2, Typed, PTL DEF Spec
=============================================================================
