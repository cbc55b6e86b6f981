--------------------------- MODULE MachineProofs ----------------------------
(***************************************************************************)
(* Theorems about Machine, with either guest: that its keyboard loses,     *)
(* repeats and reorders nothing, for any events and any number of them;    *)
(* that the raster of hello_vdc stays inside of the signal, for any table  *)
(* that only enlarges it; and that its memory, for banks, a common page    *)
(* and bytes of any size, is the banked memory a guest expects.  The first *)
(* two rest on what joining a sequence of texts, or of accesses, gives.    *)
(***************************************************************************)
EXTENDS HelloVdc, SequenceTheorems, NumberFacts

(***************************************************************************)
(* Joining the texts of a queue, from its end and from its front.          *)
(***************************************************************************)
\* How texts are grouped does not matter.  (The operator keeps the provers from
\* looking into the texts.)
Then(s, t) == s \o t

LEMMA Regrouped ==
  \A S : \A s, t, u \in Seq(S) : Then(Then(s, t), u) = Then(s, Then(t, u))
<1>1. \A S : \A s, t, u \in Seq(S) : (s \o t) \o u = s \o (t \o u)
  BY ConcatAssociative
<1> QED BY <1>1 DEF Then

\* The i-th value is the first i texts, joined.
Joins(f, ss) == f[1] = ss[1] /\ \A i \in 2 .. Len(ss) : f[i] = f[i - 1] \o ss[i]

LEMMA JoinsExist ==
  ASSUME NEW S, NEW ss \in Seq(Seq(S)), ss # <<>>
  PROVE  \E f \in [1 .. Len(ss) -> Seq(S)] : Joins(f, ss)
<1> DEFINE n == Len(ss)
           B == Seq(S)
           g == [p \in (1 + 1 .. n) \X B |-> p[2] \o ss[p[1]]]
<1>1. n \in Nat /\ 1 <= n /\ \A i \in 1 .. n : ss[i] \in B
  OBVIOUS
<1>2. \A s, t \in B : s \o t \in B
  BY ConcatProperties
<1> HIDE DEF B, n
<1>3. g \in Rules(1, n, B)
  BY <1>1, <1>2 DEF Rules
<1>4. ss[1] \in B /\ 1 \in Int /\ n \in Int
  BY <1>1
<1> HIDE DEF g
<1>5. PICK f \in [1 .. n -> B] : Follows(f, 1, n, ss[1], g)
  BY <1>1, <1>3, <1>4, Recursion
<1>6. ASSUME NEW i \in 2 .. n PROVE f[i] = f[i - 1] \o ss[i]
  <2>1. i \in 1 + 1 .. n /\ f[i - 1] \in B
    BY <1>1
  <2>2. f[i] = g[<<i, f[i - 1]>>]
    BY <1>5, <2>1 DEF Follows
  <2> QED BY <2>1, <2>2 DEF g
<1>7. f[1] = ss[1]
  BY <1>5 DEF Follows
<1> QED BY <1>6, <1>7 DEF Joins, n, B

LEMMA JoinIs ==
  ASSUME NEW S, NEW ss \in Seq(Seq(S)), ss # <<>>,
         NEW f \in [1 .. Len(ss) -> Seq(S)], Joins(f, ss)
  PROVE  FlattenSeq(ss) = f[Len(ss)]
<1> DEFINE n == Len(ss)
           flatten[i \in 1 .. Len(ss)] ==
             IF i = 1 THEN ss[i] ELSE flatten[i - 1] \o ss[i]
<1>1. n \in Nat /\ 1 <= n
  OBVIOUS
<1>2. FlattenSeq(ss) = flatten[n]
  BY <1>1 DEF FlattenSeq
<1> HIDE DEF n
<1>3. f = [i \in 1 .. n |-> IF i = 1 THEN ss[i] ELSE f[i - 1] \o ss[i]]
  <2>1. ASSUME NEW i \in 1 .. n, i # 1 PROVE f[i] = f[i - 1] \o ss[i]
    <3>1. i \in 2 .. n
      BY <1>1, <2>1
    <3> QED BY <3>1 DEF Joins, n
  <2>2. f[1] = ss[1]
    BY DEF Joins
  <2> QED BY <2>1, <2>2 DEF n
<1>4. flatten = [i \in 1 .. n |-> IF i = 1 THEN ss[i] ELSE flatten[i - 1] \o ss[i]]
  BY <1>3
<1> DEFINE F == flatten
<1>5. F = [i \in 1 .. n |-> IF i = 1 THEN ss[i] ELSE F[i - 1] \o ss[i]]
  BY <1>4
<1> HIDE DEF F
<1> DEFINE T == {i \in 1 .. n : F[i] = f[i]}
<1>6. 1 \in T
  BY <1>1, <1>5 DEF Joins
<1>7. ASSUME NEW i \in 1 .. n - 1, i \in T PROVE i + 1 \in T
  <2>1. i + 1 \in 1 .. n /\ i + 1 \in 2 .. n /\ i + 1 # 1 /\ (i + 1) - 1 = i
    BY <1>1
  <2>2. F[i + 1] = F[i] \o ss[i + 1]
    BY <1>5, <2>1
  <2>3. f[i + 1] = f[i] \o ss[i + 1]
    BY <2>1 DEF Joins, n
  <2> QED BY <1>7, <2>1, <2>2, <2>3
<1>8. n \in 1 .. n /\ 1 \in Int /\ n \in Int
  BY <1>1
<1> HIDE DEF T
<1>9. 1 .. n \subseteq T
  BY <1>6, <1>7, <1>8, UpTo
<1>10. F[n] = f[n]
  BY <1>8, <1>9 DEF T
<1> QED BY <1>2, <1>10 DEF F, n

LEMMA JoinNone == FlattenSeq(<<>>) = <<>>
BY DEF FlattenSeq

LEMMA JoinType ==
  ASSUME NEW S, NEW ss \in Seq(Seq(S))
  PROVE  FlattenSeq(ss) \in Seq(S)
<1>1. CASE ss = <<>>
  BY <1>1, JoinNone, EmptySeq
<1>2. CASE ss # <<>>
  <2>1. PICK f \in [1 .. Len(ss) -> Seq(S)] : Joins(f, ss)
    BY <1>2, JoinsExist
  <2>2. Len(ss) \in 1 .. Len(ss)
    BY <1>2
  <2>3. FlattenSeq(ss) = f[Len(ss)]
    BY <1>2, <2>1, JoinIs
  <2> QED BY <2>2, <2>3
<1> QED BY <1>1, <1>2

\* A text that comes last is joined last.
LEMMA JoinAppended ==
  ASSUME NEW S, NEW ss \in Seq(Seq(S)), NEW s \in Seq(S)
  PROVE  FlattenSeq(Append(ss, s)) = FlattenSeq(ss) \o s
<1> DEFINE tt == Append(ss, s)
           n == Len(tt)
<1>1. /\ tt \in Seq(Seq(S)) /\ tt # <<>> /\ n = Len(ss) + 1 /\ Len(ss) \in Nat
      /\ tt[n] = s /\ \A i \in 1 .. n - 1 : tt[i] = ss[i]
  BY AppendProperties
<1> HIDE DEF tt, n
<1>2. PICK f \in [1 .. n -> Seq(S)] : Joins(f, tt)
  BY <1>1, JoinsExist DEF n
<1>3. FlattenSeq(tt) = f[n]
  BY <1>1, <1>2, JoinIs DEF n
<1>4. CASE ss = <<>>
  <2>1. n = 1 /\ f[1] = s
    BY <1>1, <1>2, <1>4 DEF Joins
  <2>2. <<>> \o s = s
    BY ConcatEmptySeq
  <2> QED BY <1>3, <1>4, <2>1, <2>2, JoinNone DEF tt
<1>5. CASE ss # <<>>
  <2> DEFINE g == [i \in 1 .. Len(ss) |-> f[i]]
  <2>1. n \in 2 .. n /\ n - 1 = Len(ss) /\ Len(ss) \in 1 .. Len(ss)
    BY <1>1, <1>5
  <2>2. g \in [1 .. Len(ss) -> Seq(S)]
    BY <1>1
  <2>3. Joins(g, ss)
    <3>1. g[1] = ss[1]
      BY <1>1, <1>2, <2>1 DEF Joins
    <3>2. ASSUME NEW i \in 2 .. Len(ss) PROVE g[i] = g[i - 1] \o ss[i]
      <4>1. i \in 2 .. n /\ i \in 1 .. n - 1 /\ i \in 1 .. Len(ss) /\ i - 1 \in 1 .. Len(ss)
        BY <1>1
      <4>2. f[i] = f[i - 1] \o tt[i]
        BY <1>2, <4>1 DEF Joins, n
      <4> QED BY <1>1, <4>1, <4>2
    <3> HIDE DEF g
    <3> QED BY <3>1, <3>2 DEF Joins
  <2>4. g[Len(ss)] = f[n - 1]
    BY <2>1
  <2> HIDE DEF g
  <2>5. FlattenSeq(ss) = f[n - 1]
    BY <1>5, <2>2, <2>3, <2>4, JoinIs
  <2>6. f[n] = f[n - 1] \o s
    BY <1>1, <1>2, <2>1 DEF Joins, n
  <2> QED BY <1>3, <2>5, <2>6 DEF tt
<1> QED BY <1>4, <1>5

\* The text that came first is the front.
LEMMA JoinFront ==
  ASSUME NEW S, NEW ss \in Seq(Seq(S)), ss # <<>>
  PROVE  FlattenSeq(ss) = Head(ss) \o FlattenSeq(Tail(ss))
<1> DEFINE tt == Tail(ss)
           n == Len(ss)
           h == Head(ss)
<1>1. /\ tt \in Seq(Seq(S)) /\ n \in Nat \ {0} /\ Len(tt) = n - 1 /\ h = ss[1]
      /\ h \in Seq(S) /\ \A i \in 1 .. n - 1 : tt[i] = ss[i + 1]
      /\ \A i \in 1 .. n : ss[i] \in Seq(S)
  BY HeadTailProperties
<1> HIDE DEF tt, n, h
<1>2. PICK f \in [1 .. n -> Seq(S)] : Joins(f, ss)
  BY JoinsExist DEF n
<1>3. FlattenSeq(ss) = f[n]
  BY <1>2, JoinIs DEF n
<1>4. CASE n = 1
  <2>1. tt = <<>> /\ f[n] = h
    BY <1>1, <1>2, <1>4 DEF Joins
  <2>2. h \o <<>> = h
    BY <1>1, ConcatEmptySeq
  <2> QED BY <1>3, <2>1, <2>2, JoinNone DEF tt, h
<1>5. CASE n # 1
  <2>1. tt # <<>> /\ n - 1 \in 1 .. n - 1
    BY <1>1, <1>5
  <2>2. PICK g \in [1 .. n - 1 -> Seq(S)] : Joins(g, tt)
    BY <1>1, <2>1, JoinsExist
  <2>3. FlattenSeq(tt) = g[n - 1]
    BY <1>1, <2>1, <2>2, JoinIs
  <2> DEFINE T == {i \in 1 .. n - 1 : f[i + 1] = h \o g[i]}
  <2>4. 1 \in T
    <3>1. 1 \in 1 .. n - 1 /\ 2 \in 2 .. n
      BY <1>1, <1>5
    <3>2. f[2] = f[2 - 1] \o ss[2] /\ f[1] = h /\ g[1] = ss[1 + 1]
      BY <1>1, <1>2, <2>2, <3>1 DEF Joins, n
    <3>3. 2 - 1 = 1 /\ 1 + 1 = 2
      OBVIOUS
    <3>4. f[1 + 1] = h \o g[1]
      BY <3>2, <3>3
    <3> QED BY <3>1, <3>4
  <2>5. ASSUME NEW i \in 1 .. (n - 1) - 1, i \in T PROVE i + 1 \in T
    <3>1. /\ i + 1 \in 1 .. n - 1 /\ i + 1 \in 2 .. n - 1 /\ (i + 1) - 1 = i
          /\ (i + 1) + 1 \in 2 .. n /\ ((i + 1) + 1) - 1 = i + 1 /\ i \in 1 .. n - 1
          /\ (i + 1) + 1 \in 1 .. n
      BY <1>1
    <3>2. f[(i + 1) + 1] = f[i + 1] \o ss[(i + 1) + 1]
      BY <1>2, <3>1 DEF Joins, n
    <3>3. g[i + 1] = g[i] \o ss[(i + 1) + 1]
      BY <1>1, <2>2, <3>1 DEF Joins
    <3>4. f[i + 1] = h \o g[i]
      BY <2>5
    <3>5. (h \o g[i]) \o ss[(i + 1) + 1] = h \o (g[i] \o ss[(i + 1) + 1])
      <4> DEFINE u == g[i]
                 v == ss[(i + 1) + 1]
      <4>1. h \in Seq(S) /\ u \in Seq(S) /\ v \in Seq(S)
        BY <1>1, <3>1
      <4> HIDE DEF T, u, v
      <4>2. Then(Then(h, u), v) = Then(h, Then(u, v))
        BY <4>1, Regrouped
      <4> QED BY <4>2 DEF u, v, Then
    <3> QED BY <3>1, <3>2, <3>3, <3>4, <3>5
  <2>6. 1 \in Int /\ n - 1 \in Int
    BY <1>1
  <2> HIDE DEF T
  <2>7. 1 .. n - 1 \subseteq T
    BY <2>4, <2>5, <2>6, UpTo
  <2>8. f[(n - 1) + 1] = h \o g[n - 1]
    BY <2>1, <2>7 DEF T
  <2>9. (n - 1) + 1 = n
    BY <1>1
  <2> QED BY <1>3, <2>3, <2>8, <2>9 DEF tt, h
<1> QED BY <1>4, <1>5

(***************************************************************************)
(* The keyboard.                                                           *)
(***************************************************************************)
\* The inductive invariant: bytes are where they belong, in the order typed.
KeysInv ==
  /\ typed \in Seq(Nat) /\ delivered \in Seq(Nat) /\ buffer \in Seq(Nat)
  /\ pending \in Seq(Seq(Nat))
  /\ KeysInOrder

\* The keyboard is left alone by all but its read and the host.
LEMMA OthersOffKeyboard ==
  ASSUME [Next]_vars
  PROVE  \/ ReadKb
         \/ \E e \in Events : Happen(e)
         \/ UNCHANGED <<typed, delivered, buffer, pending>>
<1>1. ASSUME NEW port, NEW n, In(port, n)
      PROVE  ReadKb \/ UNCHANGED keyboardVars
  BY <1>1 DEF In, OffKeyboard
<1>2. ASSUME NEW port, NEW data, NEW n, Out(port, data, n)
      PROVE  UNCHANGED keyboardVars
  BY <1>2 DEF Out, OffKeyboard
<1>3. ASSUME NEW a, NEW data, NEW n, Load(a, n) \/ Store(a, data, n)
      PROVE  UNCHANGED keyboardVars
  BY <1>3 DEF Load, Store, OffKeyboard
<1>4. CASE HelloVdc
  <2>1. \/ Out(Access(at).port, Access(at).data, Pace)
        \/ In(Access(at).port, Pace)
    BY <1>4 DEF HelloVdc
  <2> QED BY <1>1, <1>2, <2>1 DEF keyboardVars
<1>5. CASE AnyGuest
  <2>1. CASE \E a \in Addresses : \/ Load(a, OtherCycles)
                                  \/ \E data \in Byte : Store(a, data, OtherCycles)
    BY <1>3, <2>1 DEF keyboardVars
  <2>2. CASE \E port \in Ports : \/ In(port, OtherCycles)
                                 \/ \E data \in Data : Out(port, data, OtherCycles)
    BY <1>1, <1>2, <2>2 DEF keyboardVars
  <2> QED BY <1>5, <2>1, <2>2 DEF AnyGuest
<1>6. CASE Outside
  BY <1>6 DEF Outside, Host, TimePasses
<1>7. CASE UNCHANGED vars
  BY <1>7 DEF vars, machineVars, keyboardVars
<1> QED BY <1>4, <1>5, <1>6, <1>7 DEF Next

Texts == Seq(Nat)
LEMMA TextsRegrouped ==
  \A s, t, u \in Texts : /\ Then(s, t) \in Texts
                        /\ Then(Then(s, t), u) = Then(s, Then(t, u))
<1>1. \A s, t \in Texts : Then(s, t) \in Texts
  BY ConcatProperties DEF Texts, Then
<1>2. \A s, t, u \in Texts : Then(Then(s, t), u) = Then(s, Then(t, u))
  BY Regrouped DEF Texts
<1> QED BY <1>1, <1>2

\* A text on its way goes from the host's queue to the buffer, and its first byte to
\* the guest.
LEMMA ReadKeeps ==
  ASSUME KeysInv, ReadKb
  PROVE  KeysInv'
<1> DEFINE moved == due /\ pending # <<>>
           rest == FlattenSeq(pending')
<1>1. /\ typed' = typed /\ typed \in Seq(Nat) /\ delivered \in Seq(Nat)
      /\ buffer \in Seq(Nat) /\ pending \in Seq(Seq(Nat))
  BY DEF KeysInv, ReadKb
<1>2. /\ pending' \in Seq(Seq(Nat)) /\ Arrived \in Seq(Nat) /\ rest \in Seq(Nat)
      /\ buffer \o FlattenSeq(pending) = Arrived \o rest
  <2>1. CASE moved
    <3>1. Head(pending) \in Seq(Nat) /\ Tail(pending) \in Seq(Seq(Nat))
      BY <1>1, <2>1, HeadTailProperties
    <3>2. pending' = Tail(pending) /\ Arrived = buffer \o Head(pending)
      BY <2>1 DEF ReadKb, Arrived
    <3>3. FlattenSeq(Tail(pending)) \in Seq(Nat)
      BY <3>1, JoinType
    <3>4. FlattenSeq(pending) = Head(pending) \o FlattenSeq(Tail(pending))
      BY <1>1, <2>1, JoinFront
    <3>5. buffer \o Head(pending) \in Seq(Nat)
      BY <1>1, <3>1, ConcatProperties
    <3>6. (buffer \o Head(pending)) \o FlattenSeq(Tail(pending))
            = buffer \o (Head(pending) \o FlattenSeq(Tail(pending)))
      <4> DEFINE u == Head(pending)
                 v == FlattenSeq(Tail(pending))
      <4>1. buffer \in Texts /\ u \in Texts /\ v \in Texts
        BY <1>1, <3>1, <3>3 DEF Texts
      <4> HIDE DEF u, v
      <4>2. Then(Then(buffer, u), v) = Then(buffer, Then(u, v))
        BY <4>1, TextsRegrouped
      <4> QED BY <4>2 DEF u, v, Then
    <3> QED BY <3>1, <3>2, <3>3, <3>4, <3>5, <3>6
  <2>2. CASE ~moved
    <3>1. pending' = pending /\ Arrived = buffer
      BY <2>2 DEF ReadKb, Arrived
    <3> QED BY <1>1, <3>1, JoinType
  <2> QED BY <2>1, <2>2
<1> HIDE DEF rest, moved
<1>3. FlattenSeq(pending) \in Seq(Nat)
  BY <1>1, JoinType
<1>4. typed = delivered \o (Arrived \o rest)
  <2>1. typed = (delivered \o buffer) \o FlattenSeq(pending)
    BY DEF KeysInv, KeysInOrder
  <2>2. (delivered \o buffer) \o FlattenSeq(pending)
          = delivered \o (buffer \o FlattenSeq(pending))
    <3> DEFINE u == FlattenSeq(pending)
    <3>1. delivered \in Texts /\ buffer \in Texts /\ u \in Texts
      BY <1>1, <1>3 DEF Texts
    <3> HIDE DEF u
    <3>2. Then(Then(delivered, buffer), u) = Then(delivered, Then(buffer, u))
      BY <3>1, TextsRegrouped
    <3> QED BY <3>2 DEF u, Then
  <2> QED BY <1>2, <2>1, <2>2
<1>5. CASE Arrived = <<>>
  <2>1. buffer' = buffer /\ delivered' = delivered
    BY <1>5 DEF ReadKb
  <2>2. buffer = <<>>
    <3>1. CASE moved
      <4>1. Head(pending) \in Seq(Nat) /\ Arrived = buffer \o Head(pending)
        BY <1>1, <3>1, HeadTailProperties DEF moved, Arrived
      <4>2. buffer \o Head(pending) = <<>>
        BY <1>5, <4>1
      <4> HIDE DEF moved
      <4> QED BY <1>1, <4>1, <4>2, ConcatEqualIffEmpty
    <3>2. CASE ~moved
      BY <1>5, <3>2 DEF moved, Arrived
    <3> QED BY <3>1, <3>2
  <2>3. <<>> \o rest = rest /\ delivered \o <<>> = delivered
    BY <1>1, <1>2, ConcatEmptySeq
  <2>4. typed = (delivered \o <<>>) \o rest
    BY <1>4, <1>5, <2>3
  <2> QED BY <1>1, <1>2, <2>1, <2>2, <2>4 DEF KeysInv, KeysInOrder, rest
<1>6. CASE Arrived # <<>>
  <2> DEFINE one == <<Head(Arrived)>>
             t == Tail(Arrived)
  <2>1. buffer' = t /\ delivered' = Append(delivered, Head(Arrived))
    BY <1>6 DEF ReadKb
  <2>2. Head(Arrived) \in Nat /\ one \in Seq(Nat) /\ t \in Seq(Nat)
    BY <1>2, <1>6, HeadTailProperties
  <2>3. Arrived = one \o t
    BY <1>2, <1>6
  <2>4. Append(delivered, Head(Arrived)) = delivered \o one
    BY <1>1, <2>2, AppendIsConcat
  <2> HIDE DEF one, t
  <2>5. delivered \in Texts /\ one \in Texts /\ t \in Texts /\ rest \in Texts
    BY <1>1, <1>2, <2>2 DEF Texts
  <2>6. Then(delivered, Then(Then(one, t), rest))
          = Then(Then(Then(delivered, one), t), rest)
    BY <2>5, TextsRegrouped
  <2>7. delivered \o ((one \o t) \o rest) = ((delivered \o one) \o t) \o rest
    BY <2>6 DEF Then
  <2>8. typed = ((delivered \o one) \o t) \o rest
    BY <1>4, <2>3, <2>7
  <2>9. typed' = (delivered' \o buffer') \o rest
    BY <1>1, <2>1, <2>4, <2>8
  <2>10. delivered' \in Seq(Nat) /\ buffer' \in Seq(Nat)
    BY <1>1, <2>1, <2>2, AppendProperties
  <2> QED BY <1>1, <1>2, <2>9, <2>10 DEF KeysInv, KeysInOrder, rest
<1> QED BY <1>5, <1>6

\* What is typed waits behind what was typed before.
LEMMA HappenKeeps ==
  ASSUME KeysInv, NEW e \in Events, Happen(e)
  PROVE  KeysInv'
<1>1. /\ typed' = typed \o e /\ pending' = Append(pending, e)
      /\ UNCHANGED <<buffer, delivered>>
  BY DEF Happen
<1>2. /\ e \in Seq(Nat) /\ typed \in Seq(Nat) /\ delivered \in Seq(Nat)
      /\ buffer \in Seq(Nat) /\ pending \in Seq(Seq(Nat))
  BY MachineAssumption DEF KeysInv
<1>3. typed' \in Seq(Nat) /\ pending' \in Seq(Seq(Nat))
  BY <1>1, <1>2, ConcatProperties, AppendProperties
<1>4. FlattenSeq(pending') = FlattenSeq(pending) \o e
  BY <1>1, <1>2, JoinAppended
<1>5. FlattenSeq(pending) \in Seq(Nat) /\ delivered \o buffer \in Seq(Nat)
  BY <1>2, JoinType, ConcatProperties
<1>6. typed = (delivered \o buffer) \o FlattenSeq(pending)
  BY DEF KeysInv, KeysInOrder
<1>7. ((delivered \o buffer) \o FlattenSeq(pending)) \o e
        = (delivered \o buffer) \o (FlattenSeq(pending) \o e)
  <2> DEFINE u == delivered \o buffer
             v == FlattenSeq(pending)
  <2>1. u \in Texts /\ v \in Texts /\ e \in Texts
    BY <1>2, <1>5 DEF Texts
  <2> HIDE DEF u, v
  <2>2. Then(Then(u, v), e) = Then(u, Then(v, e))
    BY <2>1, TextsRegrouped
  <2> QED BY <2>2 DEF u, v, Then
<1>8. typed' = (delivered' \o buffer') \o FlattenSeq(pending')
  BY <1>1, <1>4, <1>6, <1>7
<1> QED BY <1>1, <1>2, <1>3, <1>8 DEF KeysInv, KeysInOrder

\* The user's keys reach the guest once and in the order typed, whatever else the
\* guest does, however its reads fall between the polls of the host's queue and
\* whatever other events lie in it: read() takes at most one of them every 16 ms and
\* gives the bytes of its text one by one (kb.rs:34-57).
THEOREM KeysArriveInOrder == Spec => []KeysInOrder
<1>1. Init => KeysInv
  <2> SUFFICES ASSUME Init PROVE KeysInv
    OBVIOUS
  <2>1. typed = <<>> /\ delivered = <<>> /\ buffer = <<>> /\ pending = <<>>
    BY DEF Init, MachineInit
  <2>2. <<>> \in Seq(Nat) /\ <<>> \in Seq(Seq(Nat)) /\ <<>> \o <<>> \o <<>> = <<>>
    BY EmptySeq, ConcatEmptySeq
  <2> QED BY <2>1, <2>2, JoinNone DEF KeysInv, KeysInOrder
<1>2. KeysInv /\ [Next]_vars => KeysInv'
  <2> SUFFICES ASSUME KeysInv, [Next]_vars PROVE KeysInv'
    OBVIOUS
  <2>1. CASE UNCHANGED <<typed, delivered, buffer, pending>>
    BY <2>1 DEF KeysInv, KeysInOrder
  <2> QED BY <2>1, OthersOffKeyboard, ReadKeeps, HappenKeeps
<1>3. KeysInv => KeysInOrder
  BY DEF KeysInv
<1> QED BY <1>1, <1>2, <1>3, PTL DEF Spec

-----------------------------------------------------------------------------
(***************************************************************************)
(* The raster.                                                             *)
(***************************************************************************)
\* The chip is the record it was made as, and the signal that its registers make is
\* ahead of the raster; the geometry is that signal's unless it is to be computed.
\* (An invariant: the code computes the geometry a tick after the write.)
ChipOf(v) ==
  /\ DOMAIN v = DOMAIN NewVdc
  /\ DOMAIN v.reg = DOMAIN NewVdc.reg
  /\ v.raster_x \in Nat /\ v.raster_y \in Nat
  /\ v.parameters_dirty \in BOOLEAN /\ v.register_select \in Nat
  /\ v.reg.horiz_total \in Nat /\ v.reg.vert_total \in Nat
  /\ v.reg.char_total_vert \in Nat /\ v.reg.char_total_disp_horiz \in Nat
SignalWidth(r) == Times(0, r.horiz_total) * Times(22, r.char_total_disp_horiz)
SignalHeight(r) == Times(4, r.vert_total) * Times(9, r.char_total_vert)
Ahead(v) ==
  /\ v.raster_x < SignalWidth(v.reg) /\ v.raster_y < SignalHeight(v.reg)
  /\ ~v.parameters_dirty => /\ v.geometry.signal_width = SignalWidth(v.reg)
                            /\ v.geometry.signal_height = SignalHeight(v.reg)

\* The fields of the chip.
LEMMA ChipFields ==
  DOMAIN NewVdc =
    {"reg", "register_select", "vram", "vblank", "parameters_dirty", "geometry",
     "raster_x", "raster_y", "blink_timer", "pixels", "framebuffer_ready", "panicked"}
  BY DEF NewVdc

\* The signal that the chip computes is the one its registers make.
LEMMA GeometryIs ==
  ASSUME NEW r
  PROVE  /\ Geometry(r).signal_width = SignalWidth(r)
         /\ Geometry(r).signal_height = SignalHeight(r)
  BY DEF Geometry, SignalWidth, SignalHeight, Times

\* What a register is worth is a number.
LEMMA TimesType ==
  ASSUME NEW n \in SizeRegisters, NEW data \in Nat
  PROVE  Times(n, data) \in Nat
<1>1. (data + 1) % 256 \in Nat /\ (data + 1) % 32 \in Nat /\ ((data \div 16) + 1) % 16 \in Nat
  OBVIOUS
<1> QED BY <1>1 DEF SizeRegisters, Times

LEMMA SignalType ==
  ASSUME NEW v, ChipOf(v)
  PROVE  SignalWidth(v.reg) \in Nat /\ SignalHeight(v.reg) \in Nat
<1>1. \A a, b \in Nat : a * b \in Nat
  BY SMT
<1> QED BY <1>1, TimesType DEF ChipOf, SignalWidth, SignalHeight, SizeRegisters

\* A tick leaves the registers alone and the raster behind its signal, whatever it
\* paints and although it may panic.
LEMMA TickKeepsAhead ==
  ASSUME NEW v, ChipOf(v), Ahead(v)
  PROVE  /\ ChipOf(Ticked(v)) /\ Ahead(Ticked(v))
         /\ Ticked(v).reg = v.reg /\ Ticked(v).register_select = v.register_select
<1> DEFINE Same(w) == /\ ChipOf(w) /\ Ahead(w)
                      /\ w.reg = v.reg /\ w.register_select = v.register_select
<1>1. Same(Refreshed(v)) /\ ~Refreshed(v).parameters_dirty
  <2> DEFINE cleared == [v EXCEPT !.vblank = FALSE]
  <2>1. /\ Same(cleared)
        /\ cleared.parameters_dirty = v.parameters_dirty /\ cleared.pixels = v.pixels
    BY ChipFields DEF ChipOf, Ahead
  <2>2. CASE ~v.parameters_dirty
    BY <2>1, <2>2 DEF Refreshed
  <2>3. CASE v.parameters_dirty
    <3> DEFINE w == Recomputed(cleared)
    <3>1. /\ DOMAIN w = DOMAIN cleared
          /\ w.parameters_dirty = FALSE /\ w.geometry = Geometry(v.reg)
          /\ w.raster_x = v.raster_x /\ w.raster_y = v.raster_y
          /\ w.reg = v.reg /\ w.register_select = v.register_select
      BY <2>1, ChipFields DEF ChipOf, Recomputed
    <3>2. ChipOf(w) /\ Ahead(w)
      <4> HIDE DEF w
      <4> QED BY <2>1, <3>1, GeometryIs DEF ChipOf, Ahead
    <3>3. Refreshed(v) = w
      BY <2>1, <2>3 DEF Refreshed
    <3> HIDE DEF w
    <3> QED BY <3>1, <3>2, <3>3
  <2> QED BY <2>2, <2>3 DEF ChipOf
<1>2. ASSUME NEW w, Same(w), ~w.parameters_dirty
      PROVE  Same(Drawn(w)) /\ ~Drawn(w).parameters_dirty
  <2> DEFINE d == Drawn(w)
  <2>1. /\ DOMAIN d = DOMAIN w
        /\ \A field \in DOMAIN w \ {"pixels", "panicked", "vblank"} : d[field] = w[field]
    BY DEF Drawn, AtHblank, Paint
  <2>2. /\ d.reg = w.reg /\ d.register_select = w.register_select
        /\ d.raster_x = w.raster_x /\ d.raster_y = w.raster_y
        /\ d.parameters_dirty = w.parameters_dirty /\ d.geometry = w.geometry
    BY <1>2, <2>1, ChipFields DEF ChipOf
  <2> HIDE DEF d
  <2> QED BY <1>2, <2>1, <2>2 DEF d, ChipOf, Ahead
<1>3. ASSUME NEW w, Same(w), ~w.parameters_dirty PROVE Same(Advancing(w))
  <2> DEFINE d == Advancing(w)
  <2>1. /\ DOMAIN d = DOMAIN w
        /\ d.reg = w.reg /\ d.register_select = w.register_select
        /\ d.parameters_dirty = w.parameters_dirty /\ d.geometry = w.geometry
    BY <1>3, ChipFields DEF Advancing, NextColumn, ChipOf
  <2>2. \/ d.raster_x = w.raster_x /\ d.raster_y = w.raster_y
        \/ /\ d.raster_x = w.raster_x + 1 /\ d.raster_y = w.raster_y
           /\ w.raster_x + 1 # w.geometry.signal_width
        \/ /\ d.raster_x = 0
           /\ d.raster_y = IF w.raster_y + 1 = w.geometry.signal_height
                           THEN 0 ELSE w.raster_y + 1
    BY <1>3, ChipFields DEF Advancing, NextColumn, ChipOf
  <2>3. w.raster_x < SignalWidth(w.reg) /\ w.raster_y < SignalHeight(w.reg)
    BY <1>3 DEF Ahead
  <2>4. SignalWidth(w.reg) \in Nat /\ SignalHeight(w.reg) \in Nat
    BY <1>3, SignalType
  <2> HIDE DEF d
  <2> QED BY <1>3, <2>1, <2>2, <2>3, <2>4 DEF d, ChipOf, Ahead
<1>4. Same(v)
  OBVIOUS
<1> HIDE DEF Same
<1>5. Same(Ticked(v))
  BY <1>1, <1>2, <1>3, <1>4 DEF Ticked
<1> QED BY <1>5 DEF Same

\* Nor do n ticks.
LEMMA ClockKeepsAhead ==
  ASSUME NEW v, ChipOf(v), Ahead(v), NEW wrote, NEW n \in Nat, Clock(v, wrote, n)
  PROVE  /\ ChipOf(vdc') /\ Ahead(vdc')
         /\ vdc'.reg = v.reg /\ vdc'.register_select = v.register_select
<1> DEFINE Runs(g, k) == g = [i \in 0 .. k |-> IF i = 0 THEN v ELSE Ticked(g[i - 1])]
           T == {k \in 0 .. n : \E g : Runs(g, k)}
           after[k \in 0 .. n] == IF k = 0 THEN v ELSE Ticked(after[k - 1])
           F == after
           Same(w) == /\ ChipOf(w) /\ Ahead(w)
                      /\ w.reg = v.reg /\ w.register_select = v.register_select
           S == {k \in 0 .. n : Same(F[k])}
<1>1. 0 \in T
  <2> DEFINE g == [i \in 0 .. 0 |-> v]
  <2>1. Runs(g, 0) /\ 0 \in 0 .. n
    OBVIOUS
  <2> HIDE DEF g
  <2> QED BY <2>1
<1>2. ASSUME NEW k \in 0 .. n - 1, k \in T PROVE k + 1 \in T
  <2>1. PICK g : Runs(g, k)
    BY <1>2
  <2> DEFINE h == [i \in 0 .. k + 1 |-> IF i = k + 1 THEN Ticked(g[k]) ELSE g[i]]
  <2>2. \A i \in 0 .. k : h[i] = g[i]
    OBVIOUS
  <2>3. \A i \in 0 .. k + 1 : h[i] = IF i = 0 THEN v ELSE Ticked(h[i - 1])
    <3> SUFFICES ASSUME NEW i \in 0 .. k + 1
                 PROVE  h[i] = IF i = 0 THEN v ELSE Ticked(h[i - 1])
      OBVIOUS
    <3>1. CASE i = k + 1
      BY <2>2, <3>1
    <3>2. CASE i # k + 1
      <4>1. i \in 0 .. k /\ (i # 0 => i - 1 \in 0 .. k)
        BY <3>2
      <4>2. g[i] = IF i = 0 THEN v ELSE Ticked(g[i - 1])
        BY <2>1, <4>1
      <4> HIDE DEF h
      <4> QED BY <2>2, <4>1, <4>2
    <3> QED BY <3>1, <3>2
  <2>4. h = [i \in 0 .. k + 1 |-> h[i]]
    OBVIOUS
  <2> HIDE DEF h
  <2>5. Runs(h, k + 1)
    BY <2>3, <2>4
  <2>6. k + 1 \in 0 .. n
    OBVIOUS
  <2> QED BY <2>5, <2>6
<1> HIDE DEF T
<1>3. \E g : Runs(g, n)
  <2>1. 0 .. n \subseteq T
    BY <1>1, <1>2, UpTo
  <2> QED BY <2>1 DEF T
<1>4. Runs(F, n)
  BY <1>3
<1>5. vdc' = F[n]
  BY DEF Clock
<1> HIDE DEF F
<1>6. 0 \in S
  <2>1. F[0] = v /\ 0 \in 0 .. n
    BY <1>4
  <2>2. Same(v)
    OBVIOUS
  <2> HIDE DEF Same
  <2> QED BY <2>1, <2>2
<1>7. ASSUME NEW k \in 0 .. n - 1, k \in S PROVE k + 1 \in S
  <2>1. F[k + 1] = Ticked(F[k]) /\ k + 1 \in 0 .. n
    BY <1>4
  <2>2. Same(F[k])
    BY <1>7
  <2>3. Same(Ticked(F[k]))
    BY <2>2, TickKeepsAhead
  <2> HIDE DEF Same
  <2> QED BY <2>1, <2>3
<1> HIDE DEF S
<1>8. n \in S
  BY <1>6, <1>7, UpTo
<1> QED BY <1>5, <1>8 DEF S

\* The names of the registers of the sizes, which no other register has.
SizeNames == {"horiz_total", "vert_total", "char_total_vert", "char_total_disp_horiz"}
NameOf(n) ==
  CASE n = 0 -> "horiz_total" [] n = 4 -> "vert_total"
    [] n = 9 -> "char_total_vert" [] n = 22 -> "char_total_disp_horiz"

LEMMA ByteNames ==
  /\ \A n \in SizeRegisters : n \in DOMAIN ByteRegister /\ ByteRegister[n] = NameOf(n)
  /\ \A n \in DOMAIN ByteRegister \ SizeRegisters : ByteRegister[n] \notin SizeNames
  BY DEF ByteRegister, SizeRegisters, SizeNames, NameOf

LEMMA WordNames ==
  \A n \in DOMAIN WordRegister : n \notin SizeRegisters /\ WordRegister[n] \notin SizeNames
  BY DEF WordRegister, SizeRegisters, SizeNames

\* No number of a register means two of them.
LEMMA NumbersApart ==
  ASSUME NEW n \in Nat
  PROVE  /\ n \in DOMAIN ByteRegister => /\ n \notin DOMAIN WordRegister
                                         /\ n - 1 \notin DOMAIN WordRegister
                                         /\ n \notin {28, 31}
         /\ n \in DOMAIN WordRegister => n - 1 \notin DOMAIN WordRegister /\ n \notin {28, 31}
         /\ n - 1 \in DOMAIN WordRegister => n \notin {28, 31}
         /\ n - 1 \in DOMAIN WordRegister => n \notin SizeRegisters
         /\ n \in {28, 31} => n \notin SizeRegisters
  BY DEF ByteRegister, WordRegister, SizeRegisters

\* What is stored where: in the register selected, in another one or two, or nowhere.
Stores(v, name, value) == [v EXCEPT !.reg[name] = value]

\* What a value written to the odd port is stored in.
LEMMA StoredIn ==
  ASSUME NEW v, ChipOf(v), NEW data
  PROVE  LET w == RegisterWritten(v, data)
             n == v.register_select
         IN  \/ /\ n \in DOMAIN ByteRegister
                /\ w = Stores(v, ByteRegister[n], data % ValuesOf(ByteRegister[n]))
             \/ /\ n \notin SizeRegisters
                /\ \/ \E name : name \notin SizeNames /\ \E value : w = Stores(v, name, value)
                   \/ w = WrittenThrough(v, data)
                   \/ w = v
<1> DEFINE w == RegisterWritten(v, data)
           n == v.register_select
<1>1. n \in Nat /\ SizeRegisters \subseteq DOMAIN ByteRegister
  BY ByteNames DEF ChipOf
<1>2. CASE n \in DOMAIN ByteRegister
  <2>1. w = [v EXCEPT !.reg[ByteRegister[n]] = data % ValuesOf(ByteRegister[n])]
    BY <1>1, <1>2, NumbersApart DEF RegisterWritten
  <2> QED BY <1>2, <2>1 DEF Stores
<1>3. CASE n \in DOMAIN WordRegister
  <2>1. n \notin DOMAIN ByteRegister /\ n \notin SizeRegisters
    BY <1>1, <1>3, NumbersApart
  <2>2. PICK value : w = [v EXCEPT !.reg[WordRegister[n]] = value]
    BY <1>1, <1>3, <2>1, NumbersApart DEF RegisterWritten
  <2> QED BY <1>3, <2>1, <2>2, WordNames DEF Stores
<1>4. CASE n - 1 \in DOMAIN WordRegister
  <2>1. n \notin DOMAIN ByteRegister /\ n \notin DOMAIN WordRegister /\ n \notin SizeRegisters
    BY <1>1, <1>4, NumbersApart
  <2>2. PICK value : w = [v EXCEPT !.reg[WordRegister[n - 1]] = value]
    BY <1>1, <1>4, <2>1, NumbersApart DEF RegisterWritten
  <2> QED BY <1>4, <2>1, <2>2, WordNames DEF Stores
<1>5. CASE /\ n \notin DOMAIN ByteRegister /\ n \notin DOMAIN WordRegister
           /\ n - 1 \notin DOMAIN WordRegister
  <2>1. CASE n = 28
    <3>1. w = [v EXCEPT !.reg.char_base_addr = 256 * (data - (data % 32))]
      BY <1>1, <1>5, <2>1 DEF RegisterWritten
    <3>2. w = Stores(v, "char_base_addr", 256 * (data - (data % 32)))
      BY <3>1 DEF Stores
    <3> QED BY <1>1, <1>5, <3>2 DEF SizeNames
  <2>2. CASE n # 28
    BY <1>1, <1>5, <2>2 DEF RegisterWritten
  <2> QED BY <2>1, <2>2
<1> QED BY <1>2, <1>3, <1>4, <1>5

\* A write stores into the register selected: of those of the sizes, no other changes.
StoresSelected(v, w, data) ==
  /\ DOMAIN w = DOMAIN v /\ DOMAIN w.reg = DOMAIN v.reg
  /\ w.raster_x = v.raster_x /\ w.raster_y = v.raster_y
  /\ w.register_select = v.register_select
  /\ \A m \in SizeRegisters :
       w.reg[NameOf(m)] = IF v.register_select = m THEN data % ValuesOf(NameOf(m))
                                                   ELSE v.reg[NameOf(m)]

\* Of the registers of the sizes, it is the one selected, if any.
LEMMA DataWritten ==
  ASSUME NEW v, ChipOf(v), NEW data \in Nat
  PROVE  StoresSelected(v, RegisterWritten(v, data), data)
<1> DEFINE w == RegisterWritten(v, data)
           n == v.register_select
<1> SUFFICES StoresSelected(v, w, data)
  OBVIOUS
<1> HIDE DEF w
<1>1. /\ \A m \in SizeRegisters : NameOf(m) \in SizeNames
      /\ \A m, k \in SizeRegisters : NameOf(m) = NameOf(k) => m = k
      /\ SizeNames \subseteq DOMAIN v.reg
  <2>1. DOMAIN v.reg = DOMAIN NewVdc.reg
    BY DEF ChipOf
  <2>2. DOMAIN NewVdc.reg
          = Range(ByteRegister) \cup Range(WordRegister) \cup {"char_base_addr"}
    BY DEF NewVdc
  <2>3. \A m \in SizeRegisters : NameOf(m) \in Range(ByteRegister)
    BY ByteNames DEF Range
  <2>4. /\ \A m \in SizeRegisters : NameOf(m) \in SizeNames
        /\ \A m, k \in SizeRegisters : NameOf(m) = NameOf(k) => m = k
        /\ \A name \in SizeNames : \E m \in SizeRegisters : name = NameOf(m)
    <3>1. /\ NameOf(0) = "horiz_total" /\ NameOf(4) = "vert_total"
          /\ NameOf(9) = "char_total_vert" /\ NameOf(22) = "char_total_disp_horiz"
      BY DEF NameOf
    <3> QED BY <3>1 DEF SizeRegisters, SizeNames
  <2> QED BY <2>1, <2>2, <2>3, <2>4
<1>2. ASSUME NEW name, NEW value
      PROVE  LET u == Stores(v, name, value)
             IN  /\ DOMAIN u = DOMAIN v /\ DOMAIN u.reg = DOMAIN v.reg
                 /\ u.raster_x = v.raster_x /\ u.raster_y = v.raster_y
                 /\ u.register_select = n
                 /\ name \in DOMAIN v.reg => u.reg[name] = value
                 /\ \A other \in DOMAIN v.reg \ {name} : u.reg[other] = v.reg[other]
  BY ChipFields DEF Stores, ChipOf
<1>3. LET u == WrittenThrough(v, data)
      IN  /\ DOMAIN u = DOMAIN v /\ DOMAIN u.reg = DOMAIN v.reg
          /\ u.raster_x = v.raster_x /\ u.raster_y = v.raster_y
          /\ u.register_select = n
          /\ \A other \in SizeNames : u.reg[other] = v.reg[other]
  BY <1>1, ChipFields DEF WrittenThrough, Advanced, ChipOf, SizeNames
<1>4. CASE n \in DOMAIN ByteRegister
           /\ w = Stores(v, ByteRegister[n], data % ValuesOf(ByteRegister[n]))
  <2> DEFINE name == ByteRegister[n]
             value == data % ValuesOf(name)
  <2>1. w = Stores(v, name, value)
    BY <1>4
  <2>2. CASE n \in SizeRegisters
    <3>1. name = NameOf(n) /\ name \in DOMAIN v.reg
      BY <1>1, <2>2, ByteNames
    <3> HIDE DEF name, value
    <3>2. \A m \in SizeRegisters : w.reg[NameOf(m)] = IF n = m THEN value ELSE v.reg[NameOf(m)]
      BY <1>1, <1>2, <2>1, <2>2, <3>1
    <3> QED BY <1>2, <2>1, <3>1, <3>2 DEF value, StoresSelected
  <2>3. CASE n \notin SizeRegisters
    <3>1. name \notin SizeNames
      BY <1>4, <2>3, ByteNames
    <3> HIDE DEF name, value
    <3> QED BY <1>1, <1>2, <2>1, <2>3, <3>1 DEF StoresSelected
  <2> QED BY <2>2, <2>3
<1>5. CASE n \notin SizeRegisters
           /\ \E name : name \notin SizeNames /\ \E value : w = Stores(v, name, value)
  BY <1>1, <1>2, <1>5 DEF StoresSelected
<1>6. CASE n \notin SizeRegisters /\ w = WrittenThrough(v, data)
  BY <1>1, <1>3, <1>6 DEF StoresSelected
<1>7. CASE n \notin SizeRegisters /\ w = v
  BY <1>7 DEF StoresSelected
<1> QED BY <1>4, <1>5, <1>6, <1>7, StoredIn DEF w

-----------------------------------------------------------------------------
\* The accesses of the program: in threes while it sends the table, each of which
\* sets one register up, and then to registers that are none of the sizes.
Entries == Len(VdcInitValues)
LateRegisters == {14, 15, 18, 19, 31}
LateAccess ==
  {InFrom(VDC_STAT)} \cup {OutTo(VDC_SEL, n) : n \in LateRegisters}
    \cup {OutTo(VDC_DATA, data) : data \in Nat}
Accesses ==
  {InFrom(VDC_STAT)} \cup {OutTo(VDC_SEL, n) : n \in Nat}
    \cup {OutTo(VDC_DATA, data) : data \in Nat}

\* What comes first stays where it is, and what comes second goes on from there.
LEMMA Placed ==
  ASSUME NEW S, NEW s \in Seq(S), NEW t \in Seq(S)
  PROVE  /\ s \o t \in Seq(S) /\ Len(s \o t) = Len(s) + Len(t)
         /\ Len(s) \in Nat /\ Len(t) \in Nat
         /\ \A i \in 1 .. Len(s) : (s \o t)[i] = s[i]
         /\ \A i \in 1 .. Len(t) : (s \o t)[Len(s) + i] = t[i]
<1> DEFINE st == s \o t
<1>1. Len(s) \in Nat /\ Len(t) \in Nat
  OBVIOUS
<1>2. /\ st \in Seq(S) /\ Len(st) = Len(s) + Len(t)
      /\ \A i \in 1 .. Len(s) + Len(t) : st[i] = IF i <= Len(s) THEN s[i] ELSE t[i - Len(s)]
  BY ConcatProperties
<1> HIDE DEF st
<1>3. ASSUME NEW i \in 1 .. Len(s) PROVE st[i] = s[i]
  BY <1>1, <1>2
<1>4. ASSUME NEW i \in 1 .. Len(t) PROVE st[Len(s) + i] = t[i]
  <2>1. /\ Len(s) + i \in 1 .. Len(s) + Len(t) /\ ~(Len(s) + i <= Len(s))
        /\ (Len(s) + i) - Len(s) = i
    BY <1>1
  <2> QED BY <1>2, <2>1
<1> QED BY <1>1, <1>2, <1>3, <1>4 DEF st

\* Two and one more are three.
LEMMA ThreeAre == \A a, b, c : Append(<<a, b>>, c) = <<a, b, c>>
<1> SUFFICES ASSUME NEW a, NEW b, NEW c PROVE Append(<<a, b>>, c) = <<a, b, c>>
  OBVIOUS
<1> DEFINE S == {a, b, c}
           two == <<a, b>>
           three == <<a, b, c>>
           more == Append(two, c)
<1>1. two \in Seq(S) /\ Len(two) = 2 /\ two[1] = a /\ two[2] = b /\ c \in S
  OBVIOUS
<1>2. three \in Seq(S) /\ Len(three) = 3 /\ three[1] = a /\ three[2] = b /\ three[3] = c
  OBVIOUS
<1> HIDE DEF S, two, three, more
<1>3. /\ more \in Seq(S) /\ Len(more) = Len(two) + 1
      /\ \A i \in 1 .. Len(two) : more[i] = two[i]
      /\ more[Len(two) + 1] = c
  <2>1. /\ Append(two, c) \in Seq(S) /\ Len(Append(two, c)) = Len(two) + 1
        /\ \A i \in 1 .. Len(two) : Append(two, c)[i] = two[i]
        /\ Append(two, c)[Len(two) + 1] = c
    <3>1. two \in Seq(S) /\ c \in S
      BY <1>1
    <3> QED BY <3>1, AppendProperties
  <2> QED BY <2>1, Zenon DEF more
<1>4. Len(more) = 3 /\ more[1] = a /\ more[2] = b /\ more[3] = c
  BY <1>1, <1>3
<1>5. \A i \in 1 .. Len(more) : more[i] = three[i]
  BY <1>2, <1>4
<1> QED BY <1>2, <1>3, <1>4, <1>5, SeqEqual DEF more, two, three

\* The three accesses that set a register, and what is true of them.
LEMMA RegisterSet ==
  ASSUME NEW n, NEW data
  PROVE  /\ SetRegister(n, data)
              = <<OutTo(VDC_SEL, n), InFrom(VDC_STAT), OutTo(VDC_DATA, data)>>
         /\ n \in Nat /\ data \in Nat => SetRegister(n, data) \in Seq(Accesses)
         /\ n \in LateRegisters /\ data \in Nat => SetRegister(n, data) \in Seq(LateAccess)
<1>1. SetRegister(n, data) = <<OutTo(VDC_SEL, n), InFrom(VDC_STAT), OutTo(VDC_DATA, data)>>
  BY ThreeAre, Zenon DEF SetRegister, VdcSel
<1>2. \A S, a, b, c : a \in S /\ b \in S /\ c \in S => <<a, b, c>> \in Seq(S)
  OBVIOUS
<1>3. ASSUME n \in Nat, data \in Nat PROVE SetRegister(n, data) \in Seq(Accesses)
  <2>1. /\ OutTo(VDC_SEL, n) \in Accesses /\ InFrom(VDC_STAT) \in Accesses
        /\ OutTo(VDC_DATA, data) \in Accesses
    BY <1>3, Zenon DEF Accesses
  <2> QED BY <1>1, <1>2, <2>1, Zenon
<1>4. ASSUME n \in LateRegisters, data \in Nat PROVE SetRegister(n, data) \in Seq(LateAccess)
  <2>1. /\ OutTo(VDC_SEL, n) \in LateAccess /\ InFrom(VDC_STAT) \in LateAccess
        /\ OutTo(VDC_DATA, data) \in LateAccess
    BY <1>4, Zenon DEF LateAccess
  <2> QED BY <1>1, <1>2, <2>1, Zenon
<1> QED BY <1>1, <1>3, <1>4

\* The table, sent.
LEMMA TableSent ==
  /\ VdcInit \in Seq(Accesses) /\ Len(VdcInit) = 3 * Entries
  /\ \A j \in 1 .. Entries :
       /\ VdcInit[3 * j - 2] = OutTo(VDC_SEL, VdcInitValues[j][1])
       /\ VdcInit[3 * j - 1] = InFrom(VDC_STAT)
       /\ VdcInit[3 * j] = OutTo(VDC_DATA, VdcInitValues[j][2])
<1> DEFINE ss == [k \in DOMAIN VdcInitValues |->
                    SetRegister(VdcInitValues[k][1], VdcInitValues[k][2])]
           Three(t, j) ==
             /\ t[3 * j - 2] = OutTo(VDC_SEL, VdcInitValues[j][1])
             /\ t[3 * j - 1] = InFrom(VDC_STAT)
             /\ t[3 * j] = OutTo(VDC_DATA, VdcInitValues[j][2])
           Sent(t, k) ==
             t \in Seq(Accesses) /\ Len(t) = 3 * k /\ \A j \in 1 .. k : Three(t, j)
<1>1. /\ Entries \in Nat /\ DOMAIN VdcInitValues = 1 .. Entries
      /\ \A k \in 1 .. Entries : VdcInitValues[k][1] \in Nat /\ VdcInitValues[k][2] \in Nat
  <2>1. VdcInitValues \in Seq((0 .. 63) \X (0 .. 255))
    BY HelloAssumption
  <2>2. Entries \in Nat /\ DOMAIN VdcInitValues = 1 .. Entries
    BY <2>1 DEF Entries
  <2>3. ASSUME NEW k \in 1 .. Entries
        PROVE  VdcInitValues[k][1] \in Nat /\ VdcInitValues[k][2] \in Nat
    <3>1. VdcInitValues[k] \in (0 .. 63) \X (0 .. 255)
      BY <2>1 DEF Entries
    <3> QED BY <3>1
  <2> QED BY <2>2, <2>3
<1>2. \A k \in 1 .. Entries :
        /\ ss[k] = <<OutTo(VDC_SEL, VdcInitValues[k][1]), InFrom(VDC_STAT),
                     OutTo(VDC_DATA, VdcInitValues[k][2])>>
        /\ ss[k] \in Seq(Accesses)
  BY <1>1, RegisterSet
<1>3. ss \in Seq(Seq(Accesses)) /\ Len(ss) = Entries
  <2>1. ss \in [1 .. Entries -> Seq(Accesses)]
    BY <1>1, <1>2
  <2> HIDE DEF ss
  <2> QED BY <1>1, <2>1
<1>4. VdcInit = FlattenSeq(ss)
  BY DEF VdcInit
<1> HIDE DEF ss
<1>5. CASE Entries = 0
  <2>1. ss = <<>> /\ VdcInit = <<>>
    BY <1>3, <1>4, <1>5, JoinNone
  <2> QED BY <1>5, <2>1, EmptySeq
<1>6. CASE Entries # 0
  <2>1. ss # <<>> /\ Entries \in 1 .. Entries
    BY <1>1, <1>3, <1>6
  <2>2. PICK f \in [1 .. Entries -> Seq(Accesses)] : Joins(f, ss)
    BY <1>3, <2>1, JoinsExist
  <2> DEFINE S == {k \in 1 .. Entries : Sent(f[k], k)}
  <2>3. 1 \in S
    <3>1. f[1] = ss[1] /\ 1 \in 1 .. Entries
      BY <1>1, <2>1, <2>2 DEF Joins
    <3>2. /\ ss[1] = <<OutTo(VDC_SEL, VdcInitValues[1][1]), InFrom(VDC_STAT),
                       OutTo(VDC_DATA, VdcInitValues[1][2])>>
          /\ ss[1] \in Seq(Accesses)
      BY <1>2, <3>1
    <3>3. Len(ss[1]) = 3 * 1 /\ Three(ss[1], 1)
      BY <3>2
    <3>4. \A j \in 1 .. 1 : j = 1
      OBVIOUS
    <3> HIDE DEF Three
    <3>5. Sent(ss[1], 1)
      BY <3>2, <3>3, <3>4
    <3> QED BY <3>1, <3>5
  <2>4. ASSUME NEW k \in 1 .. Entries - 1, k \in S PROVE k + 1 \in S
    <3>1. k + 1 \in 1 .. Entries /\ k + 1 \in 2 .. Entries /\ k \in 1 .. Entries
      BY <1>1
    <3>2. f[k + 1] = f[k] \o ss[k + 1]
      <4>1. (k + 1) - 1 = k
        OBVIOUS
      <4> QED BY <1>3, <2>2, <3>1, <4>1 DEF Joins
    <3>3. Sent(f[k + 1], k + 1)
      <4> DEFINE t == f[k]
                 u == ss[k + 1]
                 tu == f[k + 1]
      <4>1. /\ t \in Seq(Accesses) /\ Len(t) = 3 * k /\ \A j \in 1 .. k : Three(t, j)
        BY <2>4
      <4>2. /\ u = <<OutTo(VDC_SEL, VdcInitValues[k + 1][1]), InFrom(VDC_STAT),
                     OutTo(VDC_DATA, VdcInitValues[k + 1][2])>>
            /\ u \in Seq(Accesses)
        BY <1>2, <3>1
      <4>3. tu = t \o u /\ Len(u) = 3
        BY <3>2, <4>2
      <4> HIDE DEF t, u, tu
      <4>4. /\ tu \in Seq(Accesses) /\ Len(tu) = Len(t) + 3
            /\ \A i \in 1 .. Len(t) : tu[i] = t[i]
            /\ \A i \in 1 .. 3 : tu[Len(t) + i] = u[i]
        <5>1. /\ t \o u \in Seq(Accesses) /\ Len(t \o u) = Len(t) + Len(u)
              /\ \A i \in 1 .. Len(t) : (t \o u)[i] = t[i]
              /\ \A i \in 1 .. Len(u) : (t \o u)[Len(t) + i] = u[i]
          <6>1. t \in Seq(Accesses) /\ u \in Seq(Accesses)
            BY <4>1, <4>2
          <6> QED BY <6>1, Placed
        <5> QED BY <4>3, <5>1
      <4>5. Len(tu) = 3 * (k + 1)
        BY <4>1, <4>4
      <4>6. ASSUME NEW j \in 1 .. k PROVE Three(tu, j)
        <5>1. 3 * j - 2 \in 1 .. Len(t) /\ 3 * j - 1 \in 1 .. Len(t) /\ 3 * j \in 1 .. Len(t)
          BY <4>1
        <5> QED BY <4>1, <4>4, <5>1
      <4>7. Three(tu, k + 1)
        <5>1. /\ 3 * (k + 1) - 2 = Len(t) + 1 /\ 3 * (k + 1) - 1 = Len(t) + 2
              /\ 3 * (k + 1) = Len(t) + 3
          BY <4>1
        <5>2. /\ tu[Len(t) + 1] = u[1] /\ tu[Len(t) + 2] = u[2] /\ tu[Len(t) + 3] = u[3]
          BY <4>4
        <5> QED BY <4>2, <5>1, <5>2
      <4>8. \A j \in 1 .. k + 1 : Three(tu, j)
        <5>1. \A j \in 1 .. k + 1 : j \in 1 .. k \/ j = k + 1
          OBVIOUS
        <5> HIDE DEF Three
        <5> QED BY <4>6, <4>7, <5>1
      <4> HIDE DEF Three
      <4> QED BY <4>4, <4>5, <4>8 DEF tu
    <3> QED BY <3>1, <3>3
  <2> HIDE DEF S
  <2>5. Entries \in S
    <3>1. 1 \in Int /\ Entries \in Int
      BY <1>1
    <3>2. 1 .. Entries \subseteq S
      BY <2>3, <2>4, <3>1, UpTo
    <3> QED BY <2>1, <3>2
  <2>6. VdcInit = f[Entries]
    BY <1>3, <1>4, <2>1, <2>2, JoinIs
  <2> QED BY <2>5, <2>6 DEF S
<1> QED BY <1>5, <1>6

\* Sequences of bytes are sequences of numbers.
LEMMA BytesAreNumbers == Seq(0 .. 255) \subseteq Seq(Nat)
<1>1. \A S, T : S \subseteq T => Seq(S) \subseteq Seq(T)
  OBVIOUS
<1>2. 0 .. 255 \subseteq Nat
  OBVIOUS
<1> QED BY <1>1, <1>2, Zenon

\* The bytes of the characters are bytes.
LEMMA CharsetSent == CharsetBytes \in Seq(Nat)
<1> DEFINE Byte16(k) == [line \in 1 .. 16 |->
             IF k <= Len(Charset) /\ line <= Height(Charset) THEN Charset[k][line] ELSE 0]
           ss == [k \in 1 .. Len(Charset) * Height(Charset) |-> Byte16(k)]
<1>1. /\ Charset \in Seq(Seq(0 .. 255)) /\ Charset # <<>>
      /\ \A k \in DOMAIN Charset : Len(Charset[k]) = Len(Charset[1])
  BY HelloAssumption
<1>2. /\ Len(Charset) \in Nat /\ DOMAIN Charset = 1 .. Len(Charset) /\ 1 \in DOMAIN Charset
      /\ \A k \in DOMAIN Charset : Charset[k] \in Seq(0 .. 255)
  BY <1>1
<1>3. Height(Charset) \in Nat /\ \A k \in DOMAIN Charset : Len(Charset[k]) = Height(Charset)
  BY <1>1, <1>2 DEF Height
<1>4. Len(Charset) * Height(Charset) \in Nat
  BY <1>2, <1>3, SMT
<1>5. ASSUME NEW k \in 1 .. Len(Charset) * Height(Charset) PROVE Byte16(k) \in Seq(Nat)
  <2>1. ASSUME NEW line \in 1 .. 16, k <= Len(Charset), line <= Height(Charset)
        PROVE  Charset[k][line] \in Nat
    <3>1. k \in DOMAIN Charset /\ line \in 1 .. Len(Charset[k])
      BY <1>2, <1>3, <1>4, <2>1
    <3>2. Charset[k] \in Seq(Nat)
      BY <1>2, <3>1, BytesAreNumbers
    <3> HIDE DEF Byte16
    <3> QED BY <3>1, <3>2
  <2>2. Byte16(k) \in [1 .. 16 -> Nat]
    BY <2>1
  <2>3. 16 \in Nat /\ \A n \in Nat : \A S : [1 .. n -> S] \subseteq Seq(S)
    OBVIOUS
  <2> HIDE DEF Byte16
  <2> QED BY <2>2, <2>3, Zenon
<1> HIDE DEF Byte16
<1>6. ss \in [1 .. Len(Charset) * Height(Charset) -> Seq(Nat)]
  BY <1>5
<1>7. ss \in Seq(Seq(Nat))
  BY <1>4, <1>6
<1>8. CharsetBytes = FlattenSeq(ss)
  BY DEF CharsetBytes, Byte16
<1> HIDE DEF ss
<1> QED BY <1>7, <1>8, JoinType

\* Bytes sent in a row are late accesses.
LEMMA SendsData ==
  ASSUME NEW bytes \in Seq(Nat)
  PROVE  Send(bytes) \in Seq(LateAccess)
<1>1. Len(bytes) \in Nat /\ DOMAIN bytes = 1 .. Len(bytes)
      /\ \A k \in 1 .. Len(bytes) : bytes[k] \in Nat
  OBVIOUS
<1>2. \A k \in 1 .. Len(bytes) : OutTo(VDC_DATA, bytes[k]) \in LateAccess
  BY <1>1, Zenon DEF LateAccess
<1>3. Send(bytes) \in [1 .. Len(bytes) -> LateAccess]
  BY <1>1, <1>2 DEF Send
<1> QED BY <1>1, <1>3

\* After the table: the first register is selected, and then none but late ones.
First(e) == {s \in Seq(LateAccess) : s # <<>> /\ s[1] = e}

LEMMA HelloSent == Hello \in First(OutTo(VDC_SEL, 18))
<1> DEFINE e == OutTo(VDC_SEL, 18)
<1>1. \A s \in First(e), t \in Seq(LateAccess) : s \o t \in First(e)
  <2> SUFFICES ASSUME NEW s \in First(e), NEW t \in Seq(LateAccess) PROVE s \o t \in First(e)
    OBVIOUS
  <2> DEFINE st == s \o t
  <2>1. s \in Seq(LateAccess) /\ s # <<>> /\ s[1] = e
    BY DEF First
  <2>2. 1 \in 1 .. Len(s) /\ Len(s) \in Nat /\ Len(t) \in Nat
    BY <2>1
  <2>3. /\ st \in Seq(LateAccess) /\ Len(st) = Len(s) + Len(t)
        /\ \A i \in 1 .. Len(s) : st[i] = s[i]
    BY <2>1, Placed
  <2> HIDE DEF st
  <2>4. st[1] = e /\ st # <<>>
    BY <2>1, <2>2, <2>3
  <2> QED BY <2>3, <2>4 DEF First, st
<1>2. SetRegister(18, 32) \in First(e)
  <2>1. SetRegister(18, 32) = <<e, InFrom(VDC_STAT), OutTo(VDC_DATA, 32)>>
    BY RegisterSet
  <2>2. SetRegister(18, 32) \in Seq(LateAccess)
    BY RegisterSet DEF LateRegisters
  <2> HIDE DEF e
  <2>3. SetRegister(18, 32) # <<>> /\ SetRegister(18, 32)[1] = e
    BY <2>1
  <2> QED BY <2>2, <2>3 DEF First
<1>3. /\ SetRegister(19, 0) \in Seq(LateAccess) /\ SetRegister(18, 0) \in Seq(LateAccess)
      /\ SetRegister(15, Len(HelloMsg)) \in Seq(LateAccess)
  <2>1. Len(HelloMsg) \in Nat
    BY HelloAssumption
  <2> QED BY <2>1, RegisterSet DEF LateRegisters
<1>4. VdcSel(31) \in Seq(LateAccess)
  <2>1. OutTo(VDC_SEL, 31) \in LateAccess /\ InFrom(VDC_STAT) \in LateAccess
    BY DEF LateAccess, LateRegisters
  <2>2. \A S, a, b : a \in S /\ b \in S => <<a, b>> \in Seq(S)
    OBVIOUS
  <2> QED BY <2>1, <2>2, Zenon DEF VdcSel
<1>5. Send(CharsetBytes) \in Seq(LateAccess) /\ Send(HelloMsg) \in Seq(LateAccess)
  <2>1. HelloMsg \in Seq(Nat)
    BY HelloAssumption, BytesAreNumbers
  <2> QED BY <2>1, CharsetSent, SendsData
<1> HIDE DEF e
<1>6. SetRegister(18, 32) \o SetRegister(19, 0) \o VdcSel(31) \o Send(CharsetBytes)
        \in First(e)
  BY <1>1, <1>2, <1>3, <1>4, <1>5, Zenon
<1>7. SetRegister(18, 32) \o SetRegister(19, 0) \o VdcSel(31) \o Send(CharsetBytes)
        \o SetRegister(18, 0) \o SetRegister(19, 0) \o VdcSel(31) \o Send(HelloMsg)
        \in First(e)
  BY <1>1, <1>3, <1>4, <1>5, <1>6, Zenon
<1>8. Hello \in First(e)
  BY <1>1, <1>3, <1>7, Zenon DEF Hello
<1> QED BY <1>8 DEF e

\* Which access is the k-th, of the boot and of the loop after it.
LEMMA AccessIs ==
  ASSUME CurPos \in Nat
  PROVE  /\ Entries \in Nat /\ Exit \in Nat /\ Exit > 3 * Entries + 1
         /\ \A j \in 1 .. Entries :
              /\ Access(3 * j - 2) = OutTo(VDC_SEL, VdcInitValues[j][1])
              /\ Access(3 * j - 1) = InFrom(VDC_STAT)
              /\ Access(3 * j) = OutTo(VDC_DATA, VdcInitValues[j][2])
         /\ Access(3 * Entries + 1) = OutTo(VDC_SEL, 18)
         /\ Access(Exit) = InFrom(KB_PORT)
         /\ \A k \in 3 * Entries + 2 .. Exit + 6 : k # Exit => Access(k) \in LateAccess
<1> DEFINE n == Entries
           h == Len(Hello)
           steps == SetRegister(15, CurPos % 256) \o SetRegister(14, CurPos \div 256)
<1>1. /\ VdcInit \in Seq(Accesses) /\ Len(VdcInit) = 3 * n
      /\ \A j \in 1 .. n :
           /\ VdcInit[3 * j - 2] = OutTo(VDC_SEL, VdcInitValues[j][1])
           /\ VdcInit[3 * j - 1] = InFrom(VDC_STAT)
           /\ VdcInit[3 * j] = OutTo(VDC_DATA, VdcInitValues[j][2])
  BY TableSent
<1>2. n \in Nat
  BY HelloAssumption DEF Entries
<1>3. Hello \in Seq(LateAccess) /\ Hello # <<>> /\ Hello[1] = OutTo(VDC_SEL, 18)
  BY HelloSent DEF First
<1>4. h \in Nat \ {0} /\ \A i \in 1 .. h : Hello[i] \in LateAccess
  BY <1>3
<1>5. LateAccess \subseteq Accesses
  BY DEF LateAccess, Accesses, LateRegisters
<1>6. /\ Len(Boot) = 3 * n + h
      /\ \A i \in 1 .. 3 * n : Boot[i] = VdcInit[i]
      /\ \A i \in 1 .. h : Boot[3 * n + i] = Hello[i]
  <2>1. VdcInit \in Seq(Accesses) /\ Hello \in Seq(Accesses)
    BY <1>1, <1>3, <1>5
  <2>2. /\ Len(VdcInit \o Hello) = Len(VdcInit) + Len(Hello)
        /\ \A i \in 1 .. Len(VdcInit) : (VdcInit \o Hello)[i] = VdcInit[i]
        /\ \A i \in 1 .. Len(Hello) : (VdcInit \o Hello)[Len(VdcInit) + i] = Hello[i]
    <3>1. \A s, t \in Seq(Accesses) :
            /\ Len(s \o t) = Len(s) + Len(t)
            /\ \A i \in 1 .. Len(s) : (s \o t)[i] = s[i]
            /\ \A i \in 1 .. Len(t) : (s \o t)[Len(s) + i] = t[i]
      BY Placed
    <3> QED BY <2>1, <3>1, Zenon
  <2> QED BY <1>1, <2>2 DEF Boot
<1> HIDE DEF n, h
<1>7. Exit = 3 * n + h + 1
  BY <1>6 DEF Exit
<1>8. steps \in Seq(LateAccess) /\ Len(steps) = 6
  <2> DEFINE a == SetRegister(15, CurPos % 256)
             b == SetRegister(14, CurPos \div 256)
  <2>1. CurPos % 256 \in Nat /\ CurPos \div 256 \in Nat
    OBVIOUS
  <2>2. a \in Seq(LateAccess) /\ b \in Seq(LateAccess)
    BY <2>1, RegisterSet DEF LateRegisters
  <2>3. Len(a) = 3 /\ Len(b) = 3
    <3>1. \A u, v, w : Len(<<u, v, w>>) = 3
      OBVIOUS
    <3>2. \A u, v : Len(SetRegister(u, v)) = 3
      BY <3>1, RegisterSet
    <3> QED BY <3>2
  <2> HIDE DEF a, b
  <2>4. a \o b \in Seq(LateAccess) /\ Len(a \o b) = Len(a) + Len(b)
    BY <2>2, Placed, Zenon
  <2>5. Len(a \o b) = 6
    BY <2>3, <2>4
  <2> QED BY <2>4, <2>5 DEF a, b
<1>9. /\ Exit \in Nat /\ Exit > 3 * n + 1
      /\ \A k \in Nat : k < Exit => Access(k) = Boot[k]
      /\ Access(Exit) = InFrom(KB_PORT)
      /\ \A k \in Nat : k > Exit => Access(k) = steps[k - Exit]
  <2>1. Exit \in Nat /\ Exit > 3 * n + 1
    BY <1>2, <1>4, <1>7
  <2>2. ASSUME NEW k \in Nat, k < Exit PROVE Access(k) = Boot[k]
    BY <2>1, <2>2 DEF Access
  <2>3. Access(Exit) = InFrom(KB_PORT)
    BY <2>1 DEF Access
  <2>4. ASSUME NEW k \in Nat, k > Exit PROVE Access(k) = steps[k - Exit]
    <3> DEFINE t == steps[k - Exit]
    <3>1. ~(k < Exit) /\ k # Exit
      BY <2>1, <2>4
    <3> QED BY <2>4, <3>1, Zenon DEF Access
  <2> QED BY <2>1, <2>2, <2>3, <2>4
<1> HIDE DEF steps
<1>10. ASSUME NEW j \in 1 .. n
      PROVE  /\ Access(3 * j - 2) = OutTo(VDC_SEL, VdcInitValues[j][1])
             /\ Access(3 * j - 1) = InFrom(VDC_STAT)
             /\ Access(3 * j) = OutTo(VDC_DATA, VdcInitValues[j][2])
  <2>1. ASSUME NEW i \in {3 * j - 2, 3 * j - 1, 3 * j} PROVE Access(i) = VdcInit[i]
    <3>1. i \in 1 .. 3 * n /\ i \in Nat /\ i < Exit
      BY <1>2, <1>9
    <3> QED BY <1>6, <1>9, <3>1
  <2> QED BY <1>1, <2>1 DEF n
<1>11. Access(3 * n + 1) = OutTo(VDC_SEL, 18)
  <2>1. 1 \in 1 .. h /\ 3 * n + 1 \in Nat /\ 3 * n + 1 < Exit
    BY <1>2, <1>4, <1>9
  <2> QED BY <1>3, <1>6, <1>9, <2>1
<1>12. ASSUME NEW k \in 3 * n + 2 .. Exit + 6, k # Exit PROVE Access(k) \in LateAccess
  <2>1. CASE k < Exit
    <3>1. PICK i \in 1 .. h : k = 3 * n + i
      <4>1. k - 3 * n \in 1 .. h /\ k = 3 * n + (k - 3 * n)
        BY <1>2, <1>4, <1>7, <2>1
      <4> QED BY <4>1
    <3>2. Access(k) = Boot[3 * n + i]
      BY <1>2, <1>9, <2>1, <3>1
    <3>3. Boot[3 * n + i] = Hello[i] /\ Hello[i] \in LateAccess
      BY <1>4, <1>6
    <3> QED BY <3>2, <3>3
  <2>2. CASE k > Exit
    <3>1. Access(k) = steps[k - Exit] /\ k - Exit \in 1 .. 6
      BY <1>2, <1>9, <2>2
    <3>2. \A S : \A s \in Seq(S) : \A i \in 1 .. Len(s) : s[i] \in S
      OBVIOUS
    <3>3. \A i \in 1 .. 6 : steps[i] \in LateAccess
      BY <1>8, <3>2, Zenon
    <3> QED BY <3>1, <3>3
  <2> QED BY <1>2, <1>9, <1>12, <2>1, <2>2
<1> QED BY <1>2, <1>9, <1>10, <1>11, <1>12 DEF n

-----------------------------------------------------------------------------
\* The sizes of a chip, and what a write does to them.
SizeIs(v, n) == Times(n, v.reg[NameOf(n)])

\* A register of fewer bits is worth the same as the whole byte.
LEMMA Masked ==
  ASSUME NEW n \in SizeRegisters, NEW data \in 0 .. 255
  PROVE  Times(n, data % ValuesOf(NameOf(n))) = Times(n, data)
<1>1. CASE n \in {0, 4, 22}
  <2>1. ValuesOf(NameOf(n)) = 256
    BY <1>1 DEF NameOf, ValuesOf
  <2>2. data % 256 = data
    OBVIOUS
  <2> QED BY <2>1, <2>2
<1>2. CASE n = 9
  <2>1. ValuesOf(NameOf(n)) = 32
    BY <1>2 DEF NameOf, ValuesOf
  <2>2. ((data % 32) + 1) % 32 = (data + 1) % 32
    OBVIOUS
  <2> QED BY <1>2, <2>1, <2>2 DEF Times
<1> QED BY <1>1, <1>2 DEF SizeRegisters

\* The signal is the product of the sizes.
LEMMA SizesMake ==
  ASSUME NEW v, ChipOf(v)
  PROVE  /\ SignalWidth(v.reg) = SizeIs(v, 0) * SizeIs(v, 22)
         /\ SignalHeight(v.reg) = SizeIs(v, 4) * SizeIs(v, 9)
         /\ \A n \in SizeRegisters : SizeIs(v, n) \in Nat /\ v.reg[NameOf(n)] \in Nat
<1>1. /\ NameOf(0) = "horiz_total" /\ NameOf(4) = "vert_total"
      /\ NameOf(9) = "char_total_vert" /\ NameOf(22) = "char_total_disp_horiz"
  BY DEF NameOf
<1>2. \A n \in SizeRegisters : v.reg[NameOf(n)] \in Nat
  BY <1>1 DEF ChipOf, SizeRegisters
<1> QED BY <1>1, <1>2, TimesType DEF SignalWidth, SignalHeight, SizeIs

\* A product grows with its factors.
LEMMA ProductGrows ==
  ASSUME NEW a \in Nat, NEW b \in Nat, NEW c \in Nat, NEW d \in Nat, a <= c, b <= d
  PROVE  a * b <= c * d
<1> DEFINE x == c - a
           y == d - b
<1>1. x \in Nat /\ y \in Nat /\ c = a + x /\ d = b + y
  OBVIOUS
<1> HIDE DEF x, y
<1>2. (a + x) * (b + y) = a * b + a * y + x * b + x * y
  BY <1>1, SMT
<1>3. a * y \in Nat /\ x * b \in Nat /\ x * y \in Nat /\ a * b \in Nat
  BY <1>1, SMT
<1> QED BY <1>1, <1>2, <1>3

\* Selecting a register changes none.
LEMMA Selecting ==
  ASSUME NEW v, ChipOf(v), Ahead(v), NEW data \in Nat
  PROVE  LET w == Written(v, VDC_SEL, data)
         IN  /\ ChipOf(w) /\ Ahead(w)
             /\ w.reg = v.reg /\ w.register_select = data % 64
<1> DEFINE w == [v EXCEPT !.register_select = data % 64, !.parameters_dirty = TRUE]
<1>1. Written(v, VDC_SEL, data) = w
  BY DEF Written, VDC_SEL
<1>2. /\ DOMAIN w = DOMAIN v /\ w.reg = v.reg
      /\ w.raster_x = v.raster_x /\ w.raster_y = v.raster_y
      /\ w.parameters_dirty = TRUE /\ w.register_select = data % 64
  BY ChipFields DEF ChipOf
<1>3. data % 64 \in Nat
  OBVIOUS
<1> HIDE DEF w
<1> QED BY <1>1, <1>2, <1>3 DEF ChipOf, Ahead

\* A value sent enlarges a size or is sent to no register of one.
LEMMA Sending ==
  ASSUME NEW v, ChipOf(v), Ahead(v), NEW data \in Nat,
         v.register_select \in SizeRegisters =>
           /\ data \in 0 .. 255
           /\ SizeIs(v, v.register_select) <= Times(v.register_select, data)
  PROVE  LET w == Written(v, VDC_DATA, data)
         IN  /\ ChipOf(w) /\ Ahead(w) /\ w.register_select = v.register_select
             /\ \A n \in SizeRegisters :
                  SizeIs(w, n) = IF v.register_select = n THEN Times(n, data) ELSE SizeIs(v, n)
<1> DEFINE u == RegisterWritten(v, data)
           w == [u EXCEPT !.parameters_dirty = TRUE]
           sel == v.register_select
<1>1. Written(v, VDC_DATA, data) = w
  BY DEF Written, VDC_DATA
<1>2. StoresSelected(v, u, data)
  BY DataWritten
<1> HIDE DEF u
<1>3. /\ DOMAIN w = DOMAIN NewVdc /\ w.reg = u.reg
      /\ w.raster_x = v.raster_x /\ w.raster_y = v.raster_y
      /\ w.parameters_dirty = TRUE /\ w.register_select = sel
      /\ DOMAIN w.reg = DOMAIN NewVdc.reg
  BY <1>2, ChipFields DEF StoresSelected, ChipOf
<1> HIDE DEF w
<1>4. ASSUME NEW n \in SizeRegisters
      PROVE  /\ w.reg[NameOf(n)] \in Nat
             /\ SizeIs(w, n) = IF sel = n THEN Times(n, data) ELSE SizeIs(v, n)
  <2>1. w.reg[NameOf(n)] = IF sel = n THEN data % ValuesOf(NameOf(n)) ELSE v.reg[NameOf(n)]
    BY <1>2, <1>3 DEF StoresSelected
  <2>2. CASE sel = n
    <3>1. data \in 0 .. 255 /\ w.reg[NameOf(n)] = data % ValuesOf(NameOf(n))
      BY <2>1, <2>2
    <3>2. ValuesOf(NameOf(n)) \in {32, 256}
      BY DEF SizeRegisters, NameOf, ValuesOf
    <3>3. data % ValuesOf(NameOf(n)) \in Nat
      BY <3>2
    <3> QED BY <2>2, <3>1, <3>3, Masked DEF SizeIs
  <2>3. CASE sel # n
    BY <2>1, <2>3, SizesMake DEF SizeIs
  <2> QED BY <2>2, <2>3
<1>5. ChipOf(w)
  <2>1. /\ w.reg[NameOf(0)] \in Nat /\ w.reg[NameOf(4)] \in Nat
        /\ w.reg[NameOf(9)] \in Nat /\ w.reg[NameOf(22)] \in Nat
    BY <1>4 DEF SizeRegisters
  <2>2. /\ w.reg.horiz_total \in Nat /\ w.reg.vert_total \in Nat
        /\ w.reg.char_total_vert \in Nat /\ w.reg.char_total_disp_horiz \in Nat
    BY <2>1 DEF NameOf
  <2> QED BY <1>3, <2>2 DEF ChipOf
<1>6. \A n \in SizeRegisters :
        SizeIs(v, n) \in Nat /\ SizeIs(w, n) \in Nat /\ SizeIs(v, n) <= SizeIs(w, n)
  <2> SUFFICES ASSUME NEW n \in SizeRegisters
               PROVE  /\ SizeIs(v, n) \in Nat /\ SizeIs(w, n) \in Nat
                      /\ SizeIs(v, n) <= SizeIs(w, n)
    OBVIOUS
  <2>1. SizeIs(v, n) \in Nat /\ SizeIs(w, n) \in Nat
    BY <1>5, SizesMake
  <2> QED BY <1>4, <2>1
<1>7. /\ SignalWidth(v.reg) <= SignalWidth(w.reg) /\ SignalHeight(v.reg) <= SignalHeight(w.reg)
  <2>1. /\ SizeIs(v, 0) * SizeIs(v, 22) <= SizeIs(w, 0) * SizeIs(w, 22)
        /\ SizeIs(v, 4) * SizeIs(v, 9) <= SizeIs(w, 4) * SizeIs(w, 9)
    BY <1>6, ProductGrows DEF SizeRegisters
  <2> QED BY <1>5, <2>1, SizesMake
<1>8. Ahead(w)
  <2>1. /\ SignalWidth(v.reg) \in Nat /\ SignalWidth(w.reg) \in Nat
        /\ SignalHeight(v.reg) \in Nat /\ SignalHeight(w.reg) \in Nat
    BY <1>5, SignalType
  <2> QED BY <1>3, <1>7, <2>1 DEF Ahead, ChipOf
<1> QED BY <1>1, <1>3, <1>4, <1>5, <1>8

-----------------------------------------------------------------------------
\* The inductive invariant: the register selected is the one that the program sets
\* next, and the sizes are those it set last, which are at most the ones to come.
Selected(v, k) ==
  /\ \A j \in 1 .. Entries :
       k \in {3 * j - 1, 3 * j} => v.register_select = VdcInitValues[j][1]
  /\ k > 3 * Entries + 1 => v.register_select \notin SizeRegisters
Settled(v, k) ==
  \A n \in SizeRegisters :
    \/ SizeIs(v, n) = 1
    \/ \E i \in 1 .. Entries : /\ 3 * i < k /\ VdcInitValues[i][1] = n
                               /\ SizeIs(v, n) = Times(n, VdcInitValues[i][2])
RasterInv ==
  program = "hello_vdc" =>
    /\ at \in 1 .. Exit + 6 /\ CurPos \in Nat
    /\ ChipOf(vdc) /\ Ahead(vdc) /\ Selected(vdc, at) /\ Settled(vdc, at)

\* What an access does to the chip by the time of the next one.
LEMMA AccessDoes ==
  ASSUME HelloVdc, ChipOf(vdc), Ahead(vdc)
  PROVE  /\ \A port \in {VDC_STAT, KB_PORT} : Access(at) = InFrom(port) =>
              /\ ChipOf(vdc') /\ Ahead(vdc')
              /\ vdc'.reg = vdc.reg /\ vdc'.register_select = vdc.register_select
         /\ \A n \in Nat : Access(at) = OutTo(VDC_SEL, n) =>
              /\ ChipOf(vdc') /\ Ahead(vdc')
              /\ vdc'.reg = vdc.reg /\ vdc'.register_select = n % 64
         /\ \A data \in Nat :
              /\ Access(at) = OutTo(VDC_DATA, data)
              /\ vdc.register_select \in SizeRegisters =>
                   /\ data \in 0 .. 255
                   /\ SizeIs(vdc, vdc.register_select) <= Times(vdc.register_select, data)
              => /\ ChipOf(vdc') /\ Ahead(vdc') /\ vdc'.register_select = vdc.register_select
                 /\ \A n \in SizeRegisters :
                      SizeIs(vdc', n) = IF vdc.register_select = n
                                        THEN Times(n, data) ELSE SizeIs(vdc, n)
<1>1. Pace \in Nat
  BY HelloAssumption DEF Pace
<1>2. /\ \A port, data : "data" \in DOMAIN OutTo(port, data)
      /\ \A port, data : OutTo(port, data).port = port /\ OutTo(port, data).data = data
      /\ \A port : "data" \notin DOMAIN InFrom(port) /\ InFrom(port).port = port
  BY DEF OutTo, InFrom
<1>3. Device(VDC_SEL) = "VDC" /\ Device(VDC_DATA) = "VDC" /\ Device(KB_PORT) = "KB"
  BY DEF Device, VDC_SEL, VDC_DATA, KB_PORT
<1>4. ASSUME NEW port \in {VDC_STAT, KB_PORT}, Access(at) = InFrom(port)
      PROVE  /\ ChipOf(vdc') /\ Ahead(vdc')
             /\ vdc'.reg = vdc.reg /\ vdc'.register_select = vdc.register_select
  <2>1. In(port, Pace)
    BY <1>2, <1>4 DEF HelloVdc
  <2>2. VDC_STAT = VDC_SEL /\ ReadBy(vdc, VDC_STAT) = vdc
    BY DEF VDC_STAT, VDC_SEL, ReadBy
  <2>3. Clock(vdc, FALSE, Pace)
    BY <1>3, <2>1, <2>2 DEF In
  <2> QED BY <1>1, <2>3, ClockKeepsAhead
<1>5. ASSUME NEW port \in {VDC_SEL, VDC_DATA}, NEW data \in Nat, Access(at) = OutTo(port, data)
      PROVE  Clock(Written(vdc, port, data), TRUE, Pace)
  <2>1. Out(port, data, Pace)
    BY <1>2, <1>5 DEF HelloVdc
  <2> QED BY <1>3, <2>1 DEF Out
<1>6. ASSUME NEW n \in Nat, Access(at) = OutTo(VDC_SEL, n)
      PROVE  /\ ChipOf(vdc') /\ Ahead(vdc')
             /\ vdc'.reg = vdc.reg /\ vdc'.register_select = n % 64
  <2> DEFINE w == Written(vdc, VDC_SEL, n)
  <2>1. Clock(w, TRUE, Pace)
    BY <1>5, <1>6
  <2>2. ChipOf(w) /\ Ahead(w) /\ w.reg = vdc.reg /\ w.register_select = n % 64
    BY Selecting
  <2> HIDE DEF w
  <2> QED BY <1>1, <2>1, <2>2, ClockKeepsAhead
<1>7. ASSUME NEW data \in Nat, Access(at) = OutTo(VDC_DATA, data),
             vdc.register_select \in SizeRegisters =>
               /\ data \in 0 .. 255
               /\ SizeIs(vdc, vdc.register_select) <= Times(vdc.register_select, data)
      PROVE  /\ ChipOf(vdc') /\ Ahead(vdc') /\ vdc'.register_select = vdc.register_select
             /\ \A n \in SizeRegisters :
                  SizeIs(vdc', n) = IF vdc.register_select = n
                                    THEN Times(n, data) ELSE SizeIs(vdc, n)
  <2> DEFINE w == Written(vdc, VDC_DATA, data)
  <2>1. Clock(w, TRUE, Pace)
    BY <1>5, <1>7
  <2>2. /\ ChipOf(w) /\ Ahead(w) /\ w.register_select = vdc.register_select
        /\ \A n \in SizeRegisters :
             SizeIs(w, n) = IF vdc.register_select = n
                            THEN Times(n, data) ELSE SizeIs(vdc, n)
    BY <1>7, Sending
  <2> HIDE DEF w
  <2>3. /\ ChipOf(vdc') /\ Ahead(vdc')
        /\ vdc'.reg = w.reg /\ vdc'.register_select = w.register_select
    BY <1>1, <2>1, <2>2, ClockKeepsAhead
  <2> QED BY <2>2, <2>3 DEF SizeIs
<1> QED BY <1>4, <1>6, <1>7

\* A step of the program.
LEMMA ProgramKeeps ==
  ASSUME RasterInv, program = "hello_vdc", HelloVdc
  PROVE  RasterInv'
<1> DEFINE n == Entries
           sel == vdc.register_select
           V == VdcInitValues
<1>1. /\ at \in 1 .. Exit + 6 /\ CurPos \in Nat
      /\ ChipOf(vdc) /\ Ahead(vdc) /\ Selected(vdc, at) /\ Settled(vdc, at)
  BY DEF RasterInv
<1>2. /\ n \in Nat /\ Exit \in Nat /\ Exit > 3 * n + 1
      /\ \A j \in 1 .. n :
           /\ Access(3 * j - 2) = OutTo(VDC_SEL, V[j][1])
           /\ Access(3 * j - 1) = InFrom(VDC_STAT)
           /\ Access(3 * j) = OutTo(VDC_DATA, V[j][2])
      /\ Access(3 * n + 1) = OutTo(VDC_SEL, 18)
      /\ Access(Exit) = InFrom(KB_PORT)
      /\ \A k \in 3 * n + 2 .. Exit + 6 : k # Exit => Access(k) \in LateAccess
  BY <1>1, AccessIs
<1>3. \A j \in 1 .. n : V[j][1] \in 0 .. 63 /\ V[j][2] \in 0 .. 255
  <2>1. V \in Seq((0 .. 63) \X (0 .. 255))
    BY HelloAssumption
  <2>2. \A j \in 1 .. n : V[j] \in (0 .. 63) \X (0 .. 255)
    BY <2>1 DEF Entries
  <2> QED BY <2>2
<1>4. /\ CurPos' \in Nat
      /\ at # Exit => at' = IF at = Exit + 6 THEN Exit ELSE at + 1
      /\ at = Exit => at' \in {Exit, Exit + 1}
  BY <1>1 DEF HelloVdc, Continue
<1>5. Exit' = Exit
  OBVIOUS
<1>6. /\ at' \in 1 .. Exit + 6
      /\ at <= 3 * n + 1 => at' = at + 1
      /\ at > 3 * n + 1 => at' > 3 * n + 1
  BY <1>1, <1>2, <1>4
<1> HIDE DEF n, V
<1>7. ASSUME vdc'.reg = vdc.reg PROVE Settled(vdc', at')
  BY <1>1, <1>2, <1>6, <1>7 DEF Settled, SizeIs, n
<1>8. SUFFICES ChipOf(vdc') /\ Ahead(vdc') /\ Selected(vdc', at') /\ Settled(vdc', at')
  BY <1>4, <1>5, <1>6 DEF RasterInv
<1>9. CASE \E j \in 1 .. n : at = 3 * j - 2
  <2>1. PICK j \in 1 .. n : at = 3 * j - 2
    BY <1>9
  <2>2. Access(at) = OutTo(VDC_SEL, V[j][1]) /\ V[j][1] \in Nat /\ V[j][1] % 64 = V[j][1]
    <3>1. Access(at) = OutTo(VDC_SEL, V[j][1])
      BY <1>2, <2>1
    <3>2. \A m \in 0 .. 63 : m \in Nat /\ m % 64 = m
      OBVIOUS
    <3> QED BY <1>3, <3>1, <3>2
  <2>3. /\ ChipOf(vdc') /\ Ahead(vdc')
        /\ vdc'.reg = vdc.reg /\ vdc'.register_select = V[j][1]
    BY <1>1, <2>2, AccessDoes
  <2>4. at' = 3 * j - 1 /\ ~(at' > 3 * n + 1)
    BY <1>2, <1>6, <2>1
  <2>5. \A i \in 1 .. n : at' \in {3 * i - 1, 3 * i} => i = j
    BY <1>2, <2>4
  <2> QED BY <1>7, <2>3, <2>4, <2>5 DEF Selected, n, V
<1>10. CASE \E j \in 1 .. n : at = 3 * j - 1
  <2>1. PICK j \in 1 .. n : at = 3 * j - 1
    BY <1>10
  <2>2. /\ ChipOf(vdc') /\ Ahead(vdc')
        /\ vdc'.reg = vdc.reg /\ vdc'.register_select = sel
    BY <1>1, <1>2, <2>1, AccessDoes
  <2>3. sel = V[j][1]
    BY <1>1, <2>1 DEF Selected, n, V
  <2>4. at' = 3 * j /\ ~(at' > 3 * n + 1)
    BY <1>2, <1>6, <2>1
  <2>5. \A i \in 1 .. n : at' \in {3 * i - 1, 3 * i} => i = j
    BY <1>2, <2>4
  <2> QED BY <1>7, <2>2, <2>3, <2>4, <2>5 DEF Selected, n, V
<1>11. CASE \E j \in 1 .. n : at = 3 * j
  <2>1. PICK j \in 1 .. n : at = 3 * j
    BY <1>11
  <2> DEFINE data == V[j][2]
  <2>2. Access(at) = OutTo(VDC_DATA, data) /\ data \in Nat /\ data \in 0 .. 255
    <3>1. Access(at) = OutTo(VDC_DATA, V[j][2])
      BY <1>2, <2>1
    <3>2. data \in 0 .. 255
      BY <1>3
    <3> QED BY <3>1, <3>2
  <2>3. sel = V[j][1]
    BY <1>1, <2>1 DEF Selected, n, V
  <2>4. ASSUME sel \in SizeRegisters PROVE SizeIs(vdc, sel) <= Times(sel, data)
    <3>1. j \in DOMAIN VdcInitValues
      BY HelloAssumption DEF n, Entries
    <3>2. /\ Times(sel, data) > 0
          /\ \A i \in 1 .. j - 1 : V[i][1] = sel => Times(sel, V[i][2]) <= Times(sel, data)
      BY <2>3, <2>4, <3>1, GrowthAssumption DEF V
    <3>3. Times(sel, data) \in Nat
      BY <2>2, <2>4, TimesType
    <3>4. \/ SizeIs(vdc, sel) = 1
          \/ \E i \in 1 .. n : /\ 3 * i < at /\ V[i][1] = sel
                               /\ SizeIs(vdc, sel) = Times(sel, V[i][2])
      BY <1>1, <2>4 DEF Settled, n, V
    <3>5. \A i \in 1 .. n : 3 * i < at => i \in 1 .. j - 1
      BY <1>2, <2>1
    <3> HIDE DEF sel, data
    <3> QED BY <3>2, <3>3, <3>4, <3>5
  <2> HIDE DEF data
  <2>5. /\ ChipOf(vdc') /\ Ahead(vdc') /\ vdc'.register_select = sel
        /\ \A m \in SizeRegisters :
             SizeIs(vdc', m) = IF sel = m THEN Times(m, data) ELSE SizeIs(vdc, m)
    BY <1>1, <2>2, <2>4, AccessDoes
  <2>6. at' = 3 * j + 1 /\ ~(at' > 3 * n + 1)
    BY <1>2, <1>6, <2>1
  <2>7. \A i \in 1 .. n : at' \notin {3 * i - 1, 3 * i}
    BY <1>2, <2>6
  <2>8. Settled(vdc', at')
    <3> SUFFICES ASSUME NEW m \in SizeRegisters
                 PROVE  \/ SizeIs(vdc', m) = 1
                        \/ \E i \in 1 .. n : /\ 3 * i < at' /\ V[i][1] = m
                                             /\ SizeIs(vdc', m) = Times(m, V[i][2])
      BY DEF Settled, n, V
    <3>1. CASE sel = m
      <4>1. 3 * j < at' /\ V[j][1] = m /\ SizeIs(vdc', m) = Times(m, V[j][2])
        BY <2>3, <2>5, <2>6, <3>1 DEF data
      <4> QED BY <4>1
    <3>2. CASE sel # m
      <4>1. SizeIs(vdc', m) = SizeIs(vdc, m)
        BY <2>5, <3>2
      <4>2. \A i \in 1 .. n : 3 * i < at => 3 * i < at'
        BY <1>2, <2>1, <2>6
      <4>3. \/ SizeIs(vdc, m) = 1
            \/ \E i \in 1 .. n : /\ 3 * i < at /\ V[i][1] = m
                                 /\ SizeIs(vdc, m) = Times(m, V[i][2])
        BY <1>1 DEF Settled, n, V
      <4> QED BY <4>1, <4>2, <4>3
    <3> QED BY <3>1, <3>2
  <2> QED BY <2>5, <2>6, <2>7, <2>8 DEF Selected, n, V
<1>12. CASE at > 3 * n
  <2>1. \A i \in 1 .. n : at' \notin {3 * i - 1, 3 * i}
    BY <1>1, <1>2, <1>6, <1>12
  <2>2. SUFFICES /\ ChipOf(vdc') /\ Ahead(vdc') /\ Settled(vdc', at')
                 /\ vdc'.register_select \notin SizeRegisters
    BY <2>1 DEF Selected, n
  <2>3. /\ LateRegisters \cap SizeRegisters = {}
        /\ \A m \in LateRegisters : m \in Nat /\ m % 64 = m
    BY DEF LateRegisters, SizeRegisters
  <2>4. ASSUME NEW m \in LateRegisters, Access(at) = OutTo(VDC_SEL, m)
        PROVE  /\ ChipOf(vdc') /\ Ahead(vdc') /\ Settled(vdc', at')
               /\ vdc'.register_select \notin SizeRegisters
    <3>1. /\ ChipOf(vdc') /\ Ahead(vdc')
          /\ vdc'.reg = vdc.reg /\ vdc'.register_select = m
      BY <1>1, <2>3, <2>4, AccessDoes
    <3> QED BY <1>7, <2>3, <3>1
  <2>5. CASE at = 3 * n + 1
    <3>1. 18 \in LateRegisters
      BY DEF LateRegisters
    <3> QED BY <1>2, <2>4, <2>5, <3>1
  <2>6. CASE at > 3 * n + 1
    <3>1. sel \notin SizeRegisters
      BY <1>1, <2>6 DEF Selected, n
    <3>2. ASSUME NEW port \in {VDC_STAT, KB_PORT}, Access(at) = InFrom(port)
          PROVE  /\ ChipOf(vdc') /\ Ahead(vdc') /\ Settled(vdc', at')
                 /\ vdc'.register_select \notin SizeRegisters
      BY <1>1, <1>7, <3>1, <3>2, AccessDoes
    <3>3. ASSUME NEW data \in Nat, Access(at) = OutTo(VDC_DATA, data)
          PROVE  /\ ChipOf(vdc') /\ Ahead(vdc') /\ Settled(vdc', at')
                 /\ vdc'.register_select \notin SizeRegisters
      <4>1. /\ ChipOf(vdc') /\ Ahead(vdc') /\ vdc'.register_select = sel
            /\ \A m \in SizeRegisters :
                 SizeIs(vdc', m) = IF sel = m THEN Times(m, data) ELSE SizeIs(vdc, m)
        BY <1>1, <3>1, <3>3, AccessDoes
      <4>2. \A m \in SizeRegisters : SizeIs(vdc', m) = SizeIs(vdc, m)
        BY <3>1, <4>1
      <4>3. \A i \in 1 .. n : 3 * i < at'
        BY <1>2, <1>6, <2>6
      <4> QED BY <1>1, <3>1, <4>1, <4>2, <4>3 DEF Settled, n
    <3>4. CASE at = Exit
      BY <1>2, <3>2, <3>4
    <3>5. CASE at # Exit
      <4>1. Access(at) \in LateAccess
        BY <1>1, <1>2, <2>6, <3>5
      <4>2. \/ Access(at) = InFrom(VDC_STAT)
            \/ \E m \in LateRegisters : Access(at) = OutTo(VDC_SEL, m)
            \/ \E data \in Nat : Access(at) = OutTo(VDC_DATA, data)
        BY <4>1, Zenon DEF LateAccess
      <4> QED BY <2>4, <3>2, <3>3, <4>2
    <3> QED BY <3>4, <3>5
  <2> QED BY <1>1, <1>2, <1>12, <2>5, <2>6
<1>13. at > 3 * n \/ \E j \in 1 .. n : at \in {3 * j - 2, 3 * j - 1, 3 * j}
  <2> DEFINE j == (at + 2) \div 3
  <2>1. at \in Nat
    BY <1>1, <1>2
  <2>2. CASE at <= 3 * n
    <3>1. j \in 1 .. n /\ at \in {3 * j - 2, 3 * j - 1, 3 * j}
      BY <1>1, <1>2, <2>1, <2>2
    <3> QED BY <3>1
  <2> QED BY <1>2, <2>1, <2>2
<1> QED BY <1>9, <1>10, <1>11, <1>12, <1>13

\* The raster of hello_vdc never gets past the signal, although the chip computes the
\* signal anew after every write, with half of the registers set and a picture begun:
\* the end of a line is found by equality (vdc/mod.rs:550-562).  It is so for every
\* table that never makes a size smaller, any message and any pace of the program.
THEOREM RasterStaysInside == Spec => []RasterInside
<1>1. Init => RasterInv
  <2> SUFFICES ASSUME Init, program = "hello_vdc" PROVE RasterInv
    BY DEF RasterInv
  <2>1. vdc = NewVdc /\ at = 1 /\ CurPos = 0
    BY DEF Init, MachineInit
  <2>2. Entries \in Nat /\ Exit \in Nat /\ Exit > 3 * Entries + 1
    <3>1. CurPos \in Nat
      BY <2>1
    <3> QED BY <3>1, AccessIs
  <2>3. \A n \in SizeRegisters : NameOf(n) \in DOMAIN NewVdc.reg /\ NewVdc.reg[NameOf(n)] = 0
    BY ByteNames DEF NewVdc, Range
  <2>4. /\ NewVdc.raster_x = 0 /\ NewVdc.raster_y = 0 /\ NewVdc.parameters_dirty = TRUE
        /\ NewVdc.register_select = 0
    BY DEF NewVdc
  <2>5. ChipOf(NewVdc)
    <3>1. /\ NewVdc.reg[NameOf(0)] = 0 /\ NewVdc.reg[NameOf(4)] = 0
          /\ NewVdc.reg[NameOf(9)] = 0 /\ NewVdc.reg[NameOf(22)] = 0
      BY <2>3 DEF SizeRegisters
    <3>2. /\ NewVdc.reg.horiz_total = 0 /\ NewVdc.reg.vert_total = 0
          /\ NewVdc.reg.char_total_vert = 0 /\ NewVdc.reg.char_total_disp_horiz = 0
      BY <3>1 DEF NameOf
    <3> DEFINE v == NewVdc
    <3>3. DOMAIN v = DOMAIN NewVdc /\ DOMAIN v.reg = DOMAIN NewVdc.reg
      OBVIOUS
    <3>4. /\ v.raster_x \in Nat /\ v.raster_y \in Nat
          /\ v.parameters_dirty \in BOOLEAN /\ v.register_select \in Nat
      <4>1. 0 \in Nat /\ TRUE \in BOOLEAN
        OBVIOUS
      <4> QED BY <2>4, <4>1, Zenon
    <3>5. /\ v.reg.horiz_total \in Nat /\ v.reg.vert_total \in Nat
          /\ v.reg.char_total_vert \in Nat /\ v.reg.char_total_disp_horiz \in Nat
      BY <3>2
    <3> QED BY <3>3, <3>4, <3>5, Zenon DEF ChipOf
  <2>6. \A n \in SizeRegisters : SizeIs(NewVdc, n) = 1
    <3>1. \A n \in SizeRegisters : Times(n, 0) = 1
      BY DEF SizeRegisters, Times
    <3> QED BY <2>3, <3>1 DEF SizeIs
  <2>7. Ahead(NewVdc)
    <3>1. SignalWidth(NewVdc.reg) = 1 /\ SignalHeight(NewVdc.reg) = 1
      BY <2>5, <2>6, SizesMake DEF SizeRegisters
    <3> QED BY <2>4, <3>1 DEF Ahead
  <2>8. Selected(NewVdc, 1) /\ Settled(NewVdc, 1)
    BY <2>2, <2>6 DEF Selected, Settled
  <2> QED BY <2>1, <2>2, <2>5, <2>7, <2>8 DEF RasterInv
<1>2. RasterInv /\ [Next]_vars => RasterInv'
  <2> SUFFICES ASSUME RasterInv, [Next]_vars, program' = "hello_vdc" PROVE RasterInv'
    BY DEF RasterInv
  <2>1. program' = program
    BY DEF Next, HelloVdc, AnyGuest, Outside, vars
  <2>2. CASE HelloVdc
    BY <2>1, <2>2, ProgramKeeps
  <2>3. CASE UNCHANGED <<vdc, at, CurPos, program>>
    BY <2>3 DEF RasterInv, Selected, Settled, Exit, Boot, SizeIs
  <2>4. CASE Outside
    BY <2>1, <2>3, <2>4 DEF Outside, Host, TimePasses, Happen, screenVars
  <2>5. CASE AnyGuest
    BY <2>1, <2>5 DEF AnyGuest
  <2>6. CASE UNCHANGED vars
    BY <2>3, <2>6 DEF vars, machineVars, screenVars
  <2> QED BY <2>2, <2>4, <2>5, <2>6 DEF Next
<1>3. RasterInv => RasterInside
  BY DEF RasterInv, Ahead, RasterInside
<1> QED BY <1>1, <1>2, <1>3, PTL DEF Spec

(***************************************************************************)
(* The memory.                                                             *)
(***************************************************************************)
\* The array holds bytes, the bank selected is the one asked for, and the offset is where
\* it begins.
MemoryTypeOK ==
  /\ bank \in Banks /\ offset = bank * BANK_SIZE
  /\ bank = asked % BankCount
  /\ ram \in [Cells -> Byte]
  /\ bus \in Byte

(***************************************************************************)
(* The arithmetic of cells.                                                *)
(***************************************************************************)
LEMMA Sizes ==
  /\ BANK_SIZE \in Nat /\ BankCount \in Nat \ {0}
  /\ BANK_SHADOW_SIZE \in Nat /\ 1 <= BANK_SHADOW_SIZE /\ BANK_SHADOW_SIZE <= BANK_SIZE
BY SizesAssumption

LEMMA Remainder ==
  ASSUME NEW n \in Nat
  PROVE  n % BankCount \in Banks
BY Sizes DEF Banks

\* A multiple grows with its factor.
LEMMA Ordered ==
  ASSUME NEW s \in Nat, NEW b \in Int, NEW c \in Int, b < c
  PROVE  b * s + s <= c * s
<1> DEFINE d == c - (b + 1)
<1>1. d \in Nat /\ c = (b + 1) + d
  OBVIOUS
<1>2. d * s >= 0
  BY <1>1, SMT
<1>3. c * s = (b + 1) * s + d * s
  BY <1>1, SMT
<1>4. (b + 1) * s = b * s + s
  BY SMT
<1>5. b * s \in Int /\ c * s \in Int /\ d * s \in Int
  BY <1>1, SMT
<1> HIDE DEF d
<1> QED BY <1>2, <1>3, <1>4, <1>5

\* The place of an address in a bank is in the array, and only its own.
LEMMA InArray ==
  ASSUME NEW b \in Banks, NEW a \in Addresses
  PROVE  a + b * BANK_SIZE \in Cells /\ a + b * BANK_SIZE >= a
<1>1. b \in Nat /\ b < BankCount /\ a \in Nat /\ a < BANK_SIZE
  BY Sizes DEF Banks, Addresses
<1>2. b * BANK_SIZE + BANK_SIZE <= BankCount * BANK_SIZE
  BY <1>1, Sizes, Ordered
<1>3. b * BANK_SIZE \in Nat
  BY <1>1, Sizes, SMT
<1>4. BankCount * BANK_SIZE = BANK_SIZE * BankCount /\ BankCount * BANK_SIZE \in Int
  BY Sizes, SMT
<1> QED BY <1>1, <1>2, <1>3, <1>4, Sizes DEF Cells

LEMMA Apart ==
  ASSUME NEW b \in Banks, NEW a \in Addresses, NEW c \in Banks, NEW d \in Addresses,
         a + b * BANK_SIZE = d + c * BANK_SIZE
  PROVE  a = d /\ b = c
<1>1. /\ b \in Int /\ c \in Int /\ a \in 0 .. BANK_SIZE - 1 /\ d \in 0 .. BANK_SIZE - 1
      /\ BANK_SIZE \in Nat
  BY Sizes DEF Banks, Addresses
<1>2. b * BANK_SIZE \in Int /\ c * BANK_SIZE \in Int
  BY <1>1, SMT
<1>3. CASE b < c
  <2>1. b * BANK_SIZE + BANK_SIZE <= c * BANK_SIZE
    BY <1>1, <1>3, Ordered
  <2> QED BY <1>1, <1>2, <2>1
<1>4. CASE c < b
  <2>1. c * BANK_SIZE + BANK_SIZE <= b * BANK_SIZE
    BY <1>1, <1>4, Ordered
  <2> QED BY <1>1, <1>2, <2>1
<1>5. CASE b = c
  BY <1>1, <1>2, <1>5
<1> QED BY <1>1, <1>3, <1>4, <1>5

LEMMA CellInArray ==
  ASSUME MemoryTypeOK, NEW a \in Addresses
  PROVE  Cell(a) \in Cells
<1>1. a \in Cells
  <2>1. 0 \in Banks
    BY Sizes DEF Banks
  <2>2. a + 0 * BANK_SIZE \in Cells
    BY <2>1, InArray
  <2> QED BY <2>2, Sizes DEF Addresses
<1>2. a + offset \in Cells
  BY InArray DEF MemoryTypeOK
<1> QED BY <1>1, <1>2 DEF Cell

(***************************************************************************)
(* The types.                                                              *)
(***************************************************************************)
LEMMA TypedFirst == MemoryInit => MemoryTypeOK
<1> SUFFICES ASSUME MemoryInit PROVE MemoryTypeOK
  OBVIOUS
<1>1. PICK rom \in Roms :
        ram = [i \in Cells |-> IF i \in DOMAIN rom THEN rom[i] ELSE 0]
  BY DEF MemoryInit
<1>2. ram \in [Cells -> Byte]
  BY <1>1, RomsAssumption, ByteAssumption
<1>3. offset = 0 * BANK_SIZE
  BY Sizes DEF MemoryInit
<1>4. 0 % BankCount = 0
  BY Sizes
<1> QED BY <1>2, <1>3, <1>4, Sizes, ByteAssumption DEF MemoryInit, MemoryTypeOK, Banks

LEMMA TypedNext == MemoryTypeOK /\ [MemoryNext]_memoryVars => MemoryTypeOK'
<1> SUFFICES ASSUME MemoryTypeOK, [MemoryNext]_memoryVars PROVE MemoryTypeOK'
  OBVIOUS
<1>1. ASSUME NEW a \in Addresses, ReadMemory(a) PROVE MemoryTypeOK'
  BY <1>1, CellInArray DEF ReadMemory, MemoryTypeOK, Banks
<1>2. ASSUME NEW a \in Addresses, NEW data \in Byte, WriteMemory(a, data)
      PROVE  MemoryTypeOK'
  BY <1>2 DEF WriteMemory, MemoryTypeOK, Banks
<1>3. ASSUME NEW data \in Selections, Select(data) PROVE MemoryTypeOK'
  <2>1. data % BankCount \in Banks
    BY SelectionsAssumption, Remainder
  <2> QED BY <1>3, <2>1 DEF Select, MemoryTypeOK, Banks
<1>4. CASE UNCHANGED memoryVars
  BY <1>4 DEF memoryVars, MemoryTypeOK, Banks
<1> QED BY <1>1, <1>2, <1>3, <1>4 DEF MemoryNext

\* No access leaves the array, and no selection the banks (sys/mod.rs:41-70).
THEOREM Typed == MemorySpec => []MemoryTypeOK
BY TypedFirst, TypedNext, PTL DEF MemorySpec

(***************************************************************************)
(* The refinement.                                                         *)
(***************************************************************************)
Common == 0 .. BANK_SHADOW_SIZE - 1
Private == BANK_SHADOW_SIZE .. BANK_SIZE - 1
common == [a \in Common |-> ram[a]]
private == [c \in Banks \X Private |-> ram[c[2] + c[1] * BANK_SIZE]]

LEMMA AddressesSplit ==
  /\ Common \cup Private = Addresses /\ Common \cap Private = {}
  /\ \A a \in Addresses : a \in Common <=> a < BANK_SHADOW_SIZE
BY Sizes DEF Common, Private, Addresses

LEMMA CommonIsFirst ==
  ASSUME NEW a \in Common
  PROVE  a \in Cells /\ a \in Addresses
<1>1. a \in Addresses /\ 0 \in Banks
  BY AddressesSplit, Sizes DEF Banks
<1>2. a + 0 * BANK_SIZE \in Cells
  BY <1>1, InArray
<1> QED BY <1>1, <1>2, Sizes DEF Addresses

LEMMA InitRefines == MemoryInit => Banked!Init
<1> SUFFICES ASSUME MemoryInit PROVE Banked!Init
  OBVIOUS
<1>1. MemoryTypeOK /\ asked % BankCount = 0 /\ bus = 0
  BY TypedFirst DEF MemoryInit, MemoryTypeOK
<1>2. common \in [Common -> Byte]
  BY <1>1, CommonIsFirst DEF common, MemoryTypeOK
<1>3. private \in [Banks \X Private -> Byte]
  <2>1. ASSUME NEW c \in Banks \X Private PROVE ram[c[2] + c[1] * BANK_SIZE] \in Byte
    <3>1. c[1] \in Banks /\ c[2] \in Addresses
      BY AddressesSplit
    <3> QED BY <1>1, <3>1, InArray DEF MemoryTypeOK
  <2> QED BY <2>1 DEF private
<1> QED BY <1>1, <1>2, <1>3, ByteAssumption
     DEF Banked!Init, Banked!Banks, Banks, common, private, Common, Private

\* A byte is read from where it was written.
LEMMA ReadRefines ==
  ASSUME MemoryTypeOK, NEW a \in Addresses, ReadMemory(a)
  PROVE  Banked!Load(a)
<1>1. bus' = ram[Cell(a)] /\ UNCHANGED <<bank, offset, ram, asked>>
  BY DEF ReadMemory
<1>2. bus' = IF a \in Common THEN common[a] ELSE private[<<bank, a>>]
  <2>1. CASE a \in Common
    BY <1>1, <2>1, AddressesSplit DEF Cell, common
  <2>2. CASE a \notin Common
    <3>1. <<bank, a>> \in Banks \X Private
      BY <2>2, AddressesSplit DEF MemoryTypeOK
    <3>2. offset = bank * BANK_SIZE
      BY DEF MemoryTypeOK
    <3> QED BY <1>1, <2>2, <3>1, <3>2, AddressesSplit DEF Cell, private
  <2> QED BY <2>1, <2>2
<1>3. common' = common /\ private' = private
  BY <1>1 DEF common, private
<1>4. bank = asked % BankCount
  BY DEF MemoryTypeOK
<1> QED BY <1>1, <1>2, <1>3, <1>4 DEF Banked!Load, common, private, Common, Private

LEMMA WriteRefines ==
  ASSUME MemoryTypeOK, NEW a \in Addresses, NEW data \in Byte, WriteMemory(a, data)
  PROVE  Banked!Store(a, data)
<1>1. ram' = [ram EXCEPT ![Cell(a)] = data] /\ UNCHANGED <<bank, offset, bus, asked>>
  BY DEF WriteMemory
<1>2. /\ ram \in [Cells -> Byte] /\ bank \in Banks
      /\ offset = bank * BANK_SIZE /\ bank = asked % BankCount
  BY DEF MemoryTypeOK
<1>3. CASE a \in Common
  <2>1. Cell(a) = a /\ a \in Cells
    BY <1>3, AddressesSplit, CommonIsFirst DEF Cell
  <2>2. common' = [common EXCEPT ![a] = data]
    BY <1>1, <1>2, <1>3, <2>1, CommonIsFirst DEF common
  <2>3. private' = private
    <3>1. ASSUME NEW c \in Banks \X Private
          PROVE  ram'[c[2] + c[1] * BANK_SIZE] = ram[c[2] + c[1] * BANK_SIZE]
      <4>1. c[1] \in Banks /\ c[2] \in Addresses /\ c[2] >= BANK_SHADOW_SIZE
        BY AddressesSplit, Sizes DEF Private
      <4>2. /\ c[2] + c[1] * BANK_SIZE \in Cells
            /\ c[2] + c[1] * BANK_SIZE >= c[2]
        BY <4>1, InArray
      <4>3. a < BANK_SHADOW_SIZE
        BY <1>3, AddressesSplit
      <4>4. c[2] + c[1] * BANK_SIZE # a
        BY <4>1, <4>2, <4>3, Sizes DEF Cells, Addresses
      <4> QED BY <1>1, <1>2, <2>1, <4>2, <4>4
    <3> QED BY <3>1 DEF private
  <2> QED BY <1>1, <1>2, <1>3, <2>2, <2>3 DEF Banked!Store, common, private, Common, Private
<1>4. CASE a \notin Common
  <2>1. /\ Cell(a) = a + bank * BANK_SIZE /\ Cell(a) \in Cells
        /\ <<bank, a>> \in Banks \X Private /\ a >= BANK_SHADOW_SIZE
    BY <1>2, <1>4, AddressesSplit, CellInArray, Sizes DEF Cell, Private
  <2>2. common' = common
    <3>1. ASSUME NEW d \in Common PROVE ram'[d] = ram[d]
      <4>1. d < BANK_SHADOW_SIZE /\ d \in Cells
        BY AddressesSplit, CommonIsFirst
      <4>2. Cell(a) >= a
        BY <1>2, <2>1, InArray
      <4>3. Cell(a) # d
        BY <2>1, <4>1, <4>2, Sizes DEF Cells, Addresses
      <4> QED BY <1>1, <1>2, <2>1, <4>1, <4>3
    <3> QED BY <3>1 DEF common
  <2>3. private' = [private EXCEPT ![<<bank, a>>] = data]
    <3>1. ASSUME NEW c \in Banks \X Private
          PROVE  ram'[c[2] + c[1] * BANK_SIZE]
                   = IF c = <<bank, a>> THEN data ELSE ram[c[2] + c[1] * BANK_SIZE]
      <4>1. c[1] \in Banks /\ c[2] \in Addresses /\ c = <<c[1], c[2]>>
        BY AddressesSplit
      <4>2. c[2] + c[1] * BANK_SIZE \in Cells
        BY <4>1, InArray
      <4>3. c[2] + c[1] * BANK_SIZE = Cell(a) => c[2] = a /\ c[1] = bank
        <5>1. bank \in Banks /\ a \in Addresses /\ Cell(a) = a + bank * BANK_SIZE
          BY <1>2, <2>1
        <5> QED BY <4>1, <5>1, Apart
      <4> QED BY <1>1, <1>2, <2>1, <4>1, <4>2, <4>3
    <3> QED BY <2>1, <3>1 DEF private
  <2> QED BY <1>1, <1>2, <1>4, <2>2, <2>3 DEF Banked!Store, common, private, Common, Private
<1> QED BY <1>3, <1>4

LEMMA SelectRefines ==
  ASSUME NEW data \in Selections, Select(data)
  PROVE  Banked!Switch(data)
BY DEF Select, Banked!Switch

\* What was written to a bank is there when it is selected again, and no two of the
\* guest's cells are one cell of the array (sys/mod.rs:41-70).
THEOREM Refinement == MemorySpec => ImplementsBankedMemory
<1>1. MemoryTypeOK /\ [MemoryNext]_memoryVars => [Banked!Next]_Banked!vars
  <2> SUFFICES ASSUME MemoryTypeOK, [MemoryNext]_memoryVars
               PROVE  [Banked!Next]_Banked!vars
    OBVIOUS
  <2>1. ASSUME NEW a \in Addresses, ReadMemory(a) PROVE Banked!Next
    <3>1. a \in Common \cup Private /\ Banked!Load(a)
      BY <2>1, AddressesSplit, ReadRefines
    <3> QED BY <3>1 DEF Banked!Next, Common, Private
  <2>2. ASSUME NEW a \in Addresses, NEW data \in Byte, WriteMemory(a, data)
        PROVE  Banked!Next
    <3>1. a \in Common \cup Private /\ Banked!Store(a, data)
      BY <2>2, AddressesSplit, WriteRefines
    <3> QED BY <3>1 DEF Banked!Next, Common, Private
  <2>3. ASSUME NEW data \in Selections, Select(data) PROVE Banked!Next
    BY <2>3, SelectRefines DEF Banked!Next
  <2>4. CASE UNCHANGED memoryVars
    BY <2>4 DEF memoryVars, Banked!vars
  <2> QED BY <2>1, <2>2, <2>3, <2>4 DEF MemoryNext
<1> QED BY <1>1, InitRefines, Typed, PTL DEF MemorySpec, ImplementsBankedMemory, Banked!Spec
=============================================================================
