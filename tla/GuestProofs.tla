---------------------------- MODULE GuestProofs -----------------------------
(***************************************************************************)
(* Theorems about Guests: what the programs promise, for every operand,    *)
(* every input and any number of interrupts, wherever they come.           *)
(***************************************************************************)
EXTENDS CpuProofs

(***************************************************************************)
(* Where the listings lie.                                                 *)
(***************************************************************************)
\* A listing of n lines, all of which take up memory.
IsListing(listing, n) ==
  /\ n \in Nat /\ DOMAIN listing = 1 .. n /\ Len(listing) = n
  /\ \A k \in 1 .. n : listing[k].len \in Nat \ {0}

\* A line lies behind the one before it.
LEMMA PlacesFollow ==
  ASSUME NEW base \in Nat, NEW listing, NEW n, IsListing(listing, n)
  PROVE  LET place == Places(base, listing)
         IN  /\ place \in [1 .. n + 1 -> Nat]
             /\ place[1] = base
             /\ \A k \in 1 .. n : place[k + 1] = place[k] + listing[k].len
<1> USE DEF IsListing
<1> DEFINE g == [p \in (1 + 1 .. n + 1) \X Nat |-> p[2] + listing[p[1] - 1].len]
           Rule(place) ==
             place = [k \in 1 .. n + 1 |->
                        IF k = 1 THEN base ELSE place[k - 1] + listing[k - 1].len]
<1>1. \A i \in 1 + 1 .. n + 1, b \in Nat : g[<<i, b>>] = b + listing[i - 1].len
  OBVIOUS
<1>2. g \in Rules(1, n + 1, Nat)
  <2>1. ASSUME NEW p \in (1 + 1 .. n + 1) \X Nat PROVE p[2] + listing[p[1] - 1].len \in Nat
    <3>1. p[1] - 1 \in 1 .. n
      OBVIOUS
    <3> QED BY <3>1
  <2> QED BY <2>1 DEF Rules
<1> HIDE DEF g
<1>3. PICK f \in [1 .. n + 1 -> Nat] : Follows(f, 1, n + 1, base, g)
  <2>1. 1 \in Int /\ n + 1 \in Int /\ 1 <= n + 1
    OBVIOUS
  <2> QED BY <1>2, <2>1, Recursion
<1>4. Rule(f)
  <2>1. ASSUME NEW k \in 1 .. n + 1
        PROVE  f[k] = IF k = 1 THEN base ELSE f[k - 1] + listing[k - 1].len
    <3>1. CASE k = 1
      BY <1>3, <3>1 DEF Follows
    <3>2. CASE k # 1
      <4>1. k \in 1 + 1 .. n + 1 /\ k - 1 \in 1 .. n + 1
        BY <3>2
      <4>2. f[k] = g[<<k, f[k - 1]>>] /\ f[k - 1] \in Nat
        BY <1>3, <4>1 DEF Follows
      <4> QED BY <1>1, <3>2, <4>1, <4>2
    <3> QED BY <3>1, <3>2
  <2> QED BY <2>1
<1>5. Places(base, listing) = CHOOSE place : Rule(place)
  BY DEF Places
<1>6. Rule(Places(base, listing))
  <2> HIDE DEF Rule
  <2> QED BY <1>4, <1>5
<1> DEFINE place == Places(base, listing)
<1>7. DOMAIN place = 1 .. n + 1 /\ place[1] = base
  BY <1>6
<1>8. ASSUME NEW k \in 1 .. n PROVE place[k + 1] = place[k] + listing[k].len
  <2>1. k + 1 \in 1 .. n + 1 /\ k + 1 # 1 /\ (k + 1) - 1 = k
    OBVIOUS
  <2> QED BY <1>6, <2>1
<1>9. \A k \in 1 .. n + 1 : place[k] \in Nat
  <2> DEFINE S == {k \in 1 .. n + 1 : place[k] \in Nat}
  <2>1. 1 \in S
    BY <1>7
  <2>2. \A k \in 1 .. (n + 1) - 1 : k \in S => k + 1 \in S
    <3> SUFFICES ASSUME NEW k \in 1 .. (n + 1) - 1, k \in S PROVE k + 1 \in S
      OBVIOUS
    <3>1. k \in 1 .. n /\ k + 1 \in 1 .. n + 1 /\ place[k] \in Nat /\ listing[k].len \in Nat
      OBVIOUS
    <3> QED BY <1>8, <3>1
  <2> HIDE DEF S
  <2>3. 1 .. n + 1 \subseteq S
    <3>1. 1 \in Int /\ n + 1 \in Int
      OBVIOUS
    <3> QED BY <2>1, <2>2, <3>1, UpTo
  <2> QED BY <2>3 DEF S
<1>10. place \in [1 .. n + 1 -> Nat]
  BY <1>6, <1>7, <1>9
<1> QED BY <1>7, <1>8, <1>10

\* So no two lines are at the same place.
LEMMA PlacesGrow ==
  ASSUME NEW base \in Nat, NEW listing, NEW n, IsListing(listing, n)
  PROVE  LET place == Places(base, listing)
         IN  \A j, k \in 1 .. n + 1 : j < k => place[j] < place[k]
<1> DEFINE place == Places(base, listing)
<1>1. /\ place \in [1 .. n + 1 -> Nat]
      /\ \A k \in 1 .. n : place[k + 1] = place[k] + listing[k].len
  BY PlacesFollow
<1> HIDE DEF place
<1> USE DEF IsListing
<1>2. ASSUME NEW j \in 1 .. n + 1 PROVE \A k \in 1 .. n + 1 : j < k => place[j] < place[k]
  <2> DEFINE S == {k \in j .. n + 1 : place[j] < place[k] \/ k = j}
  <2>1. j \in S
    OBVIOUS
  <2>2. \A k \in j .. (n + 1) - 1 : k \in S => k + 1 \in S
    <3> SUFFICES ASSUME NEW k \in j .. (n + 1) - 1, k \in S PROVE k + 1 \in S
      OBVIOUS
    <3>1. k \in 1 .. n /\ k + 1 \in j .. n + 1 /\ k + 1 \in 1 .. n + 1 /\ k \in 1 .. n + 1
      OBVIOUS
    <3>2. /\ place[k + 1] = place[k] + listing[k].len /\ listing[k].len \in Nat \ {0}
          /\ place[k] \in Nat /\ place[j] \in Nat
      BY <1>1, <3>1
    <3>3. place[j] < place[k] \/ k = j
      OBVIOUS
    <3>4. place[j] < place[k + 1]
      BY <3>2, <3>3
    <3> QED BY <3>1, <3>4
  <2> HIDE DEF S
  <2>3. j .. n + 1 \subseteq S
    <3>1. j \in Int /\ n + 1 \in Int
      OBVIOUS
    <3> QED BY <2>1, <2>2, <3>1, UpTo
  <2> QED BY <2>3 DEF S
<1> QED BY <1>2 DEF place

\* The code has each line at its place, linked, and nothing else.
LEMMA Assembled ==
  ASSUME NEW base \in Nat, NEW listing, NEW n, IsListing(listing, n)
  PROVE  LET place == Places(base, listing)
             code == Assemble(base, listing)
         IN  /\ DOMAIN code = {place[k] : k \in 1 .. n}
             /\ \A k \in 1 .. n :
                  code[place[k]] = Linked(listing[k], place[k + 1], place)
<1> DEFINE place == Places(base, listing)
           Line(w) == CHOOSE k \in DOMAIN listing : place[k] = w
           code == Assemble(base, listing)
<1>1. DOMAIN listing = 1 .. n /\ n \in Nat
  BY DEF IsListing
<1>2. code = [w \in {place[k] : k \in 1 .. n} |->
                Linked(listing[Line(w)], place[Line(w) + 1], place)]
  BY <1>1 DEF Assemble
<1>3. ASSUME NEW k \in 1 .. n PROVE Line(place[k]) = k
  <2>1. \A j \in 1 .. n + 1 : place[j] \in Nat
    BY PlacesFollow, Zenon
  <2>2. \A i, j \in 1 .. n + 1 : i < j => place[i] < place[j]
    BY PlacesGrow
  <2> HIDE DEF place
  <2>3. ASSUME NEW j \in 1 .. n, place[j] = place[k] PROVE j = k
    <3>1. j \in 1 .. n + 1 /\ k \in 1 .. n + 1
      BY <1>1
    <3>2. place[j] \in Nat /\ place[k] \in Nat
      BY <2>1, <3>1
    <3> QED BY <2>2, <2>3, <3>1, <3>2
  <2>4. Line(place[k]) \in 1 .. n /\ place[Line(place[k])] = place[k]
    BY <1>1
  <2> HIDE DEF Line
  <2> QED BY <2>3, <2>4
<1> HIDE DEF Line, place, code
<1>4. DOMAIN code = {place[k] : k \in 1 .. n}
  BY <1>2
<1>5. ASSUME NEW k \in 1 .. n
      PROVE  code[place[k]] = Linked(listing[k], place[k + 1], place)
  <2>1. place[k] \in {place[j] : j \in 1 .. n}
    OBVIOUS
  <2>2. code[place[k]] = Linked(listing[Line(place[k])], place[Line(place[k]) + 1], place)
    BY <1>2, <2>1
  <2> QED BY <1>3, <2>2
<1> QED BY <1>4, <1>5 DEF place, code

-----------------------------------------------------------------------------
(***************************************************************************)
(* The lines that all programs have, and where the others are.             *)
(***************************************************************************)
USE DEF Text, Copy, Table, Ticks, KbPort

LEMMA NoJump ==
  ASSUME NEW insn, "to" \notin DOMAIN insn, NEW next, NEW place
  PROVE  Linked(insn, next, place) = insn
  BY DEF Linked

\* The lengths of the lines, and that they have no target.
LEMMA Straight ==
  /\ \A op, rr : OnPair(op, rr).len = 1 /\ "to" \notin DOMAIN OnPair(op, rr)
  /\ \A op, len : Plain(op, len).len = len /\ "to" \notin DOMAIN Plain(op, len)
  /\ \A o, q, len : Ld(o, q, len).len = len /\ "to" \notin DOMAIN Ld(o, q, len)
  /\ \A o, q, len : LdWide(o, q, len).len = len /\ "to" \notin DOMAIN LdWide(o, q, len)
  /\ \A op, o, len : OnByte(op, o, len).len = len /\ "to" \notin DOMAIN OnByte(op, o, len)
  /\ \A op, o, len : Math(op, o, len).len = len /\ "to" \notin DOMAIN Math(op, o, len)
  /\ \A op, n : OnPort(op, n).len = 2 /\ "to" \notin DOMAIN OnPort(op, n)
  /\ \A cc : Ret(cc).len = 1 /\ "to" \notin DOMAIN Ret(cc)
  /\ \A op, up, again : Block(op, up, again).len = 2 /\ "to" \notin DOMAIN Block(op, up, again)
  /\ \A op, bit, o : OnBit(op, bit, o).len = 2 /\ "to" \notin DOMAIN OnBit(op, bit, o)
  /\ \A how, o : ShiftBy(how, o).len = 2 /\ "to" \notin DOMAIN ShiftBy(how, o)
  /\ \A op, cc, to, len : Branch(op, cc, to, len).len = len
  /\ \A how : OnA(how).len = (IF how = "neg" THEN 2 ELSE 1) /\ "to" \notin DOMAIN OnA(how)
  /\ \A how : Digits(how).len = 2 /\ "to" \notin DOMAIN Digits(how)
  /\ \A how, rr, src : /\ Wide(how, rr, src).len = (IF how = "add" THEN 1 ELSE 2)
                        /\ "to" \notin DOMAIN Wide(how, rr, src)
  /\ \A r : InC(r).len = 2 /\ "to" \notin DOMAIN InC(r)
  /\ \A nn : Rst(nn).len = 1 /\ "to" \notin DOMAIN Rst(nn)
<1>1. /\ \A op, rr : OnPair(op, rr).len = 1 /\ "to" \notin DOMAIN OnPair(op, rr)
      /\ \A op, len : Plain(op, len).len = len /\ "to" \notin DOMAIN Plain(op, len)
      /\ \A o, q, len : Ld(o, q, len).len = len /\ "to" \notin DOMAIN Ld(o, q, len)
      /\ \A o, q, len : LdWide(o, q, len).len = len /\ "to" \notin DOMAIN LdWide(o, q, len)
  BY DEF OnPair, Plain, Ld, LdWide
<1>2. /\ \A op, o, len : OnByte(op, o, len).len = len /\ "to" \notin DOMAIN OnByte(op, o, len)
      /\ \A op, o, len : Math(op, o, len).len = len /\ "to" \notin DOMAIN Math(op, o, len)
      /\ \A op, n : OnPort(op, n).len = 2 /\ "to" \notin DOMAIN OnPort(op, n)
      /\ \A cc : Ret(cc).len = 1 /\ "to" \notin DOMAIN Ret(cc)
  BY DEF OnByte, Math, OnPort, Ret
<1>3. /\ \A op, up, again : Block(op, up, again).len = 2 /\ "to" \notin DOMAIN Block(op, up, again)
      /\ \A op, bit, o : OnBit(op, bit, o).len = 2 /\ "to" \notin DOMAIN OnBit(op, bit, o)
      /\ \A how, o : ShiftBy(how, o).len = 2 /\ "to" \notin DOMAIN ShiftBy(how, o)
      /\ \A op, cc, to, len : Branch(op, cc, to, len).len = len
  BY DEF Block, OnBit, ShiftBy, Branch
<1>4. /\ \A how : /\ OnA(how).len = (IF how = "neg" THEN 2 ELSE 1)
                  /\ "to" \notin DOMAIN OnA(how)
      /\ \A how : Digits(how).len = 2 /\ "to" \notin DOMAIN Digits(how)
      /\ \A how, rr, src : /\ Wide(how, rr, src).len = (IF how = "add" THEN 1 ELSE 2)
                            /\ "to" \notin DOMAIN Wide(how, rr, src)
      /\ \A r : InC(r).len = 2 /\ "to" \notin DOMAIN InC(r)
      /\ \A nn : Rst(nn).len = 1 /\ "to" \notin DOMAIN Rst(nn)
  BY DEF OnA, Digits, Wide, InC, Rst
<1> QED BY <1>1, <1>2, <1>3, <1>4

\* The first lines.
LEMMA BootCode ==
  LET code == Assemble(0, Boot)
  IN  /\ DOMAIN code = {0, 1, 3}
      /\ code[0] = Plain("ei", 1) /\ code[1] = Im("one") /\ code[3] = Jp("jp", "always", 256)
<1> DEFINE place == Places(0, Boot)
           code == Assemble(0, Boot)
<1>1. Boot[1] = Plain("ei", 1) /\ Boot[2] = Im("one") /\ Boot[3] = Jp("jp", "always", 256)
  BY DEF Boot
<1>2. Boot[1].len = 1 /\ Boot[2].len = 2 /\ Boot[3].len = 3
  BY <1>1 DEF Plain, Im, Jp
<1>3. IsListing(Boot, 3)
  <2>1. DOMAIN Boot = 1 .. 3 /\ Len(Boot) = 3
    BY DEF Boot
  <2> QED BY <1>2, <2>1 DEF IsListing
<1>4. /\ place[1] = 0
      /\ \A k \in 1 .. 3 : place[k + 1] = place[k] + Boot[k].len
  BY <1>3, PlacesFollow
<1>5. place[1] = 0 /\ place[2] = 1 /\ place[3] = 3
  <2> HIDE DEF place
  <2> QED BY <1>2, <1>4
<1>6. /\ DOMAIN code = {place[k] : k \in 1 .. 3}
      /\ \A k \in 1 .. 3 : code[place[k]] = Linked(Boot[k], place[k + 1], place)
  BY <1>3, Assembled
<1>7. \A k \in 1 .. 3 : \A next : Linked(Boot[k], next, place) = Boot[k]
  <2>1. "to" \notin DOMAIN Boot[1] /\ "to" \notin DOMAIN Boot[2] /\ "to" \notin DOMAIN Boot[3]
    BY <1>1 DEF Plain, Im, Jp
  <2> HIDE DEF place
  <2>2. ASSUME NEW k \in 1 .. 3, NEW next PROVE Linked(Boot[k], next, place) = Boot[k]
    <3>1. k = 1 \/ k = 2 \/ k = 3
      OBVIOUS
    <3> QED BY <2>1, <3>1, NoJump
  <2> QED BY <2>2
<1> HIDE DEF place, code
<1>8. DOMAIN code = {0, 1, 3}
  BY <1>5, <1>6
<1>9. code[0] = Boot[1] /\ code[1] = Boot[2] /\ code[3] = Boot[3]
  BY <1>5, <1>6, <1>7
<1> QED BY <1>1, <1>8, <1>9 DEF code

\* The line that the table points at.
LEMMA TableCode ==
  LET code == Assemble(8, <<Ret("always")>>)
  IN  DOMAIN code = {8} /\ code[8] = Ret("always")
<1> DEFINE listing == <<Ret("always")>>
           place == Places(8, listing)
           code == Assemble(8, listing)
<1>1. listing[1] = Ret("always") /\ listing[1].len = 1 /\ "to" \notin DOMAIN listing[1]
  BY DEF Ret
<1>2. DOMAIN listing = 1 .. 1 /\ Len(listing) = 1
  OBVIOUS
<1> HIDE DEF listing
<1>3. IsListing(listing, 1)
  BY <1>1, <1>2 DEF IsListing
<1>4. place[1] = 8
  BY <1>3, PlacesFollow
<1>5. /\ DOMAIN code = {place[k] : k \in 1 .. 1}
      /\ \A k \in 1 .. 1 : code[place[k]] = Linked(listing[k], place[k + 1], place)
  BY <1>3, Assembled
<1> HIDE DEF place, code
<1>6. DOMAIN code = {8} /\ code[8] = Linked(listing[1], place[2], place)
  BY <1>4, <1>5
<1>7. code[8] = listing[1]
  BY <1>1, <1>6, NoJump
<1> QED BY <1>1, <1>6, <1>7 DEF code, listing

\* The handler's lines.
LEMMA HandlerCode ==
  LET code == Assemble(56, Handler)
  IN  /\ DOMAIN code = HandlerLines
      /\ code[56] = OnPair("push", "AF") /\ code[57] = OnPair("push", "HL")
      /\ code[58] = LdWide(RR("HL"), NN(Ticks), 3)
      /\ code[61] = OnByte("inc", Mem("HL", 0), 1)
      /\ code[62] = OnPort("in_a_(n)", Acknowledge)
      /\ code[64] = OnPair("pop", "HL") /\ code[65] = OnPair("pop", "AF")
      /\ code[66] = Plain("ei", 1) /\ code[67] = Plain("reti", 2)
<1> DEFINE place == Places(56, Handler)
           code == Assemble(56, Handler)
<1>1. /\ Handler[1] = OnPair("push", "AF") /\ Handler[2] = OnPair("push", "HL")
      /\ Handler[6] = OnPair("pop", "HL") /\ Handler[7] = OnPair("pop", "AF")
  BY DEF Handler
<1>2. Handler[3] = LdWide(RR("HL"), NN(Ticks), 3)
  BY DEF Handler
<1>3. Handler[4] = OnByte("inc", Mem("HL", 0), 1)
  BY DEF Handler
<1>4. Handler[5] = OnPort("in_a_(n)", Acknowledge)
  BY DEF Handler
<1>5. Handler[8] = Plain("ei", 1) /\ Handler[9] = Plain("reti", 2)
  BY DEF Handler
<1>6. /\ \A k \in {1, 2, 6, 7} : Handler[k].len = 1 /\ "to" \notin DOMAIN Handler[k]
      /\ Handler[3].len = 3 /\ "to" \notin DOMAIN Handler[3]
      /\ Handler[4].len = 1 /\ "to" \notin DOMAIN Handler[4]
  BY <1>1, <1>2, <1>3, Straight
<1>7. /\ Handler[5].len = 2 /\ "to" \notin DOMAIN Handler[5]
      /\ Handler[8].len = 1 /\ "to" \notin DOMAIN Handler[8]
      /\ Handler[9].len = 2 /\ "to" \notin DOMAIN Handler[9]
  <2>1. Handler[5].len = 2 /\ "to" \notin DOMAIN Handler[5]
    <3>1. PICK insn : insn = OnPort("in_a_(n)", Acknowledge)
      OBVIOUS
    <3>2. insn.len = 2 /\ "to" \notin DOMAIN insn
      BY <3>1 DEF OnPort
    <3> QED BY <1>4, <3>1, <3>2
  <2>2. /\ Handler[8].len = 1 /\ "to" \notin DOMAIN Handler[8]
        /\ Handler[9].len = 2 /\ "to" \notin DOMAIN Handler[9]
    BY <1>5, Straight
  <2> QED BY <2>1, <2>2
<1>8. \A k \in 1 .. 9 : Handler[k].len \in Nat \ {0} /\ "to" \notin DOMAIN Handler[k]
  BY <1>6, <1>7
<1>9. IsListing(Handler, 9)
  <2>1. DOMAIN Handler = 1 .. 9 /\ Len(Handler) = 9
    BY DEF Handler
  <2> QED BY <1>8, <2>1 DEF IsListing
<1>10. place[1] = 56 /\ \A k \in 1 .. 9 : place[k + 1] = place[k] + Handler[k].len
  BY <1>9, PlacesFollow
<1>11. /\ place[1] = 56 /\ place[2] = 57 /\ place[3] = 58 /\ place[4] = 61 /\ place[5] = 62
       /\ place[6] = 64 /\ place[7] = 65 /\ place[8] = 66 /\ place[9] = 67
  <2> HIDE DEF place
  <2> QED BY <1>6, <1>7, <1>10
<1>12. /\ DOMAIN code = {place[k] : k \in 1 .. 9}
       /\ \A k \in 1 .. 9 : code[place[k]] = Linked(Handler[k], place[k + 1], place)
  BY <1>9, Assembled
<1>13. \A k \in 1 .. 9 : \A next : Linked(Handler[k], next, place) = Handler[k]
  <2> HIDE DEF place
  <2> QED BY <1>8, NoJump
<1> HIDE DEF place, code
<1>14. DOMAIN code = HandlerLines
  BY <1>11, <1>12 DEF HandlerLines
<1>15. /\ code[56] = Handler[1] /\ code[57] = Handler[2] /\ code[58] = Handler[3]
       /\ code[61] = Handler[4] /\ code[62] = Handler[5] /\ code[64] = Handler[6]
       /\ code[65] = Handler[7] /\ code[66] = Handler[8] /\ code[67] = Handler[9]
  BY <1>11, <1>12, <1>13
<1> QED
  <2>1. /\ code[56] = OnPair("push", "AF") /\ code[57] = OnPair("push", "HL")
        /\ code[64] = OnPair("pop", "HL") /\ code[65] = OnPair("pop", "AF")
    BY <1>1, <1>15
  <2>2. code[58] = LdWide(RR("HL"), NN(Ticks), 3)
    BY <1>2, <1>15
  <2>3. code[61] = OnByte("inc", Mem("HL", 0), 1)
    BY <1>3, <1>15
  <2>4. code[62] = OnPort("in_a_(n)", Acknowledge)
    BY <1>4, <1>15
  <2>5. code[66] = Plain("ei", 1) /\ code[67] = Plain("reti", 2)
    BY <1>5, <1>15
  <2> HIDE DEF Ticks
  <2> QED BY <1>14, <2>1, <2>2, <2>3, <2>4, <2>5, Zenon DEF code

\* The code of a program is these lines and its own.
LEMMA BesideHas ==
  ASSUME NEW code, NEW other
  PROVE  /\ DOMAIN Beside(code, other) = DOMAIN code \cup DOMAIN other
         /\ \A w \in DOMAIN code : Beside(code, other)[w] = code[w]
         /\ \A w \in DOMAIN other \ DOMAIN code : Beside(code, other)[w] = other[w]
  BY DEF Beside

\* Every program has the boot, the table and the handler at their places, and its own
\* lines wherever they do not overlap.
LEMMA CommonLines ==
  ASSUME NEW p \in DOMAIN Listing
  PROVE  /\ \A w \in {0, 1, 3} : CodeOf[p][w] = Assemble(0, Boot)[w]
         /\ CodeOf[p][8] = Ret("always")
         /\ \A w \in HandlerLines : CodeOf[p][w] = Assemble(56, Handler)[w]
         /\ LET own == Assemble(256, Listing[p])
            IN  \A w \in DOMAIN own \ (HandlerLines \cup {0, 1, 3, 8}) : CodeOf[p][w] = own[w]
<1> DEFINE boot == Assemble(0, Boot)
           table == Assemble(8, <<Ret("always")>>)
           handler == Assemble(56, Handler)
           own == Assemble(256, Listing[p])
           first == Beside(boot, table)
           second == Beside(handler, own)
<1>1. CodeOf[p] = Beside(first, second)
  BY DEF CodeOf
<1>2. DOMAIN boot = {0, 1, 3} /\ DOMAIN table = {8} /\ DOMAIN handler = HandlerLines
      /\ table[8] = Ret("always")
  <2>1. DOMAIN boot = {0, 1, 3}
    BY BootCode
  <2>2. DOMAIN table = {8} /\ table[8] = Ret("always")
    BY TableCode
  <2>3. DOMAIN handler = HandlerLines
    <3> HIDE DEF Ticks
    <3> QED BY HandlerCode, Zenon
  <2> QED BY <2>1, <2>2, <2>3
<1> HIDE DEF boot, table, handler, own
<1>3. /\ DOMAIN first = {0, 1, 3, 8}
      /\ \A w \in {0, 1, 3} : first[w] = boot[w]
      /\ first[8] = Ret("always")
  <2>1. DOMAIN first = DOMAIN boot \cup DOMAIN table
    BY BesideHas
  <2>2. DOMAIN first = {0, 1, 3, 8}
    BY <1>2, <2>1
  <2>3. \A w \in DOMAIN boot : first[w] = boot[w]
    BY BesideHas, Zenon
  <2>4. \A w \in DOMAIN table \ DOMAIN boot : first[w] = table[w]
    BY BesideHas, Zenon
  <2> HIDE DEF first
  <2> QED BY <1>2, <2>2, <2>3, <2>4
<1>4. /\ \A w \in HandlerLines : second[w] = handler[w]
      /\ \A w \in DOMAIN own \ HandlerLines : second[w] = own[w]
      /\ DOMAIN second = HandlerLines \cup DOMAIN own
  <2>1. \A w \in DOMAIN handler : second[w] = handler[w]
    BY BesideHas, Zenon
  <2>2. \A w \in DOMAIN own \ DOMAIN handler : second[w] = own[w]
    BY BesideHas, Zenon
  <2>3. DOMAIN second = DOMAIN handler \cup DOMAIN own
    BY BesideHas
  <2> HIDE DEF HandlerLines, second
  <2> QED BY <1>2, <2>1, <2>2, <2>3, Zenon
<1> HIDE DEF HandlerLines, first, second
<1>5. \A w \in DOMAIN first : CodeOf[p][w] = first[w]
  <2>1. \A w \in DOMAIN first : Beside(first, second)[w] = first[w]
    BY BesideHas, Zenon
  <2> QED BY <1>1, <2>1
<1>6. \A w \in DOMAIN second \ {0, 1, 3, 8} : CodeOf[p][w] = second[w]
  <2>1. \A w \in DOMAIN second \ DOMAIN first : Beside(first, second)[w] = second[w]
    BY BesideHas, Zenon
  <2> QED BY <1>1, <1>3, <2>1
<1>7. \A w \in {0, 1, 3} : CodeOf[p][w] = boot[w]
  BY <1>3, <1>5
<1>8. CodeOf[p][8] = Ret("always")
  BY <1>3, <1>5
<1>9. \A w \in HandlerLines : CodeOf[p][w] = handler[w]
  <2>1. \A w \in HandlerLines : w \notin {0, 1, 3, 8}
    BY DEF HandlerLines
  <2> QED BY <1>4, <1>6, <2>1
<1>10. \A w \in DOMAIN own \ (HandlerLines \cup {0, 1, 3, 8}) : CodeOf[p][w] = own[w]
  <2>1. ASSUME NEW w \in DOMAIN own \ (HandlerLines \cup {0, 1, 3, 8})
        PROVE  CodeOf[p][w] = own[w]
    BY <1>4, <1>6
  <2> QED BY <2>1
<1> QED BY <1>7, <1>8, <1>9, <1>10 DEF boot, handler, own

\* A program's own lines are where its listing places them.
LEMMA OwnLines ==
  ASSUME NEW p \in DOMAIN Listing, NEW n, IsListing(Listing[p], n)
  PROVE  LET place == Places(256, Listing[p])
         IN  \A k \in 1 .. n :
               CodeOf[p][place[k]] = Linked(Listing[p][k], place[k + 1], place)
<1> DEFINE place == Places(256, Listing[p])
           own == Assemble(256, Listing[p])
<1>1. /\ DOMAIN own = {place[k] : k \in 1 .. n}
      /\ \A k \in 1 .. n : own[place[k]] = Linked(Listing[p][k], place[k + 1], place)
  <2>1. PICK base \in Nat : base = 256
    OBVIOUS
  <2>2. LET at == Places(base, Listing[p])
            code == Assemble(base, Listing[p])
        IN  /\ DOMAIN code = {at[k] : k \in 1 .. n}
            /\ \A k \in 1 .. n : code[at[k]] = Linked(Listing[p][k], at[k + 1], at)
    BY Assembled, Zenon
  <2> QED BY <2>1, <2>2
<1>2. \A k \in 1 .. n : place[k] \in Nat /\ place[k] >= 256
  <2>1. place \in [1 .. n + 1 -> Nat] /\ place[1] = 256
    BY PlacesFollow
  <2>2. \A j, k \in 1 .. n + 1 : j < k => place[j] < place[k]
    BY PlacesGrow
  <2>3. n \in Nat
    BY DEF IsListing
  <2> HIDE DEF place
  <2>4. ASSUME NEW k \in 1 .. n PROVE place[k] \in Nat /\ place[k] >= 256
    <3>1. 1 \in 1 .. n + 1 /\ k \in 1 .. n + 1 /\ (k = 1 \/ 1 < k)
      BY <2>3
    <3>2. place[k] \in Nat
      BY <2>1, <3>1
    <3> QED BY <2>1, <2>2, <3>1, <3>2
  <2> QED BY <2>4
<1>3. \A w \in DOMAIN own \ (HandlerLines \cup {0, 1, 3, 8}) : CodeOf[p][w] = own[w]
  BY CommonLines
<1> HIDE DEF place, own
<1>4. \A k \in 1 .. n : place[k] \in DOMAIN own \ (HandlerLines \cup {0, 1, 3, 8})
  BY <1>1, <1>2 DEF HandlerLines
<1>5. \A k \in 1 .. n : CodeOf[p][place[k]] = own[place[k]]
  BY <1>3, <1>4
<1> QED BY <1>1, <1>5 DEF place

\* Where the lines of a program are.
LEMMA OwnPlaces ==
  ASSUME NEW listing, NEW n, IsListing(listing, n)
  PROVE  LET place == Places(256, listing)
         IN  /\ place[1] = 256
             /\ \A k \in 1 .. n : place[k + 1] = place[k] + listing[k].len
<1>1. PICK base \in Nat : base = 256
  OBVIOUS
<1>2. LET place == Places(base, listing)
      IN  /\ place[1] = base
          /\ \A k \in 1 .. n : place[k + 1] = place[k] + listing[k].len
  BY PlacesFollow
<1> QED BY <1>1, <1>2

-----------------------------------------------------------------------------
(***************************************************************************)
(* What the assertions do not depend on.                                   *)
(***************************************************************************)
Programs == DOMAIN Listing

\* The programs.
LEMMA ProgramNames ==
  Programs = {"hello", "hex", "copying", "filling", "blocks", "ports", "stacking",
              "multiply", "bits", "critical", "indexed"}
  BY DEF Programs, Listing

\* Each program has its assertions.
LEMMA Which ==
  ASSUME NEW g, NEW u, NEW v, NEW o
  PROVE  /\ g.program = "hello" => ProgramAt(g, u, v, o) = HelloAt(g, u, v, o)
         /\ g.program = "hex" => ProgramAt(g, u, v, o) = HexAt(g, u, v, o)
         /\ g.program = "copying" => ProgramAt(g, u, v, o) = CopyingAt(g, u, v, o)
         /\ g.program = "filling" => ProgramAt(g, u, v, o) = FillingAt(g, u, v, o)
         /\ g.program = "blocks" => ProgramAt(g, u, v, o) = BlocksAt(g, u, v, o)
         /\ g.program = "ports" => ProgramAt(g, u, v, o) = PortsAt(g, u, v, o)
         /\ g.program = "stacking" => ProgramAt(g, u, v, o) = StackingAt(g, u, v, o)
         /\ g.program = "multiply" => ProgramAt(g, u, v, o) = MultiplyAt(g, u, v, o)
         /\ g.program = "bits" => ProgramAt(g, u, v, o) = BitsAt(g, u, v, o)
         /\ g.program = "critical" => ProgramAt(g, u, v, o) = CriticalAt(g, u, v, o)
         /\ g.program = "indexed" => ProgramAt(g, u, v, o) = IndexedAt(g, u, v, o)
  BY DEF ProgramAt

\* That the machine is halted is only ever a condition.
LEMMA Awake ==
  ASSUME NEW g, g.program \in Programs, NEW u \in CpuState, NEW v, NEW o, Asserted(g, u, v, o)
  PROVE  Asserted(g, [u EXCEPT !.halted = FALSE], v, o)
<1>1. PICK t : t = [u EXCEPT !.halted = FALSE]
  OBVIOUS
<1>2. /\ t.PC = u.PC /\ t.SP = u.SP /\ t.A = u.A /\ t.F = u.F /\ t.BC = u.BC /\ t.DE = u.DE
      /\ t.HL = u.HL /\ t.IX = u.IX /\ t.prime = u.prime /\ t.halted = FALSE
      /\ t.enable_interrupts_next_cycle = u.enable_interrupts_next_cycle
      /\ t.iff1 = u.iff1 /\ t.interrupt_mode = u.interrupt_mode
  BY <1>1 DEF CpuState
<1>3. OfB(t) = OfB(u) /\ OfC(t) = OfC(u) /\ OfD(t) = OfD(u) /\ OfE(t) = OfE(u)
  BY <1>2 DEF OfB, OfC, OfD, OfE
<1>4. BootAt(g, u, v, o) => BootAt(g, t, v, o)
  BY <1>2 DEF BootAt
<1>5. HelloAt(g, u, v, o) => HelloAt(g, t, v, o)
  BY <1>2, <1>3 DEF HelloAt
<1>6. HexAt(g, u, v, o) => HexAt(g, t, v, o)
  BY <1>2, <1>3 DEF HexAt
<1>7. CopyingAt(g, u, v, o) => CopyingAt(g, t, v, o)
  BY <1>2, <1>3 DEF CopyingAt
<1>8. FillingAt(g, u, v, o) => FillingAt(g, t, v, o)
  BY <1>2, <1>3 DEF FillingAt
<1>9. BlocksAt(g, u, v, o) => BlocksAt(g, t, v, o)
  BY <1>2, <1>3 DEF BlocksAt
<1>10. PortsAt(g, u, v, o) => PortsAt(g, t, v, o)
  BY <1>2, <1>3 DEF PortsAt
<1>11. StackingAt(g, u, v, o) => StackingAt(g, t, v, o)
  BY <1>2, <1>3 DEF StackingAt
<1>12. MultiplyAt(g, u, v, o) => MultiplyAt(g, t, v, o)
  BY <1>2, <1>3 DEF MultiplyAt
<1>13. BitsAt(g, u, v, o) => BitsAt(g, t, v, o)
  BY <1>2, <1>3 DEF BitsAt
<1>14. CriticalAt(g, u, v, o) => CriticalAt(g, t, v, o)
  BY <1>2, <1>3 DEF CriticalAt
<1>15. IndexedAt(g, u, v, o) => IndexedAt(g, t, v, o)
  BY <1>2, <1>3 DEF IndexedAt
<1>16. ProgramAt(g, u, v, o) => ProgramAt(g, t, v, o)
  BY <1>5, <1>6, <1>7, <1>8, <1>9, <1>10, <1>11, <1>12, <1>13, <1>14, <1>15, Which, ProgramNames
<1> QED BY <1>1, <1>4, <1>16 DEF Asserted

\* No program has a line where the handler has one.
LEMMA Elsewhere ==
  ASSUME NEW g, g.program \in Programs, NEW u, NEW v, NEW o, Asserted(g, u, v, o)
  PROVE  u.PC \notin HandlerLines
<1>1. BootAt(g, u, v, o) => u.PC \notin HandlerLines
  BY DEF BootAt, HandlerLines
<1>2. HelloAt(g, u, v, o) => u.PC \notin HandlerLines
  BY DEF HelloAt, HandlerLines
<1>3. HexAt(g, u, v, o) => u.PC \notin HandlerLines
  BY DEF HexAt, HandlerLines
<1>4. CopyingAt(g, u, v, o) => u.PC \notin HandlerLines
  BY DEF CopyingAt, HandlerLines
<1>5. FillingAt(g, u, v, o) => u.PC \notin HandlerLines
  BY DEF FillingAt, HandlerLines
<1>6. BlocksAt(g, u, v, o) => u.PC \notin HandlerLines
  BY DEF BlocksAt, HandlerLines
<1>7. PortsAt(g, u, v, o) => u.PC \notin HandlerLines
  <2>1. PortsAt(g, u, v, o) => u.PC \in 256 .. 287
    BY DEF PortsAt
  <2> QED BY <2>1 DEF HandlerLines
<1>8. StackingAt(g, u, v, o) => u.PC \notin HandlerLines
  BY DEF StackingAt, HandlerLines
<1>9. MultiplyAt(g, u, v, o) => u.PC \notin HandlerLines
  BY DEF MultiplyAt, HandlerLines
<1>10. BitsAt(g, u, v, o) => u.PC \notin HandlerLines
  BY DEF BitsAt, HandlerLines
<1>11. CriticalAt(g, u, v, o) => u.PC \notin HandlerLines
  BY DEF CriticalAt, HandlerLines
<1>12. IndexedAt(g, u, v, o) => u.PC \notin HandlerLines
  BY DEF IndexedAt, HandlerLines
<1> HIDE DEF HandlerLines
<1>13. ProgramAt(g, u, v, o) => u.PC \notin HandlerLines
  BY <1>2, <1>3, <1>4, <1>5, <1>6, <1>7, <1>8, <1>9, <1>10, <1>11, <1>12, Which, ProgramNames
<1> QED BY <1>1, <1>13 DEF Asserted

\* The cells that the handler writes are no part of an assertion that holds while
\* the interrupts are enabled.
LEMMA Untouched ==
  ASSUME NEW g, g.program \in Programs, NEW u \in CpuState, u.iff1, u.SP \in Levels,
         NEW v \in Store, NEW w \in Store, NEW o, Alike(u, v, w), Asserted(g, u, v, o)
  PROVE  Asserted(g, u, w, o)
<1>1. \A c \in Text - 1 .. Table + 1 : w[c] = v[c]
  <2>1. \A c \in Text - 1 .. Table + 1 : c \in Cells /\ c # Ticks /\ c \notin Scratch(u)
    BY DEF Levels, Cells, Scratch, Top
  <2> QED BY <2>1 DEF Alike
<1>2. /\ w[Text - 1] = v[Text - 1] /\ w[Text] = v[Text] /\ w[Text + 1] = v[Text + 1]
      /\ w[Text + 2] = v[Text + 2] /\ w[Table] = v[Table] /\ w[Table + 1] = v[Table + 1]
      /\ w[Copy] = v[Copy] /\ w[Copy + 1] = v[Copy + 1] /\ w[Copy + 2] = v[Copy + 2]
      /\ w[Copy + 3] = v[Copy + 3]
  BY <1>1
<1>3. u.SP \in {65534, 65532} => w[65534] = v[65534] /\ w[65535] = v[65535]
  <2>1. \A c \in {65534, 65535} : c \in Cells /\ c # Ticks
    BY DEF Cells, Stack
  <2>2. u.SP \in {65534, 65532} => \A c \in {65534, 65535} : c \notin Scratch(u)
    BY DEF Scratch, Top
  <2> QED BY <2>1, <2>2 DEF Alike
<1>4. u.SP = 65532 => w[65532] = v[65532] /\ w[65533] = v[65533]
  <2>1. \A c \in {65532, 65533} : c \in Cells /\ c # Ticks
    BY DEF Cells, Stack
  <2>2. u.SP = 65532 => \A c \in {65532, 65533} : c \notin Scratch(u)
    BY DEF Scratch, Top
  <2> QED BY <2>1, <2>2 DEF Alike
<1>5. /\ \A n : u.SP \in {65534, 65532} /\ Holds(v, 65534, n) => Holds(w, 65534, n)
      /\ \A n : u.SP = 65532 /\ Holds(v, 65532, n) => Holds(w, 65532, n)
      /\ \A n : Holds(v, Copy, n) => Holds(w, Copy, n)
      /\ \A n : Holds(v, Copy + 2, n) => Holds(w, Copy + 2, n)
  BY <1>2, <1>3, <1>4 DEF Holds
<1>6. \A x, y, z : TextIs(v, x, y, z) => TextIs(w, x, y, z)
  BY <1>2 DEF TextIs
<1>7. BootAt(g, u, v, o) => BootAt(g, u, w, o)
  BY <1>2, <1>6 DEF BootAt, Original
<1>8. HelloAt(g, u, v, o) => HelloAt(g, u, w, o)
  BY <1>1, <1>2, <1>3, <1>5, <1>6 DEF HelloAt
<1>9. HexAt(g, u, v, o) => HexAt(g, u, w, o)
  BY <1>1, <1>2, <1>3, <1>5, <1>6 DEF HexAt
<1>10. CopyingAt(g, u, v, o) => CopyingAt(g, u, w, o)
  BY <1>1, <1>2, <1>3, <1>5, <1>6 DEF CopyingAt
<1>11. FillingAt(g, u, v, o) => FillingAt(g, u, w, o)
  BY <1>1, <1>2, <1>3, <1>5, <1>6 DEF FillingAt
<1>12. BlocksAt(g, u, v, o) => BlocksAt(g, u, w, o)
  BY <1>1, <1>2, <1>3, <1>5, <1>6 DEF BlocksAt
<1>13. PortsAt(g, u, v, o) => PortsAt(g, u, w, o)
  BY <1>1, <1>2, <1>3, <1>5, <1>6 DEF PortsAt
<1>14. StackingAt(g, u, v, o) => StackingAt(g, u, w, o)
  BY <1>1, <1>2, <1>3, <1>5, <1>6 DEF StackingAt
<1>15. MultiplyAt(g, u, v, o) => MultiplyAt(g, u, w, o)
  BY <1>1, <1>2, <1>3, <1>5, <1>6 DEF MultiplyAt
<1>16. BitsAt(g, u, v, o) => BitsAt(g, u, w, o)
  BY <1>1, <1>2, <1>3, <1>5, <1>6 DEF BitsAt
<1>17. CriticalAt(g, u, v, o) => CriticalAt(g, u, w, o)
  BY <1>1, <1>2, <1>3, <1>5, <1>6 DEF CriticalAt
<1>18. IndexedAt(g, u, v, o) => IndexedAt(g, u, w, o)
  BY <1>1, <1>2, <1>3, <1>5, <1>6 DEF IndexedAt
<1>19. ProgramAt(g, u, v, o) => ProgramAt(g, u, w, o)
  BY <1>8, <1>9, <1>10, <1>11, <1>12, <1>13, <1>14, <1>15, <1>16, <1>17, <1>18, Which, ProgramNames
<1> QED BY <1>7, <1>19 DEF Asserted

-----------------------------------------------------------------------------
(***************************************************************************)
(* A step of a program, and the interrupt after it.                        *)
(***************************************************************************)
\* The machine goes on at an assertion.
Signals == Seq([port : Byte, data : Byte])
Leads(t, m) ==
  /\ Finish(t, m) /\ UNCHANGED <<guest, raised>>
  /\ line' \in BOOLEAN /\ output' \in Signals
  /\ Sane(t) /\ m \in Store /\ Asserted(guest, t, m, output')
  /\ Countable => m[Ticks] + (IF line' THEN 1 ELSE 0) = raised + Counts(guest, t)

\* The rest of what holds.
Others ==
  /\ guest \in Guests /\ guest.program \in Programs /\ raised \in 0 .. Raises
  /\ output \in Signals /\ line \in BOOLEAN /\ panicked = FALSE

\* When no interrupt comes, or none may, the program is at the assertion.
LEMMA AtLine ==
  ASSUME Others, NEW t, NEW m, guest' = guest, raised' = raised, line' \in BOOLEAN,
         output' \in Signals, Sane(t), m \in Store, Asserted(guest, t, m, output'),
         t.halted => ~line',
         Countable => m[Ticks] + (IF line' THEN 1 ELSE 0) = raised + Counts(guest, t),
         cpu' = t, mem' = m, panicked' = panicked
  PROVE  GuestInv'
<1>1. t.PC \notin HandlerLines /\ t \in CpuState
  BY Elsewhere DEF Others, Sane
<1>2. t.PC # 62
  BY <1>1 DEF HandlerLines
<1>3. Countable => mem'[Ticks] + (IF line' /\ cpu'.PC # 62 THEN 1 ELSE 0)
                     = raised' + Counts(guest', t)
  BY <1>2
<1>4. /\ guest' \in Guests /\ mem' \in Store /\ line' \in BOOLEAN /\ raised' \in 0 .. Raises
      /\ output' \in Signals /\ panicked' = FALSE /\ (cpu'.halted => ~line')
  BY DEF Others
<1>5. \E u \in CpuState, v \in Store :
        /\ Sane(u) /\ Asserted(guest', u, v, output')
        /\ (cpu' = u /\ mem' = v) \/ Interrupted(u, v)'
        /\ Countable => mem'[Ticks] + (IF line' /\ cpu'.PC # 62 THEN 1 ELSE 0)
                          = raised' + Counts(guest', u)
  BY <1>1, <1>3
<1> QED BY <1>4, <1>5 DEF GuestInv, Counted, Pending, Signals

\* An interrupt is taken.
LEMMA TakesInterrupt ==
  ASSUME Others, NEW s, NEW m, guest' = guest, raised' = raised, line', output' \in Signals,
         Sane(s), s.iff1, ~s.halted, m \in Store, Asserted(guest, s, m, output'),
         Countable => m[Ticks] + 1 = raised + Counts(guest, s),
         cpu' \in CpuState, cpu'.PC = 56, cpu'.SP = Lower(s.SP), Spared(cpu', s),
         cpu'.A = s.A, cpu'.F = s.F, cpu'.HL = s.HL, ~cpu'.iff1, ~cpu'.iff2, ~cpu'.halted,
         ~cpu'.enable_interrupts_next_cycle,
         WrittenOver(m, mem', Lower(s.SP), s.PC), panicked' = panicked
  PROVE  GuestInv'
<1>1. s \in CpuState /\ s.SP \in Levels /\ ~s.enable_interrupts_next_cycle
  BY DEF Sane
<1>2. Lower(s.SP) = Top(s) - 2
  BY <1>1 DEF Lower, Top, Levels
<1>3. mem' \in Store /\ Holds(mem', Top(s) - 2, s.PC) /\ Alike(s, m, mem')
  <2>1. \A c \in Cells : c \notin Scratch(s) => c \notin {Lower(s.SP), Lower(s.SP) + 1}
    BY <1>1, <1>2 DEF Scratch, Top, Levels
  <2> QED BY <1>2, <2>1 DEF WrittenOver, Alike
<1>4. mem'[Ticks] = m[Ticks]
  <2>1. Ticks \in Cells /\ Ticks \notin {Lower(s.SP), Lower(s.SP) + 1}
    BY <1>1 DEF Lower, Levels, Cells
  <2> QED BY <2>1 DEF WrittenOver
<1>5. Interrupted(s, m)'
  <2>1. cpu'.PC \in HandlerLines /\ Depth(cpu'.PC) = 2 /\ cpu'.PC # 67
    BY DEF HandlerLines, Depth
  <2> QED BY <1>2, <1>3, <2>1 DEF Interrupted, Serving
<1>6. Countable => mem'[Ticks] + (IF line' /\ cpu'.PC # 62 THEN 1 ELSE 0)
                     = raised' + Counts(guest', s)
  BY <1>4
<1>7. /\ guest' \in Guests /\ mem' \in Store /\ line' \in BOOLEAN /\ raised' \in 0 .. Raises
      /\ output' \in Signals /\ panicked' = FALSE /\ (cpu'.halted => ~line')
  BY <1>3 DEF Others
<1>8. \E u \in CpuState, v \in Store :
        /\ Sane(u) /\ Asserted(guest', u, v, output')
        /\ (cpu' = u /\ mem' = v) \/ Interrupted(u, v)'
        /\ Countable => mem'[Ticks] + (IF line' /\ cpu'.PC # 62 THEN 1 ELSE 0)
                          = raised' + Counts(guest', u)
  BY <1>1, <1>5, <1>6
<1> QED BY <1>7, <1>8 DEF GuestInv, Counted, Pending, Signals

\* After the step the assertion holds, or the handler is at its first line.
LEMMA Settles ==
  ASSUME Others, NEW t, NEW m, Leads(t, m)
  PROVE  GuestInv'
<1>1. /\ Finish(t, m) /\ guest' = guest /\ raised' = raised
      /\ line' \in BOOLEAN /\ output' \in Signals
      /\ Sane(t) /\ m \in Store /\ Asserted(guest, t, m, output')
      /\ Countable => m[Ticks] + (IF line' THEN 1 ELSE 0) = raised + Counts(guest, t)
  BY DEF Leads
<1> DEFINE s == [t EXCEPT !.halted = FALSE]
<1>2. t \in CpuState /\ s \in CpuState
  <2>1. t \in CpuState
    BY <1>1 DEF Sane
  <2> QED BY <2>1 DEF CpuState
<1>3. /\ s.PC = t.PC /\ s.SP = t.SP /\ s.iff1 = t.iff1 /\ s.iff2 = t.iff2
      /\ s.enable_interrupts_next_cycle = t.enable_interrupts_next_cycle
      /\ s.interrupt_mode = t.interrupt_mode /\ s.halted = FALSE
  BY <1>2 DEF CpuState
<1>4. Sane(s) /\ Counts(guest, s) = Counts(guest, t)
  BY <1>1, <1>2, <1>3 DEF Sane, Counts
<1>5. Asserted(guest, s, m, output')
  BY <1>1, <1>2, Awake DEF Others
<1>6. CASE ~line' /\ cpu' = t /\ mem' = m /\ UNCHANGED panicked
  BY <1>1, <1>6, AtLine
<1>7. CASE line' /\ ~t.iff1 /\ cpu' = s /\ mem' = m /\ UNCHANGED panicked
  <2>1. Countable => m[Ticks] + (IF line' THEN 1 ELSE 0) = raised + Counts(guest, s)
    BY <1>1, <1>4
  <2> HIDE DEF s
  <2>2. s.halted => ~line'
    BY <1>3
  <2> QED BY <1>1, <1>4, <1>5, <1>7, <2>1, <2>2, AtLine
<1>8. CASE /\ line' /\ t.iff1 /\ t.interrupt_mode = "one"
           /\ cpu' = [t EXCEPT !.halted = FALSE, !.iff1 = FALSE, !.iff2 = FALSE,
                               !.SP = Plus(@, -2), !.PC = 56]
           /\ mem' = Push(t, t.PC, m)
           /\ UNCHANGED panicked
  <2>1. t.SP \in Levels /\ t.PC \in Words /\ t.SP = s.SP
    BY <1>1, <1>2, <1>3, StateParts DEF Sane
  <2>2. Plus(t.SP, -2) = Lower(s.SP)
    BY <2>1, StackLevels, LevelsAreSlots
  <2>3. /\ cpu' \in CpuState /\ cpu'.PC = 56 /\ cpu'.SP = Lower(s.SP) /\ Spared(cpu', s)
        /\ cpu'.A = s.A /\ cpu'.F = s.F /\ cpu'.HL = s.HL
        /\ ~cpu'.iff1 /\ ~cpu'.iff2 /\ ~cpu'.halted /\ ~cpu'.enable_interrupts_next_cycle
    <3>1. PICK sp, pc : sp = Lower(s.SP) /\ pc = 56
      OBVIOUS
    <3>2. sp \in Words /\ pc \in Words
      BY <2>1, <3>1, StackLevels, LevelsAreSlots, WordIs
    <3>3. cpu' = [t EXCEPT !.halted = FALSE, !.iff1 = FALSE, !.iff2 = FALSE, !.SP = sp, !.PC = pc]
      BY <1>2, <1>8, <2>2, <3>1 DEF CpuState
    <3>4. ~t.enable_interrupts_next_cycle
      BY <1>1, <1>8 DEF Sane
    <3>5. cpu' \in CpuState
      BY <1>2, <3>2, <3>3 DEF CpuState
    <3>6. /\ cpu'.PC = pc /\ cpu'.SP = sp /\ cpu'.A = s.A /\ cpu'.F = s.F /\ cpu'.HL = s.HL
          /\ cpu'.iff1 = FALSE /\ cpu'.iff2 = FALSE /\ cpu'.halted = FALSE
          /\ cpu'.enable_interrupts_next_cycle = t.enable_interrupts_next_cycle
      BY <1>2, <3>3 DEF CpuState
    <3>7. Spared(cpu', s)
      BY <1>2, <3>3 DEF CpuState, Spared
    <3> QED BY <3>1, <3>4, <3>5, <3>6, <3>7
  <2>4. WrittenOver(m, mem', Lower(s.SP), s.PC)
    BY <1>1, <1>3, <1>8, <2>1, Pushes, LevelsAreSlots
  <2>5. Countable => m[Ticks] + 1 = raised + Counts(guest, s)
    BY <1>1, <1>4, <1>8
  <2>6. s.iff1 /\ ~s.halted /\ line' /\ panicked' = panicked
    BY <1>3, <1>8
  <2> HIDE DEF s, Ticks
  <2>7. guest' = guest /\ raised' = raised /\ output' \in Signals /\ m \in Store
    BY <1>1
  <2> QED BY <1>4, <1>5, <2>3, <2>4, <2>5, <2>6, <2>7, TakesInterrupt, Zenon
<1>9. CASE /\ line' /\ t.iff1 /\ t.interrupt_mode # "one"
  BY <1>1, <1>9 DEF Sane
<1> QED BY <1>1, <1>6, <1>7, <1>8, <1>9 DEF Finish

-----------------------------------------------------------------------------
(***************************************************************************)
(* The handler.                                                            *)
(***************************************************************************)
\* The memory of every guest holds the code and the data of its program.
Loaded ==
  /\ Guests \subseteq [program : Programs, x : Byte, y : Byte]
  /\ \A g \in Guests : Code(g) = GuestCode(g) /\ Data(g) = GuestData(g)

\* What the machine executes is the guest's program, with its operands.
LEMMA GuestIs ==
  ASSUME Loaded, guest \in Guests
  PROVE  /\ guest.program \in Programs
         /\ guest.x \in Byte /\ guest.y \in Byte
         /\ Insn = CodeOf[guest.program][cpu.PC]
<1>1. guest \in [program : Programs, x : Byte, y : Byte] /\ Code(guest) = GuestCode(guest)
  BY DEF Loaded
<1>2. guest.program \in Programs /\ guest.x \in Byte /\ guest.y \in Byte
  BY <1>1
<1>3. Insn = CodeOf[guest.program][cpu.PC]
  BY <1>1 DEF Insn, GuestCode
<1> QED BY <1>2, <1>3

\* The instructions at the shared lines.
LEMMA CommonCode ==
  ASSUME Loaded, guest \in Guests
  PROVE  /\ cpu.PC = 0 => Insn = Plain("ei", 1)
         /\ cpu.PC = 1 => Insn = Im("one")
         /\ cpu.PC = 3 => Insn = Jp("jp", "always", 256)
         /\ cpu.PC = 8 => Insn = Ret("always")
         /\ cpu.PC = 56 => Insn = OnPair("push", "AF")
         /\ cpu.PC = 57 => Insn = OnPair("push", "HL")
         /\ cpu.PC = 58 => Insn = LdWide(RR("HL"), NN(Ticks), 3)
         /\ cpu.PC = 61 => Insn = OnByte("inc", Mem("HL", 0), 1)
         /\ cpu.PC = 62 => Insn = OnPort("in_a_(n)", Acknowledge)
         /\ cpu.PC = 64 => Insn = OnPair("pop", "HL")
         /\ cpu.PC = 65 => Insn = OnPair("pop", "AF")
         /\ cpu.PC = 66 => Insn = Plain("ei", 1)
         /\ cpu.PC = 67 => Insn = Plain("reti", 2)
<1>1. PICK p \in DOMAIN Listing : p = guest.program
  BY GuestIs DEF Programs
<1>2. Insn = CodeOf[p][cpu.PC]
  BY <1>1, GuestIs
<1> DEFINE boot == Assemble(0, Boot)
           handler == Assemble(56, Handler)
<1>3. /\ \A w \in {0, 1, 3} : CodeOf[p][w] = boot[w]
      /\ CodeOf[p][8] = Ret("always")
      /\ \A w \in HandlerLines : CodeOf[p][w] = handler[w]
  BY CommonLines
<1>4. boot[0] = Plain("ei", 1) /\ boot[1] = Im("one") /\ boot[3] = Jp("jp", "always", 256)
  BY BootCode
<1> HIDE DEF boot, handler, Ticks
<1>5. /\ handler[56] = OnPair("push", "AF") /\ handler[57] = OnPair("push", "HL")
      /\ handler[58] = LdWide(RR("HL"), NN(Ticks), 3)
      /\ handler[61] = OnByte("inc", Mem("HL", 0), 1)
      /\ handler[62] = OnPort("in_a_(n)", Acknowledge)
      /\ handler[64] = OnPair("pop", "HL") /\ handler[65] = OnPair("pop", "AF")
      /\ handler[66] = Plain("ei", 1) /\ handler[67] = Plain("reti", 2)
  BY HandlerCode, Zenon DEF handler
<1>6. /\ cpu.PC = 0 => Insn = Plain("ei", 1)
      /\ cpu.PC = 1 => Insn = Im("one")
      /\ cpu.PC = 3 => Insn = Jp("jp", "always", 256)
      /\ cpu.PC = 8 => Insn = Ret("always")
  BY <1>2, <1>3, <1>4
<1>7. cpu.PC \in HandlerLines => Insn = handler[cpu.PC]
  BY <1>2, <1>3
<1>8. /\ cpu.PC = 56 => Insn = OnPair("push", "AF")
      /\ cpu.PC = 57 => Insn = OnPair("push", "HL")
      /\ cpu.PC = 58 => Insn = LdWide(RR("HL"), NN(Ticks), 3)
      /\ cpu.PC = 61 => Insn = OnByte("inc", Mem("HL", 0), 1)
  BY <1>5, <1>7 DEF HandlerLines
<1>9. /\ cpu.PC = 62 => Insn = OnPort("in_a_(n)", Acknowledge)
      /\ cpu.PC = 64 => Insn = OnPair("pop", "HL")
      /\ cpu.PC = 65 => Insn = OnPair("pop", "AF")
      /\ cpu.PC = 66 => Insn = Plain("ei", 1)
      /\ cpu.PC = 67 => Insn = Plain("reti", 2)
  BY <1>5, <1>7 DEF HandlerLines
<1> QED BY <1>6, <1>8, <1>9

\* From line to line of the handler, the program's registers and memory stay as they are.
LEMMA HandlerGoesOn ==
  ASSUME Others, NEW u \in CpuState, NEW v \in Store, Sane(u), Asserted(guest, u, v, output),
         NEW t, NEW m \in Store, Finish(t, m), UNCHANGED <<guest, raised, output>>,
         line' \in BOOLEAN, Serving(t, m, line', u, v),
         Countable => m[Ticks] + (IF line' /\ t.PC # 62 THEN 1 ELSE 0) = raised + Counts(guest, u)
  PROVE  GuestInv'
<1>1. t \in CpuState /\ ~t.iff1 /\ ~t.halted
  BY DEF Serving
<1>2. [t EXCEPT !.halted = FALSE] = t
  <2>1. t.halted = FALSE
    BY <1>1, StateParts
  <2> QED BY <1>1, <2>1 DEF CpuState
<1>3. cpu' = t /\ mem' = m /\ panicked' = panicked
  <2> HIDE DEF Ticks
  <2>1. CASE ~line' /\ cpu' = t /\ mem' = m /\ UNCHANGED panicked
    BY <2>1
  <2>2. CASE cpu' = [t EXCEPT !.halted = FALSE] /\ mem' = m /\ UNCHANGED panicked
    BY <1>2, <2>2, Zenon
  <2>3. ~t.iff1
    BY <1>1
  <2> QED BY <2>1, <2>2, <2>3, Zenon DEF Finish
<1>4. Interrupted(u, v)'
  <2>1. Serving(cpu', mem', line', u, v)
    BY <1>3
  <2> QED BY <2>1 DEF Interrupted
<1>5. Countable => mem'[Ticks] + (IF line' /\ cpu'.PC # 62 THEN 1 ELSE 0)
                     = raised' + Counts(guest', u)
  BY <1>3
<1>6. /\ guest' \in Guests /\ mem' \in Store /\ line' \in BOOLEAN /\ raised' \in 0 .. Raises
      /\ output' \in Signals /\ panicked' = FALSE /\ (cpu'.halted => ~line')
  BY <1>1, <1>3 DEF Others
<1>7. \E s \in CpuState, w \in Store :
        /\ Sane(s) /\ Asserted(guest', s, w, output')
        /\ (cpu' = s /\ mem' = w) \/ Interrupted(s, w)'
        /\ Countable => mem'[Ticks] + (IF line' /\ cpu'.PC # 62 THEN 1 ELSE 0)
                          = raised' + Counts(guest', s)
  BY <1>4, <1>5
<1> QED BY <1>6, <1>7 DEF GuestInv, Counted, Pending, Signals

\* The stack of the handler.
LEMMA HandlerStack ==
  ASSUME NEW u, u.SP \in Levels
  PROVE  /\ Top(u) \in {65536, 65534, 65532}
         /\ \A k \in {2, 4, 6} : /\ Top(u) - k \in Slots \ {0}
                                 /\ Top(u) - k \in Cells /\ Top(u) - k + 1 \in Cells
                                 /\ Top(u) - k \in Scratch(u) /\ Top(u) - k + 1 \in Scratch(u)
                                 /\ Top(u) - k # Ticks /\ Top(u) - k + 1 # Ticks
         /\ Lower(Top(u) - 2) = Top(u) - 4 /\ Lower(Top(u) - 4) = Top(u) - 6
         /\ Higher(Top(u) - 6) = Top(u) - 4 /\ Higher(Top(u) - 4) = Top(u) - 2
         /\ Higher(Top(u) - 2) = u.SP
         /\ Ticks \in Cells /\ Ticks \in Words
<1>1. Top(u) \in {65536, 65534, 65532} /\ (Top(u) = IF u.SP = 0 THEN 65536 ELSE u.SP)
  BY DEF Levels, Top
<1>2. PICK top \in {65536, 65534, 65532} : top = Top(u)
  BY <1>1
<1>3. \A k \in {2, 4, 6} : /\ top - k \in Slots \ {0}
                           /\ top - k \in Cells /\ top - k + 1 \in Cells
                           /\ top - k \in Scratch(u) /\ top - k + 1 \in Scratch(u)
                           /\ top - k # Ticks /\ top - k + 1 # Ticks
  BY <1>2 DEF Slots, Cells, Stack, Scratch
<1>4. /\ Lower(top - 2) = top - 4 /\ Lower(top - 4) = top - 6
      /\ Higher(top - 6) = top - 4 /\ Higher(top - 4) = top - 2
      /\ Higher(top - 2) = u.SP
  BY <1>1, <1>2 DEF Lower, Higher, Levels
<1>5. Ticks \in Cells /\ Ticks \in Words
  BY WordIs DEF Cells
<1> QED BY <1>2, <1>3, <1>4, <1>5

\* Its first half saves the program's registers and counts.
LEMMA HandlerSaves ==
  ASSUME Loaded, Others, NEW u \in CpuState, NEW v \in Store, mem \in Store, Sane(u),
         Asserted(guest, u, v, output), Interrupted(u, v), Countable => Counted(u), Step,
         cpu.PC \in {56, 57, 58}
  PROVE  GuestInv'
<1> DEFINE top == Top(u)
           Saving(k, t, m) ==
             /\ Finish(t, m) /\ UNCHANGED <<guest, raised, output>> /\ line' = line
             /\ m \in Store
             /\ Serving(t, m, line', u, v) /\ m[Ticks] = mem[Ticks] /\ t.PC = k
<1>1. Serving(cpu, mem, line, u, v)
  BY DEF Interrupted
<1>2. Calm /\ line = TRUE
  BY <1>1 DEF Serving, Calm, Others
<1>3. u.SP \in Levels
  BY DEF Sane
<1>4. /\ cpu \in CpuState /\ cpu.SP = top - Depth(cpu.PC) /\ Spared(cpu, u)
      /\ ~cpu.iff1 /\ ~cpu.iff2 /\ ~cpu.halted /\ u.iff1 /\ ~u.halted
      /\ Alike(u, v, mem) /\ Holds(mem, top - 2, u.PC)
      /\ cpu.PC = 56 => cpu.A = u.A /\ cpu.F = u.F
      /\ cpu.PC # 56 => mem[top - 3] = u.A /\ mem[top - 4] = FlagByte(u.F)
      /\ cpu.PC = 58 => Holds(mem, top - 6, u.HL)
      /\ cpu.PC # 58 => cpu.HL = u.HL
  BY <1>1 DEF Serving
<1>5. /\ Plus(56, 1) = 57 /\ Plus(57, 1) = 58 /\ Plus(58, 3) = 61
  BY DEF Plus
<1>6. ASSUME NEW m, NEW c \in Scratch(u), c + 1 \in Scratch(u), NEW w, Written(m, c, w)
      PROVE  Alike(u, v, m)
  BY <1>4, <1>6 DEF Alike, Written, WrittenOver
<1>7. ASSUME cpu.PC = 56 PROVE \E t, m : Saving(57, t, m)
  <2>1. Insn = OnPair("push", "AF")
    BY <1>7, CommonCode DEF Others
  <2>2. cpu.SP = top - 2
    BY <1>4, <1>7 DEF Depth
  <2>3. PICK w \in Words : w = WideRegister(cpu, "AF")
    BY <1>4, WordOfPair
  <2>4. High(w) = u.A /\ Low(w) = FlagByte(u.F)
    <3>1. w = 256 * cpu.A + FlagByte(cpu.F)
      BY <2>3 DEF WideRegister
    <3> QED BY <1>4, <1>7, <3>1, StateParts, FlagsAreByte, WordOfHalves
  <2>5. cpu.SP \in Slots
    BY <1>3, <2>2, HandlerStack
  <2>6. PICK t, m : /\ Moves(t, m) /\ Written(m, Lower(cpu.SP), w)
                    /\ Becomes(t, Plus(cpu.PC, 1), Lower(cpu.SP), cpu.A, cpu.F, cpu.BC, cpu.DE,
                               cpu.HL)
    BY <1>2, <2>1, <2>3, <2>5, PushesPair
  <2>7. Lower(cpu.SP) = top - 4 /\ Plus(cpu.PC, 1) = 57
    BY <1>3, <1>5, <1>7, <2>2, HandlerStack
  <2>8. Written(m, top - 4, w) /\ Becomes(t, 57, top - 4, cpu.A, cpu.F, cpu.BC, cpu.DE, cpu.HL)
    BY <2>6, <2>7
  <2>9. Alike(u, v, m)
    BY <1>3, <1>6, <2>8, HandlerStack
  <2>10. Holds(m, top - 2, u.PC) /\ m[top - 3] = u.A /\ m[top - 4] = FlagByte(u.F)
    <3>1. m[top - 4] = Low(w) /\ m[top - 4 + 1] = High(w)
      BY <2>8 DEF Written, WrittenOver, Holds
    <3>2. top \in Int
      BY <1>3, HandlerStack
    <3>3. top - 4 + 1 = top - 3
      BY <3>2
    <3>4. m[top - 2] = mem[top - 2] /\ m[top - 2 + 1] = mem[top - 2 + 1]
      <4>1. top - 2 \in Cells \ {top - 4, top - 4 + 1}
            /\ top - 2 + 1 \in Cells \ {top - 4, top - 4 + 1}
        BY <1>3, <3>2, HandlerStack
      <4> QED BY <2>8, <4>1 DEF Written, WrittenOver
    <3> QED BY <1>4, <2>4, <3>1, <3>3, <3>4 DEF Holds
  <2>11. m[Ticks] = mem[Ticks]
    BY <1>3, <2>8, HandlerStack DEF Written, WrittenOver
  <2>12. Serving(t, m, line', u, v)
    BY <1>2, <1>4, <1>7, <2>6, <2>8, <2>9, <2>10 DEF Serving, Becomes, Spared, HandlerLines,
       Depth, Moves
  <2> QED BY <2>6, <2>8, <2>11, <2>12 DEF Moves, Becomes, Written, WrittenOver
<1>8. ASSUME cpu.PC = 57 PROVE \E t, m : Saving(58, t, m)
  <2>1. Insn = OnPair("push", "HL")
    BY <1>8, CommonCode DEF Others
  <2>2. cpu.SP = top - 4
    BY <1>4, <1>8 DEF Depth
  <2>3. u.HL \in Words /\ WideRegister(cpu, "HL") = u.HL
    BY <1>4, <1>8, StateParts DEF WideRegister
  <2>4. cpu.SP \in Slots
    BY <1>3, <2>2, HandlerStack
  <2>5. PICK t, m : /\ Moves(t, m) /\ Written(m, Lower(cpu.SP), u.HL)
                    /\ Becomes(t, Plus(cpu.PC, 1), Lower(cpu.SP), cpu.A, cpu.F, cpu.BC, cpu.DE,
                               cpu.HL)
    BY <1>2, <2>1, <2>3, <2>4, PushesPair
  <2>6. Lower(cpu.SP) = top - 6 /\ Plus(cpu.PC, 1) = 58
    BY <1>3, <1>5, <1>8, <2>2, HandlerStack
  <2>7. Written(m, top - 6, u.HL) /\ Becomes(t, 58, top - 6, cpu.A, cpu.F, cpu.BC, cpu.DE, cpu.HL)
    BY <2>5, <2>6
  <2>8. Alike(u, v, m)
    BY <1>3, <1>6, <2>7, HandlerStack
  <2>9. Holds(m, top - 2, u.PC) /\ m[top - 3] = u.A /\ m[top - 4] = FlagByte(u.F)
    <3>1. top \in Int /\ top - 4 + 1 = top - 3
      BY <1>3, HandlerStack
    <3>2. \A c \in {top - 2, top - 2 + 1, top - 4, top - 3} :
            c \in Cells \ {top - 6, top - 6 + 1}
      BY <1>3, <3>1, HandlerStack
    <3>3. \A c \in {top - 2, top - 2 + 1, top - 4, top - 3} : m[c] = mem[c]
      BY <2>7, <3>2 DEF Written, WrittenOver
    <3> QED BY <1>4, <1>8, <3>3 DEF Holds
  <2>10. m[Ticks] = mem[Ticks] /\ Holds(m, top - 6, u.HL)
    BY <1>3, <2>7, HandlerStack DEF Written, WrittenOver
  <2>11. Serving(t, m, line', u, v)
    BY <1>2, <1>4, <1>8, <2>5, <2>7, <2>8, <2>9, <2>10
       DEF Serving, Becomes, Spared, HandlerLines, Depth, Moves
  <2> QED BY <2>5, <2>7, <2>10, <2>11 DEF Moves, Becomes, Written, WrittenOver
<1>9. ASSUME cpu.PC = 58 PROVE \E t, m : Saving(61, t, m)
  <2>1. Insn = LdWide(RR("HL"), NN(Ticks), 3)
    BY <1>9, CommonCode DEF Others
  <2>2. PICK t : /\ Moves(t, mem)
                 /\ Becomes(t, 61, cpu.SP, cpu.A, cpu.F, cpu.BC, cpu.DE, Ticks)
    <3>1. Ticks \in Words
      BY WordIs
    <3>2. Plus(cpu.PC, 3) = 61
      BY <1>5, <1>9
    <3> HIDE DEF Ticks
    <3> QED BY <1>2, <2>1, <3>1, <3>2, LoadsPair
  <2>3. Serving(t, mem, line', u, v)
    BY <1>2, <1>4, <1>9, <2>2 DEF Serving, Becomes, Spared, HandlerLines, Depth, Moves
  <2> QED BY <2>2, <2>3 DEF Moves, Becomes
<1>10. PICK t, m : \E k \in {57, 58, 61} : Saving(k, t, m)
  <2> HIDE DEF Saving
  <2> QED BY <1>7, <1>8, <1>9
<1>11. Countable => m[Ticks] + (IF line' /\ t.PC # 62 THEN 1 ELSE 0) = raised + Counts(guest, u)
  BY <1>2, <1>10 DEF Counted, Pending
<1>12. /\ Finish(t, m) /\ UNCHANGED <<guest, raised, output>> /\ line' \in BOOLEAN
       /\ m \in Store /\ Serving(t, m, line', u, v)
  BY <1>2, <1>10
<1> HIDE DEF Ticks
<1> QED BY <1>11, <1>12, HandlerGoesOn, Zenon

\* Then it counts the interrupt and acknowledges it.
LEMMA HandlerCounts ==
  ASSUME Loaded, Others, NEW u \in CpuState, NEW v \in Store, mem \in Store, Sane(u),
         Asserted(guest, u, v, output), Interrupted(u, v), Countable => Counted(u), Step,
         cpu.PC \in {61, 62}
  PROVE  GuestInv'
<1> DEFINE top == Top(u)
<1>1. Serving(cpu, mem, line, u, v)
  BY DEF Interrupted
<1>2. Calm /\ line = TRUE
  BY <1>1 DEF Serving, Calm, Others
<1>3. u.SP \in Levels
  BY DEF Sane
<1>4. /\ cpu \in CpuState /\ cpu.SP = top - 6 /\ Spared(cpu, u)
      /\ ~cpu.iff1 /\ ~cpu.iff2 /\ ~cpu.halted /\ u.iff1 /\ ~u.halted
      /\ Alike(u, v, mem) /\ Holds(mem, top - 2, u.PC)
      /\ mem[top - 3] = u.A /\ mem[top - 4] = FlagByte(u.F)
      /\ Holds(mem, top - 6, u.HL) /\ cpu.HL = Ticks
  BY <1>1 DEF Serving, Depth
<1>5. Plus(61, 1) = 62 /\ Plus(62, 2) = 64
  BY DEF Plus
<1>6. CASE cpu.PC = 61
  <2>1. Insn = OnByte("inc", Mem("HL", 0), 1)
    BY <1>6, CommonCode DEF Others
  <2>2. cpu.HL \in Cells
    BY <1>3, <1>4, HandlerStack
  <2>3. PICK t, m : \E f \in SUBSET Flags :
          /\ Moves(t, m) /\ ByteWritten(m, cpu.HL, (mem[cpu.HL] + 1) % 256)
          /\ Becomes(t, Plus(cpu.PC, 1), cpu.SP, cpu.A, f, cpu.BC, cpu.DE, cpu.HL)
    <3> HIDE DEF Ticks
    <3>1. mem \in Store
      OBVIOUS
    <3> QED BY <1>2, <2>1, <2>2, <3>1, IncrementsAtHL
  <2>4. PICK f \in SUBSET Flags :
          /\ Moves(t, m) /\ ByteWritten(m, Ticks, (mem[Ticks] + 1) % 256)
          /\ Becomes(t, 62, cpu.SP, cpu.A, f, cpu.BC, cpu.DE, cpu.HL)
    <3> HIDE DEF Ticks
    <3> QED BY <1>4, <1>5, <1>6, <2>3
  <2>5. \A c \in Cells : c = Ticks \/ m[c] = mem[c]
    BY <2>4 DEF ByteWritten
  <2>6. Alike(u, v, m)
    BY <1>4, <2>5 DEF Alike
  <2>7. /\ Holds(m, top - 2, u.PC) /\ Holds(m, top - 6, u.HL)
        /\ m[top - 3] = u.A /\ m[top - 4] = FlagByte(u.F)
    <3>1. top \in Int /\ top - 4 + 1 = top - 3
      BY <1>3, HandlerStack
    <3>2. \A c \in {top - 2, top - 2 + 1, top - 4, top - 4 + 1, top - 6, top - 6 + 1} :
            c \in Cells /\ c # Ticks
      BY <1>3, HandlerStack
    <3>3. \A c \in {top - 2, top - 2 + 1, top - 4, top - 3, top - 6, top - 6 + 1} : m[c] = mem[c]
      BY <2>5, <3>1, <3>2
    <3> QED BY <1>4, <3>3 DEF Holds
  <2>8. Serving(t, m, line', u, v)
    BY <1>2, <1>4, <1>6, <2>4, <2>6, <2>7 DEF Serving, Becomes, Spared, HandlerLines, Depth, Moves
  <2>9. Countable => m[Ticks] + (IF line' /\ t.PC # 62 THEN 1 ELSE 0) = raised + Counts(guest, u)
    <3>1. SUFFICES ASSUME Countable PROVE m[Ticks] = raised + Counts(guest, u)
      <4>1. t.PC = 62 /\ m[Ticks] \in Int
        <5>1. m[Ticks] \in Byte
          BY <1>4, <2>2, <2>4 DEF Becomes, ByteWritten, Store
        <5> QED BY <2>4, <5>1, ByteIs DEF Becomes
      <4> QED BY <4>1
    <3>2. mem[Ticks] + 1 = raised + Counts(guest, u)
      BY <1>2, <1>6, <3>1 DEF Counted, Pending
    <3>3. raised \in Int /\ raised < 255 /\ Counts(guest, u) \in {0, 1}
      BY <3>1, RaisesAssumption DEF Others, Countable, Counts
    <3>4. mem[Ticks] \in Int /\ 0 <= mem[Ticks] /\ mem[Ticks] + 1 <= 255
      <4>1. mem[Ticks] \in Byte
        BY <2>2, <1>4 DEF Store
      <4> QED BY <3>2, <3>3, <4>1, ByteIs
    <3>5. m[Ticks] = (mem[Ticks] + 1) % 256
      BY <2>4 DEF ByteWritten
    <3> QED BY <3>2, <3>4, <3>5
  <2>10. /\ Finish(t, m) /\ UNCHANGED <<guest, raised, output>> /\ line' \in BOOLEAN
        /\ m \in Store
    BY <1>2, <2>4 DEF Moves, ByteWritten
  <2> HIDE DEF Ticks
  <2> QED BY <2>8, <2>9, <2>10, HandlerGoesOn, Zenon
<1>7. CASE cpu.PC = 62
  <2>1. Insn = OnPort("in_a_(n)", Acknowledge)
    <3> HIDE DEF Ticks
    <3> QED BY <1>7, CommonCode DEF Others
  <2>2. PICK t : \E data \in Byte :
          /\ Receives(t, mem, Acknowledge)
          /\ Becomes(t, 64, cpu.SP, data, cpu.F, cpu.BC, cpu.DE, cpu.HL)
    <3> HIDE DEF Ticks
    <3>1. Plus(cpu.PC, 2) = 64
      BY <1>5, <1>7
    <3> QED BY <1>2, <2>1, <3>1, ReadsA
  <2>3. ~line' /\ line' \in BOOLEAN
    BY <2>2 DEF Receives
  <2>4. Serving(t, mem, line', u, v)
    BY <1>2, <1>4, <1>7, <2>2 DEF Serving, Becomes, Spared, HandlerLines, Depth
  <2>5. Countable => mem[Ticks] + (IF line' /\ t.PC # 62 THEN 1 ELSE 0) = raised + Counts(guest, u)
    BY <1>7, <2>3 DEF Counted, Pending
  <2>6. Finish(t, mem) /\ UNCHANGED <<guest, raised, output>>
    BY <2>2 DEF Receives
  <2> HIDE DEF Ticks
  <2> QED BY <2>3, <2>4, <2>5, <2>6, HandlerGoesOn, Zenon
<1> QED BY <1>6, <1>7

\* And at last it restores the program's registers.
LEMMA HandlerRestores ==
  ASSUME Loaded, Others, NEW u \in CpuState, NEW v \in Store, mem \in Store, Sane(u),
         Asserted(guest, u, v, output), Interrupted(u, v), Countable => Counted(u), Step,
         cpu.PC \in {64, 65, 66}
  PROVE  GuestInv'
<1> DEFINE top == Top(u)
           Restoring(k, t) ==
             /\ Finish(t, mem) /\ UNCHANGED <<guest, raised, output>> /\ line' = line
             /\ Serving(t, mem, line', u, v) /\ t.PC = k
<1>1. Serving(cpu, mem, line, u, v)
  BY DEF Interrupted
<1>2. Calm /\ line \in BOOLEAN
  BY <1>1 DEF Serving, Calm, Others
<1>3. u.SP \in Levels
  BY DEF Sane
<1>4. /\ cpu \in CpuState /\ cpu.SP = top - Depth(cpu.PC) /\ Spared(cpu, u)
      /\ ~cpu.iff1 /\ ~cpu.iff2 /\ ~cpu.halted /\ u.iff1 /\ ~u.halted
      /\ Alike(u, v, mem) /\ Holds(mem, top - 2, u.PC)
      /\ cpu.PC = 66 => cpu.A = u.A /\ cpu.F = u.F
      /\ cpu.PC # 66 => mem[top - 3] = u.A /\ mem[top - 4] = FlagByte(u.F)
      /\ cpu.PC = 64 => Holds(mem, top - 6, u.HL)
      /\ cpu.PC # 64 => cpu.HL = u.HL
  BY <1>1 DEF Serving
<1>5. Plus(64, 1) = 65 /\ Plus(65, 1) = 66 /\ Plus(66, 1) = 67
  BY DEF Plus
<1>6. ASSUME cpu.PC = 64 PROVE \E t : Restoring(65, t)
  <2>1. Insn = OnPair("pop", "HL")
    BY <1>6, CommonCode DEF Others
  <2>2. cpu.SP = top - 6 /\ cpu.SP \in Slots \ {0} /\ Higher(cpu.SP) = top - 4
    BY <1>3, <1>4, <1>6, HandlerStack DEF Depth
  <2>3. u.HL \in Words /\ Holds(mem, cpu.SP, u.HL)
    BY <1>4, <1>6, <2>2, StateParts
  <2>4. PICK t : /\ Moves(t, mem)
                 /\ Becomes(t, 65, top - 4, cpu.A, cpu.F, cpu.BC, cpu.DE, u.HL)
    BY <1>2, <1>5, <1>6, <2>1, <2>2, <2>3, PopsPair
  <2>5. Serving(t, mem, line', u, v)
    BY <1>2, <1>4, <1>6, <2>4 DEF Serving, Becomes, Spared, HandlerLines, Depth, Moves
  <2> QED BY <2>4, <2>5 DEF Moves, Becomes
<1>7. ASSUME cpu.PC = 65 PROVE \E t : Restoring(66, t)
  <2>1. Insn = OnPair("pop", "AF")
    BY <1>7, CommonCode DEF Others
  <2>2. cpu.SP = top - 4 /\ cpu.SP \in Slots \ {0} /\ Higher(cpu.SP) = top - 2
    BY <1>3, <1>4, <1>7, HandlerStack DEF Depth
  <2>3. mem[cpu.SP + 1] = u.A /\ FlagsOf(mem[cpu.SP]) = u.F
    <3>1. cpu.SP + 1 = top - 3
      BY <1>3, <2>2, HandlerStack
    <3>2. FlagsOf(FlagByte(u.F)) = u.F
      BY StateParts, FlagsComeBack
    <3> QED BY <1>4, <1>7, <2>2, <3>1, <3>2
  <2>4. PICK t : /\ Moves(t, mem)
                 /\ Becomes(t, 66, top - 2, u.A, u.F, cpu.BC, cpu.DE, cpu.HL)
    BY <1>2, <1>5, <1>7, <2>1, <2>2, <2>3, PopsFlags
  <2>5. Serving(t, mem, line', u, v)
    BY <1>2, <1>4, <1>7, <2>4 DEF Serving, Becomes, Spared, HandlerLines, Depth, Moves
  <2> QED BY <2>4, <2>5 DEF Moves, Becomes
<1>8. ASSUME cpu.PC = 66 PROVE \E t : Restoring(67, t)
  <2>1. Insn = Plain("ei", 1)
    BY <1>8, CommonCode DEF Others
  <2>2. PICK s, t : /\ Becomes(s, 67, cpu.SP, cpu.A, cpu.F, cpu.BC, cpu.DE, cpu.HL)
                    /\ t = [s EXCEPT !.enable_interrupts_next_cycle = TRUE]
                    /\ Moves(t, mem)
    BY <1>2, <1>5, <1>8, <2>1, WillEnable
  <2>3. /\ t \in CpuState /\ t.PC = 67 /\ t.SP = cpu.SP /\ t.A = cpu.A /\ t.F = cpu.F
        /\ t.HL = cpu.HL /\ t.halted = cpu.halted /\ t.iff1 = cpu.iff1 /\ t.iff2 = cpu.iff2
        /\ t.enable_interrupts_next_cycle = TRUE /\ Spared(t, cpu)
    BY <2>2 DEF Becomes, CpuState, Spared
  <2>4. Serving(t, mem, line', u, v)
    BY <1>2, <1>4, <1>8, <2>2, <2>3 DEF Serving, Spared, HandlerLines, Depth, Moves
  <2> QED BY <2>2, <2>3, <2>4 DEF Moves
<1>9. PICK t : \E k \in {65, 66, 67} : Restoring(k, t)
  <2> HIDE DEF Restoring
  <2> QED BY <1>6, <1>7, <1>8
<1>10. Countable => mem[Ticks] + (IF line' /\ t.PC # 62 THEN 1 ELSE 0) = raised + Counts(guest, u)
  BY <1>9 DEF Counted, Pending
<1>11. /\ Finish(t, mem) /\ UNCHANGED <<guest, raised, output>> /\ line' \in BOOLEAN
       /\ Serving(t, mem, line', u, v)
  BY <1>2, <1>9
<1> HIDE DEF Ticks
<1> QED BY <1>10, <1>11, HandlerGoesOn, Zenon

\* RETI puts the program back to where it was, and another interrupt may come at once.
LEMMA HandlerReturns ==
  ASSUME Loaded, Others, NEW u \in CpuState, NEW v \in Store, mem \in Store, Sane(u),
         Asserted(guest, u, v, output), Interrupted(u, v), Countable => Counted(u), Step,
         cpu.PC = 67
  PROVE  GuestInv'
<1> DEFINE top == Top(u)
<1>1. Serving(cpu, mem, line, u, v)
  BY DEF Interrupted
<1>2. u.SP \in Levels
  BY DEF Sane
<1>3. /\ cpu \in CpuState /\ cpu.SP = top - 2 /\ Spared(cpu, u)
      /\ ~cpu.halted /\ u.iff1 /\ ~u.halted /\ cpu.enable_interrupts_next_cycle
      /\ Alike(u, v, mem) /\ Holds(mem, top - 2, u.PC)
      /\ cpu.A = u.A /\ cpu.F = u.F /\ cpu.HL = u.HL
  BY <1>1 DEF Serving, Depth
<1>4. Insn = Plain("reti", 2)
  BY CommonCode DEF Others
<1>5. cpu.SP \in Slots \ {0} /\ Higher(cpu.SP) = u.SP
  BY <1>2, <1>3, HandlerStack
<1>6. u.PC \in Words /\ Holds(mem, cpu.SP, u.PC)
  BY <1>3, StateParts
<1>7. PICK t : /\ Moves(t, mem) /\ t \in CpuState
               /\ t.PC = u.PC /\ t.SP = Higher(cpu.SP) /\ t.A = cpu.A /\ t.F = cpu.F
               /\ t.HL = cpu.HL /\ t.halted = cpu.halted /\ Spared(t, cpu)
               /\ t.iff1 /\ t.iff2 /\ ~t.enable_interrupts_next_cycle
  BY <1>3, <1>4, <1>5, <1>6, LeavesHandler
<1>8. t = u
  <2>1. u.iff1 = TRUE /\ u.iff2 = TRUE /\ u.enable_interrupts_next_cycle = FALSE /\ u.halted = FALSE
    BY <1>3, StateParts DEF Sane
  <2>2. t.iff1 = TRUE /\ t.iff2 = TRUE /\ t.enable_interrupts_next_cycle = FALSE /\ t.halted = FALSE
    BY <1>3, <1>7, StateParts
  <2>3. /\ t.PC = u.PC /\ t.SP = u.SP /\ t.A = u.A /\ t.F = u.F /\ t.BC = u.BC /\ t.DE = u.DE
        /\ t.HL = u.HL /\ t.IX = u.IX /\ t.IY = u.IY /\ t.I = u.I /\ t.prime = u.prime
        /\ t.interrupt_mode = u.interrupt_mode
    BY <1>3, <1>5, <1>7 DEF Spared
  <2> QED BY <1>7, <2>1, <2>2, <2>3 DEF CpuState
<1>9. Asserted(guest, u, mem, output)
  BY <1>2, <1>3, Untouched DEF Others
<1>10. Countable => mem[Ticks] + (IF line' THEN 1 ELSE 0) = raised + Counts(guest, u)
  BY <1>7 DEF Counted, Pending, Moves
<1>11. Leads(u, mem)
  BY <1>7, <1>8, <1>9, <1>10 DEF Leads, Moves, Others
<1> QED BY <1>11, Settles

\* The machine steps only while it runs, and an interrupt is raised only then.
LEMMA StepRuns ==
  ASSUME Step
  PROVE  Running
  BY DEF Step, Load, LoadWide, LoadAI, ExchangeAF, ExchangeExtra, ExchangeDEHL, ArithmeticA,
         AccumulatorOnly, Increment, Decrement, ShiftOperand, ResetOperand, SetOperand, Update,
         TestOperand, RotateDigits, CountWide, ArithmeticPair, Jump, JumpRelative, JumpIndirect,
         Djnz, Call, Return, ReturnFromInterrupt, Reset, PushRegister, Pop, ExchangeStack,
         BlockCopy, BlockSearch, Input, Output, Nop, Halt, DisableInterrupts,
         EnableInterrupts, SetInterruptMode, Execute

\* An interrupt is raised between two instructions, and has still to be served.
LEMMA Raised ==
  ASSUME GuestInv, Raise, guest.program \in Programs
  PROVE  GuestInv'
<1>1. /\ guest \in Guests /\ mem \in Store /\ raised \in 0 .. Raises
      /\ output \in Seq([port : Byte, data : Byte]) /\ panicked = FALSE
  BY DEF GuestInv
<1>2. PICK u \in CpuState, v \in Store :
        /\ Sane(u) /\ Asserted(guest, u, v, output)
        /\ (cpu = u /\ mem = v) \/ Interrupted(u, v)
        /\ Countable => Counted(u)
  BY DEF GuestInv
<1>3. /\ line = FALSE /\ line' = TRUE /\ raised' = raised + 1 /\ raised < Raises
      /\ guest' = guest /\ cpu' = cpu /\ mem' = mem /\ output' = output
      /\ panicked' = panicked /\ ~cpu.halted
  <2>1. line \in BOOLEAN
    BY DEF GuestInv
  <2> QED BY <2>1 DEF Raise, Running
<1>4. cpu.PC # 62
  <2>1. CASE cpu = u
    BY <1>2, <2>1, Elsewhere DEF HandlerLines
  <2>2. CASE Interrupted(u, v)
    BY <1>3, <2>2 DEF Interrupted, Serving
  <2> QED BY <1>2, <2>1, <2>2
<1>5. (cpu' = u /\ mem' = v) \/ Interrupted(u, v)'
  <2>1. ASSUME Serving(cpu, mem, FALSE, u, v) PROVE Serving(cpu, mem, TRUE, u, v)
    BY <2>1 DEF Serving
  <2> QED BY <1>2, <1>3, <2>1 DEF Interrupted
<1>6. Countable => mem'[Ticks] + (IF line' /\ cpu'.PC # 62 THEN 1 ELSE 0)
                     = raised' + Counts(guest', u)
  <2>1. SUFFICES ASSUME Countable PROVE mem[Ticks] + 1 = raised + 1 + Counts(guest, u)
    BY <1>3, <1>4
  <2>2. mem[Ticks] + 0 = raised + Counts(guest, u)
    BY <1>2, <1>3, <2>1 DEF Counted, Pending
  <2>3. mem[Ticks] \in Int
    <3>1. mem[Ticks] \in Byte
      BY <1>1 DEF Store, Cells
    <3> QED BY <3>1, ByteIs
  <2>4. Counts(guest, u) \in Int /\ raised \in Int
    BY <1>1, RaisesAssumption DEF Counts
  <2> QED BY <2>2, <2>3, <2>4
<1>7. raised' \in 0 .. Raises
  BY <1>1, <1>3, RaisesAssumption
<1>8. \E y \in CpuState, z \in Store :
        /\ Sane(y) /\ Asserted(guest', y, z, output')
        /\ (cpu' = y /\ mem' = z) \/ Interrupted(y, z)'
        /\ Countable => mem'[Ticks] + (IF line' /\ cpu'.PC # 62 THEN 1 ELSE 0)
                          = raised' + Counts(guest', y)
  <2> HIDE DEF Ticks
  <2>1. Asserted(guest', u, v, output')
    BY <1>2, <1>3
  <2> QED BY <1>2, <1>5, <1>6, <2>1
<1> QED BY <1>1, <1>3, <1>7, <1>8 DEF GuestInv, Counted, Pending

-----------------------------------------------------------------------------
(***************************************************************************)
(* From line to line of a program.                                         *)
(***************************************************************************)
\* The machine is between two instructions of a program, or of its boot.
Home ==
  /\ Others /\ mem \in Store /\ Sane(cpu) /\ cpu.PC \notin HandlerLines
  /\ Countable => Counted(cpu)

\* A program's step from one assertion to another.
LEMMA Arrives ==
  ASSUME Home, NEW t, NEW m \in Store, Finish(t, m), guest' = guest, raised' = raised,
         line' \in BOOLEAN, Countable => line' = line, output' \in Signals,
         Sane(t), Asserted(guest, t, m, output'),
         Countable => m[Ticks] + Counts(guest, cpu) = mem[Ticks] + Counts(guest, t)
  PROVE  GuestInv'
<1>1. mem[Ticks] \in Int /\ m[Ticks] \in Int
  <2>1. mem[Ticks] \in Byte /\ m[Ticks] \in Byte
    BY DEF Home, Store, Cells
  <2> QED BY <2>1, ByteIs
<1>2. Counts(guest, cpu) \in Int /\ Counts(guest, t) \in Int /\ raised \in Int
  BY RaisesAssumption DEF Counts, Home, Others
<1>3. Countable => m[Ticks] + (IF line' THEN 1 ELSE 0) = raised + Counts(guest, t)
  <2>1. cpu.PC # 62
    BY DEF Home, HandlerLines
  <2>2. SUFFICES ASSUME Countable
                 PROVE  m[Ticks] + (IF line' THEN 1 ELSE 0) = raised + Counts(guest, t)
    OBVIOUS
  <2>3. mem[Ticks] + (IF line THEN 1 ELSE 0) = raised + Counts(guest, cpu)
    BY <2>1, <2>2 DEF Home, Counted, Pending
  <2>4. line' = line /\ m[Ticks] + Counts(guest, cpu) = mem[Ticks] + Counts(guest, t)
    BY <2>2
  <2>5. PICK k \in Int : k = IF line THEN 1 ELSE 0
    OBVIOUS
  <2> QED BY <1>1, <1>2, <2>3, <2>4, <2>5
<1>4. Leads(t, m)
  BY <1>3 DEF Leads
<1> QED BY <1>4, Settles DEF Home

\* The registers stay sane.
LEMMA StaysSane ==
  ASSUME Sane(cpu), NEW t, NEW p, NEW q \in Levels, NEW a, NEW f, NEW b, NEW d, NEW h,
         Becomes(t, p, q, a, f, b, d, h)
  PROVE  Sane(t)
  BY DEF Sane, Becomes

\* A program goes on at another of its lines.
LEMMA GoesOn ==
  ASSUME Home, NEW t, NEW m \in Store, Moves(t, m), Sane(t), ProgramAt(guest, t, m, output),
         guest.program # "critical", m[Ticks] = mem[Ticks]
  PROVE  GuestInv'
<1>1. Counts(guest, cpu) = 0 /\ Counts(guest, t) = 0
  BY DEF Counts
<1>2. Asserted(guest, t, m, output')
  BY DEF Asserted, Moves
<1>3. /\ Finish(t, m) /\ guest' = guest /\ raised' = raised /\ line' = line
      /\ line' \in BOOLEAN /\ output' \in Signals
  BY DEF Moves, Home, Others
<1>4. Countable => m[Ticks] + Counts(guest, cpu) = mem[Ticks] + Counts(guest, t)
  BY <1>1
<1> HIDE DEF Ticks
<1> QED BY <1>2, <1>3, <1>4, Arrives

\* It goes on after it has written a byte.
LEMMA GoesOnWriting ==
  ASSUME Home, NEW t, NEW n \in Byte, NEW b \in Byte, Writes(t, n, b), Sane(t),
         ProgramAt(guest, t, mem, Append(output, [port |-> n, data |-> b])),
         guest.program # "critical"
  PROVE  GuestInv'
<1>1. Counts(guest, cpu) = 0 /\ Counts(guest, t) = 0
  BY DEF Counts
<1>2. Asserted(guest, t, mem, output')
  BY DEF Asserted, Writes
<1>3. output' \in Signals
  <2>1. output' = Append(output, [port |-> n, data |-> b]) /\ output \in Signals
    BY DEF Writes, Home, Others
  <2>2. [port |-> n, data |-> b] \in [port : Byte, data : Byte]
    OBVIOUS
  <2> QED BY <2>1, <2>2 DEF Signals
<1>4. /\ Finish(t, mem) /\ guest' = guest /\ raised' = raised /\ line' = line
      /\ line' \in BOOLEAN /\ mem \in Store
  BY DEF Writes, Home, Others
<1>5. Countable => mem[Ticks] + Counts(guest, cpu) = mem[Ticks] + Counts(guest, t)
  BY <1>1
<1> HIDE DEF Ticks
<1> QED BY <1>2, <1>3, <1>4, <1>5, Arrives

\* A byte at a port.
LEMMA AsSignal ==
  ASSUME NEW a \in Byte
  PROVE  \E s \in [port : Byte, data : Byte] : s = [port |-> KbPort, data |-> a] /\ s.data = a
<1>1. PICK s : s = [port |-> KbPort, data |-> a]
  OBVIOUS
<1>2. KbPort \in Byte
  BY ByteIs
<1>3. s \in [port : Byte, data : Byte] /\ s.data = a
  BY <1>1, <1>2
<1> QED BY <1>1, <1>3

\* A register or the memory is taken with A.
LEMMA Computes ==
  ASSUME Calm, Step, NEW op \in MathNames, NEW src, NEW len \in Nat, Insn = Math(op, src, len),
         NEW y \in Byte, Operand(Fetched, src) = y
  PROVE  \E t, r : /\ Moves(t, mem) /\ r = Arithmetic(op, cpu.A, y, cpu.F) /\ Result(r)
                   /\ Becomes(t, Plus(cpu.PC, len), cpu.SP, r.x, r.f, cpu.BC, cpu.DE, cpu.HL)
<1>1. Becomes(Fetched, Plus(cpu.PC, len), cpu.SP, cpu.A, cpu.F, cpu.BC, cpu.DE, cpu.HL)
  BY Fetches DEF Math
<1>2. Insn.op = op /\ Insn.src = src
  BY DEF Math
<1>3. ArithmeticA
  BY <1>2, Chosen
<1>4. Fetched.A = cpu.A /\ Fetched.F = cpu.F /\ cpu.A \in Byte
  BY <1>1, StateParts DEF Becomes, Calm
<1> DEFINE r == Arithmetic(op, cpu.A, y, cpu.F)
<1>5. Result(r)
  BY <1>4, ArithmeticTyped
<1>6. Arithmetic(Insn.op, Fetched.A, Operand(Fetched, Insn.src), Fetched.F) = r
  BY <1>2, <1>4
<1> HIDE DEF r
<1>7. Moves([Fetched EXCEPT !.A = r.x, !.F = r.f], mem)
  BY <1>3, <1>6, Executes DEF ArithmeticA
<1>8. Becomes([Fetched EXCEPT !.A = r.x, !.F = r.f], Plus(cpu.PC, len), cpu.SP, r.x, r.f,
              cpu.BC, cpu.DE, cpu.HL)
  BY <1>1, <1>5, Altered DEF Result
<1> QED BY <1>5, <1>7, <1>8 DEF r

\* It goes on after it has read a byte, with the interrupt acknowledged or not.
LEMMA GoesOnReading ==
  ASSUME Home, NEW t, NEW m \in Store, NEW n, Receives(t, m, n), Countable => n # Acknowledge,
         Sane(t), ProgramAt(guest, t, m, output), guest.program # "critical",
         m[Ticks] = mem[Ticks]
  PROVE  GuestInv'
<1>1. Counts(guest, cpu) = 0 /\ Counts(guest, t) = 0
  BY DEF Counts
<1>2. Asserted(guest, t, m, output')
  BY DEF Asserted, Receives
<1>3. /\ Finish(t, m) /\ guest' = guest /\ raised' = raised /\ output' \in Signals
      /\ line' \in BOOLEAN /\ (Countable => line' = line)
  BY DEF Receives, Home, Others
<1>4. Countable => m[Ticks] + Counts(guest, cpu) = mem[Ticks] + Counts(guest, t)
  BY <1>1
<1> HIDE DEF Ticks
<1> QED BY <1>2, <1>3, <1>4, Arrives

\* A byte is the sum of its bits.
LEMMA BitsOfByte ==
  ASSUME NEW b \in Byte
  PROVE  \E b0, b1, b2, b3, b4, b5, b6, b7 \in {0, 1} :
           /\ b = b0 + 2 * b1 + 4 * b2 + 8 * b3 + 16 * b4 + 32 * b5 + 64 * b6 + 128 * b7
           /\ Bit(b, 0) = b0 /\ Bit(b, 1) = b1 /\ Bit(b, 2) = b2 /\ Bit(b, 3) = b3
           /\ Bit(b, 4) = b4 /\ Bit(b, 5) = b5 /\ Bit(b, 6) = b6 /\ Bit(b, 7) = b7
<1>1. b \in Int /\ 0 <= b /\ b <= 255
  BY ByteIs
<1>2. /\ 2 ^ 0 = 1 /\ 2 ^ 1 = 2 /\ 2 ^ 2 = 4 /\ 2 ^ 3 = 8
      /\ 2 ^ 4 = 16 /\ 2 ^ 5 = 32 /\ 2 ^ 6 = 64 /\ 2 ^ 7 = 128
  OBVIOUS
<1>3. PICK b0 \in {0, 1}, c1 \in 0 .. 127 : b = b0 + 2 * c1 /\ b0 = b % 2 /\ c1 = b \div 2
  BY <1>1
<1>4. PICK b1 \in {0, 1}, c2 \in 0 .. 63 : c1 = b1 + 2 * c2 /\ b1 = c1 % 2 /\ c2 = c1 \div 2
  OBVIOUS
<1>5. PICK b2 \in {0, 1}, c3 \in 0 .. 31 : c2 = b2 + 2 * c3 /\ b2 = c2 % 2 /\ c3 = c2 \div 2
  OBVIOUS
<1>6. PICK b3 \in {0, 1}, c4 \in 0 .. 15 : c3 = b3 + 2 * c4 /\ b3 = c3 % 2 /\ c4 = c3 \div 2
  OBVIOUS
<1>7. PICK b4 \in {0, 1}, c5 \in 0 .. 7 : c4 = b4 + 2 * c5 /\ b4 = c4 % 2 /\ c5 = c4 \div 2
  OBVIOUS
<1>8. PICK b5 \in {0, 1}, c6 \in 0 .. 3 : c5 = b5 + 2 * c6 /\ b5 = c5 % 2 /\ c6 = c5 \div 2
  OBVIOUS
<1>9. PICK b6 \in {0, 1}, b7 \in {0, 1} : c6 = b6 + 2 * b7 /\ b6 = c6 % 2 /\ b7 = c6 \div 2
  OBVIOUS
<1>10. b7 % 2 = b7
  OBVIOUS
<1>11. /\ b = b0 + 2 * c1 /\ c1 = b1 + 2 * c2 /\ c2 = b2 + 2 * c3 /\ c3 = b3 + 2 * c4
       /\ c4 = b4 + 2 * c5 /\ c5 = b5 + 2 * c6 /\ c6 = b6 + 2 * b7
  BY <1>3, <1>4, <1>5, <1>6, <1>7, <1>8, <1>9, Zenon
<1>12. /\ b = b0 + 2 * b1 + 4 * c2
       /\ b = b0 + 2 * b1 + 4 * b2 + 8 * c3
       /\ b = b0 + 2 * b1 + 4 * b2 + 8 * b3 + 16 * c4
       /\ b = b0 + 2 * b1 + 4 * b2 + 8 * b3 + 16 * b4 + 32 * c5
       /\ b = b0 + 2 * b1 + 4 * b2 + 8 * b3 + 16 * b4 + 32 * b5 + 64 * c6
       /\ b = b0 + 2 * b1 + 4 * b2 + 8 * b3 + 16 * b4 + 32 * b5 + 64 * b6 + 128 * b7
  BY <1>11
<1>13. b \div 1 = b /\ b \div 4 = c2 /\ b \div 8 = c3
  BY <1>12
<1>14. b \div 16 = c4 /\ b \div 32 = c5 /\ b \div 64 = c6 /\ b \div 128 = b7
  BY <1>12
<1>15. /\ Bit(b, 0) = b0 /\ Bit(b, 1) = b1 /\ Bit(b, 2) = b2 /\ Bit(b, 3) = b3
  BY <1>2, <1>3, <1>4, <1>5, <1>6, <1>13, Zenon DEF Bit
<1>16. Bit(b, 4) = b4 /\ Bit(b, 5) = b5
  BY <1>2, <1>7, <1>8, <1>14 DEF Bit
<1>17. Bit(b, 6) = b6 /\ Bit(b, 7) = b7
  BY <1>2, <1>9, <1>10, <1>14 DEF Bit
<1> QED BY <1>12, <1>15, <1>16, <1>17

\* ... and its bits make it again.
LEMMA BitsMakeItAgain ==
  ASSUME NEW b \in Byte
  PROVE  FromBits(BitsOf(b)) = b
<1>1. PICK b0, b1, b2, b3, b4, b5, b6, b7 \in {0, 1} :
           /\ b = b0 + 2 * b1 + 4 * b2 + 8 * b3 + 16 * b4 + 32 * b5 + 64 * b6 + 128 * b7
           /\ Bit(b, 0) = b0 /\ Bit(b, 1) = b1 /\ Bit(b, 2) = b2 /\ Bit(b, 3) = b3
           /\ Bit(b, 4) = b4 /\ Bit(b, 5) = b5 /\ Bit(b, 6) = b6 /\ Bit(b, 7) = b7
  BY BitsOfByte
<1>2. /\ 2 ^ 0 = 1 /\ 2 ^ 1 = 2 /\ 2 ^ 2 = 4 /\ 2 ^ 3 = 8
      /\ 2 ^ 4 = 16 /\ 2 ^ 5 = 32 /\ 2 ^ 6 = 64 /\ 2 ^ 7 = 128
  OBVIOUS
<1>3. \A k \in 0 .. 7 : k \in BitsOf(b) <=> Bit(b, k) = 1
  BY DEF BitsOf
<1>4. /\ Worth(0, BitsOf(b)) = b0 /\ Worth(1, BitsOf(b)) = 2 * b1
      /\ Worth(2, BitsOf(b)) = 4 * b2 /\ Worth(3, BitsOf(b)) = 8 * b3
  BY <1>1, <1>2, <1>3 DEF Worth
<1>5. /\ Worth(4, BitsOf(b)) = 16 * b4 /\ Worth(5, BitsOf(b)) = 32 * b5
      /\ Worth(6, BitsOf(b)) = 64 * b6 /\ Worth(7, BitsOf(b)) = 128 * b7
  BY <1>1, <1>2, <1>3 DEF Worth
<1> QED BY <1>1, <1>4, <1>5 DEF FromBits

\* OR with zero shows the byte.
LEMMA OrOfZero ==
  ASSUME NEW b \in Byte
  PROVE  Or(0, b).x = b /\ ("Z" \in Or(0, b).f <=> b = 0)
<1>1. BitsOf(0) = {}
  <2>1. \A k \in 0 .. 7 : 2 ^ k \in {1, 2, 4, 8, 16, 32, 64, 128}
    BY PowersOfTwo
  <2>2. \A p \in {1, 2, 4, 8, 16, 32, 64, 128} : (0 \div p) % 2 = 0
    OBVIOUS
  <2>3. \A k \in 0 .. 7 : Bit(0, k) = 0
    BY <2>1, <2>2 DEF Bit
  <2> QED BY <2>3 DEF BitsOf
<1>2. Or(0, b).x = b
  BY <1>1, BitsMakeItAgain DEF Or
<1>3. "Z" \notin Parity(b)
  BY DEF Parity, When
<1>4. Or(0, b).f = SignZero(b) \cup Parity(b)
  BY <1>1, BitsMakeItAgain DEF Or
<1> QED BY <1>2, <1>3, <1>4 DEF SignZero, When

\* A is adjusted or rotated.
LEMMA AdjustsA ==
  ASSUME Calm, Step, NEW how \in ANames \ {"neg"}, Insn = OnA(how)
  PROVE  \E t, r : /\ Moves(t, mem) /\ r = AdjustA(how, cpu.A, cpu.F) /\ Result(r)
                   /\ Becomes(t, Plus(cpu.PC, 1), cpu.SP, r.x, r.f, cpu.BC, cpu.DE, cpu.HL)
<1>1. Insn.len = 1 /\ Insn.op = "a" /\ Insn.how = how
  BY DEF OnA
<1>2. Becomes(Fetched, Plus(cpu.PC, 1), cpu.SP, cpu.A, cpu.F, cpu.BC, cpu.DE, cpu.HL)
  BY <1>1, Fetches
<1>3. AccumulatorOnly
  BY <1>1, Chosen
<1>4. Fetched.A = cpu.A /\ Fetched.F = cpu.F /\ cpu.A \in Byte /\ cpu.F \in SUBSET Flags
  BY <1>2, StateParts DEF Becomes, Calm
<1> DEFINE r == AdjustA(how, cpu.A, cpu.F)
<1>5. Result(r)
  BY <1>4, AdjustTyped
<1>6. AdjustA(Insn.how, Fetched.A, Fetched.F) = r
  BY <1>1, <1>4
<1> HIDE DEF r
<1>7. Moves([Fetched EXCEPT !.A = r.x, !.F = r.f], mem)
  BY <1>3, <1>6, Executes DEF AccumulatorOnly
<1>8. Becomes([Fetched EXCEPT !.A = r.x, !.F = r.f], Plus(cpu.PC, 1), cpu.SP, r.x, r.f,
              cpu.BC, cpu.DE, cpu.HL)
  BY <1>2, <1>5, Altered DEF Result
<1> QED BY <1>5, <1>7, <1>8 DEF r

\* RRA moves a byte one bit to the right.
LEMMA HalvesA ==
  ASSUME NEW a \in Byte, NEW flags
  PROVE  \E c \in {0, 1} : AdjustA("rr", a, flags).x = a \div 2 + 128 * c
<1>1. Shift("rr", a, flags).x = a \div 2 + 128 * Carry(flags)
  BY DEF Shift, BitIn, Left
<1>2. AdjustA("rr", a, flags).x = Shift("rr", a, flags).x
  BY DEF AdjustA, ShiftA
<1>3. Carry(flags) \in {0, 1}
  BY AreFlags
<1> QED BY <1>1, <1>2, <1>3

\* Four rotations to the right bring the upper digit down.
LEMMA DigitComesDown ==
  ASSUME NEW x \in Byte, NEW a \in Byte, NEW c \in {0, 1}, NEW r, r = a \div 2 + 128 * c
  PROVE  /\ a = x => r % 128 = x \div 2
         /\ a % 128 = x \div 2 => r % 64 = x \div 4
         /\ a % 64 = x \div 4 => r % 32 = x \div 8
         /\ a % 32 = x \div 8 => r % 16 = x \div 16
<1>1. a \in Int /\ 0 <= a /\ a <= 255 /\ x \in Int /\ 0 <= x /\ x <= 255
  BY ByteIs
<1>2. a = x => r % 128 = x \div 2
  BY <1>1
<1>3. a % 128 = x \div 2 => r % 64 = x \div 4
  BY <1>1
<1>4. a % 64 = x \div 4 => r % 32 = x \div 8
  BY <1>1
<1>5. a % 32 = x \div 8 => r % 16 = x \div 16
  BY <1>1
<1> QED BY <1>2, <1>3, <1>4, <1>5

\* A byte AND 15 is its lower digit.
LEMMA LowerDigit ==
  ASSUME NEW a \in Byte
  PROVE  And(a, 15).x = a % 16
<1>1. PICK b0, b1, b2, b3, b4, b5, b6, b7 \in {0, 1} :
           /\ a = b0 + 2 * b1 + 4 * b2 + 8 * b3 + 16 * b4 + 32 * b5 + 64 * b6 + 128 * b7
           /\ Bit(a, 0) = b0 /\ Bit(a, 1) = b1 /\ Bit(a, 2) = b2 /\ Bit(a, 3) = b3
           /\ Bit(a, 4) = b4 /\ Bit(a, 5) = b5 /\ Bit(a, 6) = b6 /\ Bit(a, 7) = b7
  BY BitsOfByte
<1>2. /\ 2 ^ 0 = 1 /\ 2 ^ 1 = 2 /\ 2 ^ 2 = 4 /\ 2 ^ 3 = 8
      /\ 2 ^ 4 = 16 /\ 2 ^ 5 = 32 /\ 2 ^ 6 = 64 /\ 2 ^ 7 = 128
  OBVIOUS
<1>3. /\ Bit(15, 0) = 1 /\ Bit(15, 1) = 1 /\ Bit(15, 2) = 1 /\ Bit(15, 3) = 1
      /\ Bit(15, 4) = 0 /\ Bit(15, 5) = 0 /\ Bit(15, 6) = 0 /\ Bit(15, 7) = 0
  BY <1>2 DEF Bit
<1> DEFINE bits == BitsOf(a) \cap BitsOf(15)
<1>4. \A k \in 0 .. 7 : k \in bits <=> Bit(a, k) = 1 /\ Bit(15, k) = 1
  BY DEF BitsOf
<1> HIDE DEF bits
<1>5. /\ Worth(0, bits) = b0 /\ Worth(1, bits) = 2 * b1
      /\ Worth(2, bits) = 4 * b2 /\ Worth(3, bits) = 8 * b3
  BY <1>1, <1>2, <1>3, <1>4 DEF Worth
<1>6. /\ Worth(4, bits) = 0 /\ Worth(5, bits) = 0 /\ Worth(6, bits) = 0 /\ Worth(7, bits) = 0
  BY <1>3, <1>4 DEF Worth
<1>7. FromBits(bits) = b0 + 2 * b1 + 4 * b2 + 8 * b3
  BY <1>5, <1>6 DEF FromBits
<1>8. PICK q \in 0 .. 15 : a = 16 * q + (b0 + 2 * b1 + 4 * b2 + 8 * b3)
  <2>1. a = 16 * (b4 + 2 * b5 + 4 * b6 + 8 * b7) + (b0 + 2 * b1 + 4 * b2 + 8 * b3)
    BY <1>1
  <2>2. b4 + 2 * b5 + 4 * b6 + 8 * b7 \in 0 .. 15
    OBVIOUS
  <2> QED BY <2>1, <2>2
<1>9. a % 16 = b0 + 2 * b1 + 4 * b2 + 8 * b3
  BY <1>8
<1> QED BY <1>7, <1>9 DEF And, bits

\* What is left of the flags of a digit's sums: nothing that the adjustment sees.
Unflagged(flags) == flags \cap {"N", "H", "C"} = {}

\* The two sums of KbWriteX and their adjustments, which make a digit a character.
LEMMA DigitAdded ==
  ASSUME NEW n \in 0 .. 15
  PROVE  LET r == AddCarry(n, 144, 0) IN r.x = 144 + n /\ Unflagged(r.f)
<1> DEFINE r == AddCarry(n, 144, 0)
<1>1. (n + 144 + 0) % 256 = 144 + n
  OBVIOUS
<1>2. r.x = 144 + n
  BY <1>1 DEF AddCarry
<1>3. 2 ^ 4 = 16 /\ n \div 16 = 0 /\ 144 \div 16 = 9 /\ (144 + n) \div 16 = 9
  OBVIOUS
<1>4. Bit(n, 4) = 0 /\ Bit(144, 4) = 1 /\ Bit(144 + n, 4) = 1
  BY <1>3 DEF Bit
<1>5. ~CarryInto(4, n, 144, 144 + n)
  BY <1>4 DEF CarryInto
<1>6. \E p : r.f = SignZero(144 + n) \cup When("C", n + 144 + 0 > 255) \cup When("PV", p)
                     \cup When("H", CarryInto(4, n, 144, 144 + n))
  BY <1>1 DEF AddCarry
<1>7. ~(n + 144 + 0 > 255)
  OBVIOUS
<1>8. Unflagged(r.f)
  BY <1>5, <1>6, <1>7 DEF SignZero, When, Unflagged
<1> QED BY <1>2, <1>8

\* The digit's first DAA carries for a letter, ...
LEMMA DigitAdjusted ==
  ASSUME NEW n \in 0 .. 15, NEW flags, Unflagged(flags)
  PROVE  LET r == Daa(144 + n, flags)
         IN  /\ r.x = IF n < 10 THEN 144 + n ELSE n - 10
             /\ "C" \in r.f <=> n >= 10
<1> DEFINE r == Daa(144 + n, flags)
<1>1. (144 + n) % 16 = n /\ (144 + n > 153 <=> n > 9)
  OBVIOUS
<1>2. "H" \notin flags /\ "C" \notin flags /\ "N" \notin flags
  BY DEF Unflagged
<1>3. r.x = (144 + n + ((IF n > 9 THEN 6 ELSE 0) + (IF n > 9 THEN 96 ELSE 0))) % 256
  BY <1>1, <1>2 DEF Daa
<1>4. "C" \in r.f <=> n > 9
  BY <1>1, <1>2 DEF Daa, SignZero, Parity, When
<1>5. n > 9 => (144 + n + (6 + 96)) % 256 = n - 10
  OBVIOUS
<1>6. ~(n > 9) => (144 + n + (0 + 0)) % 256 = 144 + n
  OBVIOUS
<1> HIDE DEF r
<1>7. r.x = IF n < 10 THEN 144 + n ELSE n - 10
  BY <1>3, <1>5, <1>6
<1> QED BY <1>4, <1>7 DEF r

\* ... the carry is added, ...
LEMMA DigitCarried ==
  ASSUME NEW n \in 0 .. 15, NEW flags, "C" \in flags <=> n >= 10,
         NEW a, a = IF n < 10 THEN 144 + n ELSE n - 10
  PROVE  LET r == AddCarry(a, 64, Carry(flags))
         IN  r.x = (IF n < 10 THEN 208 + n ELSE 55 + n) /\ Unflagged(r.f)
<1>1. PICK c \in {0, 1} : c = Carry(flags) /\ c = IF n < 10 THEN 0 ELSE 1
  BY DEF Carry
<1>2. PICK s \in Int : s = a + 64 + c /\ s = IF n < 10 THEN 208 + n ELSE 55 + n
  BY <1>1
<1>3. (a + 64 + c) % 256 = s /\ ~(a + 64 + c > 255)
  BY <1>1, <1>2
<1>4. 2 ^ 4 = 16 /\ 64 \div 16 = 4
  OBVIOUS
<1>5. n < 10 => a \div 16 = 9 /\ s \div 16 = 13
  BY <1>2
<1>6. ~(n < 10) => a \div 16 = 0 /\ s \div 16 = 4
  BY <1>2
<1>7. Bit(64, 4) = 0 /\ Bit(a, 4) = Bit(s, 4) /\ Bit(a, 4) \in {0, 1}
  BY <1>4, <1>5, <1>6 DEF Bit
<1>8. ~CarryInto(4, a, 64, s)
  BY <1>7 DEF CarryInto
<1>9. PICK r : r = AddCarry(a, 64, c)
  OBVIOUS
<1>10. r.x = s
  BY <1>3, <1>9 DEF AddCarry
<1>11. \E p : r.f = SignZero(s) \cup When("C", a + 64 + c > 255) \cup When("PV", p)
                      \cup When("H", CarryInto(4, a, 64, s))
  BY <1>3, <1>9 DEF AddCarry
<1>12. Unflagged(r.f)
  BY <1>3, <1>8, <1>11 DEF SignZero, When, Unflagged
<1> QED BY <1>1, <1>2, <1>9, <1>10, <1>12

\* ... and the second DAA leaves the digit's character.
LEMMA DigitShown ==
  ASSUME NEW n \in 0 .. 15, NEW flags, Unflagged(flags),
         NEW a, a = IF n < 10 THEN 208 + n ELSE 55 + n
  PROVE  Daa(a, flags).x = Digit(n)
<1>1. "H" \notin flags /\ "C" \notin flags /\ "N" \notin flags
  BY DEF Unflagged
<1>2. ~(a % 16 > 9) /\ (a > 153 <=> n < 10)
  <2>1. n < 10 => a % 16 = n
    OBVIOUS
  <2>2. ~(n < 10) => a % 16 = n - 9
    OBVIOUS
  <2> QED BY <2>1, <2>2
<1>3. Daa(a, flags).x = (a + (0 + (IF n < 10 THEN 96 ELSE 0))) % 256
  BY <1>1, <1>2 DEF Daa
<1>4. n < 10 => (a + (0 + 96)) % 256 = 48 + n
  OBVIOUS
<1>5. ~(n < 10) => (a + (0 + 0)) % 256 = 55 + n
  OBVIOUS
<1> QED BY <1>3, <1>4, <1>5 DEF Digit

\* At the first line of a program its assertion holds.
LEMMA Starts ==
  ASSUME NEW g, g.program \in Programs, NEW u, NEW v, Original(g, v),
         u.PC = 256, u.SP = 0, u.iff1, ~u.halted, Sane(u)
  PROVE  ProgramAt(g, u, v, <<>>)
<1> DEFINE o == <<>>
<1>1. Len(o) = 0
  OBVIOUS
<1> HIDE DEF o
<1>2. \A b1, b2, b3 : Sends(o, 0, b1, b2, b3)
  BY <1>1 DEF Sends
<1> USE DEF Original, TextIs
<1>3. HelloAt(g, u, v, o)
  BY <1>2 DEF HelloAt
<1>4. HexAt(g, u, v, o)
  BY <1>2 DEF HexAt
<1>5. CopyingAt(g, u, v, o)
  BY DEF CopyingAt
<1>6. FillingAt(g, u, v, o)
  BY <1>2 DEF FillingAt
<1>7. BlocksAt(g, u, v, o)
  BY DEF BlocksAt
<1>8. PortsAt(g, u, v, o)
  BY <1>1 DEF PortsAt
<1>9. StackingAt(g, u, v, o)
  BY DEF StackingAt
<1>10. MultiplyAt(g, u, v, o)
  BY DEF MultiplyAt
<1>11. BitsAt(g, u, v, o)
  BY DEF BitsAt
<1>12. CriticalAt(g, u, v, o)
  BY DEF CriticalAt, Sane
<1>13. IndexedAt(g, u, v, o)
  BY DEF IndexedAt
<1> QED BY <1>3, <1>4, <1>5, <1>6, <1>7, <1>8, <1>9, <1>10, <1>11, <1>12, <1>13, Which,
        ProgramNames DEF o

\* The boot sets the interrupt mode before an interrupt can come.
LEMMA Boots ==
  ASSUME Loaded, Home, Step, BootAt(guest, cpu, mem, output)
  PROVE  GuestInv'
<1>1. guest \in Guests /\ guest.program \in Programs /\ mem \in Store
  BY DEF Home, Others
<1>2. /\ cpu \in CpuState /\ cpu.iff2 = cpu.iff1
      /\ cpu.iff1 => ~cpu.enable_interrupts_next_cycle /\ cpu.interrupt_mode = "one"
  BY DEF Home, Sane
<1>3. /\ cpu.PC \in {0, 1, 3} /\ cpu.SP = 0 /\ ~cpu.halted
      /\ output = <<>> /\ Original(guest, mem)
      /\ cpu.PC \in {0, 1} => ~cpu.iff1
      /\ cpu.PC = 0 => ~cpu.enable_interrupts_next_cycle
      /\ cpu.PC = 1 => cpu.enable_interrupts_next_cycle
      /\ cpu.PC = 3 => cpu.iff1
  BY DEF BootAt
<1>4. Plus(0, 1) = 1 /\ Plus(1, 2) = 3
  BY DEF Plus
<1>5. 0 \in Levels
  BY DEF Levels
<1> DEFINE Reached(t) ==
             /\ Moves(t, mem) /\ Sane(t) /\ Asserted(guest, t, mem, output) /\ t.PC \in {1, 3, 256}
<1>6. ASSUME cpu.PC = 0 PROVE \E t : Reached(t)
  <2>1. Insn = Plain("ei", 1)
    BY <1>1, <1>6, CommonCode
  <2>2. Calm
    BY <1>2, <1>3, <1>6 DEF Calm
  <2>3. PICK s, t : /\ Becomes(s, 1, cpu.SP, cpu.A, cpu.F, cpu.BC, cpu.DE, cpu.HL)
                    /\ t = [s EXCEPT !.enable_interrupts_next_cycle = TRUE]
                    /\ Moves(t, mem)
    BY <1>4, <1>6, <2>1, <2>2, WillEnable
  <2>4. /\ t \in CpuState /\ t.PC = 1 /\ t.SP = 0 /\ t.halted = cpu.halted
        /\ t.iff1 = cpu.iff1 /\ t.iff2 = cpu.iff2 /\ t.enable_interrupts_next_cycle = TRUE
    BY <1>3, <2>3 DEF Becomes, CpuState
  <2>5. Sane(t) /\ BootAt(guest, t, mem, output)
    BY <1>2, <1>3, <1>5, <1>6, <2>4 DEF Sane, BootAt
  <2> QED BY <2>3, <2>4, <2>5 DEF Asserted
<1>7. ASSUME cpu.PC = 1 PROVE \E t : Reached(t)
  <2>1. Insn = Im("one")
    BY <1>1, <1>7, CommonCode
  <2>2. "one" \in Modes /\ cpu.enable_interrupts_next_cycle
    BY <1>3, <1>7 DEF Modes
  <2>3. PICK t : /\ Moves(t, mem) /\ t \in CpuState
                 /\ t.PC = Plus(cpu.PC, 2) /\ t.SP = cpu.SP /\ t.halted = cpu.halted
                 /\ t.iff1 /\ t.iff2 /\ ~t.enable_interrupts_next_cycle
                 /\ t.interrupt_mode = "one"
    BY <1>2, <2>1, <2>2, SetsMode
  <2>4. t.PC = 3 /\ t.iff1 = TRUE /\ t.iff2 = TRUE
    BY <1>4, <1>7, <2>3, StateParts
  <2>5. Sane(t) /\ BootAt(guest, t, mem, output)
    BY <1>3, <1>5, <2>3, <2>4 DEF Sane, BootAt
  <2> QED BY <2>3, <2>4, <2>5 DEF Asserted
<1>8. ASSUME cpu.PC = 3 PROVE \E t : Reached(t)
  <2>1. PICK insn : insn = Jp("jp", "always", 256)
    OBVIOUS
  <2>2. Insn = insn
    BY <1>1, <1>8, <2>1, CommonCode
  <2>3. insn.op = "jp" /\ insn.cc = "always" /\ insn.len = 3 /\ insn.nn = 256
    BY <2>1 DEF Jp
  <2>4. Calm /\ Condition(cpu.F, "always") /\ 256 \in Words
    BY <1>2, <1>3, <1>8, WordIs DEF Calm, Condition
  <2>5. PICK t : /\ Moves(t, mem)
                 /\ Becomes(t, 256, cpu.SP, cpu.A, cpu.F, cpu.BC, cpu.DE, cpu.HL)
    <3>1. PICK w \in Words, len \in Nat : w = 256 /\ len = 3
      BY <2>4
    <3>2. Insn.op = "jp" /\ Insn.cc = "always" /\ Insn.len = len /\ Insn.nn = w
      BY <2>2, <2>3, <3>1
    <3> QED BY <2>4, <3>1, <3>2, Jumps
  <2>6. Sane(t) /\ t.PC = 256 /\ t.SP = 0 /\ t.iff1 /\ ~t.halted
    <3>1. Sane(cpu) /\ cpu.SP \in Levels
      BY <1>3, <1>5 DEF Home
    <3>2. Sane(t)
      BY <2>5, <3>1, StaysSane
    <3> QED BY <1>3, <1>8, <2>5, <3>2 DEF Becomes
  <2>7. ProgramAt(guest, t, mem, output)
    BY <1>1, <1>3, <2>6, Starts
  <2> QED BY <2>5, <2>6, <2>7 DEF Asserted
<1>9. PICK t : Reached(t)
  <2> HIDE DEF Reached
  <2> QED BY <1>3, <1>6, <1>7, <1>8
<1>10. Counts(guest, cpu) = 0 /\ Counts(guest, t) = 0
  BY <1>3, <1>9 DEF Counts
<1>11. /\ Finish(t, mem) /\ guest' = guest /\ raised' = raised /\ line' = line /\ output' = output
       /\ line' \in BOOLEAN /\ output' \in Signals
  BY <1>9 DEF Moves, Home, Others
<1> HIDE DEF Ticks
<1>12. Sane(t) /\ Asserted(guest, t, mem, output')
  BY <1>9, <1>11
<1>13. Countable => mem[Ticks] + Counts(guest, cpu) = mem[Ticks] + Counts(guest, t)
  BY <1>10
<1> QED BY <1>1, <1>11, <1>12, <1>13, Arrives

\* A jump in a listing goes to the line it names.
LEMMA Jumping ==
  ASSUME NEW op, NEW cc, NEW to, NEW len, NEW next, NEW place
  PROVE  LET insn == Linked(Branch(op, cc, to, len), next, place)
         IN  /\ insn.op = op /\ insn.cc = cc /\ insn.len = len
             /\ insn.nn = place[to] /\ insn.e = place[to] - next
<1>1. "to" \in DOMAIN Branch(op, cc, to, len) /\ Branch(op, cc, to, len).to = to
  BY DEF Branch
<1>2. Linked(Branch(op, cc, to, len), next, place)
        = [Branch(op, cc, to, len) EXCEPT !.nn = place[to], !.e = place[to] - next]
  BY <1>1 DEF Linked
<1> QED BY <1>2 DEF Branch

\* What the machine is after HALT.
LEMMA Halted ==
  ASSUME Sane(cpu), NEW t, t = [cpu EXCEPT !.halted = TRUE]
  PROVE  /\ Sane(t) /\ t.halted = TRUE
         /\ t.PC = cpu.PC /\ t.SP = cpu.SP /\ t.A = cpu.A /\ t.F = cpu.F /\ t.BC = cpu.BC
         /\ t.DE = cpu.DE /\ t.HL = cpu.HL /\ t.IX = cpu.IX /\ t.prime = cpu.prime
         /\ t.iff1 = cpu.iff1 /\ t.interrupt_mode = cpu.interrupt_mode
         /\ t.enable_interrupts_next_cycle = cpu.enable_interrupts_next_cycle
<1>1. cpu \in CpuState
  BY DEF Sane
<1>2. t \in CpuState
  BY <1>1 DEF CpuState
<1>3. /\ t.PC = cpu.PC /\ t.SP = cpu.SP /\ t.A = cpu.A /\ t.F = cpu.F /\ t.BC = cpu.BC
      /\ t.DE = cpu.DE /\ t.HL = cpu.HL /\ t.IX = cpu.IX /\ t.prime = cpu.prime
      /\ t.iff1 = cpu.iff1 /\ t.iff2 = cpu.iff2 /\ t.interrupt_mode = cpu.interrupt_mode
      /\ t.enable_interrupts_next_cycle = cpu.enable_interrupts_next_cycle
      /\ t.halted = TRUE
  BY <1>1 DEF CpuState
<1> QED BY <1>2, <1>3 DEF Sane

\* One more byte of the three is written.
LEMMA SendsMore ==
  ASSUME NEW o \in Signals, NEW k \in 0 .. 2, NEW b1, NEW b2, NEW b3, Sends(o, k, b1, b2, b3),
         NEW x \in [port : Byte, data : Byte],
         k = 0 => x.data = b1, k = 1 => x.data = b2, k = 2 => x.data = b3
  PROVE  Sends(Append(o, x), k + 1, b1, b2, b3)
<1>1. Len(o) = k /\ o \in Seq([port : Byte, data : Byte])
  BY DEF Sends, Signals
<1>2. /\ Len(Append(o, x)) = k + 1 /\ Append(o, x)[k + 1] = x
      /\ \A j \in 1 .. k : Append(o, x)[j] = o[j]
  BY <1>1
<1> QED BY <1>1, <1>2 DEF Sends

\* And one byte more than three.
LEMMA SendsFourth ==
  ASSUME NEW o \in Signals, NEW b1, NEW b2, NEW b3, Sends(o, 3, b1, b2, b3),
         NEW x \in [port : Byte, data : Byte]
  PROVE  LET p == Append(o, x)
         IN  /\ Len(p) = 4 /\ p[1].data = b1 /\ p[2].data = b2 /\ p[3].data = b3
             /\ p[4].data = x.data
<1>1. ASSUME NEW k \in 1 .. 3, Len(o) = k
      PROVE  /\ Len(Append(o, x)) = k + 1 /\ Append(o, x)[k + 1] = x
             /\ \A j \in 1 .. k : Append(o, x)[j] = o[j]
  <2>1. Len(o) = k /\ o \in Seq([port : Byte, data : Byte])
    BY <1>1 DEF Signals
  <2> QED BY <2>1
<1>2. Len(o) = 3 /\ o[1].data = b1 /\ o[2].data = b2 /\ o[3].data = b3
  BY DEF Sends
<1>3. /\ Len(Append(o, x)) = 3 + 1 /\ Append(o, x)[3 + 1] = x
      /\ \A j \in 1 .. 3 : Append(o, x)[j] = o[j]
  BY <1>1, <1>2
<1> QED BY <1>2, <1>3

\* The operands of an instruction, by its length.
LEMMA OperandsOf ==
  ASSUME Calm, NEW len \in Nat, Insn.len = len
  PROVE  /\ Operand(Fetched, R("A")) = cpu.A
         /\ Operand(Fetched, R("B")) = OfB(cpu)
         /\ Operand(Fetched, R("C")) = OfC(cpu)
         /\ Operand(Fetched, R("D")) = OfD(cpu)
         /\ Operand(Fetched, R("E")) = OfE(cpu)
         /\ \A n : Operand(Fetched, N(n)) = n
         /\ Operand(Fetched, Mem("HL", 0)) = mem[cpu.HL]
         /\ Operand(Fetched, Mem("IX", 0)) = mem[cpu.IX]
         /\ \A d \in Int : Operand(Fetched, Mem("IX", d)) = mem[Plus(cpu.IX, d)]
         /\ \A nn : Operand(Fetched, At(nn)) = mem[nn]
<1>1. Becomes(Fetched, Plus(cpu.PC, len), cpu.SP, cpu.A, cpu.F, cpu.BC, cpu.DE, cpu.HL)
  BY Fetches
<1>2. Becomes(Fetched, Fetched.PC, cpu.SP, cpu.A, cpu.F, cpu.BC, cpu.DE, cpu.HL)
  BY <1>1 DEF Becomes
<1> QED BY <1>2, Operands

\* A bit of the byte at HL is tested.
LEMMA TestsBit ==
  ASSUME Calm, Step, NEW k \in 0 .. 7, Insn = OnBit("bit", k, Mem("HL", 0))
  PROVE  \E t, f : /\ Moves(t, mem) /\ f = TestBit(k, mem[cpu.HL], cpu.F)
                   /\ Becomes(t, Plus(cpu.PC, 2), cpu.SP, cpu.A, f, cpu.BC, cpu.DE, cpu.HL)
<1>1. Insn.op = "bit" /\ Insn.len = 2 /\ Insn.bit = k /\ Insn.dst = Mem("HL", 0)
  BY DEF OnBit
<1>2. Becomes(Fetched, Plus(cpu.PC, 2), cpu.SP, cpu.A, cpu.F, cpu.BC, cpu.DE, cpu.HL)
  BY <1>1, Fetches
<1>3. TestOperand
  BY <1>1, Chosen
<1>4. Fetched.F = cpu.F /\ cpu.F \in SUBSET Flags
  BY <1>2, StateParts DEF Becomes, Calm
<1> DEFINE f == TestBit(k, mem[cpu.HL], cpu.F)
<1>5. f \in SUBSET Flags
  BY <1>4, OtherFlags
<1>6. TestBit(Insn.bit, Before, Fetched.F) = f
  BY <1>1, <1>4, OperandsOf DEF Before
<1> HIDE DEF f
<1>7. Moves([Fetched EXCEPT !.F = f], mem)
  <2>1. [Fetched EXCEPT !.F = TestBit(Insn.bit, Before, @)] = [Fetched EXCEPT !.F = f]
    BY <1>6
  <2> QED BY <1>3, <2>1, Executes DEF TestOperand
<1>8. Becomes([Fetched EXCEPT !.F = f], Plus(cpu.PC, 2), cpu.SP, cpu.A, f,
              cpu.BC, cpu.DE, cpu.HL)
  BY <1>2, <1>5, Altered
<1> QED BY <1>7, <1>8 DEF f

-----------------------------------------------------------------------------
(***************************************************************************)
(* hello                                                                   *)
(***************************************************************************)
\* Its lines.
LEMMA HelloCode ==
  ASSUME Loaded, guest \in Guests, guest.program = "hello"
  PROVE  /\ cpu.PC = 256 => Insn = LdWide(RR("HL"), NN(Text), 3)
         /\ cpu.PC = 259 => Insn = Ld(R("B"), N(3), 2)
         /\ cpu.PC = 261 => /\ Insn.op = "call" /\ Insn.cc = "always" /\ Insn.len = 3
                            /\ Insn.nn = 265
         /\ cpu.PC = 264 => Insn = Plain("halt", 1)
         /\ cpu.PC = 265 => Insn = Ld(R("A"), Mem("HL", 0), 1)
         /\ cpu.PC = 266 => Insn = OnPort("out_(n)_a", KbPort)
         /\ cpu.PC = 268 => Insn = OnPair("inc16", "HL")
         /\ cpu.PC = 269 => Insn.op = "djnz" /\ Insn.len = 2 /\ Insn.e = -6
         /\ cpu.PC = 271 => Insn = Ret("always")
<1> DEFINE place == Places(256, Hello)
<1> HIDE DEF Text, KbPort
<1>1. /\ Hello[1] = LdWide(RR("HL"), NN(Text), 3) /\ Hello[2] = Ld(R("B"), N(3), 2)
      /\ Hello[3] = Branch("call", "always", 5, 3) /\ Hello[4] = Plain("halt", 1)
  BY DEF Hello
<1>2. /\ Hello[5] = Ld(R("A"), Mem("HL", 0), 1) /\ Hello[6] = OnPort("out_(n)_a", KbPort)
      /\ Hello[7] = OnPair("inc16", "HL") /\ Hello[8] = Branch("djnz", "always", 5, 2)
      /\ Hello[9] = Ret("always")
  BY DEF Hello
<1>3. /\ Hello[1].len = 3 /\ Hello[2].len = 2 /\ Hello[3].len = 3 /\ Hello[4].len = 1
      /\ Hello[5].len = 1 /\ Hello[6].len = 2 /\ Hello[7].len = 1 /\ Hello[8].len = 2
      /\ Hello[9].len = 1
  BY <1>1, <1>2, Straight
<1>4. \A k \in {1, 2, 4, 5, 6, 7, 9} : "to" \notin DOMAIN Hello[k]
  BY <1>1, <1>2, Straight
<1>5. DOMAIN Hello = 1 .. 9 /\ Len(Hello) = 9
  BY DEF Hello
<1>6. IsListing(Hello, 9)
  BY <1>3, <1>5 DEF IsListing
<1>7. place[1] = 256 /\ \A k \in 1 .. 9 : place[k + 1] = place[k] + Hello[k].len
  BY <1>6, OwnPlaces
<1>8. /\ place[1] = 256 /\ place[2] = 259 /\ place[3] = 261 /\ place[4] = 264 /\ place[5] = 265
      /\ place[6] = 266 /\ place[7] = 268 /\ place[8] = 269 /\ place[9] = 271
  <2> HIDE DEF place
  <2> QED BY <1>3, <1>7
<1>9. \A k \in 1 .. 9 : CodeOf["hello"][place[k]] = Linked(Hello[k], place[k + 1], place)
  <2>1. "hello" \in DOMAIN Listing /\ Listing["hello"] = Hello
    BY DEF Listing
  <2> QED BY <1>6, <2>1, OwnLines
<1>10. Insn = CodeOf["hello"][cpu.PC]
  BY GuestIs
<1> HIDE DEF place
<1>11. \A k \in 1 .. 9 : cpu.PC = place[k] => Insn = Linked(Hello[k], place[k + 1], place)
  BY <1>9, <1>10
<1>12. \A k \in {1, 2, 4, 5, 6, 7, 9} : cpu.PC = place[k] => Insn = Hello[k]
  BY <1>4, <1>11, NoJump
<1>13. /\ cpu.PC = 256 => Insn = Hello[1]
       /\ cpu.PC = 259 => Insn = Hello[2]
       /\ cpu.PC = 264 => Insn = Hello[4]
       /\ cpu.PC = 265 => Insn = Hello[5]
       /\ cpu.PC = 266 => Insn = Hello[6]
       /\ cpu.PC = 268 => Insn = Hello[7]
       /\ cpu.PC = 271 => Insn = Hello[9]
  BY <1>8, <1>12
<1>14. cpu.PC = 261 => Insn.op = "call" /\ Insn.cc = "always" /\ Insn.len = 3 /\ Insn.nn = 265
  BY <1>1, <1>8, <1>11, Jumping
<1>15. cpu.PC = 269 => Insn.op = "djnz" /\ Insn.len = 2 /\ Insn.e = -6
  BY <1>2, <1>7, <1>8, <1>11, <1>3, Jumping
<1> QED BY <1>1, <1>2, <1>13, <1>14, <1>15

\* Its steps.
LEMMA HelloGoes ==
  ASSUME Loaded, Home, Step, guest.program = "hello", HelloAt(guest, cpu, mem, output)
  PROVE  GuestInv'
<1> DEFINE b == OfB(cpu)
           Printed(o, k) == Sends(o, k, guest.x, guest.y, 111)
           Reached(t, m) == /\ Moves(t, m) /\ Sane(t) /\ m \in Store /\ m[Ticks] = mem[Ticks]
                            /\ HelloAt(guest, t, m, output)
<1>1. guest \in Guests /\ mem \in Store /\ Sane(cpu) /\ cpu \in CpuState /\ output \in Signals
  BY DEF Home, Others, Sane
<1>2. Calm /\ TextIs(mem, guest.x, guest.y, 111) /\ cpu.iff1
  BY <1>1 DEF HelloAt, Sane, Calm
<1>3. ~cpu.halted
  BY StepRuns DEF Running
<1>4. /\ 0 \in Levels /\ 65534 \in Levels /\ Lower(0) = 65534 /\ Higher(65534) = 0
      /\ 0 \in Slots /\ 65534 \in Slots \ {0}
  BY DEF Levels, Slots, Lower, Higher
<1>5. guest.x \in Byte /\ guest.y \in Byte /\ cpu.HL \in Words /\ OfC(cpu) \in Byte
  BY <1>1, GuestIs, StateParts, HalvesOfWord DEF OfC
<1>6. /\ Plus(256, 3) = 259 /\ Plus(259, 2) = 261 /\ Plus(261, 3) = 264 /\ Plus(265, 1) = 266
      /\ Plus(266, 2) = 268 /\ Plus(268, 1) = 269 /\ Plus(269, 2) = 271 /\ Plus(271, -6) = 265
  BY DEF Plus
<1>7. ASSUME cpu.PC = 256 PROVE \E t, m : Reached(t, m)
  <2>1. Insn = LdWide(RR("HL"), NN(Text), 3) /\ Text \in Words
    BY <1>1, <1>7, HelloCode, WordIs
  <2>2. PICK t : /\ Moves(t, mem)
                 /\ Becomes(t, 259, cpu.SP, cpu.A, cpu.F, cpu.BC, cpu.DE, Text)
    BY <1>2, <1>6, <1>7, <2>1, LoadsPair
  <2>3. cpu.SP = 0
    BY <1>7 DEF HelloAt
  <2>4. HelloAt(guest, t, mem, output)
    BY <1>3, <1>7, <2>2 DEF HelloAt, Becomes
  <2> QED BY <1>1, <1>4, <2>2, <2>3, <2>4, StaysSane
<1>8. ASSUME cpu.PC = 259 PROVE \E t, m : Reached(t, m)
  <2>1. Insn = Ld(R("B"), N(3), 2)
    BY <1>1, <1>8, HelloCode
  <2>2. PICK t : /\ Moves(t, mem)
                 /\ Becomes(t, 261, cpu.SP, cpu.A, cpu.F, 256 * 3 + OfC(cpu), cpu.DE, cpu.HL)
    <3>1. Insn.len = 2 /\ 3 \in Byte /\ "B" \in Simple
      BY <2>1, ByteIs DEF Ld, Simple
    <3>2. Operand(Fetched, N(3)) = 3
      BY <1>2, <3>1, OperandsOf
    <3> QED BY <1>2, <1>6, <1>8, <2>1, <3>1, <3>2, LoadsRegister
  <2>3. cpu.SP = 0
    BY <1>8 DEF HelloAt
  <2>4. OfB(t) = 3
    <3>1. PICK k \in Byte : k = 3
      BY ByteIs
    <3>2. High(256 * k + OfC(cpu)) = k
      BY <1>5, WordOfHalves
    <3> QED BY <2>2, <3>1, <3>2 DEF Becomes, OfB
  <2>5. HelloAt(guest, t, mem, output)
    BY <1>3, <1>8, <2>2, <2>4 DEF HelloAt, Becomes
  <2> QED BY <1>1, <1>4, <2>2, <2>3, <2>5, StaysSane
<1>9. ASSUME cpu.PC = 261 PROVE \E t, m : Reached(t, m)
  <2>1. Insn.op = "call" /\ Insn.cc = "always" /\ Insn.len = 3 /\ Insn.nn = 265
    BY <1>1, <1>9, HelloCode
  <2>2. cpu.SP = 0 /\ 265 \in Words
    BY <1>9, WordIs DEF HelloAt
  <2>3. PICK t, m : /\ Moves(t, m) /\ Written(m, 65534, 264)
                    /\ Becomes(t, 265, 65534, cpu.A, cpu.F, cpu.BC, cpu.DE, cpu.HL)
    BY <1>1, <1>2, <1>4, <1>6, <1>9, <2>1, <2>2, Calls
  <2>4. /\ TextIs(m, guest.x, guest.y, 111) /\ Holds(m, 65534, 264) /\ m[Ticks] = mem[Ticks]
        /\ m \in Store
    BY <1>2, <2>3 DEF TextIs, Written, WrittenOver, Cells
  <2>5. HelloAt(guest, t, m, output)
    BY <1>3, <1>9, <2>3, <2>4 DEF HelloAt, Becomes, OfB
  <2> QED BY <1>1, <1>4, <2>3, <2>4, <2>5, StaysSane
<1>10. ASSUME cpu.PC = 264 PROVE \E t, m : Reached(t, m)
  <2>1. Insn = Plain("halt", 1)
    BY <1>1, <1>10, HelloCode
  <2>2. PICK t : t = [cpu EXCEPT !.halted = TRUE]
    OBVIOUS
  <2>3. Moves(t, mem)
    BY <1>2, <2>1, <2>2, Halts
  <2>4. /\ Sane(t) /\ t.PC = cpu.PC /\ t.SP = cpu.SP /\ t.iff1 = cpu.iff1
    BY <1>1, <2>2, Halted
  <2>5. HelloAt(guest, t, mem, output)
    BY <1>10, <2>4 DEF HelloAt
  <2> QED BY <1>1, <2>3, <2>4, <2>5
<1>11. ASSUME cpu.PC = 265 PROVE \E t, m : Reached(t, m)
  <2>1. Insn = Ld(R("A"), Mem("HL", 0), 1)
    BY <1>1, <1>11, HelloCode
  <2>2. b \in 1 .. 3 /\ cpu.HL = Text + 3 - b /\ cpu.SP = 65534
    BY <1>11 DEF HelloAt
  <2>3. mem[cpu.HL] \in Byte
    BY <1>1, <2>2 DEF Store, Cells
  <2>4. PICK t : /\ Moves(t, mem)
                 /\ Becomes(t, 266, cpu.SP, mem[cpu.HL], cpu.F, cpu.BC, cpu.DE, cpu.HL)
    <3>1. Insn.len = 1 /\ "A" \in Simple
      BY <2>1 DEF Ld, Simple
    <3>2. Operand(Fetched, Mem("HL", 0)) = mem[cpu.HL]
      BY <1>2, <3>1, OperandsOf
    <3> QED BY <1>2, <1>6, <1>11, <2>1, <2>3, <3>1, <3>2, LoadsRegister
  <2>5. HelloAt(guest, t, mem, output)
    BY <1>3, <1>11, <2>4 DEF HelloAt, Becomes, OfB
  <2> QED BY <1>1, <1>4, <2>2, <2>4, <2>5, StaysSane
<1>12. ASSUME cpu.PC = 266
       PROVE  \E t : \E data \in Byte :
                /\ Writes(t, KbPort, data) /\ Sane(t)
                /\ HelloAt(guest, t, mem, Append(output, [port |-> KbPort, data |-> data]))
  <2>1. Insn = OnPort("out_(n)_a", KbPort)
    BY <1>1, <1>12, HelloCode
  <2>2. /\ b \in 1 .. 3 /\ cpu.HL = Text + 3 - b /\ cpu.SP = 65534 /\ cpu.A = mem[cpu.HL]
        /\ Printed(output, 3 - b)
    BY <1>12 DEF HelloAt
  <2>3. cpu.A \in Byte /\ KbPort \in Byte
    BY <1>1, StateParts, ByteIs
  <2>4. PICK t : /\ Writes(t, KbPort, cpu.A)
                 /\ Becomes(t, 268, cpu.SP, cpu.A, cpu.F, cpu.BC, cpu.DE, cpu.HL)
    BY <1>2, <1>6, <1>12, <2>1, WritesA
  <2> DEFINE o == Append(output, [port |-> KbPort, data |-> cpu.A])
  <2>5. Printed(o, 4 - b)
    <3>1. PICK k \in 0 .. 2 : k = 3 - b /\ 4 - b = k + 1
      BY <2>2
    <3>2. /\ k = 0 => cpu.A = guest.x
          /\ k = 1 => cpu.A = guest.y
          /\ k = 2 => cpu.A = 111
      BY <1>2, <2>2, <3>1 DEF TextIs
    <3>3. PICK x \in [port : Byte, data : Byte] :
            x = [port |-> KbPort, data |-> cpu.A] /\ x.data = cpu.A
      <4>1. PICK x : x = [port |-> KbPort, data |-> cpu.A]
        OBVIOUS
      <4>2. x \in [port : Byte, data : Byte] /\ x.data = cpu.A
        BY <2>3, <4>1
      <4> QED BY <4>1, <4>2
    <3> QED BY <1>1, <2>2, <3>1, <3>2, <3>3, SendsMore
  <2> HIDE DEF o
  <2>6. HelloAt(guest, t, mem, o)
    BY <1>3, <1>12, <2>4, <2>5 DEF HelloAt, Becomes, OfB
  <2> QED BY <1>1, <1>4, <2>2, <2>3, <2>4, <2>6, StaysSane DEF o
<1>13. ASSUME cpu.PC = 268 PROVE \E t, m : Reached(t, m)
  <2>1. Insn = OnPair("inc16", "HL")
    BY <1>1, <1>13, HelloCode
  <2>2. b \in 1 .. 3 /\ cpu.HL = Text + 3 - b /\ cpu.SP = 65534
    BY <1>13 DEF HelloAt
  <2>3. Plus(cpu.HL, 1) = Text + 4 - b
    BY <2>2 DEF Plus
  <2>4. PICK t : /\ Moves(t, mem)
                 /\ Becomes(t, 269, cpu.SP, cpu.A, cpu.F, cpu.BC, cpu.DE, Text + 4 - b)
    BY <1>2, <1>6, <1>13, <2>1, <2>3, CountsPair
  <2>5. HelloAt(guest, t, mem, output)
    BY <1>3, <1>13, <2>4 DEF HelloAt, Becomes, OfB
  <2> QED BY <1>1, <1>4, <2>2, <2>4, <2>5, StaysSane
<1>14. ASSUME cpu.PC = 269 PROVE \E t, m : Reached(t, m)
  <2>1. Insn.op = "djnz" /\ Insn.len = 2 /\ Insn.e = -6
    BY <1>1, <1>14, HelloCode
  <2>2. b \in 1 .. 3 /\ cpu.HL = Text + 4 - b /\ cpu.SP = 65534 /\ Printed(output, 4 - b)
    BY <1>14 DEF HelloAt
  <2>3. PICK t, c : /\ Moves(t, mem) /\ c = (b + 255) % 256
                    /\ Becomes(t, IF c > 0 THEN Plus(Plus(cpu.PC, 2), -6) ELSE Plus(cpu.PC, 2),
                               cpu.SP, cpu.A, cpu.F, 256 * c + OfC(cpu), cpu.DE, cpu.HL)
    BY <1>2, <2>1, CountsDown
  <2>4. c = b - 1 /\ c \in Byte
    <3>1. b = 1 \/ b = 2 \/ b = 3
      BY <2>2
    <3>2. (1 + 255) % 256 = 0 /\ (2 + 255) % 256 = 1 /\ (3 + 255) % 256 = 2
      OBVIOUS
    <3>3. c = b - 1
      BY <2>3, <3>1, <3>2
    <3> QED BY <3>1, <3>3, ByteIs
  <2>5. OfB(t) = c
    <3>1. t.BC = 256 * c + OfC(cpu)
      BY <2>3 DEF Becomes
    <3>2. High(256 * c + OfC(cpu)) = c
      BY <1>5, <2>4, WordOfHalves
    <3> QED BY <3>1, <3>2 DEF OfB
  <2>6. t.PC = IF c > 0 THEN 265 ELSE 271
    BY <1>6, <1>14, <2>3 DEF Becomes
  <2>7. 4 - b = 3 - c /\ (c > 0 => c \in 1 .. 3) /\ (~(c > 0) => 4 - b = 3)
    BY <2>2, <2>4
  <2>8. HelloAt(guest, t, mem, output)
    BY <1>3, <1>14, <2>2, <2>3, <2>4, <2>5, <2>6, <2>7 DEF HelloAt, Becomes
  <2> QED BY <1>1, <1>4, <2>2, <2>3, <2>8, StaysSane
<1>15. ASSUME cpu.PC = 271 PROVE \E t, m : Reached(t, m)
  <2>1. Insn = Ret("always")
    BY <1>1, <1>15, HelloCode
  <2>2. cpu.SP = 65534 /\ Holds(mem, 65534, 264) /\ 264 \in Words
    BY <1>15, WordIs DEF HelloAt
  <2>3. PICK t : /\ Moves(t, mem)
                 /\ Becomes(t, 264, 0, cpu.A, cpu.F, cpu.BC, cpu.DE, cpu.HL)
    BY <1>2, <1>4, <2>1, <2>2, Returns
  <2>4. HelloAt(guest, t, mem, output)
    BY <1>3, <1>15, <2>3 DEF HelloAt, Becomes
  <2> QED BY <1>1, <1>4, <2>3, <2>4, StaysSane
<1>16. ASSUME NEW t, NEW m, Reached(t, m) PROVE GuestInv'
  <2>1. ProgramAt(guest, t, m, output)
    BY <1>16, Which
  <2> HIDE DEF Ticks
  <2> QED BY <1>16, <2>1, GoesOn
<1>17. cpu.PC = 266 => GuestInv'
  <2>1. SUFFICES ASSUME cpu.PC = 266 PROVE GuestInv'
    OBVIOUS
  <2>2. PICK t : \E data \in Byte :
                /\ Writes(t, KbPort, data) /\ Sane(t)
                /\ HelloAt(guest, t, mem, Append(output, [port |-> KbPort, data |-> data]))
    BY <1>12, <2>1
  <2>3. PICK data \in Byte :
                /\ Writes(t, KbPort, data) /\ Sane(t)
                /\ HelloAt(guest, t, mem, Append(output, [port |-> KbPort, data |-> data]))
    BY <2>2
  <2>4. ProgramAt(guest, t, mem, Append(output, [port |-> KbPort, data |-> data]))
    BY <2>3, Which
  <2>5. KbPort \in Byte
    BY ByteIs
  <2> HIDE DEF KbPort
  <2> QED BY <2>3, <2>4, <2>5, GoesOnWriting
<1>18. cpu.PC \in {256, 259, 261, 264, 265, 266, 268, 269, 271}
  BY DEF HelloAt
<1> HIDE DEF Reached
<1> QED BY <1>7, <1>8, <1>9, <1>10, <1>11, <1>13, <1>14, <1>15, <1>16, <1>17, <1>18

-----------------------------------------------------------------------------
(***************************************************************************)
(* copying                                                                 *)
(***************************************************************************)
\* Its lines.
LEMMA CopyingCode ==
  ASSUME Loaded, guest \in Guests, guest.program = "copying"
  PROVE  /\ cpu.PC = 256 => Insn = LdWide(RR("HL"), NN(Text), 3)
         /\ cpu.PC = 259 => Insn = LdWide(RR("DE"), NN(Copy), 3)
         /\ cpu.PC = 262 => Insn = Ld(R("B"), N(3), 2)
         /\ cpu.PC = 264 => Insn = Ld(R("A"), Mem("HL", 0), 1)
         /\ cpu.PC = 265 => Insn = Plain("ex_de_hl", 1)
         /\ cpu.PC = 266 => Insn = Ld(Mem("HL", 0), R("A"), 1)
         /\ cpu.PC = 267 => Insn = Plain("ex_de_hl", 1)
         /\ cpu.PC = 268 => Insn = OnPair("inc16", "HL")
         /\ cpu.PC = 269 => Insn = OnPair("inc16", "DE")
         /\ cpu.PC = 270 => Insn.op = "djnz" /\ Insn.len = 2 /\ Insn.e = -8
         /\ cpu.PC = 272 => Insn = Plain("halt", 1)
<1> DEFINE place == Places(256, Copying)
<1> HIDE DEF Text, Copy, Table, Ticks, KbPort
<1>1. /\ Copying[1] = LdWide(RR("HL"), NN(Text), 3)
      /\ Copying[2] = LdWide(RR("DE"), NN(Copy), 3)
      /\ Copying[3] = Ld(R("B"), N(3), 2)
      /\ Copying[4] = Ld(R("A"), Mem("HL", 0), 1)
  BY DEF Copying
<1>2. /\ Copying[5] = Plain("ex_de_hl", 1)
      /\ Copying[6] = Ld(Mem("HL", 0), R("A"), 1)
      /\ Copying[7] = Plain("ex_de_hl", 1)
      /\ Copying[8] = OnPair("inc16", "HL")
  BY DEF Copying
<1>3. /\ Copying[9] = OnPair("inc16", "DE")
      /\ Copying[10] = Branch("djnz", "always", 4, 2)
      /\ Copying[11] = Plain("halt", 1)
  BY DEF Copying
<1>4. /\ Copying[1].len = 3 /\ "to" \notin DOMAIN Copying[1]
      /\ Copying[2].len = 3 /\ "to" \notin DOMAIN Copying[2]
      /\ Copying[3].len = 2 /\ "to" \notin DOMAIN Copying[3]
      /\ Copying[4].len = 1 /\ "to" \notin DOMAIN Copying[4]
  BY <1>1, Straight
<1>5. /\ Copying[5].len = 1 /\ "to" \notin DOMAIN Copying[5]
      /\ Copying[6].len = 1 /\ "to" \notin DOMAIN Copying[6]
      /\ Copying[7].len = 1 /\ "to" \notin DOMAIN Copying[7]
      /\ Copying[8].len = 1 /\ "to" \notin DOMAIN Copying[8]
  BY <1>2, Straight
<1>6. /\ Copying[9].len = 1 /\ "to" \notin DOMAIN Copying[9]
      /\ Copying[10].len = 2
      /\ Copying[11].len = 1 /\ "to" \notin DOMAIN Copying[11]
  BY <1>3, Straight
<1>7. IsListing(Copying, 11)
  <2>1. DOMAIN Copying = 1 .. 11 /\ Len(Copying) = 11
    BY DEF Copying
  <2>2. \A k \in 1 .. 11 : Copying[k].len \in Nat \ {0}
    BY <1>4, <1>5, <1>6
  <2> QED BY <2>1, <2>2 DEF IsListing
<1>8. place[1] = 256 /\ \A k \in 1 .. 11 : place[k + 1] = place[k] + Copying[k].len
  BY <1>7, OwnPlaces
<1>9. /\ place[1] = 256 /\ place[2] = 259 /\ place[3] = 262 /\ place[4] = 264
      /\ place[5] = 265 /\ place[6] = 266 /\ place[7] = 267 /\ place[8] = 268
      /\ place[9] = 269 /\ place[10] = 270 /\ place[11] = 272 /\ place[12] = 273
  <2> HIDE DEF place
  <2> QED BY <1>4, <1>5, <1>6, <1>8
<1>10. \A k \in 1 .. 11 : CodeOf["copying"][place[k]] = Linked(Copying[k], place[k + 1], place)
  <2>1. "copying" \in DOMAIN Listing /\ Listing["copying"] = Copying
    BY DEF Listing
  <2> QED BY <1>7, <2>1, OwnLines
<1>11. Insn = CodeOf["copying"][cpu.PC]
  BY GuestIs
<1> HIDE DEF place
<1>12. \A k \in 1 .. 11 : cpu.PC = place[k] => Insn = Linked(Copying[k], place[k + 1], place)
  BY <1>10, <1>11
<1>13. \A k \in (1 .. 11) \ {10} : cpu.PC = place[k] => Insn = Copying[k]
  BY <1>4, <1>5, <1>6, <1>12, NoJump
<1>14. /\ cpu.PC = 256 => Insn = Copying[1]
       /\ cpu.PC = 259 => Insn = Copying[2]
       /\ cpu.PC = 262 => Insn = Copying[3]
       /\ cpu.PC = 264 => Insn = Copying[4]
  BY <1>9, <1>13
<1>15. /\ cpu.PC = 265 => Insn = Copying[5]
       /\ cpu.PC = 266 => Insn = Copying[6]
       /\ cpu.PC = 267 => Insn = Copying[7]
       /\ cpu.PC = 268 => Insn = Copying[8]
  BY <1>9, <1>13
<1>16. /\ cpu.PC = 269 => Insn = Copying[9]
       /\ cpu.PC = 272 => Insn = Copying[11]
  BY <1>9, <1>13
<1>17. cpu.PC = 270 => Insn.op = "djnz" /\ Insn.len = 2 /\ Insn.e = -8
  BY <1>3, <1>9, <1>12, Jumping
<1> QED BY <1>1, <1>2, <1>3, <1>14, <1>15, <1>16, <1>17

\* Its steps.
LEMMA CopyingGoes ==
  ASSUME Loaded, Home, Step, guest.program = "copying", CopyingAt(guest, cpu, mem, output)
  PROVE  GuestInv'
<1> DEFINE b == OfB(cpu)
           Copied(v, k) == /\ k >= 1 => v[Copy] = v[Text]
                           /\ k >= 2 => v[Copy + 1] = v[Text + 1]
                           /\ k >= 3 => v[Copy + 2] = v[Text + 2]
           Reached(t, m) == /\ Moves(t, m) /\ Sane(t) /\ m \in Store /\ m[Ticks] = mem[Ticks]
                            /\ CopyingAt(guest, t, m, output)
<1>1. guest \in Guests /\ mem \in Store /\ Sane(cpu) /\ cpu \in CpuState /\ output \in Signals
  BY DEF Home, Others, Sane
<1>2. Calm /\ cpu.iff1 /\ cpu.SP = 0 /\ 0 \in Levels
  BY <1>1 DEF CopyingAt, Sane, Calm, Levels
<1>3. ~cpu.halted
  BY StepRuns DEF Running
<1>4. /\ Plus(256, 3) = 259 /\ Plus(259, 3) = 262 /\ Plus(262, 2) = 264 /\ Plus(264, 1) = 265
      /\ Plus(265, 1) = 266 /\ Plus(266, 1) = 267 /\ Plus(267, 1) = 268 /\ Plus(268, 1) = 269
      /\ Plus(269, 1) = 270 /\ Plus(270, 2) = 272 /\ Plus(272, -8) = 264
  BY DEF Plus
<1>5. OfC(cpu) \in Byte
  BY <1>1, StateParts, HalvesOfWord DEF OfC
<1>6. ASSUME cpu.PC = 256 PROVE \E t, m : Reached(t, m)
  <2>1. Insn = LdWide(RR("HL"), NN(Text), 3) /\ Text \in Words
    BY <1>1, <1>6, CopyingCode, WordIs
  <2>2. PICK t : /\ Moves(t, mem)
                 /\ Becomes(t, 259, cpu.SP, cpu.A, cpu.F, cpu.BC, cpu.DE, Text)
    BY <1>2, <1>4, <1>6, <2>1, LoadsPair
  <2>3. CopyingAt(guest, t, mem, output)
    BY <1>3, <1>6, <2>2 DEF CopyingAt, Becomes
  <2> QED BY <1>1, <1>2, <2>2, <2>3, StaysSane
<1>7. ASSUME cpu.PC = 259 PROVE \E t, m : Reached(t, m)
  <2>1. Insn = LdWide(RR("DE"), NN(Copy), 3) /\ Copy \in Words
    BY <1>1, <1>7, CopyingCode, WordIs
  <2>2. PICK t : /\ Moves(t, mem)
                 /\ Becomes(t, 262, cpu.SP, cpu.A, cpu.F, cpu.BC, Copy, cpu.HL)
    BY <1>2, <1>4, <1>7, <2>1, LoadsPair
  <2>3. CopyingAt(guest, t, mem, output)
    BY <1>3, <1>7, <2>2 DEF CopyingAt, Becomes
  <2> QED BY <1>1, <1>2, <2>2, <2>3, StaysSane
<1>8. ASSUME cpu.PC = 262 PROVE \E t, m : Reached(t, m)
  <2>1. Insn = Ld(R("B"), N(3), 2)
    BY <1>1, <1>8, CopyingCode
  <2>2. Insn.len = 2 /\ 3 \in Byte /\ "B" \in Simple
    BY <2>1, ByteIs DEF Ld, Simple
  <2>3. Operand(Fetched, N(3)) = 3
    BY <1>2, <2>2, OperandsOf
  <2>4. PICK t : /\ Moves(t, mem)
                 /\ Becomes(t, 264, cpu.SP, cpu.A, cpu.F, 256 * 3 + OfC(cpu), cpu.DE, cpu.HL)
    BY <1>2, <1>4, <1>8, <2>1, <2>2, <2>3, LoadsRegister
  <2>5. OfB(t) = 3
    <3>1. PICK k \in Byte : k = 3
      BY ByteIs
    <3>2. High(256 * k + OfC(cpu)) = k
      BY <1>5, WordOfHalves
    <3> QED BY <2>4, <3>1, <3>2 DEF Becomes, OfB
  <2>6. CopyingAt(guest, t, mem, output)
    BY <1>3, <1>8, <2>4, <2>5 DEF CopyingAt, Becomes
  <2> QED BY <1>1, <1>2, <2>4, <2>6, StaysSane
<1>9. ASSUME cpu.PC = 264 PROVE \E t, m : Reached(t, m)
  <2>1. Insn = Ld(R("A"), Mem("HL", 0), 1)
    BY <1>1, <1>9, CopyingCode
  <2>2. b \in 1 .. 3 /\ cpu.HL = Text + (3 - b)
    BY <1>9 DEF CopyingAt
  <2>3. mem[cpu.HL] \in Byte
    BY <1>1, <2>2 DEF Store, Cells
  <2>4. Insn.len = 1 /\ "A" \in Simple
    BY <2>1 DEF Ld, Simple
  <2>5. Operand(Fetched, Mem("HL", 0)) = mem[cpu.HL]
    BY <1>2, <2>4, OperandsOf
  <2>6. PICK t : /\ Moves(t, mem)
                 /\ Becomes(t, 265, cpu.SP, mem[cpu.HL], cpu.F, cpu.BC, cpu.DE, cpu.HL)
    BY <1>2, <1>4, <1>9, <2>1, <2>3, <2>4, <2>5, LoadsRegister
  <2>7. CopyingAt(guest, t, mem, output)
    BY <1>3, <1>9, <2>6 DEF CopyingAt, Becomes, OfB
  <2> QED BY <1>1, <1>2, <2>6, <2>7, StaysSane
<1>10. ASSUME cpu.PC = 265 PROVE \E t, m : Reached(t, m)
  <2>1. Insn = Plain("ex_de_hl", 1)
    BY <1>1, <1>10, CopyingCode
  <2>2. PICK t : /\ Moves(t, mem)
                 /\ Becomes(t, 266, cpu.SP, cpu.A, cpu.F, cpu.BC, cpu.HL, cpu.DE)
    BY <1>2, <1>4, <1>10, <2>1, Exchanges
  <2>3. CopyingAt(guest, t, mem, output)
    BY <1>3, <1>10, <2>2 DEF CopyingAt, Becomes, OfB
  <2> QED BY <1>1, <1>2, <2>2, <2>3, StaysSane
<1>11. ASSUME cpu.PC = 266 PROVE \E t, m : Reached(t, m)
  <2>1. Insn = Ld(Mem("HL", 0), R("A"), 1)
    BY <1>1, <1>11, CopyingCode
  <2>2. /\ b \in 1 .. 3 /\ cpu.DE = Text + (3 - b) /\ cpu.HL = Copy + (3 - b)
        /\ cpu.A = mem[cpu.DE] /\ Copied(mem, 3 - b)
    BY <1>11 DEF CopyingAt
  <2>3. Insn.len = 1 /\ cpu.HL \in Cells /\ cpu.A \in Byte
    BY <1>1, <2>1, <2>2, StateParts DEF Ld, Cells
  <2>4. /\ Operand(Fetched, R("A")) = cpu.A /\ Address(Fetched, Mem("HL", 0)) = cpu.HL
        /\ Mem("HL", 0).at # "register"
    BY <1>2, <2>3, OperandsOf, Addresses
  <2>5. PICK t, m : /\ Moves(t, m) /\ ByteWritten(m, cpu.HL, cpu.A)
                    /\ Becomes(t, 267, cpu.SP, cpu.A, cpu.F, cpu.BC, cpu.DE, cpu.HL)
    BY <1>1, <1>2, <1>4, <1>11, <2>1, <2>3, <2>4, StoresByte
  <2>6. \A c \in {Text, Text + 1, Text + 2, Ticks} : m[c] = mem[c]
    BY <2>2, <2>5 DEF ByteWritten, Cells
  <2>7. Copied(m, 4 - b)
    <3>1. b = 3 => m[Copy] = mem[Text]
      BY <2>2, <2>5 DEF ByteWritten
    <3>2. b = 2 => m[Copy + 1] = mem[Text + 1] /\ m[Copy] = mem[Copy]
      BY <2>2, <2>5 DEF ByteWritten, Cells
    <3>3. b = 1 => m[Copy + 2] = mem[Text + 2] /\ m[Copy] = mem[Copy] /\ m[Copy + 1] = mem[Copy + 1]
      BY <2>2, <2>5 DEF ByteWritten, Cells
    <3> QED BY <2>2, <2>6, <3>1, <3>2, <3>3
  <2>8. CopyingAt(guest, t, m, output)
    BY <1>3, <1>11, <2>5, <2>2, <2>7 DEF CopyingAt, Becomes, OfB
  <2>9. m \in Store /\ m[Ticks] = mem[Ticks]
    BY <2>5, <2>6 DEF ByteWritten
  <2> QED BY <1>1, <1>2, <2>5, <2>8, <2>9, StaysSane
<1>12. ASSUME cpu.PC = 267 PROVE \E t, m : Reached(t, m)
  <2>1. Insn = Plain("ex_de_hl", 1)
    BY <1>1, <1>12, CopyingCode
  <2>2. PICK t : /\ Moves(t, mem)
                 /\ Becomes(t, 268, cpu.SP, cpu.A, cpu.F, cpu.BC, cpu.HL, cpu.DE)
    BY <1>2, <1>4, <1>12, <2>1, Exchanges
  <2>3. CopyingAt(guest, t, mem, output)
    BY <1>3, <1>12, <2>2 DEF CopyingAt, Becomes, OfB
  <2> QED BY <1>1, <1>2, <2>2, <2>3, StaysSane
<1>13. ASSUME cpu.PC = 268 PROVE \E t, m : Reached(t, m)
  <2>1. Insn = OnPair("inc16", "HL")
    BY <1>1, <1>13, CopyingCode
  <2>2. b \in 1 .. 3 /\ cpu.HL = Text + (3 - b)
    BY <1>13 DEF CopyingAt
  <2>3. Plus(cpu.HL, 1) = Text + (4 - b)
    BY <2>2 DEF Plus
  <2>4. PICK t : /\ Moves(t, mem)
                 /\ Becomes(t, 269, cpu.SP, cpu.A, cpu.F, cpu.BC, cpu.DE, Text + (4 - b))
    BY <1>2, <1>4, <1>13, <2>1, <2>3, CountsPair
  <2>5. CopyingAt(guest, t, mem, output)
    BY <1>3, <1>13, <2>4 DEF CopyingAt, Becomes, OfB
  <2> QED BY <1>1, <1>2, <2>4, <2>5, StaysSane
<1>14. ASSUME cpu.PC = 269 PROVE \E t, m : Reached(t, m)
  <2>1. Insn = OnPair("inc16", "DE")
    BY <1>1, <1>14, CopyingCode
  <2>2. b \in 1 .. 3 /\ cpu.DE + 1 = Copy + (4 - b)
    BY <1>14 DEF CopyingAt
  <2>3. Plus(cpu.DE, 1) = Copy + (4 - b)
    BY <1>2, <2>2, StateParts, WordIs DEF Plus, Calm
  <2>4. PICK t : /\ Moves(t, mem)
                 /\ Becomes(t, 270, cpu.SP, cpu.A, cpu.F, cpu.BC, Copy + (4 - b), cpu.HL)
    BY <1>2, <1>4, <1>14, <2>1, <2>3, CountsPair
  <2>5. CopyingAt(guest, t, mem, output)
    BY <1>3, <1>14, <2>4 DEF CopyingAt, Becomes, OfB
  <2> QED BY <1>1, <1>2, <2>4, <2>5, StaysSane
<1>15. ASSUME cpu.PC = 270 PROVE \E t, m : Reached(t, m)
  <2>1. Insn.op = "djnz" /\ Insn.len = 2 /\ Insn.e = -8
    BY <1>1, <1>15, CopyingCode
  <2>2. /\ b \in 1 .. 3 /\ cpu.HL = Text + (4 - b) /\ cpu.DE = Copy + (4 - b)
        /\ Copied(mem, 4 - b)
    BY <1>15 DEF CopyingAt
  <2>3. PICK t, c : /\ Moves(t, mem) /\ c = (b + 255) % 256
                    /\ Becomes(t, IF c > 0 THEN Plus(Plus(cpu.PC, 2), -8) ELSE Plus(cpu.PC, 2),
                               cpu.SP, cpu.A, cpu.F, 256 * c + OfC(cpu), cpu.DE, cpu.HL)
    BY <1>2, <2>1, CountsDown
  <2>4. c = b - 1 /\ c \in Byte
    BY <2>2, <2>3, OneLess
  <2>5. OfB(t) = c /\ t.PC = IF c > 0 THEN 264 ELSE 272
    <3>1. High(256 * c + OfC(cpu)) = c
      BY <2>4, <1>5, WordOfHalves
    <3> QED BY <1>4, <1>15, <2>3, <3>1 DEF Becomes, OfB
  <2>6. /\ 4 - b = 3 - c /\ (c > 0 => c \in 1 .. 3) /\ (~(c > 0) => 3 - c = 3)
        /\ t.HL = Text + (3 - c) /\ t.DE = Copy + (3 - c) /\ Copied(mem, 3 - c)
    <3>1. 4 - b = 3 - c /\ (c > 0 => c \in 1 .. 3) /\ (~(c > 0) => 3 - c = 3)
      BY <2>2, <2>4
    <3> QED BY <2>2, <2>3, <3>1 DEF Becomes
  <2>7. CopyingAt(guest, t, mem, output)
    BY <1>3, <1>2, <2>3, <2>5, <2>6 DEF CopyingAt, Becomes
  <2> QED BY <1>1, <1>2, <2>3, <2>7, StaysSane
<1>16. ASSUME cpu.PC = 272 PROVE \E t, m : Reached(t, m)
  <2>1. Insn = Plain("halt", 1)
    BY <1>1, <1>16, CopyingCode
  <2>2. PICK t : t = [cpu EXCEPT !.halted = TRUE]
    OBVIOUS
  <2>3. Moves(t, mem)
    BY <1>2, <2>1, <2>2, Halts
  <2>4. Sane(t) /\ t.PC = cpu.PC /\ t.SP = cpu.SP /\ t.iff1 = cpu.iff1
    BY <1>1, <2>2, Halted
  <2>5. CopyingAt(guest, t, mem, output)
    BY <1>2, <1>16, <2>4 DEF CopyingAt
  <2> QED BY <1>1, <2>3, <2>4, <2>5
<1>17. ASSUME NEW t, NEW m, Reached(t, m) PROVE GuestInv'
  <2>1. ProgramAt(guest, t, m, output)
    BY <1>17, Which
  <2> HIDE DEF Ticks
  <2> QED BY <1>17, <2>1, GoesOn
<1>18. cpu.PC \in {256, 259, 262, 264, 265, 266, 267, 268, 269, 270, 272}
  BY DEF CopyingAt
<1> HIDE DEF Reached
<1> QED BY <1>6, <1>7, <1>8, <1>9, <1>10, <1>11, <1>12, <1>13, <1>14, <1>15, <1>16, <1>17, <1>18

-----------------------------------------------------------------------------
(***************************************************************************)
(* filling                                                                 *)
(***************************************************************************)
\* Its lines.
LEMMA FillingCode ==
  ASSUME Loaded, guest \in Guests, guest.program = "filling"
  PROVE  /\ cpu.PC = 256 => Insn = LdWide(RR("DE"), NN(3), 3)
         /\ cpu.PC = 259 => Insn = LdWide(RR("HL"), NN(Text), 3)
         /\ cpu.PC = 262 => Insn = OnPort("in_a_(n)", 8)
         /\ cpu.PC = 264 => Insn = Ld(Mem("HL", 0), R("A"), 1)
         /\ cpu.PC = 265 => Insn = OnPort("out_(n)_a", KbPort)
         /\ cpu.PC = 267 => Insn = OnPair("inc16", "HL")
         /\ cpu.PC = 268 => Insn = OnPair("dec16", "DE")
         /\ cpu.PC = 269 => Insn = Ld(R("A"), R("D"), 1)
         /\ cpu.PC = 270 => Insn = Math("or", R("E"), 1)
         /\ cpu.PC = 271 => /\ Insn.op = "jp" /\ Insn.cc = "NZ" /\ Insn.len = 3
                            /\ Insn.nn = 262
         /\ cpu.PC = 274 => Insn = Plain("halt", 1)
<1> DEFINE place == Places(256, Filling)
<1> HIDE DEF Text, Copy, Table, Ticks, KbPort
<1>1. /\ Filling[1] = LdWide(RR("DE"), NN(3), 3)
      /\ Filling[2] = LdWide(RR("HL"), NN(Text), 3)
      /\ Filling[3] = OnPort("in_a_(n)", 8)
      /\ Filling[4] = Ld(Mem("HL", 0), R("A"), 1)
  BY DEF Filling
<1>2. /\ Filling[5] = OnPort("out_(n)_a", KbPort)
      /\ Filling[6] = OnPair("inc16", "HL")
      /\ Filling[7] = OnPair("dec16", "DE")
      /\ Filling[8] = Ld(R("A"), R("D"), 1)
  BY DEF Filling
<1>3. /\ Filling[9] = Math("or", R("E"), 1)
      /\ Filling[10] = Branch("jp", "NZ", 3, 3)
      /\ Filling[11] = Plain("halt", 1)
  BY DEF Filling
<1>4. /\ Filling[1].len = 3 /\ "to" \notin DOMAIN Filling[1]
      /\ Filling[2].len = 3 /\ "to" \notin DOMAIN Filling[2]
      /\ Filling[3].len = 2 /\ "to" \notin DOMAIN Filling[3]
      /\ Filling[4].len = 1 /\ "to" \notin DOMAIN Filling[4]
  BY <1>1, Straight
<1>5. /\ Filling[5].len = 2 /\ "to" \notin DOMAIN Filling[5]
      /\ Filling[6].len = 1 /\ "to" \notin DOMAIN Filling[6]
      /\ Filling[7].len = 1 /\ "to" \notin DOMAIN Filling[7]
      /\ Filling[8].len = 1 /\ "to" \notin DOMAIN Filling[8]
  BY <1>2, Straight
<1>6. /\ Filling[9].len = 1 /\ "to" \notin DOMAIN Filling[9]
      /\ Filling[10].len = 3
      /\ Filling[11].len = 1 /\ "to" \notin DOMAIN Filling[11]
  BY <1>3, Straight
<1>7. IsListing(Filling, 11)
  <2>1. DOMAIN Filling = 1 .. 11 /\ Len(Filling) = 11
    BY DEF Filling
  <2>2. \A k \in 1 .. 11 : Filling[k].len \in Nat \ {0}
    BY <1>4, <1>5, <1>6
  <2> QED BY <2>1, <2>2 DEF IsListing
<1>8. place[1] = 256 /\ \A k \in 1 .. 11 : place[k + 1] = place[k] + Filling[k].len
  BY <1>7, OwnPlaces
<1>9. /\ place[1] = 256 /\ place[2] = 259 /\ place[3] = 262 /\ place[4] = 264
      /\ place[5] = 265 /\ place[6] = 267 /\ place[7] = 268 /\ place[8] = 269
      /\ place[9] = 270 /\ place[10] = 271 /\ place[11] = 274 /\ place[12] = 275
  <2> HIDE DEF place
  <2> QED BY <1>4, <1>5, <1>6, <1>8
<1>10. \A k \in 1 .. 11 : CodeOf["filling"][place[k]] = Linked(Filling[k], place[k + 1], place)
  <2>1. "filling" \in DOMAIN Listing /\ Listing["filling"] = Filling
    BY DEF Listing
  <2> QED BY <1>7, <2>1, OwnLines
<1>11. Insn = CodeOf["filling"][cpu.PC]
  BY GuestIs
<1> HIDE DEF place
<1>12. \A k \in 1 .. 11 : cpu.PC = place[k] => Insn = Linked(Filling[k], place[k + 1], place)
  BY <1>10, <1>11
<1>13. \A k \in (1 .. 11) \ {10} : cpu.PC = place[k] => Insn = Filling[k]
  BY <1>4, <1>5, <1>6, <1>12, NoJump
<1>14. /\ cpu.PC = 256 => Insn = Filling[1]
       /\ cpu.PC = 259 => Insn = Filling[2]
       /\ cpu.PC = 262 => Insn = Filling[3]
       /\ cpu.PC = 264 => Insn = Filling[4]
  BY <1>9, <1>13
<1>15. /\ cpu.PC = 265 => Insn = Filling[5]
       /\ cpu.PC = 267 => Insn = Filling[6]
       /\ cpu.PC = 268 => Insn = Filling[7]
       /\ cpu.PC = 269 => Insn = Filling[8]
  BY <1>9, <1>13
<1>16. /\ cpu.PC = 270 => Insn = Filling[9]
       /\ cpu.PC = 274 => Insn = Filling[11]
  BY <1>9, <1>13
<1>17. cpu.PC = 271 => /\ Insn.op = "jp" /\ Insn.cc = "NZ" /\ Insn.len = 3
                       /\ Insn.nn = 262
  BY <1>3, <1>9, <1>12, Jumping
<1> QED BY <1>1, <1>2, <1>3, <1>14, <1>15, <1>16, <1>17

\* Its steps.
LEMMA FillingGoes ==
  ASSUME Loaded, Home, Step, guest.program = "filling", FillingAt(guest, cpu, mem, output)
  PROVE  GuestInv'
<1> DEFINE d == cpu.DE
           Reached(t, m) == /\ Moves(t, m) /\ Sane(t) /\ m \in Store /\ m[Ticks] = mem[Ticks]
                            /\ FillingAt(guest, t, m, output)
           After(data) == Append(output, [port |-> KbPort, data |-> data])
           Wrote(t, data) == /\ Writes(t, KbPort, data) /\ Sane(t)
                             /\ FillingAt(guest, t, mem, After(data))
           Received(t, m) == /\ Receives(t, m, 8) /\ Sane(t) /\ m \in Store /\ m[Ticks] = mem[Ticks]
                             /\ FillingAt(guest, t, m, output)
<1>1. guest \in Guests /\ mem \in Store /\ Sane(cpu) /\ cpu \in CpuState /\ output \in Signals
  BY DEF Home, Others, Sane
<1>2. Calm /\ cpu.iff1 /\ cpu.SP = 0 /\ 0 \in Levels
  BY <1>1 DEF FillingAt, Sane, Calm, Levels
<1>3. ~cpu.halted
  BY StepRuns DEF Running
<1>4. /\ Plus(256, 3) = 259 /\ Plus(259, 3) = 262 /\ Plus(262, 2) = 264 /\ Plus(264, 1) = 265
      /\ Plus(265, 2) = 267 /\ Plus(267, 1) = 268 /\ Plus(268, 1) = 269 /\ Plus(269, 1) = 270
      /\ Plus(270, 1) = 271 /\ Plus(271, 3) = 274
  BY DEF Plus
<1>5. ASSUME cpu.PC = 256 PROVE \E t, m : Reached(t, m)
  <2>1. Insn = LdWide(RR("DE"), NN(3), 3) /\ 3 \in Words
    BY <1>1, <1>5, FillingCode, WordIs
  <2>2. PICK t : /\ Moves(t, mem)
                 /\ Becomes(t, 259, cpu.SP, cpu.A, cpu.F, cpu.BC, 3, cpu.HL)
    BY <1>2, <1>4, <1>5, <2>1, LoadsPair
  <2>3. FillingAt(guest, t, mem, output)
    BY <1>3, <1>5, <2>2 DEF FillingAt, Becomes
  <2> QED BY <1>1, <1>2, <2>2, <2>3, StaysSane
<1>6. ASSUME cpu.PC = 259 PROVE \E t, m : Reached(t, m)
  <2>1. Insn = LdWide(RR("HL"), NN(Text), 3) /\ Text \in Words
    BY <1>1, <1>6, FillingCode, WordIs
  <2>2. PICK t : /\ Moves(t, mem)
                 /\ Becomes(t, 262, cpu.SP, cpu.A, cpu.F, cpu.BC, cpu.DE, Text)
    BY <1>2, <1>4, <1>6, <2>1, LoadsPair
  <2>3. FillingAt(guest, t, mem, output)
    BY <1>3, <1>6, <2>2 DEF FillingAt, Becomes
  <2> QED BY <1>1, <1>2, <2>2, <2>3, StaysSane
<1>7. ASSUME cpu.PC = 262 PROVE \E t, m : Received(t, m)
  <2>1. Insn = OnPort("in_a_(n)", 8)
    BY <1>1, <1>7, FillingCode
  <2>2. PICK t : \E data \in Byte :
                 /\ Receives(t, mem, 8)
                 /\ Becomes(t, 264, cpu.SP, data, cpu.F, cpu.BC, cpu.DE, cpu.HL)
    BY <1>2, <1>4, <1>7, <2>1, ReadsA
  <2>3. FillingAt(guest, t, mem, output)
    BY <1>3, <1>7, <2>2 DEF FillingAt, Becomes
  <2> QED BY <1>1, <1>2, <2>2, <2>3, StaysSane
<1>8. ASSUME cpu.PC = 264 PROVE \E t, m : Reached(t, m)
  <2>1. Insn = Ld(Mem("HL", 0), R("A"), 1)
    BY <1>1, <1>8, FillingCode
  <2>2. /\ d \in 1 .. 3 /\ cpu.HL = Text + (3 - d)
        /\ Sends(output, 3 - d, mem[Text], mem[Text + 1], mem[Text + 2])
    BY <1>8 DEF FillingAt
  <2>3. Insn.len = 1 /\ cpu.HL \in Cells /\ cpu.A \in Byte
    BY <1>1, <2>1, <2>2, StateParts DEF Ld, Cells
  <2>4. /\ Operand(Fetched, R("A")) = cpu.A /\ Address(Fetched, Mem("HL", 0)) = cpu.HL
        /\ Mem("HL", 0).at # "register"
    BY <1>2, <2>3, OperandsOf, Addresses
  <2>5. PICK t, m : /\ Moves(t, m) /\ ByteWritten(m, cpu.HL, cpu.A)
                    /\ Becomes(t, 265, cpu.SP, cpu.A, cpu.F, cpu.BC, cpu.DE, cpu.HL)
    BY <1>1, <1>2, <1>4, <1>8, <2>1, <2>3, <2>4, StoresByte
  <2>6. m \in Store /\ m[Ticks] = mem[Ticks] /\ m[cpu.HL] = cpu.A
    BY <2>2, <2>5 DEF ByteWritten, Cells
  <2>7. Sends(output, 3 - d, m[Text], m[Text + 1], m[Text + 2])
    BY <2>2, <2>5 DEF ByteWritten, Cells, Sends
  <2>8. FillingAt(guest, t, m, output)
    BY <1>3, <1>2, <2>5, <2>2, <2>6, <2>7 DEF FillingAt, Becomes
  <2> QED BY <1>1, <1>2, <2>5, <2>8, <2>6, StaysSane
<1>9. ASSUME cpu.PC = 265 PROVE \E t : \E data \in Byte : Wrote(t, data)
  <2>1. Insn = OnPort("out_(n)_a", KbPort)
    BY <1>1, <1>9, FillingCode
  <2>2. /\ d \in 1 .. 3 /\ cpu.HL = Text + (3 - d) /\ mem[cpu.HL] = cpu.A
        /\ Sends(output, 3 - d, mem[Text], mem[Text + 1], mem[Text + 2])
    BY <1>9 DEF FillingAt
  <2>3. cpu.A \in Byte
    BY <1>1, StateParts
  <2>4. PICK t : /\ Writes(t, KbPort, cpu.A)
                 /\ Becomes(t, 267, cpu.SP, cpu.A, cpu.F, cpu.BC, cpu.DE, cpu.HL)
    BY <1>2, <1>4, <1>9, <2>1, WritesA
  <2>5. Sends(After(cpu.A), 4 - d, mem[Text], mem[Text + 1], mem[Text + 2])
    <3>1. PICK k \in 0 .. 2 : k = 3 - d /\ 4 - d = k + 1
      BY <2>2
    <3>2. /\ k = 0 => cpu.A = mem[Text]
          /\ k = 1 => cpu.A = mem[Text + 1]
          /\ k = 2 => cpu.A = mem[Text + 2]
      BY <2>2, <3>1
    <3>3. PICK x \in [port : Byte, data : Byte] :
            x = [port |-> KbPort, data |-> cpu.A] /\ x.data = cpu.A
      BY <2>3, AsSignal
    <3> QED BY <1>1, <2>2, <3>1, <3>2, <3>3, SendsMore
  <2> HIDE DEF After
  <2>6. FillingAt(guest, t, mem, After(cpu.A))
    BY <1>3, <1>2, <2>4, <2>2, <2>5 DEF FillingAt, Becomes
  <2> QED BY <1>1, <1>2, <2>3, <2>4, <2>6, StaysSane
<1>10. ASSUME cpu.PC = 267 PROVE \E t, m : Reached(t, m)
  <2>1. Insn = OnPair("inc16", "HL")
    BY <1>1, <1>10, FillingCode
  <2>2. d \in 1 .. 3 /\ cpu.HL = Text + (3 - d)
    BY <1>10 DEF FillingAt
  <2>3. Plus(cpu.HL, 1) = Text + (4 - d)
    BY <2>2 DEF Plus
  <2>4. PICK t : /\ Moves(t, mem)
                 /\ Becomes(t, 268, cpu.SP, cpu.A, cpu.F, cpu.BC, cpu.DE, Text + (4 - d))
    BY <1>2, <1>4, <1>10, <2>1, <2>3, CountsPair
  <2>5. FillingAt(guest, t, mem, output)
    BY <1>3, <1>10, <2>4 DEF FillingAt, Becomes
  <2> QED BY <1>1, <1>2, <2>4, <2>5, StaysSane
<1>11. ASSUME cpu.PC = 268 PROVE \E t, m : Reached(t, m)
  <2>1. Insn = OnPair("dec16", "DE")
    BY <1>1, <1>11, FillingCode
  <2>2. /\ d \in 1 .. 3 /\ cpu.HL = Text + (4 - d)
        /\ Sends(output, 4 - d, mem[Text], mem[Text + 1], mem[Text + 2])
    BY <1>11 DEF FillingAt
  <2>3. Plus(cpu.DE, -1) = d - 1
    BY <2>2 DEF Plus
  <2>4. PICK t : /\ Moves(t, mem)
                 /\ Becomes(t, 269, cpu.SP, cpu.A, cpu.F, cpu.BC, d - 1, cpu.HL)
    BY <1>2, <1>4, <1>11, <2>1, <2>3, CountsPair
  <2>5. t.DE \in 0 .. 2 /\ 4 - d = 3 - t.DE
    BY <2>2, <2>4 DEF Becomes
  <2>6. FillingAt(guest, t, mem, output)
    BY <1>3, <1>11, <2>4, <1>2, <2>2, <2>5 DEF FillingAt, Becomes
  <2> QED BY <1>1, <1>2, <2>4, <2>6, StaysSane
<1>12. ASSUME cpu.PC = 269 PROVE \E t, m : Reached(t, m)
  <2>1. Insn = Ld(R("A"), R("D"), 1)
    BY <1>1, <1>12, FillingCode
  <2>2. d \in 0 .. 2
    BY <1>12 DEF FillingAt
  <2>3. OfD(cpu) = 0 /\ 0 \in Byte
    BY <2>2, ByteIs DEF OfD, High
  <2>4. Insn.len = 1 /\ "A" \in Simple
    BY <2>1 DEF Ld, Simple
  <2>5. Operand(Fetched, R("D")) = 0
    BY <1>2, <2>4, <2>3, OperandsOf
  <2>6. PICK t : /\ Moves(t, mem)
                 /\ Becomes(t, 270, cpu.SP, 0, cpu.F, cpu.BC, cpu.DE, cpu.HL)
    BY <1>2, <1>4, <1>12, <2>1, <2>3, <2>4, <2>5, LoadsRegister
  <2>7. FillingAt(guest, t, mem, output)
    BY <1>3, <1>12, <2>6 DEF FillingAt, Becomes
  <2> QED BY <1>1, <1>2, <2>6, <2>7, StaysSane
<1>13. ASSUME cpu.PC = 270 PROVE \E t, m : Reached(t, m)
  <2>1. Insn = Math("or", R("E"), 1)
    BY <1>1, <1>13, FillingCode
  <2>2. d \in 0 .. 2 /\ cpu.A = 0
    BY <1>13 DEF FillingAt
  <2>3. OfE(cpu) = d /\ d \in Byte
    BY <2>2, ByteIs DEF OfE, Low
  <2>4. Insn.len = 1 /\ "or" \in MathNames
    BY <2>1 DEF Math, MathNames
  <2>5. Operand(Fetched, R("E")) = d
    BY <1>2, <2>4, <2>3, OperandsOf
  <2>6. PICK t, r : /\ Moves(t, mem) /\ r = Arithmetic("or", cpu.A, d, cpu.F)
                    /\ Becomes(t, 271, cpu.SP, r.x, r.f, cpu.BC, cpu.DE, cpu.HL)
    BY <1>2, <1>4, <1>13, <2>1, <2>3, <2>4, <2>5, Computes
  <2>7. "Z" \in r.f <=> d = 0
    <3>1. r = Or(cpu.A, d)
      BY <2>6 DEF Arithmetic
    <3> QED BY <2>2, <2>3, <3>1, OrOfZero
  <2>8. FillingAt(guest, t, mem, output)
    BY <1>3, <1>13, <2>6, <2>7 DEF FillingAt, Becomes
  <2> QED BY <1>1, <1>2, <2>6, <2>8, StaysSane
<1>14. ASSUME cpu.PC = 271 PROVE \E t, m : Reached(t, m)
  <2>1. Insn.op = "jp" /\ Insn.cc = "NZ" /\ Insn.len = 3 /\ Insn.nn = 262 /\ 262 \in Words
    BY <1>1, <1>14, FillingCode, WordIs
  <2>2. /\ d \in 0 .. 2 /\ cpu.HL = Text + (3 - d) /\ ("Z" \in cpu.F <=> d = 0)
        /\ Sends(output, 3 - d, mem[Text], mem[Text + 1], mem[Text + 2])
    BY <1>14 DEF FillingAt
  <2>3. PICK t : /\ Moves(t, mem)
                 /\ Becomes(t, IF Condition(cpu.F, "NZ") THEN 262 ELSE Plus(cpu.PC, 3), cpu.SP,
                            cpu.A, cpu.F, cpu.BC, cpu.DE, cpu.HL)
    BY <1>2, <2>1, Jumps
  <2>4. t.PC = IF d = 0 THEN 274 ELSE 262
    BY <1>4, <1>14, <2>2, <2>3 DEF Becomes, Condition
  <2>5. FillingAt(guest, t, mem, output)
    BY <1>3, <1>14, <2>3, <1>2, <2>2, <2>4 DEF FillingAt, Becomes
  <2> QED BY <1>1, <1>2, <2>3, <2>5, StaysSane
<1>15. ASSUME cpu.PC = 274 PROVE \E t, m : Reached(t, m)
  <2>1. Insn = Plain("halt", 1)
    BY <1>1, <1>15, FillingCode
  <2>2. PICK t : t = [cpu EXCEPT !.halted = TRUE]
    OBVIOUS
  <2>3. Moves(t, mem)
    BY <1>2, <2>1, <2>2, Halts
  <2>4. /\ Sane(t) /\ t.PC = cpu.PC /\ t.SP = cpu.SP /\ t.iff1 = cpu.iff1 /\ t.A = cpu.A
        /\ t.F = cpu.F /\ t.BC = cpu.BC /\ t.DE = cpu.DE /\ t.HL = cpu.HL /\ t.IX = cpu.IX
        /\ t.enable_interrupts_next_cycle = cpu.enable_interrupts_next_cycle
        /\ t.interrupt_mode = cpu.interrupt_mode
    BY <1>1, <2>2, Halted
  <2>5. FillingAt(guest, t, mem, output)
    BY <1>2, <1>15, <2>4 DEF FillingAt
  <2> QED BY <1>1, <2>3, <2>4, <2>5
<1>16. ASSUME NEW t, NEW m, Reached(t, m) PROVE GuestInv'
  <2>1. ProgramAt(guest, t, m, output)
    BY <1>16, Which
  <2> HIDE DEF Ticks
  <2> QED BY <1>16, <2>1, GoesOn
<1>17. ASSUME NEW t, NEW m, Received(t, m) PROVE GuestInv'
  <2>1. ProgramAt(guest, t, m, output)
    BY <1>17, Which
  <2>2. Countable => 8 # Acknowledge
    BY DEF Countable
  <2> HIDE DEF Ticks
  <2> QED BY <1>17, <2>1, <2>2, GoesOnReading
<1>18. ASSUME NEW t, NEW data \in Byte, Wrote(t, data) PROVE GuestInv'
  <2>1. ProgramAt(guest, t, mem, After(data))
    BY <1>18, Which
  <2>2. KbPort \in Byte
    BY ByteIs
  <2> HIDE DEF KbPort
  <2> QED BY <1>18, <2>1, <2>2, GoesOnWriting
<1>19. cpu.PC \in {256, 259, 262, 264, 265, 267, 268, 269, 270, 271, 274}
  BY DEF FillingAt
<1> HIDE DEF Reached, Received, Wrote
<1> QED BY <1>5, <1>6, <1>7, <1>8, <1>9, <1>10, <1>11, <1>12, <1>13, <1>14, <1>15, <1>16, <1>17,
   <1>18, <1>19

-----------------------------------------------------------------------------
(***************************************************************************)
(* stacking                                                                *)
(***************************************************************************)
\* Its lines.
LEMMA StackingCode ==
  ASSUME Loaded, guest \in Guests, guest.program = "stacking"
  PROVE  /\ cpu.PC = 256 => Insn = LdWide(RR("HL"), NN(4660), 3)
         /\ cpu.PC = 259 => Insn = LdWide(RR("BC"), NN(22136), 3)
         /\ cpu.PC = 262 => Insn = OnPair("push", "BC")
         /\ cpu.PC = 263 => Insn = OnPair("ex_(sp)", "HL")
         /\ cpu.PC = 264 => Insn = OnPair("pop", "BC")
         /\ cpu.PC = 265 => Insn = Plain("exx", 1)
         /\ cpu.PC = 266 => Insn = Plain("ex_af", 1)
         /\ cpu.PC = 267 => /\ Insn.op = "call" /\ Insn.cc = "always" /\ Insn.len = 3
                            /\ Insn.nn = 280
         /\ cpu.PC = 270 => Insn = Plain("exx", 1)
         /\ cpu.PC = 271 => Insn = Plain("ex_af", 1)
         /\ cpu.PC = 272 => Insn = LdWide(At(Copy), RR("HL"), 3)
         /\ cpu.PC = 275 => Insn = LdWide(At(Copy + 2), RR("BC"), 4)
         /\ cpu.PC = 279 => Insn = Plain("halt", 1)
         /\ cpu.PC = 280 => Insn = Rst(8)
         /\ cpu.PC = 281 => Insn = LdWide(RR("HL"), NN(Table), 3)
         /\ cpu.PC = 284 => Insn = OnPair("jp_(rr)", "HL")
<1> DEFINE place == Places(256, Stacking)
<1> HIDE DEF Text, Copy, Table, Ticks, KbPort
<1>1. /\ Stacking[1] = LdWide(RR("HL"), NN(4660), 3)
      /\ Stacking[2] = LdWide(RR("BC"), NN(22136), 3)
      /\ Stacking[3] = OnPair("push", "BC")
      /\ Stacking[4] = OnPair("ex_(sp)", "HL")
  BY DEF Stacking
<1>2. /\ Stacking[5] = OnPair("pop", "BC")
      /\ Stacking[6] = Plain("exx", 1)
      /\ Stacking[7] = Plain("ex_af", 1)
      /\ Stacking[8] = Branch("call", "always", 14, 3)
  BY DEF Stacking
<1>3. /\ Stacking[9] = Plain("exx", 1)
      /\ Stacking[10] = Plain("ex_af", 1)
      /\ Stacking[11] = LdWide(At(Copy), RR("HL"), 3)
      /\ Stacking[12] = LdWide(At(Copy + 2), RR("BC"), 4)
  BY DEF Stacking
<1>4. /\ Stacking[13] = Plain("halt", 1)
      /\ Stacking[14] = Rst(8)
      /\ Stacking[15] = LdWide(RR("HL"), NN(Table), 3)
      /\ Stacking[16] = OnPair("jp_(rr)", "HL")
  BY DEF Stacking
<1>5. /\ Stacking[1].len = 3 /\ "to" \notin DOMAIN Stacking[1]
      /\ Stacking[2].len = 3 /\ "to" \notin DOMAIN Stacking[2]
      /\ Stacking[3].len = 1 /\ "to" \notin DOMAIN Stacking[3]
      /\ Stacking[4].len = 1 /\ "to" \notin DOMAIN Stacking[4]
  BY <1>1, Straight
<1>6. /\ Stacking[5].len = 1 /\ "to" \notin DOMAIN Stacking[5]
      /\ Stacking[6].len = 1 /\ "to" \notin DOMAIN Stacking[6]
      /\ Stacking[7].len = 1 /\ "to" \notin DOMAIN Stacking[7]
      /\ Stacking[8].len = 3
  BY <1>2, Straight
<1>7. /\ Stacking[9].len = 1 /\ "to" \notin DOMAIN Stacking[9]
      /\ Stacking[10].len = 1 /\ "to" \notin DOMAIN Stacking[10]
      /\ Stacking[11].len = 3 /\ "to" \notin DOMAIN Stacking[11]
      /\ Stacking[12].len = 4 /\ "to" \notin DOMAIN Stacking[12]
  BY <1>3, Straight
<1>8. /\ Stacking[13].len = 1 /\ "to" \notin DOMAIN Stacking[13]
      /\ Stacking[14].len = 1 /\ "to" \notin DOMAIN Stacking[14]
      /\ Stacking[15].len = 3 /\ "to" \notin DOMAIN Stacking[15]
      /\ Stacking[16].len = 1 /\ "to" \notin DOMAIN Stacking[16]
  BY <1>4, Straight
<1>9. IsListing(Stacking, 16)
  <2>1. DOMAIN Stacking = 1 .. 16 /\ Len(Stacking) = 16
    BY DEF Stacking
  <2>2. \A k \in 1 .. 16 : Stacking[k].len \in Nat \ {0}
    BY <1>5, <1>6, <1>7, <1>8
  <2> QED BY <2>1, <2>2 DEF IsListing
<1>10. place[1] = 256 /\ \A k \in 1 .. 16 : place[k + 1] = place[k] + Stacking[k].len
  BY <1>9, OwnPlaces
<1>11. /\ place[1] = 256 /\ place[2] = 259 /\ place[3] = 262 /\ place[4] = 263
       /\ place[5] = 264 /\ place[6] = 265 /\ place[7] = 266 /\ place[8] = 267
       /\ place[9] = 270 /\ place[10] = 271 /\ place[11] = 272 /\ place[12] = 275
       /\ place[13] = 279 /\ place[14] = 280 /\ place[15] = 281 /\ place[16] = 284
       /\ place[17] = 285
  <2> HIDE DEF place
  <2> QED BY <1>5, <1>6, <1>7, <1>8, <1>10
<1>12. \A k \in 1 .. 16 : CodeOf["stacking"][place[k]] = Linked(Stacking[k], place[k + 1], place)
  <2>1. "stacking" \in DOMAIN Listing /\ Listing["stacking"] = Stacking
    BY DEF Listing
  <2> QED BY <1>9, <2>1, OwnLines
<1>13. Insn = CodeOf["stacking"][cpu.PC]
  BY GuestIs
<1> HIDE DEF place
<1>14. \A k \in 1 .. 16 : cpu.PC = place[k] => Insn = Linked(Stacking[k], place[k + 1], place)
  BY <1>12, <1>13
<1>15. \A k \in (1 .. 16) \ {8} : cpu.PC = place[k] => Insn = Stacking[k]
  BY <1>5, <1>6, <1>7, <1>8, <1>14, NoJump
<1>16. /\ cpu.PC = 256 => Insn = Stacking[1]
       /\ cpu.PC = 259 => Insn = Stacking[2]
       /\ cpu.PC = 262 => Insn = Stacking[3]
       /\ cpu.PC = 263 => Insn = Stacking[4]
  BY <1>11, <1>15
<1>17. /\ cpu.PC = 264 => Insn = Stacking[5]
       /\ cpu.PC = 265 => Insn = Stacking[6]
       /\ cpu.PC = 266 => Insn = Stacking[7]
  BY <1>11, <1>15
<1>18. /\ cpu.PC = 270 => Insn = Stacking[9]
       /\ cpu.PC = 271 => Insn = Stacking[10]
       /\ cpu.PC = 272 => Insn = Stacking[11]
       /\ cpu.PC = 275 => Insn = Stacking[12]
  BY <1>11, <1>15
<1>19. /\ cpu.PC = 279 => Insn = Stacking[13]
       /\ cpu.PC = 280 => Insn = Stacking[14]
       /\ cpu.PC = 281 => Insn = Stacking[15]
       /\ cpu.PC = 284 => Insn = Stacking[16]
  BY <1>11, <1>15
<1>20. cpu.PC = 267 => /\ Insn.op = "call" /\ Insn.cc = "always" /\ Insn.len = 3
                       /\ Insn.nn = 280
  BY <1>2, <1>11, <1>14, Jumping
<1> QED BY <1>1, <1>2, <1>3, <1>4, <1>16, <1>17, <1>18, <1>19, <1>20

\* Its steps.
LEMMA StackingGoes ==
  ASSUME Loaded, Home, Step, guest.program = "stacking", StackingAt(guest, cpu, mem, output)
  PROVE  GuestInv'
<1> DEFINE Tabled(v) == v[Table] = 8 /\ v[Table + 1] = 0
           Reached(t, m) == /\ Moves(t, m) /\ Sane(t) /\ m \in Store /\ m[Ticks] = mem[Ticks]
                            /\ StackingAt(guest, t, m, output)
<1>1. guest \in Guests /\ mem \in Store /\ Sane(cpu) /\ cpu \in CpuState /\ output \in Signals
  BY DEF Home, Others, Sane
<1>2. Calm /\ cpu.iff1 /\ Tabled(mem)
  BY <1>1 DEF StackingAt, Sane, Calm
<1>3. ~cpu.halted
  BY StepRuns DEF Running
<1>4. /\ Plus(256, 3) = 259 /\ Plus(259, 3) = 262 /\ Plus(262, 1) = 263 /\ Plus(263, 1) = 264
      /\ Plus(264, 1) = 265 /\ Plus(265, 1) = 266 /\ Plus(266, 1) = 267 /\ Plus(267, 3) = 270
      /\ Plus(270, 1) = 271 /\ Plus(271, 1) = 272 /\ Plus(272, 3) = 275 /\ Plus(275, 4) = 279
      /\ Plus(280, 1) = 281 /\ Plus(281, 3) = 284
  BY DEF Plus
<1>5. /\ 0 \in Slots /\ 65534 \in Slots \ {0} /\ 65532 \in Slots \ {0} /\ 65534 \in Levels \ {0}
      /\ Lower(0) = 65534 /\ Lower(65534) = 65532 /\ Higher(65534) = 0 /\ Higher(65532) = 65534
      /\ 0 \in Levels /\ 65534 \in Levels /\ 65532 \in Levels
  BY DEF Slots, Lower, Higher, Levels
<1>6. ASSUME cpu.PC = 8 PROVE \E t, m : Reached(t, m)
  <2>1. Insn = Ret("always")
    BY <1>1, CommonCode, <1>6
  <2>2. \/ cpu.SP = 65534 /\ Holds(mem, 65534, 270)
        \/ cpu.SP = 65532 /\ Holds(mem, 65534, 270) /\ Holds(mem, 65532, 281)
    BY <1>6 DEF StackingAt
  <2>3. 270 \in Words /\ 281 \in Words
    BY WordIs
  <2>4. ASSUME cpu.SP = 65534 PROVE \E t, m : Reached(t, m)
    <3>1. PICK t : /\ Moves(t, mem)
                   /\ Becomes(t, 270, 0, cpu.A, cpu.F, cpu.BC, cpu.DE, cpu.HL)
      BY <1>2, <1>5, <2>1, <2>2, <2>3, <2>4, Returns
    <3>2. StackingAt(guest, t, mem, output)
      BY <1>3, <1>2, <1>6, <3>1 DEF StackingAt, Becomes
    <3> QED BY <1>1, <1>5, <3>1, <3>2, StaysSane
  <2>5. ASSUME cpu.SP = 65532 PROVE \E t, m : Reached(t, m)
    <3>1. PICK t : /\ Moves(t, mem)
                   /\ Becomes(t, 281, 65534, cpu.A, cpu.F, cpu.BC, cpu.DE, cpu.HL)
      BY <1>2, <1>5, <2>1, <2>2, <2>3, <2>5, Returns
    <3>2. StackingAt(guest, t, mem, output)
      BY <1>3, <1>2, <1>6, <2>2, <2>5, <3>1 DEF StackingAt, Becomes
    <3> QED BY <1>1, <1>5, <3>1, <3>2, StaysSane
  <2> QED BY <2>2, <2>4, <2>5
<1>7. ASSUME cpu.PC = 256 PROVE \E t, m : Reached(t, m)
  <2>1. Insn = LdWide(RR("HL"), NN(4660), 3) /\ 4660 \in Words
    BY <1>1, <1>7, StackingCode, WordIs
  <2>2. cpu.SP = 0
    BY <1>2, <1>7 DEF StackingAt
  <2>3. PICK t : /\ Moves(t, mem)
                 /\ Becomes(t, 259, cpu.SP, cpu.A, cpu.F, cpu.BC, cpu.DE, 4660)
    BY <1>2, <1>4, <1>7, <2>1, LoadsPair
  <2>4. StackingAt(guest, t, mem, output)
    BY <1>3, <1>7, <2>3 DEF StackingAt, Becomes
  <2> QED BY <1>1, <1>2, <1>5, <2>2, <2>3, <2>4, StaysSane
<1>8. ASSUME cpu.PC = 259 PROVE \E t, m : Reached(t, m)
  <2>1. Insn = LdWide(RR("BC"), NN(22136), 3) /\ 22136 \in Words
    BY <1>1, <1>8, StackingCode, WordIs
  <2>2. cpu.SP = 0
    BY <1>2, <1>8 DEF StackingAt
  <2>3. PICK t : /\ Moves(t, mem)
                 /\ Becomes(t, 262, cpu.SP, cpu.A, cpu.F, 22136, cpu.DE, cpu.HL)
    BY <1>2, <1>4, <1>8, <2>1, LoadsPair
  <2>4. StackingAt(guest, t, mem, output)
    BY <1>3, <1>8, <2>3 DEF StackingAt, Becomes
  <2> QED BY <1>1, <1>2, <1>5, <2>2, <2>3, <2>4, StaysSane
<1>9. ASSUME cpu.PC = 262 PROVE \E t, m : Reached(t, m)
  <2>1. Insn = OnPair("push", "BC")
    BY <1>1, <1>9, StackingCode
  <2>2. cpu.SP = 0 /\ cpu.BC = 22136 /\ 22136 \in Words /\ WideRegister(cpu, "BC") = cpu.BC
    BY <1>9, WordIs DEF StackingAt, WideRegister
  <2>3. PICK t, m : /\ Moves(t, m) /\ Written(m, 65534, 22136)
                    /\ Becomes(t, 263, 65534, cpu.A, cpu.F, cpu.BC, cpu.DE, cpu.HL)
    BY <1>1, <1>2, <1>5, <1>4, <1>9, <2>1, <2>2, PushesPair
  <2>4. /\ Tabled(m) /\ m[Ticks] = mem[Ticks] /\ m \in Store /\ Holds(m, 65534, 22136)
    BY <1>2, <2>2, <2>3 DEF Written, WrittenOver, Cells, Stack
  <2>5. StackingAt(guest, t, m, output)
    BY <1>3, <1>9, <2>3, <1>2, <2>4 DEF StackingAt, Becomes
  <2> QED BY <1>1, <1>2, <1>5, <2>2, <2>3, <2>5, <2>4, StaysSane
<1>10. ASSUME cpu.PC = 263 PROVE \E t, m : Reached(t, m)
  <2>1. Insn = OnPair("ex_(sp)", "HL")
    BY <1>1, <1>10, StackingCode
  <2>2. /\ cpu.SP = 65534 /\ cpu.HL = 4660 /\ 22136 \in Words /\ Holds(mem, cpu.SP, 22136)
    BY <1>10, WordIs DEF StackingAt
  <2>3. PICK t, m : /\ Moves(t, m) /\ Written(m, 65534, 4660)
                    /\ Becomes(t, 264, 65534, cpu.A, cpu.F, cpu.BC, cpu.DE, 22136)
    BY <1>1, <1>2, <1>5, <1>4, <1>10, <2>1, <2>2, ExchangesTop
  <2>4. /\ Tabled(m) /\ m[Ticks] = mem[Ticks] /\ m \in Store /\ Holds(m, 65534, 4660)
    BY <1>2, <2>2, <2>3 DEF Written, WrittenOver, Cells, Stack
  <2>5. StackingAt(guest, t, m, output)
    BY <1>3, <1>10, <2>3, <1>2, <2>4 DEF StackingAt, Becomes
  <2> QED BY <1>1, <1>2, <1>5, <2>2, <2>3, <2>5, <2>4, StaysSane
<1>11. ASSUME cpu.PC = 264 PROVE \E t, m : Reached(t, m)
  <2>1. Insn = OnPair("pop", "BC")
    BY <1>1, <1>11, StackingCode
  <2>2. /\ cpu.SP = 65534 /\ 4660 \in Words /\ Holds(mem, cpu.SP, 4660)
    BY <1>11, WordIs DEF StackingAt
  <2>3. PICK t : /\ Moves(t, mem)
                    /\ Becomes(t, 265, 0, cpu.A, cpu.F, 4660, cpu.DE, cpu.HL)
    BY <1>2, <1>5, <1>4, <1>11, <2>1, <2>2, PopsPair
  <2>4. StackingAt(guest, t, mem, output)
    BY <1>3, <1>11, <2>3, <1>2 DEF StackingAt, Becomes
  <2> QED BY <1>1, <1>2, <1>5, <2>2, <2>3, <2>4, StaysSane
<1>12. ASSUME cpu.PC = 265 PROVE \E t, m : Reached(t, m)
  <2>1. Insn = Plain("exx", 1)
    BY <1>1, <1>12, StackingCode
  <2>2. PICK t : /\ Moves(t, mem) /\ Passes(t, Plus(cpu.PC, 1))
                 /\ t.prime.BC = cpu.BC /\ t.prime.HL = cpu.HL
    BY <1>2, <2>1, ExchangesPairs
  <2>3. /\ Sane(t) /\ t.PC = Plus(cpu.PC, 1) /\ t.SP = cpu.SP /\ t.iff1 = cpu.iff1
        /\ t.halted = cpu.halted
    BY <1>1, <2>2, PassesSane
  <2>4. StackingAt(guest, t, mem, output)
    BY <1>2, <1>3, <1>4, <1>12, <2>2, <2>3 DEF StackingAt
  <2> QED BY <1>1, <2>2, <2>3, <2>4
<1>13. ASSUME cpu.PC = 266 PROVE \E t, m : Reached(t, m)
  <2>1. Insn = Plain("ex_af", 1)
    BY <1>1, <1>13, StackingCode
  <2>2. PICK t : /\ Moves(t, mem) /\ Passes(t, Plus(cpu.PC, 1))
                 /\ t.prime.BC = cpu.prime.BC /\ t.prime.HL = cpu.prime.HL
    BY <1>2, <2>1, ExchangesFlags
  <2>3. /\ Sane(t) /\ t.PC = Plus(cpu.PC, 1) /\ t.SP = cpu.SP /\ t.iff1 = cpu.iff1
        /\ t.halted = cpu.halted
    BY <1>1, <2>2, PassesSane
  <2>4. StackingAt(guest, t, mem, output)
    BY <1>2, <1>3, <1>4, <1>13, <2>2, <2>3 DEF StackingAt
  <2> QED BY <1>1, <2>2, <2>3, <2>4
<1>14. ASSUME cpu.PC = 267 PROVE \E t, m : Reached(t, m)
  <2>1. /\ Insn.op = "call" /\ Insn.cc = "always" /\ Insn.len = 3 /\ Insn.nn = 280
        /\ 280 \in Words
    BY <1>1, <1>14, StackingCode, WordIs
  <2>2. cpu.SP = 0
    BY <1>2, <1>14 DEF StackingAt
  <2>3. PICK t, m : /\ Moves(t, m) /\ Written(m, 65534, 270)
                    /\ Becomes(t, 280, 65534, cpu.A, cpu.F, cpu.BC, cpu.DE, cpu.HL)
    BY <1>1, <1>2, <1>5, <1>4, <1>14, <2>1, <2>2, Calls
  <2>4. /\ Tabled(m) /\ m[Ticks] = mem[Ticks] /\ m \in Store /\ Holds(m, 65534, 270)
    BY <1>2, <2>2, <2>3 DEF Written, WrittenOver, Cells, Stack
  <2>5. StackingAt(guest, t, m, output)
    BY <1>3, <1>14, <2>3, <1>2, <2>4 DEF StackingAt, Becomes
  <2> QED BY <1>1, <1>2, <1>5, <2>2, <2>3, <2>5, <2>4, StaysSane
<1>15. ASSUME cpu.PC = 270 PROVE \E t, m : Reached(t, m)
  <2>1. Insn = Plain("exx", 1)
    BY <1>1, <1>15, StackingCode
  <2>2. PICK t : /\ Moves(t, mem) /\ Passes(t, Plus(cpu.PC, 1))
                 /\ t.BC = cpu.prime.BC /\ t.HL = cpu.prime.HL
    BY <1>2, <2>1, ExchangesPairs
  <2>3. /\ Sane(t) /\ t.PC = Plus(cpu.PC, 1) /\ t.SP = cpu.SP /\ t.iff1 = cpu.iff1
        /\ t.halted = cpu.halted
    BY <1>1, <2>2, PassesSane
  <2>4. StackingAt(guest, t, mem, output)
    BY <1>2, <1>3, <1>4, <1>15, <2>2, <2>3 DEF StackingAt
  <2> QED BY <1>1, <2>2, <2>3, <2>4
<1>16. ASSUME cpu.PC = 271 PROVE \E t, m : Reached(t, m)
  <2>1. Insn = Plain("ex_af", 1)
    BY <1>1, <1>16, StackingCode
  <2>2. PICK t : /\ Moves(t, mem) /\ Passes(t, Plus(cpu.PC, 1))
                 /\ t.BC = cpu.BC /\ t.HL = cpu.HL
    BY <1>2, <2>1, ExchangesFlags
  <2>3. /\ Sane(t) /\ t.PC = Plus(cpu.PC, 1) /\ t.SP = cpu.SP /\ t.iff1 = cpu.iff1
        /\ t.halted = cpu.halted
    BY <1>1, <2>2, PassesSane
  <2>4. StackingAt(guest, t, mem, output)
    BY <1>2, <1>3, <1>4, <1>16, <2>2, <2>3 DEF StackingAt
  <2> QED BY <1>1, <2>2, <2>3, <2>4
<1>17. ASSUME cpu.PC = 272 PROVE \E t, m : Reached(t, m)
  <2>1. Insn = LdWide(At(Copy), RR("HL"), 3)
    BY <1>1, <1>17, StackingCode
  <2>2. cpu.SP = 0 /\ cpu.HL = 22136 /\ cpu.BC = 4660
    BY <1>2, <1>17 DEF StackingAt
  <2>3. Copy \in Cells /\ Copy + 1 \in Cells
    BY DEF Cells
  <2>4. PICK t, m : /\ Moves(t, m) /\ Written(m, Copy, cpu.HL)
                    /\ Becomes(t, 275, cpu.SP, cpu.A, cpu.F, cpu.BC, cpu.DE, cpu.HL)
    BY <1>1, <1>2, <1>4, <1>17, <2>1, <2>3, StoresPair
  <2>5. /\ Tabled(m) /\ m[Ticks] = mem[Ticks] /\ m \in Store /\ Holds(m, Copy, 22136)
    BY <1>2, <2>2, <2>4 DEF Written, WrittenOver, Cells, Stack
  <2>6. StackingAt(guest, t, m, output)
    BY <1>3, <1>17, <2>4, <1>2, <2>2, <2>5 DEF StackingAt, Becomes
  <2> QED BY <1>1, <1>2, <1>5, <2>2, <2>4, <2>6, <2>5, StaysSane
<1>18. ASSUME cpu.PC = 275 PROVE \E t, m : Reached(t, m)
  <2>1. Insn = LdWide(At(Copy + 2), RR("BC"), 4)
    BY <1>1, <1>18, StackingCode
  <2>2. cpu.SP = 0 /\ Holds(mem, Copy, 22136) /\ cpu.BC = 4660
    BY <1>2, <1>18 DEF StackingAt
  <2>3. Copy + 2 \in Cells /\ (Copy + 2) + 1 \in Cells
    BY DEF Cells
  <2>4. PICK t, m : /\ Moves(t, m) /\ Written(m, Copy + 2, cpu.BC)
                    /\ Becomes(t, 279, cpu.SP, cpu.A, cpu.F, cpu.BC, cpu.DE, cpu.HL)
    BY <1>1, <1>2, <1>4, <1>18, <2>1, <2>3, StoresPair
  <2>5. /\ Tabled(m) /\ m[Ticks] = mem[Ticks] /\ m \in Store /\ Holds(m, Copy + 2, 4660)
    BY <1>2, <2>2, <2>4 DEF Written, WrittenOver, Cells, Stack
  <2>6. Holds(m, Copy, 22136)
    BY <2>2, <2>4 DEF Written, WrittenOver, Cells, Holds
  <2>7. StackingAt(guest, t, m, output)
    BY <1>3, <1>18, <2>4, <1>2, <2>2, <2>5, <2>6 DEF StackingAt, Becomes
  <2> QED BY <1>1, <1>2, <1>5, <2>2, <2>4, <2>7, <2>5, StaysSane
<1>19. ASSUME cpu.PC = 279 PROVE \E t, m : Reached(t, m)
  <2>1. Insn = Plain("halt", 1)
    BY <1>1, <1>19, StackingCode
  <2>2. PICK t : t = [cpu EXCEPT !.halted = TRUE]
    OBVIOUS
  <2>3. Moves(t, mem)
    BY <1>2, <2>1, <2>2, Halts
  <2>4. /\ Sane(t) /\ t.PC = cpu.PC /\ t.SP = cpu.SP /\ t.iff1 = cpu.iff1 /\ t.A = cpu.A
        /\ t.F = cpu.F /\ t.BC = cpu.BC /\ t.DE = cpu.DE /\ t.HL = cpu.HL /\ t.IX = cpu.IX
        /\ t.enable_interrupts_next_cycle = cpu.enable_interrupts_next_cycle
        /\ t.interrupt_mode = cpu.interrupt_mode
    BY <1>1, <2>2, Halted
  <2>5. StackingAt(guest, t, mem, output)
    BY <1>2, <1>19, <2>4 DEF StackingAt
  <2> QED BY <1>1, <2>3, <2>4, <2>5
<1>20. ASSUME cpu.PC = 280 PROVE \E t, m : Reached(t, m)
  <2>1. Insn = Rst(8) /\ 8 \in Words
    BY <1>1, <1>20, StackingCode, WordIs
  <2>2. cpu.SP = 65534 /\ Holds(mem, 65534, 270)
    BY <1>2, <1>20 DEF StackingAt
  <2>3. PICK t, m : /\ Moves(t, m) /\ Written(m, 65532, 281)
                    /\ Becomes(t, 8, 65532, cpu.A, cpu.F, cpu.BC, cpu.DE, cpu.HL)
    BY <1>1, <1>2, <1>5, <1>4, <1>20, <2>1, <2>2, Restarts
  <2>4. /\ Tabled(m) /\ m[Ticks] = mem[Ticks] /\ m \in Store /\ Holds(m, 65532, 281)
    BY <1>2, <2>2, <2>3 DEF Written, WrittenOver, Cells, Stack
  <2>5. Holds(m, 65534, 270)
    BY <2>2, <2>3 DEF Written, WrittenOver, Cells, Stack, Holds
  <2>6. StackingAt(guest, t, m, output)
    BY <1>3, <1>20, <2>3, <1>2, <2>4, <2>5 DEF StackingAt, Becomes
  <2> QED BY <1>1, <1>2, <1>5, <2>2, <2>3, <2>6, <2>4, StaysSane
<1>21. ASSUME cpu.PC = 281 PROVE \E t, m : Reached(t, m)
  <2>1. Insn = LdWide(RR("HL"), NN(Table), 3) /\ Table \in Words
    BY <1>1, <1>21, StackingCode, WordIs
  <2>2. cpu.SP = 65534 /\ Holds(mem, 65534, 270)
    BY <1>2, <1>21 DEF StackingAt
  <2>3. PICK t : /\ Moves(t, mem)
                 /\ Becomes(t, 284, cpu.SP, cpu.A, cpu.F, cpu.BC, cpu.DE, Table)
    BY <1>2, <1>4, <1>21, <2>1, LoadsPair
  <2>4. StackingAt(guest, t, mem, output)
    BY <1>3, <1>21, <2>3, <2>2 DEF StackingAt, Becomes
  <2> QED BY <1>1, <1>2, <1>5, <2>2, <2>3, <2>4, StaysSane
<1>22. ASSUME cpu.PC = 284 PROVE \E t, m : Reached(t, m)
  <2>1. Insn = OnPair("jp_(rr)", "HL")
    BY <1>1, <1>22, StackingCode
  <2>2. cpu.SP = 65534 /\ Holds(mem, 65534, 270) /\ cpu.HL = Table /\ Tabled(mem)
    BY <1>2, <1>22 DEF StackingAt
  <2>3. 8 \in Words /\ WideAt(cpu.HL) = 8
    <3>1. 8 \in Words
      BY WordIs
    <3>2. Plus(cpu.HL, 1) = Table + 1
      BY <2>2 DEF Plus
    <3> QED BY <2>2, <3>1, <3>2 DEF WideAt
  <2>4. PICK t : /\ Moves(t, mem)
                 /\ Becomes(t, 8, cpu.SP, cpu.A, cpu.F, cpu.BC, cpu.DE, cpu.HL)
    BY <1>2, <2>1, <2>3, JumpsIndirectly
  <2>5. StackingAt(guest, t, mem, output)
    BY <1>3, <1>22, <2>4, <2>2 DEF StackingAt, Becomes
  <2> QED BY <1>1, <1>2, <1>5, <2>2, <2>4, <2>5, StaysSane
<1>23. ASSUME NEW t, NEW m, Reached(t, m) PROVE GuestInv'
  <2>1. ProgramAt(guest, t, m, output)
    BY <1>23, Which
  <2> HIDE DEF Ticks
  <2> QED BY <1>23, <2>1, GoesOn
<1>24. cpu.PC \in {8, 256, 259, 262, 263, 264, 265, 266, 267, 270, 271, 272, 275, 279, 280, 281,
                   284}
  BY DEF StackingAt
<1> HIDE DEF Reached
<1> QED BY <1>6, <1>7, <1>8, <1>9, <1>10, <1>11, <1>12, <1>13, <1>14, <1>15, <1>16, <1>17,
   <1>18, <1>19, <1>20, <1>21, <1>22, <1>23, <1>24

-----------------------------------------------------------------------------
(***************************************************************************)
(* critical                                                                *)
(***************************************************************************)
\* Its lines.
LEMMA CriticalCode ==
  ASSUME Loaded, guest \in Guests, guest.program = "critical"
  PROVE  /\ cpu.PC = 256 => Insn = Plain("ld_a_i", 2)
         /\ cpu.PC = 258 => Insn = OnPair("push", "AF")
         /\ cpu.PC = 259 => Insn = Plain("di", 1)
         /\ cpu.PC = 260 => Insn = Ld(R("A"), At(Ticks), 3)
         /\ cpu.PC = 263 => Insn = OnByte("inc", R("A"), 1)
         /\ cpu.PC = 264 => Insn = Ld(At(Ticks), R("A"), 3)
         /\ cpu.PC = 267 => Insn = OnPair("pop", "AF")
         /\ cpu.PC = 268 => /\ Insn.op = "jp" /\ Insn.cc = "PE" /\ Insn.len = 3
                            /\ Insn.nn = 272
         /\ cpu.PC = 271 => Insn = Plain("ei", 1)
         /\ cpu.PC = 272 => Insn = OnByte("dec", R("B"), 1)
         /\ cpu.PC = 273 => Insn = Plain("nop", 1)
         /\ cpu.PC = 274 => Insn = Plain("halt", 1)
<1> DEFINE place == Places(256, Critical)
<1> HIDE DEF Text, Copy, Table, Ticks, KbPort
<1>1. /\ Critical[1] = Plain("ld_a_i", 2)
      /\ Critical[2] = OnPair("push", "AF")
      /\ Critical[3] = Plain("di", 1)
      /\ Critical[4] = Ld(R("A"), At(Ticks), 3)
  BY DEF Critical
<1>2. /\ Critical[5] = OnByte("inc", R("A"), 1)
      /\ Critical[6] = Ld(At(Ticks), R("A"), 3)
      /\ Critical[7] = OnPair("pop", "AF")
      /\ Critical[8] = Branch("jp", "PE", 10, 3)
  BY DEF Critical
<1>3. /\ Critical[9] = Plain("ei", 1)
      /\ Critical[10] = OnByte("dec", R("B"), 1)
      /\ Critical[11] = Plain("nop", 1)
      /\ Critical[12] = Plain("halt", 1)
  BY DEF Critical
<1>4. /\ Critical[1].len = 2 /\ "to" \notin DOMAIN Critical[1]
      /\ Critical[2].len = 1 /\ "to" \notin DOMAIN Critical[2]
      /\ Critical[3].len = 1 /\ "to" \notin DOMAIN Critical[3]
      /\ Critical[4].len = 3 /\ "to" \notin DOMAIN Critical[4]
  BY <1>1, Straight
<1>5. /\ Critical[5].len = 1 /\ "to" \notin DOMAIN Critical[5]
      /\ Critical[6].len = 3 /\ "to" \notin DOMAIN Critical[6]
      /\ Critical[7].len = 1 /\ "to" \notin DOMAIN Critical[7]
      /\ Critical[8].len = 3
  BY <1>2, Straight
<1>6. /\ Critical[9].len = 1 /\ "to" \notin DOMAIN Critical[9]
      /\ Critical[10].len = 1 /\ "to" \notin DOMAIN Critical[10]
      /\ Critical[11].len = 1 /\ "to" \notin DOMAIN Critical[11]
      /\ Critical[12].len = 1 /\ "to" \notin DOMAIN Critical[12]
  BY <1>3, Straight
<1>7. IsListing(Critical, 12)
  <2>1. DOMAIN Critical = 1 .. 12 /\ Len(Critical) = 12
    BY DEF Critical
  <2>2. \A k \in 1 .. 12 : Critical[k].len \in Nat \ {0}
    BY <1>4, <1>5, <1>6
  <2> QED BY <2>1, <2>2 DEF IsListing
<1>8. place[1] = 256 /\ \A k \in 1 .. 12 : place[k + 1] = place[k] + Critical[k].len
  BY <1>7, OwnPlaces
<1>9. /\ place[1] = 256 /\ place[2] = 258 /\ place[3] = 259 /\ place[4] = 260
      /\ place[5] = 263 /\ place[6] = 264 /\ place[7] = 267 /\ place[8] = 268
      /\ place[9] = 271 /\ place[10] = 272 /\ place[11] = 273 /\ place[12] = 274
      /\ place[13] = 275
  <2> HIDE DEF place
  <2> QED BY <1>4, <1>5, <1>6, <1>8
<1>10. \A k \in 1 .. 12 : CodeOf["critical"][place[k]] = Linked(Critical[k], place[k + 1], place)
  <2>1. "critical" \in DOMAIN Listing /\ Listing["critical"] = Critical
    BY DEF Listing
  <2> QED BY <1>7, <2>1, OwnLines
<1>11. Insn = CodeOf["critical"][cpu.PC]
  BY GuestIs
<1> HIDE DEF place
<1>12. \A k \in 1 .. 12 : cpu.PC = place[k] => Insn = Linked(Critical[k], place[k + 1], place)
  BY <1>10, <1>11
<1>13. \A k \in (1 .. 12) \ {8} : cpu.PC = place[k] => Insn = Critical[k]
  BY <1>4, <1>5, <1>6, <1>12, NoJump
<1>14. /\ cpu.PC = 256 => Insn = Critical[1]
       /\ cpu.PC = 258 => Insn = Critical[2]
       /\ cpu.PC = 259 => Insn = Critical[3]
       /\ cpu.PC = 260 => Insn = Critical[4]
  BY <1>9, <1>13
<1>15. /\ cpu.PC = 263 => Insn = Critical[5]
       /\ cpu.PC = 264 => Insn = Critical[6]
       /\ cpu.PC = 267 => Insn = Critical[7]
  BY <1>9, <1>13
<1>16. /\ cpu.PC = 271 => Insn = Critical[9]
       /\ cpu.PC = 272 => Insn = Critical[10]
       /\ cpu.PC = 273 => Insn = Critical[11]
       /\ cpu.PC = 274 => Insn = Critical[12]
  BY <1>9, <1>13
<1>17. cpu.PC = 268 => /\ Insn.op = "jp" /\ Insn.cc = "PE" /\ Insn.len = 3
                       /\ Insn.nn = 272
  BY <1>2, <1>9, <1>12, Jumping
<1> QED BY <1>1, <1>2, <1>3, <1>14, <1>15, <1>16, <1>17

\* Its steps.
LEMMA CriticalGoes ==
  ASSUME Loaded, Home, Step, guest.program = "critical", CriticalAt(guest, cpu, mem, output)
  PROVE  GuestInv'
<1> DEFINE Reached(t, m) == /\ Moves(t, m) /\ Sane(t) /\ m \in Store
                            /\ CriticalAt(guest, t, m, output)
                            /\ Countable =>
                                 m[Ticks] + Counts(guest, cpu) = mem[Ticks] + Counts(guest, t)
<1>1. guest \in Guests /\ mem \in Store /\ Sane(cpu) /\ cpu \in CpuState /\ output \in Signals
  BY DEF Home, Others, Sane
<1>2. cpu.iff2 = cpu.iff1
  BY <1>1 DEF Sane
<1>3. ~cpu.halted
  BY StepRuns DEF Running
<1>4. /\ Plus(256, 2) = 258 /\ Plus(258, 1) = 259 /\ Plus(259, 1) = 260 /\ Plus(260, 3) = 263
      /\ Plus(263, 1) = 264 /\ Plus(264, 3) = 267 /\ Plus(267, 1) = 268 /\ Plus(268, 3) = 271
      /\ Plus(271, 1) = 272 /\ Plus(272, 1) = 273 /\ Plus(273, 1) = 274
  BY DEF Plus
<1>5. 0 \in Levels /\ 65534 \in Levels
  BY DEF Levels
<1>6. Ticks \in Cells /\ mem[Ticks] \in Byte
  BY <1>1 DEF Cells, Store
<1>7. ASSUME cpu.PC = 256 PROVE \E t, m : Reached(t, m)
  <2>1. Insn = Plain("ld_a_i", 2)
    BY <1>1, <1>7, CriticalCode
  <2>2. Calm /\ cpu.SP = 0 /\ cpu.iff1 /\ cpu.iff2 /\ cpu.interrupt_mode = "one"
    BY <1>1, <1>2, <1>7 DEF CriticalAt, Calm
  <2>3. PICK t, f : /\ Moves(t, mem) /\ ("PV" \in f <=> cpu.iff2)
                    /\ Becomes(t, 258, 0, cpu.I, f, cpu.BC, cpu.DE, cpu.HL)
    BY <2>2, <1>4, <1>7, <2>1, LoadsI
  <2>4. /\ t.PC = 258 /\ t.SP = 0 /\ t.iff1 = cpu.iff1 /\ ~t.halted
        /\ t.interrupt_mode = "one" /\ ~t.enable_interrupts_next_cycle /\ "PV" \in t.F
    BY <1>3, <2>2, <2>3 DEF Becomes
  <2>5. Sane(t)
    BY <1>1, <1>5, <2>2, <2>3, StaysSane
  <2>6. Counts(guest, t) = Counts(guest, cpu)
    BY <1>7, <2>4 DEF Counts
  <2>7. CriticalAt(guest, t, mem, output)
    BY <2>2, <2>4 DEF CriticalAt
  <2> QED BY <1>1, <2>3, <2>4, <2>6, <2>7, <2>5
<1>8. ASSUME cpu.PC = 258 PROVE \E t, m : Reached(t, m)
  <2>1. Insn = OnPair("push", "AF")
    BY <1>1, <1>8, CriticalCode
  <2>2. Calm /\ cpu.SP = 0 /\ cpu.iff1 /\ "PV" \in cpu.F /\ cpu.interrupt_mode = "one"
    BY <1>1, <1>2, <1>8 DEF CriticalAt, Calm
  <2>3. PICK w \in Words : w = WideRegister(cpu, "AF")
    BY <1>1, WordOfPair
  <2>4. PICK t, m : /\ Moves(t, m) /\ Written(m, 65534, w)
                    /\ Becomes(t, 259, 65534, cpu.A, cpu.F, cpu.BC, cpu.DE, cpu.HL)
    <3>1. "AF" \in {"AF", "BC", "DE", "HL"} /\ Lower(0) = 65534 /\ cpu.SP \in Slots
      BY <2>2 DEF Lower, Slots
    <3> QED BY <1>1, <2>2, <1>4, <1>8, <2>1, <2>3, <3>1, PushesPair
  <2>5. m \in Store /\ m[Ticks] = mem[Ticks] /\ m[65534] = Low(w)
    BY <2>4 DEF Written, WrittenOver, Holds, Cells, Stack
  <2>6. FlagsOf(m[65534]) = cpu.F
    <3>1. cpu.A \in Byte /\ cpu.F \in SUBSET Flags /\ FlagByte(cpu.F) \in Byte
      BY <1>1, StateParts, FlagsAreByte
    <3>2. w = 256 * cpu.A + FlagByte(cpu.F)
      BY <2>3 DEF WideRegister
    <3>3. Low(w) = FlagByte(cpu.F)
      BY <3>1, <3>2, WordOfHalves
    <3> QED BY <3>1, <3>3, <2>5, FlagsComeBack
  <2>7. /\ t.PC = 259 /\ t.SP = 65534 /\ t.iff1 = cpu.iff1 /\ ~t.halted
        /\ t.interrupt_mode = "one" /\ ~t.enable_interrupts_next_cycle
    BY <1>3, <2>2, <2>4 DEF Becomes
  <2>8. Sane(t)
    BY <1>1, <1>5, <2>2, <2>4, StaysSane
  <2>9. Counts(guest, t) = Counts(guest, cpu)
    BY <1>8, <2>7 DEF Counts
  <2>10. CriticalAt(guest, t, m, output)
    BY <2>2, <2>7, <2>6 DEF CriticalAt
  <2>11. m[Ticks] + Counts(guest, cpu) = mem[Ticks] + Counts(guest, t)
    BY <2>9, <2>5
  <2> QED BY <1>1, <2>4, <2>7, <2>5, <2>11, <2>10, <2>8
<1>9. ASSUME cpu.PC = 259 PROVE \E t, m : Reached(t, m)
  <2>1. Insn = Plain("di", 1)
    BY <1>1, <1>9, CriticalCode
  <2>2. Calm /\ cpu.SP = 65534 /\ cpu.iff1 /\ "PV" \in FlagsOf(mem[65534])
        /\ cpu.interrupt_mode = "one"
    BY <1>1, <1>2, <1>9 DEF CriticalAt, Calm
  <2>3. PICK t : /\ Moves(t, mem) /\ t \in CpuState
                 /\ t.PC = 260 /\ t.SP = 65534 /\ t.halted = cpu.halted /\ t.interrupt_mode = "one"
                 /\ ~t.enable_interrupts_next_cycle /\ ~t.iff1 /\ t.iff2 = t.iff1
    BY <2>2, <1>4, <1>9, <2>1, Disabled
  <2>4. /\ t.PC = 260 /\ t.SP = 65534 /\ ~t.halted /\ ~t.iff1 /\ t.iff2 = t.iff1
        /\ t.interrupt_mode = "one" /\ ~t.enable_interrupts_next_cycle
    BY <1>3, <2>3
  <2>5. Sane(t)
    BY <1>5, <2>3, <2>4 DEF Sane
  <2>6. Counts(guest, t) = Counts(guest, cpu)
    BY <1>9, <2>4 DEF Counts
  <2>7. CriticalAt(guest, t, mem, output)
    BY <2>2, <2>4 DEF CriticalAt
  <2> QED BY <1>1, <2>3, <2>4, <2>6, <2>7, <2>5
<1>10. ASSUME cpu.PC = 260 PROVE \E t, m : Reached(t, m)
  <2>1. Insn = Ld(R("A"), At(Ticks), 3)
    BY <1>1, <1>10, CriticalCode
  <2>2. Calm /\ cpu.SP = 65534 /\ ~cpu.iff1 /\ "PV" \in FlagsOf(mem[65534])
        /\ cpu.interrupt_mode = "one"
    BY <1>1, <1>2, <1>10 DEF CriticalAt, Calm
  <2>3. Insn.len = 3 /\ "A" \in Simple
    BY <2>1 DEF Ld, Simple
  <2>4. Operand(Fetched, At(Ticks)) = mem[Ticks]
    BY <2>2, <2>3, OperandsOf
  <2>5. PICK t : /\ Moves(t, mem)
                 /\ Becomes(t, 263, 65534, mem[Ticks], cpu.F, cpu.BC, cpu.DE, cpu.HL)
    BY <2>2, <1>4, <1>10, <2>1, <2>3, <2>4, <1>6, LoadsRegister
  <2>6. /\ t.PC = 263 /\ t.SP = 65534 /\ t.iff1 = cpu.iff1 /\ ~t.halted
        /\ t.interrupt_mode = "one" /\ ~t.enable_interrupts_next_cycle /\ t.A = mem[Ticks]
    BY <1>3, <2>2, <2>5 DEF Becomes
  <2>7. Sane(t)
    BY <1>1, <1>5, <2>2, <2>5, StaysSane
  <2>8. Counts(guest, t) = Counts(guest, cpu)
    BY <1>10, <2>6 DEF Counts
  <2>9. CriticalAt(guest, t, mem, output)
    BY <2>2, <2>6 DEF CriticalAt
  <2> QED BY <1>1, <2>5, <2>6, <2>8, <2>9, <2>7
<1>11. ASSUME cpu.PC = 263 PROVE \E t, m : Reached(t, m)
  <2>1. Insn = OnByte("inc", R("A"), 1)
    BY <1>1, <1>11, CriticalCode
  <2>2. Calm /\ cpu.SP = 65534 /\ ~cpu.iff1 /\ "PV" \in FlagsOf(mem[65534])
        /\ cpu.A = mem[Ticks] /\ cpu.interrupt_mode = "one"
    BY <1>1, <1>2, <1>11 DEF CriticalAt, Calm
  <2>3. Insn.op = "inc" /\ Insn.len = 1 /\ Insn.dst = R("A") /\ Insn.copy = "none"
    BY <2>1 DEF OnByte
  <2>4. Operand(Fetched, R("A")) = cpu.A
    BY <2>2, <2>3, OperandsOf
  <2>5. PICK r : r = Inc(cpu.A, Fetched.F)
    OBVIOUS
  <2>6. r.x = (cpu.A + 1) % 256 /\ Result(r)
    <3>1. Becomes(Fetched, Plus(cpu.PC, 1), cpu.SP, cpu.A, cpu.F, cpu.BC, cpu.DE, cpu.HL)
      BY <2>2, <2>3, Fetches
    <3>2. Fetched.F \in SUBSET Flags /\ cpu.A \in Byte
      BY <1>1, <3>1, StateParts DEF Becomes
    <3>3. r.x = (cpu.A + 1) % 256
      BY <2>5 DEF Inc
    <3> QED BY <2>5, <3>2, <3>3, CountTyped
  <2>7. Update({"inc"}, r)
    BY <2>3, <2>4, <2>5, Chosen DEF Increment, Before
  <2>8. PICK t : /\ Moves(t, mem)
                 /\ Becomes(t, 264, 65534, r.x, r.f, cpu.BC, cpu.DE, cpu.HL)
    BY <2>2, <1>4, <1>11, <2>3, <2>6, <2>7, UpdatesRegister
  <2>9. /\ t.PC = 264 /\ t.SP = 65534 /\ t.iff1 = cpu.iff1 /\ ~t.halted
        /\ t.interrupt_mode = "one" /\ ~t.enable_interrupts_next_cycle
        /\ t.A = (mem[Ticks] + 1) % 256
    BY <1>3, <2>2, <2>8, <2>6 DEF Becomes
  <2>10. Sane(t)
    BY <1>1, <1>5, <2>2, <2>8, StaysSane
  <2>11. Counts(guest, t) = Counts(guest, cpu)
    BY <1>11, <2>9 DEF Counts
  <2>12. CriticalAt(guest, t, mem, output)
    BY <2>2, <2>9 DEF CriticalAt
  <2> QED BY <1>1, <2>8, <2>9, <2>11, <2>12, <2>10
<1>12. ASSUME cpu.PC = 264 PROVE \E t, m : Reached(t, m)
  <2>1. Insn = Ld(At(Ticks), R("A"), 3)
    BY <1>1, <1>12, CriticalCode
  <2>2. Calm /\ cpu.SP = 65534 /\ ~cpu.iff1 /\ "PV" \in FlagsOf(mem[65534])
        /\ cpu.A = (mem[Ticks] + 1) % 256 /\ cpu.interrupt_mode = "one"
    BY <1>1, <1>2, <1>12 DEF CriticalAt, Calm
  <2>3. Insn.len = 3 /\ At(Ticks).at # "register"
    BY <2>1 DEF Ld, At
  <2>4. PICK a \in Byte : a = cpu.A
    BY <1>1, StateParts
  <2>5. Operand(Fetched, R("A")) = a /\ Address(Fetched, At(Ticks)) = Ticks
    BY <2>2, <2>3, <2>4, OperandsOf, Addresses
  <2>6. PICK t, m : /\ Moves(t, m) /\ ByteWritten(m, Ticks, a)
                    /\ Becomes(t, 267, 65534, cpu.A, cpu.F, cpu.BC, cpu.DE, cpu.HL)
    BY <1>1, <2>2, <1>4, <1>12, <2>1, <2>3, <2>4, <2>5, <1>6, StoresByte
  <2>7. m \in Store /\ m[Ticks] = a /\ m[65534] = mem[65534]
    BY <2>6 DEF ByteWritten, Cells, Stack
  <2>8. /\ t.PC = 267 /\ t.SP = 65534 /\ t.iff1 = cpu.iff1 /\ ~t.halted
        /\ t.interrupt_mode = "one" /\ ~t.enable_interrupts_next_cycle
    BY <1>3, <2>2, <2>6 DEF Becomes
  <2>9. Sane(t)
    BY <1>1, <1>5, <2>2, <2>6, StaysSane
  <2>10. Counts(guest, cpu) = 0 /\ Counts(guest, t) = 1
    BY <1>12, <2>8 DEF Counts
  <2>11. CriticalAt(guest, t, m, output)
    BY <2>2, <2>8, <2>7 DEF CriticalAt
  <2>12. Countable => m[Ticks] = mem[Ticks] + 1
    <3>1. SUFFICES ASSUME Countable PROVE m[Ticks] = mem[Ticks] + 1
      OBVIOUS
    <3>2. mem[Ticks] + Pending = raised + 0
      BY <2>10, <3>1 DEF Home, Counted
    <3>3. raised \in 0 .. Raises /\ Raises < 255 /\ Raises \in Nat /\ Pending \in {0, 1}
      BY <3>1, RaisesAssumption DEF Home, Others, Countable, Pending
    <3>4. PICK y \in 0 .. 255 : y = mem[Ticks]
      BY <1>6, ByteIs
    <3>5. y + 1 < 256
      BY <3>2, <3>3, <3>4
    <3> QED BY <2>2, <2>4, <2>7, <3>4, <3>5
  <2>13. Countable => m[Ticks] + Counts(guest, cpu) = mem[Ticks] + Counts(guest, t)
    <3>1. PICK y \in 0 .. 255 : y = mem[Ticks]
      BY <1>6, ByteIs
    <3> QED BY <2>10, <2>12, <3>1
  <2> QED BY <1>1, <2>6, <2>7, <2>13, <2>11, <2>9
<1>13. ASSUME cpu.PC = 267 PROVE \E t, m : Reached(t, m)
  <2>1. Insn = OnPair("pop", "AF")
    BY <1>1, <1>13, CriticalCode
  <2>2. Calm /\ cpu.SP = 65534 /\ ~cpu.iff1 /\ "PV" \in FlagsOf(mem[65534])
        /\ cpu.interrupt_mode = "one"
    BY <1>1, <1>2, <1>13 DEF CriticalAt, Calm
  <2>3. cpu.SP \in Slots \ {0} /\ Higher(cpu.SP) = 0
    BY <2>2 DEF Slots, Higher
  <2>4. PICK t, a : /\ Moves(t, mem)
                    /\ Becomes(t, 268, 0, a, FlagsOf(mem[65534]), cpu.BC, cpu.DE, cpu.HL)
    BY <1>1, <2>2, <1>4, <1>13, <2>1, <2>3, PopsFlags
  <2>5. /\ t.PC = 268 /\ t.SP = 0 /\ t.iff1 = cpu.iff1 /\ ~t.halted
        /\ t.interrupt_mode = "one" /\ ~t.enable_interrupts_next_cycle /\ "PV" \in t.F
    BY <1>3, <2>2, <2>4 DEF Becomes
  <2>6. Sane(t)
    BY <1>1, <1>5, <2>2, <2>4, StaysSane
  <2>7. Counts(guest, t) = Counts(guest, cpu)
    BY <1>13, <2>5 DEF Counts
  <2>8. CriticalAt(guest, t, mem, output)
    BY <2>2, <2>5 DEF CriticalAt
  <2> QED BY <1>1, <2>4, <2>5, <2>7, <2>8, <2>6
<1>14. ASSUME cpu.PC = 268 PROVE \E t, m : Reached(t, m)
  <2>1. /\ Insn.op = "jp" /\ Insn.cc = "PE" /\ Insn.len = 3 /\ Insn.nn = 272
        /\ 272 \in Words
    BY <1>1, <1>14, CriticalCode, WordIs
  <2>2. Calm /\ cpu.SP = 0 /\ ~cpu.iff1 /\ "PV" \in cpu.F /\ cpu.interrupt_mode = "one"
    BY <1>1, <1>2, <1>14 DEF CriticalAt, Calm
  <2>3. ~Condition(cpu.F, "PE")
    BY <2>2 DEF Condition
  <2>4. PICK t : /\ Moves(t, mem)
                 /\ Becomes(t, 271, cpu.SP, cpu.A, cpu.F, cpu.BC, cpu.DE, cpu.HL)
    BY <2>2, <1>4, <1>14, <2>1, <2>3, Jumps
  <2>5. /\ t.PC = 271 /\ t.SP = 0 /\ t.iff1 = cpu.iff1 /\ ~t.halted
        /\ t.interrupt_mode = "one" /\ ~t.enable_interrupts_next_cycle
    BY <1>3, <2>2, <2>4 DEF Becomes
  <2>6. Sane(t)
    BY <1>1, <1>5, <2>2, <2>4, StaysSane
  <2>7. Counts(guest, t) = Counts(guest, cpu)
    BY <1>14, <2>5 DEF Counts
  <2>8. CriticalAt(guest, t, mem, output)
    BY <2>2, <2>5 DEF CriticalAt
  <2> QED BY <1>1, <2>4, <2>5, <2>7, <2>8, <2>6
<1>15. ASSUME cpu.PC = 271 PROVE \E t, m : Reached(t, m)
  <2>1. Insn = Plain("ei", 1)
    BY <1>1, <1>15, CriticalCode
  <2>2. Calm /\ cpu.SP = 0 /\ ~cpu.iff1 /\ ~cpu.iff2 /\ cpu.interrupt_mode = "one"
    BY <1>1, <1>2, <1>15 DEF CriticalAt, Calm
  <2>3. PICK s, t : /\ Becomes(s, 272, cpu.SP, cpu.A, cpu.F, cpu.BC, cpu.DE, cpu.HL)
                    /\ t = [s EXCEPT !.enable_interrupts_next_cycle = TRUE] /\ Moves(t, mem)
    BY <2>2, <1>4, <1>15, <2>1, WillEnable
  <2>4. /\ s \in CpuState /\ s.PC = 272 /\ s.SP = 0 /\ ~s.halted
        /\ s.interrupt_mode = "one" /\ ~s.iff1 /\ ~s.iff2
    BY <1>3, <2>2, <2>3 DEF Becomes
  <2>5. /\ t \in CpuState /\ t.PC = 272 /\ t.SP = 0 /\ ~t.halted
        /\ ~t.iff1 /\ ~t.iff2 /\ t.interrupt_mode = "one" /\ t.enable_interrupts_next_cycle
    <3>1. s \in CpuState
      BY <2>4
    <3>2. t = [s EXCEPT !.enable_interrupts_next_cycle = TRUE]
      BY <2>3
    <3>3. t \in CpuState
      BY <3>1, <3>2 DEF CpuState
    <3>4. /\ t.PC = s.PC /\ t.SP = s.SP /\ t.halted = s.halted /\ t.iff1 = s.iff1 /\ t.iff2 = s.iff2
          /\ t.interrupt_mode = s.interrupt_mode /\ t.enable_interrupts_next_cycle = TRUE
      BY <3>1, <3>2 DEF CpuState
    <3> QED BY <2>4, <3>3, <3>4
  <2>6. Sane(t)
    <3>1. t.iff1 = FALSE /\ t.iff2 = FALSE
      BY <2>5 DEF CpuState
    <3>2. t.iff2 = t.iff1
      BY <3>1
    <3> QED BY <1>5, <2>5, <3>2 DEF Sane
  <2>7. Counts(guest, t) = Counts(guest, cpu)
    BY <1>15, <2>5 DEF Counts
  <2>8. CriticalAt(guest, t, mem, output)
    BY <2>2, <2>5 DEF CriticalAt
  <2> QED BY <1>1, <2>3, <2>5, <2>7, <2>8, <2>6
<1>16. ASSUME cpu.PC = 272 PROVE \E t, m : Reached(t, m)
  <2>1. Insn = OnByte("dec", R("B"), 1)
    BY <1>1, <1>16, CriticalCode
  <2>2. cpu.enable_interrupts_next_cycle /\ cpu.SP = 0 /\ cpu.interrupt_mode = "one"
    BY <1>16 DEF CriticalAt
  <2>3. PICK t : /\ Moves(t, mem) /\ t \in CpuState
                 /\ t.PC = 273 /\ t.SP = 0 /\ t.halted = cpu.halted /\ t.interrupt_mode = "one"
                 /\ t.iff1 /\ t.iff2 /\ ~t.enable_interrupts_next_cycle
    BY <1>1, <2>2, <1>4, <1>16, <2>1, CountsAwake
  <2>4. t.PC = 273 /\ t.SP = 0 /\ t.iff1 = TRUE /\ t.iff2 = TRUE /\ ~t.halted
    BY <1>3, <2>3 DEF CpuState
  <2>5. Sane(t)
    BY <1>5, <2>3, <2>4 DEF Sane
  <2>6. Counts(guest, t) = Counts(guest, cpu)
    BY <1>16, <2>4 DEF Counts
  <2>7. CriticalAt(guest, t, mem, output)
    BY <2>3, <2>4 DEF CriticalAt
  <2> QED BY <1>1, <2>3, <2>4, <2>6, <2>7, <2>5
<1>17. ASSUME cpu.PC = 273 PROVE \E t, m : Reached(t, m)
  <2>1. Insn = Plain("nop", 1)
    BY <1>1, <1>17, CriticalCode
  <2>2. Calm /\ cpu.SP = 0 /\ cpu.iff1 /\ cpu.interrupt_mode = "one"
    BY <1>1, <1>2, <1>17 DEF CriticalAt, Calm
  <2>3. PICK t : /\ Moves(t, mem)
                 /\ Becomes(t, 274, cpu.SP, cpu.A, cpu.F, cpu.BC, cpu.DE, cpu.HL)
    BY <2>2, <1>4, <1>17, <2>1, Rests
  <2>4. /\ t.PC = 274 /\ t.SP = 0 /\ t.iff1 = cpu.iff1 /\ ~t.halted
        /\ t.interrupt_mode = "one" /\ ~t.enable_interrupts_next_cycle
    BY <1>3, <2>2, <2>3 DEF Becomes
  <2>5. Sane(t)
    BY <1>1, <1>5, <2>2, <2>3, StaysSane
  <2>6. Counts(guest, t) = Counts(guest, cpu)
    BY <1>17, <2>4 DEF Counts
  <2>7. CriticalAt(guest, t, mem, output)
    BY <2>2, <2>4 DEF CriticalAt
  <2> QED BY <1>1, <2>3, <2>4, <2>6, <2>7, <2>5
<1>18. ASSUME cpu.PC = 274 PROVE \E t, m : Reached(t, m)
  <2>1. Insn = Plain("halt", 1)
    BY <1>1, <1>18, CriticalCode
  <2>2. Calm /\ cpu.SP = 0 /\ cpu.iff1 /\ cpu.interrupt_mode = "one"
    BY <1>1, <1>2, <1>18 DEF CriticalAt, Calm
  <2>3. PICK t : t = [cpu EXCEPT !.halted = TRUE]
    OBVIOUS
  <2>4. Moves(t, mem)
    BY <2>2, <2>1, <2>3, Halts
  <2>5. /\ Sane(t) /\ t.PC = cpu.PC /\ t.SP = cpu.SP /\ t.iff1 = cpu.iff1
        /\ t.enable_interrupts_next_cycle = cpu.enable_interrupts_next_cycle
        /\ t.interrupt_mode = cpu.interrupt_mode
    BY <1>1, <2>3, Halted
  <2>6. /\ t.PC = 274 /\ t.SP = 0 /\ t.iff1 /\ ~t.enable_interrupts_next_cycle
        /\ t.interrupt_mode = "one"
    BY <1>18, <2>2, <2>5 DEF Calm
  <2>7. Counts(guest, t) = Counts(guest, cpu)
    BY <1>18, <2>6 DEF Counts
  <2>8. CriticalAt(guest, t, mem, output)
    BY <2>6 DEF CriticalAt
  <2> QED BY <1>1, <2>4, <2>5, <2>7, <2>8
<1>19. ASSUME NEW t, NEW m, Reached(t, m) PROVE GuestInv'
  <2>1. ProgramAt(guest, t, m, output)
    BY <1>19, Which
  <2>2. Asserted(guest, t, m, output')
    BY <1>19, <2>1 DEF Asserted, Moves
  <2>3. /\ Finish(t, m) /\ guest' = guest /\ raised' = raised /\ line' = line
        /\ line' \in BOOLEAN /\ output' \in Signals
    BY <1>19 DEF Moves, Home, Others
  <2> HIDE DEF Ticks
  <2> QED BY <1>19, <2>2, <2>3, Arrives
<1>20. cpu.PC \in {256, 258, 259, 260, 263, 264, 267, 268, 271, 272, 273, 274}
  BY DEF CriticalAt
<1> HIDE DEF Reached
<1> QED BY <1>7, <1>8, <1>9, <1>10, <1>11, <1>12, <1>13, <1>14, <1>15, <1>16, <1>17, <1>18,
   <1>19, <1>20

-----------------------------------------------------------------------------
(***************************************************************************)
(* hex                                                                     *)
(***************************************************************************)
\* Its lines.
LEMMA HexCode ==
  ASSUME Loaded, guest \in Guests, guest.program = "hex"
  PROVE  /\ cpu.PC = 256 => Insn = Ld(R("A"), At(Text), 3)
         /\ cpu.PC = 259 => /\ Insn.op = "call" /\ Insn.cc = "always" /\ Insn.len = 3
                            /\ Insn.nn = 263
         /\ cpu.PC = 262 => Insn = Plain("halt", 1)
         /\ cpu.PC = 263 => Insn = Ld(R("C"), R("A"), 1)
         /\ cpu.PC = 264 => Insn = OnA("rr")
         /\ cpu.PC = 265 => Insn = OnA("rr")
         /\ cpu.PC = 266 => Insn = OnA("rr")
         /\ cpu.PC = 267 => Insn = OnA("rr")
         /\ cpu.PC = 268 => /\ Insn.op = "call" /\ Insn.cc = "always" /\ Insn.len = 3
                            /\ Insn.nn = 272
         /\ cpu.PC = 271 => Insn = Ld(R("A"), R("C"), 1)
         /\ cpu.PC = 272 => Insn = Math("and", N(15), 2)
         /\ cpu.PC = 274 => Insn = Math("add", N(144), 2)
         /\ cpu.PC = 276 => Insn = OnA("daa")
         /\ cpu.PC = 277 => Insn = Math("adc", N(64), 2)
         /\ cpu.PC = 279 => Insn = OnA("daa")
         /\ cpu.PC = 280 => Insn = OnPort("out_(n)_a", KbPort)
         /\ cpu.PC = 282 => Insn = Ret("always")
<1> DEFINE place == Places(256, Hex)
<1> HIDE DEF Text, Copy, Table, Ticks, KbPort
<1>1. /\ Hex[1] = Ld(R("A"), At(Text), 3)
      /\ Hex[2] = Branch("call", "always", 4, 3)
      /\ Hex[3] = Plain("halt", 1)
      /\ Hex[4] = Ld(R("C"), R("A"), 1)
  BY DEF Hex
<1>2. /\ Hex[5] = OnA("rr")
      /\ Hex[6] = OnA("rr")
      /\ Hex[7] = OnA("rr")
      /\ Hex[8] = OnA("rr")
  BY DEF Hex
<1>3. /\ Hex[9] = Branch("call", "always", 11, 3)
      /\ Hex[10] = Ld(R("A"), R("C"), 1)
      /\ Hex[11] = Math("and", N(15), 2)
      /\ Hex[12] = Math("add", N(144), 2)
  BY DEF Hex
<1>4. /\ Hex[13] = OnA("daa")
      /\ Hex[14] = Math("adc", N(64), 2)
      /\ Hex[15] = OnA("daa")
      /\ Hex[16] = OnPort("out_(n)_a", KbPort)
  BY DEF Hex
<1>5. Hex[17] = Ret("always")
  BY DEF Hex
<1>6. /\ Hex[1].len = 3 /\ "to" \notin DOMAIN Hex[1]
      /\ Hex[2].len = 3
      /\ Hex[3].len = 1 /\ "to" \notin DOMAIN Hex[3]
      /\ Hex[4].len = 1 /\ "to" \notin DOMAIN Hex[4]
  BY <1>1, Straight
<1>7. /\ Hex[5].len = 1 /\ "to" \notin DOMAIN Hex[5]
      /\ Hex[6].len = 1 /\ "to" \notin DOMAIN Hex[6]
      /\ Hex[7].len = 1 /\ "to" \notin DOMAIN Hex[7]
      /\ Hex[8].len = 1 /\ "to" \notin DOMAIN Hex[8]
  BY <1>2, Straight
<1>8. /\ Hex[9].len = 3
      /\ Hex[10].len = 1 /\ "to" \notin DOMAIN Hex[10]
      /\ Hex[11].len = 2 /\ "to" \notin DOMAIN Hex[11]
      /\ Hex[12].len = 2 /\ "to" \notin DOMAIN Hex[12]
  BY <1>3, Straight
<1>9. /\ Hex[13].len = 1 /\ "to" \notin DOMAIN Hex[13]
      /\ Hex[14].len = 2 /\ "to" \notin DOMAIN Hex[14]
      /\ Hex[15].len = 1 /\ "to" \notin DOMAIN Hex[15]
      /\ Hex[16].len = 2 /\ "to" \notin DOMAIN Hex[16]
  BY <1>4, Straight
<1>10. Hex[17].len = 1 /\ "to" \notin DOMAIN Hex[17]
  BY <1>5, Straight
<1>11. IsListing(Hex, 17)
  <2>1. DOMAIN Hex = 1 .. 17 /\ Len(Hex) = 17
    BY DEF Hex
  <2>2. \A k \in 1 .. 17 : Hex[k].len \in Nat \ {0}
    BY <1>6, <1>7, <1>8, <1>9, <1>10
  <2> QED BY <2>1, <2>2 DEF IsListing
<1>12. place[1] = 256 /\ \A k \in 1 .. 17 : place[k + 1] = place[k] + Hex[k].len
  BY <1>11, OwnPlaces
<1>13. /\ place[1] = 256 /\ place[2] = 259 /\ place[3] = 262 /\ place[4] = 263
       /\ place[5] = 264 /\ place[6] = 265 /\ place[7] = 266 /\ place[8] = 267
       /\ place[9] = 268 /\ place[10] = 271 /\ place[11] = 272 /\ place[12] = 274
       /\ place[13] = 276 /\ place[14] = 277 /\ place[15] = 279 /\ place[16] = 280
       /\ place[17] = 282 /\ place[18] = 283
  <2> HIDE DEF place
  <2> QED BY <1>6, <1>7, <1>8, <1>9, <1>10, <1>12
<1>14. \A k \in 1 .. 17 : CodeOf["hex"][place[k]] = Linked(Hex[k], place[k + 1], place)
  <2>1. "hex" \in DOMAIN Listing /\ Listing["hex"] = Hex
    BY DEF Listing
  <2> QED BY <1>11, <2>1, OwnLines
<1>15. Insn = CodeOf["hex"][cpu.PC]
  BY GuestIs
<1> HIDE DEF place
<1>16. \A k \in 1 .. 17 : cpu.PC = place[k] => Insn = Linked(Hex[k], place[k + 1], place)
  BY <1>14, <1>15
<1>17. \A k \in (1 .. 17) \ {2, 9} : cpu.PC = place[k] => Insn = Hex[k]
  BY <1>6, <1>7, <1>8, <1>9, <1>10, <1>16, NoJump
<1>18. /\ cpu.PC = 256 => Insn = Hex[1]
       /\ cpu.PC = 262 => Insn = Hex[3]
       /\ cpu.PC = 263 => Insn = Hex[4]
  BY <1>13, <1>17
<1>19. /\ cpu.PC = 264 => Insn = Hex[5]
       /\ cpu.PC = 265 => Insn = Hex[6]
       /\ cpu.PC = 266 => Insn = Hex[7]
       /\ cpu.PC = 267 => Insn = Hex[8]
  BY <1>13, <1>17
<1>20. /\ cpu.PC = 271 => Insn = Hex[10]
       /\ cpu.PC = 272 => Insn = Hex[11]
       /\ cpu.PC = 274 => Insn = Hex[12]
  BY <1>13, <1>17
<1>21. /\ cpu.PC = 276 => Insn = Hex[13]
       /\ cpu.PC = 277 => Insn = Hex[14]
       /\ cpu.PC = 279 => Insn = Hex[15]
       /\ cpu.PC = 280 => Insn = Hex[16]
  BY <1>13, <1>17
<1>22. cpu.PC = 282 => Insn = Hex[17]
  BY <1>13, <1>17
<1>23. cpu.PC = 259 => /\ Insn.op = "call" /\ Insn.cc = "always" /\ Insn.len = 3
                       /\ Insn.nn = 263
  BY <1>1, <1>13, <1>16, Jumping
<1>24. cpu.PC = 268 => /\ Insn.op = "call" /\ Insn.cc = "always" /\ Insn.len = 3
                       /\ Insn.nn = 272
  BY <1>3, <1>13, <1>16, Jumping
<1> QED BY <1>1, <1>2, <1>3, <1>4, <1>5, <1>18, <1>19, <1>20, <1>21, <1>22, <1>23, <1>24

\* Its steps.
LEMMA HexGoes ==
  ASSUME Loaded, Home, Step, guest.program = "hex", HexAt(guest, cpu, mem, output)
  PROVE  GuestInv'
<1> DEFINE high == guest.x \div 16
           n == IF cpu.SP = 65532 THEN high ELSE guest.x % 16
           Printed(o, k) == Sends(o, k, Digit(high), Digit(guest.x % 16), 0)
           Reached(t, m) == /\ Moves(t, m) /\ Sane(t) /\ m \in Store /\ m[Ticks] = mem[Ticks]
                            /\ HexAt(guest, t, m, output)
           After(data) == Append(output, [port |-> KbPort, data |-> data])
           Wrote(t, data) == /\ Writes(t, KbPort, data) /\ Sane(t)
                             /\ HexAt(guest, t, mem, After(data))
<1>1. guest \in Guests /\ mem \in Store /\ Sane(cpu) /\ cpu \in CpuState /\ output \in Signals
  BY DEF Home, Others, Sane
<1>2. Calm /\ cpu.iff1 /\ mem[Text] = guest.x
  BY <1>1 DEF HexAt, Sane, Calm
<1>3. ~cpu.halted
  BY StepRuns DEF Running
<1>4. /\ Plus(256, 3) = 259 /\ Plus(259, 3) = 262 /\ Plus(263, 1) = 264 /\ Plus(264, 1) = 265
      /\ Plus(265, 1) = 266 /\ Plus(266, 1) = 267 /\ Plus(267, 1) = 268 /\ Plus(268, 3) = 271
      /\ Plus(271, 1) = 272 /\ Plus(272, 2) = 274 /\ Plus(274, 2) = 276 /\ Plus(276, 1) = 277
      /\ Plus(277, 2) = 279 /\ Plus(279, 1) = 280 /\ Plus(280, 2) = 282
  BY DEF Plus
<1>5. /\ 0 \in Slots /\ 65534 \in Slots \ {0} /\ 65532 \in Slots \ {0} /\ 65534 \in Levels \ {0}
      /\ Lower(0) = 65534 /\ Lower(65534) = 65532 /\ Higher(65534) = 0 /\ Higher(65532) = 65534
      /\ 0 \in Levels /\ 65534 \in Levels /\ 65532 \in Levels
  BY DEF Slots, Lower, Higher, Levels
<1>6. guest.x \in Byte
  BY <1>1, GuestIs
<1>7. cpu.A \in Byte
  BY <1>1, StateParts
<1>8. PICK d \in 0 .. 15 : d = n
  <2>1. 0 <= guest.x /\ guest.x <= 255 /\ guest.x \in Int
    BY <1>6, ByteIs
  <2> QED BY <2>1
<1>9. ASSUME cpu.PC = 256 PROVE \E t, m : Reached(t, m)
  <2>1. Insn = Ld(R("A"), At(Text), 3)
    BY <1>1, <1>9, HexCode
  <2>2. cpu.SP = 0
    BY <1>2, <1>9 DEF HexAt, Unflagged
  <2>3. Insn.len = 3 /\ "A" \in Simple
    BY <2>1 DEF Ld, Simple
  <2>4. Operand(Fetched, At(Text)) = guest.x
    BY <1>2, <2>3, OperandsOf
  <2>5. PICK t : /\ Moves(t, mem)
                 /\ Becomes(t, 259, cpu.SP, guest.x, cpu.F, cpu.BC, cpu.DE, cpu.HL)
    BY <1>2, <1>4, <1>9, <2>1, <1>6, <2>3, <2>4, LoadsRegister
  <2>6. HexAt(guest, t, mem, output)
    BY <1>3, <1>9, <2>5, <1>2 DEF HexAt, Becomes
  <2> QED BY <1>1, <1>2, <1>5, <2>2, <2>5, <2>6, StaysSane
<1>10. ASSUME cpu.PC = 259 PROVE \E t, m : Reached(t, m)
  <2>1. /\ Insn.op = "call" /\ Insn.cc = "always" /\ Insn.len = 3 /\ Insn.nn = 263
        /\ 263 \in Words
    BY <1>1, <1>10, HexCode, WordIs
  <2>2. cpu.SP = 0
    BY <1>2, <1>10 DEF HexAt, Unflagged
  <2>3. PICK t, m : /\ Moves(t, m) /\ Written(m, 65534, 262)
                    /\ Becomes(t, 263, 65534, cpu.A, cpu.F, cpu.BC, cpu.DE, cpu.HL)
    BY <1>1, <1>2, <1>5, <1>4, <1>10, <2>1, <2>2, Calls
  <2>4. /\ m[Text] = guest.x /\ m[Ticks] = mem[Ticks] /\ m \in Store /\ Holds(m, 65534, 262)
    BY <1>2, <2>2, <2>3 DEF Written, WrittenOver, Cells, Stack
  <2>5. HexAt(guest, t, m, output)
    BY <1>3, <1>10, <2>3, <2>4 DEF HexAt, Becomes
  <2> QED BY <1>1, <1>2, <1>5, <2>2, <2>3, <2>5, <2>4, StaysSane
<1>11. ASSUME cpu.PC = 262 PROVE \E t, m : Reached(t, m)
  <2>1. Insn = Plain("halt", 1)
    BY <1>1, <1>11, HexCode
  <2>2. PICK t : t = [cpu EXCEPT !.halted = TRUE]
    OBVIOUS
  <2>3. Moves(t, mem)
    BY <1>2, <2>1, <2>2, Halts
  <2>4. /\ Sane(t) /\ t.PC = cpu.PC /\ t.SP = cpu.SP /\ t.iff1 = cpu.iff1 /\ t.A = cpu.A
        /\ t.F = cpu.F /\ t.BC = cpu.BC /\ t.DE = cpu.DE /\ t.HL = cpu.HL /\ t.IX = cpu.IX
        /\ t.enable_interrupts_next_cycle = cpu.enable_interrupts_next_cycle
        /\ t.interrupt_mode = cpu.interrupt_mode
    BY <1>1, <2>2, Halted
  <2>5. HexAt(guest, t, mem, output)
    BY <1>2, <1>11, <2>4 DEF HexAt
  <2> QED BY <1>1, <2>3, <2>4, <2>5
<1>12. ASSUME cpu.PC = 263 PROVE \E t, m : Reached(t, m)
  <2>1. Insn = Ld(R("C"), R("A"), 1)
    BY <1>1, <1>12, HexCode
  <2>2. cpu.SP = 65534 /\ cpu.A = guest.x
    BY <1>2, <1>12 DEF HexAt, Unflagged
  <2>3. Insn.len = 1 /\ "C" \in Simple
    BY <2>1 DEF Ld, Simple
  <2>4. Operand(Fetched, R("A")) = guest.x
    BY <1>2, <2>3, <2>2, OperandsOf
  <2>5. PICK t : /\ Moves(t, mem)
                 /\ Becomes(t, 264, cpu.SP, cpu.A, cpu.F, 256 * OfB(cpu) + guest.x, cpu.DE, cpu.HL)
    BY <1>2, <1>4, <1>12, <2>1, <1>6, <2>3, <2>4, LoadsRegister
  <2>6. OfB(cpu) \in Byte
    BY <1>1, StateParts, HalvesOfWord DEF OfB
  <2>7. OfC(t) = guest.x
    BY <1>6, <2>5, <2>6, WordOfHalves DEF OfC, Becomes
  <2>8. HexAt(guest, t, mem, output)
    BY <1>3, <1>12, <2>5, <2>2, <2>7 DEF HexAt, Becomes
  <2> QED BY <1>1, <1>2, <1>5, <2>2, <2>5, <2>8, StaysSane
<1>13. ASSUME cpu.PC = 264 PROVE \E t, m : Reached(t, m)
  <2>1. Insn = OnA("rr")
    BY <1>1, <1>13, HexCode
  <2>2. cpu.SP = 65534 /\ cpu.A = guest.x
    BY <1>2, <1>13 DEF HexAt, Unflagged
  <2>3. "rr" \in ANames \ {"neg"}
    BY DEF ANames
  <2>4. PICK t, r : /\ Moves(t, mem) /\ r = AdjustA("rr", cpu.A, cpu.F)
                    /\ Becomes(t, Plus(cpu.PC, 1), cpu.SP, r.x, r.f, cpu.BC, cpu.DE, cpu.HL)
    BY <1>2, <2>1, <2>3, AdjustsA
  <2>5. PICK c \in {0, 1} : r.x = cpu.A \div 2 + 128 * c
    BY <1>7, <2>4, HalvesA
  <2>6. r.x % 128 = guest.x \div 2
    BY <1>6, <1>7, <2>2, <2>5, DigitComesDown
  <2>7. t.A = r.x /\ OfC(t) = OfC(cpu)
    BY <2>4 DEF Becomes, OfC
  <2>8. HexAt(guest, t, mem, output)
    BY <1>3, <1>13, <2>4, <1>2, <1>4, <2>2, <2>6, <2>7 DEF HexAt, Becomes
  <2> QED BY <1>1, <1>2, <1>5, <2>2, <2>4, <2>8, StaysSane
<1>14. ASSUME cpu.PC = 265 PROVE \E t, m : Reached(t, m)
  <2>1. Insn = OnA("rr")
    BY <1>1, <1>14, HexCode
  <2>2. cpu.SP = 65534 /\ cpu.A % 128 = guest.x \div 2
    BY <1>2, <1>14 DEF HexAt, Unflagged
  <2>3. "rr" \in ANames \ {"neg"}
    BY DEF ANames
  <2>4. PICK t, r : /\ Moves(t, mem) /\ r = AdjustA("rr", cpu.A, cpu.F)
                    /\ Becomes(t, Plus(cpu.PC, 1), cpu.SP, r.x, r.f, cpu.BC, cpu.DE, cpu.HL)
    BY <1>2, <2>1, <2>3, AdjustsA
  <2>5. PICK c \in {0, 1} : r.x = cpu.A \div 2 + 128 * c
    BY <1>7, <2>4, HalvesA
  <2>6. r.x % 64 = guest.x \div 4
    BY <1>6, <1>7, <2>2, <2>5, DigitComesDown
  <2>7. t.A = r.x /\ OfC(t) = OfC(cpu)
    BY <2>4 DEF Becomes, OfC
  <2>8. HexAt(guest, t, mem, output)
    BY <1>3, <1>14, <2>4, <1>2, <1>4, <2>2, <2>6, <2>7 DEF HexAt, Becomes
  <2> QED BY <1>1, <1>2, <1>5, <2>2, <2>4, <2>8, StaysSane
<1>15. ASSUME cpu.PC = 266 PROVE \E t, m : Reached(t, m)
  <2>1. Insn = OnA("rr")
    BY <1>1, <1>15, HexCode
  <2>2. cpu.SP = 65534 /\ cpu.A % 64 = guest.x \div 4
    BY <1>2, <1>15 DEF HexAt, Unflagged
  <2>3. "rr" \in ANames \ {"neg"}
    BY DEF ANames
  <2>4. PICK t, r : /\ Moves(t, mem) /\ r = AdjustA("rr", cpu.A, cpu.F)
                    /\ Becomes(t, Plus(cpu.PC, 1), cpu.SP, r.x, r.f, cpu.BC, cpu.DE, cpu.HL)
    BY <1>2, <2>1, <2>3, AdjustsA
  <2>5. PICK c \in {0, 1} : r.x = cpu.A \div 2 + 128 * c
    BY <1>7, <2>4, HalvesA
  <2>6. r.x % 32 = guest.x \div 8
    BY <1>6, <1>7, <2>2, <2>5, DigitComesDown
  <2>7. t.A = r.x /\ OfC(t) = OfC(cpu)
    BY <2>4 DEF Becomes, OfC
  <2>8. HexAt(guest, t, mem, output)
    BY <1>3, <1>15, <2>4, <1>2, <1>4, <2>2, <2>6, <2>7 DEF HexAt, Becomes
  <2> QED BY <1>1, <1>2, <1>5, <2>2, <2>4, <2>8, StaysSane
<1>16. ASSUME cpu.PC = 267 PROVE \E t, m : Reached(t, m)
  <2>1. Insn = OnA("rr")
    BY <1>1, <1>16, HexCode
  <2>2. cpu.SP = 65534 /\ cpu.A % 32 = guest.x \div 8
    BY <1>2, <1>16 DEF HexAt, Unflagged
  <2>3. "rr" \in ANames \ {"neg"}
    BY DEF ANames
  <2>4. PICK t, r : /\ Moves(t, mem) /\ r = AdjustA("rr", cpu.A, cpu.F)
                    /\ Becomes(t, Plus(cpu.PC, 1), cpu.SP, r.x, r.f, cpu.BC, cpu.DE, cpu.HL)
    BY <1>2, <2>1, <2>3, AdjustsA
  <2>5. PICK c \in {0, 1} : r.x = cpu.A \div 2 + 128 * c
    BY <1>7, <2>4, HalvesA
  <2>6. r.x % 16 = guest.x \div 16
    BY <1>6, <1>7, <2>2, <2>5, DigitComesDown
  <2>7. t.A = r.x /\ OfC(t) = OfC(cpu)
    BY <2>4 DEF Becomes, OfC
  <2>8. HexAt(guest, t, mem, output)
    BY <1>3, <1>16, <2>4, <1>2, <1>4, <2>2, <2>6, <2>7 DEF HexAt, Becomes
  <2> QED BY <1>1, <1>2, <1>5, <2>2, <2>4, <2>8, StaysSane
<1>17. ASSUME cpu.PC = 268 PROVE \E t, m : Reached(t, m)
  <2>1. /\ Insn.op = "call" /\ Insn.cc = "always" /\ Insn.len = 3 /\ Insn.nn = 272
        /\ 272 \in Words
    BY <1>1, <1>17, HexCode, WordIs
  <2>2. cpu.SP = 65534 /\ Holds(mem, 65534, 262)
    BY <1>2, <1>17 DEF HexAt, Unflagged
  <2>3. PICK t, m : /\ Moves(t, m) /\ Written(m, 65532, 271)
                    /\ Becomes(t, 272, 65532, cpu.A, cpu.F, cpu.BC, cpu.DE, cpu.HL)
    BY <1>1, <1>2, <1>5, <1>4, <1>17, <2>1, <2>2, Calls
  <2>4. /\ m[Text] = guest.x /\ m[Ticks] = mem[Ticks] /\ m \in Store /\ Holds(m, 65532, 271)
    BY <1>2, <2>2, <2>3 DEF Written, WrittenOver, Cells, Stack
  <2>5. Holds(m, 65534, 262)
    BY <2>2, <2>3 DEF Written, WrittenOver, Cells, Stack, Holds
  <2>6. OfC(t) = OfC(cpu)
    BY <2>3 DEF Becomes, OfC
  <2>7. HexAt(guest, t, m, output)
    BY <1>3, <1>17, <2>3, <2>4, <2>5, <2>6 DEF HexAt, Becomes
  <2> QED BY <1>1, <1>2, <1>5, <2>2, <2>3, <2>7, <2>4, StaysSane
<1>18. ASSUME cpu.PC = 271 PROVE \E t, m : Reached(t, m)
  <2>1. Insn = Ld(R("A"), R("C"), 1)
    BY <1>1, <1>18, HexCode
  <2>2. cpu.SP = 65534 /\ OfC(cpu) = guest.x
    BY <1>2, <1>18 DEF HexAt, Unflagged
  <2>3. Insn.len = 1 /\ "A" \in Simple
    BY <2>1 DEF Ld, Simple
  <2>4. Operand(Fetched, R("C")) = guest.x
    BY <1>2, <2>3, <2>2, OperandsOf
  <2>5. PICK t : /\ Moves(t, mem)
                 /\ Becomes(t, 272, cpu.SP, guest.x, cpu.F, cpu.BC, cpu.DE, cpu.HL)
    BY <1>2, <1>4, <1>18, <2>1, <1>6, <2>3, <2>4, LoadsRegister
  <2>6. HexAt(guest, t, mem, output)
    BY <1>3, <1>18, <2>5, <1>2, <2>2 DEF HexAt, Becomes
  <2> QED BY <1>1, <1>2, <1>5, <2>2, <2>5, <2>6, StaysSane
<1>19. ASSUME cpu.PC = 272 PROVE \E t, m : Reached(t, m)
  <2>1. Insn = Math("and", N(15), 2)
    BY <1>1, <1>19, HexCode
  <2>2. cpu.SP \in {65532, 65534} /\ cpu.A % 16 = d
    BY <1>2, <1>19, <1>8 DEF HexAt, Unflagged
  <2>3. "and" \in MathNames /\ Insn.len = 2 /\ 15 \in Byte
    BY <2>1, ByteIs DEF Math, MathNames
  <2>4. Operand(Fetched, N(15)) = 15
    BY <1>2, <2>3, OperandsOf
  <2>5. PICK t, r : /\ Moves(t, mem) /\ r = Arithmetic("and", cpu.A, 15, cpu.F)
                    /\ Becomes(t, Plus(cpu.PC, 2), cpu.SP, r.x, r.f, cpu.BC, cpu.DE, cpu.HL)
    BY <1>2, <2>1, <2>3, <2>4, Computes
  <2>6. r.x = d
    BY <1>7, <2>2, <2>5, LowerDigit DEF Arithmetic
  <2>7. /\ t.PC = 274 /\ t.SP = cpu.SP /\ t.iff1 /\ ~t.halted
        /\ t.A = r.x /\ t.F = r.f /\ OfC(t) = OfC(cpu)
    BY <1>2, <1>3, <1>4, <1>19, <2>5 DEF Becomes, OfC
  <2>8. HexAt(guest, t, mem, output)
    BY <1>2, <1>19, <1>8, <2>2, <2>6, <2>7 DEF HexAt, Becomes
  <2> QED BY <1>1, <1>2, <1>5, <2>2, <2>5, <2>8, StaysSane
<1>20. ASSUME cpu.PC = 274 PROVE \E t, m : Reached(t, m)
  <2>1. Insn = Math("add", N(144), 2)
    BY <1>1, <1>20, HexCode
  <2>2. cpu.SP \in {65532, 65534} /\ cpu.A = d
    BY <1>2, <1>20, <1>8 DEF HexAt, Unflagged
  <2>3. "add" \in MathNames /\ Insn.len = 2 /\ 144 \in Byte
    BY <2>1, ByteIs DEF Math, MathNames
  <2>4. Operand(Fetched, N(144)) = 144
    BY <1>2, <2>3, OperandsOf
  <2>5. PICK t, r : /\ Moves(t, mem) /\ r = Arithmetic("add", cpu.A, 144, cpu.F)
                    /\ Becomes(t, Plus(cpu.PC, 2), cpu.SP, r.x, r.f, cpu.BC, cpu.DE, cpu.HL)
    BY <1>2, <2>1, <2>3, <2>4, Computes
  <2>6. r.x = 144 + d /\ Unflagged(r.f)
    BY <1>8, <2>2, <2>5, DigitAdded DEF Arithmetic
  <2>7. /\ t.PC = 276 /\ t.SP = cpu.SP /\ t.iff1 /\ ~t.halted
        /\ t.A = r.x /\ t.F = r.f /\ OfC(t) = OfC(cpu)
    BY <1>2, <1>3, <1>4, <1>20, <2>5 DEF Becomes, OfC
  <2>8. HexAt(guest, t, mem, output)
    BY <1>2, <1>20, <1>8, <2>2, <2>6, <2>7 DEF HexAt, Becomes, Unflagged
  <2> QED BY <1>1, <1>2, <1>5, <2>2, <2>5, <2>8, StaysSane
<1>21. ASSUME cpu.PC = 276 PROVE \E t, m : Reached(t, m)
  <2>1. Insn = OnA("daa")
    BY <1>1, <1>21, HexCode
  <2>2. cpu.SP \in {65532, 65534} /\ cpu.A = 144 + d /\ Unflagged(cpu.F)
    BY <1>2, <1>21, <1>8 DEF HexAt, Unflagged
  <2>3. "daa" \in ANames \ {"neg"}
    BY DEF ANames
  <2>4. PICK t, r : /\ Moves(t, mem) /\ r = AdjustA("daa", cpu.A, cpu.F)
                    /\ Becomes(t, Plus(cpu.PC, 1), cpu.SP, r.x, r.f, cpu.BC, cpu.DE, cpu.HL)
    BY <1>2, <2>1, <2>3, AdjustsA
  <2>5. r = Daa(cpu.A, cpu.F)
    BY <2>4 DEF AdjustA
  <2>6. /\ r.x = IF d < 10 THEN 144 + d ELSE d - 10
        /\ "C" \in r.f <=> d >= 10
    BY <1>8, <2>2, <2>5, DigitAdjusted
  <2>7. /\ t.PC = 277 /\ t.SP = cpu.SP /\ t.iff1 /\ ~t.halted
        /\ t.A = r.x /\ t.F = r.f /\ OfC(t) = OfC(cpu)
    BY <1>2, <1>3, <1>4, <1>21, <2>4 DEF Becomes, OfC
  <2>8. HexAt(guest, t, mem, output)
    BY <1>2, <1>21, <1>8, <2>2, <2>6, <2>7 DEF HexAt, Becomes
  <2> QED BY <1>1, <1>2, <1>5, <2>2, <2>4, <2>8, StaysSane
<1>22. ASSUME cpu.PC = 277 PROVE \E t, m : Reached(t, m)
  <2>1. Insn = Math("adc", N(64), 2)
    BY <1>1, <1>22, HexCode
  <2>2. cpu.SP \in {65532, 65534} /\ cpu.A = (IF d < 10 THEN 144 + d ELSE d - 10)
        /\ ("C" \in cpu.F <=> d >= 10)
    BY <1>2, <1>22, <1>8 DEF HexAt, Unflagged
  <2>3. "adc" \in MathNames /\ Insn.len = 2 /\ 64 \in Byte
    BY <2>1, ByteIs DEF Math, MathNames
  <2>4. Operand(Fetched, N(64)) = 64
    BY <1>2, <2>3, OperandsOf
  <2>5. PICK t, r : /\ Moves(t, mem) /\ r = Arithmetic("adc", cpu.A, 64, cpu.F)
                    /\ Becomes(t, Plus(cpu.PC, 2), cpu.SP, r.x, r.f, cpu.BC, cpu.DE, cpu.HL)
    BY <1>2, <2>1, <2>3, <2>4, Computes
  <2>6. r.x = (IF d < 10 THEN 208 + d ELSE 55 + d) /\ Unflagged(r.f)
    BY <1>8, <2>2, <2>5, DigitCarried DEF Arithmetic
  <2>7. /\ t.PC = 279 /\ t.SP = cpu.SP /\ t.iff1 /\ ~t.halted
        /\ t.A = r.x /\ t.F = r.f /\ OfC(t) = OfC(cpu)
    BY <1>2, <1>3, <1>4, <1>22, <2>5 DEF Becomes, OfC
  <2>8. HexAt(guest, t, mem, output)
    BY <1>2, <1>22, <1>8, <2>2, <2>6, <2>7 DEF HexAt, Becomes, Unflagged
  <2> QED BY <1>1, <1>2, <1>5, <2>2, <2>5, <2>8, StaysSane
<1>23. ASSUME cpu.PC = 279 PROVE \E t, m : Reached(t, m)
  <2>1. Insn = OnA("daa")
    BY <1>1, <1>23, HexCode
  <2>2. /\ cpu.SP \in {65532, 65534} /\ Unflagged(cpu.F)
        /\ cpu.A = (IF d < 10 THEN 208 + d ELSE 55 + d)
    BY <1>2, <1>23, <1>8 DEF HexAt, Unflagged
  <2>3. "daa" \in ANames \ {"neg"}
    BY DEF ANames
  <2>4. PICK t, r : /\ Moves(t, mem) /\ r = AdjustA("daa", cpu.A, cpu.F)
                    /\ Becomes(t, Plus(cpu.PC, 1), cpu.SP, r.x, r.f, cpu.BC, cpu.DE, cpu.HL)
    BY <1>2, <2>1, <2>3, AdjustsA
  <2>5. r = Daa(cpu.A, cpu.F)
    BY <2>4 DEF AdjustA
  <2>6. r.x = Digit(d)
    BY <1>8, <2>2, <2>5, DigitShown
  <2>7. /\ t.PC = 280 /\ t.SP = cpu.SP /\ t.iff1 /\ ~t.halted
        /\ t.A = r.x /\ t.F = r.f /\ OfC(t) = OfC(cpu)
    BY <1>2, <1>3, <1>4, <1>23, <2>4 DEF Becomes, OfC
  <2>8. HexAt(guest, t, mem, output)
    BY <1>2, <1>23, <1>8, <2>2, <2>6, <2>7 DEF HexAt, Becomes
  <2> QED BY <1>1, <1>2, <1>5, <2>2, <2>4, <2>8, StaysSane
<1>24. ASSUME cpu.PC = 280 PROVE \E t : \E data \in Byte : Wrote(t, data)
  <2>1. Insn = OnPort("out_(n)_a", KbPort)
    BY <1>1, <1>24, HexCode
  <2>2. /\ cpu.SP \in {65532, 65534} /\ cpu.A = Digit(d)
        /\ Printed(output, IF cpu.SP = 65532 THEN 0 ELSE 1)
    BY <1>2, <1>24, <1>8 DEF HexAt, Unflagged
  <2>3. PICK t : /\ Writes(t, KbPort, cpu.A)
                 /\ Becomes(t, 282, cpu.SP, cpu.A, cpu.F, cpu.BC, cpu.DE, cpu.HL)
    BY <1>2, <1>4, <1>24, <2>1, WritesA
  <2>4. Printed(After(cpu.A), IF cpu.SP = 65532 THEN 1 ELSE 2)
    <3>1. PICK x \in [port : Byte, data : Byte] :
            x = [port |-> KbPort, data |-> cpu.A] /\ x.data = cpu.A
      BY <1>7, AsSignal
    <3> QED BY <1>1, <1>8, <2>2, <3>1, SendsMore
  <2> HIDE DEF After
  <2>5. HexAt(guest, t, mem, After(cpu.A))
    BY <1>3, <1>2, <1>24, <2>3, <2>2, <2>4 DEF HexAt, Becomes, OfC
  <2> QED BY <1>1, <1>2, <1>5, <1>7, <2>2, <2>3, <2>5, StaysSane
<1>25. ASSUME cpu.PC = 282 PROVE \E t, m : Reached(t, m)
  <2>1. Insn = Ret("always")
    BY <1>1, <1>25, HexCode
  <2>2. cpu.SP \in {65532, 65534}
    BY <1>25 DEF HexAt
  <2>3. ASSUME cpu.SP = 65534 PROVE \E t, m : Reached(t, m)
    <3>1. Holds(mem, 65534, 262) /\ 262 \in Words
      BY <1>25, <2>3, WordIs DEF HexAt
    <3>2. PICK t : /\ Moves(t, mem)
                   /\ Becomes(t, 262, 0, cpu.A, cpu.F, cpu.BC, cpu.DE, cpu.HL)
      BY <1>2, <1>5, <2>1, <3>1, <2>3, Returns
    <3>3. OfC(t) = OfC(cpu)
      BY <3>2 DEF Becomes, OfC
    <3>4. HexAt(guest, t, mem, output)
      BY <1>3, <1>2, <1>25, <3>2, <3>3, <2>3 DEF HexAt, Becomes
    <3> QED BY <1>1, <1>5, <3>2, <3>4, StaysSane
  <2>4. ASSUME cpu.SP = 65532 PROVE \E t, m : Reached(t, m)
    <3>1. Holds(mem, 65532, 271) /\ 271 \in Words
      BY <1>25, <2>4, WordIs DEF HexAt
    <3>2. PICK t : /\ Moves(t, mem)
                   /\ Becomes(t, 271, 65534, cpu.A, cpu.F, cpu.BC, cpu.DE, cpu.HL)
      BY <1>2, <1>5, <2>1, <3>1, <2>4, Returns
    <3>3. OfC(t) = OfC(cpu)
      BY <3>2 DEF Becomes, OfC
    <3>4. HexAt(guest, t, mem, output)
      BY <1>3, <1>2, <1>25, <3>2, <3>3, <2>4 DEF HexAt, Becomes
    <3> QED BY <1>1, <1>5, <3>2, <3>4, StaysSane
  <2> QED BY <2>2, <2>3, <2>4
<1>26. ASSUME NEW t, NEW m, Reached(t, m) PROVE GuestInv'
  <2>1. ProgramAt(guest, t, m, output)
    BY <1>26, Which
  <2> HIDE DEF Ticks
  <2> QED BY <1>26, <2>1, GoesOn
<1>27. ASSUME NEW t, NEW data \in Byte, Wrote(t, data) PROVE GuestInv'
  <2>1. ProgramAt(guest, t, mem, After(data))
    BY <1>27, Which
  <2>2. KbPort \in Byte
    BY ByteIs
  <2> HIDE DEF KbPort
  <2> QED BY <1>27, <2>1, <2>2, GoesOnWriting
<1>28. cpu.PC \in {256, 259, 262, 263, 264, 265, 266, 267, 268, 271, 272, 274, 276, 277, 279,
                   280, 282}
  BY DEF HexAt
<1> HIDE DEF Reached, Wrote
<1> QED BY <1>9, <1>10, <1>11, <1>12, <1>13, <1>14, <1>15, <1>16, <1>17, <1>18, <1>19, <1>20,
   <1>21, <1>22, <1>23, <1>24, <1>25, <1>26, <1>27, <1>28

-----------------------------------------------------------------------------
(***************************************************************************)
(* ports                                                                   *)
(***************************************************************************)
\* Its lines.
LEMMA PortsCode ==
  ASSUME Loaded, guest \in Guests, guest.program = "ports"
  PROVE  /\ cpu.PC = 256 => Insn = LdWide(RR("HL"), NN(Text), 3)
         /\ cpu.PC = 259 => Insn = LdWide(RR("BC"), NN(3 * 256 + 8), 3)
         /\ cpu.PC = 262 => /\ Insn.op = "ini" /\ Insn.len = 2
                            /\ Insn.up = TRUE /\ Insn.repeat = TRUE
         /\ cpu.PC = 264 => Insn = LdWide(RR("HL"), NN(Text), 3)
         /\ cpu.PC = 267 => Insn = LdWide(RR("BC"), NN(3 * 256 + KbPort), 3)
         /\ cpu.PC = 270 => /\ Insn.op = "outi" /\ Insn.len = 2
                            /\ Insn.up = TRUE /\ Insn.repeat = TRUE
         /\ cpu.PC = 272 => Insn = LdWide(RR("BC"), NN(8), 3)
         /\ cpu.PC = 275 => Insn = Plain("in_(c)", 2)
         /\ cpu.PC = 277 => Insn = InC("D")
         /\ cpu.PC = 279 => Insn = Ld(R("C"), N(KbPort), 2)
         /\ cpu.PC = 281 => Insn = Math("out", R("D"), 2)
         /\ cpu.PC = 283 => Insn = Ld(R("A"), R("D"), 1)
         /\ cpu.PC = 284 => Insn = Ld(At(Copy), R("A"), 3)
         /\ cpu.PC = 287 => Insn = Plain("halt", 1)
<1> DEFINE place == Places(256, Ports)
<1> HIDE DEF Text, Copy, Table, Ticks, KbPort
<1>1. /\ Ports[1] = LdWide(RR("HL"), NN(Text), 3)
      /\ Ports[2] = LdWide(RR("BC"), NN(3 * 256 + 8), 3)
      /\ Ports[4] = LdWide(RR("HL"), NN(Text), 3)
      /\ Ports[5] = LdWide(RR("BC"), NN(3 * 256 + KbPort), 3)
  BY DEF Ports
<1>2. /\ Ports[7] = LdWide(RR("BC"), NN(8), 3)
      /\ Ports[8] = Plain("in_(c)", 2)
      /\ Ports[9] = InC("D")
      /\ Ports[10] = Ld(R("C"), N(KbPort), 2)
  BY DEF Ports
<1>3. /\ Ports[11] = Math("out", R("D"), 2)
      /\ Ports[12] = Ld(R("A"), R("D"), 1)
      /\ Ports[13] = Ld(At(Copy), R("A"), 3)
      /\ Ports[14] = Plain("halt", 1)
  BY DEF Ports
<1>4. /\ Ports[1].len = 3 /\ "to" \notin DOMAIN Ports[1]
      /\ Ports[2].len = 3 /\ "to" \notin DOMAIN Ports[2]
      /\ Ports[4].len = 3 /\ "to" \notin DOMAIN Ports[4]
      /\ Ports[5].len = 3 /\ "to" \notin DOMAIN Ports[5]
  BY <1>1, Straight
<1>5. /\ Ports[7].len = 3 /\ "to" \notin DOMAIN Ports[7]
      /\ Ports[8].len = 2 /\ "to" \notin DOMAIN Ports[8]
      /\ Ports[9].len = 2 /\ "to" \notin DOMAIN Ports[9]
      /\ Ports[10].len = 2 /\ "to" \notin DOMAIN Ports[10]
  BY <1>2, Straight
<1>6. /\ Ports[11].len = 2 /\ "to" \notin DOMAIN Ports[11]
      /\ Ports[12].len = 1 /\ "to" \notin DOMAIN Ports[12]
      /\ Ports[13].len = 3 /\ "to" \notin DOMAIN Ports[13]
      /\ Ports[14].len = 1 /\ "to" \notin DOMAIN Ports[14]
  BY <1>3, Straight
<1>7. /\ Ports[3].op = "ini" /\ Ports[3].len = 2 /\ "to" \notin DOMAIN Ports[3]
      /\ Ports[3].up = TRUE /\ Ports[3].repeat = TRUE
  <2>1. Ports[3] = [op |-> "ini", len |-> 2, up |-> TRUE, repeat |-> TRUE]
    BY DEF Ports, Block
  <2> QED BY <2>1
<1>8. /\ Ports[6].op = "outi" /\ Ports[6].len = 2 /\ "to" \notin DOMAIN Ports[6]
      /\ Ports[6].up = TRUE /\ Ports[6].repeat = TRUE
  <2>1. Ports[6] = [op |-> "outi", len |-> 2, up |-> TRUE, repeat |-> TRUE]
    BY DEF Ports, Block
  <2> QED BY <2>1
<1>9. IsListing(Ports, 14)
  <2>1. DOMAIN Ports = 1 .. 14 /\ Len(Ports) = 14
    BY DEF Ports
  <2>2. \A k \in 1 .. 14 : Ports[k].len \in Nat \ {0}
    BY <1>4, <1>5, <1>6, <1>7, <1>8
  <2> QED BY <2>1, <2>2 DEF IsListing
<1>10. place[1] = 256 /\ \A k \in 1 .. 14 : place[k + 1] = place[k] + Ports[k].len
  BY <1>9, OwnPlaces
<1>11. /\ place[1] = 256 /\ place[2] = 259 /\ place[3] = 262 /\ place[4] = 264
       /\ place[5] = 267 /\ place[6] = 270 /\ place[7] = 272 /\ place[8] = 275
       /\ place[9] = 277 /\ place[10] = 279 /\ place[11] = 281 /\ place[12] = 283
       /\ place[13] = 284 /\ place[14] = 287 /\ place[15] = 288
  <2> HIDE DEF place
  <2> QED BY <1>4, <1>5, <1>6, <1>7, <1>8, <1>10
<1>12. \A k \in 1 .. 14 : CodeOf["ports"][place[k]] = Linked(Ports[k], place[k + 1], place)
  <2>1. "ports" \in DOMAIN Listing /\ Listing["ports"] = Ports
    BY DEF Listing
  <2> QED BY <1>9, <2>1, OwnLines
<1>13. Insn = CodeOf["ports"][cpu.PC]
  BY GuestIs
<1> HIDE DEF place
<1>14. \A k \in 1 .. 14 : cpu.PC = place[k] => Insn = Linked(Ports[k], place[k + 1], place)
  BY <1>12, <1>13
<1>15. \A k \in 1 .. 14 : cpu.PC = place[k] => Insn = Ports[k]
  BY <1>4, <1>5, <1>6, <1>7, <1>8, <1>14, NoJump
<1>16. /\ cpu.PC = 256 => Insn = Ports[1]
       /\ cpu.PC = 259 => Insn = Ports[2]
       /\ cpu.PC = 264 => Insn = Ports[4]
       /\ cpu.PC = 267 => Insn = Ports[5]
  BY <1>11, <1>15
<1>17. /\ cpu.PC = 272 => Insn = Ports[7]
       /\ cpu.PC = 275 => Insn = Ports[8]
       /\ cpu.PC = 277 => Insn = Ports[9]
       /\ cpu.PC = 279 => Insn = Ports[10]
  BY <1>11, <1>15
<1>18. /\ cpu.PC = 281 => Insn = Ports[11]
       /\ cpu.PC = 283 => Insn = Ports[12]
       /\ cpu.PC = 284 => Insn = Ports[13]
       /\ cpu.PC = 287 => Insn = Ports[14]
  BY <1>11, <1>15
<1>19. cpu.PC = 262 => /\ Insn.op = "ini" /\ Insn.len = 2
                       /\ Insn.up = TRUE /\ Insn.repeat = TRUE
  BY <1>7, <1>11, <1>15
<1>20. cpu.PC = 270 => /\ Insn.op = "outi" /\ Insn.len = 2
                       /\ Insn.up = TRUE /\ Insn.repeat = TRUE
  BY <1>8, <1>11, <1>15
<1> QED BY <1>1, <1>2, <1>3, <1>16, <1>17, <1>18, <1>19, <1>20

\* Its steps.
LEMMA PortsGoes ==
  ASSUME Loaded, Home, Step, guest.program = "ports", PortsAt(guest, cpu, mem, output)
  PROVE  GuestInv'
<1> DEFINE b == OfB(cpu)
           Printed(o, k) == Sends(o, k, mem[Text], mem[Text + 1], mem[Text + 2])
           Four == /\ Len(output) = 4 /\ output[1].data = mem[Text]
                   /\ output[2].data = mem[Text + 1] /\ output[3].data = mem[Text + 2]
           Reached(t, m) == /\ Moves(t, m) /\ Sane(t) /\ m \in Store /\ m[Ticks] = mem[Ticks]
                            /\ PortsAt(guest, t, m, output)
           After(data) == Append(output, [port |-> KbPort, data |-> data])
           Wrote(t, data) == /\ Writes(t, KbPort, data) /\ Sane(t)
                             /\ PortsAt(guest, t, mem, After(data))
           Received(t, m) == /\ Receives(t, m, 8) /\ Sane(t) /\ m \in Store /\ m[Ticks] = mem[Ticks]
                             /\ PortsAt(guest, t, m, output)
<1>1. guest \in Guests /\ mem \in Store /\ Sane(cpu) /\ cpu \in CpuState /\ output \in Signals
  BY DEF Home, Others, Sane
<1>2. Calm /\ cpu.iff1 /\ cpu.SP = 0 /\ 0 \in Levels
  BY <1>1 DEF PortsAt, Sane, Calm, Levels
<1>3. ~cpu.halted
  BY StepRuns DEF Running
<1>4. /\ Plus(256, 3) = 259 /\ Plus(259, 3) = 262 /\ Plus(262, 2) = 264 /\ Plus(264, 3) = 267
      /\ Plus(267, 3) = 270 /\ Plus(270, 2) = 272 /\ Plus(272, 3) = 275 /\ Plus(275, 2) = 277
      /\ Plus(277, 2) = 279 /\ Plus(279, 2) = 281 /\ Plus(281, 2) = 283 /\ Plus(283, 1) = 284
      /\ Plus(284, 3) = 287
  BY DEF Plus
<1>5. ASSUME cpu.PC = 256 PROVE \E t, m : Reached(t, m)
  <2>1. Insn = LdWide(RR("HL"), NN(Text), 3) /\ Text \in Words
    BY <1>1, <1>5, PortsCode, WordIs
  <2>2. PICK t : /\ Moves(t, mem)
                 /\ Becomes(t, 259, cpu.SP, cpu.A, cpu.F, cpu.BC, cpu.DE, Text)
    BY <1>2, <1>4, <1>5, <2>1, LoadsPair
  <2>3. PortsAt(guest, t, mem, output)
    BY <1>3, <1>5, <2>2 DEF PortsAt, Becomes, Sends
  <2> QED BY <1>1, <1>2, <2>2, <2>3, StaysSane
<1>6. ASSUME cpu.PC = 259 PROVE \E t, m : Reached(t, m)
  <2>1. Insn = LdWide(RR("BC"), NN(3 * 256 + 8), 3) /\ 3 * 256 + 8 \in Words
    BY <1>1, <1>6, PortsCode, WordIs
  <2>2. PICK t : /\ Moves(t, mem)
                 /\ Becomes(t, 262, cpu.SP, cpu.A, cpu.F, 3 * 256 + 8, cpu.DE, cpu.HL)
    BY <1>2, <1>4, <1>6, <2>1, LoadsPair
  <2>3. OfB(t) = 3 /\ OfC(t) = 8
    BY <2>2 DEF Becomes, OfB, OfC, High, Low
  <2>4. PortsAt(guest, t, mem, output)
    BY <1>3, <1>6, <2>2, <2>3 DEF PortsAt, Becomes, Sends
  <2> QED BY <1>1, <1>2, <2>2, <2>4, StaysSane
<1>7. ASSUME cpu.PC = 262 PROVE \E t, m : Received(t, m)
  <2>1. /\ Insn.op = "ini" /\ Insn.len = 2
        /\ Insn.up = TRUE /\ Insn.repeat = TRUE
    <3> HIDE DEF Text, Copy, Table, Ticks, KbPort
    <3> QED BY <1>1, <1>7, PortsCode, Zenon
  <2>2. OfB(cpu) = b /\ b \in 1 .. 3 /\ OfC(cpu) = 8 /\ cpu.HL = Text + (3 - b)
    BY <1>2, <1>7 DEF PortsAt
  <2>3. cpu.HL \in Cells /\ Plus(cpu.HL, 1) = Text + (4 - b)
    BY <2>2 DEF Cells, Plus
  <2>4. PICK t, m, c : \E data \in Byte :
                 Receives(t, m, OfC(cpu)) /\ ByteWritten(m, cpu.HL, data) /\ OnceMore(t, c)
    BY <1>1, <1>2, <2>1, <2>3, ReadsBlock, Zenon
  <2>5. /\ Plus(cpu.PC, 2) = 264 /\ Plus(Plus(cpu.PC, 2), -2) = 262
    BY <1>7 DEF Plus
  <2>6. PICK data \in Byte, f \in SUBSET Flags :
                 /\ Receives(t, m, 8) /\ ByteWritten(m, cpu.HL, data) /\ c = (b + 255) % 256
                 /\ Becomes(t, IF c # 0 THEN 262 ELSE 264, cpu.SP, cpu.A, f, 256 * c + 8,
                            cpu.DE, Text + (4 - b))
    BY <2>2, <2>3, <2>4, <2>5 DEF OnceMore
  <2>7. m \in Store /\ m[Ticks] = mem[Ticks]
    BY <2>2, <2>6 DEF ByteWritten, Cells
  <2>8. c = b - 1 /\ c \in Byte
    <3>1. b \in 1 .. 8
      BY <2>2
    <3> QED BY <2>6, <3>1, OneLess
  <2>9. OfB(t) = c /\ OfC(t) = 8
    <3>1. 8 \in Byte
      BY ByteIs
    <3> QED BY <2>6, <2>8, <3>1, WordOfHalves DEF Becomes, OfB, OfC
  <2>10. /\ t.PC = (IF c # 0 THEN 262 ELSE 264) /\ t.HL = Text + (3 - c)
         /\ c # 0 => c \in 1 .. 3
    BY <2>2, <2>6, <2>8 DEF Becomes
  <2>11. PortsAt(guest, t, m, output)
    BY <1>3, <1>2, <1>7, <2>6, <2>9, <2>10 DEF PortsAt, Becomes
  <2> QED BY <1>1, <1>2, <2>6, <2>7, <2>11, StaysSane
<1>8. ASSUME cpu.PC = 264 PROVE \E t, m : Reached(t, m)
  <2>1. Insn = LdWide(RR("HL"), NN(Text), 3) /\ Text \in Words
    BY <1>1, <1>8, PortsCode, WordIs
  <2>2. PICK t : /\ Moves(t, mem)
                 /\ Becomes(t, 267, cpu.SP, cpu.A, cpu.F, cpu.BC, cpu.DE, Text)
    BY <1>2, <1>4, <1>8, <2>1, LoadsPair
  <2>3. PortsAt(guest, t, mem, output)
    BY <1>3, <1>8, <2>2 DEF PortsAt, Becomes, Sends
  <2> QED BY <1>1, <1>2, <2>2, <2>3, StaysSane
<1>9. ASSUME cpu.PC = 267 PROVE \E t, m : Reached(t, m)
  <2>1. Insn = LdWide(RR("BC"), NN(3 * 256 + KbPort), 3) /\ 3 * 256 + KbPort \in Words
    BY <1>1, <1>9, PortsCode, WordIs
  <2>2. PICK t : /\ Moves(t, mem)
                 /\ Becomes(t, 270, cpu.SP, cpu.A, cpu.F, 3 * 256 + KbPort, cpu.DE, cpu.HL)
    BY <1>2, <1>4, <1>9, <2>1, LoadsPair
  <2>3. OfB(t) = 3 /\ OfC(t) = KbPort
    BY <2>2 DEF Becomes, OfB, OfC, High, Low
  <2>4. PortsAt(guest, t, mem, output)
    BY <1>3, <1>9, <2>2, <2>3 DEF PortsAt, Becomes, Sends
  <2> QED BY <1>1, <1>2, <2>2, <2>4, StaysSane
<1>10. ASSUME cpu.PC = 270 PROVE \E t : \E data \in Byte : Wrote(t, data)
  <2>1. /\ Insn.op = "outi" /\ Insn.len = 2
        /\ Insn.up = TRUE /\ Insn.repeat = TRUE
    <3> HIDE DEF Text, Copy, Table, Ticks, KbPort
    <3> QED BY <1>1, <1>10, PortsCode, Zenon
  <2>2. /\ OfB(cpu) = b /\ b \in 1 .. 3 /\ OfC(cpu) = KbPort /\ cpu.HL = Text + (3 - b)
        /\ Printed(output, 3 - b)
    BY <1>2, <1>10 DEF PortsAt
  <2>3. /\ cpu.HL \in Cells /\ mem[cpu.HL] \in Byte
        /\ Plus(cpu.HL, 1) = Text + (4 - b)
    BY <1>1, <2>2 DEF Cells, Plus, Store
  <2>4. PICK t, c : Writes(t, OfC(cpu), mem[cpu.HL]) /\ OnceMore(t, c)
    BY <1>1, <1>2, <2>1, WritesBlock
  <2>5. /\ Plus(cpu.PC, 2) = 272 /\ Plus(Plus(cpu.PC, 2), -2) = 270
    BY <1>10 DEF Plus
  <2>6. PICK f \in SUBSET Flags :
                 /\ Writes(t, KbPort, mem[cpu.HL]) /\ c = (b + 255) % 256
                 /\ Becomes(t, IF c # 0 THEN 270 ELSE 272, cpu.SP, cpu.A, f, 256 * c + KbPort,
                            cpu.DE, Text + (4 - b))
    BY <2>2, <2>3, <2>4, <2>5 DEF OnceMore
  <2>7. c = b - 1 /\ c \in Byte
    <3>1. b \in 1 .. 8
      BY <2>2
    <3> QED BY <2>6, <3>1, OneLess
  <2>8. OfB(t) = c /\ OfC(t) = KbPort
    <3>1. KbPort \in Byte
      BY ByteIs
    <3> QED BY <2>6, <2>7, <3>1, WordOfHalves DEF Becomes, OfB, OfC
  <2>9. /\ t.PC = (IF c # 0 THEN 270 ELSE 272) /\ t.HL = Text + (3 - c)
        /\ c # 0 => c \in 1 .. 3
    BY <2>2, <2>6, <2>7 DEF Becomes
  <2>10. Printed(After(mem[cpu.HL]), 3 - c)
    <3>1. PICK k \in 0 .. 2 : k = 3 - b /\ 3 - c = k + 1
      BY <2>2, <2>7
    <3>2. /\ k = 0 => mem[cpu.HL] = mem[Text]
          /\ k = 1 => mem[cpu.HL] = mem[Text + 1]
          /\ k = 2 => mem[cpu.HL] = mem[Text + 2]
      BY <2>2, <3>1
    <3>3. PICK x \in [port : Byte, data : Byte] :
            x = [port |-> KbPort, data |-> mem[cpu.HL]] /\ x.data = mem[cpu.HL]
      BY <2>3, AsSignal
    <3> QED BY <1>1, <2>2, <3>1, <3>2, <3>3, SendsMore
  <2> HIDE DEF After
  <2>11. PortsAt(guest, t, mem, After(mem[cpu.HL]))
    BY <1>3, <1>2, <1>10, <2>6, <2>8, <2>9, <2>10 DEF PortsAt, Becomes
  <2> QED BY <1>1, <1>2, <2>3, <2>6, <2>11, StaysSane
<1>11. ASSUME cpu.PC = 272 PROVE \E t, m : Reached(t, m)
  <2>1. Insn = LdWide(RR("BC"), NN(8), 3) /\ 8 \in Words
    BY <1>1, <1>11, PortsCode, WordIs
  <2>2. PICK t : /\ Moves(t, mem)
                 /\ Becomes(t, 275, cpu.SP, cpu.A, cpu.F, 8, cpu.DE, cpu.HL)
    BY <1>2, <1>4, <1>11, <2>1, LoadsPair
  <2>3. OfC(t) = 8
    BY <2>2 DEF Becomes, OfB, OfC, High, Low
  <2>4. PortsAt(guest, t, mem, output)
    BY <1>3, <1>11, <2>2, <2>3 DEF PortsAt, Becomes, Sends
  <2> QED BY <1>1, <1>2, <2>2, <2>4, StaysSane
<1>12. ASSUME cpu.PC = 275 PROVE \E t, m : Received(t, m)
  <2>1. Insn = Plain("in_(c)", 2)
    BY <1>1, <1>12, PortsCode
  <2>2. OfC(cpu) = 8 /\ Printed(output, 3)
    BY <1>2, <1>12 DEF PortsAt
  <2>3. PICK t : /\ Receives(t, mem, 8)
                 /\ Becomes(t, 277, cpu.SP, cpu.A, cpu.F, cpu.BC, cpu.DE, cpu.HL)
    BY <1>2, <1>4, <1>12, <2>1, <2>2, ReadsNothing
  <2>4. OfC(t) = 8
    BY <2>2, <2>3 DEF Becomes, OfC
  <2>5. PortsAt(guest, t, mem, output)
    BY <1>3, <1>12, <2>3, <2>2, <2>4 DEF PortsAt, Becomes
  <2> QED BY <1>1, <1>2, <2>3, <2>5, StaysSane
<1>13. ASSUME cpu.PC = 277 PROVE \E t, m : Received(t, m)
  <2>1. Insn = InC("D")
    BY <1>1, <1>13, PortsCode
  <2>2. OfC(cpu) = 8 /\ Printed(output, 3)
    BY <1>2, <1>13 DEF PortsAt
  <2>3. PICK t : \E data \in Byte, f \in SUBSET Flags :
                 /\ Receives(t, mem, 8)
                 /\ Becomes(t, 279, cpu.SP, cpu.A, f, cpu.BC, 256 * data + OfE(cpu), cpu.HL)
    BY <1>2, <1>4, <1>13, <2>1, <2>2, ReadsD
  <2>4. PortsAt(guest, t, mem, output)
    BY <1>3, <1>13, <2>3, <2>2 DEF PortsAt, Becomes
  <2> QED BY <1>1, <1>2, <2>3, <2>4, StaysSane
<1>14. ASSUME cpu.PC = 279 PROVE \E t, m : Reached(t, m)
  <2>1. Insn = Ld(R("C"), N(KbPort), 2)
    BY <1>1, <1>14, PortsCode
  <2>2. Printed(output, 3)
    BY <1>2, <1>14 DEF PortsAt
  <2>3. Insn.len = 2 /\ "C" \in Simple /\ KbPort \in Byte
    BY <2>1, ByteIs DEF Ld, Simple
  <2>4. Operand(Fetched, N(KbPort)) = KbPort
    BY <1>2, <2>3, OperandsOf
  <2>5. PICK t : /\ Moves(t, mem)
                 /\ Becomes(t, 281, cpu.SP, cpu.A, cpu.F, 256 * OfB(cpu) + KbPort, cpu.DE, cpu.HL)
    BY <1>2, <1>4, <1>14, <2>1, <2>3, <2>4, LoadsRegister
  <2>6. OfC(t) = KbPort
    <3>1. OfB(cpu) \in Byte
      BY <1>1, StateParts, HalvesOfWord DEF OfB
    <3> QED BY <2>5, <2>3, <3>1, WordOfHalves DEF Becomes, OfC
  <2>7. PortsAt(guest, t, mem, output)
    BY <1>3, <1>14, <2>5, <2>2, <2>6 DEF PortsAt, Becomes
  <2> QED BY <1>1, <1>2, <2>5, <2>7, StaysSane
<1>15. ASSUME cpu.PC = 281 PROVE \E t : \E data \in Byte : Wrote(t, data)
  <2>1. Insn = Math("out", R("D"), 2)
    BY <1>1, <1>15, PortsCode
  <2>2. OfC(cpu) = KbPort /\ Printed(output, 3)
    BY <1>2, <1>15 DEF PortsAt
  <2>3. Insn.len = 2
    BY <2>1 DEF Math
  <2>4. Operand(Fetched, R("D")) = OfD(cpu)
    BY <1>2, <2>3, OperandsOf
  <2>5. OfD(cpu) \in Byte
    BY <1>1, StateParts, HalvesOfWord DEF OfD
  <2>6. PICK t : /\ Writes(t, KbPort, OfD(cpu))
                 /\ Becomes(t, 283, cpu.SP, cpu.A, cpu.F, cpu.BC, cpu.DE, cpu.HL)
    BY <1>2, <1>4, <1>15, <2>1, <2>2, <2>4, WritesRegister
  <2>7. /\ Len(After(OfD(cpu))) = 4 /\ After(OfD(cpu))[1].data = mem[Text]
        /\ After(OfD(cpu))[2].data = mem[Text + 1] /\ After(OfD(cpu))[3].data = mem[Text + 2]
        /\ After(OfD(cpu))[4].data = OfD(cpu)
    <3>1. PICK x \in [port : Byte, data : Byte] :
            x = [port |-> KbPort, data |-> OfD(cpu)] /\ x.data = OfD(cpu)
      BY <2>5, AsSignal
    <3> QED BY <1>1, <2>2, <3>1, SendsFourth
  <2>8. OfD(t) = OfD(cpu)
    BY <2>6 DEF Becomes, OfD
  <2> HIDE DEF After
  <2>9. PortsAt(guest, t, mem, After(OfD(cpu)))
    BY <1>3, <1>2, <1>15, <2>6, <2>8, <2>7 DEF PortsAt, Becomes
  <2> QED BY <1>1, <1>2, <2>5, <2>6, <2>9, StaysSane
<1>16. ASSUME cpu.PC = 283 PROVE \E t, m : Reached(t, m)
  <2>1. Insn = Ld(R("A"), R("D"), 1)
    BY <1>1, <1>16, PortsCode
  <2>2. Four /\ output[4].data = OfD(cpu)
    BY <1>2, <1>16 DEF PortsAt
  <2>3. Insn.len = 1 /\ "A" \in Simple
    BY <2>1 DEF Ld, Simple
  <2>4. OfD(cpu) \in Byte
    BY <1>1, StateParts, HalvesOfWord DEF OfD
  <2>5. Operand(Fetched, R("D")) = OfD(cpu)
    BY <1>2, <2>3, OperandsOf
  <2>6. PICK t : /\ Moves(t, mem)
                 /\ Becomes(t, 284, cpu.SP, OfD(cpu), cpu.F, cpu.BC, cpu.DE, cpu.HL)
    BY <1>2, <1>4, <1>16, <2>1, <2>3, <2>4, <2>5, LoadsRegister
  <2>7. PortsAt(guest, t, mem, output)
    BY <1>3, <1>16, <2>6, <1>2, <2>2 DEF PortsAt, Becomes
  <2> QED BY <1>1, <1>2, <2>6, <2>7, StaysSane
<1>17. ASSUME cpu.PC = 284 PROVE \E t, m : Reached(t, m)
  <2>1. Insn = Ld(At(Copy), R("A"), 3)
    BY <1>1, <1>17, PortsCode
  <2>2. Four /\ output[4].data = cpu.A
    BY <1>2, <1>17 DEF PortsAt
  <2>3. Insn.len = 3 /\ Copy \in Cells /\ cpu.A \in Byte
    BY <1>1, <2>1, StateParts DEF Ld, Cells
  <2>4. /\ Operand(Fetched, R("A")) = cpu.A /\ Address(Fetched, At(Copy)) = Copy
        /\ At(Copy).at # "register"
    BY <1>2, <2>3, OperandsOf, Addresses
  <2>5. PICK t, m : /\ Moves(t, m) /\ ByteWritten(m, Copy, cpu.A)
                    /\ Becomes(t, 287, cpu.SP, cpu.A, cpu.F, cpu.BC, cpu.DE, cpu.HL)
    BY <1>1, <1>2, <1>4, <1>17, <2>1, <2>3, <2>4, StoresByte
  <2>6. /\ m \in Store /\ m[Ticks] = mem[Ticks] /\ m[Copy] = cpu.A /\ m[Text] = mem[Text]
        /\ m[Text + 1] = mem[Text + 1] /\ m[Text + 2] = mem[Text + 2]
    BY <2>5 DEF ByteWritten, Cells
  <2>7. PortsAt(guest, t, m, output)
    BY <1>3, <1>2, <1>17, <2>5, <2>2, <2>6 DEF PortsAt, Becomes
  <2> QED BY <1>1, <1>2, <2>5, <2>7, <2>6, StaysSane
<1>18. ASSUME cpu.PC = 287 PROVE \E t, m : Reached(t, m)
  <2>1. Insn = Plain("halt", 1)
    BY <1>1, <1>18, PortsCode
  <2>2. PICK t : t = [cpu EXCEPT !.halted = TRUE]
    OBVIOUS
  <2>3. Moves(t, mem)
    BY <1>2, <2>1, <2>2, Halts
  <2>4. /\ Sane(t) /\ t.PC = cpu.PC /\ t.SP = cpu.SP /\ t.iff1 = cpu.iff1 /\ t.A = cpu.A
        /\ t.F = cpu.F /\ t.BC = cpu.BC /\ t.DE = cpu.DE /\ t.HL = cpu.HL /\ t.IX = cpu.IX
        /\ t.enable_interrupts_next_cycle = cpu.enable_interrupts_next_cycle
        /\ t.interrupt_mode = cpu.interrupt_mode
    BY <1>1, <2>2, Halted
  <2>5. PortsAt(guest, t, mem, output)
    BY <1>2, <1>18, <2>4 DEF PortsAt
  <2> QED BY <1>1, <2>3, <2>4, <2>5
<1>19. ASSUME NEW t, NEW m, Reached(t, m) PROVE GuestInv'
  <2>1. ProgramAt(guest, t, m, output)
    BY <1>19, Which
  <2> HIDE DEF Ticks
  <2> QED BY <1>19, <2>1, GoesOn
<1>20. ASSUME NEW t, NEW m, Received(t, m) PROVE GuestInv'
  <2>1. ProgramAt(guest, t, m, output)
    BY <1>20, Which
  <2>2. Countable => 8 # Acknowledge
    BY DEF Countable
  <2> HIDE DEF Ticks
  <2> QED BY <1>20, <2>1, <2>2, GoesOnReading
<1>21. ASSUME NEW t, NEW data \in Byte, Wrote(t, data) PROVE GuestInv'
  <2>1. ProgramAt(guest, t, mem, After(data))
    BY <1>21, Which
  <2>2. KbPort \in Byte
    BY ByteIs
  <2> HIDE DEF KbPort
  <2> QED BY <1>21, <2>1, <2>2, GoesOnWriting
<1>22. cpu.PC \in {256, 259, 262, 264, 267, 270, 272, 275, 277, 279, 281, 283, 284, 287}
  BY DEF PortsAt
<1> HIDE DEF Reached, Received, Wrote
<1> QED BY <1>5, <1>6, <1>7, <1>8, <1>9, <1>10, <1>11, <1>12, <1>13, <1>14, <1>15, <1>16, <1>17,
   <1>18, <1>19, <1>20, <1>21, <1>22

-----------------------------------------------------------------------------
(***************************************************************************)
(* indexed                                                                 *)
(***************************************************************************)
\* Its lines.
LEMMA IndexedCode ==
  ASSUME Loaded, guest \in Guests, guest.program = "indexed"
  PROVE  /\ cpu.PC = 256 => Insn = LdWide(RR("IX"), NN(Text + 1), 4)
         /\ cpu.PC = 260 => Insn = Ld(R("A"), Mem("IX", 0), 3)
         /\ cpu.PC = 263 => Insn = Math("sub", Mem("IX", -1), 3)
         /\ cpu.PC = 266 => Insn = Ld(At(Copy), R("A"), 3)
         /\ cpu.PC = 269 => Insn = [ShiftBy("rlc", Mem("IX", 1)) EXCEPT !.copy = "B", !.len = 4]
         /\ cpu.PC = 273 => Insn = Ld(R("A"), R("B"), 1)
         /\ cpu.PC = 274 => Insn = Ld(At(Copy + 1), R("A"), 3)
         /\ cpu.PC = 277 => Insn = LdWide(RR("HL"), At(Text), 3)
         /\ cpu.PC = 280 => Insn = LdWide(RR("DE"), At(Text + 1), 4)
         /\ cpu.PC = 284 => Insn = Math("or", R("A"), 1)
         /\ cpu.PC = 285 => Insn = Wide("sbc", "HL", "DE")
         /\ cpu.PC = 287 => Insn = LdWide(At(Copy + 2), RR("HL"), 3)
         /\ cpu.PC = 290 => Insn = Plain("halt", 1)
<1> DEFINE place == Places(256, Indexed)
<1> HIDE DEF Text, Copy, Table, Ticks, KbPort
<1>1. /\ Indexed[1] = LdWide(RR("IX"), NN(Text + 1), 4)
      /\ Indexed[2] = Ld(R("A"), Mem("IX", 0), 3)
      /\ Indexed[3] = Math("sub", Mem("IX", -1), 3)
      /\ Indexed[4] = Ld(At(Copy), R("A"), 3)
  BY DEF Indexed
<1>2. /\ Indexed[5] = [ShiftBy("rlc", Mem("IX", 1)) EXCEPT !.copy = "B", !.len = 4]
      /\ Indexed[6] = Ld(R("A"), R("B"), 1)
      /\ Indexed[7] = Ld(At(Copy + 1), R("A"), 3)
      /\ Indexed[8] = LdWide(RR("HL"), At(Text), 3)
  BY DEF Indexed
<1>3. /\ Indexed[9] = LdWide(RR("DE"), At(Text + 1), 4)
      /\ Indexed[10] = Math("or", R("A"), 1)
      /\ Indexed[11] = Wide("sbc", "HL", "DE")
      /\ Indexed[12] = LdWide(At(Copy + 2), RR("HL"), 3)
  BY DEF Indexed
<1>4. Indexed[13] = Plain("halt", 1)
  BY DEF Indexed
<1>5. /\ Indexed[1].len = 4 /\ "to" \notin DOMAIN Indexed[1]
      /\ Indexed[2].len = 3 /\ "to" \notin DOMAIN Indexed[2]
      /\ Indexed[3].len = 3 /\ "to" \notin DOMAIN Indexed[3]
      /\ Indexed[4].len = 3 /\ "to" \notin DOMAIN Indexed[4]
  BY <1>1, Straight
<1>6. /\ Indexed[5].len = 4 /\ "to" \notin DOMAIN Indexed[5]
      /\ Indexed[6].len = 1 /\ "to" \notin DOMAIN Indexed[6]
      /\ Indexed[7].len = 3 /\ "to" \notin DOMAIN Indexed[7]
      /\ Indexed[8].len = 3 /\ "to" \notin DOMAIN Indexed[8]
  BY <1>2, Straight
<1>7. /\ Indexed[9].len = 4 /\ "to" \notin DOMAIN Indexed[9]
      /\ Indexed[10].len = 1 /\ "to" \notin DOMAIN Indexed[10]
      /\ Indexed[11].len = 2 /\ "to" \notin DOMAIN Indexed[11]
      /\ Indexed[12].len = 3 /\ "to" \notin DOMAIN Indexed[12]
  BY <1>3, Straight
<1>8. Indexed[13].len = 1 /\ "to" \notin DOMAIN Indexed[13]
  BY <1>4, Straight
<1>9. IsListing(Indexed, 13)
  <2>1. DOMAIN Indexed = 1 .. 13 /\ Len(Indexed) = 13
    BY DEF Indexed
  <2>2. \A k \in 1 .. 13 : Indexed[k].len \in Nat \ {0}
    BY <1>5, <1>6, <1>7, <1>8
  <2> QED BY <2>1, <2>2 DEF IsListing
<1>10. place[1] = 256 /\ \A k \in 1 .. 13 : place[k + 1] = place[k] + Indexed[k].len
  BY <1>9, OwnPlaces
<1>11. /\ place[1] = 256 /\ place[2] = 260 /\ place[3] = 263 /\ place[4] = 266
       /\ place[5] = 269 /\ place[6] = 273 /\ place[7] = 274 /\ place[8] = 277
       /\ place[9] = 280 /\ place[10] = 284 /\ place[11] = 285 /\ place[12] = 287
       /\ place[13] = 290 /\ place[14] = 291
  <2> HIDE DEF place
  <2> QED BY <1>5, <1>6, <1>7, <1>8, <1>10
<1>12. \A k \in 1 .. 13 : CodeOf["indexed"][place[k]] = Linked(Indexed[k], place[k + 1], place)
  <2>1. "indexed" \in DOMAIN Listing /\ Listing["indexed"] = Indexed
    BY DEF Listing
  <2> QED BY <1>9, <2>1, OwnLines
<1>13. Insn = CodeOf["indexed"][cpu.PC]
  BY GuestIs
<1> HIDE DEF place
<1>14. \A k \in 1 .. 13 : cpu.PC = place[k] => Insn = Linked(Indexed[k], place[k + 1], place)
  BY <1>12, <1>13
<1>15. \A k \in 1 .. 13 : cpu.PC = place[k] => Insn = Indexed[k]
  BY <1>5, <1>6, <1>7, <1>8, <1>14, NoJump
<1>16. /\ cpu.PC = 256 => Insn = Indexed[1]
       /\ cpu.PC = 260 => Insn = Indexed[2]
       /\ cpu.PC = 263 => Insn = Indexed[3]
       /\ cpu.PC = 266 => Insn = Indexed[4]
  BY <1>11, <1>15
<1>17. /\ cpu.PC = 269 => Insn = Indexed[5]
       /\ cpu.PC = 273 => Insn = Indexed[6]
       /\ cpu.PC = 274 => Insn = Indexed[7]
       /\ cpu.PC = 277 => Insn = Indexed[8]
  BY <1>11, <1>15
<1>18. /\ cpu.PC = 280 => Insn = Indexed[9]
       /\ cpu.PC = 284 => Insn = Indexed[10]
       /\ cpu.PC = 285 => Insn = Indexed[11]
       /\ cpu.PC = 287 => Insn = Indexed[12]
  BY <1>11, <1>15
<1>19. cpu.PC = 290 => Insn = Indexed[13]
  BY <1>11, <1>15
<1> QED BY <1>1, <1>2, <1>3, <1>4, <1>16, <1>17, <1>18, <1>19

\* Its steps.
LEMMA IndexedGoes ==
  ASSUME Loaded, Home, Step, guest.program = "indexed", IndexedAt(guest, cpu, mem, output)
  PROVE  GuestInv'
<1> DEFINE Reached(t, m) == /\ Moves(t, m) /\ Sane(t) /\ m \in Store /\ m[Ticks] = mem[Ticks]
                            /\ IndexedAt(guest, t, m, output)
<1>1. guest \in Guests /\ mem \in Store /\ Sane(cpu) /\ cpu \in CpuState /\ output \in Signals
  BY DEF Home, Others, Sane
<1>2. Calm /\ cpu.iff1 /\ cpu.SP = 0 /\ 0 \in Levels
  BY <1>1 DEF IndexedAt, Sane, Calm, Levels
<1>3. ~cpu.halted
  BY StepRuns DEF Running
<1>4. /\ Plus(256, 4) = 260 /\ Plus(260, 3) = 263 /\ Plus(263, 3) = 266 /\ Plus(266, 3) = 269
      /\ Plus(269, 4) = 273 /\ Plus(273, 1) = 274 /\ Plus(274, 3) = 277 /\ Plus(277, 3) = 280
      /\ Plus(280, 4) = 284 /\ Plus(284, 1) = 285 /\ Plus(285, 2) = 287 /\ Plus(287, 3) = 290
  BY DEF Plus
<1>5. guest.x \in Byte /\ guest.y \in Byte
  BY <1>1, GuestIs
<1>6. ASSUME cpu.PC = 256 PROVE \E t, m : Reached(t, m)
  <2>1. Insn = LdWide(RR("IX"), NN(Text + 1), 4)
    BY <1>1, <1>6, IndexedCode
  <2>2. PICK w \in Words : w = Text + 1
    BY WordIs
  <2>3. Insn = LdWide(RR("IX"), NN(w), 4)
    BY <2>1, <2>2
  <2>4. PICK t : /\ Moves(t, mem) /\ Sane(t) /\ t.PC = 260 /\ t.SP = cpu.SP /\ t.IX = w
                 /\ t.iff1 = cpu.iff1 /\ t.halted = cpu.halted
    <3>1. \E t : /\ Moves(t, mem) /\ Sane(t) /\ t.PC = Plus(cpu.PC, 4) /\ t.SP = cpu.SP /\ t.IX = w
                 /\ t.iff1 = cpu.iff1 /\ t.halted = cpu.halted
      <4> HIDE DEF Text, Copy, Table, Ticks, KbPort
      <4> QED BY <1>1, <1>2, <2>3, LoadsIX, Zenon
    <3>2. Plus(cpu.PC, 4) = 260
      BY <1>4, <1>6
    <3> QED BY <3>1, <3>2
  <2>5. IndexedAt(guest, t, mem, output)
    BY <1>3, <1>2, <1>6, <2>2, <2>4 DEF IndexedAt
  <2> QED BY <1>1, <2>4, <2>5
<1>7. ASSUME cpu.PC = 260 PROVE \E t, m : Reached(t, m)
  <2>1. Insn = Ld(R("A"), Mem("IX", 0), 3)
    BY <1>1, <1>7, IndexedCode
  <2>2. cpu.IX = Text + 1 /\ mem[Text + 1] = guest.y
    BY <1>2, <1>7 DEF IndexedAt
  <2>3. Insn.len = 3 /\ "A" \in Simple
    BY <2>1 DEF Ld, Simple
  <2>4. Operand(Fetched, Mem("IX", 0)) = guest.y
    BY <1>2, <2>3, <2>2, OperandsOf
  <2>5. PICK t : /\ Moves(t, mem)
                 /\ Becomes(t, 263, cpu.SP, guest.y, cpu.F, cpu.BC, cpu.DE, cpu.HL)
    BY <1>2, <1>4, <1>7, <2>1, <1>5, <2>3, <2>4, LoadsRegister
  <2>6. IndexedAt(guest, t, mem, output)
    BY <1>3, <1>7, <2>5, <2>2 DEF IndexedAt, Becomes
  <2> QED BY <1>1, <1>2, <2>5, <2>6, StaysSane
<1>8. ASSUME cpu.PC = 263 PROVE \E t, m : Reached(t, m)
  <2>1. Insn = Math("sub", Mem("IX", -1), 3)
    BY <1>1, <1>8, IndexedCode
  <2>2. cpu.IX = Text + 1 /\ mem[Text] = guest.x /\ cpu.A = guest.y
    BY <1>2, <1>8 DEF IndexedAt
  <2>3. Insn.len = 3 /\ "sub" \in MathNames
    BY <2>1 DEF Math, MathNames
  <2>4. Plus(cpu.IX, -1) = Text
    BY <2>2 DEF Plus
  <2>5. Operand(Fetched, Mem("IX", -1)) = guest.x
    <3>1. -1 \in Int /\ Operand(Fetched, Mem("IX", -1)) = mem[Plus(cpu.IX, -1)]
      BY <1>2, <2>3, OperandsOf
    <3> QED BY <2>2, <2>4, <3>1
  <2>6. PICK t, r : /\ Moves(t, mem) /\ r = Arithmetic("sub", cpu.A, guest.x, cpu.F)
                    /\ Becomes(t, 266, cpu.SP, r.x, r.f, cpu.BC, cpu.DE, cpu.HL)
    BY <1>5, <1>2, <1>4, <1>8, <2>1, <2>3, <2>5, Computes
  <2>7. r.x = (guest.y - guest.x) % 256
    <3>1. r = SubCarry(guest.y, guest.x, 0)
      BY <2>2, <2>6 DEF Arithmetic
    <3>2. r.x = (guest.y - guest.x - 0) % 256
      BY <3>1 DEF SubCarry
    <3> QED BY <1>5, <3>2, ByteIs
  <2>8. IndexedAt(guest, t, mem, output)
    BY <1>3, <1>8, <2>6, <2>2, <2>7 DEF IndexedAt, Becomes
  <2> QED BY <1>1, <1>2, <2>6, <2>8, StaysSane
<1>9. ASSUME cpu.PC = 266 PROVE \E t, m : Reached(t, m)
  <2>1. Insn = Ld(At(Copy), R("A"), 3)
    BY <1>1, <1>9, IndexedCode
  <2>2. cpu.A = (guest.y - guest.x) % 256
    BY <1>2, <1>9 DEF IndexedAt
  <2>3. Insn.len = 3 /\ Copy \in Cells /\ cpu.A \in Byte
    BY <1>1, <2>1, StateParts DEF Ld, Cells
  <2>4. /\ Operand(Fetched, R("A")) = cpu.A /\ Address(Fetched, At(Copy)) = Copy
        /\ At(Copy).at # "register"
    BY <1>2, <2>3, OperandsOf, Addresses
  <2>5. PICK t, m : /\ Moves(t, m) /\ ByteWritten(m, Copy, cpu.A)
                    /\ Becomes(t, 269, cpu.SP, cpu.A, cpu.F, cpu.BC, cpu.DE, cpu.HL)
    BY <1>1, <1>2, <1>4, <1>9, <2>1, <2>3, <2>4, StoresByte
  <2>6. /\ m \in Store /\ m[Ticks] = mem[Ticks] /\ m[Copy] = cpu.A /\ m[Text] = mem[Text]
        /\ m[Text + 1] = mem[Text + 1] /\ m[Text + 2] = mem[Text + 2]
    BY <2>5 DEF ByteWritten, Cells
  <2>7. IndexedAt(guest, t, m, output)
    BY <1>3, <1>2, <1>9, <2>5, <2>2, <2>6 DEF IndexedAt, Becomes
  <2> QED BY <1>1, <1>2, <2>5, <2>7, <2>6, StaysSane
<1>10. ASSUME cpu.PC = 269 PROVE \E t, m : Reached(t, m)
  <2>1. /\ Insn.op = "shift" /\ Insn.how = "rlc" /\ Insn.dst = Mem("IX", 1)
        /\ Insn.copy = "B" /\ Insn.len = 4
    <3>1. Insn = [ShiftBy("rlc", Mem("IX", 1)) EXCEPT !.copy = "B", !.len = 4]
      BY <1>1, <1>10, IndexedCode
    <3> QED BY <3>1 DEF ShiftBy
  <2>2. cpu.IX = Text + 1 /\ mem[Text + 2] = 111
    BY <1>2, <1>10 DEF IndexedAt
  <2>3. /\ Plus(cpu.IX, 1) = Text + 2 /\ Text + 2 \in Cells /\ Mem("IX", 1).at # "register"
        /\ 1 \in Int
    BY <2>2 DEF Plus, Cells, Mem
  <2>4. /\ Operand(Fetched, Mem("IX", 1)) = 111
        /\ Address(Fetched, Mem("IX", 1)) = Text + 2
    BY <1>2, <2>1, <2>2, <2>3, OperandsOf, Addresses
  <2>5. PICK r : r = Shift("rlc", 111, Fetched.F)
    OBVIOUS
  <2>6. r.x = 222 /\ Result(r)
    <3>1. Bit(111, 7) = 0
      BY PowersOfTwo DEF Bit
    <3>2. r.x = 222
      BY <2>5, <3>1 DEF Shift, BitIn, BitOut, Left
    <3>3. Becomes(Fetched, Plus(cpu.PC, 4), cpu.SP, cpu.A, cpu.F, cpu.BC, cpu.DE, cpu.HL)
      BY <1>2, <2>1, Fetches
    <3>4. Fetched.F = cpu.F /\ cpu.F \in SUBSET Flags
      BY <1>1, <3>3, StateParts DEF Becomes
    <3>5. 111 \in Byte /\ "rlc" \in ShiftNames
      BY ByteIs DEF ShiftNames
    <3> QED BY <2>5, <3>2, <3>4, <3>5, ShiftTyped
  <2>7. Update({"shift"}, r)
    BY <2>1, <2>4, <2>5, Chosen DEF ShiftOperand, Before
  <2>8. PICK t, m : /\ Moves(t, m) /\ ByteWritten(m, Text + 2, 222)
                    /\ Becomes(t, 273, cpu.SP, cpu.A, r.f, 256 * 222 + OfC(cpu), cpu.DE, cpu.HL)
    <3>1. \E t, m : /\ Moves(t, m) /\ ByteWritten(m, Text + 2, r.x)
                    /\ Becomes(t, Plus(cpu.PC, 4), cpu.SP, cpu.A, r.f, 256 * r.x + OfC(cpu), cpu.DE,
                               cpu.HL)
      BY <1>1, <1>2, <2>1, <2>3, <2>4, <2>6, <2>7, UpdatesMemory
    <3> QED BY <1>4, <1>10, <2>6, <3>1
  <2>9. OfB(t) = 222
    <3>1. OfC(cpu) \in Byte /\ 222 \in Byte
      BY <1>1, StateParts, HalvesOfWord, ByteIs DEF OfC
    <3> QED BY <2>8, <3>1, WordOfHalves DEF Becomes, OfB
  <2>10. /\ m \in Store /\ m[Ticks] = mem[Ticks] /\ m[Copy] = mem[Copy] /\ m[Text] = mem[Text]
         /\ m[Text + 1] = mem[Text + 1] /\ m[Text + 2] = 222
    BY <2>8 DEF ByteWritten, Cells
  <2>11. IndexedAt(guest, t, m, output)
    BY <1>3, <1>2, <1>10, <2>8, <2>9, <2>10 DEF IndexedAt, Becomes
  <2> QED BY <1>1, <1>2, <2>8, <2>11, <2>10, StaysSane
<1>11. ASSUME cpu.PC = 273 PROVE \E t, m : Reached(t, m)
  <2>1. Insn = Ld(R("A"), R("B"), 1)
    BY <1>1, <1>11, IndexedCode
  <2>2. OfB(cpu) = 222 /\ 222 \in Byte
    BY <1>2, <1>11, ByteIs DEF IndexedAt
  <2>3. Insn.len = 1 /\ "A" \in Simple
    BY <2>1 DEF Ld, Simple
  <2>4. Operand(Fetched, R("B")) = 222
    BY <1>2, <2>3, <2>2, OperandsOf
  <2>5. PICK t : /\ Moves(t, mem)
                 /\ Becomes(t, 274, cpu.SP, 222, cpu.F, cpu.BC, cpu.DE, cpu.HL)
    BY <1>2, <1>4, <1>11, <2>1, <2>2, <2>3, <2>4, LoadsRegister
  <2>6. IndexedAt(guest, t, mem, output)
    BY <1>3, <1>11, <2>5, <2>2 DEF IndexedAt, Becomes
  <2> QED BY <1>1, <1>2, <2>5, <2>6, StaysSane
<1>12. ASSUME cpu.PC = 274 PROVE \E t, m : Reached(t, m)
  <2>1. Insn = Ld(At(Copy + 1), R("A"), 3)
    BY <1>1, <1>12, IndexedCode
  <2>2. cpu.A = 222
    BY <1>2, <1>12 DEF IndexedAt
  <2>3. Insn.len = 3 /\ Copy + 1 \in Cells /\ 222 \in Byte
    BY <2>1, ByteIs DEF Ld, Cells
  <2>4. /\ Operand(Fetched, R("A")) = 222 /\ Address(Fetched, At(Copy + 1)) = Copy + 1
        /\ At(Copy + 1).at # "register"
    BY <1>2, <2>2, <2>3, OperandsOf, Addresses
  <2>5. PICK t, m : /\ Moves(t, m) /\ ByteWritten(m, Copy + 1, 222)
                    /\ Becomes(t, 277, cpu.SP, cpu.A, cpu.F, cpu.BC, cpu.DE, cpu.HL)
    BY <1>1, <1>2, <1>4, <1>12, <2>1, <2>3, <2>4, StoresByte
  <2>6. /\ m \in Store /\ m[Ticks] = mem[Ticks] /\ m[Copy] = mem[Copy] /\ m[Text] = mem[Text]
        /\ m[Text + 1] = mem[Text + 1] /\ m[Text + 2] = mem[Text + 2] /\ m[Copy + 1] = 222
    BY <2>5 DEF ByteWritten, Cells
  <2>7. IndexedAt(guest, t, m, output)
    BY <1>3, <1>2, <1>12, <2>5, <2>6 DEF IndexedAt, Becomes
  <2> QED BY <1>1, <1>2, <2>5, <2>7, <2>6, StaysSane
<1>13. ASSUME cpu.PC = 277 PROVE \E t, m : Reached(t, m)
  <2>1. Insn = LdWide(RR("HL"), At(Text), 3)
    BY <1>1, <1>13, IndexedCode
  <2>2. mem[Text] = guest.x /\ mem[Text + 1] = guest.y
    BY <1>2, <1>13 DEF IndexedAt
  <2>3. WideAt(Text) = guest.x + 256 * guest.y /\ guest.x + 256 * guest.y \in Words
    <3>1. Plus(Text, 1) = Text + 1
      BY DEF Plus
    <3>2. guest.x + 256 * guest.y \in Words
      BY <1>5, ByteIs, WordIs
    <3> QED BY <2>2, <3>1, <3>2 DEF WideAt
  <2>4. PICK t : /\ Moves(t, mem)
                 /\ Becomes(t, 280, cpu.SP, cpu.A, cpu.F, cpu.BC, cpu.DE, guest.x + 256 * guest.y)
    BY <1>2, <1>4, <1>13, <2>1, <2>3, LoadsWord
  <2>5. IndexedAt(guest, t, mem, output)
    BY <1>3, <1>13, <2>4, <1>2 DEF IndexedAt, Becomes
  <2> QED BY <1>1, <1>2, <2>4, <2>5, StaysSane
<1>14. ASSUME cpu.PC = 280 PROVE \E t, m : Reached(t, m)
  <2>1. Insn = LdWide(RR("DE"), At(Text + 1), 4)
    BY <1>1, <1>14, IndexedCode
  <2>2. mem[Text + 1] = guest.y /\ mem[Text + 2] = 222
    BY <1>2, <1>14 DEF IndexedAt
  <2>3. WideAt(Text + 1) = guest.y + 256 * 222 /\ guest.y + 256 * 222 \in Words
    <3>1. Plus(Text + 1, 1) = Text + 2
      BY DEF Plus
    <3>2. guest.y + 256 * 222 \in Words
      BY <1>5, ByteIs, WordIs
    <3> QED BY <2>2, <3>1, <3>2 DEF WideAt
  <2>4. PICK t : /\ Moves(t, mem)
                 /\ Becomes(t, 284, cpu.SP, cpu.A, cpu.F, cpu.BC, guest.y + 256 * 222, cpu.HL)
    BY <1>2, <1>4, <1>14, <2>1, <2>3, LoadsWord
  <2>5. IndexedAt(guest, t, mem, output)
    BY <1>3, <1>14, <2>4, <1>2 DEF IndexedAt, Becomes
  <2> QED BY <1>1, <1>2, <2>4, <2>5, StaysSane
<1>15. ASSUME cpu.PC = 284 PROVE \E t, m : Reached(t, m)
  <2>1. Insn = Math("or", R("A"), 1)
    BY <1>1, <1>15, IndexedCode
  <2>2. cpu.A \in Byte
    BY <1>1, StateParts
  <2>3. Insn.len = 1 /\ "or" \in MathNames
    BY <2>1 DEF Math, MathNames
  <2>4. Operand(Fetched, R("A")) = cpu.A
    BY <1>2, <2>3, OperandsOf
  <2>5. PICK t, r : /\ Moves(t, mem) /\ r = Arithmetic("or", cpu.A, cpu.A, cpu.F)
                    /\ Becomes(t, 285, cpu.SP, r.x, r.f, cpu.BC, cpu.DE, cpu.HL)
    BY <2>2, <1>2, <1>4, <1>15, <2>1, <2>3, <2>4, Computes
  <2>6. "C" \notin r.f
    BY <2>5 DEF Arithmetic, Or, SignZero, Parity, When
  <2>7. IndexedAt(guest, t, mem, output)
    BY <1>3, <1>15, <2>5, <1>2, <2>6 DEF IndexedAt, Becomes
  <2> QED BY <1>1, <1>2, <2>5, <2>7, StaysSane
<1>16. ASSUME cpu.PC = 285 PROVE \E t, m : Reached(t, m)
  <2>1. Insn = Wide("sbc", "HL", "DE")
    BY <1>1, <1>16, IndexedCode
  <2>2. /\ cpu.HL = guest.x + 256 * guest.y /\ cpu.DE = guest.y + 256 * 222
        /\ "C" \notin cpu.F
    BY <1>2, <1>16 DEF IndexedAt
  <2>3. Insn.len = 2
    BY <2>1 DEF Wide
  <2>4. PICK t, r : /\ Moves(t, mem) /\ r = ArithmeticWide("sbc", cpu.HL, cpu.DE, cpu.F)
                    /\ Becomes(t, 287, cpu.SP, cpu.A, r.f, cpu.BC, cpu.DE, r.x)
    BY <1>2, <1>4, <1>16, <2>1, <2>3, ComputesPair
  <2>5. r.x = (guest.x + 256 * guest.y - (guest.y + 256 * 222)) % 65536
    <3>1. r.x = (cpu.HL - cpu.DE - 0) % 65536
      BY <2>2, <2>4 DEF ArithmeticWide, SubCarryWide, Carry
    <3> QED BY <1>5, <2>2, <3>1, ByteIs
  <2>6. IndexedAt(guest, t, mem, output)
    BY <1>3, <1>16, <2>4, <1>2, <2>5 DEF IndexedAt, Becomes
  <2> QED BY <1>1, <1>2, <2>4, <2>6, StaysSane
<1>17. ASSUME cpu.PC = 287 PROVE \E t, m : Reached(t, m)
  <2>1. Insn = LdWide(At(Copy + 2), RR("HL"), 3)
    BY <1>1, <1>17, IndexedCode
  <2>2. cpu.HL = (guest.x + 256 * guest.y - (guest.y + 256 * 222)) % 65536
    BY <1>2, <1>17 DEF IndexedAt
  <2>3. 3 \in Nat /\ Copy + 2 \in Cells /\ Copy + 2 + 1 \in Cells
    BY DEF Cells
  <2>4. PICK t, m : /\ Moves(t, m) /\ Written(m, Copy + 2, cpu.HL)
                    /\ Becomes(t, 290, cpu.SP, cpu.A, cpu.F, cpu.BC, cpu.DE, cpu.HL)
    BY <1>1, <1>2, <1>4, <1>17, <2>1, <2>3, StoresPair
  <2>5. /\ m \in Store /\ m[Ticks] = mem[Ticks] /\ m[Copy] = mem[Copy] /\ m[Text] = mem[Text]
        /\ m[Text + 1] = mem[Text + 1] /\ m[Text + 2] = mem[Text + 2]
        /\ m[Copy + 1] = mem[Copy + 1] /\ Holds(m, Copy + 2, cpu.HL)
    BY <2>4 DEF Written, WrittenOver, Cells
  <2>6. IndexedAt(guest, t, m, output)
    BY <1>3, <1>2, <1>17, <2>4, <2>2, <2>5 DEF IndexedAt, Becomes
  <2> QED BY <1>1, <1>2, <2>4, <2>6, <2>5, StaysSane
<1>18. ASSUME cpu.PC = 290 PROVE \E t, m : Reached(t, m)
  <2>1. Insn = Plain("halt", 1)
    BY <1>1, <1>18, IndexedCode
  <2>2. PICK t : t = [cpu EXCEPT !.halted = TRUE]
    OBVIOUS
  <2>3. Moves(t, mem)
    BY <1>2, <2>1, <2>2, Halts
  <2>4. /\ Sane(t) /\ t.PC = cpu.PC /\ t.SP = cpu.SP /\ t.iff1 = cpu.iff1 /\ t.A = cpu.A
        /\ t.F = cpu.F /\ t.BC = cpu.BC /\ t.DE = cpu.DE /\ t.HL = cpu.HL /\ t.IX = cpu.IX
        /\ t.enable_interrupts_next_cycle = cpu.enable_interrupts_next_cycle
        /\ t.interrupt_mode = cpu.interrupt_mode
    BY <1>1, <2>2, Halted
  <2>5. IndexedAt(guest, t, mem, output)
    BY <1>2, <1>18, <2>4 DEF IndexedAt
  <2> QED BY <1>1, <2>3, <2>4, <2>5
<1>19. ASSUME NEW t, NEW m, Reached(t, m) PROVE GuestInv'
  <2>1. ProgramAt(guest, t, m, output)
    BY <1>19, Which
  <2> HIDE DEF Ticks
  <2> QED BY <1>19, <2>1, GoesOn
<1>20. cpu.PC \in {256, 260, 263, 266, 269, 273, 274, 277, 280, 284, 285, 287, 290}
  BY DEF IndexedAt
<1> HIDE DEF Reached
<1> QED BY <1>6, <1>7, <1>8, <1>9, <1>10, <1>11, <1>12, <1>13, <1>14, <1>15, <1>16, <1>17,
   <1>18, <1>19, <1>20

-----------------------------------------------------------------------------
(***************************************************************************)
(* blocks                                                                  *)
(***************************************************************************)
\* Its lines.
LEMMA BlocksCode ==
  ASSUME Loaded, guest \in Guests, guest.program = "blocks"
  PROVE  /\ cpu.PC = 256 => Insn = LdWide(RR("HL"), NN(Text), 3)
         /\ cpu.PC = 259 => Insn = LdWide(RR("DE"), NN(Text - 1), 3)
         /\ cpu.PC = 262 => Insn = LdWide(RR("BC"), NN(3), 3)
         /\ cpu.PC = 265 => /\ Insn.op = "ldi" /\ Insn.len = 2
                            /\ Insn.up = TRUE /\ Insn.repeat = TRUE
         /\ cpu.PC = 267 => Insn = LdWide(RR("HL"), NN(Text + 1), 3)
         /\ cpu.PC = 270 => Insn = LdWide(RR("DE"), NN(Text + 2), 3)
         /\ cpu.PC = 273 => Insn = LdWide(RR("BC"), NN(3), 3)
         /\ cpu.PC = 276 => /\ Insn.op = "ldi" /\ Insn.len = 2
                            /\ Insn.up = FALSE /\ Insn.repeat = TRUE
         /\ cpu.PC = 278 => Insn = LdWide(RR("HL"), NN(Text), 3)
         /\ cpu.PC = 281 => Insn = LdWide(RR("BC"), NN(8), 3)
         /\ cpu.PC = 284 => Insn = Ld(R("A"), At(Text + 2), 3)
         /\ cpu.PC = 287 => /\ Insn.op = "cpi" /\ Insn.len = 2
                            /\ Insn.up = TRUE /\ Insn.repeat = TRUE
         /\ cpu.PC = 289 => Insn = LdWide(At(Copy), RR("HL"), 3)
         /\ cpu.PC = 292 => Insn = Plain("halt", 1)
<1> DEFINE place == Places(256, Blocks)
<1> HIDE DEF Text, Copy, Table, Ticks, KbPort
<1>1. /\ Blocks[1] = LdWide(RR("HL"), NN(Text), 3)
      /\ Blocks[2] = LdWide(RR("DE"), NN(Text - 1), 3)
      /\ Blocks[3] = LdWide(RR("BC"), NN(3), 3)
      /\ Blocks[5] = LdWide(RR("HL"), NN(Text + 1), 3)
  BY DEF Blocks
<1>2. /\ Blocks[6] = LdWide(RR("DE"), NN(Text + 2), 3)
      /\ Blocks[7] = LdWide(RR("BC"), NN(3), 3)
      /\ Blocks[9] = LdWide(RR("HL"), NN(Text), 3)
      /\ Blocks[10] = LdWide(RR("BC"), NN(8), 3)
  BY DEF Blocks
<1>3. /\ Blocks[11] = Ld(R("A"), At(Text + 2), 3)
      /\ Blocks[13] = LdWide(At(Copy), RR("HL"), 3)
      /\ Blocks[14] = Plain("halt", 1)
  BY DEF Blocks
<1>4. /\ Blocks[1].len = 3 /\ "to" \notin DOMAIN Blocks[1]
      /\ Blocks[2].len = 3 /\ "to" \notin DOMAIN Blocks[2]
      /\ Blocks[3].len = 3 /\ "to" \notin DOMAIN Blocks[3]
      /\ Blocks[5].len = 3 /\ "to" \notin DOMAIN Blocks[5]
  BY <1>1, Straight
<1>5. /\ Blocks[6].len = 3 /\ "to" \notin DOMAIN Blocks[6]
      /\ Blocks[7].len = 3 /\ "to" \notin DOMAIN Blocks[7]
      /\ Blocks[9].len = 3 /\ "to" \notin DOMAIN Blocks[9]
      /\ Blocks[10].len = 3 /\ "to" \notin DOMAIN Blocks[10]
  BY <1>2, Straight
<1>6. /\ Blocks[11].len = 3 /\ "to" \notin DOMAIN Blocks[11]
      /\ Blocks[13].len = 3 /\ "to" \notin DOMAIN Blocks[13]
      /\ Blocks[14].len = 1 /\ "to" \notin DOMAIN Blocks[14]
  BY <1>3, Straight
<1>7. /\ Blocks[4].op = "ldi" /\ Blocks[4].len = 2 /\ "to" \notin DOMAIN Blocks[4]
      /\ Blocks[4].up = TRUE /\ Blocks[4].repeat = TRUE
  <2>1. Blocks[4] = [op |-> "ldi", len |-> 2, up |-> TRUE, repeat |-> TRUE]
    BY DEF Blocks, Block
  <2> QED BY <2>1
<1>8. /\ Blocks[8].op = "ldi" /\ Blocks[8].len = 2 /\ "to" \notin DOMAIN Blocks[8]
      /\ Blocks[8].up = FALSE /\ Blocks[8].repeat = TRUE
  <2>1. Blocks[8] = [op |-> "ldi", len |-> 2, up |-> FALSE, repeat |-> TRUE]
    BY DEF Blocks, Block
  <2> QED BY <2>1
<1>9. /\ Blocks[12].op = "cpi" /\ Blocks[12].len = 2 /\ "to" \notin DOMAIN Blocks[12]
      /\ Blocks[12].up = TRUE /\ Blocks[12].repeat = TRUE
  <2>1. Blocks[12] = [op |-> "cpi", len |-> 2, up |-> TRUE, repeat |-> TRUE]
    BY DEF Blocks, Block
  <2> QED BY <2>1
<1>10. IsListing(Blocks, 14)
  <2>1. DOMAIN Blocks = 1 .. 14 /\ Len(Blocks) = 14
    BY DEF Blocks
  <2>2. \A k \in 1 .. 14 : Blocks[k].len \in Nat \ {0}
    BY <1>4, <1>5, <1>6, <1>7, <1>8, <1>9
  <2> QED BY <2>1, <2>2 DEF IsListing
<1>11. place[1] = 256 /\ \A k \in 1 .. 14 : place[k + 1] = place[k] + Blocks[k].len
  BY <1>10, OwnPlaces
<1>12. /\ place[1] = 256 /\ place[2] = 259 /\ place[3] = 262 /\ place[4] = 265
       /\ place[5] = 267 /\ place[6] = 270 /\ place[7] = 273 /\ place[8] = 276
       /\ place[9] = 278 /\ place[10] = 281 /\ place[11] = 284 /\ place[12] = 287
       /\ place[13] = 289 /\ place[14] = 292 /\ place[15] = 293
  <2> HIDE DEF place
  <2> QED BY <1>4, <1>5, <1>6, <1>7, <1>8, <1>9, <1>11
<1>13. \A k \in 1 .. 14 : CodeOf["blocks"][place[k]] = Linked(Blocks[k], place[k + 1], place)
  <2>1. "blocks" \in DOMAIN Listing /\ Listing["blocks"] = Blocks
    BY DEF Listing
  <2> QED BY <1>10, <2>1, OwnLines
<1>14. Insn = CodeOf["blocks"][cpu.PC]
  BY GuestIs
<1> HIDE DEF place
<1>15. \A k \in 1 .. 14 : cpu.PC = place[k] => Insn = Linked(Blocks[k], place[k + 1], place)
  BY <1>13, <1>14
<1>16. \A k \in 1 .. 14 : cpu.PC = place[k] => Insn = Blocks[k]
  BY <1>4, <1>5, <1>6, <1>7, <1>8, <1>9, <1>15, NoJump
<1>17. /\ cpu.PC = 256 => Insn = Blocks[1]
       /\ cpu.PC = 259 => Insn = Blocks[2]
       /\ cpu.PC = 262 => Insn = Blocks[3]
       /\ cpu.PC = 267 => Insn = Blocks[5]
  BY <1>12, <1>16
<1>18. /\ cpu.PC = 270 => Insn = Blocks[6]
       /\ cpu.PC = 273 => Insn = Blocks[7]
       /\ cpu.PC = 278 => Insn = Blocks[9]
       /\ cpu.PC = 281 => Insn = Blocks[10]
  BY <1>12, <1>16
<1>19. /\ cpu.PC = 284 => Insn = Blocks[11]
       /\ cpu.PC = 289 => Insn = Blocks[13]
       /\ cpu.PC = 292 => Insn = Blocks[14]
  BY <1>12, <1>16
<1>20. cpu.PC = 265 => /\ Insn.op = "ldi" /\ Insn.len = 2
                       /\ Insn.up = TRUE /\ Insn.repeat = TRUE
  BY <1>7, <1>12, <1>16
<1>21. cpu.PC = 276 => /\ Insn.op = "ldi" /\ Insn.len = 2
                       /\ Insn.up = FALSE /\ Insn.repeat = TRUE
  BY <1>8, <1>12, <1>16
<1>22. cpu.PC = 287 => /\ Insn.op = "cpi" /\ Insn.len = 2
                       /\ Insn.up = TRUE /\ Insn.repeat = TRUE
  BY <1>9, <1>12, <1>16
<1> QED BY <1>1, <1>2, <1>3, <1>17, <1>18, <1>19, <1>20, <1>21, <1>22

\* Its steps.
LEMMA BlocksGoes ==
  ASSUME Loaded, Home, Step, guest.program = "blocks", BlocksAt(guest, cpu, mem, output)
  PROVE  GuestInv'
<1> DEFINE n == cpu.BC - 1
           found == IF guest.x = 111 THEN 1 ELSE IF guest.y = 111 THEN 2 ELSE 3
           Reached(t, m) == /\ Moves(t, m) /\ Sane(t) /\ m \in Store /\ m[Ticks] = mem[Ticks]
                            /\ BlocksAt(guest, t, m, output)
<1>1. guest \in Guests /\ mem \in Store /\ Sane(cpu) /\ cpu \in CpuState /\ output \in Signals
  BY DEF Home, Others, Sane
<1>2. Calm /\ cpu.iff1 /\ cpu.SP = 0 /\ 0 \in Levels
  BY <1>1 DEF BlocksAt, Sane, Calm, Levels
<1>3. ~cpu.halted
  BY StepRuns DEF Running
<1>4. /\ Plus(256, 3) = 259 /\ Plus(259, 3) = 262 /\ Plus(262, 3) = 265 /\ Plus(267, 3) = 270
      /\ Plus(270, 3) = 273 /\ Plus(273, 3) = 276 /\ Plus(278, 3) = 281 /\ Plus(281, 3) = 284
      /\ Plus(284, 3) = 287 /\ Plus(289, 3) = 292
  BY DEF Plus
<1>5. ASSUME cpu.PC = 256 PROVE \E t, m : Reached(t, m)
  <2>1. Insn = LdWide(RR("HL"), NN(Text), 3)
    BY <1>1, <1>5, BlocksCode
  <2>2. PICK w \in Words : w = Text
    BY WordIs
  <2>3. Insn = LdWide(RR("HL"), NN(w), 3)
    BY <2>1, <2>2
  <2>4. PICK t : /\ Moves(t, mem)
                 /\ Becomes(t, 259, cpu.SP, cpu.A, cpu.F, cpu.BC, cpu.DE, w)
    BY <1>2, <1>4, <1>5, <2>3, LoadsPair
  <2>5. BlocksAt(guest, t, mem, output)
    BY <1>3, <1>2, <1>5, <2>2, <2>4 DEF BlocksAt, Becomes
  <2> QED BY <1>1, <1>2, <2>4, <2>5, StaysSane
<1>6. ASSUME cpu.PC = 259 PROVE \E t, m : Reached(t, m)
  <2>1. Insn = LdWide(RR("DE"), NN(Text - 1), 3)
    BY <1>1, <1>6, BlocksCode
  <2>2. PICK w \in Words : w = Text - 1
    BY WordIs
  <2>3. Insn = LdWide(RR("DE"), NN(w), 3)
    BY <2>1, <2>2
  <2>4. PICK t : /\ Moves(t, mem)
                 /\ Becomes(t, 262, cpu.SP, cpu.A, cpu.F, cpu.BC, w, cpu.HL)
    BY <1>2, <1>4, <1>6, <2>3, LoadsPair
  <2>5. BlocksAt(guest, t, mem, output)
    BY <1>3, <1>2, <1>6, <2>2, <2>4 DEF BlocksAt, Becomes
  <2> QED BY <1>1, <1>2, <2>4, <2>5, StaysSane
<1>7. ASSUME cpu.PC = 262 PROVE \E t, m : Reached(t, m)
  <2>1. Insn = LdWide(RR("BC"), NN(3), 3)
    BY <1>1, <1>7, BlocksCode
  <2>2. PICK w \in Words : w = 3
    BY WordIs
  <2>3. Insn = LdWide(RR("BC"), NN(w), 3)
    BY <2>1, <2>2
  <2>4. PICK t : /\ Moves(t, mem)
                 /\ Becomes(t, 265, cpu.SP, cpu.A, cpu.F, w, cpu.DE, cpu.HL)
    BY <1>2, <1>4, <1>7, <2>3, LoadsPair
  <2>5. BlocksAt(guest, t, mem, output)
    BY <1>3, <1>2, <1>7, <2>2, <2>4 DEF BlocksAt, Becomes
  <2> QED BY <1>1, <1>2, <2>4, <2>5, StaysSane
<1>8. ASSUME cpu.PC = 265 PROVE \E t, m : Reached(t, m)
  <2>1. /\ Insn.op = "ldi" /\ Insn.len = 2
        /\ Insn.up = TRUE /\ Insn.repeat = TRUE
    <3> HIDE DEF Text, Copy, Table, Ticks, KbPort
    <3> QED BY <1>1, <1>8, BlocksCode, Zenon
  <2>2. Sign = 1
    BY <2>1 DEF Sign
  <2>3. cpu.BC \in 1 .. 3 /\ cpu.HL = Text + (3 - cpu.BC) /\ cpu.DE = Text + (2 - cpu.BC)
    BY <1>2, <1>8 DEF BlocksAt
  <2>4. /\ cpu.HL \in Cells /\ cpu.DE \in Cells
        /\ n = Plus(cpu.BC, -1) /\ cpu.HL + 1 = Plus(cpu.HL, 1) /\ cpu.DE + 1 = Plus(cpu.DE, 1)
    BY <2>3 DEF Cells, Plus
  <2>5. 267 = Plus(cpu.PC, 2) /\ 265 = Plus(267, -2)
    BY <1>8 DEF Plus
  <2>6. PICK e, h : e = cpu.DE + 1 /\ h = cpu.HL + 1
    OBVIOUS
  <2>7. PICK t, m, f : /\ Moves(t, m) /\ ByteWritten(m, cpu.DE, mem[cpu.HL])
                       /\ CopiedOn(t, f, 1)
    <3>1. 1 \in {-1, 1}
      OBVIOUS
    <3> QED BY <1>1, <1>2, <2>1, <2>2, <2>4, <3>1, CopiesByte
  <2>8. Becomes(t, IF n # 0 THEN 265 ELSE 267, cpu.SP, cpu.A, f, n, e, h)
    <3> HIDE DEF n
    <3> QED BY <2>4, <2>5, <2>6, <2>7 DEF CopiedOn
  <2>9. PICK k \in 0 .. 2 : cpu.BC = 3 - k /\ n = 2 - k
    BY <2>3
  <2>10. /\ t.iff1 = cpu.iff1 /\ t.SP = cpu.SP /\ ~t.halted
         /\ t.PC = (IF k < 2 THEN 265 ELSE 267) /\ t.BC = 2 - k
         /\ t.HL = Text + (k + 1) /\ t.DE = Text + k
    BY <1>3, <2>3, <2>6, <2>8, <2>9 DEF Becomes
  <2>11. /\ m \in Store /\ m[Ticks] = mem[Ticks] /\ m[cpu.DE] = mem[cpu.HL]
         /\ \A c \in {Text - 1, Text, Text + 1, Text + 2} : c # cpu.DE => m[c] = mem[c]
    BY <2>3, <2>7 DEF ByteWritten, Cells
  <2>12. /\ m[Text - 1] = guest.x
         /\ m[Text] = IF k >= 1 THEN guest.y ELSE guest.x
         /\ m[Text + 1] = IF k >= 2 THEN 111 ELSE guest.y
         /\ m[Text + 2] = 111
    BY <1>2, <1>8, <2>3, <2>9, <2>11 DEF BlocksAt
  <2>13. BlocksAt(guest, t, m, output)
    BY <1>2, <2>10, <2>9, <2>12 DEF BlocksAt
  <2> QED BY <1>1, <1>2, <2>7, <2>8, <2>11, <2>13, StaysSane
<1>9. ASSUME cpu.PC = 267 PROVE \E t, m : Reached(t, m)
  <2>1. Insn = LdWide(RR("HL"), NN(Text + 1), 3)
    BY <1>1, <1>9, BlocksCode
  <2>2. PICK w \in Words : w = Text + 1
    BY WordIs
  <2>3. Insn = LdWide(RR("HL"), NN(w), 3)
    BY <2>1, <2>2
  <2>4. PICK t : /\ Moves(t, mem)
                 /\ Becomes(t, 270, cpu.SP, cpu.A, cpu.F, cpu.BC, cpu.DE, w)
    BY <1>2, <1>4, <1>9, <2>3, LoadsPair
  <2>5. BlocksAt(guest, t, mem, output)
    BY <1>3, <1>2, <1>9, <2>2, <2>4 DEF BlocksAt, Becomes
  <2> QED BY <1>1, <1>2, <2>4, <2>5, StaysSane
<1>10. ASSUME cpu.PC = 270 PROVE \E t, m : Reached(t, m)
  <2>1. Insn = LdWide(RR("DE"), NN(Text + 2), 3)
    BY <1>1, <1>10, BlocksCode
  <2>2. PICK w \in Words : w = Text + 2
    BY WordIs
  <2>3. Insn = LdWide(RR("DE"), NN(w), 3)
    BY <2>1, <2>2
  <2>4. PICK t : /\ Moves(t, mem)
                 /\ Becomes(t, 273, cpu.SP, cpu.A, cpu.F, cpu.BC, w, cpu.HL)
    BY <1>2, <1>4, <1>10, <2>3, LoadsPair
  <2>5. BlocksAt(guest, t, mem, output)
    BY <1>3, <1>2, <1>10, <2>2, <2>4 DEF BlocksAt, Becomes
  <2> QED BY <1>1, <1>2, <2>4, <2>5, StaysSane
<1>11. ASSUME cpu.PC = 273 PROVE \E t, m : Reached(t, m)
  <2>1. Insn = LdWide(RR("BC"), NN(3), 3)
    BY <1>1, <1>11, BlocksCode
  <2>2. PICK w \in Words : w = 3
    BY WordIs
  <2>3. Insn = LdWide(RR("BC"), NN(w), 3)
    BY <2>1, <2>2
  <2>4. PICK t : /\ Moves(t, mem)
                 /\ Becomes(t, 276, cpu.SP, cpu.A, cpu.F, w, cpu.DE, cpu.HL)
    BY <1>2, <1>4, <1>11, <2>3, LoadsPair
  <2>5. BlocksAt(guest, t, mem, output)
    BY <1>3, <1>2, <1>11, <2>2, <2>4 DEF BlocksAt, Becomes
  <2> QED BY <1>1, <1>2, <2>4, <2>5, StaysSane
<1>12. ASSUME cpu.PC = 276 PROVE \E t, m : Reached(t, m)
  <2>1. /\ Insn.op = "ldi" /\ Insn.len = 2
        /\ Insn.up = FALSE /\ Insn.repeat = TRUE
    <3> HIDE DEF Text, Copy, Table, Ticks, KbPort
    <3> QED BY <1>1, <1>12, BlocksCode, Zenon
  <2>2. Sign = -1
    BY <2>1 DEF Sign
  <2>3. cpu.BC \in 1 .. 3 /\ cpu.HL = Text + (cpu.BC - 2) /\ cpu.DE = Text + (cpu.BC - 1)
    BY <1>2, <1>12 DEF BlocksAt
  <2>4. /\ cpu.HL \in Cells /\ cpu.DE \in Cells
        /\ n = Plus(cpu.BC, -1) /\ cpu.HL + -1 = Plus(cpu.HL, -1) /\ cpu.DE + -1 = Plus(cpu.DE, -1)
    BY <2>3 DEF Cells, Plus
  <2>5. 278 = Plus(cpu.PC, 2) /\ 276 = Plus(278, -2)
    BY <1>12 DEF Plus
  <2>6. PICK e, h : e = cpu.DE + -1 /\ h = cpu.HL + -1
    OBVIOUS
  <2>7. PICK t, m, f : /\ Moves(t, m) /\ ByteWritten(m, cpu.DE, mem[cpu.HL])
                       /\ CopiedOn(t, f, -1)
    <3>1. -1 \in {-1, 1}
      OBVIOUS
    <3> QED BY <1>1, <1>2, <2>1, <2>2, <2>4, <3>1, CopiesByte
  <2>8. Becomes(t, IF n # 0 THEN 276 ELSE 278, cpu.SP, cpu.A, f, n, e, h)
    <3> HIDE DEF n
    <3> QED BY <2>4, <2>5, <2>6, <2>7 DEF CopiedOn
  <2>9. PICK k \in 0 .. 2 : cpu.BC = 3 - k /\ n = 2 - k
    BY <2>3
  <2>10. /\ t.iff1 = cpu.iff1 /\ t.SP = cpu.SP /\ ~t.halted
         /\ t.PC = (IF k < 2 THEN 276 ELSE 278) /\ t.BC = 2 - k
         /\ t.HL = Text - k /\ t.DE = Text + (1 - k)
    BY <1>3, <2>3, <2>6, <2>8, <2>9 DEF Becomes
  <2>11. /\ m \in Store /\ m[Ticks] = mem[Ticks] /\ m[cpu.DE] = mem[cpu.HL]
         /\ \A c \in {Text - 1, Text, Text + 1, Text + 2} : c # cpu.DE => m[c] = mem[c]
    BY <2>3, <2>7 DEF ByteWritten, Cells
  <2>12. /\ m[Text - 1] = guest.x
         /\ m[Text] = IF k >= 2 THEN guest.x ELSE guest.y
         /\ m[Text + 1] = IF k >= 1 THEN guest.y ELSE 111
         /\ m[Text + 2] = 111
    BY <1>2, <1>12, <2>3, <2>9, <2>11 DEF BlocksAt
  <2>13. BlocksAt(guest, t, m, output)
    BY <1>2, <2>10, <2>9, <2>12 DEF BlocksAt
  <2> QED BY <1>1, <1>2, <2>7, <2>8, <2>11, <2>13, StaysSane
<1>13. ASSUME cpu.PC = 278 PROVE \E t, m : Reached(t, m)
  <2>1. Insn = LdWide(RR("HL"), NN(Text), 3)
    BY <1>1, <1>13, BlocksCode
  <2>2. PICK w \in Words : w = Text
    BY WordIs
  <2>3. Insn = LdWide(RR("HL"), NN(w), 3)
    BY <2>1, <2>2
  <2>4. PICK t : /\ Moves(t, mem)
                 /\ Becomes(t, 281, cpu.SP, cpu.A, cpu.F, cpu.BC, cpu.DE, w)
    BY <1>2, <1>4, <1>13, <2>3, LoadsPair
  <2>5. BlocksAt(guest, t, mem, output)
    BY <1>3, <1>2, <1>13, <2>2, <2>4 DEF BlocksAt, Becomes
  <2> QED BY <1>1, <1>2, <2>4, <2>5, StaysSane
<1>14. ASSUME cpu.PC = 281 PROVE \E t, m : Reached(t, m)
  <2>1. Insn = LdWide(RR("BC"), NN(8), 3)
    BY <1>1, <1>14, BlocksCode
  <2>2. PICK w \in Words : w = 8
    BY WordIs
  <2>3. Insn = LdWide(RR("BC"), NN(w), 3)
    BY <2>1, <2>2
  <2>4. PICK t : /\ Moves(t, mem)
                 /\ Becomes(t, 284, cpu.SP, cpu.A, cpu.F, w, cpu.DE, cpu.HL)
    BY <1>2, <1>4, <1>14, <2>3, LoadsPair
  <2>5. BlocksAt(guest, t, mem, output)
    BY <1>3, <1>2, <1>14, <2>2, <2>4 DEF BlocksAt, Becomes
  <2> QED BY <1>1, <1>2, <2>4, <2>5, StaysSane
<1>15. ASSUME cpu.PC = 284 PROVE \E t, m : Reached(t, m)
  <2>1. Insn = Ld(R("A"), At(Text + 2), 3)
    BY <1>1, <1>15, BlocksCode
  <2>2. mem[Text + 2] = 111 /\ 111 \in Byte /\ cpu.BC = 8 /\ cpu.HL = Text
    BY <1>2, <1>15, ByteIs DEF BlocksAt
  <2>3. Insn.len = 3 /\ "A" \in Simple
    BY <2>1 DEF Ld, Simple
  <2>4. Operand(Fetched, At(Text + 2)) = 111
    BY <1>2, <2>2, <2>3, OperandsOf
  <2>5. PICK t : /\ Moves(t, mem)
                 /\ Becomes(t, 287, cpu.SP, 111, cpu.F, cpu.BC, cpu.DE, cpu.HL)
    BY <1>2, <1>4, <1>15, <2>1, <2>2, <2>3, <2>4, LoadsRegister
  <2>6. BlocksAt(guest, t, mem, output)
    BY <1>3, <1>15, <2>5, <1>2, <2>2 DEF BlocksAt, Becomes
  <2> QED BY <1>1, <1>2, <2>5, <2>6, StaysSane
<1>16. ASSUME cpu.PC = 287 PROVE \E t, m : Reached(t, m)
  <2>1. /\ Insn.op = "cpi" /\ Insn.len = 2
        /\ Insn.up = TRUE /\ Insn.repeat = TRUE
    <3> HIDE DEF Text, Copy, Table, Ticks, KbPort
    <3> QED BY <1>1, <1>16, BlocksCode, Zenon
  <2>2. Sign = 1
    BY <2>1 DEF Sign
  <2>3. /\ cpu.A = 111 /\ cpu.BC \in 6 .. 8 /\ cpu.HL = Text + (8 - cpu.BC) /\ 8 - cpu.BC < found
        /\ mem[Text] = guest.x /\ mem[Text + 1] = guest.y /\ mem[Text + 2] = 111
    BY <1>2, <1>16 DEF BlocksAt
  <2>4. /\ cpu.HL \in Cells /\ n = Plus(cpu.BC, -1) /\ cpu.HL + 1 = Plus(cpu.HL, 1)
    BY <2>3 DEF Cells, Plus
  <2>5. 289 = Plus(cpu.PC, 2) /\ 287 = Plus(289, -2)
    BY <1>16 DEF Plus
  <2>6. PICK h : h = cpu.HL + 1
    OBVIOUS
  <2>7. PICK t, f : /\ Moves(t, mem) /\ ("Z" \in f <=> cpu.A = mem[cpu.HL])
                    /\ SearchedOn(t, f)
    BY <1>1, <1>2, <2>1, <2>2, <2>4, SearchesByte
  <2>8. Becomes(t, IF n # 0 /\ "Z" \notin f THEN 287 ELSE 289, cpu.SP, cpu.A, f, n, cpu.DE, h)
    <3> HIDE DEF n
    <3> QED BY <2>4, <2>5, <2>6, <2>7 DEF SearchedOn
  <2>9. PICK k \in 0 .. 2 : cpu.BC = 8 - k /\ n = 7 - k /\ cpu.HL = Text + k
    BY <2>3
  <2>10. "Z" \in f <=> found = k + 1
    BY <2>3, <2>7, <2>9
  <2>11. /\ t.iff1 = cpu.iff1 /\ t.SP = cpu.SP /\ ~t.halted /\ t.A = 111
         /\ t.PC = (IF found = k + 1 THEN 289 ELSE 287) /\ t.BC = 7 - k /\ t.HL = Text + (k + 1)
    BY <1>3, <2>3, <2>6, <2>8, <2>9, <2>10 DEF Becomes
  <2>12. found # k + 1 => k + 1 < found /\ 7 - k \in 6 .. 8
    BY <2>3, <2>9
  <2>13. BlocksAt(guest, t, mem, output)
    BY <1>2, <1>16, <2>3, <2>11, <2>9, <2>12 DEF BlocksAt
  <2> QED BY <1>1, <1>2, <2>7, <2>8, <2>13, StaysSane
<1>17. ASSUME cpu.PC = 289 PROVE \E t, m : Reached(t, m)
  <2>1. Insn = LdWide(At(Copy), RR("HL"), 3)
    BY <1>1, <1>17, BlocksCode
  <2>2. cpu.HL = Text + found
    BY <1>2, <1>17 DEF BlocksAt
  <2>3. 3 \in Nat /\ Copy \in Cells /\ Copy + 1 \in Cells
    BY DEF Cells
  <2>4. PICK t, m : /\ Moves(t, m) /\ Written(m, Copy, cpu.HL)
                    /\ Becomes(t, 292, cpu.SP, cpu.A, cpu.F, cpu.BC, cpu.DE, cpu.HL)
    BY <1>1, <1>2, <1>4, <1>17, <2>1, <2>3, StoresPair
  <2>5. /\ m \in Store /\ m[Ticks] = mem[Ticks] /\ m[Text - 1] = mem[Text - 1]
        /\ m[Text] = mem[Text] /\ m[Text + 1] = mem[Text + 1] /\ m[Text + 2] = mem[Text + 2]
        /\ Holds(m, Copy, cpu.HL)
    BY <2>4 DEF Written, WrittenOver, Cells
  <2>6. BlocksAt(guest, t, m, output)
    BY <1>3, <1>2, <1>17, <2>4, <2>2, <2>5 DEF BlocksAt, Becomes
  <2> QED BY <1>1, <1>2, <2>4, <2>6, <2>5, StaysSane
<1>18. ASSUME cpu.PC = 292 PROVE \E t, m : Reached(t, m)
  <2>1. Insn = Plain("halt", 1)
    BY <1>1, <1>18, BlocksCode
  <2>2. PICK t : t = [cpu EXCEPT !.halted = TRUE]
    OBVIOUS
  <2>3. Moves(t, mem)
    BY <1>2, <2>1, <2>2, Halts
  <2>4. /\ Sane(t) /\ t.PC = cpu.PC /\ t.SP = cpu.SP /\ t.iff1 = cpu.iff1 /\ t.A = cpu.A
        /\ t.F = cpu.F /\ t.BC = cpu.BC /\ t.DE = cpu.DE /\ t.HL = cpu.HL /\ t.IX = cpu.IX
        /\ t.enable_interrupts_next_cycle = cpu.enable_interrupts_next_cycle
        /\ t.interrupt_mode = cpu.interrupt_mode
    BY <1>1, <2>2, Halted
  <2>5. BlocksAt(guest, t, mem, output)
    BY <1>2, <1>18, <2>4 DEF BlocksAt
  <2> QED BY <1>1, <2>3, <2>4, <2>5
<1>19. ASSUME NEW t, NEW m, Reached(t, m) PROVE GuestInv'
  <2>1. ProgramAt(guest, t, m, output)
    BY <1>19, Which
  <2> HIDE DEF Ticks
  <2> QED BY <1>19, <2>1, GoesOn
<1>20. cpu.PC \in {256, 259, 262, 265, 267, 270, 273, 276, 278, 281, 284, 287, 289, 292}
  BY DEF BlocksAt
<1> HIDE DEF Reached
<1> QED BY <1>5, <1>6, <1>7, <1>8, <1>9, <1>10, <1>11, <1>12, <1>13, <1>14, <1>15, <1>16, <1>17,
   <1>18, <1>19, <1>20

-----------------------------------------------------------------------------
(***************************************************************************)
(* multiply                                                                *)
(***************************************************************************)
\* Its lines.
LEMMA MultiplyCode ==
  ASSUME Loaded, guest \in Guests, guest.program = "multiply"
  PROVE  /\ cpu.PC = 256 => Insn = Ld(R("A"), At(Text), 3)
         /\ cpu.PC = 259 => Insn = Ld(R("E"), R("A"), 1)
         /\ cpu.PC = 260 => Insn = Ld(R("D"), N(0), 2)
         /\ cpu.PC = 262 => Insn = LdWide(RR("HL"), NN(0), 3)
         /\ cpu.PC = 265 => Insn = Ld(R("A"), At(Text + 1), 3)
         /\ cpu.PC = 268 => Insn = Ld(R("B"), N(8), 2)
         /\ cpu.PC = 270 => Insn = Wide("add", "HL", "HL")
         /\ cpu.PC = 271 => Insn = OnA("rlc")
         /\ cpu.PC = 272 => Insn.op = "jr" /\ Insn.cc = "NC" /\ Insn.len = 2 /\ Insn.e = 1
         /\ cpu.PC = 274 => Insn = Wide("add", "HL", "DE")
         /\ cpu.PC = 275 => Insn.op = "djnz" /\ Insn.len = 2 /\ Insn.e = -7
         /\ cpu.PC = 277 => Insn = LdWide(At(Copy), RR("HL"), 3)
         /\ cpu.PC = 280 => Insn = Plain("halt", 1)
<1> DEFINE place == Places(256, Multiply)
<1> HIDE DEF Text, Copy, Table, Ticks, KbPort
<1>1. /\ Multiply[1] = Ld(R("A"), At(Text), 3)
      /\ Multiply[2] = Ld(R("E"), R("A"), 1)
      /\ Multiply[3] = Ld(R("D"), N(0), 2)
      /\ Multiply[4] = LdWide(RR("HL"), NN(0), 3)
  BY DEF Multiply
<1>2. /\ Multiply[5] = Ld(R("A"), At(Text + 1), 3)
      /\ Multiply[6] = Ld(R("B"), N(8), 2)
      /\ Multiply[7] = Wide("add", "HL", "HL")
      /\ Multiply[8] = OnA("rlc")
  BY DEF Multiply
<1>3. /\ Multiply[9] = Branch("jr", "NC", 11, 2)
      /\ Multiply[10] = Wide("add", "HL", "DE")
      /\ Multiply[11] = Branch("djnz", "always", 7, 2)
      /\ Multiply[12] = LdWide(At(Copy), RR("HL"), 3)
  BY DEF Multiply
<1>4. Multiply[13] = Plain("halt", 1)
  BY DEF Multiply
<1>5. /\ Multiply[1].len = 3 /\ "to" \notin DOMAIN Multiply[1]
      /\ Multiply[2].len = 1 /\ "to" \notin DOMAIN Multiply[2]
      /\ Multiply[3].len = 2 /\ "to" \notin DOMAIN Multiply[3]
      /\ Multiply[4].len = 3 /\ "to" \notin DOMAIN Multiply[4]
  BY <1>1, Straight
<1>6. /\ Multiply[5].len = 3 /\ "to" \notin DOMAIN Multiply[5]
      /\ Multiply[6].len = 2 /\ "to" \notin DOMAIN Multiply[6]
      /\ Multiply[7].len = 1 /\ "to" \notin DOMAIN Multiply[7]
      /\ Multiply[8].len = 1 /\ "to" \notin DOMAIN Multiply[8]
  BY <1>2, Straight
<1>7. /\ Multiply[9].len = 2
      /\ Multiply[10].len = 1 /\ "to" \notin DOMAIN Multiply[10]
      /\ Multiply[11].len = 2
      /\ Multiply[12].len = 3 /\ "to" \notin DOMAIN Multiply[12]
  BY <1>3, Straight
<1>8. Multiply[13].len = 1 /\ "to" \notin DOMAIN Multiply[13]
  BY <1>4, Straight
<1>9. IsListing(Multiply, 13)
  <2>1. DOMAIN Multiply = 1 .. 13 /\ Len(Multiply) = 13
    BY DEF Multiply
  <2>2. \A k \in 1 .. 13 : Multiply[k].len \in Nat \ {0}
    BY <1>5, <1>6, <1>7, <1>8
  <2> QED BY <2>1, <2>2 DEF IsListing
<1>10. place[1] = 256 /\ \A k \in 1 .. 13 : place[k + 1] = place[k] + Multiply[k].len
  BY <1>9, OwnPlaces
<1>11. /\ place[1] = 256 /\ place[2] = 259 /\ place[3] = 260 /\ place[4] = 262
       /\ place[5] = 265 /\ place[6] = 268 /\ place[7] = 270 /\ place[8] = 271
       /\ place[9] = 272 /\ place[10] = 274 /\ place[11] = 275 /\ place[12] = 277
       /\ place[13] = 280 /\ place[14] = 281
  <2> HIDE DEF place
  <2> QED BY <1>5, <1>6, <1>7, <1>8, <1>10
<1>12. \A k \in 1 .. 13 : CodeOf["multiply"][place[k]] = Linked(Multiply[k], place[k + 1], place)
  <2>1. "multiply" \in DOMAIN Listing /\ Listing["multiply"] = Multiply
    BY DEF Listing
  <2> QED BY <1>9, <2>1, OwnLines
<1>13. Insn = CodeOf["multiply"][cpu.PC]
  BY GuestIs
<1> HIDE DEF place
<1>14. \A k \in 1 .. 13 : cpu.PC = place[k] => Insn = Linked(Multiply[k], place[k + 1], place)
  BY <1>12, <1>13
<1>15. \A k \in (1 .. 13) \ {9, 11} : cpu.PC = place[k] => Insn = Multiply[k]
  BY <1>5, <1>6, <1>7, <1>8, <1>14, NoJump
<1>16. /\ cpu.PC = 256 => Insn = Multiply[1]
       /\ cpu.PC = 259 => Insn = Multiply[2]
       /\ cpu.PC = 260 => Insn = Multiply[3]
       /\ cpu.PC = 262 => Insn = Multiply[4]
  BY <1>11, <1>15
<1>17. /\ cpu.PC = 265 => Insn = Multiply[5]
       /\ cpu.PC = 268 => Insn = Multiply[6]
       /\ cpu.PC = 270 => Insn = Multiply[7]
       /\ cpu.PC = 271 => Insn = Multiply[8]
  BY <1>11, <1>15
<1>18. /\ cpu.PC = 274 => Insn = Multiply[10]
       /\ cpu.PC = 277 => Insn = Multiply[12]
  BY <1>11, <1>15
<1>19. cpu.PC = 280 => Insn = Multiply[13]
  BY <1>11, <1>15
<1>20. cpu.PC = 272 => Insn.op = "jr" /\ Insn.cc = "NC" /\ Insn.len = 2 /\ Insn.e = 1
  BY <1>3, <1>11, <1>14, Jumping
<1>21. cpu.PC = 275 => Insn.op = "djnz" /\ Insn.len = 2 /\ Insn.e = -7
  BY <1>3, <1>11, <1>14, Jumping
<1> QED BY <1>1, <1>2, <1>3, <1>4, <1>16, <1>17, <1>18, <1>19, <1>20, <1>21

\* Its steps.
LEMMA MultiplyGoes ==
  ASSUME Loaded, Home, Step, guest.program = "multiply", MultiplyAt(guest, cpu, mem, output)
  PROVE  GuestInv'
<1> DEFINE Reached(t, m) == /\ Moves(t, m) /\ Sane(t) /\ m \in Store /\ m[Ticks] = mem[Ticks]
                            /\ MultiplyAt(guest, t, m, output)
<1>1. guest \in Guests /\ mem \in Store /\ Sane(cpu) /\ cpu \in CpuState /\ output \in Signals
  BY DEF Home, Others, Sane
<1>2. Calm /\ cpu.iff1 /\ cpu.SP = 0 /\ 0 \in Levels
  BY <1>1 DEF MultiplyAt, Sane, Calm, Levels
<1>3. ~cpu.halted
  BY StepRuns DEF Running
<1>4. /\ Plus(256, 3) = 259 /\ Plus(259, 1) = 260 /\ Plus(260, 2) = 262 /\ Plus(262, 3) = 265
      /\ Plus(265, 3) = 268 /\ Plus(268, 2) = 270 /\ Plus(270, 1) = 271 /\ Plus(271, 1) = 272
      /\ Plus(274, 1) = 275 /\ Plus(277, 3) = 280
  BY DEF Plus
<1>5. guest.x \in Byte /\ guest.y \in Byte
  BY <1>1, GuestIs
<1>6. ASSUME cpu.PC = 256 PROVE \E t, m : Reached(t, m)
  <2>1. Insn = Ld(R("A"), At(Text), 3)
    BY <1>1, <1>6, MultiplyCode
  <2>2. mem[Text] = guest.x /\ mem[Text + 1] = guest.y
    BY <1>2, <1>6 DEF MultiplyAt
  <2>3. Insn.len = 3 /\ "A" \in Simple
    BY <2>1 DEF Ld, Simple
  <2>4. Operand(Fetched, At(Text)) = guest.x
    BY <1>2, <2>2, <2>3, OperandsOf
  <2>5. PICK t : /\ Moves(t, mem)
                 /\ Becomes(t, 259, cpu.SP, guest.x, cpu.F, cpu.BC, cpu.DE, cpu.HL)
    BY <1>2, <1>4, <1>6, <2>1, <1>5, <2>3, <2>4, LoadsRegister
  <2>6. MultiplyAt(guest, t, mem, output)
    BY <1>3, <1>6, <2>5, <1>2, <2>2 DEF MultiplyAt, Becomes
  <2> QED BY <1>1, <1>2, <2>5, <2>6, StaysSane
<1>7. ASSUME cpu.PC = 259 PROVE \E t, m : Reached(t, m)
  <2>1. Insn = Ld(R("E"), R("A"), 1)
    BY <1>1, <1>7, MultiplyCode
  <2>2. cpu.A = guest.x /\ mem[Text] = guest.x /\ mem[Text + 1] = guest.y
    BY <1>2, <1>7 DEF MultiplyAt
  <2>3. Insn.len = 1 /\ "E" \in Simple
    BY <2>1 DEF Ld, Simple
  <2>4. Operand(Fetched, R("A")) = guest.x
    BY <1>2, <2>2, <2>3, OperandsOf
  <2>5. PICK t : /\ Moves(t, mem)
                 /\ Becomes(t, 260, cpu.SP, cpu.A, cpu.F, cpu.BC, 256 * OfD(cpu) + guest.x, cpu.HL)
    BY <1>2, <1>4, <1>7, <2>1, <1>5, <2>3, <2>4, LoadsRegister
  <2>6. OfE(t) = guest.x
    <3>1. OfD(cpu) \in Byte
      BY <1>1, StateParts, HalvesOfWord DEF OfD
    <3> QED BY <1>5, <2>5, <3>1, WordOfHalves DEF Becomes, OfE
  <2>7. MultiplyAt(guest, t, mem, output)
    BY <1>3, <1>7, <2>5, <1>2, <2>2, <2>6 DEF MultiplyAt, Becomes
  <2> QED BY <1>1, <1>2, <2>5, <2>7, StaysSane
<1>8. ASSUME cpu.PC = 260 PROVE \E t, m : Reached(t, m)
  <2>1. Insn = Ld(R("D"), N(0), 2)
    BY <1>1, <1>8, MultiplyCode
  <2>2. OfE(cpu) = guest.x /\ mem[Text] = guest.x /\ mem[Text + 1] = guest.y
    BY <1>2, <1>8 DEF MultiplyAt
  <2>3. Insn.len = 2 /\ "D" \in Simple /\ 0 \in Byte
    BY <2>1, ByteIs DEF Ld, Simple
  <2>4. Operand(Fetched, N(0)) = 0
    BY <1>2, <2>3, OperandsOf
  <2>5. PICK t : /\ Moves(t, mem)
                 /\ Becomes(t, 262, cpu.SP, cpu.A, cpu.F, cpu.BC, 256 * 0 + OfE(cpu), cpu.HL)
    BY <1>2, <1>4, <1>8, <2>1, <2>3, <2>4, LoadsRegister
  <2>6. t.DE = guest.x
    BY <1>5, <2>2, <2>5, ByteIs DEF Becomes
  <2>7. MultiplyAt(guest, t, mem, output)
    BY <1>3, <1>8, <2>5, <1>2, <2>2, <2>6 DEF MultiplyAt, Becomes
  <2> QED BY <1>1, <1>2, <2>5, <2>7, StaysSane
<1>9. ASSUME cpu.PC = 262 PROVE \E t, m : Reached(t, m)
  <2>1. Insn = LdWide(RR("HL"), NN(0), 3)
    BY <1>1, <1>9, MultiplyCode
  <2>2. cpu.DE = guest.x /\ mem[Text] = guest.x /\ mem[Text + 1] = guest.y
    BY <1>2, <1>9 DEF MultiplyAt
  <2>3. 0 \in Words
    BY WordIs
  <2>4. PICK t : /\ Moves(t, mem)
                 /\ Becomes(t, 265, cpu.SP, cpu.A, cpu.F, cpu.BC, cpu.DE, 0)
    BY <1>2, <1>4, <1>9, <2>1, <2>3, LoadsPair
  <2>5. MultiplyAt(guest, t, mem, output)
    BY <1>3, <1>9, <2>4, <1>2, <2>2 DEF MultiplyAt, Becomes
  <2> QED BY <1>1, <1>2, <2>4, <2>5, StaysSane
<1>10. ASSUME cpu.PC = 265 PROVE \E t, m : Reached(t, m)
  <2>1. Insn = Ld(R("A"), At(Text + 1), 3)
    BY <1>1, <1>10, MultiplyCode
  <2>2. cpu.DE = guest.x /\ cpu.HL = 0 /\ mem[Text] = guest.x /\ mem[Text + 1] = guest.y
    BY <1>2, <1>10 DEF MultiplyAt
  <2>3. Insn.len = 3 /\ "A" \in Simple
    BY <2>1 DEF Ld, Simple
  <2>4. Operand(Fetched, At(Text + 1)) = guest.y
    BY <1>2, <2>2, <2>3, OperandsOf
  <2>5. PICK t : /\ Moves(t, mem)
                 /\ Becomes(t, 268, cpu.SP, guest.y, cpu.F, cpu.BC, cpu.DE, cpu.HL)
    BY <1>2, <1>4, <1>10, <2>1, <1>5, <2>3, <2>4, LoadsRegister
  <2>6. MultiplyAt(guest, t, mem, output)
    BY <1>3, <1>10, <2>5, <1>2, <2>2 DEF MultiplyAt, Becomes
  <2> QED BY <1>1, <1>2, <2>5, <2>6, StaysSane
<1>11. ASSUME cpu.PC = 268 PROVE \E t, m : Reached(t, m)
  <2>1. Insn = Ld(R("B"), N(8), 2)
    BY <1>1, <1>11, MultiplyCode
  <2>2. cpu.DE = guest.x /\ cpu.HL = 0 /\ cpu.A = guest.y
    BY <1>2, <1>11 DEF MultiplyAt
  <2>3. Insn.len = 2 /\ "B" \in Simple /\ 8 \in Byte
    BY <2>1, ByteIs DEF Ld, Simple
  <2>4. Operand(Fetched, N(8)) = 8
    BY <1>2, <2>3, OperandsOf
  <2>5. PICK t : /\ Moves(t, mem)
                 /\ Becomes(t, 270, cpu.SP, cpu.A, cpu.F, 256 * 8 + OfC(cpu), cpu.DE, cpu.HL)
    BY <1>2, <1>4, <1>11, <2>1, <2>3, <2>4, LoadsRegister
  <2>6. OfB(t) = 8
    <3>1. OfC(cpu) \in Byte
      BY <1>1, StateParts, HalvesOfWord DEF OfC
    <3> QED BY <2>3, <2>5, <3>1, WordOfHalves DEF Becomes, OfB
  <2>7. 2 ^ 8 = 256 /\ 2 ^ (8 - 8) = 1
    OBVIOUS
  <2>8. guest.y \div 256 = 0 /\ (guest.y * 1) % 256 = guest.y
    BY <1>5, ByteIs
  <2>9. guest.y = Rotation(guest.y, 8) /\ 0 = guest.x * (guest.y \div 2 ^ 8)
    <3>1. Rotation(guest.y, 8) = ((guest.y * 1) % 256) + guest.y \div 256
      BY <2>7 DEF Rotation
    <3>2. guest.x * 0 = 0 /\ guest.y + 0 = guest.y
      BY <1>5, ByteIs
    <3> QED BY <2>7, <2>8, <3>1, <3>2
  <2>10. /\ t.PC = 270 /\ t.iff1 = cpu.iff1 /\ t.SP = cpu.SP /\ ~t.halted /\ t.DE = cpu.DE
         /\ t.A = Rotation(guest.y, 8) /\ t.HL = guest.x * (guest.y \div 2 ^ 8)
    BY <1>3, <2>2, <2>5, <2>9 DEF Becomes
  <2>11. 8 - (8 - 8) = 8 /\ 8 \in 1 .. 8
    OBVIOUS
  <2>12. MultiplyAt(guest, t, mem, output)
    BY <1>2, <2>2, <2>10, <2>6, <2>11 DEF MultiplyAt, Rotation
  <2> QED BY <1>1, <1>2, <2>5, <2>12, StaysSane
<1>12. ASSUME cpu.PC = 270 PROVE \E t, m : Reached(t, m)
  <2>1. Insn = Wide("add", "HL", "HL")
    BY <1>1, <1>12, MultiplyCode
  <2>2. PICK b \in 1 .. 8 : b = OfB(cpu)
    BY <1>12 DEF MultiplyAt
  <2>3. PICK h, j, c : /\ h = guest.y \div 2 ^ b /\ j = guest.y \div 2 ^ (b - 1)
                       /\ c = Bit(guest.y, b - 1)
    OBVIOUS
  <2>4. h \in 0 .. 127 /\ j \in 0 .. 255 /\ c \in {0, 1} /\ j = 2 * h + c
    <3>1. Halving(guest.y, b)
      BY <1>5, HalvedOnce
    <3> QED BY <2>3, <3>1 DEF Halving
  <2>5. /\ h \in 0 .. 127 /\ c \in {0, 1} /\ j = 2 * h + c
        /\ h = guest.y \div 2 ^ b /\ j = guest.y \div 2 ^ (b - 1) /\ c = Bit(guest.y, b - 1)
    BY <2>3, <2>4
  <2>6. cpu.HL = guest.x * h /\ cpu.DE = guest.x
        /\ cpu.A = ((guest.y * 2 ^ (8 - b)) % 256) + guest.y \div 2 ^ (8 - (8 - b))
    BY <1>2, <1>12, <2>2, <2>5 DEF MultiplyAt
  <2>7. Insn.len = 1
    BY <2>1 DEF Wide
  <2>8. PICK t, r : /\ Moves(t, mem) /\ r = ArithmeticWide("add", cpu.HL, cpu.HL, cpu.F)
                    /\ Becomes(t, 271, cpu.SP, cpu.A, r.f, cpu.BC, cpu.DE, r.x)
    BY <1>2, <1>4, <1>12, <2>1, <2>7, ComputesPair
  <2>9. r.x = 2 * guest.x * (guest.y \div 2 ^ b)
    <3>1. r.x = (cpu.HL + cpu.HL) % 65536
      BY <2>8 DEF ArithmeticWide, AddWide
    <3>2. (guest.x * h + guest.x * h) % 65536 = 2 * guest.x * h
      BY <1>5, <2>4, ProductFits
    <3> QED BY <2>3, <2>6, <3>1, <3>2
  <2>10. /\ t.PC = 271 /\ t.iff1 = cpu.iff1 /\ t.SP = cpu.SP /\ ~t.halted /\ t.DE = cpu.DE
         /\ OfB(t) = b /\ t.HL = r.x /\ t.A = cpu.A
    BY <1>3, <2>8, <2>2 DEF Becomes, OfB
  <2>11. MultiplyAt(guest, t, mem, output)
    BY <1>2, <2>6, <2>10, <2>9 DEF MultiplyAt
  <2> QED BY <1>1, <1>2, <2>8, <2>11, StaysSane
<1>13. ASSUME cpu.PC = 271 PROVE \E t, m : Reached(t, m)
  <2>1. Insn = OnA("rlc")
    BY <1>1, <1>13, MultiplyCode
  <2>2. PICK b \in 1 .. 8 : b = OfB(cpu)
    BY <1>13 DEF MultiplyAt
  <2>3. PICK h, j, c : /\ h = guest.y \div 2 ^ b /\ j = guest.y \div 2 ^ (b - 1)
                       /\ c = Bit(guest.y, b - 1)
    OBVIOUS
  <2>4. h \in 0 .. 127 /\ j \in 0 .. 255 /\ c \in {0, 1} /\ j = 2 * h + c
    <3>1. Halving(guest.y, b)
      BY <1>5, HalvedOnce
    <3> QED BY <2>3, <3>1 DEF Halving
  <2>5. /\ h \in 0 .. 127 /\ c \in {0, 1} /\ j = 2 * h + c
        /\ h = guest.y \div 2 ^ b /\ j = guest.y \div 2 ^ (b - 1) /\ c = Bit(guest.y, b - 1)
    BY <2>3, <2>4
  <2>6. 8 - (8 - b) = b /\ 8 - (9 - b) = b - 1 /\ 9 - b = 8 - (b - 1)
    OBVIOUS
  <2>7. /\ cpu.HL = 2 * guest.x * (guest.y \div 2 ^ b) /\ cpu.DE = guest.x
        /\ cpu.A = Rotation(guest.y, b)
    BY <1>2, <1>13, <2>2, <2>6 DEF MultiplyAt, Rotation
  <2>8. "rlc" \in ANames \ {"neg"}
    BY DEF ANames
  <2>9. PICK t, r : /\ Moves(t, mem) /\ r = AdjustA("rlc", cpu.A, cpu.F)
                    /\ Becomes(t, 272, cpu.SP, r.x, r.f, cpu.BC, cpu.DE, cpu.HL)
    BY <1>2, <1>4, <1>13, <2>1, <2>8, AdjustsA
  <2>10. /\ cpu.A \in Byte /\ Bit(cpu.A, 7) = c
         /\ ((2 * cpu.A) % 256) + Bit(cpu.A, 7) = Rotation(guest.y, b - 1)
    <3>1. Turns(cpu.A, guest.y, b)
      BY <1>5, <2>7, RotatedOnce
    <3> QED BY <2>5, <3>1 DEF Turns
  <2>11. r.x = Rotation(guest.y, b - 1) /\ ("C" \in r.f <=> c = 1)
    <3>1. r = ShiftA("rlc", cpu.A, cpu.F)
      BY <2>9 DEF AdjustA
    <3>2. BitOut("rlc", cpu.A) = Bit(cpu.A, 7) /\ BitIn("rlc", cpu.A, cpu.F) = Bit(cpu.A, 7)
      BY DEF BitIn, BitOut, Left
    <3>3. r.x = ((2 * cpu.A) % 256) + Bit(cpu.A, 7)
      BY <3>1, <3>2 DEF ShiftA, Shift, Left
    <3>4. "C" \in r.f <=> Bit(cpu.A, 7) = 1
      BY <3>1, <3>2 DEF ShiftA, When
    <3> QED BY <2>10, <3>3, <3>4
  <2>12. /\ t.PC = 272 /\ t.iff1 = cpu.iff1 /\ t.SP = cpu.SP /\ ~t.halted /\ t.DE = cpu.DE
         /\ OfB(t) = b /\ t.HL = cpu.HL /\ t.A = r.x /\ t.F = r.f
    BY <1>3, <2>9, <2>2 DEF Becomes, OfB
  <2>13. t.A = ((guest.y * 2 ^ (9 - b)) % 256) + guest.y \div 2 ^ (8 - (9 - b))
    BY <2>6, <2>11, <2>12 DEF Rotation
  <2>14. "C" \in t.F <=> Bit(guest.y, b - 1) = 1
    BY <2>3, <2>11, <2>12
  <2>15. MultiplyAt(guest, t, mem, output)
    BY <1>2, <2>7, <2>12, <2>13, <2>14 DEF MultiplyAt
  <2> QED BY <1>1, <1>2, <2>9, <2>15, StaysSane
<1>14. ASSUME cpu.PC = 272 PROVE \E t, m : Reached(t, m)
  <2>1. Insn.op = "jr" /\ Insn.cc = "NC" /\ Insn.len = 2 /\ Insn.e = 1
    BY <1>1, <1>14, MultiplyCode
  <2>2. PICK b \in 1 .. 8 : b = OfB(cpu)
    BY <1>14 DEF MultiplyAt
  <2>3. PICK h, j, c : /\ h = guest.y \div 2 ^ b /\ j = guest.y \div 2 ^ (b - 1)
                       /\ c = Bit(guest.y, b - 1)
    OBVIOUS
  <2>4. h \in 0 .. 127 /\ j \in 0 .. 255 /\ c \in {0, 1} /\ j = 2 * h + c
    <3>1. Halving(guest.y, b)
      BY <1>5, HalvedOnce
    <3> QED BY <2>3, <3>1 DEF Halving
  <2>5. /\ h \in 0 .. 127 /\ c \in {0, 1} /\ j = 2 * h + c
        /\ h = guest.y \div 2 ^ b /\ j = guest.y \div 2 ^ (b - 1) /\ c = Bit(guest.y, b - 1)
    BY <2>3, <2>4
  <2>6. /\ cpu.HL = 2 * guest.x * h /\ cpu.DE = guest.x /\ ("C" \in cpu.F <=> c = 1)
        /\ cpu.A = ((guest.y * 2 ^ (9 - b)) % 256) + guest.y \div 2 ^ (8 - (9 - b))
    BY <1>2, <1>14, <2>2, <2>5 DEF MultiplyAt
  <2>7. Plus(cpu.PC, 2) = 274 /\ Plus(274, 1) = 275
    BY <1>14 DEF Plus
  <2>8. PICK t : /\ Moves(t, mem)
                 /\ Becomes(t, IF Condition(cpu.F, "NC") THEN 275 ELSE 274, cpu.SP, cpu.A, cpu.F,
                               cpu.BC, cpu.DE, cpu.HL)
    BY <1>2, <2>1, <2>7, JumpsRelative
  <2>9. Condition(cpu.F, "NC") <=> c = 0
    BY <2>4, <2>6 DEF Condition
  <2>10. /\ t.PC = (IF c = 0 THEN 275 ELSE 274) /\ t.iff1 = cpu.iff1 /\ t.SP = cpu.SP
         /\ ~t.halted /\ t.DE = cpu.DE /\ OfB(t) = b /\ t.HL = cpu.HL /\ t.A = cpu.A
    BY <1>3, <2>8, <2>2, <2>9 DEF Becomes, OfB
  <2>11. 2 * guest.x * h = guest.x * (2 * h + 0)
    BY <1>5, <2>4, ProductFits
  <2>12. c = 0 => 2 * guest.x * h = guest.x * j
    BY <2>4, <2>11
  <2>13. /\ c = 0 => t.HL = guest.x * (guest.y \div 2 ^ (b - 1))
         /\ c # 0 => Bit(guest.y, b - 1) = 1
         /\ t.HL = 2 * guest.x * (guest.y \div 2 ^ b)
    BY <2>3, <2>4, <2>6, <2>10, <2>12
  <2>14. t.DE = guest.x /\ t.A = ((guest.y * 2 ^ (9 - b)) % 256) + guest.y \div 2 ^ (8 - (9 - b))
    BY <2>6, <2>10
  <2> HIDE DEF Text, Copy
  <2>15. MultiplyAt(guest, t, mem, output)
    BY <1>2, <2>10, <2>13, <2>14 DEF MultiplyAt
  <2> QED BY <1>1, <1>2, <2>8, <2>15, StaysSane
<1>15. ASSUME cpu.PC = 274 PROVE \E t, m : Reached(t, m)
  <2>1. Insn = Wide("add", "HL", "DE")
    BY <1>1, <1>15, MultiplyCode
  <2>2. PICK b \in 1 .. 8 : b = OfB(cpu)
    BY <1>15 DEF MultiplyAt
  <2>3. PICK h, j, c : /\ h = guest.y \div 2 ^ b /\ j = guest.y \div 2 ^ (b - 1)
                       /\ c = Bit(guest.y, b - 1)
    OBVIOUS
  <2>4. h \in 0 .. 127 /\ j \in 0 .. 255 /\ c \in {0, 1} /\ j = 2 * h + c
    <3>1. Halving(guest.y, b)
      BY <1>5, HalvedOnce
    <3> QED BY <2>3, <3>1 DEF Halving
  <2>5. /\ h \in 0 .. 127 /\ c \in {0, 1} /\ j = 2 * h + c
        /\ h = guest.y \div 2 ^ b /\ j = guest.y \div 2 ^ (b - 1) /\ c = Bit(guest.y, b - 1)
    BY <2>3, <2>4
  <2>6. /\ cpu.HL = 2 * guest.x * h /\ cpu.DE = guest.x /\ c = 1
        /\ cpu.A = ((guest.y * 2 ^ (9 - b)) % 256) + guest.y \div 2 ^ (8 - (9 - b))
    BY <1>2, <1>15, <2>2, <2>5 DEF MultiplyAt
  <2>7. Insn.len = 1
    BY <2>1 DEF Wide
  <2>8. PICK t, r : /\ Moves(t, mem) /\ r = ArithmeticWide("add", cpu.HL, cpu.DE, cpu.F)
                    /\ Becomes(t, 275, cpu.SP, cpu.A, r.f, cpu.BC, cpu.DE, r.x)
    BY <1>2, <1>4, <1>15, <2>1, <2>7, ComputesPair
  <2>9. r.x = guest.x * j
    <3>1. r.x = (cpu.HL + cpu.DE) % 65536
      BY <2>8 DEF ArithmeticWide, AddWide
    <3>2. (2 * guest.x * h + guest.x) % 65536 = guest.x * (2 * h + 1)
      BY <1>5, <2>4, ProductFits
    <3> QED BY <2>4, <2>6, <3>1, <3>2
  <2>10. /\ t.PC = 275 /\ t.iff1 = cpu.iff1 /\ t.SP = cpu.SP /\ ~t.halted /\ t.DE = cpu.DE
         /\ OfB(t) = b /\ t.HL = r.x /\ t.A = cpu.A
    BY <1>3, <2>8, <2>2 DEF Becomes, OfB
  <2>11. MultiplyAt(guest, t, mem, output)
    BY <1>2, <2>5, <2>6, <2>10, <2>9 DEF MultiplyAt
  <2> QED BY <1>1, <1>2, <2>8, <2>11, StaysSane
<1>16. ASSUME cpu.PC = 275 PROVE \E t, m : Reached(t, m)
  <2>1. Insn.op = "djnz" /\ Insn.len = 2 /\ Insn.e = -7
    BY <1>1, <1>16, MultiplyCode
  <2>2. PICK b \in 1 .. 8 : b = OfB(cpu)
    BY <1>16 DEF MultiplyAt
  <2>3. /\ cpu.HL = guest.x * (guest.y \div 2 ^ (b - 1)) /\ cpu.DE = guest.x
        /\ cpu.A = ((guest.y * 2 ^ (9 - b)) % 256) + guest.y \div 2 ^ (8 - (9 - b))
    BY <1>2, <1>16, <2>2 DEF MultiplyAt
  <2>4. Plus(cpu.PC, 2) = 277 /\ Plus(277, -7) = 270 /\ -7 \in Int
    BY <1>16 DEF Plus
  <2>5. PICK t, n : /\ Moves(t, mem) /\ n = (OfB(cpu) + 255) % 256
                    /\ Becomes(t, IF n > 0 THEN 270 ELSE 277, cpu.SP, cpu.A, cpu.F,
                                  256 * n + OfC(cpu), cpu.DE, cpu.HL)
    BY <1>2, <2>1, <2>4, CountsDown
  <2>6. n = b - 1 /\ n \in Byte
    BY <2>2, <2>5, OneLess
  <2>7. OfB(t) = n
    <3>1. OfC(cpu) \in Byte
      BY <1>1, StateParts, HalvesOfWord DEF OfC
    <3>2. t.BC = 256 * n + OfC(cpu)
      BY <2>5 DEF Becomes
    <3>3. n \in Byte
      BY <2>6
    <3> QED BY <3>2, <3>1, <3>3, WordOfHalves DEF OfB
  <2>8. /\ t.PC = (IF n > 0 THEN 270 ELSE 277) /\ t.iff1 = cpu.iff1 /\ t.SP = cpu.SP
        /\ ~t.halted /\ t.DE = cpu.DE /\ t.HL = cpu.HL /\ t.A = cpu.A
    BY <1>3, <2>5 DEF Becomes
  <2>9. 9 - b = 8 - n /\ 8 - (9 - b) = 8 - (8 - n) /\ (n > 0 => n \in 1 .. 8)
    BY <2>6
  <2>10. n = 0 => guest.x * (guest.y \div 2 ^ n) = guest.x * guest.y
    <3>1. guest.y \div 1 = guest.y /\ 2 ^ 0 = 1
      BY <1>5, ByteIs
    <3> QED BY <3>1
  <2>11. MultiplyAt(guest, t, mem, output)
    BY <1>2, <2>3, <2>6, <2>7, <2>8, <2>9, <2>10 DEF MultiplyAt
  <2> QED BY <1>1, <1>2, <2>5, <2>11, StaysSane
<1>17. ASSUME cpu.PC = 277 PROVE \E t, m : Reached(t, m)
  <2>1. Insn = LdWide(At(Copy), RR("HL"), 3)
    BY <1>1, <1>17, MultiplyCode
  <2>2. cpu.HL = guest.x * guest.y
    BY <1>2, <1>17 DEF MultiplyAt
  <2>3. 3 \in Nat /\ Copy \in Cells /\ Copy + 1 \in Cells
    BY DEF Cells
  <2>4. PICK t, m : /\ Moves(t, m) /\ Written(m, Copy, cpu.HL)
                    /\ Becomes(t, 280, cpu.SP, cpu.A, cpu.F, cpu.BC, cpu.DE, cpu.HL)
    BY <1>1, <1>2, <1>4, <1>17, <2>1, <2>3, StoresPair
  <2>5. m \in Store /\ m[Ticks] = mem[Ticks] /\ Holds(m, Copy, cpu.HL)
    BY <2>4 DEF Written, WrittenOver, Cells
  <2>6. MultiplyAt(guest, t, m, output)
    BY <1>3, <1>2, <1>17, <2>4, <2>2, <2>5 DEF MultiplyAt, Becomes
  <2> QED BY <1>1, <1>2, <2>4, <2>6, <2>5, StaysSane
<1>18. ASSUME cpu.PC = 280 PROVE \E t, m : Reached(t, m)
  <2>1. Insn = Plain("halt", 1)
    BY <1>1, <1>18, MultiplyCode
  <2>2. PICK t : t = [cpu EXCEPT !.halted = TRUE]
    OBVIOUS
  <2>3. Moves(t, mem)
    BY <1>2, <2>1, <2>2, Halts
  <2>4. /\ Sane(t) /\ t.PC = cpu.PC /\ t.SP = cpu.SP /\ t.iff1 = cpu.iff1 /\ t.A = cpu.A
        /\ t.F = cpu.F /\ t.BC = cpu.BC /\ t.DE = cpu.DE /\ t.HL = cpu.HL /\ t.IX = cpu.IX
        /\ t.enable_interrupts_next_cycle = cpu.enable_interrupts_next_cycle
        /\ t.interrupt_mode = cpu.interrupt_mode
    BY <1>1, <2>2, Halted
  <2>5. MultiplyAt(guest, t, mem, output)
    BY <1>2, <1>18, <2>4 DEF MultiplyAt
  <2> QED BY <1>1, <2>3, <2>4, <2>5
<1>19. ASSUME NEW t, NEW m, Reached(t, m) PROVE GuestInv'
  <2>1. ProgramAt(guest, t, m, output)
    BY <1>19, Which
  <2> HIDE DEF Ticks
  <2> QED BY <1>19, <2>1, GoesOn
<1>20. cpu.PC \in {256, 259, 260, 262, 265, 268, 270, 271, 272, 274, 275, 277, 280}
  BY DEF MultiplyAt
<1> HIDE DEF Reached
<1> QED BY <1>6, <1>7, <1>8, <1>9, <1>10, <1>11, <1>12, <1>13, <1>14, <1>15, <1>16, <1>17,
   <1>18, <1>19, <1>20

-----------------------------------------------------------------------------
(***************************************************************************)
(* bits                                                                    *)
(***************************************************************************)
\* Its lines.
LEMMA BitsCode ==
  ASSUME Loaded, guest \in Guests, guest.program = "bits"
  PROVE  /\ cpu.PC = 256 => Insn = LdWide(RR("HL"), NN(Text), 3)
         /\ cpu.PC = 259 => Insn = Ld(R("B"), N(8), 2)
         /\ cpu.PC = 261 => Insn = ShiftBy("srl", Mem("HL", 0))
         /\ cpu.PC = 263 => Insn = ShiftBy("rl", R("C"))
         /\ cpu.PC = 265 => Insn.op = "djnz" /\ Insn.len = 2 /\ Insn.e = -6
         /\ cpu.PC = 267 => Insn = Ld(Mem("HL", 0), R("C"), 1)
         /\ cpu.PC = 268 => Insn = OnBit("set", 0, Mem("HL", 0))
         /\ cpu.PC = 270 => Insn = OnBit("bit", 7, Mem("HL", 0))
         /\ cpu.PC = 272 => Insn.op = "jr" /\ Insn.cc = "Z" /\ Insn.len = 2 /\ Insn.e = 2
         /\ cpu.PC = 274 => Insn = OnBit("res", 7, Mem("HL", 0))
         /\ cpu.PC = 276 => Insn = Math("xor", R("A"), 1)
         /\ cpu.PC = 277 => Insn = Digits("rld")
         /\ cpu.PC = 279 => Insn = Ld(At(Copy), R("A"), 3)
         /\ cpu.PC = 282 => Insn = Plain("halt", 1)
<1> DEFINE place == Places(256, Bits)
<1> HIDE DEF Text, Copy, Table, Ticks, KbPort
<1>1. /\ Bits[1] = LdWide(RR("HL"), NN(Text), 3)
      /\ Bits[2] = Ld(R("B"), N(8), 2)
      /\ Bits[3] = ShiftBy("srl", Mem("HL", 0))
      /\ Bits[4] = ShiftBy("rl", R("C"))
  BY DEF Bits
<1>2. /\ Bits[5] = Branch("djnz", "always", 3, 2)
      /\ Bits[6] = Ld(Mem("HL", 0), R("C"), 1)
      /\ Bits[7] = OnBit("set", 0, Mem("HL", 0))
      /\ Bits[8] = OnBit("bit", 7, Mem("HL", 0))
  BY DEF Bits
<1>3. /\ Bits[9] = Branch("jr", "Z", 11, 2)
      /\ Bits[10] = OnBit("res", 7, Mem("HL", 0))
      /\ Bits[11] = Math("xor", R("A"), 1)
      /\ Bits[12] = Digits("rld")
  BY DEF Bits
<1>4. /\ Bits[13] = Ld(At(Copy), R("A"), 3)
      /\ Bits[14] = Plain("halt", 1)
  BY DEF Bits
<1>5. /\ Bits[1].len = 3 /\ "to" \notin DOMAIN Bits[1]
      /\ Bits[2].len = 2 /\ "to" \notin DOMAIN Bits[2]
      /\ Bits[3].len = 2 /\ "to" \notin DOMAIN Bits[3]
      /\ Bits[4].len = 2 /\ "to" \notin DOMAIN Bits[4]
  BY <1>1, Straight
<1>6. /\ Bits[5].len = 2
      /\ Bits[6].len = 1 /\ "to" \notin DOMAIN Bits[6]
      /\ Bits[7].len = 2 /\ "to" \notin DOMAIN Bits[7]
      /\ Bits[8].len = 2 /\ "to" \notin DOMAIN Bits[8]
  BY <1>2, Straight
<1>7. /\ Bits[9].len = 2
      /\ Bits[10].len = 2 /\ "to" \notin DOMAIN Bits[10]
      /\ Bits[11].len = 1 /\ "to" \notin DOMAIN Bits[11]
      /\ Bits[12].len = 2 /\ "to" \notin DOMAIN Bits[12]
  BY <1>3, Straight
<1>8. /\ Bits[13].len = 3 /\ "to" \notin DOMAIN Bits[13]
      /\ Bits[14].len = 1 /\ "to" \notin DOMAIN Bits[14]
  BY <1>4, Straight
<1>9. IsListing(Bits, 14)
  <2>1. DOMAIN Bits = 1 .. 14 /\ Len(Bits) = 14
    BY DEF Bits
  <2>2. \A k \in 1 .. 14 : Bits[k].len \in Nat \ {0}
    BY <1>5, <1>6, <1>7, <1>8
  <2> QED BY <2>1, <2>2 DEF IsListing
<1>10. place[1] = 256 /\ \A k \in 1 .. 14 : place[k + 1] = place[k] + Bits[k].len
  BY <1>9, OwnPlaces
<1>11. /\ place[1] = 256 /\ place[2] = 259 /\ place[3] = 261 /\ place[4] = 263
       /\ place[5] = 265 /\ place[6] = 267 /\ place[7] = 268 /\ place[8] = 270
       /\ place[9] = 272 /\ place[10] = 274 /\ place[11] = 276 /\ place[12] = 277
       /\ place[13] = 279 /\ place[14] = 282 /\ place[15] = 283
  <2> HIDE DEF place
  <2> QED BY <1>5, <1>6, <1>7, <1>8, <1>10
<1>12. \A k \in 1 .. 14 : CodeOf["bits"][place[k]] = Linked(Bits[k], place[k + 1], place)
  <2>1. "bits" \in DOMAIN Listing /\ Listing["bits"] = Bits
    BY DEF Listing
  <2> QED BY <1>9, <2>1, OwnLines
<1>13. Insn = CodeOf["bits"][cpu.PC]
  BY GuestIs
<1> HIDE DEF place
<1>14. \A k \in 1 .. 14 : cpu.PC = place[k] => Insn = Linked(Bits[k], place[k + 1], place)
  BY <1>12, <1>13
<1>15. \A k \in (1 .. 14) \ {5, 9} : cpu.PC = place[k] => Insn = Bits[k]
  BY <1>5, <1>6, <1>7, <1>8, <1>14, NoJump
<1>16. /\ cpu.PC = 256 => Insn = Bits[1]
       /\ cpu.PC = 259 => Insn = Bits[2]
       /\ cpu.PC = 261 => Insn = Bits[3]
       /\ cpu.PC = 263 => Insn = Bits[4]
  BY <1>11, <1>15
<1>17. /\ cpu.PC = 267 => Insn = Bits[6]
       /\ cpu.PC = 268 => Insn = Bits[7]
       /\ cpu.PC = 270 => Insn = Bits[8]
  BY <1>11, <1>15
<1>18. /\ cpu.PC = 274 => Insn = Bits[10]
       /\ cpu.PC = 276 => Insn = Bits[11]
       /\ cpu.PC = 277 => Insn = Bits[12]
  BY <1>11, <1>15
<1>19. /\ cpu.PC = 279 => Insn = Bits[13]
       /\ cpu.PC = 282 => Insn = Bits[14]
  BY <1>11, <1>15
<1>20. cpu.PC = 265 => Insn.op = "djnz" /\ Insn.len = 2 /\ Insn.e = -6
  BY <1>2, <1>11, <1>14, Jumping
<1>21. cpu.PC = 272 => Insn.op = "jr" /\ Insn.cc = "Z" /\ Insn.len = 2 /\ Insn.e = 2
  BY <1>3, <1>11, <1>14, Jumping
<1> QED BY <1>1, <1>2, <1>3, <1>4, <1>16, <1>17, <1>18, <1>19, <1>20, <1>21

\* Its steps.
LEMMA BitsGoes ==
  ASSUME Loaded, Home, Step, guest.program = "bits", BitsAt(guest, cpu, mem, output)
  PROVE  GuestInv'
<1> DEFINE Reached(t, m) == /\ Moves(t, m) /\ Sane(t) /\ m \in Store /\ m[Ticks] = mem[Ticks]
                            /\ BitsAt(guest, t, m, output)
<1>1. guest \in Guests /\ mem \in Store /\ Sane(cpu) /\ cpu \in CpuState /\ output \in Signals
  BY DEF Home, Others, Sane
<1>2. Calm /\ cpu.iff1 /\ cpu.SP = 0 /\ 0 \in Levels
  BY <1>1 DEF BitsAt, Sane, Calm, Levels
<1>3. ~cpu.halted
  BY StepRuns DEF Running
<1>4. /\ Plus(256, 3) = 259 /\ Plus(259, 2) = 261 /\ Plus(261, 2) = 263 /\ Plus(263, 2) = 265
      /\ Plus(267, 1) = 268 /\ Plus(268, 2) = 270 /\ Plus(270, 2) = 272 /\ Plus(274, 2) = 276
      /\ Plus(276, 1) = 277 /\ Plus(277, 2) = 279 /\ Plus(279, 3) = 282
  BY DEF Plus
<1>5. guest.x \in Byte
  BY <1>1, GuestIs
<1>6. /\ Reversed(guest.x) \in Byte
      /\ \A j \in 0 .. 7 : Bit(Reversed(guest.x), j) = Bit(guest.x, 7 - j)
  BY <1>5, ReversedBits
<1>7. /\ SetBit(0, Reversed(guest.x)) \in Byte
      /\ ResetBit(7, SetBit(0, Reversed(guest.x))) \in Byte
  BY <1>6, BitFits
<1>8. ASSUME cpu.PC = 256 PROVE \E t, m : Reached(t, m)
  <2>1. Insn = LdWide(RR("HL"), NN(Text), 3)
    BY <1>1, <1>8, BitsCode
  <2>2. PICK w \in Words : w = Text
    BY WordIs
  <2>3. Insn = LdWide(RR("HL"), NN(w), 3)
    BY <2>1, <2>2
  <2>4. mem[Text] = guest.x
    BY <1>8 DEF BitsAt
  <2>5. PICK t : /\ Moves(t, mem)
                 /\ Becomes(t, 259, cpu.SP, cpu.A, cpu.F, cpu.BC, cpu.DE, w)
    BY <1>2, <1>4, <1>8, <2>3, LoadsPair
  <2>6. BitsAt(guest, t, mem, output)
    BY <1>3, <1>2, <1>8, <2>4, <2>2, <2>5 DEF BitsAt, Becomes
  <2> QED BY <1>1, <1>2, <2>5, <2>6, StaysSane
<1>9. ASSUME cpu.PC = 259 PROVE \E t, m : Reached(t, m)
  <2>1. Insn = Ld(R("B"), N(8), 2)
    BY <1>1, <1>9, BitsCode
  <2>2. cpu.HL = Text /\ mem[Text] = guest.x
    BY <1>2, <1>9 DEF BitsAt
  <2>3. Insn.len = 2 /\ "B" \in Simple /\ 8 \in Byte
    BY <2>1, ByteIs DEF Ld, Simple
  <2>4. Operand(Fetched, N(8)) = 8
    BY <1>2, <2>3, OperandsOf
  <2>5. PICK t : /\ Moves(t, mem)
                 /\ Becomes(t, 261, cpu.SP, cpu.A, cpu.F, 256 * 8 + OfC(cpu), cpu.DE, cpu.HL)
    BY <1>2, <1>4, <1>9, <2>1, <2>3, <2>4, LoadsRegister
  <2>6. OfC(cpu) \in Byte
    BY <1>1, StateParts, HalvesOfWord DEF OfC
  <2>7. OfB(t) = 8 /\ OfC(t) \in Byte
    <3>1. t.BC = 256 * 8 + OfC(cpu)
      BY <2>5 DEF Becomes
    <3> QED BY <2>3, <2>6, <3>1, WordOfHalves DEF OfB, OfC
  <2>8. 2 ^ 8 = 256 /\ 2 ^ (8 - 8) = 1
    OBVIOUS
  <2>9. /\ guest.x \div 1 = guest.x /\ Reversed(guest.x) \div 256 = 0
        /\ OfC(t) % 1 = 0
    BY <1>5, <1>6, <2>7, ByteIs
  <2>10. /\ mem[Text] = guest.x \div 2 ^ (8 - 8)
         /\ OfC(t) % 2 ^ (8 - 8) = Reversed(guest.x) \div 2 ^ (8 - (8 - 8))
    <3>1. 8 - (8 - 8) = 8
      OBVIOUS
    <3> QED BY <2>2, <2>8, <2>9, <3>1
  <2>11. /\ t.PC = 261 /\ t.iff1 = cpu.iff1 /\ t.SP = cpu.SP /\ ~t.halted /\ t.HL = cpu.HL
         /\ 8 \in 1 .. 8
    BY <1>3, <2>5 DEF Becomes
  <2>12. BitsAt(guest, t, mem, output)
    BY <1>2, <2>2, <2>11, <2>10, <2>7 DEF BitsAt
  <2> QED BY <1>1, <1>2, <2>5, <2>12, StaysSane
<1>10. ASSUME cpu.PC = 261 PROVE \E t, m : Reached(t, m)
  <2>1. Insn = ShiftBy("srl", Mem("HL", 0))
    BY <1>1, <1>10, BitsCode
  <2>2. PICK b \in 1 .. 8 : b = OfB(cpu)
    BY <1>10 DEF BitsAt
  <2>3. /\ Insn.op = "shift" /\ Insn.how = "srl" /\ Insn.dst = Mem("HL", 0)
        /\ Insn.copy = "none" /\ Insn.len = 2 /\ "srl" \in ShiftNames
    BY <2>1 DEF ShiftBy, ShiftNames
  <2>4. /\ cpu.HL = Text /\ mem[Text] = guest.x \div 2 ^ (8 - b)
        /\ OfC(cpu) % 2 ^ (8 - b) = Reversed(guest.x) \div 2 ^ (8 - (8 - b))
    BY <1>2, <1>10, <2>2 DEF BitsAt
  <2>5. /\ Plus(cpu.HL, 0) = Text /\ Text \in Cells /\ Mem("HL", 0).at # "register"
    BY <2>4 DEF Plus, Cells, Mem
  <2>6. PICK h, j, c : /\ h = guest.x \div 2 ^ (9 - b) /\ j = guest.x \div 2 ^ (8 - b)
                       /\ c = Bit(guest.x, 8 - b)
    OBVIOUS
  <2>7. h \in 0 .. 127 /\ j \in 0 .. 255 /\ c \in {0, 1} /\ j = 2 * h + c
    <3>1. Halving(guest.x, 9 - b)
      BY <1>5, HalvedOnce
    <3>2. (9 - b) - 1 = 8 - b
      OBVIOUS
    <3> QED BY <2>6, <3>1, <3>2 DEF Halving
  <2>8. /\ Operand(Fetched, Mem("HL", 0)) = j
        /\ Address(Fetched, Mem("HL", 0)) = Text
    BY <1>2, <2>3, <2>4, <2>5, <2>6, OperandsOf, Addresses
  <2>9. PICK r : r = Shift("srl", j, Fetched.F)
    OBVIOUS
  <2>10. r.x = h /\ ("C" \in r.f <=> c = 1) /\ Result(r)
    <3>1. Bit(j, 0) = c
      <4>1. 2 ^ 0 = 1
        OBVIOUS
      <4>2. j \div 1 = j /\ j % 2 = c
        BY <2>7
      <4> QED BY <4>1, <4>2 DEF Bit
    <3>2. BitOut("srl", j) = c /\ BitIn("srl", j, Fetched.F) = 0 /\ "srl" \notin Left
      BY <3>1 DEF BitIn, BitOut, Left
    <3>3. r.x = (j \div 2) + 128 * 0 /\ ("C" \in r.f <=> c = 1)
      BY <2>9, <3>2 DEF Shift, When, SignZero, Parity
    <3>4. Becomes(Fetched, Plus(cpu.PC, 2), cpu.SP, cpu.A, cpu.F, cpu.BC, cpu.DE, cpu.HL)
      BY <1>2, <2>3, Fetches
    <3>5. Fetched.F \in SUBSET Flags
      BY <1>1, <3>4, StateParts DEF Becomes
    <3>6. j \in Byte /\ j \div 2 = h
      BY <2>7, ByteIs
    <3>7. Result(r)
      BY <2>3, <2>9, <3>5, <3>6, ShiftTyped
    <3> QED BY <2>7, <3>3, <3>6, <3>7
  <2>11. Update({"shift"}, r)
    BY <2>3, <2>8, <2>9, Chosen DEF ShiftOperand, Before
  <2>12. PICK t, m : /\ Moves(t, m) /\ ByteWritten(m, Text, h)
                     /\ Becomes(t, 263, cpu.SP, cpu.A, r.f, cpu.BC, cpu.DE, cpu.HL)
    <3>1. \E t, m : /\ Moves(t, m) /\ ByteWritten(m, Text, r.x)
                    /\ Becomes(t, Plus(cpu.PC, 2), cpu.SP, cpu.A, r.f, cpu.BC, cpu.DE, cpu.HL)
      BY <1>1, <1>2, <2>3, <2>5, <2>8, <2>10, <2>11, UpdatesMemory
    <3> QED BY <1>4, <1>10, <2>10, <3>1
  <2>13. m \in Store /\ m[Ticks] = mem[Ticks] /\ m[Text] = h
    BY <2>12 DEF ByteWritten, Cells
  <2>14. /\ t.PC = 263 /\ t.iff1 = cpu.iff1 /\ t.SP = cpu.SP /\ ~t.halted /\ t.HL = cpu.HL
         /\ OfB(t) = b /\ OfC(t) = OfC(cpu) /\ t.F = r.f
    BY <1>3, <2>12, <2>2 DEF Becomes, OfB, OfC
  <2>15. /\ m[Text] = guest.x \div 2 ^ (9 - b)
         /\ OfC(t) % 2 ^ (8 - b) = Reversed(guest.x) \div 2 ^ (8 - (8 - b))
         /\ "C" \in t.F <=> Bit(guest.x, 8 - b) = 1
    BY <2>4, <2>6, <2>10, <2>13, <2>14
  <2>16. BitsAt(guest, t, m, output)
    BY <1>2, <2>4, <2>14, <2>15 DEF BitsAt
  <2> QED BY <1>1, <1>2, <2>12, <2>16, <2>13, StaysSane
<1>11. ASSUME cpu.PC = 263 PROVE \E t, m : Reached(t, m)
  <2>1. Insn = ShiftBy("rl", R("C"))
    BY <1>1, <1>11, BitsCode
  <2>2. PICK b \in 1 .. 8 : b = OfB(cpu)
    BY <1>11 DEF BitsAt
  <2>3. /\ Insn.op = "shift" /\ Insn.how = "rl" /\ Insn.dst = R("C")
        /\ Insn.copy = "none" /\ Insn.len = 2 /\ "rl" \in ShiftNames
    BY <2>1 DEF ShiftBy, ShiftNames
  <2>4. /\ cpu.HL = Text /\ mem[Text] = guest.x \div 2 ^ (9 - b)
        /\ OfC(cpu) % 2 ^ (8 - b) = Reversed(guest.x) \div 2 ^ (8 - (8 - b))
        /\ "C" \in cpu.F <=> Bit(guest.x, 8 - b) = 1
    BY <1>2, <1>11, <2>2 DEF BitsAt
  <2>5. /\ 8 - b \in 0 .. 7 /\ b - 1 \in 0 .. 7 /\ (8 - b) + 1 = 9 - b /\ 8 - (8 - b) = b
        /\ 8 - (9 - b) = b - 1 /\ 7 - (b - 1) = 8 - b
    OBVIOUS
  <2>6. PICK h, j, c : /\ h = Reversed(guest.x) \div 2 ^ b /\ j = Reversed(guest.x) \div 2 ^ (b - 1)
                       /\ c = Bit(guest.x, 8 - b)
    OBVIOUS
  <2>7. h \in 0 .. 127 /\ j \in 0 .. 255 /\ c \in {0, 1} /\ j = 2 * h + c
    <3>1. Halving(Reversed(guest.x), b)
      BY <1>6, HalvedOnce
    <3>2. Bit(Reversed(guest.x), b - 1) = c
      BY <1>6, <2>5, <2>6
    <3> QED BY <2>6, <3>1, <3>2 DEF Halving
  <2>8. PICK l \in Byte : l = OfC(cpu)
    BY <1>1, StateParts, HalvesOfWord DEF OfC
  <2>9. Operand(Fetched, R("C")) = l
    BY <1>2, <2>3, <2>8, OperandsOf
  <2>10. PICK r : r = Shift("rl", l, Fetched.F)
    OBVIOUS
  <2>11. r.x = ((2 * l) % 256) + c /\ Result(r)
    <3>1. Becomes(Fetched, Plus(cpu.PC, 2), cpu.SP, cpu.A, cpu.F, cpu.BC, cpu.DE, cpu.HL)
      BY <1>2, <2>3, Fetches
    <3>2. Fetched.F = cpu.F /\ Fetched.F \in SUBSET Flags
      BY <1>1, <3>1, StateParts DEF Becomes
    <3>3. Carry(Fetched.F) = c
      BY <2>4, <2>6, <2>7, <3>2 DEF Carry
    <3>4. BitIn("rl", l, Fetched.F) = c /\ "rl" \in Left
      BY <3>3 DEF BitIn, Left
    <3>5. r.x = ((2 * l) % 256) + c
      BY <2>10, <3>4 DEF Shift
    <3>6. Result(r)
      BY <2>3, <2>10, <3>2, ShiftTyped
    <3> QED BY <3>5, <3>6
  <2>12. r.x \in Byte /\ r.x % 2 ^ (9 - b) = j
    <3>1. ComesIn(l, c, 2 ^ (8 - b), 2 ^ ((8 - b) + 1))
      BY <2>7, <2>5, BitComesIn
    <3>2. r.x % 2 ^ (9 - b) = 2 * (l % 2 ^ (8 - b)) + c
      BY <2>5, <2>11, <3>1 DEF ComesIn
    <3>3. l % 2 ^ (8 - b) = h
      BY <2>4, <2>6, <2>5, <2>8
    <3>4. 2 * h + c = j
      BY <2>7
    <3> QED BY <2>11, <3>2, <3>3, <3>4 DEF Result
  <2>13. Update({"shift"}, r)
    BY <2>3, <2>9, <2>10, Chosen DEF ShiftOperand, Before
  <2>14. PICK t : /\ Moves(t, mem)
                  /\ Becomes(t, 265, cpu.SP, cpu.A, r.f, 256 * OfB(cpu) + r.x, cpu.DE, cpu.HL)
    BY <1>2, <1>4, <1>11, <2>3, <2>11, <2>13, UpdatesRegister
  <2>15. OfB(t) = b /\ OfC(t) = r.x
    <3>1. OfB(cpu) \in Byte
      BY <1>1, StateParts, HalvesOfWord DEF OfB
    <3>2. t.BC = 256 * OfB(cpu) + r.x
      BY <2>14 DEF Becomes
    <3> QED BY <2>2, <2>12, <3>2, <3>1, WordOfHalves DEF OfB, OfC
  <2>16. /\ t.PC = 265 /\ t.iff1 = cpu.iff1 /\ t.SP = cpu.SP /\ ~t.halted /\ t.HL = cpu.HL
    BY <1>3, <2>14 DEF Becomes
  <2>17. OfC(t) % 2 ^ (9 - b) = Reversed(guest.x) \div 2 ^ (8 - (9 - b))
    BY <2>5, <2>6, <2>12, <2>15
  <2>18. BitsAt(guest, t, mem, output)
    BY <1>2, <2>4, <2>16, <2>17, <2>15 DEF BitsAt
  <2> QED BY <1>1, <1>2, <2>14, <2>18, StaysSane
<1>12. ASSUME cpu.PC = 265 PROVE \E t, m : Reached(t, m)
  <2>1. Insn.op = "djnz" /\ Insn.len = 2 /\ Insn.e = -6
    BY <1>1, <1>12, BitsCode
  <2>2. PICK b \in 1 .. 8 : b = OfB(cpu)
    BY <1>12 DEF BitsAt
  <2>3. /\ cpu.HL = Text /\ mem[Text] = guest.x \div 2 ^ (9 - b)
        /\ OfC(cpu) % 2 ^ (9 - b) = Reversed(guest.x) \div 2 ^ (8 - (9 - b))
    BY <1>2, <1>12, <2>2 DEF BitsAt
  <2>4. Plus(cpu.PC, 2) = 267 /\ Plus(267, -6) = 261 /\ -6 \in Int
    BY <1>12 DEF Plus
  <2>5. PICK t, n : /\ Moves(t, mem) /\ n = (OfB(cpu) + 255) % 256
                    /\ Becomes(t, IF n > 0 THEN 261 ELSE 267, cpu.SP, cpu.A, cpu.F,
                                  256 * n + OfC(cpu), cpu.DE, cpu.HL)
    BY <1>2, <2>1, <2>4, CountsDown
  <2>6. n = b - 1 /\ n \in Byte
    BY <2>2, <2>5, OneLess
  <2>7. OfB(t) = n /\ OfC(t) = OfC(cpu) /\ OfC(cpu) \in Byte
    <3>1. OfC(cpu) \in Byte
      BY <1>1, StateParts, HalvesOfWord DEF OfC
    <3>2. t.BC = 256 * n + OfC(cpu)
      BY <2>5 DEF Becomes
    <3>3. n \in Byte
      BY <2>6
    <3> QED BY <3>2, <3>1, <3>3, WordOfHalves DEF OfB, OfC
  <2>8. /\ t.PC = (IF n > 0 THEN 261 ELSE 267) /\ t.iff1 = cpu.iff1 /\ t.SP = cpu.SP
        /\ ~t.halted /\ t.HL = cpu.HL
    BY <1>3, <2>5 DEF Becomes
  <2>9. 9 - b = 8 - n /\ 8 - (9 - b) = 8 - (8 - n) /\ (n > 0 => n \in 1 .. 8)
    BY <2>6
  <2>10. n = 0 => OfC(t) = Reversed(guest.x)
    <3>1. 2 ^ 8 = 256 /\ 2 ^ 0 = 1
      OBVIOUS
    <3>2. n = 0 => OfC(cpu) % 2 ^ 8 = Reversed(guest.x) \div 2 ^ 0
      <4>1. n = 0 => 9 - b = 8 /\ 8 - (9 - b) = 0
        BY <2>6
      <4> QED BY <2>3, <4>1
    <3>3. OfC(cpu) % 256 = OfC(cpu) /\ Reversed(guest.x) \div 1 = Reversed(guest.x)
      BY <1>6, <2>7, ByteIs
    <3> QED BY <2>7, <3>1, <3>2, <3>3
  <2>11. /\ mem[Text] = guest.x \div 2 ^ (8 - n)
         /\ OfC(t) % 2 ^ (8 - n) = Reversed(guest.x) \div 2 ^ (8 - (8 - n))
    BY <2>3, <2>9, <2>7
  <2>12. BitsAt(guest, t, mem, output)
    <3>1. ASSUME n > 0 PROVE BitsAt(guest, t, mem, output)
      <4>1. t.PC = 261 /\ n \in 1 .. 8
        BY <3>1, <2>8, <2>9
      <4> QED BY <1>2, <2>3, <2>7, <2>8, <2>11, <4>1 DEF BitsAt
    <3>2. ASSUME ~(n > 0) PROVE BitsAt(guest, t, mem, output)
      <4>1. t.PC = 267 /\ OfC(t) = Reversed(guest.x)
        BY <3>2, <2>8, <2>6, <2>10
      <4> QED BY <1>2, <2>3, <2>8, <4>1 DEF BitsAt
    <3> QED BY <3>1, <3>2
  <2> QED BY <1>1, <1>2, <2>5, <2>12, StaysSane
<1>13. ASSUME cpu.PC = 267 PROVE \E t, m : Reached(t, m)
  <2>1. Insn = Ld(Mem("HL", 0), R("C"), 1)
    BY <1>1, <1>13, BitsCode
  <2>2. cpu.HL = Text /\ OfC(cpu) = Reversed(guest.x)
    BY <1>2, <1>13 DEF BitsAt
  <2>3. Insn.len = 1 /\ Text \in Cells
    BY <2>1 DEF Ld, Cells
  <2>4. /\ Plus(cpu.HL, 0) = Text /\ Mem("HL", 0).at # "register"
    BY <2>2 DEF Plus, Mem
  <2>5. /\ Operand(Fetched, R("C")) = Reversed(guest.x)
        /\ Address(Fetched, Mem("HL", 0)) = Text
    BY <1>2, <2>2, <2>3, <2>4, OperandsOf, Addresses
  <2>6. PICK t, m : /\ Moves(t, m) /\ ByteWritten(m, Text, Reversed(guest.x))
                    /\ Becomes(t, 268, cpu.SP, cpu.A, cpu.F, cpu.BC, cpu.DE, cpu.HL)
    BY <1>1, <1>6, <1>2, <1>4, <1>13, <2>1, <2>3, <2>4, <2>5, StoresByte
  <2>7. m \in Store /\ m[Ticks] = mem[Ticks] /\ m[Text] = Reversed(guest.x)
    BY <2>6 DEF ByteWritten, Cells
  <2>8. BitsAt(guest, t, m, output)
    BY <1>3, <1>2, <1>13, <2>2, <2>6, <2>7 DEF BitsAt, Becomes
  <2> QED BY <1>1, <1>2, <2>6, <2>8, <2>7, StaysSane
<1>14. ASSUME cpu.PC = 268 PROVE \E t, m : Reached(t, m)
  <2>1. Insn = OnBit("set", 0, Mem("HL", 0))
    BY <1>1, <1>14, BitsCode
  <2>2. /\ Insn.op = "set" /\ Insn.bit = 0 /\ Insn.dst = Mem("HL", 0)
        /\ Insn.copy = "none" /\ Insn.len = 2
    BY <2>1 DEF OnBit
  <2>3. cpu.HL = Text /\ mem[Text] = Reversed(guest.x)
    BY <1>2, <1>14 DEF BitsAt
  <2>4. /\ Plus(cpu.HL, 0) = Text /\ Text \in Cells /\ Mem("HL", 0).at # "register"
    BY <2>3 DEF Plus, Cells, Mem
  <2>5. /\ Operand(Fetched, Mem("HL", 0)) = Reversed(guest.x)
        /\ Address(Fetched, Mem("HL", 0)) = Text
    BY <1>2, <2>2, <2>3, <2>4, OperandsOf, Addresses
  <2>6. Becomes(Fetched, Plus(cpu.PC, 2), cpu.SP, cpu.A, cpu.F, cpu.BC, cpu.DE, cpu.HL)
    BY <1>2, <2>2, Fetches
  <2>7. Fetched.F \in SUBSET Flags
    BY <1>1, <2>6, StateParts DEF Becomes
  <2>8. PICK r : r = [x |-> SetBit(0, Reversed(guest.x)), f |-> Fetched.F]
    OBVIOUS
  <2>9. r.x = SetBit(0, Reversed(guest.x)) /\ Result(r)
    BY <1>7, <2>7, <2>8 DEF Result
  <2>10. Update({"set"}, r)
    BY <2>2, <2>5, <2>8, Chosen DEF SetOperand, Before
  <2>11. PICK t, m : /\ Moves(t, m) /\ ByteWritten(m, Text, r.x)
                     /\ Becomes(t, 270, cpu.SP, cpu.A, r.f, cpu.BC, cpu.DE, cpu.HL)
    <3>1. \E t, m : /\ Moves(t, m) /\ ByteWritten(m, Text, r.x)
                    /\ Becomes(t, Plus(cpu.PC, 2), cpu.SP, cpu.A, r.f, cpu.BC, cpu.DE, cpu.HL)
      BY <1>1, <1>2, <2>2, <2>4, <2>5, <2>9, <2>10, UpdatesMemory
    <3> QED BY <1>4, <1>14, <3>1
  <2>12. m \in Store /\ m[Ticks] = mem[Ticks] /\ m[Text] = SetBit(0, Reversed(guest.x))
    BY <2>11, <2>9 DEF ByteWritten, Cells
  <2>13. BitsAt(guest, t, m, output)
    BY <1>3, <1>2, <1>14, <2>3, <2>11, <2>12 DEF BitsAt, Becomes
  <2> QED BY <1>1, <1>2, <2>11, <2>13, <2>12, StaysSane
<1>15. ASSUME cpu.PC = 270 PROVE \E t, m : Reached(t, m)
  <2>1. Insn = OnBit("bit", 7, Mem("HL", 0))
    BY <1>1, <1>15, BitsCode
  <2>2. cpu.HL = Text /\ mem[Text] = SetBit(0, Reversed(guest.x))
    BY <1>2, <1>15 DEF BitsAt
  <2>3. PICK t, f : /\ Moves(t, mem) /\ f = TestBit(7, mem[cpu.HL], cpu.F)
                    /\ Becomes(t, 272, cpu.SP, cpu.A, f, cpu.BC, cpu.DE, cpu.HL)
    BY <1>2, <1>4, <1>15, <2>1, TestsBit
  <2>4. "Z" \in f <=> Bit(SetBit(0, Reversed(guest.x)), 7) = 0
    BY <2>2, <2>3 DEF TestBit, When
  <2>5. BitsAt(guest, t, mem, output)
    BY <1>3, <1>15, <2>3, <1>2, <2>2, <2>4 DEF BitsAt, Becomes
  <2> QED BY <1>1, <1>2, <2>3, <2>5, StaysSane
<1>16. ASSUME cpu.PC = 272 PROVE \E t, m : Reached(t, m)
  <2>1. Insn.op = "jr" /\ Insn.cc = "Z" /\ Insn.len = 2 /\ Insn.e = 2
    BY <1>1, <1>16, BitsCode
  <2>2. /\ cpu.HL = Text /\ mem[Text] = SetBit(0, Reversed(guest.x))
        /\ "Z" \in cpu.F <=> Bit(SetBit(0, Reversed(guest.x)), 7) = 0
    BY <1>2, <1>16 DEF BitsAt
  <2>3. Plus(cpu.PC, 2) = 274 /\ Plus(274, 2) = 276
    BY <1>16 DEF Plus
  <2>4. PICK t : /\ Moves(t, mem)
                 /\ Becomes(t, IF Condition(cpu.F, "Z") THEN 276 ELSE 274, cpu.SP, cpu.A, cpu.F,
                               cpu.BC, cpu.DE, cpu.HL)
    BY <1>2, <2>1, <2>3, JumpsRelative
  <2>5. Condition(cpu.F, "Z") <=> "Z" \in cpu.F
    BY DEF Condition
  <2>6. "Z" \in cpu.F => mem[Text] = Kept(guest.x)
    <3>1. SetBit(0, Reversed(guest.x)) \in Int
      BY <1>7, ByteIs
    <3>2. 2 ^ 7 = 128
      OBVIOUS
    <3>3. PICK w \in Int : w = SetBit(0, Reversed(guest.x))
      BY <3>1
    <3>4. w - 128 * 0 = w
      OBVIOUS
    <3> QED BY <2>2, <3>2, <3>3, <3>4 DEF Kept, ResetBit
  <2>7. BitsAt(guest, t, mem, output)
    BY <1>3, <1>16, <2>4, <1>2, <2>2, <2>5, <2>6 DEF BitsAt, Becomes
  <2> QED BY <1>1, <1>2, <2>4, <2>7, StaysSane
<1>17. ASSUME cpu.PC = 274 PROVE \E t, m : Reached(t, m)
  <2>1. Insn = OnBit("res", 7, Mem("HL", 0))
    BY <1>1, <1>17, BitsCode
  <2>2. /\ Insn.op = "res" /\ Insn.bit = 7 /\ Insn.dst = Mem("HL", 0)
        /\ Insn.copy = "none" /\ Insn.len = 2
    BY <2>1 DEF OnBit
  <2>3. cpu.HL = Text /\ mem[Text] = SetBit(0, Reversed(guest.x))
    BY <1>2, <1>17 DEF BitsAt
  <2>4. /\ Plus(cpu.HL, 0) = Text /\ Text \in Cells /\ Mem("HL", 0).at # "register"
    BY <2>3 DEF Plus, Cells, Mem
  <2>5. /\ Operand(Fetched, Mem("HL", 0)) = SetBit(0, Reversed(guest.x))
        /\ Address(Fetched, Mem("HL", 0)) = Text
    BY <1>2, <2>2, <2>3, <2>4, OperandsOf, Addresses
  <2>6. Becomes(Fetched, Plus(cpu.PC, 2), cpu.SP, cpu.A, cpu.F, cpu.BC, cpu.DE, cpu.HL)
    BY <1>2, <2>2, Fetches
  <2>7. Fetched.F \in SUBSET Flags
    BY <1>1, <2>6, StateParts DEF Becomes
  <2>8. PICK r : r = [x |-> ResetBit(7, SetBit(0, Reversed(guest.x))), f |-> Fetched.F]
    OBVIOUS
  <2>9. r.x = ResetBit(7, SetBit(0, Reversed(guest.x))) /\ Result(r)
    BY <1>7, <2>7, <2>8 DEF Result
  <2>10. Update({"res"}, r)
    BY <2>2, <2>5, <2>8, Chosen DEF ResetOperand, Before
  <2>11. PICK t, m : /\ Moves(t, m) /\ ByteWritten(m, Text, r.x)
                     /\ Becomes(t, 276, cpu.SP, cpu.A, r.f, cpu.BC, cpu.DE, cpu.HL)
    <3>1. \E t, m : /\ Moves(t, m) /\ ByteWritten(m, Text, r.x)
                    /\ Becomes(t, Plus(cpu.PC, 2), cpu.SP, cpu.A, r.f, cpu.BC, cpu.DE, cpu.HL)
      BY <1>1, <1>2, <2>2, <2>4, <2>5, <2>9, <2>10, UpdatesMemory
    <3> QED BY <1>4, <1>17, <3>1
  <2>12. m \in Store /\ m[Ticks] = mem[Ticks] /\ m[Text] = Kept(guest.x)
    BY <2>11, <2>9 DEF ByteWritten, Cells, Kept
  <2>13. BitsAt(guest, t, m, output)
    BY <1>3, <1>2, <1>17, <2>3, <2>11, <2>12 DEF BitsAt, Becomes
  <2> QED BY <1>1, <1>2, <2>11, <2>13, <2>12, StaysSane
<1>18. ASSUME cpu.PC = 276 PROVE \E t, m : Reached(t, m)
  <2>1. Insn = Math("xor", R("A"), 1)
    BY <1>1, <1>18, BitsCode
  <2>2. cpu.HL = Text /\ mem[Text] = Kept(guest.x)
    BY <1>2, <1>18 DEF BitsAt
  <2>3. cpu.A \in Byte
    BY <1>1, StateParts
  <2>4. Insn.len = 1 /\ "xor" \in MathNames
    BY <2>1 DEF Math, MathNames
  <2>5. Operand(Fetched, R("A")) = cpu.A
    BY <1>2, <2>4, OperandsOf
  <2>6. PICK t, r : /\ Moves(t, mem) /\ r = Arithmetic("xor", cpu.A, cpu.A, cpu.F)
                    /\ Becomes(t, 277, cpu.SP, r.x, r.f, cpu.BC, cpu.DE, cpu.HL)
    BY <2>3, <1>2, <1>4, <1>18, <2>1, <2>4, <2>5, Computes
  <2>7. r.x = 0
    <3>1. (BitsOf(cpu.A) \ BitsOf(cpu.A)) \cup (BitsOf(cpu.A) \ BitsOf(cpu.A)) = {}
      OBVIOUS
    <3>2. FromBits({}) = 0
      BY DEF FromBits, Worth
    <3> QED BY <2>6, <3>1, <3>2 DEF Arithmetic, Xor
  <2>8. BitsAt(guest, t, mem, output)
    BY <1>3, <1>18, <2>6, <1>2, <2>2, <2>7 DEF BitsAt, Becomes
  <2> QED BY <1>1, <1>2, <2>6, <2>8, StaysSane
<1>19. ASSUME cpu.PC = 277 PROVE \E t, m : Reached(t, m)
  <2>1. Insn = Digits("rld")
    BY <1>1, <1>19, BitsCode
  <2>2. cpu.HL = Text /\ mem[Text] = Kept(guest.x) /\ cpu.A = 0
    BY <1>2, <1>19 DEF BitsAt
  <2>3. Text \in Cells
    BY DEF Cells
  <2>4. PICK t, m, r : /\ Moves(t, m) /\ r = Rld(cpu.A, mem[cpu.HL], cpu.F)
                       /\ ByteWritten(m, cpu.HL, r.m)
                       /\ Becomes(t, 279, cpu.SP, r.x, r.f, cpu.BC, cpu.DE, cpu.HL)
    BY <1>1, <1>2, <1>4, <1>19, <2>1, <2>2, <2>3, RotatesDigits
  <2>5. PICK k \in 0 .. 255 : k = Kept(guest.x)
    BY <1>7, ByteIs DEF Kept
  <2>6. r.x = k \div 16 /\ r.m = 16 * (k % 16)
    <3>1. r.x = (0 - (0 % 16)) + (k \div 16) /\ r.m = 16 * (k % 16) + (0 % 16)
      BY <2>2, <2>4, <2>5 DEF Rld
    <3> QED BY <2>5, <3>1
  <2>7. m \in Store /\ m[Ticks] = mem[Ticks] /\ m[Text] = r.m
    BY <2>2, <2>4 DEF ByteWritten, Cells
  <2>8. /\ t.PC = 279 /\ t.iff1 = cpu.iff1 /\ t.SP = cpu.SP /\ ~t.halted /\ t.A = r.x
    BY <1>3, <2>4 DEF Becomes
  <2>9. t.A = Kept(guest.x) \div 16 /\ m[Text] = 16 * (Kept(guest.x) % 16)
    BY <2>5, <2>6, <2>7, <2>8
  <2>10. BitsAt(guest, t, m, output)
    BY <1>2, <2>8, <2>9 DEF BitsAt
  <2> QED BY <1>1, <1>2, <2>4, <2>10, <2>7, StaysSane
<1>20. ASSUME cpu.PC = 279 PROVE \E t, m : Reached(t, m)
  <2>1. Insn = Ld(At(Copy), R("A"), 3)
    BY <1>1, <1>20, BitsCode
  <2>2. cpu.A = Kept(guest.x) \div 16 /\ mem[Text] = 16 * (Kept(guest.x) % 16)
    BY <1>2, <1>20 DEF BitsAt
  <2>3. Insn.len = 3 /\ Copy \in Cells /\ cpu.A \in Byte
    BY <1>1, <2>1, StateParts DEF Ld, Cells
  <2>4. /\ Operand(Fetched, R("A")) = cpu.A /\ Address(Fetched, At(Copy)) = Copy
        /\ At(Copy).at # "register"
    BY <1>2, <2>3, OperandsOf, Addresses
  <2>5. PICK t, m : /\ Moves(t, m) /\ ByteWritten(m, Copy, cpu.A)
                    /\ Becomes(t, 282, cpu.SP, cpu.A, cpu.F, cpu.BC, cpu.DE, cpu.HL)
    BY <1>1, <1>2, <1>4, <1>20, <2>1, <2>3, <2>4, StoresByte
  <2>6. m \in Store /\ m[Ticks] = mem[Ticks] /\ m[Text] = mem[Text] /\ m[Copy] = cpu.A
    BY <2>5 DEF ByteWritten, Cells
  <2>7. BitsAt(guest, t, m, output)
    BY <1>3, <1>2, <1>20, <2>2, <2>5, <2>6 DEF BitsAt, Becomes
  <2> QED BY <1>1, <1>2, <2>5, <2>7, <2>6, StaysSane
<1>21. ASSUME cpu.PC = 282 PROVE \E t, m : Reached(t, m)
  <2>1. Insn = Plain("halt", 1)
    BY <1>1, <1>21, BitsCode
  <2>2. PICK t : t = [cpu EXCEPT !.halted = TRUE]
    OBVIOUS
  <2>3. Moves(t, mem)
    BY <1>2, <2>1, <2>2, Halts
  <2>4. /\ Sane(t) /\ t.PC = cpu.PC /\ t.SP = cpu.SP /\ t.iff1 = cpu.iff1 /\ t.A = cpu.A
        /\ t.F = cpu.F /\ t.BC = cpu.BC /\ t.DE = cpu.DE /\ t.HL = cpu.HL /\ t.IX = cpu.IX
        /\ t.enable_interrupts_next_cycle = cpu.enable_interrupts_next_cycle
        /\ t.interrupt_mode = cpu.interrupt_mode
    BY <1>1, <2>2, Halted
  <2>5. BitsAt(guest, t, mem, output)
    BY <1>2, <1>21, <2>4 DEF BitsAt
  <2> QED BY <1>1, <2>3, <2>4, <2>5
<1>22. ASSUME NEW t, NEW m, Reached(t, m) PROVE GuestInv'
  <2>1. ProgramAt(guest, t, m, output)
    BY <1>22, Which
  <2> HIDE DEF Ticks
  <2> QED BY <1>22, <2>1, GoesOn
<1>23. cpu.PC \in {256, 259, 261, 263, 265, 267, 268, 270, 272, 274, 276, 277, 279, 282}
  BY DEF BitsAt
<1> HIDE DEF Reached
<1> QED BY <1>8, <1>9, <1>10, <1>11, <1>12, <1>13, <1>14, <1>15, <1>16, <1>17, <1>18, <1>19,
   <1>20, <1>21, <1>22, <1>23

-----------------------------------------------------------------------------
(***************************************************************************)
(* Every program, interrupted or not.                                      *)
(***************************************************************************)
\* A program's step.
LEMMA ProgramGoes ==
  ASSUME Loaded, Home, Step, ProgramAt(guest, cpu, mem, output)
  PROVE  GuestInv'
<1>1. guest \in Guests
  BY DEF Home, Others
<1>2. guest.program \in Programs
  BY <1>1, GuestIs
<1>3. guest.program = "hello" => GuestInv'
  <2>1. guest.program = "hello" => HelloAt(guest, cpu, mem, output)
    BY Which
  <2> QED BY <2>1, HelloGoes
<1>4. guest.program = "hex" => GuestInv'
  <2>1. guest.program = "hex" => HexAt(guest, cpu, mem, output)
    BY Which
  <2> QED BY <2>1, HexGoes
<1>5. guest.program = "copying" => GuestInv'
  <2>1. guest.program = "copying" => CopyingAt(guest, cpu, mem, output)
    BY Which
  <2> QED BY <2>1, CopyingGoes
<1>6. guest.program = "filling" => GuestInv'
  <2>1. guest.program = "filling" => FillingAt(guest, cpu, mem, output)
    BY Which
  <2> QED BY <2>1, FillingGoes
<1>7. guest.program = "blocks" => GuestInv'
  <2>1. guest.program = "blocks" => BlocksAt(guest, cpu, mem, output)
    BY Which
  <2> QED BY <2>1, BlocksGoes
<1>8. guest.program = "ports" => GuestInv'
  <2>1. guest.program = "ports" => PortsAt(guest, cpu, mem, output)
    BY Which
  <2> QED BY <2>1, PortsGoes
<1>9. guest.program = "stacking" => GuestInv'
  <2>1. guest.program = "stacking" => StackingAt(guest, cpu, mem, output)
    BY Which
  <2> QED BY <2>1, StackingGoes
<1>10. guest.program = "multiply" => GuestInv'
  <2>1. guest.program = "multiply" => MultiplyAt(guest, cpu, mem, output)
    BY Which
  <2> QED BY <2>1, MultiplyGoes
<1>11. guest.program = "bits" => GuestInv'
  <2>1. guest.program = "bits" => BitsAt(guest, cpu, mem, output)
    BY Which
  <2> QED BY <2>1, BitsGoes
<1>12. guest.program = "critical" => GuestInv'
  <2>1. guest.program = "critical" => CriticalAt(guest, cpu, mem, output)
    BY Which
  <2> QED BY <2>1, CriticalGoes
<1>13. guest.program = "indexed" => GuestInv'
  <2>1. guest.program = "indexed" => IndexedAt(guest, cpu, mem, output)
    BY Which
  <2> QED BY <2>1, IndexedGoes
<1> QED BY <1>2, <1>3, <1>4, <1>5, <1>6, <1>7, <1>8, <1>9, <1>10, <1>11, <1>12, <1>13,
   ProgramNames

\* A step of the handler.
LEMMA HandlerGoes ==
  ASSUME Loaded, Others, NEW u \in CpuState, NEW v \in Store, mem \in Store, Sane(u),
         Asserted(guest, u, v, output), Interrupted(u, v), Countable => Counted(u), Step
  PROVE  GuestInv'
<1>1. cpu.PC \in HandlerLines
  BY DEF Interrupted, Serving
<1>2. \/ cpu.PC \in {56, 57, 58} \/ cpu.PC \in {61, 62}
      \/ cpu.PC \in {64, 65, 66} \/ cpu.PC = 67
  BY <1>1 DEF HandlerLines
<1>3. ASSUME cpu.PC \in {56, 57, 58} PROVE GuestInv'
  <2> HIDE DEF Ticks
  <2> QED BY <1>3, HandlerSaves
<1>4. ASSUME cpu.PC \in {61, 62} PROVE GuestInv'
  <2> HIDE DEF Ticks
  <2> QED BY <1>4, HandlerCounts
<1>5. ASSUME cpu.PC \in {64, 65, 66} PROVE GuestInv'
  <2> HIDE DEF Ticks
  <2> QED BY <1>5, HandlerRestores
<1>6. ASSUME cpu.PC = 67 PROVE GuestInv'
  <2> HIDE DEF Ticks
  <2> QED BY <1>6, HandlerReturns
<1> QED BY <1>2, <1>3, <1>4, <1>5, <1>6

\* The data are loaded, and nothing has happened.
LEMMA GuestStarts ==
  ASSUME Loaded, Init
  PROVE  GuestInv
<1>1. guest \in Guests /\ guest.program \in Programs /\ guest.x \in Byte /\ guest.y \in Byte
  BY GuestIs DEF Init
<1>2. mem = GuestData(guest)
  BY <1>1 DEF Loaded, Init
<1>3. mem \in Store
  <2>1. Cells = (Text - 1 .. Ticks) \cup Stack
    BY DEF Cells
  <2>2. \A w \in Cells : GuestData(guest)[w] \in Byte
    <3>1. 111 \in Byte /\ 8 \in Byte /\ 0 \in Byte
      BY ByteIs
    <3> QED BY <1>1, <2>1, <3>1 DEF GuestData
  <2>3. DOMAIN GuestData(guest) = Cells /\ GuestData(guest) = [w \in Cells |-> GuestData(guest)[w]]
    BY <2>1 DEF GuestData
  <2> QED BY <1>2, <2>2, <2>3 DEF Store
<1>4. Original(guest, mem)
  BY <1>2 DEF GuestData, Original, TextIs
<1>5. mem[Ticks] = 0
  BY <1>2 DEF GuestData
<1>6. /\ cpu = NewCpu /\ line = FALSE /\ raised = 0 /\ output = <<>> /\ panicked = FALSE
  BY DEF Init
<1>7. cpu \in CpuState
  BY <1>6, ByteIs, WordIs DEF NewCpu, CpuState, Modes
<1>8. /\ cpu.PC = 0 /\ cpu.SP = 0 /\ ~cpu.halted /\ ~cpu.iff1 /\ cpu.iff2 = cpu.iff1
      /\ ~cpu.enable_interrupts_next_cycle
  BY <1>6 DEF NewCpu
<1>9. Sane(cpu) /\ Asserted(guest, cpu, mem, output)
  BY <1>4, <1>6, <1>7, <1>8 DEF Sane, Asserted, BootAt, Levels
<1>10. Counted(cpu)
  <2>1. Counts(guest, cpu) = 0
    BY <1>8 DEF Counts
  <2> QED BY <1>5, <1>6, <2>1 DEF Counted, Pending
<1>11. output \in Seq([port : Byte, data : Byte]) /\ raised \in 0 .. Raises
  BY <1>6, RaisesAssumption
<1> QED BY <1>1, <1>3, <1>6, <1>7, <1>8, <1>9, <1>10, <1>11 DEF GuestInv

\* And every step keeps what holds.
LEMMA GuestKept ==
  ASSUME Loaded, GuestInv, [Next]_vars
  PROVE  GuestInv'
<1>1. guest \in Guests /\ guest.program \in Programs
  BY GuestIs DEF GuestInv
<1>2. Others /\ mem \in Store
  BY <1>1 DEF GuestInv, Others, Signals
<1>3. CASE Step
  <2>1. PICK u \in CpuState, v \in Store :
          /\ Sane(u) /\ Asserted(guest, u, v, output)
          /\ (cpu = u /\ mem = v) \/ Interrupted(u, v)
          /\ Countable => Counted(u)
    BY DEF GuestInv
  <2>2. CASE cpu = u /\ mem = v
    <3>1. Sane(cpu) /\ Asserted(guest, cpu, mem, output) /\ (Countable => Counted(cpu))
      BY <2>1, <2>2
    <3>2. cpu.PC \notin HandlerLines
      BY <1>1, <3>1, Elsewhere
    <3>3. Home
      BY <1>2, <3>1, <3>2 DEF Home
    <3>4. CASE BootAt(guest, cpu, mem, output)
      BY <1>3, <3>3, <3>4, Boots
    <3>5. CASE ProgramAt(guest, cpu, mem, output)
      BY <1>3, <3>3, <3>5, ProgramGoes
    <3> QED BY <3>1, <3>4, <3>5 DEF Asserted
  <2>3. CASE Interrupted(u, v)
    <3> HIDE DEF Ticks
    <3> QED BY <1>2, <1>3, <2>1, <2>3, HandlerGoes
  <2> QED BY <2>1, <2>2, <2>3
<1>4. CASE Raise
  BY <1>1, <1>4, Raised
<1>5. CASE UNCHANGED vars
  <2>1. UNCHANGED <<guest, cpu, mem, line, raised, output, panicked>>
    BY <1>5 DEF vars
  <2> QED BY <2>1 DEF GuestInv, Interrupted, Counted, Pending
<1> QED BY <1>3, <1>4, <1>5 DEF Next

\* However often and wherever a program is interrupted, the machine is at one of its
\* lines, with what the assertion of that line says, or in the handler on its way there.
THEOREM GuestHolds ==
  ASSUME Loaded
  PROVE  Spec => []GuestInv
<1>1. Init => GuestInv
  BY GuestStarts
<1>2. GuestInv /\ [Next]_vars => GuestInv'
  BY GuestKept
<1> QED BY <1>1, <1>2, PTL DEF Spec

\* No interrupt comes before its mode is set, although it is set after EI.
THEOREM ModeInTime ==
  ASSUME Loaded
  PROVE  Spec => []NoUnimplementedMode
<1>1. GuestInv => NoUnimplementedMode
  BY DEF GuestInv, NoUnimplementedMode
<1> QED BY <1>1, GuestHolds, PTL

\* The registers and the memory keep their widths, and every address that the programs
\* and the handler use is one of a cell that they have (cpu/mod.rs:79-102): here with
\* the memory of the guests, in CpuTyped with a memory of any contents.
THEOREM GuestsTyped ==
  ASSUME Loaded
  PROVE  Spec => []CpuTypeOK
<1>1. ASSUME GuestInv PROVE CpuTypeOK
  <2>1. cpu \in CpuState
    <3>1. PICK u \in CpuState, v \in Store : (cpu = u /\ mem = v) \/ Interrupted(u, v)
      BY <1>1 DEF GuestInv
    <3>2. Interrupted(u, v) => cpu \in CpuState
      BY DEF Interrupted, Serving
    <3> QED BY <3>1, <3>2
  <2>2. DOMAIN mem = Cells /\ \A w \in Cells : mem[w] \in Byte
    BY <1>1 DEF GuestInv, Store
  <2>3. \A w \in Cells : w \in Words
    BY DEF Cells, Text, Ticks, Stack, Words
  <2>4. \A w \in DOMAIN mem : w \in Words /\ mem[w] \in Byte
    BY <2>2, <2>3
  <2>5. /\ guest \in Guests /\ line \in BOOLEAN /\ raised \in 0 .. Raises
        /\ output \in Seq([port : Byte, data : Byte]) /\ panicked \in BOOLEAN
    BY <1>1 DEF GuestInv
  <2> QED BY <2>1, <2>4, <2>5, Zenon DEF CpuTypeOK
<1> QED BY <1>1, GuestHolds, PTL

\* How deep a program stacks.
LEMMA Depths ==
  ASSUME NEW g, g.program \in Programs, NEW u, NEW v, NEW o, Asserted(g, u, v, o)
  PROVE  \/ u.SP = 0
         \/ u.SP = 65534 /\ Deepest[g.program] \in {2, 4}
         \/ u.SP = 65532 /\ Deepest[g.program] = 4
<1>1. BootAt(g, u, v, o) => u.SP = 0
  BY DEF BootAt
<1>2. HelloAt(g, u, v, o) => u.SP \in {0, 65534}
  BY DEF HelloAt
<1>3. HexAt(g, u, v, o) => u.SP \in {0, 65534, 65532}
  BY DEF HexAt
<1>4. /\ CopyingAt(g, u, v, o) => u.SP = 0
      /\ FillingAt(g, u, v, o) => u.SP = 0
      /\ BlocksAt(g, u, v, o) => u.SP = 0
      /\ PortsAt(g, u, v, o) => u.SP = 0
  BY DEF CopyingAt, FillingAt, BlocksAt, PortsAt
<1>5. StackingAt(g, u, v, o) => u.SP \in {0, 65534, 65532}
  BY DEF StackingAt
<1>6. /\ MultiplyAt(g, u, v, o) => u.SP = 0
      /\ BitsAt(g, u, v, o) => u.SP = 0
      /\ IndexedAt(g, u, v, o) => u.SP = 0
  BY DEF MultiplyAt, BitsAt, IndexedAt
<1>7. CriticalAt(g, u, v, o) => u.SP \in {0, 65534}
  BY DEF CriticalAt
<1>8. /\ Deepest["hello"] = 2 /\ Deepest["hex"] = 4 /\ Deepest["stacking"] = 4
      /\ Deepest["critical"] = 2
  BY DEF Deepest
<1> DEFINE Goal == \/ u.SP = 0
                   \/ u.SP = 65534 /\ Deepest[g.program] \in {2, 4}
                   \/ u.SP = 65532 /\ Deepest[g.program] = 4
<1>9. ProgramAt(g, u, v, o) => Goal
  <2>1. /\ g.program = "hello" /\ HelloAt(g, u, v, o) => Goal
        /\ g.program = "hex" /\ HexAt(g, u, v, o) => Goal
        /\ g.program = "stacking" /\ StackingAt(g, u, v, o) => Goal
        /\ g.program = "critical" /\ CriticalAt(g, u, v, o) => Goal
    BY <1>2, <1>3, <1>5, <1>7, <1>8
  <2>2. u.SP = 0 => Goal
    OBVIOUS
  <2> HIDE DEF Goal
  <2> QED BY <1>4, <1>6, <2>1, <2>2, Which, ProgramNames
<1>10. BootAt(g, u, v, o) => Goal
  BY <1>1
<1> HIDE DEF Goal
<1>11. Goal
  BY <1>9, <1>10 DEF Asserted
<1> QED BY <1>11 DEF Goal

\* The handler never interrupts itself: on the stack are at most six bytes more than
\* the program has there.
THEOREM StackKept ==
  ASSUME Loaded
  PROVE  Spec => []StackBounded
<1>1. ASSUME GuestInv PROVE StackBounded
  <2>1. PICK u \in CpuState, v \in Store :
          /\ Sane(u) /\ Asserted(guest, u, v, output)
          /\ (cpu = u /\ mem = v) \/ Interrupted(u, v)
          /\ Countable => Counted(u)
    BY <1>1 DEF GuestInv
  <2>2. guest.program \in Programs
    BY <1>1, GuestIs DEF GuestInv
  <2>3. \/ u.SP = 0
        \/ u.SP = 65534 /\ Deepest[guest.program] \in {2, 4}
        \/ u.SP = 65532 /\ Deepest[guest.program] = 4
    BY <2>1, <2>2, Depths
  <2>4. PICK d : d = Deepest[guest.program]
    OBVIOUS
  <2>5. d \in {0, 2, 4}
    BY <2>2, <2>4, ProgramNames DEF Deepest
  <2>6. CASE cpu = u
    BY <2>3, <2>4, <2>5, <2>6 DEF StackBounded
  <2>7. CASE Interrupted(u, v)
    <3>1. cpu.SP = Top(u) - Depth(cpu.PC)
      BY <2>7 DEF Interrupted, Serving
    <3>2. PICK k \in {2, 4, 6} : k = Depth(cpu.PC)
      BY DEF Depth
    <3>3. \/ Top(u) = 65536
          \/ Top(u) = 65534 /\ d \in {2, 4}
          \/ Top(u) = 65532 /\ d = 4
      BY <2>3, <2>4 DEF Top
    <3> QED BY <2>4, <2>5, <3>1, <3>2, <3>3 DEF StackBounded
  <2> QED BY <2>1, <2>6, <2>7
<1> QED BY <1>1, GuestHolds, PTL

\* A machine that has halted is at the last line of its program.
LEMMA AtEnd ==
  ASSUME Loaded, GuestInv, cpu.halted
  PROVE  /\ guest \in Guests /\ guest.program \in Programs /\ mem \in Store /\ line = FALSE
         /\ output \in Signals
         /\ Sane(cpu) /\ ProgramAt(guest, cpu, mem, output) /\ (Countable => Counted(cpu))
<1>1. PICK u \in CpuState, v \in Store :
        /\ Sane(u) /\ Asserted(guest, u, v, output)
        /\ (cpu = u /\ mem = v) \/ Interrupted(u, v)
        /\ Countable => Counted(u)
  BY DEF GuestInv
<1>2. ~Interrupted(u, v)
  BY DEF Interrupted, Serving
<1>3. cpu = u /\ mem = v
  BY <1>1, <1>2
<1>4. ~BootAt(guest, u, v, output)
  BY <1>3 DEF BootAt
<1>5. Sane(cpu) /\ ProgramAt(guest, cpu, mem, output) /\ (Countable => Counted(cpu))
  BY <1>1, <1>3, <1>4 DEF Asserted
<1>6. guest \in Guests /\ mem \in Store /\ line = FALSE /\ output \in Signals
  BY DEF GuestInv, Signals
<1> QED BY <1>5, <1>6, GuestIs

\* Every interrupt raised is served exactly once.
THEOREM ServedOnce ==
  ASSUME Loaded, Countable
  PROVE  Spec => []EachServedOnce
<1>1. ASSUME GuestInv PROVE EachServedOnce
  <2>1. SUFFICES ASSUME cpu.halted PROVE mem[Ticks] = raised + Own
    BY DEF EachServedOnce
  <2>2. /\ guest.program \in Programs /\ mem \in Store /\ line = FALSE /\ Counted(cpu)
        /\ ProgramAt(guest, cpu, mem, output)
    BY <1>1, <2>1, AtEnd, GuestIs
  <2>3. Counts(guest, cpu) = Own
    <3>1. guest.program = "critical" => cpu.PC = 274
      <4>1. guest.program = "critical" => CriticalAt(guest, cpu, mem, output)
        BY <2>2, Which
      <4> QED BY <2>1, <4>1 DEF CriticalAt
    <3> QED BY <3>1 DEF Counts, Own
  <2>4. mem[Ticks] + 0 = raised + Own
    BY <2>2, <2>3 DEF Counted, Pending
  <2>5. mem[Ticks] \in Int
    <3>1. mem[Ticks] \in Byte
      BY <2>2 DEF Store, Cells
    <3> QED BY <3>1, ByteIs
  <2> QED BY <2>4, <2>5
<1> QED BY <1>1, GuestHolds, PTL

\* What a program has sent is what the assertions say.
LEMMA Sent3 ==
  ASSUME NEW b1, NEW b2, NEW b3, output \in Signals, Sends(output, 3, b1, b2, b3)
  PROVE  Sent = <<b1, b2, b3>>
<1>1. /\ output \in Seq([port : Byte, data : Byte]) /\ Len(output) = 3
      /\ output[1].data = b1 /\ output[2].data = b2 /\ output[3].data = b3
  BY DEF Sends, Signals
<1>2. DOMAIN output = 1 .. 3
  BY <1>1
<1>3. Sent = [k \in 1 .. 3 |-> output[k].data]
  BY <1>2 DEF Sent
<1> QED BY <1>1, <1>3

\* A word in two bytes of the data.
LEMMA HeldWord ==
  ASSUME NEW c \in Nat, c < 65535, NEW w \in Words, Holds(mem, c, w)
  PROVE  WideAt(c) = w
<1>1. Plus(c, 1) = c + 1
  <2>1. PICK d \in Nat : d = c + 1 /\ d < 65536
    OBVIOUS
  <2>2. d % 65536 = d
    BY <2>1
  <2> QED BY <2>1, <2>2 DEF Plus
<1>2. mem[c] = Low(w) /\ mem[c + 1] = High(w)
  BY DEF Holds
<1>3. Low(w) \in Int /\ High(w) \in Int /\ w = 256 * High(w) + Low(w)
  BY HalvesOfWord, ByteIs
<1> QED BY <1>1, <1>2, <1>3 DEF WideAt

\* A product of two bytes is a word.
LEMMA ProductIsWord ==
  ASSUME NEW x \in Byte, NEW y \in Byte
  PROVE  x * y \in Words
<1>1. x \in Int /\ 0 <= x /\ x <= 255 /\ y \in Int /\ 0 <= y /\ y <= 255
  BY ByteIs
<1>2. x * y \in Int /\ 0 <= x * y /\ x * y <= 255 * y
  BY <1>1
<1> QED BY <1>1, <1>2, WordIs

\* What a program has sent is what the assertions say.
LEMMA Sent2 ==
  ASSUME NEW b1, NEW b2, NEW b3, output \in Signals, Sends(output, 2, b1, b2, b3)
  PROVE  Sent = <<b1, b2>>
<1>1. /\ output \in Seq([port : Byte, data : Byte]) /\ Len(output) = 2
      /\ output[1].data = b1 /\ output[2].data = b2
  BY DEF Sends, Signals
<1>2. DOMAIN output = 1 .. 2
  BY <1>1
<1>3. Sent = [k \in 1 .. 2 |-> output[k].data]
  BY <1>2 DEF Sent
<1> QED BY <1>1, <1>3

\* Four bytes sent.
LEMMA Sent4 ==
  ASSUME NEW b1, NEW b2, NEW b3, NEW b4, output \in Signals, Len(output) = 4,
         output[1].data = b1, output[2].data = b2, output[3].data = b3, output[4].data = b4
  PROVE  Sent = <<b1, b2, b3, b4>>
<1>1. DOMAIN output = 1 .. 4
  BY DEF Signals
<1>2. Sent = [k \in 1 .. 4 |-> output[k].data]
  BY <1>1 DEF Sent
<1> QED BY <1>2

\* What each program has done at its last line is its promise.
LEMMA AtLast ==
  ASSUME guest.program \in Programs, guest.x \in Byte, guest.y \in Byte, output \in Signals,
         mem \in Store, cpu.halted, Sane(cpu), ProgramAt(guest, cpu, mem, output)
  PROVE  Promise(guest)
<1>1. ASSUME guest.program = "hello" PROVE Promise(guest)
  <2>1. HelloAt(guest, cpu, mem, output)
    BY <1>1, Which
  <2>2. Sends(output, 3, guest.x, guest.y, 111)
    BY <2>1 DEF HelloAt
  <2>3. Sent = <<guest.x, guest.y, 111>>
    BY <2>2, Sent3
  <2> QED BY <1>1, <2>3 DEF Promise
<1>2. ASSUME guest.program = "hex" PROVE Promise(guest)
  <2>1. HexAt(guest, cpu, mem, output)
    BY <1>2, Which
  <2>2. Sends(output, 2, Digit(guest.x \div 16), Digit(guest.x % 16), 0)
    BY <2>1 DEF HexAt
  <2>3. Sent = <<Digit(guest.x \div 16), Digit(guest.x % 16)>>
    BY <2>2, Sent2
  <2> QED BY <1>2, <2>3 DEF Promise
<1>3. ASSUME guest.program = "copying" PROVE Promise(guest)
  <2>1. CopyingAt(guest, cpu, mem, output)
    BY <1>3, Which
  <2>2. /\ mem[Copy] = mem[Text] /\ mem[Copy + 1] = mem[Text + 1]
        /\ mem[Copy + 2] = mem[Text + 2]
    BY <2>1 DEF CopyingAt
  <2>3. \A k \in 0 .. 2 : mem[Copy + k] = mem[Text + k]
    BY <2>2
  <2> QED BY <1>3, <2>3 DEF Promise
<1>4. ASSUME guest.program = "filling" PROVE Promise(guest)
  <2>1. FillingAt(guest, cpu, mem, output)
    BY <1>4, Which
  <2>2. Sends(output, 3, mem[Text], mem[Text + 1], mem[Text + 2])
    BY <2>1 DEF FillingAt
  <2>3. Sent = <<mem[Text], mem[Text + 1], mem[Text + 2]>>
    BY <2>2, Sent3
  <2>4. <<mem[Text], mem[Text + 1], mem[Text + 2]>> = [k \in 1 .. 3 |-> mem[Text + k - 1]]
    OBVIOUS
  <2> QED BY <1>4, <2>3, <2>4 DEF Promise
<1>5. ASSUME guest.program = "blocks" PROVE Promise(guest)
  <2>1. BlocksAt(guest, cpu, mem, output)
    BY <1>5, Which
  <2> DEFINE found == IF guest.x = 111 THEN 1 ELSE IF guest.y = 111 THEN 2 ELSE 3
  <2>2. /\ mem[Text - 1] = guest.x /\ mem[Text] = guest.x
        /\ mem[Text + 1] = guest.y /\ mem[Text + 2] = 111
    BY <2>1 DEF BlocksAt
  <2>3. Holds(mem, Copy, Text + found)
    BY <2>1 DEF BlocksAt
  <2>4. WideAt(Copy) = Text + found
    <3>1. Text + found \in Words
      BY WordIs
    <3> HIDE DEF found
    <3> QED BY <2>3, <3>1, HeldWord
  <2>5. WideAt(Copy) = IF guest.x = 111 THEN Text + 1
                       ELSE IF guest.y = 111 THEN Text + 2 ELSE Text + 3
    BY <2>4
  <2> QED BY <1>5, <2>2, <2>5 DEF Promise
<1>6. ASSUME guest.program = "ports" PROVE Promise(guest)
  <2>1. PortsAt(guest, cpu, mem, output)
    BY <1>6, Which
  <2>2. /\ Len(output) = 4 /\ output[1].data = mem[Text] /\ output[2].data = mem[Text + 1]
        /\ output[3].data = mem[Text + 2] /\ output[4].data = mem[Copy]
    BY <2>1 DEF PortsAt
  <2>3. Sent = <<mem[Text], mem[Text + 1], mem[Text + 2], mem[Copy]>>
    BY <2>2, Sent4
  <2> QED BY <1>6, <2>3 DEF Promise
<1>7. ASSUME guest.program = "stacking" PROVE Promise(guest)
  <2>1. StackingAt(guest, cpu, mem, output)
    BY <1>7, Which
  <2>2. Holds(mem, Copy, 22136) /\ Holds(mem, Copy + 2, 4660)
    BY <2>1 DEF StackingAt
  <2>3. 22136 \in Words /\ 4660 \in Words
    BY WordIs
  <2>4. WideAt(Copy) = 22136 /\ WideAt(Copy + 2) = 4660
    BY <2>2, <2>3, HeldWord
  <2> QED BY <1>7, <2>4 DEF Promise
<1>8. ASSUME guest.program = "multiply" PROVE Promise(guest)
  <2>1. MultiplyAt(guest, cpu, mem, output)
    BY <1>8, Which
  <2>2. Holds(mem, Copy, guest.x * guest.y)
    BY <2>1 DEF MultiplyAt
  <2>3. guest.x * guest.y \in Words
    BY ProductIsWord
  <2>4. WideAt(Copy) = guest.x * guest.y
    BY <2>2, <2>3, HeldWord
  <2> QED BY <1>8, <2>4 DEF Promise
<1>9. ASSUME guest.program = "bits" PROVE Promise(guest)
  <2>1. BitsAt(guest, cpu, mem, output)
    BY <1>9, Which
  <2>2. mem[Copy] = Kept(guest.x) \div 16 /\ mem[Text] = 16 * (Kept(guest.x) % 16)
    BY <2>1 DEF BitsAt
  <2> QED BY <1>9, <2>2 DEF Promise
<1>10. ASSUME guest.program = "critical" PROVE Promise(guest)
  <2>1. CriticalAt(guest, cpu, mem, output)
    BY <1>10, Which
  <2>2. cpu.iff1 /\ cpu.iff2
    BY <2>1 DEF CriticalAt, Sane
  <2> QED BY <1>10, <2>2 DEF Promise
<1>11. ASSUME guest.program = "indexed" PROVE Promise(guest)
  <2>1. IndexedAt(guest, cpu, mem, output)
    BY <1>11, Which
  <2> DEFINE d == (guest.x + 256 * guest.y - (guest.y + 256 * 222)) % 65536
  <2>2. /\ mem[Copy] = (guest.y - guest.x) % 256 /\ mem[Copy + 1] = 222
        /\ mem[Text] = guest.x /\ mem[Text + 1] = guest.y /\ mem[Text + 2] = 222
        /\ Holds(mem, Copy + 2, d)
    BY <2>1 DEF IndexedAt
  <2>3. /\ WideAt(Text) = guest.x + 256 * guest.y
        /\ WideAt(Text + 1) = guest.y + 256 * 222
    <3>1. Plus(Text, 1) = Text + 1 /\ Plus(Text + 1, 1) = Text + 2
      BY DEF Plus
    <3> QED BY <2>2, <3>1 DEF WideAt
  <2>4. d \in Words
    <3>1. PICK n \in Int : n = guest.x + 256 * guest.y - (guest.y + 256 * 222)
      BY ByteIs
    <3>2. n % 65536 \in Words
      BY Wrapped, WordIs
    <3> QED BY <3>1, <3>2
  <2>5. WideAt(Copy + 2) = d
    <3> HIDE DEF d
    <3> QED BY <2>2, <2>4, HeldWord
  <2>6. WideAt(Copy + 2) = (WideAt(Text) - WideAt(Text + 1)) % 65536
    <3>1. guest.x \in Int /\ guest.y \in Int
      BY ByteIs
    <3>2. PICK p, q \in Int : p = guest.x + 256 * guest.y /\ q = guest.y + 256 * 222
      BY <3>1
    <3>3. p - q = guest.x + 256 * guest.y - (guest.y + 256 * 222)
      BY <3>1, <3>2
    <3>4. d = (p - q) % 65536
      BY <3>1, <3>3
    <3> HIDE DEF d
    <3> QED BY <2>3, <2>5, <3>2, <3>4
  <2> QED BY <1>11, <2>2, <2>6 DEF Promise
<1> QED BY <1>1, <1>2, <1>3, <1>4, <1>5, <1>6, <1>7, <1>8, <1>9, <1>10, <1>11, ProgramNames

\* A program that has halted has done what it promises, wherever it was interrupted.
THEOREM PromisesKept ==
  ASSUME Loaded
  PROVE  Spec => []PromiseKept
<1>1. ASSUME GuestInv PROVE PromiseKept
  <2>1. SUFFICES ASSUME cpu.halted PROVE Promise(guest)
    BY DEF PromiseKept
  <2>2. /\ guest \in Guests /\ guest.program \in Programs /\ mem \in Store
        /\ output \in Signals /\ Sane(cpu) /\ ProgramAt(guest, cpu, mem, output)
    BY <1>1, <2>1, AtEnd
  <2>3. guest.x \in Byte /\ guest.y \in Byte
    BY <2>2, GuestIs
  <2> QED BY <2>1, <2>2, <2>3, AtLast
<1> QED BY <1>1, GuestHolds, PTL
=============================================================================
