----------------------------- MODULE AluProofs -----------------------------
(***************************************************************************)
(* The arithmetic of the CPU, for every two bytes, every two words and     *)
(* every carry: what the run checks by trying them, and of words more.     *)
(***************************************************************************)
EXTENDS AluLaws, TLAPS

\* The sets of numbers, once and for all.
LEMMA ByteIs == \A b : b \in Byte <=> b \in Int /\ 0 <= b /\ b <= 255
  BY DEF Byte

\* A word, with its bounds as numerals.
LEMMA WordIs == \A w : w \in Words <=> w \in Int /\ 0 <= w /\ w <= 65535
<1>1. 2 ^ 16 = 65536
  OBVIOUS
<1> QED BY <1>1 DEF Words

\* The tops of a byte and of a word are their signs, and the bits from the ninth on
\* of a word are those of its high byte.
LEMMA ByteBits ==
  ASSUME NEW b \in Byte
  PROVE  /\ Bit(b, 7) = IF b > 127 THEN 1 ELSE 0
         /\ Bit(b, 4) = (b \div 16) % 2
<1>1. 2 ^ 7 = 128 /\ 2 ^ 4 = 16
  OBVIOUS
<1> QED BY <1>1, ByteIs DEF Bit

\* Sign and half carry of a word are those of its high byte.
LEMMA WordBits ==
  ASSUME NEW high \in Byte, NEW low \in Byte
  PROVE  /\ Bit(256 * high + low, 15) = Bit(high, 7)
         /\ Bit(256 * high + low, 12) = Bit(high, 4)
<1>1. 2 ^ 15 = 32768 /\ 2 ^ 12 = 4096
  OBVIOUS
<1>2. (256 * high + low) \div 32768 = IF high > 127 THEN 1 ELSE 0
  BY ByteIs
<1>3. (256 * high + low) \div 4096 = high \div 16
  BY ByteIs
<1> QED BY <1>1, <1>2, <1>3, ByteBits DEF Bit

\* A word is its two bytes.
LEMMA Halves ==
  ASSUME NEW w \in Words
  PROVE  /\ w % 256 \in Byte
         /\ w \div 256 \in Byte
         /\ w = 256 * (w \div 256) + (w % 256)
<1>1. w \in Int /\ 0 <= w /\ w <= 65535
  BY WordIs
<1>2. PICK low \in Int, high \in Int : low = w % 256 /\ high = w \div 256
  BY <1>1
<1>3. 0 <= low /\ low <= 255 /\ w = 256 * high + low
  BY <1>1, <1>2
<1>4. 0 <= high /\ high <= 255
  BY <1>1, <1>3
<1> QED BY <1>2, <1>3, <1>4, ByteIs

\* A sum that leaves a byte or a word does so by one turn.
LEMMA ByteTurn ==
  ASSUME NEW n \in Int, -256 <= n, n <= 511
  PROVE  /\ n % 256 \in Byte
         /\ n % 256 = IF n < 0 THEN n + 256 ELSE IF n > 255 THEN n - 256 ELSE n
  BY ByteIs

\* What is left of a number that is out of range by less than once.
LEMMA WordTurn ==
  ASSUME NEW n \in Int, -65536 <= n, n <= 131071
  PROVE  n % 65536 = IF n < 0 THEN n + 65536 ELSE IF n > 65535 THEN n - 65536 ELSE n
  OBVIOUS

\* The carry, read off the flags.
LEMMA CarryIs ==
  ASSUME NEW flags
  PROVE  /\ Carry(flags) \in {0, 1}
         /\ Carry(flags) = 1 <=> "C" \in flags
  BY DEF Carry

\* The two additions and subtractions, on a word and on its bytes: how the sums and
\* carries hang together.
LEMMA Sums ==
  ASSUME NEW lh \in Byte, NEW ll \in Byte, NEW rh \in Byte, NEW rl \in Byte, NEW c \in {0, 1},
         NEW carry \in {0, 1}, carry = 1 <=> ll + rl + c > 255
  PROVE  LET low == (ll + rl + c) % 256
             high == (lh + rh + carry) % 256
             sum == (256 * lh + ll) + (256 * rh + rl) + c
         IN  /\ low \in Byte /\ high \in Byte
             /\ sum % 65536 = 256 * high + low
             /\ sum > 65535 <=> lh + rh + carry > 255
<1> DEFINE low == (ll + rl + c) % 256
           high == (lh + rh + carry) % 256
           sum == (256 * lh + ll) + (256 * rh + rl) + c
<1>1. low = ll + rl + c - 256 * carry /\ low \in Byte
  BY ByteIs, ByteTurn
<1>2. PICK turn \in {0, 1} : /\ high = lh + rh + carry - 256 * turn
                             /\ turn = 1 <=> lh + rh + carry > 255
  BY ByteIs, ByteTurn
<1>3. high \in Byte
  BY ByteIs, ByteTurn
<1>4. low \in Int /\ high \in Int
  BY <1>1, <1>3, ByteIs
<1> HIDE DEF low, high
<1>5. sum = 256 * high + low + 65536 * turn
  BY <1>1, <1>2, <1>4, ByteIs
<1>6. 0 <= 256 * high + low /\ 256 * high + low <= 65535
  BY <1>1, <1>3, ByteIs
<1>7. sum % 65536 = 256 * high + low /\ (sum > 65535 <=> turn = 1)
  <2> HIDE DEF sum
  <2> QED BY <1>4, <1>5, <1>6, WordTurn
<1>8. sum % 65536 = 256 * high + low /\ (sum > 65535 <=> lh + rh + carry > 255)
  BY <1>2, <1>7
<1> QED BY <1>1, <1>3, <1>8 DEF low, high

\* A difference of words is one of low bytes and one of high bytes with the borrow.
LEMMA Differences ==
  ASSUME NEW lh \in Byte, NEW ll \in Byte, NEW rh \in Byte, NEW rl \in Byte, NEW c \in {0, 1},
         NEW borrow \in {0, 1}, borrow = 1 <=> ll - rl - c < 0
  PROVE  LET low == (ll - rl - c) % 256
             high == (lh - rh - borrow) % 256
             difference == (256 * lh + ll) - (256 * rh + rl) - c
         IN  /\ low \in Byte /\ high \in Byte
             /\ difference % 65536 = 256 * high + low
             /\ difference < 0 <=> lh - rh - borrow < 0
<1> DEFINE low == (ll - rl - c) % 256
           high == (lh - rh - borrow) % 256
           difference == (256 * lh + ll) - (256 * rh + rl) - c
<1>1. low = ll - rl - c + 256 * borrow /\ low \in Byte
  BY ByteIs, ByteTurn
<1>2. PICK turn \in {0, 1} : /\ high = lh - rh - borrow + 256 * turn
                             /\ turn = 1 <=> lh - rh - borrow < 0
  BY ByteIs, ByteTurn
<1>3. high \in Byte
  BY ByteIs, ByteTurn
<1>4. low \in Int /\ high \in Int
  BY <1>1, <1>3, ByteIs
<1> HIDE DEF low, high
<1>5. difference = 256 * high + low - 65536 * turn
  BY <1>1, <1>2, <1>4, ByteIs
<1>6. 0 <= 256 * high + low /\ 256 * high + low <= 65535
  BY <1>1, <1>3, ByteIs
<1>7. difference % 65536 = 256 * high + low /\ (difference < 0 <=> turn = 1)
  <2> HIDE DEF difference
  <2> QED BY <1>4, <1>5, <1>6, WordTurn
<1>8. difference % 65536 = 256 * high + low /\ (difference < 0 <=> lh - rh - borrow < 0)
  BY <1>2, <1>7
<1> QED BY <1>1, <1>3, <1>8 DEF low, high

\* Flags that differ in the condition for zero alone.
LEMMA SameFlags ==
  ASSUME NEW N, NEW S, NEW C, NEW P, NEW H, NEW Z1, NEW Z2,
         N \subseteq {"N"}, S \subseteq {"S"}, C \subseteq {"C"}, P \subseteq {"PV"},
         H \subseteq {"H"}, Z1 \subseteq {"Z"}, Z2 \subseteq {"Z"}
  PROVE  LET one == N \cup (Z1 \cup S) \cup C \cup P \cup H
             other == N \cup (Z2 \cup S) \cup C \cup P \cup H
         IN  /\ one \ {"Z"} = other \ {"Z"}
             /\ "Z" \in one <=> "Z" \in Z1
             /\ "Z" \in other <=> "Z" \in Z2
<1> DEFINE one == N \cup (Z1 \cup S) \cup C \cup P \cup H
           other == N \cup (Z2 \cup S) \cup C \cup P \cup H
<1>1. one \ {"Z"} = other \ {"Z"}
  OBVIOUS
<1>2. ("Z" \in one <=> "Z" \in Z1) /\ ("Z" \in other <=> "Z" \in Z2)
  OBVIOUS
<1> QED BY <1>1, <1>2

\* A sum of two words is two sums of bytes, for every two words and carry, with
\* every flag (cpu/mod.rs:1529-1550).
LEMMA SumOfBytes ==
  ASSUME NEW lhs \in Words, NEW rhs \in Words, NEW flags
  PROVE  IsTwoBytes("adc", AddCarryWide(lhs, rhs, flags), lhs, rhs, flags)
<1> DEFINE lh == lhs \div 256
           ll == lhs % 256
           rh == rhs \div 256
           rl == rhs % 256
           c == Carry(flags)
           low == AddCarry(ll, rl, c)
           carry == Carry(low.f)
           high == AddCarry(lh, rh, carry)
           sum == lhs + rhs + c
           w == sum % 65536
           wide == AddCarryWide(lhs, rhs, flags)
<1>1. \A l, r, g : Arithmetic("adc", l, r, g) = AddCarry(l, r, Carry(g))
  BY DEF Arithmetic
<1>2. /\ lh \in Byte /\ ll \in Byte /\ rh \in Byte /\ rl \in Byte
      /\ lhs = 256 * lh + ll /\ rhs = 256 * rh + rl
  BY Halves
<1>3. c \in {0, 1} /\ carry \in {0, 1} /\ (carry = 1 <=> "C" \in low.f)
  BY CarryIs
<1>4. low.x = (ll + rl + c) % 256 /\ high.x = (lh + rh + carry) % 256 /\ wide.x = w
  BY DEF AddCarry, AddCarryWide
<1>5. "C" \in low.f <=> ll + rl + c > 255
  BY DEF AddCarry, SignZero, When
<1> HIDE DEF lh, ll, rh, rl, c, carry
<1>6. /\ low.x \in Byte /\ high.x \in Byte /\ w = 256 * high.x + low.x
      /\ sum > 65535 <=> lh + rh + carry > 255
  BY <1>2, <1>3, <1>4, <1>5, Sums
<1>7. /\ Bit(lhs, 15) = Bit(lh, 7) /\ Bit(rhs, 15) = Bit(rh, 7) /\ Bit(w, 15) = Bit(high.x, 7)
      /\ Bit(lhs, 12) = Bit(lh, 4) /\ Bit(rhs, 12) = Bit(rh, 4) /\ Bit(w, 12) = Bit(high.x, 4)
  BY <1>2, <1>6, WordBits
<1>8. /\ wide.f \ {"Z"} = high.f \ {"Z"}
      /\ "Z" \in wide.f <=> w = 0
      /\ "Z" \in high.f <=> high.x = 0
  <2> DEFINE S == When("S", Bit(high.x, 7) = 1)
             C == When("C", lh + rh + carry > 255)
             P == When("PV", Bit(lh, 7) = Bit(rh, 7) /\ Bit(rh, 7) # Bit(high.x, 7))
             H == When("H", CarryInto(4, lh, rh, high.x))
             Z1 == When("Z", w = 0)
             Z2 == When("Z", high.x = 0)
  <2>1. /\ S \subseteq {"S"} /\ C \subseteq {"C"} /\ P \subseteq {"PV"} /\ H \subseteq {"H"}
        /\ Z1 \subseteq {"Z"} /\ Z2 \subseteq {"Z"}
    BY DEF When
  <2>2. ("Z" \in Z1 <=> w = 0) /\ ("Z" \in Z2 <=> high.x = 0)
    BY DEF When
  <2>3. When("C", sum > 65535) = C
    BY <1>6 DEF When
  <2>4. /\ When("S", Bit(w, 15) = 1) = S
        /\ When("PV", Bit(lhs, 15) = Bit(rhs, 15) /\ Bit(rhs, 15) # Bit(w, 15)) = P
        /\ When("H", CarryInto(12, lhs, rhs, w)) = H
    BY <1>7 DEF CarryInto
  <2>5. wide.f = (Z1 \cup S) \cup C \cup P \cup H
    BY <2>3, <2>4 DEF AddCarryWide, SignZeroWide, c
  <2>6. high.f = (Z2 \cup S) \cup C \cup P \cup H
    BY DEF AddCarry, SignZero
  <2> HIDE DEF S, C, P, H, Z1, Z2
  <2>7. LET one == {} \cup (Z1 \cup S) \cup C \cup P \cup H
            other == {} \cup (Z2 \cup S) \cup C \cup P \cup H
        IN  /\ one \ {"Z"} = other \ {"Z"}
            /\ "Z" \in one <=> "Z" \in Z1
            /\ "Z" \in other <=> "Z" \in Z2
    BY <2>1, SameFlags
  <2> HIDE DEF w, wide, high
  <2> QED BY <2>2, <2>5, <2>6, <2>7
<1>9. "Z" \in low.f <=> low.x = 0
  BY DEF AddCarry, SignZero, When
<1>10. w = 0 <=> low.x = 0 /\ high.x = 0
  BY <1>6, ByteIs
<1>11. /\ wide.x = 256 * high.x + low.x
       /\ wide.f \ {"Z"} = high.f \ {"Z"}
       /\ "Z" \in wide.f <=> "Z" \in low.f /\ "Z" \in high.f
  BY <1>4, <1>6, <1>8, <1>9, <1>10
<1> QED BY <1>1, <1>11 DEF IsTwoBytes, lh, ll, rh, rl, c, carry

\* A difference of two words is two differences of bytes, for every two words and carry, with
\* every flag (cpu/mod.rs:1461-1482).
LEMMA DifferenceOfBytes ==
  ASSUME NEW lhs \in Words, NEW rhs \in Words, NEW flags
  PROVE  IsTwoBytes("sbc", SubCarryWide(lhs, rhs, flags), lhs, rhs, flags)
<1> DEFINE lh == lhs \div 256
           ll == lhs % 256
           rh == rhs \div 256
           rl == rhs % 256
           c == Carry(flags)
           low == SubCarry(ll, rl, c)
           borrow == Carry(low.f)
           high == SubCarry(lh, rh, borrow)
           difference == lhs - rhs - c
           w == difference % 65536
           wide == SubCarryWide(lhs, rhs, flags)
<1>1. \A l, r, g : Arithmetic("sbc", l, r, g) = SubCarry(l, r, Carry(g))
  BY DEF Arithmetic
<1>2. /\ lh \in Byte /\ ll \in Byte /\ rh \in Byte /\ rl \in Byte
      /\ lhs = 256 * lh + ll /\ rhs = 256 * rh + rl
  BY Halves
<1>3. c \in {0, 1} /\ borrow \in {0, 1} /\ (borrow = 1 <=> "C" \in low.f)
  BY CarryIs
<1>4. low.x = (ll - rl - c) % 256 /\ high.x = (lh - rh - borrow) % 256 /\ wide.x = w
  BY DEF SubCarry, SubCarryWide
<1>5. "C" \in low.f <=> ll - rl - c < 0
  BY DEF SubCarry, SignZero, When
<1> HIDE DEF lh, ll, rh, rl, c, borrow
<1>6. /\ low.x \in Byte /\ high.x \in Byte /\ w = 256 * high.x + low.x
      /\ difference < 0 <=> lh - rh - borrow < 0
  BY <1>2, <1>3, <1>4, <1>5, Differences
<1>7. /\ Bit(lhs, 15) = Bit(lh, 7) /\ Bit(rhs, 15) = Bit(rh, 7) /\ Bit(w, 15) = Bit(high.x, 7)
      /\ Bit(lhs, 12) = Bit(lh, 4) /\ Bit(rhs, 12) = Bit(rh, 4) /\ Bit(w, 12) = Bit(high.x, 4)
  BY <1>2, <1>6, WordBits
<1>8. /\ wide.f \ {"Z"} = high.f \ {"Z"}
      /\ "Z" \in wide.f <=> w = 0
      /\ "Z" \in high.f <=> high.x = 0
  <2> DEFINE S == When("S", Bit(high.x, 7) = 1)
             C == When("C", lh - rh - borrow < 0)
             P == When("PV", Bit(lh, 7) # Bit(rh, 7) /\ Bit(high.x, 7) # Bit(lh, 7))
             H == When("H", CarryInto(4, lh, rh, high.x))
             Z1 == When("Z", w = 0)
             Z2 == When("Z", high.x = 0)
  <2>1. /\ S \subseteq {"S"} /\ C \subseteq {"C"} /\ P \subseteq {"PV"} /\ H \subseteq {"H"}
        /\ Z1 \subseteq {"Z"} /\ Z2 \subseteq {"Z"}
    BY DEF When
  <2>2. ("Z" \in Z1 <=> w = 0) /\ ("Z" \in Z2 <=> high.x = 0)
    BY DEF When
  <2>3. When("C", difference < 0) = C
    BY <1>6 DEF When
  <2>4. /\ When("S", Bit(w, 15) = 1) = S
        /\ When("PV", Bit(lhs, 15) # Bit(rhs, 15) /\ Bit(w, 15) # Bit(lhs, 15)) = P
        /\ When("H", CarryInto(12, lhs, rhs, w)) = H
    BY <1>7 DEF CarryInto
  <2>5. wide.f = {"N"} \cup (Z1 \cup S) \cup C \cup P \cup H
    BY <2>3, <2>4 DEF SubCarryWide, SignZeroWide, c
  <2>6. high.f = {"N"} \cup (Z2 \cup S) \cup C \cup P \cup H
    BY DEF SubCarry, SignZero
  <2> HIDE DEF S, C, P, H, Z1, Z2
  <2>7. LET one == {"N"} \cup (Z1 \cup S) \cup C \cup P \cup H
            other == {"N"} \cup (Z2 \cup S) \cup C \cup P \cup H
        IN  /\ one \ {"Z"} = other \ {"Z"}
            /\ "Z" \in one <=> "Z" \in Z1
            /\ "Z" \in other <=> "Z" \in Z2
    BY <2>1, SameFlags
  <2> HIDE DEF w, wide, high
  <2> QED BY <2>2, <2>5, <2>6, <2>7
<1>9. "Z" \in low.f <=> low.x = 0
  BY DEF SubCarry, SignZero, When
<1>10. w = 0 <=> low.x = 0 /\ high.x = 0
  BY <1>6, ByteIs
<1>11. /\ wide.x = 256 * high.x + low.x
       /\ wide.f \ {"Z"} = high.f \ {"Z"}
       /\ "Z" \in wide.f <=> "Z" \in low.f /\ "Z" \in high.f
  BY <1>4, <1>6, <1>8, <1>9, <1>10
<1> QED BY <1>1, <1>11 DEF IsTwoBytes, lh, ll, rh, rl, c, borrow

\* What the run checks for four second operands holds for every two words, whatever
\* the flags are: ADC and SBC of words are two byte operations, the carry of the low
\* one handed on to the high one (cpu/mod.rs:1461-1482, 1529-1550).
THEOREM WordArithmetic ==
  \A lhs, rhs \in Words, flags \in SUBSET Flags :
    /\ IsTwoBytes("adc", AddCarryWide(lhs, rhs, flags), lhs, rhs, flags)
    /\ IsTwoBytes("sbc", SubCarryWide(lhs, rhs, flags), lhs, rhs, flags)
  BY SumOfBytes, DifferenceOfBytes

\* ... and so the property of the run, in every state of it.
THEOREM WordsAgree == LawsSpec => []WordsAreTwoBytes
<1> DEFINE Operands == x \in Byte /\ y \in Byte /\ f \in SUBSET Flags
<1>1. LawsInit => Operands
  BY ByteIs DEF LawsInit, Flags
<1>2. Operands /\ [LawsNext]_laws => Operands'
  BY ByteTurn, ByteIs DEF LawsNext, laws
<1>3. Operands => WordsAreTwoBytes
  <2> SUFFICES ASSUME Operands PROVE WordsAreTwoBytes
    OBVIOUS
  <2>1. 256 * x + y \in Words
    BY ByteIs, WordIs
  <2> QED BY <2>1, WordArithmetic DEF WordsAreTwoBytes
<1> QED BY <1>1, <1>2, <1>3, PTL DEF LawsSpec

\* The value of a word in two's complement, and whether a number is one.
SignedWord(w) == IF w > 32767 THEN w - 65536 ELSE w
IsSignedWord(n) == -32768 <= n /\ n <= 32767

\* The sign of a word, and what is left of a number that wraps around.
LEMMA WordSign ==
  ASSUME NEW w \in Words
  PROVE  Bit(w, 15) = IF w > 32767 THEN 1 ELSE 0
<1>1. PICK high \in Byte, low \in Byte : w = 256 * high + low
  BY Halves
<1>2. Bit(w, 15) = IF high > 127 THEN 1 ELSE 0
  BY <1>1, WordBits, ByteBits
<1> QED BY <1>1, <1>2, ByteIs

\* The carry of a sum or difference of words is what its result lacks of the number
\* read without sign, and its overflow is set when the number read with sign does
\* not fit (cpu/mod.rs:1461-1482, 1529-1550).
THEOREM WordArithmeticExact ==
  \A lhs, rhs \in Words, flags \in SUBSET Flags :
    LET c == Carry(flags)
        sum == AddCarryWide(lhs, rhs, flags)
        difference == SubCarryWide(lhs, rhs, flags)
    IN  /\ lhs + rhs + c = sum.x + 65536 * Carry(sum.f)
        /\ "PV" \in sum.f <=> ~IsSignedWord(SignedWord(lhs) + SignedWord(rhs) + c)
        /\ lhs - rhs - c = difference.x - 65536 * Carry(difference.f)
        /\ "PV" \in difference.f <=> ~IsSignedWord(SignedWord(lhs) - SignedWord(rhs) - c)
<1> SUFFICES ASSUME NEW lhs \in Words, NEW rhs \in Words, NEW flags \in SUBSET Flags
             PROVE  LET c == Carry(flags)
                        sum == AddCarryWide(lhs, rhs, flags)
                        difference == SubCarryWide(lhs, rhs, flags)
                    IN  /\ lhs + rhs + c = sum.x + 65536 * Carry(sum.f)
                        /\ "PV" \in sum.f
                             <=> ~IsSignedWord(SignedWord(lhs) + SignedWord(rhs) + c)
                        /\ lhs - rhs - c = difference.x - 65536 * Carry(difference.f)
                        /\ "PV" \in difference.f
                             <=> ~IsSignedWord(SignedWord(lhs) - SignedWord(rhs) - c)
  OBVIOUS
<1> DEFINE c == Carry(flags)
           sum == AddCarryWide(lhs, rhs, flags)
           difference == SubCarryWide(lhs, rhs, flags)
<1>1. c \in {0, 1} /\ lhs \in Int /\ rhs \in Int
  BY CarryIs, WordIs
<1>2. /\ sum.x = (lhs + rhs + c) % 65536
      /\ "C" \in sum.f <=> lhs + rhs + c > 65535
      /\ "PV" \in sum.f
           <=> Bit(lhs, 15) = Bit(rhs, 15) /\ Bit(rhs, 15) # Bit(sum.x, 15)
  BY DEF AddCarryWide, SignZeroWide, When
<1>3. /\ difference.x = (lhs - rhs - c) % 65536
      /\ "C" \in difference.f <=> lhs - rhs - c < 0
      /\ "PV" \in difference.f
           <=> Bit(lhs, 15) # Bit(rhs, 15) /\ Bit(difference.x, 15) # Bit(lhs, 15)
  BY DEF SubCarryWide, SignZeroWide, When
<1>4. Carry(sum.f) = (IF "C" \in sum.f THEN 1 ELSE 0)
      /\ Carry(difference.f) = (IF "C" \in difference.f THEN 1 ELSE 0)
  BY DEF Carry
<1> HIDE DEF c, sum, difference
<1>5. /\ sum.x = lhs + rhs + c - (IF lhs + rhs + c > 65535 THEN 65536 ELSE 0)
      /\ sum.x \in Words
  BY <1>1, <1>2, WordIs, WordTurn
<1>6. /\ difference.x = lhs - rhs - c + (IF lhs - rhs - c < 0 THEN 65536 ELSE 0)
      /\ difference.x \in Words
  BY <1>1, <1>3, WordIs, WordTurn
<1>7. /\ Bit(lhs, 15) = IF lhs > 32767 THEN 1 ELSE 0
      /\ Bit(rhs, 15) = IF rhs > 32767 THEN 1 ELSE 0
      /\ Bit(sum.x, 15) = IF sum.x > 32767 THEN 1 ELSE 0
      /\ Bit(difference.x, 15) = IF difference.x > 32767 THEN 1 ELSE 0
  BY <1>5, <1>6, WordSign
<1>8. lhs + rhs + c = sum.x + 65536 * Carry(sum.f)
  BY <1>1, <1>2, <1>4, <1>5, WordIs
<1>9. lhs - rhs - c = difference.x - 65536 * Carry(difference.f)
  BY <1>1, <1>3, <1>4, <1>6, WordIs
<1>10. "PV" \in sum.f <=> ~IsSignedWord(SignedWord(lhs) + SignedWord(rhs) + c)
  BY <1>1, <1>2, <1>5, <1>7, WordIs DEF IsSignedWord, SignedWord
<1>11. "PV" \in difference.f <=> ~IsSignedWord(SignedWord(lhs) - SignedWord(rhs) - c)
  BY <1>1, <1>3, <1>6, <1>7, WordIs DEF IsSignedWord, SignedWord
<1> QED BY <1>8, <1>9, <1>10, <1>11 DEF c, sum, difference

(***************************************************************************)
(* Bytes.                                                                  *)
(***************************************************************************)
\* A byte is its two digits, and the lowest bit of the upper one is bit 4.
LEMMA Digits16 ==
  ASSUME NEW b \in Byte
  PROVE  \E high \in 0 .. 15, low \in 0 .. 15 :
           /\ b = 16 * high + low /\ high = b \div 16 /\ low = b % 16
           /\ Bit(b, 4) = high % 2
<1>1. b \in Int /\ 0 <= b /\ b <= 255
  BY ByteIs
<1>2. PICK low \in Int, high \in Int : low = b % 16 /\ high = b \div 16
  BY <1>1
<1>3. 0 <= low /\ low <= 15 /\ b = 16 * high + low /\ 0 <= high /\ high <= 15
  BY <1>1, <1>2
<1> QED BY <1>2, <1>3, ByteBits

\* The carry into bit 4 is what goes from the lower digits to the upper ones.
LEMMA HalfCarry ==
  ASSUME NEW lhs \in Byte, NEW rhs \in Byte, NEW c \in {0, 1}
  PROVE  /\ CarryInto(4, lhs, rhs, (lhs + rhs + c) % 256)
              <=> (lhs % 16) + (rhs % 16) + c > 15
         /\ CarryInto(4, lhs, rhs, (lhs - rhs - c) % 256)
              <=> (lhs % 16) - (rhs % 16) - c < 0
<1>1. PICK lh \in 0 .. 15, ll \in 0 .. 15 :
        lhs = 16 * lh + ll /\ ll = lhs % 16 /\ Bit(lhs, 4) = lh % 2
  BY Digits16
<1>2. PICK rh \in 0 .. 15, rl \in 0 .. 15 :
        rhs = 16 * rh + rl /\ rl = rhs % 16 /\ Bit(rhs, 4) = rh % 2
  BY Digits16
<1>3. (lhs + rhs + c) % 256 \in Byte /\ (lhs - rhs - c) % 256 \in Byte
  BY ByteIs, ByteTurn
<1>4. PICK sh \in 0 .. 15, sl \in 0 .. 15 :
        (lhs + rhs + c) % 256 = 16 * sh + sl /\ Bit((lhs + rhs + c) % 256, 4) = sh % 2
  BY <1>3, Digits16
<1>5. PICK dh \in 0 .. 15, dl \in 0 .. 15 :
        (lhs - rhs - c) % 256 = 16 * dh + dl /\ Bit((lhs - rhs - c) % 256, 4) = dh % 2
  BY <1>3, Digits16
<1>6. PICK t \in {0, 1} : 16 * sh + sl = lhs + rhs + c - 256 * t
  BY <1>4, ByteTurn, ByteIs
<1>7. PICK u \in {0, 1} : 16 * dh + dl = lhs - rhs - c + 256 * u
  BY <1>5, ByteTurn, ByteIs
<1>8. PICK h \in {0, 1} : (h = 1 <=> ll + rl + c > 15) /\ sh = lh + rh + h - 16 * t
  <2>1. 16 * sh + sl = 16 * (lh + rh - 16 * t) + (ll + rl + c)
    BY <1>1, <1>2, <1>6
  <2>2. CASE ll + rl + c > 15
    BY <2>1, <2>2
  <2>3. CASE ll + rl + c <= 15
    BY <2>1, <2>3
  <2> QED BY <2>2, <2>3
<1>9. PICK b \in {0, 1} : (b = 1 <=> ll - rl - c < 0) /\ dh = lh - rh - b + 16 * u
  <2>1. 16 * dh + dl = 16 * (lh - rh + 16 * u) + (ll - rl - c)
    BY <1>1, <1>2, <1>7
  <2>2. CASE ll - rl - c < 0
    BY <2>1, <2>2
  <2>3. CASE ll - rl - c >= 0
    BY <2>1, <2>3
  <2> QED BY <2>2, <2>3
<1>10. ((lh % 2) + (rh % 2) + (sh % 2)) % 2 = 1 <=> h = 1
  BY <1>8
<1>11. ((lh % 2) + (rh % 2) + (dh % 2)) % 2 = 1 <=> b = 1
  BY <1>9
<1> QED BY <1>1, <1>2, <1>4, <1>5, <1>8, <1>9, <1>10, <1>11 DEF CarryInto

\* A sum of two bytes and a carry: the result, and each flag.
LEMMA ByteSum ==
  ASSUME NEW lhs \in Byte, NEW rhs \in Byte, NEW c \in {0, 1}
  PROVE  LET sum == AddCarry(lhs, rhs, c)
         IN  /\ sum.x \in Byte
             /\ sum.x = IF lhs + rhs + c > 255 THEN lhs + rhs + c - 256 ELSE lhs + rhs + c
             /\ sum.f \subseteq Flags
             /\ "C" \in sum.f <=> lhs + rhs + c > 255
             /\ "N" \notin sum.f
             /\ "H" \in sum.f <=> (lhs % 16) + (rhs % 16) + c > 15
             /\ "Z" \in sum.f <=> sum.x = 0
             /\ "S" \in sum.f <=> sum.x > 127
             /\ "PV" \in sum.f <=> ~IsSigned(Signed(lhs) + Signed(rhs) + c)
<1> DEFINE s == (lhs + rhs + c) % 256
           sum == AddCarry(lhs, rhs, c)
<1>1. s \in Byte /\ s = IF lhs + rhs + c > 255 THEN lhs + rhs + c - 256 ELSE lhs + rhs + c
  BY ByteIs, ByteTurn
<1>2. /\ Bit(s, 7) = IF s > 127 THEN 1 ELSE 0
      /\ Bit(lhs, 7) = IF lhs > 127 THEN 1 ELSE 0
      /\ Bit(rhs, 7) = IF rhs > 127 THEN 1 ELSE 0
  BY <1>1, ByteBits
<1>3. CarryInto(4, lhs, rhs, s) <=> (lhs % 16) + (rhs % 16) + c > 15
  BY HalfCarry
<1>4. Bit(lhs, 7) = Bit(rhs, 7) /\ Bit(rhs, 7) # Bit(s, 7)
        <=> ~IsSigned(Signed(lhs) + Signed(rhs) + c)
  <2>1. lhs \in Int /\ rhs \in Int /\ s \in Int /\ 0 <= lhs /\ lhs <= 255 /\ 0 <= rhs /\ rhs <= 255
    BY <1>1, ByteIs
  <2> HIDE DEF s
  <2> QED BY <1>1, <1>2, <2>1 DEF IsSigned, Signed
<1>5. sum = [x |-> s,
             f |-> SignZero(s) \cup When("C", lhs + rhs + c > 255)
                     \cup When("PV", Bit(lhs, 7) = Bit(rhs, 7) /\ Bit(rhs, 7) # Bit(s, 7))
                     \cup When("H", CarryInto(4, lhs, rhs, s))]
  BY DEF AddCarry
<1> HIDE DEF s, sum
<1>6. /\ sum.x = s
      /\ sum.f \subseteq Flags
      /\ "C" \in sum.f <=> lhs + rhs + c > 255
      /\ "N" \notin sum.f
      /\ "H" \in sum.f <=> CarryInto(4, lhs, rhs, s)
      /\ "Z" \in sum.f <=> s = 0
      /\ "S" \in sum.f <=> Bit(s, 7) = 1
      /\ "PV" \in sum.f <=> Bit(lhs, 7) = Bit(rhs, 7) /\ Bit(rhs, 7) # Bit(s, 7)
  BY <1>5 DEF SignZero, When, Flags
<1>7. "S" \in sum.f <=> s > 127
  BY <1>2, <1>6
<1> QED BY <1>1, <1>3, <1>4, <1>6, <1>7 DEF sum

\* A difference of two bytes and a borrow.
LEMMA ByteDifference ==
  ASSUME NEW lhs \in Byte, NEW rhs \in Byte, NEW c \in {0, 1}
  PROVE  LET difference == SubCarry(lhs, rhs, c)
         IN  /\ difference.x \in Byte
             /\ difference.x = IF lhs - rhs - c < 0 THEN lhs - rhs - c + 256
                                                    ELSE lhs - rhs - c
             /\ difference.f \subseteq Flags
             /\ "C" \in difference.f <=> lhs - rhs - c < 0
             /\ "N" \in difference.f
             /\ "H" \in difference.f <=> (lhs % 16) - (rhs % 16) - c < 0
             /\ "Z" \in difference.f <=> difference.x = 0
             /\ "S" \in difference.f <=> difference.x > 127
             /\ "PV" \in difference.f <=> ~IsSigned(Signed(lhs) - Signed(rhs) - c)
<1> DEFINE s == (lhs - rhs - c) % 256
           difference == SubCarry(lhs, rhs, c)
<1>1. s \in Byte /\ s = IF lhs - rhs - c < 0 THEN lhs - rhs - c + 256 ELSE lhs - rhs - c
  BY ByteIs, ByteTurn
<1>2. /\ Bit(s, 7) = IF s > 127 THEN 1 ELSE 0
      /\ Bit(lhs, 7) = IF lhs > 127 THEN 1 ELSE 0
      /\ Bit(rhs, 7) = IF rhs > 127 THEN 1 ELSE 0
  BY <1>1, ByteBits
<1>3. CarryInto(4, lhs, rhs, s) <=> (lhs % 16) - (rhs % 16) - c < 0
  BY HalfCarry
<1>4. Bit(lhs, 7) # Bit(rhs, 7) /\ Bit(s, 7) # Bit(lhs, 7)
        <=> ~IsSigned(Signed(lhs) - Signed(rhs) - c)
  <2>1. lhs \in Int /\ rhs \in Int /\ s \in Int /\ 0 <= lhs /\ lhs <= 255 /\ 0 <= rhs /\ rhs <= 255
    BY <1>1, ByteIs
  <2> HIDE DEF s
  <2> QED BY <1>1, <1>2, <2>1 DEF IsSigned, Signed
<1>5. difference =
        [x |-> s,
         f |-> {"N"} \cup SignZero(s) \cup When("C", lhs - rhs - c < 0)
                 \cup When("PV", Bit(lhs, 7) # Bit(rhs, 7) /\ Bit(s, 7) # Bit(lhs, 7))
                 \cup When("H", CarryInto(4, lhs, rhs, s))]
  BY DEF SubCarry
<1> HIDE DEF s, difference
<1>6. /\ difference.x = s
      /\ difference.f \subseteq Flags
      /\ "C" \in difference.f <=> lhs - rhs - c < 0
      /\ "N" \in difference.f
      /\ "H" \in difference.f <=> CarryInto(4, lhs, rhs, s)
      /\ "Z" \in difference.f <=> s = 0
      /\ "S" \in difference.f <=> Bit(s, 7) = 1
      /\ "PV" \in difference.f <=> Bit(lhs, 7) # Bit(rhs, 7) /\ Bit(s, 7) # Bit(lhs, 7)
  BY <1>5 DEF SignZero, When, Flags
<1>7. "S" \in difference.f <=> s > 127
  BY <1>2, <1>6
<1> QED BY <1>1, <1>3, <1>4, <1>6, <1>7 DEF difference

\* The operands of the run are two bytes and the carry, in every state of it.
Operands == x \in Byte /\ y \in Byte /\ f \in SUBSET {"C"}

\* The operands stay what the run starts from.
LEMMA OperandsAlways == LawsSpec => []Operands
<1>1. LawsInit => Operands
  BY ByteIs DEF LawsInit, Operands
<1>2. Operands /\ [LawsNext]_laws => Operands'
  <2> SUFFICES ASSUME Operands, [LawsNext]_laws PROVE Operands'
    OBVIOUS
  <2>1. CASE LawsNext
    <3>1. (y + 1) % 256 \in Byte
      BY ByteTurn, ByteIs DEF Operands
    <3> QED BY <2>1, <3>1 DEF LawsNext, Operands
  <2>2. CASE UNCHANGED laws
    BY <2>2 DEF laws, Operands
  <2> QED BY <2>1, <2>2
<1> QED BY <1>1, <1>2, PTL DEF LawsSpec

\* Addition, subtraction and comparison are exact in every reading of the flags, in
\* every state of the run (cpu/mod.rs:602-654).
THEOREM BytesExact == LawsSpec => []ArithmeticExact
<1>1. Operands => ArithmeticExact
  <2> SUFFICES ASSUME Operands PROVE ArithmeticExact
    OBVIOUS
  <2> DEFINE c == Carry(f)
             sum == AddCarry(x, y, c)
             difference == SubCarry(x, y, c)
             compared == SubCarry(x, y, 0)
  <2>1. c \in {0, 1} /\ x \in Byte /\ y \in Byte
    BY CarryIs DEF Operands
  <2>2. Carry(sum.f) = (IF "C" \in sum.f THEN 1 ELSE 0)
        /\ Carry(difference.f) = (IF "C" \in difference.f THEN 1 ELSE 0)
    BY DEF Carry
  <2>3. Compare(x, y).f = compared.f
    BY DEF Compare
  <2> HIDE DEF c
  <2>4. /\ x + y + c = sum.x + 256 * Carry(sum.f)
        /\ "PV" \in sum.f <=> ~IsSigned(Signed(x) + Signed(y) + c)
        /\ "H" \in sum.f <=> (x % 16) + (y % 16) + c > 15
    <3> HIDE DEF sum
    <3> QED BY <2>1, <2>2, ByteSum, ByteIs DEF sum
  <2>5. /\ x - y - c = difference.x - 256 * Carry(difference.f)
        /\ "PV" \in difference.f <=> ~IsSigned(Signed(x) - Signed(y) - c)
        /\ "H" \in difference.f <=> (x % 16) - (y % 16) - c < 0
    <3>1. /\ difference.x = IF x - y - c < 0 THEN x - y - c + 256 ELSE x - y - c
          /\ "C" \in difference.f <=> x - y - c < 0
          /\ "PV" \in difference.f <=> ~IsSigned(Signed(x) - Signed(y) - c)
          /\ "H" \in difference.f <=> (x % 16) - (y % 16) - c < 0
      BY <2>1, ByteDifference
    <3> HIDE DEF difference
    <3> QED BY <2>1, <2>2, <3>1, ByteIs
  <2>6. /\ "C" \in compared.f <=> x < y
        /\ ("S" \in compared.f) # ("PV" \in compared.f) <=> Signed(x) < Signed(y)
    <3>1. /\ compared.x = IF x - y - 0 < 0 THEN x - y - 0 + 256 ELSE x - y - 0
          /\ "C" \in compared.f <=> x - y - 0 < 0
          /\ "S" \in compared.f <=> compared.x > 127
          /\ "PV" \in compared.f <=> ~IsSigned(Signed(x) - Signed(y) - 0)
      BY <2>1, ByteDifference
    <3> HIDE DEF compared
    <3>2. compared.x > 127 <=> (Signed(x) < Signed(y) <=> IsSigned(Signed(x) - Signed(y) - 0))
      BY <2>1, <3>1, ByteIs DEF Signed, IsSigned
    <3>3. x - y - 0 < 0 <=> x < y
      BY <2>1, ByteIs
    <3> QED BY <3>1, <3>2, <3>3
  <2> QED BY <2>3, <2>4, <2>5, <2>6 DEF ArithmeticExact, c
<1> QED BY <1>1, OperandsAlways, PTL

\* Sets of flags are the same when they agree on the six.
LEMMA SixFlags ==
  ASSUME NEW one \in SUBSET Flags, NEW other \in SUBSET Flags,
         "C" \in one <=> "C" \in other, "N" \in one <=> "N" \in other,
         "PV" \in one <=> "PV" \in other, "H" \in one <=> "H" \in other,
         "Z" \in one <=> "Z" \in other, "S" \in one <=> "S" \in other
  PROVE  one = other
<1>1. \A e \in Flags : e \in one <=> e \in other
  BY DEF Flags
<1>2. \A e : e \in one <=> e \in other
  BY <1>1
<1> QED BY <1>2

\* Bit 4 is all that an increment and a decrement tell of the half carry.
LEMMA HalfCarryOfOne ==
  ASSUME NEW b \in Byte, NEW s \in Byte
  PROVE  CarryInto(4, b, 1, s) <=> Bit(s, 4) # Bit(b, 4)
<1>1. Bit(1, 4) = 0
  <2>1. 1 \in Byte /\ 1 \div 16 = 0
    BY ByteIs
  <2> QED BY <2>1, ByteBits
<1>2. Bit(b, 4) \in {0, 1} /\ Bit(s, 4) \in {0, 1}
  <2>1. PICK bh \in 0 .. 15 : Bit(b, 4) = bh % 2
    BY Digits16
  <2>2. PICK sh \in 0 .. 15 : Bit(s, 4) = sh % 2
    BY Digits16
  <2> QED BY <2>1, <2>2
<1> QED BY <1>1, <1>2 DEF CarryInto

\* INC is an addition of one that keeps the carry.
LEMMA IncrementIsAddition ==
  ASSUME NEW b \in Byte, NEW flags \in SUBSET Flags
  PROVE  /\ Inc(b, flags).x = AddCarry(b, 1, 0).x
         /\ Inc(b, flags).f = (AddCarry(b, 1, 0).f \ {"C"}) \cup (flags \cap {"C"})
<1> DEFINE s == (b + 1) % 256
           sum == AddCarry(b, 1, 0)
           one == Inc(b, flags).f
           other == (sum.f \ {"C"}) \cup (flags \cap {"C"})
<1>1. 1 \in Byte /\ b \in Int /\ 0 <= b /\ b <= 255 /\ b + 1 + 0 = b + 1
  BY ByteIs
<1>2. s \in Byte /\ s = IF b + 1 > 255 THEN b + 1 - 256 ELSE b + 1
  BY <1>1, ByteTurn
<1>3. /\ sum.x = s
      /\ sum.f \subseteq Flags
      /\ "N" \notin sum.f
      /\ "H" \in sum.f <=> (b % 16) + (1 % 16) + 0 > 15
      /\ "Z" \in sum.f <=> s = 0
      /\ "S" \in sum.f <=> s > 127
      /\ "PV" \in sum.f <=> ~IsSigned(Signed(b) + Signed(1) + 0)
  BY <1>1, <1>2, ByteSum
<1>4. "H" \in sum.f <=> Bit(s, 4) # Bit(b, 4)
  <2>1. CarryInto(4, b, 1, (b + 1 + 0) % 256) <=> (b % 16) + (1 % 16) + 0 > 15
    BY <1>1, HalfCarry
  <2> QED BY <1>1, <1>2, <1>3, <2>1, HalfCarryOfOne
<1>5. "PV" \in sum.f <=> s = 128
  <2> HIDE DEF s, sum
  <2> QED BY <1>1, <1>2, <1>3 DEF IsSigned, Signed
<1>6. "S" \in sum.f <=> Bit(s, 7) = 1
  BY <1>2, <1>3, ByteBits
<1>7. Inc(b, flags) =
        [x |-> s, f |-> (flags \cap {"C"}) \cup SignZero(s) \cup When("PV", s = 128)
                          \cup When("H", Bit(s, 4) # Bit(b, 4))]
  BY DEF Inc
<1> HIDE DEF s, sum
<1>8. one \subseteq Flags /\ other \subseteq Flags
  BY <1>3, <1>7 DEF SignZero, When, Flags
<1>9. /\ "C" \in one <=> "C" \in other
      /\ "N" \in one <=> "N" \in other
      /\ "PV" \in one <=> "PV" \in other
      /\ "H" \in one <=> "H" \in other
      /\ "Z" \in one <=> "Z" \in other
      /\ "S" \in one <=> "S" \in other
  BY <1>3, <1>4, <1>5, <1>6, <1>7 DEF SignZero, When
<1>10. one = other
  <2> HIDE DEF one, other
  <2> QED BY <1>8, <1>9, SixFlags
<1> QED BY <1>3, <1>7, <1>10 DEF sum

\* DEC is a subtraction of one that keeps the carry.
LEMMA DecrementIsSubtraction ==
  ASSUME NEW b \in Byte, NEW flags \in SUBSET Flags
  PROVE  /\ Dec(b, flags).x = SubCarry(b, 1, 0).x
         /\ Dec(b, flags).f = (SubCarry(b, 1, 0).f \ {"C"}) \cup (flags \cap {"C"})
<1> DEFINE s == (b + 255) % 256
           sum == SubCarry(b, 1, 0)
           one == Dec(b, flags).f
           other == (sum.f \ {"C"}) \cup (flags \cap {"C"})
<1>1. 1 \in Byte /\ b \in Int /\ 0 <= b /\ b <= 255 /\ b - 1 - 0 = b - 1
  BY ByteIs
<1>2. s \in Byte /\ s = (IF b - 1 < 0 THEN b - 1 + 256 ELSE b - 1) /\ s = (b - 1 - 0) % 256
  <2>1. b + 255 \in Int /\ -256 <= b + 255 /\ b + 255 <= 511
    BY <1>1
  <2>2. b - 1 - 0 \in Int /\ -256 <= b - 1 - 0 /\ b - 1 - 0 <= 511
    BY <1>1
  <2> QED BY <1>1, <2>1, <2>2, ByteTurn
<1>3. /\ sum.x = s
      /\ sum.f \subseteq Flags
      /\ "N" \in sum.f
      /\ "H" \in sum.f <=> (b % 16) - (1 % 16) - 0 < 0
      /\ "Z" \in sum.f <=> s = 0
      /\ "S" \in sum.f <=> s > 127
      /\ "PV" \in sum.f <=> ~IsSigned(Signed(b) - Signed(1) - 0)
  BY <1>1, <1>2, ByteDifference
<1>4. "H" \in sum.f <=> Bit(s, 4) # Bit(b, 4)
  <2>1. CarryInto(4, b, 1, (b - 1 - 0) % 256) <=> (b % 16) - (1 % 16) - 0 < 0
    BY <1>1, HalfCarry
  <2> QED BY <1>1, <1>2, <1>3, <2>1, HalfCarryOfOne
<1>5. "PV" \in sum.f <=> s = 127
  <2> HIDE DEF s, sum
  <2> QED BY <1>1, <1>2, <1>3 DEF IsSigned, Signed
<1>6. "S" \in sum.f <=> Bit(s, 7) = 1
  BY <1>2, <1>3, ByteBits
<1>7. Dec(b, flags) =
        [x |-> s, f |-> (flags \cap {"C"}) \cup {"N"} \cup SignZero(s)
                          \cup When("PV", s = 127) \cup When("H", Bit(s, 4) # Bit(b, 4))]
  BY DEF Dec
<1> HIDE DEF s, sum
<1>8. one \subseteq Flags /\ other \subseteq Flags
  BY <1>3, <1>7 DEF SignZero, When, Flags
<1>9. /\ "C" \in one <=> "C" \in other
      /\ "N" \in one <=> "N" \in other
      /\ "PV" \in one <=> "PV" \in other
      /\ "H" \in one <=> "H" \in other
      /\ "Z" \in one <=> "Z" \in other
      /\ "S" \in one <=> "S" \in other
  BY <1>3, <1>4, <1>5, <1>6, <1>7 DEF SignZero, When
<1>10. one = other
  <2> HIDE DEF one, other
  <2> QED BY <1>8, <1>9, SixFlags
<1> QED BY <1>3, <1>7, <1>10 DEF sum

\* CPI compares as CP does, and keeps the carry.
LEMMA SearchIsComparison ==
  ASSUME NEW a \in Byte, NEW b \in Byte, NEW flags \in SUBSET Flags
  PROVE  SearchFlags(a, b, 0, flags) = (Compare(a, b).f \ {"C", "PV"}) \cup (flags \cap {"C"})
<1> DEFINE s == (a - b) % 256
           difference == SubCarry(a, b, 0)
           one == SearchFlags(a, b, 0, flags)
           other == (difference.f \ {"C", "PV"}) \cup (flags \cap {"C"})
<1>1. /\ a \in Int /\ 0 <= a /\ a <= 255 /\ b \in Int /\ 0 <= b /\ b <= 255
      /\ a - b - 0 = a - b
  BY ByteIs
<1>2. s \in Byte /\ s = IF a - b < 0 THEN a - b + 256 ELSE a - b
  BY <1>1, ByteTurn
<1>3. /\ difference.x = s
      /\ difference.f \subseteq Flags
      /\ "N" \in difference.f
      /\ "H" \in difference.f <=> (a % 16) - (b % 16) - 0 < 0
      /\ "Z" \in difference.f <=> s = 0
      /\ "S" \in difference.f <=> s > 127
  BY <1>1, <1>2, ByteDifference
<1>4. (a % 16) - (b % 16) - 0 < 0 <=> s % 16 > a % 16
  <2>1. PICK ah \in 0 .. 15, al \in 0 .. 15 : a = 16 * ah + al /\ al = a % 16
    BY Digits16
  <2>2. PICK bh \in 0 .. 15, bl \in 0 .. 15 : b = 16 * bh + bl /\ bl = b % 16
    BY Digits16
  <2>3. PICK sh \in 0 .. 15, sl \in 0 .. 15 : s = 16 * sh + sl /\ sl = s % 16
    BY <1>2, Digits16
  <2> HIDE DEF s
  <2>4. sl = IF al - bl < 0 THEN al - bl + 16 ELSE al - bl
    <3>1. PICK t \in {0, 1} : s = a - b + 256 * t
      BY <1>1, <1>2
    <3>2. 16 * (sh - ah + bh - 16 * t) = al - bl - sl
      BY <2>1, <2>2, <2>3, <3>1
    <3> QED BY <3>2
  <2> QED BY <2>1, <2>2, <2>3, <2>4
<1>5. "S" \in difference.f <=> Bit(s, 7) = 1
  BY <1>2, <1>3, ByteBits
<1>6. one = (flags \cap {"C"}) \cup {"N"} \cup SignZero(s) \cup When("PV", 0 # 0)
              \cup When("H", s % 16 > a % 16)
  BY DEF SearchFlags
<1> HIDE DEF s, difference, one
<1>7. one \subseteq Flags /\ other \subseteq Flags
  BY <1>3, <1>6 DEF SignZero, When, Flags
<1>8. /\ "C" \in one <=> "C" \in other
      /\ "N" \in one <=> "N" \in other
      /\ "PV" \in one <=> "PV" \in other
      /\ "H" \in one <=> "H" \in other
      /\ "Z" \in one <=> "Z" \in other
      /\ "S" \in one <=> "S" \in other
  BY <1>3, <1>4, <1>5, <1>6 DEF SignZero, When
<1>9. one = other
  <2> HIDE DEF other
  <2> QED BY <1>7, <1>8, SixFlags
<1> QED BY <1>9 DEF one, difference, Compare

\* The operations that compute their flags in ways of their own, in every state of
\* the run (cpu/mod.rs:276-303, 1485-1490, 1619-1637).
THEOREM ShortcutsHold == LawsSpec => []ShortcutsAgree
<1>1. Operands => ShortcutsAgree
  <2> SUFFICES ASSUME Operands PROVE ShortcutsAgree
    OBVIOUS
  <2>1. x \in Byte /\ y \in Byte /\ f \in SUBSET Flags
    BY DEF Operands, Flags
  <2>2. Neg(x).x = Inc(Cpl(x, f).x, f).x
    <3>1. x \in Int /\ 0 - x - 0 = 0 - x /\ 255 - x + 1 = 256 - x
      BY <2>1, ByteIs
    <3>2. (0 - x) % 256 = (256 - x) % 256
      BY <2>1, ByteIs, ByteTurn
    <3> QED BY <3>1, <3>2 DEF Neg, SubCarry, Inc, Cpl
  <2> QED BY <2>1, <2>2, IncrementIsAddition, DecrementIsSubtraction, SearchIsComparison
          DEF ShortcutsAgree
<1> QED BY <1>1, OperandsAlways, PTL

(***************************************************************************)
(* Rotations.                                                              *)
(***************************************************************************)
\* The bits that leave a byte at its ends, and what is left of it.
LEMMA ByteEnds ==
  ASSUME NEW b \in Byte
  PROVE  /\ Bit(b, 7) \in {0, 1} /\ Bit(b, 0) \in {0, 1}
         /\ (2 * b) % 256 = 2 * b - 256 * Bit(b, 7)
         /\ 2 * (b \div 2) = b - Bit(b, 0)
<1>1. Bit(b, 7) = (IF b > 127 THEN 1 ELSE 0) /\ b \in Int /\ 0 <= b /\ b <= 255
  BY ByteBits, ByteIs
<1>2. 2 ^ 0 = 1 /\ b \div 1 = b
  BY <1>1
<1>3. Bit(b, 0) = b % 2
  BY <1>2 DEF Bit
<1>4. (2 * b) % 256 = IF 2 * b > 255 THEN 2 * b - 256 ELSE 2 * b
  BY <1>1
<1> QED BY <1>1, <1>3, <1>4

ShiftOps == Left \cup Right

\* A shift: every bit moves by one, one goes out at the end, into the carry, and one
\* comes in at the other.
LEMMA ShiftMoves ==
  ASSUME NEW op \in ShiftOps, NEW b \in Byte, NEW flags
  PROVE  LET shifted == Shift(op, b, flags)
         IN  /\ BitIn(op, b, flags) \in {0, 1}
             /\ BitOut(op, b) \in {0, 1}
             /\ shifted.x \in Byte
             /\ op \in Left => shifted.x = 2 * b - 256 * BitOut(op, b) + BitIn(op, b, flags)
             /\ op \notin Left =>
                  2 * shifted.x = b - BitOut(op, b) + 256 * BitIn(op, b, flags)
             /\ Carry(shifted.f) = BitOut(op, b)
             /\ shifted.f \subseteq Flags
<1> DEFINE in == BitIn(op, b, flags)
           out == BitOut(op, b)
<1>1. /\ Bit(b, 7) \in {0, 1} /\ Bit(b, 0) \in {0, 1}
      /\ (2 * b) % 256 = 2 * b - 256 * Bit(b, 7)
      /\ 2 * (b \div 2) = b - Bit(b, 0)
      /\ b \in Int /\ 0 <= b /\ b <= 255 /\ b \div 2 \in Int
  BY ByteEnds, ByteIs
<1>2. out \in {0, 1} /\ out = IF op \in Left THEN Bit(b, 7) ELSE Bit(b, 0)
  BY <1>1 DEF BitOut
<1>3. in \in {0, 1}
  BY <1>1, <1>2, CarryIs DEF BitIn, ShiftOps, Left, Right
<1> DEFINE s == IF op \in Left THEN ((2 * b) % 256) + in ELSE (b \div 2) + 128 * in
           shifted == Shift(op, b, flags)
<1>4. shifted = [x |-> s, f |-> When("C", out = 1) \cup SignZero(s) \cup Parity(s)]
  BY DEF Shift
<1>5. Bit(b, 7) = IF b > 127 THEN 1 ELSE 0
  BY ByteBits
<1> HIDE DEF in, out
<1>6. CASE op \in Left
  <2>1. s = 2 * b - 256 * out + in
    BY <1>1, <1>2, <1>6
  <2>2. 0 <= s /\ s <= 255 /\ s \in Int
    <3>1. out = IF b > 127 THEN 1 ELSE 0
      BY <1>2, <1>5, <1>6
    <3> HIDE DEF s
    <3> QED BY <1>1, <1>3, <2>1, <3>1
  <2> HIDE DEF s
  <2> QED BY <1>2, <1>3, <1>4, <1>6, <2>1, <2>2, ByteIs
          DEF Carry, When, SignZero, Parity, Flags, in, out
<1>7. CASE op \notin Left
  <2>1. 2 * s = b - out + 256 * in /\ s \in Int
    BY <1>1, <1>2, <1>3, <1>7
  <2>2. 0 <= s /\ s <= 255
    BY <1>1, <1>2, <1>3, <1>7, <2>1
  <2> HIDE DEF s
  <2> QED BY <1>2, <1>3, <1>4, <1>7, <2>1, <2>2, ByteIs
          DEF Carry, When, SignZero, Parity, Flags, in, out
<1> QED BY <1>6, <1>7

\* The opposite shift brings back the bit that went out.
LEMMA ShiftBack ==
  ASSUME NEW b \in Byte, NEW flags,
         NEW op \in ShiftOps, NEW opposite \in ShiftOps,
         op \in Left <=> opposite \notin Left,
         LET turned == Shift(op, b, flags)
         IN  BitIn(opposite, turned.x, turned.f) = BitOut(op, b)
  PROVE  LET turned == Shift(op, b, flags)
             back == Shift(opposite, turned.x, turned.f)
         IN  back.x = b /\ Carry(back.f) = BitIn(op, b, flags)
<1> DEFINE turned == Shift(op, b, flags)
           back == Shift(opposite, turned.x, turned.f)
           in == BitIn(op, b, flags)
           out == BitOut(op, b)
           lost == BitOut(opposite, turned.x)
<1>1. /\ in \in {0, 1} /\ out \in {0, 1} /\ turned.x \in Byte
      /\ op \in Left => turned.x = 2 * b - 256 * out + in
      /\ op \notin Left => 2 * turned.x = b - out + 256 * in
  BY ShiftMoves
<1>2. /\ lost \in {0, 1} /\ back.x \in Byte /\ Carry(back.f) = lost
      /\ opposite \in Left => back.x = 2 * turned.x - 256 * lost + out
      /\ opposite \notin Left => 2 * back.x = turned.x - lost + 256 * out
  BY <1>1, ShiftMoves
<1> HIDE DEF turned, back, in, out, lost
<1>3. /\ b \in Int /\ 0 <= b /\ b <= 255 /\ turned.x \in Int /\ back.x \in Int
      /\ 0 <= back.x /\ back.x <= 255
  BY <1>1, <1>2, ByteIs
<1>4. back.x = b /\ lost = in
  <2>1. CASE op \in Left
    <3>1. 2 * back.x = 2 * b + (in - lost)
      BY <1>1, <1>2, <1>3, <2>1
    <3> QED BY <1>1, <1>2, <1>3, <3>1
  <2>2. CASE op \notin Left
    <3>1. back.x = b + 256 * (in - lost)
      BY <1>1, <1>2, <1>3, <2>2
    <3> QED BY <1>1, <1>2, <1>3, <3>1
  <2> QED BY <2>1, <2>2
<1> QED BY <1>2, <1>4 DEF turned, back, in

\* Opposite rotations undo each other, the arithmetic shifts double and halve, and
\* the digits come back, in every state of the run (cpu/mod.rs:984-1221, 1553-1588).
THEOREM RotationsHold == LawsSpec => []RotationsUndone
<1>1. Operands => RotationsUndone
  <2> SUFFICES ASSUME Operands PROVE RotationsUndone
    OBVIOUS
  <2>1. x \in Byte /\ y \in Byte
    BY DEF Operands
  <2>2. /\ BitOut("rlc", x) = Bit(x, 7) /\ BitOut("rl", x) = Bit(x, 7)
        /\ BitOut("rr", x) = Bit(x, 0) /\ BitIn("rlc", x, f) = Bit(x, 7)
        /\ BitIn("rl", x, f) = Carry(f) /\ BitIn("rr", x, f) = Carry(f)
        /\ BitIn("sla", x, f) = 0 /\ BitIn("sra", x, f) = Bit(x, 7)
        /\ BitOut("sla", x) = Bit(x, 7) /\ BitOut("sra", x) = Bit(x, 0)
    BY DEF BitIn, BitOut, Left
  <2>3. ASSUME NEW op \in {"rl", "rr"}, NEW opposite \in {"rl", "rr"}, op # opposite
        PROVE  LET turned == Shift(op, x, f)
                   back == Shift(opposite, turned.x, turned.f)
               IN  back.x = x /\ Carry(back.f) = Carry(f)
    <3> DEFINE turned == Shift(op, x, f)
    <3>1. op \in ShiftOps /\ opposite \in ShiftOps /\ (op \in Left <=> opposite \notin Left)
      BY <2>3 DEF ShiftOps, Left, Right
    <3>2. Carry(turned.f) = BitOut(op, x)
      BY <2>1, <3>1, ShiftMoves
    <3> HIDE DEF turned
    <3>3. BitIn(opposite, turned.x, turned.f) = BitOut(op, x)
      BY <2>3, <3>2 DEF BitIn
    <3>4. BitIn(op, x, f) = Carry(f)
      BY <2>2
    <3> QED BY <2>1, <3>1, <3>3, <3>4, ShiftBack DEF turned
  <2>4. LET turned == Shift("rlc", x, f)
        IN  Shift("rrc", turned.x, turned.f).x = x
    <3> DEFINE turned == Shift("rlc", x, f)
    <3>1. /\ "rlc" \in ShiftOps /\ "rrc" \in ShiftOps
          /\ "rlc" \in Left /\ "rrc" \notin Left
      BY DEF ShiftOps, Left, Right
    <3>2. turned.x = 2 * x - 256 * Bit(x, 7) + Bit(x, 7) /\ turned.x \in Byte
      BY <2>1, <2>2, <3>1, ShiftMoves
    <3> HIDE DEF turned
    <3>3. Bit(turned.x, 0) = Bit(x, 7)
      <4>1. /\ 2 * (turned.x \div 2) = turned.x - Bit(turned.x, 0)
            /\ Bit(turned.x, 0) \in {0, 1} /\ Bit(x, 7) \in {0, 1}
        BY <2>1, <3>2, ByteEnds
      <4>2. turned.x \in Int /\ x \in Int /\ turned.x \div 2 \in Int
        BY <2>1, <3>2, ByteIs
      <4> QED BY <3>2, <4>1, <4>2
    <3>4. BitIn("rrc", turned.x, turned.f) = BitOut("rlc", x)
      BY <2>2, <3>1, <3>3 DEF BitIn, BitOut
    <3> QED BY <2>1, <3>1, <3>4, ShiftBack DEF turned
  <2>5. 2 * x = Shift("sla", x, f).x + 256 * Carry(Shift("sla", x, f).f)
    <3>1. "sla" \in ShiftOps /\ "sla" \in Left
      BY DEF ShiftOps, Left, Right
    <3>2. LET shifted == Shift("sla", x, f)
          IN  /\ shifted.x = 2 * x - 256 * Bit(x, 7) + 0 /\ shifted.x \in Byte
              /\ Carry(shifted.f) = Bit(x, 7) /\ Bit(x, 7) \in {0, 1}
      BY <2>1, <2>2, <3>1, ShiftMoves
    <3> QED BY <2>1, <3>2, ByteIs
  <2>6. Signed(Shift("sra", x, f).x) = Signed(x) \div 2
    <3> DEFINE half == Shift("sra", x, f).x
    <3>1. "sra" \in ShiftOps /\ "sra" \notin Left
      BY DEF ShiftOps, Left, Right
    <3>2. half \in Byte /\ 2 * half = x - Bit(x, 0) + 256 * Bit(x, 7)
      BY <2>1, <2>2, <3>1, ShiftMoves
    <3>3. Bit(x, 7) = (IF x > 127 THEN 1 ELSE 0) /\ Bit(x, 0) \in {0, 1}
      BY <2>1, ByteBits, ByteEnds
    <3> HIDE DEF half
    <3>4. half \in Int /\ 0 <= half /\ half <= 255 /\ x \in Int /\ 0 <= x /\ x <= 255
      BY <2>1, <3>2, ByteIs
    <3>5. half > 127 <=> x > 127
      BY <3>2, <3>3, <3>4
    <3>6. 2 * Signed(half) = Signed(x) - Bit(x, 0) /\ Signed(half) \in Int /\ Signed(x) \in Int
      BY <3>2, <3>3, <3>4, <3>5 DEF Signed
    <3> QED BY <3>3, <3>6 DEF half
  <2>7. LET left == Rld(x, y, f)
            back == Rrd(left.x, left.m, f)
        IN  back.x = x /\ back.m = y
    <3>1. PICK xh \in 0 .. 15, xl \in 0 .. 15 : x = 16 * xh + xl /\ xl = x % 16
      BY <2>1, Digits16
    <3>2. PICK yh \in 0 .. 15, yl \in 0 .. 15 :
            y = 16 * yh + yl /\ yl = y % 16 /\ yh = y \div 16
      BY <2>1, Digits16
    <3>3. Rld(x, y, f).x = 16 * xh + yh /\ Rld(x, y, f).m = 16 * yl + xl
      BY <3>1, <3>2 DEF Rld
    <3>4. /\ (16 * xh + yh) % 16 = yh /\ (16 * yl + xl) % 16 = xl
          /\ (16 * yl + xl) \div 16 = yl
      OBVIOUS
    <3>5. Rrd(16 * xh + yh, 16 * yl + xl, f).x = (16 * xh + yh) - yh + xl
          /\ Rrd(16 * xh + yh, 16 * yl + xl, f).m = yl + 16 * yh
      BY <3>4 DEF Rrd
    <3> QED BY <3>1, <3>2, <3>3, <3>5
  <2> QED BY <2>3, <2>4, <2>5, <2>6, <2>7 DEF RotationsUndone
<1> QED BY <1>1, OperandsAlways, PTL

(***************************************************************************)
(* Decimal digits.                                                         *)
(***************************************************************************)
LEMMA TwoDigits ==
  ASSUME NEW h \in 0 .. 9, NEW l \in 0 .. 9
  PROVE  IsDecimal(16 * h + l) /\ Decimal(16 * h + l) = 10 * h + l
<1>1. (16 * h + l) \div 16 = h /\ (16 * h + l) % 16 = l
  OBVIOUS
<1> QED BY <1>1 DEF IsDecimal, Decimal

\* DAA after an addition, from what the addition left.
LEMMA AdjustSum ==
  ASSUME NEW lhs \in Byte, NEW rhs \in Byte, IsDecimal(lhs), IsDecimal(rhs), NEW c \in {0, 1},
         NEW s \in Byte, NEW flags \in SUBSET Flags,
         "N" \notin flags,
         "H" \in flags <=> (lhs % 16) + (rhs % 16) + c > 15,
         "C" \in flags <=> lhs + rhs + c > 255,
         s = IF lhs + rhs + c > 255 THEN lhs + rhs + c - 256 ELSE lhs + rhs + c
  PROVE  LET r == Daa(s, flags)
         IN  /\ IsDecimal(r.x)
             /\ Decimal(lhs) + Decimal(rhs) + c
                  = Decimal(r.x) + 100 * (IF "C" \in r.f THEN 1 ELSE 0)
<1>13. PICK xh \in 0 .. 9, xl \in 0 .. 9 :
         lhs = 16 * xh + xl /\ xl = lhs % 16 /\ Decimal(lhs) = 10 * xh + xl
  BY Digits16 DEF IsDecimal, Decimal
<1>14. PICK yh \in 0 .. 9, yl \in 0 .. 9 :
         rhs = 16 * yh + yl /\ yl = rhs % 16 /\ Decimal(rhs) = 10 * yh + yl
  BY Digits16 DEF IsDecimal, Decimal
<1> DEFINE low == s % 16 > 9 \/ "H" \in flags
           high == s > 153 \/ "C" \in flags
           adjust == (IF low THEN 6 ELSE 0) + (IF high THEN 96 ELSE 0)
           r == Daa(s, flags)
<1>1. r.x = (s + adjust) % 256 /\ ("C" \in r.f <=> high)
  BY DEF Daa, When, SignZero, Parity
<1>2. PICK sh \in 0 .. 15, sl \in 0 .. 15 : s = 16 * sh + sl /\ sl = s % 16
  BY Digits16
<1>3. PICK t \in {0, 1} : /\ t = 1 <=> "C" \in flags
                          /\ s = 16 * (xh + yh) + (xl + yl + c) - 256 * t
  BY <1>13, <1>14
<1>4. PICK carry \in {0, 1} : /\ carry = 1 <=> "H" \in flags
                              /\ sl = xl + yl + c - 16 * carry
                              /\ sh = xh + yh + carry - 16 * t
  <2>1. 16 * (sh - xh - yh + 16 * t) = (xl + yl + c) - sl
    BY <1>2, <1>3
  <2> QED BY <1>13, <1>14, <2>1
<1>5. low <=> xl + yl + c > 9
  BY <1>2, <1>4
<1>6. high <=> xh + yh + (IF xl + yl + c > 9 THEN 1 ELSE 0) > 9
  BY <1>2, <1>3, <1>4
<1> DEFINE lc == IF xl + yl + c > 9 THEN 1 ELSE 0
           hc == IF xh + yh + lc > 9 THEN 1 ELSE 0
           l == xl + yl + c - 10 * lc
           h == xh + yh + lc - 10 * hc
<1>7. l \in 0 .. 9 /\ h \in 0 .. 9 /\ lc \in {0, 1} /\ hc \in {0, 1}
  OBVIOUS
<1>8. adjust = 6 * lc + 96 * hc
  BY <1>5, <1>6
<1>9. (s + adjust) % 256 = 16 * h + l
  <2> HIDE DEF adjust, lc, hc
  <2>1. s + adjust = 16 * h + l + 256 * (hc - t)
    BY <1>3, <1>7, <1>8
  <2>2. 16 * h + l \in 0 .. 255 /\ hc - t \in Int
    BY <1>3, <1>7
  <2> HIDE DEF l, h
  <2> QED BY <1>7, <2>1, <2>2
<1>10. 10 * xh + xl + (10 * yh + yl) + c = 10 * h + l + 100 * hc
  BY <1>7
<1>11. hc = IF "C" \in r.f THEN 1 ELSE 0
  BY <1>1, <1>6
<1> HIDE DEF h, l, hc, r
<1>12. IsDecimal(r.x) /\ Decimal(r.x) = 10 * h + l
  BY <1>1, <1>7, <1>9, TwoDigits
<1> QED BY <1>10, <1>11, <1>12, <1>13, <1>14 DEF r

\* DAA after a subtraction, from what that left.
LEMMA AdjustDifference ==
  ASSUME NEW lhs \in Byte, NEW rhs \in Byte, IsDecimal(lhs), IsDecimal(rhs), NEW c \in {0, 1},
         NEW s \in Byte, NEW flags \in SUBSET Flags,
         "N" \in flags,
         "H" \in flags <=> (lhs % 16) - (rhs % 16) - c < 0,
         "C" \in flags <=> lhs - rhs - c < 0,
         s = IF lhs - rhs - c < 0 THEN lhs - rhs - c + 256 ELSE lhs - rhs - c
  PROVE  LET r == Daa(s, flags)
         IN  /\ IsDecimal(r.x)
             /\ Decimal(lhs) - Decimal(rhs) - c
                  = Decimal(r.x) - 100 * (IF "C" \in r.f THEN 1 ELSE 0)
<1>13. PICK xh \in 0 .. 9, xl \in 0 .. 9 :
         lhs = 16 * xh + xl /\ xl = lhs % 16 /\ Decimal(lhs) = 10 * xh + xl
  BY Digits16 DEF IsDecimal, Decimal
<1>14. PICK yh \in 0 .. 9, yl \in 0 .. 9 :
         rhs = 16 * yh + yl /\ yl = rhs % 16 /\ Decimal(rhs) = 10 * yh + yl
  BY Digits16 DEF IsDecimal, Decimal
<1> DEFINE low == s % 16 > 9 \/ "H" \in flags
           high == s > 153 \/ "C" \in flags
           adjust == (IF low THEN 6 ELSE 0) + (IF high THEN 96 ELSE 0)
           r == Daa(s, flags)
<1>1. r.x = (s - adjust) % 256 /\ ("C" \in r.f <=> high)
  BY DEF Daa, When, SignZero, Parity
<1>2. PICK sh \in 0 .. 15, sl \in 0 .. 15 : s = 16 * sh + sl /\ sl = s % 16
  BY Digits16
<1>3. PICK t \in {0, 1} : /\ t = 1 <=> "C" \in flags
                          /\ s = 16 * (xh - yh) + (xl - yl - c) + 256 * t
  BY <1>13, <1>14
<1>4. PICK borrow \in {0, 1} : /\ borrow = 1 <=> "H" \in flags
                               /\ sl = xl - yl - c + 16 * borrow
                               /\ sh = xh - yh - borrow + 16 * t
  <2>1. 16 * (sh - xh + yh - 16 * t) = (xl - yl - c) - sl
    BY <1>2, <1>3
  <2> QED BY <1>13, <1>14, <2>1
<1> DEFINE lc == IF xl - yl - c < 0 THEN 1 ELSE 0
           hc == IF xh - yh - lc < 0 THEN 1 ELSE 0
           l == xl - yl - c + 10 * lc
           h == xh - yh - lc + 10 * hc
<1>5. low <=> lc = 1
  BY <1>2, <1>4
<1>6. high <=> hc = 1
  BY <1>2, <1>3, <1>4
<1>7. l \in 0 .. 9 /\ h \in 0 .. 9 /\ lc \in {0, 1} /\ hc \in {0, 1}
  OBVIOUS
<1>8. adjust = 6 * lc + 96 * hc
  BY <1>5, <1>6, <1>7
<1>9. (s - adjust) % 256 = 16 * h + l
  <2> HIDE DEF adjust, lc, hc
  <2>1. s - adjust = 16 * h + l + 256 * (t - hc)
    BY <1>3, <1>7, <1>8
  <2>2. 16 * h + l \in 0 .. 255 /\ t - hc \in Int
    BY <1>3, <1>7
  <2> HIDE DEF l, h
  <2> QED BY <1>7, <2>1, <2>2
<1>10. 10 * xh + xl - (10 * yh + yl) - c = 10 * h + l - 100 * hc
  BY <1>7
<1>11. hc = IF "C" \in r.f THEN 1 ELSE 0
  BY <1>1, <1>6, <1>7
<1> HIDE DEF h, l, hc, r
<1>12. IsDecimal(r.x) /\ Decimal(r.x) = 10 * h + l
  BY <1>1, <1>7, <1>9, TwoDigits
<1>15. Decimal(lhs) - Decimal(rhs) - c = Decimal(r.x) - 100 * hc
  BY <1>7, <1>10, <1>12, <1>13, <1>14
<1> QED BY <1>11, <1>12, <1>15 DEF r

\* DAA leaves the decimal digits of a sum and of a difference, and the carry or borrow
\* of them, in every state of the run (cpu/mod.rs:450-477).
THEOREM DecimalHolds == LawsSpec => []DecimalAdjusted
<1>1. Operands => DecimalAdjusted
  <2> SUFFICES ASSUME Operands, IsDecimal(x), IsDecimal(y)
               PROVE  LET added == AddCarry(x, y, Carry(f))
                          sum == Daa(added.x, added.f)
                          subtracted == SubCarry(x, y, Carry(f))
                          difference == Daa(subtracted.x, subtracted.f)
                      IN  /\ IsDecimal(sum.x) /\ IsDecimal(difference.x)
                          /\ Decimal(x) + Decimal(y) + Carry(f)
                               = Decimal(sum.x) + 100 * Carry(sum.f)
                          /\ Decimal(x) - Decimal(y) - Carry(f)
                               = Decimal(difference.x) - 100 * Carry(difference.f)
    BY DEF DecimalAdjusted
  <2> DEFINE c == Carry(f)
             added == AddCarry(x, y, c)
             sum == Daa(added.x, added.f)
             subtracted == SubCarry(x, y, c)
             difference == Daa(subtracted.x, subtracted.f)
  <2>1. c \in {0, 1} /\ x \in Byte /\ y \in Byte
    BY CarryIs DEF Operands
  <2> HIDE DEF c
  <2>2. /\ IsDecimal(sum.x)
        /\ Decimal(x) + Decimal(y) + c = Decimal(sum.x) + 100 * Carry(sum.f)
    <3>1. /\ added.x \in Byte /\ added.f \in SUBSET Flags /\ "N" \notin added.f
          /\ "H" \in added.f <=> (x % 16) + (y % 16) + c > 15
          /\ "C" \in added.f <=> x + y + c > 255
          /\ added.x = IF x + y + c > 255 THEN x + y + c - 256 ELSE x + y + c
      BY <2>1, ByteSum
    <3> HIDE DEF added
    <3> QED BY <2>1, <3>1, AdjustSum DEF Carry
  <2>3. /\ IsDecimal(difference.x)
        /\ Decimal(x) - Decimal(y) - c = Decimal(difference.x) - 100 * Carry(difference.f)
    <3>1. /\ subtracted.x \in Byte /\ subtracted.f \in SUBSET Flags /\ "N" \in subtracted.f
          /\ "H" \in subtracted.f <=> (x % 16) - (y % 16) - c < 0
          /\ "C" \in subtracted.f <=> x - y - c < 0
          /\ subtracted.x = IF x - y - c < 0 THEN x - y - c + 256 ELSE x - y - c
      BY <2>1, ByteDifference
    <3> HIDE DEF subtracted
    <3> QED BY <2>1, <3>1, AdjustDifference DEF Carry
  <2> QED BY <2>2, <2>3 DEF c
<1> QED BY <1>1, OperandsAlways, PTL
=============================================================================
