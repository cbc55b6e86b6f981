----------------------------- MODULE CpuProofs ------------------------------
(***************************************************************************)
(* Theorems about Cpu: for every program that fills the memory, every      *)
(* register and every byte keeps its range, whatever is executed; and what *)
(* one instruction does to the registers and the memory of a guest.        *)
(***************************************************************************)
EXTENDS GuestAssertions, NumberFacts

(***************************************************************************)
(* Numbers and flags.                                                      *)
(***************************************************************************)
LEMMA ByteIs == \A b : b \in Byte <=> b \in Int /\ 0 <= b /\ b <= 255
  BY DEF Byte

\* A word, with its bounds as numerals.
LEMMA WordIs == \A w : w \in Words <=> w \in Int /\ 0 <= w /\ w <= 65535
<1>1. 2 ^ 16 = 65536
  OBVIOUS
<1> QED BY <1>1 DEF Words

\* What wraps around is a byte, or a word, again.
LEMMA Wrapped ==
  ASSUME NEW n \in Int
  PROVE  n % 256 \in Byte /\ n % 65536 \in Words
  BY ByteIs, WordIs

\* An address moved by any distance is an address.
LEMMA PlusIsWord ==
  ASSUME NEW w \in Words, NEW d \in Int
  PROVE  Plus(w, d) \in Words
  BY Wrapped, WordIs DEF Plus

\* A word is made of its bytes.
LEMMA HalvesOfWord ==
  ASSUME NEW w \in Words
  PROVE  High(w) \in Byte /\ Low(w) \in Byte /\ w = 256 * High(w) + Low(w)
<1>1. w \in Int /\ 0 <= w /\ w <= 65535
  BY WordIs
<1>2. PICK low \in Int, high \in Int : low = w % 256 /\ high = w \div 256
  BY <1>1
<1>3. 0 <= low /\ low <= 255 /\ w = 256 * high + low
  BY <1>1, <1>2
<1>4. 0 <= high /\ high <= 255
  BY <1>1, <1>3
<1> QED BY <1>2, <1>3, <1>4, ByteIs DEF High, Low

\* Two bytes make the word whose bytes they are.
LEMMA WordOfHalves ==
  ASSUME NEW high \in Byte, NEW low \in Byte
  PROVE  /\ 256 * high + low \in Words
         /\ High(256 * high + low) = high /\ Low(256 * high + low) = low
<1>1. high \in Int /\ 0 <= high /\ high <= 255 /\ low \in Int /\ 0 <= low /\ low <= 255
  BY ByteIs
<1>2. (256 * high + low) \div 256 = high /\ (256 * high + low) % 256 = low
  BY <1>1
<1> QED BY <1>1, <1>2, WordIs DEF High, Low

\* The powers of two of a byte, as numerals.
LEMMA PowersOfTwo ==
  ASSUME NEW k \in 0 .. 7
  PROVE  2 ^ k \in {1, 2, 4, 8, 16, 32, 64, 128}
<1> DEFINE Power(n) == 2 ^ n
<1>1. Power(0) = 1 /\ Power(1) = 2 /\ Power(2) = 4 /\ Power(3) = 8
  OBVIOUS
<1>2. Power(4) = 16 /\ Power(5) = 32 /\ Power(6) = 64 /\ Power(7) = 128
  OBVIOUS
<1>3. k \in {0, 1, 2, 3, 4, 5, 6, 7}
  OBVIOUS
<1> HIDE DEF Power
<1>4. Power(k) \in {1, 2, 4, 8, 16, 32, 64, 128}
  BY <1>1, <1>2, <1>3
<1> QED BY <1>4 DEF Power

\* A bit that is set is part of the byte, and one that is not fits in.
LEMMA BitFits ==
  ASSUME NEW b \in Byte, NEW k \in 0 .. 7
  PROVE  /\ Bit(b, k) \in {0, 1}
         /\ ResetBit(k, b) \in Byte
         /\ SetBit(k, b) \in Byte
<1> DEFINE Fits(p) == LET bit == (b \div p) % 2
                      IN  /\ bit \in {0, 1}
                          /\ 0 <= b - p * bit /\ b - p * bit <= 255
                          /\ 0 <= b + p * (1 - bit) /\ b + p * (1 - bit) <= 255
<1>1. b \in Int /\ 0 <= b /\ b <= 255
  BY ByteIs
<1>2. Fits(1) /\ Fits(2) /\ Fits(4) /\ Fits(8)
  BY <1>1
<1>3. Fits(16) /\ Fits(32) /\ Fits(64) /\ Fits(128)
  BY <1>1
<1>4. PICK p \in {1, 2, 4, 8, 16, 32, 64, 128} : p = 2 ^ k
  BY PowersOfTwo
<1>5. Fits(p)
  BY <1>2, <1>3, <1>4
<1> QED BY <1>1, <1>4, <1>5, ByteIs DEF Bit, ResetBit, SetBit

\* Bits make a byte.
LEMMA BitsMakeByte ==
  ASSUME NEW bits
  PROVE  FromBits(bits) \in Byte
<1>1. 2 ^ 0 = 1 /\ 2 ^ 1 = 2 /\ 2 ^ 2 = 4 /\ 2 ^ 3 = 8
  OBVIOUS
<1>2. 2 ^ 4 = 16 /\ 2 ^ 5 = 32 /\ 2 ^ 6 = 64 /\ 2 ^ 7 = 128
  OBVIOUS
<1> QED BY <1>1, <1>2, ByteIs DEF FromBits, Worth

\* A flag, a result's flags and its parity are flags.
LEMMA AreFlags ==
  /\ \A flag \in Flags : \A condition : When(flag, condition) \subseteq Flags
  /\ \A n : SignZero(n) \subseteq Flags /\ Parity(n) \subseteq Flags
             /\ SignZeroWide(n) \subseteq Flags
  /\ \A flags : Carry(flags) \in {0, 1}
  /\ \A flag \in {"C", "N", "PV", "H", "Z", "S"} : flag \in Flags
BY DEF When, SignZero, Parity, SignZeroWide, Flags, Carry

(***************************************************************************)
(* The arithmetic returns bytes, words and flags.                          *)
(***************************************************************************)
Result(r) == r.x \in Byte /\ r.f \subseteq Flags

\* Each operation of the arithmetic returns a byte and flags.  Sums and differences:
LEMMA SumTyped ==
  ASSUME NEW a \in Byte, NEW b \in Byte, NEW c \in {0, 1}
  PROVE  Result(AddCarry(a, b, c)) /\ Result(SubCarry(a, b, c))
<1>1. (a + b + c) % 256 \in Byte /\ (a - b - c) % 256 \in Byte
  BY Wrapped, ByteIs
<1> QED BY <1>1, AreFlags DEF Result, AddCarry, SubCarry

\* the operations on bits,
LEMMA LogicTyped ==
  ASSUME NEW a \in Byte, NEW b \in Byte
  PROVE  Result(And(a, b)) /\ Result(Or(a, b)) /\ Result(Xor(a, b)) /\ Result(Compare(a, b))
<1>1. Result(And(a, b))
  BY BitsMakeByte, AreFlags DEF Result, And
<1>2. Result(Or(a, b))
  BY BitsMakeByte, AreFlags DEF Result, Or
<1>3. Result(Xor(a, b))
  BY BitsMakeByte, AreFlags DEF Result, Xor
<1>4. Result(Compare(a, b))
  BY SumTyped DEF Result, Compare
<1> QED BY <1>1, <1>2, <1>3, <1>4

\* all that have a second operand,
LEMMA ArithmeticTyped ==
  ASSUME NEW op \in MathNames, NEW a \in Byte, NEW b \in Byte, NEW flags
  PROVE  Result(Arithmetic(op, a, b, flags))
<1>1. Carry(flags) \in {0, 1}
  BY AreFlags
<1>2. CASE op \in {"add", "adc"}
  BY <1>1, <1>2, SumTyped DEF Arithmetic
<1>3. CASE op \in {"sub", "sbc"}
  BY <1>1, <1>3, SumTyped DEF Arithmetic
<1>4. CASE op \in {"and", "xor", "or", "cp"}
  BY <1>4, LogicTyped DEF Arithmetic
<1> QED BY <1>2, <1>3, <1>4 DEF MathNames

\* INC and DEC,
LEMMA CountTyped ==
  ASSUME NEW b \in Byte, NEW flags \in SUBSET Flags
  PROVE  Result(Inc(b, flags)) /\ Result(Dec(b, flags))
<1>1. (b + 1) % 256 \in Byte /\ (b + 255) % 256 \in Byte
  BY Wrapped, ByteIs
<1>2. Result(Inc(b, flags))
  BY <1>1, AreFlags DEF Result, Inc
<1>3. Result(Dec(b, flags))
  BY <1>1, AreFlags DEF Result, Dec
<1> QED BY <1>2, <1>3

\* shifts and rotations,
LEMMA ShiftTyped ==
  ASSUME NEW op \in ShiftNames, NEW b \in Byte, NEW flags \in SUBSET Flags
  PROVE  Result(Shift(op, b, flags))
<1>1. Bit(b, 7) \in {0, 1} /\ Bit(b, 0) \in {0, 1}
  BY BitFits
<1>2. BitOut(op, b) \in {0, 1}
  BY <1>1 DEF BitOut
<1>3. BitIn(op, b, flags) \in {0, 1}
  BY <1>1, <1>2, AreFlags DEF BitIn, ShiftNames
<1>4. b \in Int /\ 0 <= b /\ b <= 255
  BY ByteIs
<1> DEFINE in == BitIn(op, b, flags)
<1> HIDE DEF in
<1>5. ((2 * b) % 256) + in \in Byte
  <2>1. in \in {0, 1}
    BY <1>3 DEF in
  <2>2. (2 * b) % 256 = IF b > 127 THEN 2 * b - 256 ELSE 2 * b
    BY <1>4
  <2> QED BY <1>4, <2>1, <2>2, ByteIs
<1>6. (b \div 2) + 128 * in \in Byte
  <2>1. in \in {0, 1}
    BY <1>3 DEF in
  <2> QED BY <1>4, <2>1, ByteIs
<1> QED BY <1>5, <1>6, AreFlags DEF Result, Shift, in

\* what works on A alone,
LEMMA AdjustTyped ==
  ASSUME NEW how \in ANames, NEW b \in Byte, NEW flags \in SUBSET Flags
  PROVE  Result(AdjustA(how, b, flags))
<1>1. CASE how = "daa"
  <2> DEFINE adjust == (IF b % 16 > 9 \/ "H" \in flags THEN 6 ELSE 0)
                         + (IF b > 153 \/ "C" \in flags THEN 96 ELSE 0)
             n == IF "N" \in flags THEN b - adjust ELSE b + adjust
  <2>1. n \in Int
    BY ByteIs
  <2>2. n % 256 \in Byte
    BY <2>1, Wrapped
  <2>3. Daa(b, flags).x = n % 256
    BY DEF Daa
  <2>4. Daa(b, flags).f \subseteq Flags
    BY AreFlags DEF Daa
  <2> QED BY <1>1, <2>2, <2>3, <2>4 DEF AdjustA, Result
<1>2. CASE how = "neg"
  BY <1>2, SumTyped, ByteIs DEF AdjustA, Neg
<1>3. CASE how = "cpl"
  BY <1>3, AreFlags, ByteIs DEF AdjustA, Cpl, Result
<1>4. CASE how = "scf"
  BY <1>4, AreFlags DEF AdjustA, Scf, Result
<1>5. CASE how = "ccf"
  BY <1>5, AreFlags DEF AdjustA, Ccf, Result
<1>6. CASE how \in {"rlc", "rrc", "rl", "rr"}
  <2>1. Result(Shift(how, b, flags))
    BY <1>6, ShiftTyped DEF ShiftNames
  <2> QED BY <1>6, <2>1, AreFlags DEF AdjustA, ShiftA, Result
<1> QED BY <1>1, <1>2, <1>3, <1>4, <1>5, <1>6 DEF ANames

\* the rotations of digits, with what goes back to memory,
LEMMA DigitsTyped ==
  ASSUME NEW a \in Byte, NEW b \in Byte, NEW flags \in SUBSET Flags
  PROVE  /\ Result(Rld(a, b, flags)) /\ Rld(a, b, flags).m \in Byte
         /\ Result(Rrd(a, b, flags)) /\ Rrd(a, b, flags).m \in Byte
<1>1. a \in Int /\ 0 <= a /\ a <= 255 /\ b \in Int /\ 0 <= b /\ b <= 255
  BY ByteIs
<1>2. PICK al \in 0 .. 15, ah \in 0 .. 15 : al = a % 16 /\ a = 16 * ah + al
  <2>1. a % 16 \in 0 .. 15 /\ a \div 16 \in 0 .. 15 /\ a = 16 * (a \div 16) + (a % 16)
    BY <1>1
  <2> QED BY <2>1
<1>3. PICK bl \in 0 .. 15, bh \in 0 .. 15 : bl = b % 16 /\ bh = b \div 16
  BY <1>1
<1>4. /\ (a - (a % 16)) + (b \div 16) \in Byte /\ 16 * (b % 16) + (a % 16) \in Byte
      /\ (a - (a % 16)) + (b % 16) \in Byte /\ (b \div 16) + 16 * (a % 16) \in Byte
  BY <1>2, <1>3, ByteIs
<1> QED BY <1>4, AreFlags DEF Result, Rld, Rrd, RotateFlags

\* the operations on words,
LEMMA WideTyped ==
  ASSUME NEW how \in {"add", "adc", "sbc"}, NEW v \in Words, NEW w \in Words,
         NEW flags \in SUBSET Flags
  PROVE  LET r == ArithmeticWide(how, v, w, flags)
         IN  r.x \in Words /\ r.f \subseteq Flags
<1>1. v \in Int /\ w \in Int /\ Carry(flags) \in {0, 1}
  BY WordIs, AreFlags
<1>2. /\ (v + w) % 65536 \in Words /\ (v + w + Carry(flags)) % 65536 \in Words
      /\ (v - w - Carry(flags)) % 65536 \in Words
  BY <1>1, Wrapped
<1>3. CASE how = "add"
  BY <1>2, <1>3, AreFlags DEF ArithmeticWide, AddWide
<1>4. CASE how = "adc"
  BY <1>2, <1>4, AreFlags DEF ArithmeticWide, AddCarryWide
<1>5. CASE how = "sbc"
  BY <1>2, <1>5, AreFlags DEF ArithmeticWide, SubCarryWide
<1> QED BY <1>3, <1>4, <1>5

\* and those that compute flags alone.
LEMMA OtherFlags ==
  ASSUME NEW flags \in SUBSET Flags, NEW n, NEW m, NEW k
  PROVE  /\ TestBit(k, n, flags) \subseteq Flags
         /\ CopyFlags(n, flags) \subseteq Flags
         /\ SearchFlags(n, m, k, flags) \subseteq Flags
         /\ InputFlags(n, flags) \subseteq Flags
         /\ PortBlockFlags(n, flags) \subseteq Flags
<1>1. TestBit(k, n, flags) \subseteq Flags
  BY AreFlags DEF TestBit
<1>2. CopyFlags(n, flags) \subseteq Flags /\ PortBlockFlags(n, flags) \subseteq Flags
  BY AreFlags DEF CopyFlags, PortBlockFlags
<1>3. SearchFlags(n, m, k, flags) \subseteq Flags
  BY AreFlags DEF SearchFlags
<1>4. InputFlags(n, flags) \subseteq Flags
  BY AreFlags DEF InputFlags
<1> QED BY <1>1, <1>2, <1>3, <1>4

(***************************************************************************)
(* The registers and the operands.                                         *)
(***************************************************************************)
\* The parts of the state, one by one.
LEMMA StateParts ==
  ASSUME NEW s \in CpuState
  PROVE  /\ s.PC \in Words /\ s.SP \in Words /\ s.A \in Byte /\ s.I \in Byte
         /\ s.F \in SUBSET Flags /\ s.BC \in Words /\ s.DE \in Words /\ s.HL \in Words
         /\ s.IX \in Words /\ s.IY \in Words
         /\ s.prime.A \in Byte /\ s.prime.F \in SUBSET Flags /\ s.prime.BC \in Words
         /\ s.prime.DE \in Words /\ s.prime.HL \in Words
         /\ s.interrupt_mode \in Modes /\ s.halted \in BOOLEAN
         /\ s.enable_interrupts_next_cycle \in BOOLEAN
         /\ s.iff1 \in BOOLEAN /\ s.iff2 \in BOOLEAN
  BY DEF CpuState

\* Changes of one register.
LEMMA Changed ==
  ASSUME NEW s \in CpuState
  PROVE  /\ \A w \in Words : /\ [s EXCEPT !.PC = w] \in CpuState
                             /\ [s EXCEPT !.SP = w] \in CpuState
                             /\ [s EXCEPT !.BC = w] \in CpuState
                             /\ [s EXCEPT !.DE = w] \in CpuState
                             /\ [s EXCEPT !.HL = w] \in CpuState
                             /\ [s EXCEPT !.IX = w] \in CpuState
                             /\ [s EXCEPT !.IY = w] \in CpuState
         /\ \A b \in Byte : [s EXCEPT !.A = b] \in CpuState /\ [s EXCEPT !.I = b] \in CpuState
         /\ \A flags \in SUBSET Flags : [s EXCEPT !.F = flags] \in CpuState
  BY DEF CpuState

\* A pair may hold any word.
LEMMA WideChanged ==
  ASSUME NEW s \in CpuState, NEW rr \in WordRegisters, NEW w \in Words
  PROVE  [s EXCEPT ![rr] = w] \in CpuState
  BY Changed DEF WordRegisters

\* A pair holds a word.
LEMMA PairIsWord ==
  ASSUME NEW s \in CpuState, NEW rr \in WordRegisters
  PROVE  s[rr] \in Words
  BY StateParts DEF WordRegisters

\* A register holds a byte.
LEMMA ByteOfRegister ==
  ASSUME NEW s \in CpuState, NEW r \in ByteRegisters
  PROVE  Register(s, r) \in Byte
<1>1. CASE r \in {"A", "I"}
  <2>1. r \notin DOMAIN HighPart /\ r \notin DOMAIN LowPart
    BY <1>1 DEF HighPart, LowPart
  <2>2. Register(s, r) = s[r]
    BY <1>1, <2>1 DEF Register
  <2> QED BY <1>1, <2>2, StateParts
<1>2. CASE r \in {"B", "D", "H", "IXH", "IYH"}
  <2>1. r \in DOMAIN HighPart /\ r \notin {"A", "I"} /\ r \notin DOMAIN LowPart
    BY <1>2 DEF HighPart, LowPart
  <2>2. HighPart[r] \in WordRegisters
    BY <1>2 DEF HighPart, WordRegisters
  <2>3. Register(s, r) = High(s[HighPart[r]])
    BY <2>1 DEF Register
  <2> QED BY <2>2, <2>3, PairIsWord, HalvesOfWord
<1>3. CASE r \in {"C", "E", "L", "IXL", "IYL"}
  <2>1. r \in DOMAIN LowPart /\ r \notin {"A", "I"} /\ r \notin DOMAIN HighPart
    BY <1>3 DEF LowPart, HighPart
  <2>2. LowPart[r] \in WordRegisters
    BY <1>3 DEF LowPart, WordRegisters
  <2>3. Register(s, r) = Low(s[LowPart[r]])
    BY <2>1 DEF Register
  <2> QED BY <2>2, <2>3, PairIsWord, HalvesOfWord
<1> QED BY <1>1, <1>2, <1>3 DEF ByteRegisters

\* A register may hold any byte.
LEMMA RegisterChanged ==
  ASSUME NEW s \in CpuState, NEW r \in ByteRegisters, NEW b \in Byte
  PROVE  SetRegister(s, r, b) \in CpuState
<1>1. CASE r \in {"A", "I"}
  <2>1. r \notin DOMAIN HighPart /\ r \notin DOMAIN LowPart
    BY <1>1 DEF HighPart, LowPart
  <2>2. SetRegister(s, r, b) = [s EXCEPT ![r] = b]
    BY <1>1, <2>1 DEF SetRegister
  <2>3. CASE r = "A"
    BY <2>2, <2>3, Changed
  <2>4. CASE r = "I"
    BY <2>2, <2>4, Changed
  <2> QED BY <1>1, <2>3, <2>4
<1>2. CASE r \in {"B", "D", "H", "IXH", "IYH"}
  <2>1. r \in DOMAIN HighPart /\ r \notin {"A", "I"} /\ r \notin DOMAIN LowPart
    BY <1>2 DEF HighPart, LowPart
  <2>2. PICK rr \in WordRegisters : rr = HighPart[r]
    BY <1>2 DEF HighPart, WordRegisters
  <2>3. SetRegister(s, r, b) = [s EXCEPT ![rr] = 256 * b + Low(s[rr])]
    <3>1. rr \in DOMAIN s
      BY DEF WordRegisters, CpuState
    <3> QED BY <2>1, <2>2, <3>1 DEF SetRegister
  <2>4. 256 * b + Low(s[rr]) \in Words
    BY PairIsWord, HalvesOfWord, WordOfHalves
  <2> QED BY <2>3, <2>4, WideChanged
<1>3. CASE r \in {"C", "E", "L", "IXL", "IYL"}
  <2>1. r \in DOMAIN LowPart /\ r \notin {"A", "I"} /\ r \notin DOMAIN HighPart
    BY <1>3 DEF LowPart, HighPart
  <2>2. PICK rr \in WordRegisters : rr = LowPart[r]
    BY <1>3 DEF LowPart, WordRegisters
  <2>3. SetRegister(s, r, b) = [s EXCEPT ![rr] = 256 * High(s[rr]) + b]
    <3>1. rr \in DOMAIN s
      BY DEF WordRegisters, CpuState
    <3> QED BY <2>1, <2>2, <3>1 DEF SetRegister
  <2>4. 256 * High(s[rr]) + b \in Words
    BY PairIsWord, HalvesOfWord, WordOfHalves
  <2> QED BY <2>3, <2>4, WideChanged
<1> QED BY <1>1, <1>2, <1>3 DEF ByteRegisters

\* F is a byte, and any byte is one of F.
LEMMA FlagsAreByte ==
  /\ \A flags : FlagByte(flags) \in Byte
  /\ \A b : FlagsOf(b) \in SUBSET Flags
BY BitsMakeByte DEF FlagByte, FlagsOf

\* AF goes to the stack and comes from it as the other pairs do.
LEMMA WordOfPair ==
  ASSUME NEW s \in CpuState, NEW rr \in WordRegisters \cup {"AF"}
  PROVE  WideRegister(s, rr) \in Words
<1>1. CASE rr = "AF"
  BY <1>1, StateParts, FlagsAreByte, WordOfHalves DEF WideRegister
<1>2. CASE rr # "AF"
  BY <1>2, PairIsWord DEF WideRegister
<1> QED BY <1>1, <1>2

\* A pair that is popped may hold any word.
LEMMA PairChanged ==
  ASSUME NEW s \in CpuState, NEW rr \in WordRegisters \cup {"AF"}, NEW w \in Words
  PROVE  SetWideRegister(s, rr, w) \in CpuState
<1>1. CASE rr = "AF"
  <2>1. High(w) \in Byte /\ FlagsOf(Low(w)) \in SUBSET Flags
    BY HalvesOfWord, FlagsAreByte
  <2>2. SetWideRegister(s, rr, w) = [s EXCEPT !.A = High(w), !.F = FlagsOf(Low(w))]
    BY <1>1 DEF SetWideRegister
  <2> QED BY <2>1, <2>2 DEF CpuState
<1>2. CASE rr # "AF"
  BY <1>2, WideChanged DEF SetWideRegister
<1> QED BY <1>1, <1>2

\* The memory is full of bytes.
FullMemory == [Words -> Byte]

\* An operand is a byte.
LEMMA OperandTyped ==
  ASSUME NEW s \in CpuState, mem \in FullMemory, NEW o \in ByteSources
  PROVE  Operand(s, o) \in Byte
<1>1. CASE o \in InRegister
  BY <1>1, ByteOfRegister DEF InRegister, Operand
<1>2. CASE o \in Immediate
  BY <1>2 DEF Immediate, Operand
<1>3. CASE o \in Absolute
  BY <1>3 DEF Absolute, Operand, Address, FullMemory
<1>4. CASE o \in [at : {"pair"}, rr : WordRegisters \ {"SP"}, d : Offsets]
  <2>1. Plus(s[o.rr], o.d) \in Words
    <3>1. s[o.rr] \in Words
      BY <1>4, PairIsWord
    <3>2. o.d \in Int
      BY <1>4 DEF Offsets
    <3> QED BY <3>1, <3>2, PlusIsWord
  <2> QED BY <1>4, <2>1 DEF Operand, Address, FullMemory
<1> QED BY <1>1, <1>2, <1>3, <1>4 DEF ByteSources, ByteTargets

\* What can be written can be read.
LEMMA TargetIsSource == ByteTargets \subseteq ByteSources
  BY DEF ByteSources

\* A byte put where an operand says.
LEMMA PutTyped ==
  ASSUME NEW s \in CpuState, mem \in FullMemory, NEW o \in ByteTargets, NEW b \in Byte
  PROVE  PutRegister(s, o, b) \in CpuState /\ PutMemory(s, o, b) \in FullMemory
<1>1. CASE o \in InRegister
  BY <1>1, RegisterChanged DEF InRegister, PutRegister, PutMemory
<1>2. CASE o \in Absolute
  BY <1>2 DEF Absolute, PutRegister, PutMemory, Address, FullMemory
<1>3. CASE o \in [at : {"pair"}, rr : WordRegisters \ {"SP"}, d : Offsets]
  <2>1. Plus(s[o.rr], o.d) \in Words
    <3>1. s[o.rr] \in Words
      BY <1>3, PairIsWord
    <3>2. o.d \in Int
      BY <1>3 DEF Offsets
    <3> QED BY <3>1, <3>2, PlusIsWord
  <2> QED BY <1>3, <2>1 DEF PutRegister, PutMemory, Address, FullMemory
<1> QED BY <1>1, <1>2, <1>3 DEF ByteTargets

\* Two cells of memory hold a word.
LEMMA WordInMemory ==
  ASSUME mem \in FullMemory, NEW w \in Words
  PROVE  WideAt(w) \in Words
<1>1. Plus(w, 1) \in Words
  BY PlusIsWord
<1>2. mem[w] \in Byte /\ mem[Plus(w, 1)] \in Byte
  BY <1>1 DEF FullMemory
<1> QED BY <1>2, ByteIs, WordIs DEF WideAt

\* A wide operand is a word.
LEMMA WideOperandTyped ==
  ASSUME NEW s \in CpuState, mem \in FullMemory, NEW o \in WordSources
  PROVE  WideOperand(s, o) \in Words
<1>1. CASE o \in [at : {"register"}, rr : WordRegisters]
  BY <1>1, WordOfPair DEF WideOperand
<1>2. CASE o \in Absolute
  BY <1>2, WordInMemory DEF Absolute, WideOperand
<1>3. CASE o \in [at : {"immediate"}, nn : Words]
  BY <1>3 DEF WideOperand
<1> QED BY <1>1, <1>2, <1>3 DEF WordSources, WordTargets

\* A word pushed changes cells to bytes.
LEMMA PushTyped ==
  ASSUME NEW s \in CpuState, NEW m \in FullMemory, NEW w \in Words
  PROVE  Push(s, w, m) \in FullMemory
<1>1. Plus(s.SP, -1) \in Words /\ Plus(s.SP, -2) \in Words
  BY StateParts, PlusIsWord
<1> QED BY <1>1, HalvesOfWord DEF Push, FullMemory

(***************************************************************************)
(* One step.                                                               *)
(***************************************************************************)
\* The machine's own memory has a byte, and an instruction, at every address.
Filled ==
  \A g \in Guests : Data(g) \in FullMemory /\ DOMAIN Code(g) = Words

CpuInv == CpuTypeOK /\ mem \in FullMemory

\* The end of a step, with an interrupt or without.
LEMMA FinishTyped ==
  ASSUME NEW new \in CpuState, NEW m \in FullMemory, panicked \in BOOLEAN, Finish(new, m)
  PROVE  cpu' \in CpuState /\ mem' \in FullMemory /\ panicked' \in BOOLEAN
<1>1. CASE cpu' = new /\ mem' = m /\ UNCHANGED panicked
  BY <1>1
<1>2. CASE cpu' = [new EXCEPT !.halted = FALSE] /\ mem' = m /\ UNCHANGED panicked
  BY <1>2 DEF CpuState
<1>3. CASE /\ cpu' = [new EXCEPT !.halted = FALSE, !.iff1 = FALSE, !.iff2 = FALSE,
                                 !.SP = Plus(@, -2), !.PC = 56]
           /\ mem' = Push(new, new.PC, m) /\ UNCHANGED panicked
  <2>1. Plus(new.SP, -2) \in Words /\ 56 \in Words /\ new.PC \in Words
    <3>1. new.SP \in Words /\ new.PC \in Words /\ -2 \in Int
      BY StateParts
    <3>2. Plus(new.SP, -2) \in Words
      BY <3>1, PlusIsWord
    <3> QED BY <3>1, <3>2, WordIs
  <2>2. cpu' \in CpuState
    BY <1>3, <2>1 DEF CpuState
  <2>3. mem' \in FullMemory
    BY <1>3, <2>1, PushTyped
  <2> QED BY <1>3, <2>2, <2>3
<1>4. CASE /\ cpu' = [new EXCEPT !.halted = FALSE, !.iff1 = FALSE, !.iff2 = FALSE]
           /\ mem' = m /\ panicked' = TRUE
  BY <1>4 DEF CpuState
<1> QED BY <1>1, <1>2, <1>3, <1>4 DEF Finish

\* The invariant after a step, from the types of what it computes.
LEMMA TypedAfter ==
  ASSUME CpuInv, NEW new \in CpuState, NEW m \in FullMemory, Finish(new, m),
         guest' = guest, line' \in BOOLEAN, raised' = raised,
         output' \in Seq([port : Byte, data : Byte])
  PROVE  CpuInv'
<1>1. cpu' \in CpuState /\ mem' \in FullMemory /\ panicked' \in BOOLEAN
  BY FinishTyped DEF CpuInv, CpuTypeOK
<1>2. (\A w \in DOMAIN mem : w \in Words /\ mem[w] \in Byte)'
  BY <1>1 DEF FullMemory
<1> QED BY <1>1, <1>2 DEF CpuInv, CpuTypeOK

\* The invariant after a step that touches no port.
LEMMA ExecuteTyped ==
  ASSUME CpuInv, NEW ops, NEW new \in CpuState, NEW m \in FullMemory, Execute(ops, new, m)
  PROVE  CpuInv'
<1>1. Finish(new, m) /\ guest' = guest /\ line' = line /\ raised' = raised
      /\ output' = output
  BY DEF Execute
<1>2. line \in BOOLEAN /\ output \in Seq([port : Byte, data : Byte])
  BY DEF CpuInv, CpuTypeOK
<1> QED BY <1>1, <1>2, TypedAfter

\* What a step starts from.
LEMMA FetchTyped ==
  ASSUME Filled, CpuInv
  PROVE  Fetched \in CpuState /\ WellFormed(Insn) /\ mem \in FullMemory
<1>1. cpu \in CpuState /\ guest \in Guests
  BY DEF CpuInv, CpuTypeOK
<1>2. cpu.PC \in DOMAIN Code(guest)
  BY <1>1, StateParts DEF Filled
<1>3. WellFormed(Insn)
  BY <1>1, <1>2, CodeAssumption DEF Insn
<1>4. Woken \in CpuState
  BY <1>1 DEF Woken, CpuState
<1>5. Plus(Woken.PC, Insn.len) \in Words
  <2>1. Insn.len \in Nat
    BY <1>3, Zenon DEF WellFormed
  <2> QED BY <1>4, <2>1, StateParts, PlusIsWord
<1>6. Fetched \in CpuState
  BY <1>4, <1>5, Changed DEF Fetched
<1> QED BY <1>3, <1>6 DEF CpuInv

\* The invariant is kept by each family of instructions: loads,
LEMMA LoadsTyped ==
  ASSUME Filled, CpuInv, Load \/ LoadWide \/ LoadAI
  PROVE  CpuInv'
<1>1. Fetched \in CpuState /\ WellFormed(Insn) /\ mem \in FullMemory
  BY FetchTyped
<1>2. CASE Load
  <2>1. Insn.dst \in ByteTargets /\ Insn.src \in ByteSources
    BY <1>1, <1>2 DEF Load, Execute, WellFormed
  <2>2. PICK b \in Byte : b = Operand(Fetched, Insn.src)
    BY <1>1, <2>1, OperandTyped
  <2>3. /\ PutRegister(Fetched, Insn.dst, b) \in CpuState
        /\ PutMemory(Fetched, Insn.dst, b) \in FullMemory
    BY <1>1, <2>1, PutTyped
  <2>4. Execute({"ld"}, PutRegister(Fetched, Insn.dst, b), PutMemory(Fetched, Insn.dst, b))
    BY <1>2, <2>2 DEF Load
  <2> QED BY <2>3, <2>4, ExecuteTyped
<1>3. CASE LoadWide
  <2>1. Insn.op = "ld16"
    BY <1>3 DEF LoadWide
  <2>2. Insn.dst \in WordTargets /\ Insn.src \in WordSources
    BY <1>1, <2>1 DEF WellFormed
  <2>3. PICK w \in Words : w = WideOperand(Fetched, Insn.src)
    BY <1>1, <2>2, WideOperandTyped
  <2>4. CASE /\ Insn.dst.at = "register"
             /\ Execute({"ld16"}, SetWideRegister(Fetched, Insn.dst.rr, w), mem)
    <3>1. Insn.dst.rr \in WordRegisters \cup {"AF"}
      BY <2>2, <2>4 DEF WordTargets, Absolute
    <3>2. SetWideRegister(Fetched, Insn.dst.rr, w) \in CpuState
      BY <1>1, <3>1, PairChanged
    <3> QED BY <1>1, <2>4, <3>2, ExecuteTyped
  <2>5. CASE /\ Insn.dst.at = "absolute"
             /\ Execute({"ld16"}, Fetched,
                        [mem EXCEPT ![Insn.dst.nn] = Low(w),
                                    ![Plus(Insn.dst.nn, 1)] = High(w)])
    <3>1. Insn.dst.nn \in Words
      BY <2>2, <2>5 DEF WordTargets, Absolute
    <3>2. [mem EXCEPT ![Insn.dst.nn] = Low(w), ![Plus(Insn.dst.nn, 1)] = High(w)]
            \in FullMemory
      BY <1>1, <3>1, HalvesOfWord DEF FullMemory
    <3> QED BY <1>1, <2>5, <3>2, ExecuteTyped
  <2> QED BY <1>3, <2>3, <2>4, <2>5 DEF LoadWide
<1>4. CASE LoadAI
  <2> DEFINE flags == (Fetched.F \cap {"C"}) \cup SignZero(Fetched.I)
                        \cup When("PV", Fetched.iff2)
             new == [Fetched EXCEPT !.A = Fetched.I, !.F = flags]
  <2>1. flags \in SUBSET Flags
    BY AreFlags
  <2>2. new \in CpuState
    <3> HIDE DEF flags
    <3> QED BY <1>1, <2>1, StateParts DEF CpuState
  <2>3. Execute({"ld_a_i"}, new, mem)
    BY <1>1, <1>4 DEF LoadAI, CpuState
  <2> QED BY <1>1, <2>2, <2>3, ExecuteTyped
<1> QED BY <1>2, <1>3, <1>4

\* exchanges,
LEMMA ExchangesTyped ==
  ASSUME Filled, CpuInv, ExchangeAF \/ ExchangeExtra \/ ExchangeDEHL
  PROVE  CpuInv'
<1>1. Fetched \in CpuState /\ mem \in FullMemory
  BY FetchTyped
<1>2. CASE ExchangeAF
  <2> DEFINE new == [Fetched EXCEPT !.A = Fetched.prime.A, !.F = Fetched.prime.F,
                                    !.prime.A = Fetched.A, !.prime.F = Fetched.F]
  <2>1. new \in CpuState
    BY <1>1 DEF CpuState
  <2>2. Execute({"ex_af"}, new, mem)
    BY <1>2 DEF ExchangeAF
  <2> QED BY <1>1, <2>1, <2>2, ExecuteTyped
<1>3. CASE ExchangeExtra
  <2> DEFINE new == [Fetched EXCEPT !.BC = Fetched.prime.BC, !.DE = Fetched.prime.DE,
                          !.HL = Fetched.prime.HL, !.prime.BC = Fetched.BC,
                          !.prime.DE = Fetched.DE, !.prime.HL = Fetched.HL]
  <2>1. new \in CpuState
    BY <1>1 DEF CpuState
  <2>2. Execute({"exx"}, new, mem)
    BY <1>3 DEF ExchangeExtra
  <2> QED BY <1>1, <2>1, <2>2, ExecuteTyped
<1>4. CASE ExchangeDEHL
  <2> DEFINE new == [Fetched EXCEPT !.DE = Fetched.HL, !.HL = Fetched.DE]
  <2>1. new \in CpuState
    BY <1>1 DEF CpuState
  <2>2. Execute({"ex_de_hl"}, new, mem)
    BY <1>4 DEF ExchangeDEHL
  <2> QED BY <1>1, <2>1, <2>2, ExecuteTyped
<1> QED BY <1>2, <1>3, <1>4

\* A result that goes to the flags, and to A or back to its operand.
LEMMA ResultInA ==
  ASSUME NEW s \in CpuState, NEW r, Result(r)
  PROVE  [s EXCEPT !.A = r.x, !.F = r.f] \in CpuState
  BY DEF Result, CpuState

\* an operand changed in place, with a copy or without,
LEMMA UpdateTyped ==
  ASSUME Filled, CpuInv, NEW op \in {"inc", "dec", "shift", "res", "set"}, NEW r, Result(r),
         Update({op}, r)
  PROVE  CpuInv'
<1>1. Fetched \in CpuState /\ WellFormed(Insn) /\ mem \in FullMemory
  BY FetchTyped
<1>2. Insn.op = op
  BY DEF Update, Execute
<1>3. Insn.dst \in ByteTargets /\ Insn.copy \in ByteRegisters \cup {"none"}
  BY <1>1, <1>2 DEF WellFormed
<1> DEFINE s == [Fetched EXCEPT !.F = r.f]
           new == IF Insn.copy = "none" THEN PutRegister(s, Insn.dst, r.x)
                                        ELSE SetRegister(s, Insn.copy, r.x)
           m == PutMemory(Fetched, Insn.dst, r.x)
<1>4. s \in CpuState
  BY <1>1, Changed DEF Result
<1>5. r.x \in Byte
  BY DEF Result
<1>6. Execute({op}, new, m)
  BY DEF Update
<1> HIDE DEF s
<1>7. PutRegister(s, Insn.dst, r.x) \in CpuState
  BY <1>1, <1>3, <1>4, <1>5, PutTyped
<1>8. Insn.copy # "none" => SetRegister(s, Insn.copy, r.x) \in CpuState
  BY <1>3, <1>4, <1>5, RegisterChanged
<1>9. new \in CpuState
  BY <1>7, <1>8
<1>10. m \in FullMemory
  BY <1>1, <1>3, <1>5, PutTyped
<1> HIDE DEF new, m
<1> QED BY <1>6, <1>9, <1>10, ExecuteTyped

\* (which was a byte before)
LEMMA BeforeTyped ==
  ASSUME Filled, CpuInv, Insn.op \in {"inc", "dec", "shift", "res", "set", "bit"}
  PROVE  Before \in Byte
<1>1. Fetched \in CpuState /\ WellFormed(Insn) /\ mem \in FullMemory
  BY FetchTyped
<1>2. Insn.dst \in ByteSources
  BY <1>1, TargetIsSource DEF WellFormed
<1> QED BY <1>1, <1>2, OperandTyped DEF Before

\* arithmetic in A,
LEMMA ArithmeticTypedStep ==
  ASSUME Filled, CpuInv, ArithmeticA \/ AccumulatorOnly
  PROVE  CpuInv'
<1>1. Fetched \in CpuState /\ WellFormed(Insn) /\ mem \in FullMemory
  BY FetchTyped
<1>2. Fetched.A \in Byte /\ Fetched.F \in SUBSET Flags
  BY <1>1, StateParts
<1>3. CASE ArithmeticA
  <2>1. Insn.op \in MathNames
    BY <1>3 DEF ArithmeticA, Execute, MathNames
  <2>2. Insn.src \in ByteSources
    BY <1>1, <2>1 DEF WellFormed
  <2>3. PICK b \in Byte : b = Operand(Fetched, Insn.src)
    BY <1>1, <2>2, OperandTyped
  <2>4. PICK r : r = Arithmetic(Insn.op, Fetched.A, b, Fetched.F)
    OBVIOUS
  <2>5. Result(r)
    BY <1>2, <2>1, <2>4, ArithmeticTyped
  <2>6. Execute({"add", "adc", "sub", "sbc", "and", "xor", "or", "cp"},
                [Fetched EXCEPT !.A = r.x, !.F = r.f], mem)
    BY <1>3, <2>3, <2>4 DEF ArithmeticA
  <2> QED BY <1>1, <2>5, <2>6, ResultInA, ExecuteTyped
<1>4. CASE AccumulatorOnly
  <2>1. Insn.op = "a"
    BY <1>4 DEF AccumulatorOnly, Execute
  <2>2. Insn.how \in ANames
    BY <1>1, <2>1 DEF WellFormed
  <2>3. PICK r : r = AdjustA(Insn.how, Fetched.A, Fetched.F)
    OBVIOUS
  <2>4. Result(r)
    BY <1>2, <2>2, <2>3, AdjustTyped
  <2>5. Execute({"a"}, [Fetched EXCEPT !.A = r.x, !.F = r.f], mem)
    BY <1>4, <2>3 DEF AccumulatorOnly
  <2> QED BY <1>1, <2>4, <2>5, ResultInA, ExecuteTyped
<1> QED BY <1>3, <1>4

\* all that change an operand in place,
LEMMA UpdatesTyped ==
  ASSUME Filled, CpuInv,
         Increment \/ Decrement \/ ShiftOperand \/ ResetOperand \/ SetOperand
  PROVE  CpuInv'
<1>1. WellFormed(Insn) /\ Fetched.F \in SUBSET Flags
  BY FetchTyped, StateParts
<1>2. CASE Increment
  <2>1. Insn.op = "inc"
    BY <1>2 DEF Increment, Update, Execute
  <2>2. Result(Inc(Before, Fetched.F))
    BY <1>1, <2>1, BeforeTyped, CountTyped
  <2> QED BY <1>2, <2>2, UpdateTyped DEF Increment
<1>3. CASE Decrement
  <2>1. Insn.op = "dec"
    BY <1>3 DEF Decrement, Update, Execute
  <2>2. Result(Dec(Before, Fetched.F))
    BY <1>1, <2>1, BeforeTyped, CountTyped
  <2> QED BY <1>3, <2>2, UpdateTyped DEF Decrement
<1>4. CASE ShiftOperand
  <2>1. Insn.op = "shift"
    BY <1>4 DEF ShiftOperand, Update, Execute
  <2>2. Insn.how \in ShiftNames
    BY <1>1, <2>1 DEF WellFormed
  <2>3. Result(Shift(Insn.how, Before, Fetched.F))
    BY <1>1, <2>1, <2>2, BeforeTyped, ShiftTyped
  <2> QED BY <1>4, <2>3, UpdateTyped DEF ShiftOperand
<1>5. CASE ResetOperand
  <2>1. Insn.op = "res"
    BY <1>5 DEF ResetOperand, Update, Execute
  <2>2. Insn.bit \in 0 .. 7
    BY <1>1, <2>1 DEF WellFormed
  <2>3. ResetBit(Insn.bit, Before) \in Byte
    BY <2>1, <2>2, BeforeTyped, BitFits
  <2>4. Result([x |-> ResetBit(Insn.bit, Before), f |-> Fetched.F])
    BY <1>1, <2>3 DEF Result
  <2> QED BY <1>5, <2>4, UpdateTyped DEF ResetOperand
<1>6. CASE SetOperand
  <2>1. Insn.op = "set"
    BY <1>6 DEF SetOperand, Update, Execute
  <2>2. Insn.bit \in 0 .. 7
    BY <1>1, <2>1 DEF WellFormed
  <2>3. SetBit(Insn.bit, Before) \in Byte
    BY <2>1, <2>2, BeforeTyped, BitFits
  <2>4. Result([x |-> SetBit(Insn.bit, Before), f |-> Fetched.F])
    BY <1>1, <2>3 DEF Result
  <2> QED BY <1>6, <2>4, UpdateTyped DEF SetOperand
<1> QED BY <1>2, <1>3, <1>4, <1>5, <1>6

\* the test of a bit, rotations of digits, and words,
LEMMA OthersTyped ==
  ASSUME Filled, CpuInv, TestOperand \/ RotateDigits \/ CountWide \/ ArithmeticPair
  PROVE  CpuInv'
<1>1. Fetched \in CpuState /\ WellFormed(Insn) /\ mem \in FullMemory
  BY FetchTyped
<1>2. Fetched.A \in Byte /\ Fetched.F \in SUBSET Flags /\ Fetched.HL \in Words
  BY <1>1, StateParts
<1>3. CASE TestOperand
  <2>1. PICK flags \in SUBSET Flags : flags = TestBit(Insn.bit, Before, Fetched.F)
    BY <1>2, OtherFlags
  <2>2. Execute({"bit"}, [Fetched EXCEPT !.F = flags], mem)
    BY <1>1, <1>3, <2>1 DEF TestOperand, CpuState
  <2> QED BY <1>1, <2>2, Changed, ExecuteTyped
<1>4. CASE RotateDigits
  <2>1. PICK b \in Byte : b = mem[Fetched.HL]
    BY <1>1, <1>2 DEF FullMemory
  <2>2. PICK r : r = IF Insn.how = "rld" THEN Rld(Fetched.A, b, Fetched.F)
                                         ELSE Rrd(Fetched.A, b, Fetched.F)
    OBVIOUS
  <2>3. Result(r) /\ r.m \in Byte
    BY <1>2, <2>2, DigitsTyped
  <2>4. Execute({"digits"}, [Fetched EXCEPT !.A = r.x, !.F = r.f],
                [mem EXCEPT ![Fetched.HL] = r.m])
    BY <1>4, <2>1, <2>2 DEF RotateDigits
  <2>5. [mem EXCEPT ![Fetched.HL] = r.m] \in FullMemory
    BY <1>1, <1>2, <2>3 DEF FullMemory
  <2> QED BY <1>1, <2>3, <2>4, <2>5, ResultInA, ExecuteTyped
<1>5. CASE CountWide
  <2>1. Insn.rr \in WordRegisters
    BY <1>1, <1>5 DEF CountWide, Execute, WellFormed
  <2>2. PICK d \in Int : d = IF Insn.op = "inc16" THEN 1 ELSE -1
    OBVIOUS
  <2>3. Plus(Fetched[Insn.rr], d) \in Words
    BY <1>1, <2>1, PairIsWord, PlusIsWord
  <2>4. Insn.rr \in DOMAIN Fetched
    BY <1>1, <2>1 DEF WordRegisters, CpuState
  <2>5. Execute({"inc16", "dec16"},
                [Fetched EXCEPT ![Insn.rr] = Plus(Fetched[Insn.rr], d)], mem)
    BY <1>5, <2>2, <2>4 DEF CountWide
  <2> QED BY <1>1, <2>1, <2>3, <2>5, WideChanged, ExecuteTyped
<1>6. CASE ArithmeticPair
  <2>1. /\ Insn.how \in {"add", "adc", "sbc"}
        /\ Insn.rr \in WordRegisters /\ Insn.src \in WordRegisters
    BY <1>1, <1>6 DEF ArithmeticPair, Execute, WellFormed
  <2>2. PICK r : r = ArithmeticWide(Insn.how, Fetched[Insn.rr], Fetched[Insn.src], Fetched.F)
    OBVIOUS
  <2>3. r.x \in Words /\ r.f \in SUBSET Flags
    BY <1>1, <1>2, <2>1, <2>2, PairIsWord, WideTyped
  <2>4. Execute({"wide"}, [Fetched EXCEPT ![Insn.rr] = r.x, !.F = r.f], mem)
    BY <1>6, <2>2 DEF ArithmeticPair
  <2>5. [Fetched EXCEPT ![Insn.rr] = r.x] \in CpuState
    BY <1>1, <2>1, <2>3, WideChanged
  <2>6. [[Fetched EXCEPT ![Insn.rr] = r.x] EXCEPT !.F = r.f] \in CpuState
    BY <2>3, <2>5, Changed
  <2> QED BY <1>1, <2>4, <2>6, ExecuteTyped
<1> QED BY <1>3, <1>4, <1>5, <1>6

\* jumps,
LEMMA JumpsTyped ==
  ASSUME Filled, CpuInv, Jump \/ JumpRelative \/ JumpIndirect \/ Djnz
  PROVE  CpuInv'
<1>1. Fetched \in CpuState /\ WellFormed(Insn) /\ mem \in FullMemory
  BY FetchTyped
<1>2. Fetched.PC \in Words
  BY <1>1, StateParts
<1>3. CASE Jump
  <2>1. Insn.nn \in Words
    BY <1>1, <1>3 DEF Jump, Execute, WellFormed
  <2>2. [Fetched EXCEPT !.PC = Insn.nn] \in CpuState
    BY <1>1, <2>1, Changed
  <2>3. PICK new \in CpuState : Execute({"jp"}, new, mem)
    BY <1>1, <1>3, <2>2 DEF Jump
  <2> QED BY <1>1, <2>3, ExecuteTyped
<1>4. CASE JumpRelative
  <2>1. Insn.op = "jr"
    BY <1>4 DEF JumpRelative, Execute
  <2>2. Insn.e \in Int
    BY <1>1, <2>1 DEF WellFormed, Offsets
  <2>3. [Fetched EXCEPT !.PC = Plus(Fetched.PC, Insn.e)] \in CpuState
    BY <1>1, <1>2, <2>2, PlusIsWord, Changed
  <2>4. [Fetched EXCEPT !.PC = Plus(@, Insn.e)] = [Fetched EXCEPT !.PC = Plus(Fetched.PC, Insn.e)]
    BY <1>1 DEF CpuState
  <2>5. PICK new \in CpuState : Execute({"jr"}, new, mem)
    BY <1>1, <1>4, <2>3, <2>4 DEF JumpRelative
  <2> QED BY <1>1, <2>5, ExecuteTyped
<1>5. CASE JumpIndirect
  <2>1. Insn.op = "jp_(rr)"
    BY <1>5 DEF JumpIndirect, Execute
  <2>2. Insn.rr \in WordRegisters
    BY <1>1, <2>1 DEF WellFormed
  <2>3. WideAt(Fetched[Insn.rr]) \in Words
    BY <1>1, <2>2, PairIsWord, WordInMemory
  <2>4. [Fetched EXCEPT !.PC = WideAt(Fetched[Insn.rr])] \in CpuState
    BY <1>1, <2>3, Changed
  <2> QED BY <1>1, <1>5, <2>4, ExecuteTyped DEF JumpIndirect
<1>6. CASE Djnz
  <2>1. Insn.op = "djnz"
    BY <1>6 DEF Djnz, Execute
  <2>2. Insn.e \in Int
    BY <1>1, <2>1 DEF WellFormed, Offsets
  <2>3. "B" \in ByteRegisters
    BY DEF ByteRegisters
  <2>4. PICK b \in Byte : b = (Register(Fetched, "B") + 255) % 256
    BY <1>1, <2>3, ByteOfRegister, Wrapped, ByteIs
  <2>5. PICK s \in CpuState : s = SetRegister(Fetched, "B", b)
    BY <1>1, <2>3, RegisterChanged
  <2>6. [s EXCEPT !.PC = Plus(s.PC, Insn.e)] \in CpuState
    BY <2>2, StateParts, PlusIsWord, Changed
  <2>7. [s EXCEPT !.PC = Plus(@, Insn.e)] = [s EXCEPT !.PC = Plus(s.PC, Insn.e)]
    BY DEF CpuState
  <2>8. PICK new \in CpuState : Execute({"djnz"}, new, mem)
    BY <1>6, <2>4, <2>5, <2>6, <2>7 DEF Djnz
  <2> QED BY <1>1, <2>8, ExecuteTyped
<1> QED BY <1>3, <1>4, <1>5, <1>6

\* The stack pointer moves by two.
LEMMA StackMoves ==
  ASSUME NEW s \in CpuState
  PROVE  /\ \A w \in Words : [s EXCEPT !.SP = Plus(@, -2), !.PC = w] \in CpuState
         /\ [s EXCEPT !.SP = Plus(@, -2)] \in CpuState
         /\ Popped(s) \in CpuState
<1>1. Plus(s.SP, -2) \in Words /\ Plus(s.SP, 2) \in Words
  <2>1. s.SP \in Words /\ -2 \in Int /\ 2 \in Int
    BY StateParts
  <2> QED BY <2>1, PlusIsWord
<1> QED BY <1>1 DEF Popped, CpuState

\* (what a return goes back to is an address)
LEMMA ReturnTyped ==
  ASSUME NEW s \in CpuState, mem \in FullMemory
  PROVE  Returned(s) \in CpuState
<1>1. WideAt(s.SP) \in Words
  BY StateParts, WordInMemory
<1> QED BY <1>1, StackMoves, Changed DEF Returned

\* calls and returns,
LEMMA CallsTyped ==
  ASSUME Filled, CpuInv, Call \/ Return \/ ReturnFromInterrupt \/ Reset
  PROVE  CpuInv'
<1>1. Fetched \in CpuState /\ WellFormed(Insn) /\ mem \in FullMemory
  BY FetchTyped
<1>2. Push(Fetched, Fetched.PC, mem) \in FullMemory
  BY <1>1, StateParts, PushTyped
<1>3. CASE Call
  <2>1. Insn.nn \in Words
    BY <1>1, <1>3 DEF Call, Execute, WellFormed
  <2>2. [Fetched EXCEPT !.SP = Plus(@, -2), !.PC = Insn.nn] \in CpuState
    BY <1>1, <2>1, StackMoves
  <2>3. PICK new \in CpuState, m \in FullMemory : Execute({"call"}, new, m)
    BY <1>1, <1>2, <1>3, <2>2 DEF Call
  <2> QED BY <2>3, ExecuteTyped
<1>4. CASE Return
  <2>1. PICK new \in CpuState : Execute({"ret"}, new, mem)
    BY <1>1, <1>4, ReturnTyped DEF Return
  <2> QED BY <1>1, <2>1, ExecuteTyped
<1>5. CASE ReturnFromInterrupt
  <2>1. Returned(Fetched) \in CpuState /\ Fetched.iff2 \in BOOLEAN
    BY <1>1, ReturnTyped, StateParts
  <2>2. [Returned(Fetched) EXCEPT !.iff1 = Fetched.iff2] \in CpuState
    BY <2>1 DEF CpuState
  <2> QED BY <1>1, <1>5, <2>2, ExecuteTyped DEF ReturnFromInterrupt
<1>6. CASE Reset
  <2>1. Insn.op = "rst"
    BY <1>6 DEF Reset, Execute
  <2>2. Insn.nn \in Words
    BY <1>1, <2>1 DEF WellFormed
  <2>3. [Fetched EXCEPT !.SP = Plus(@, -2), !.PC = Insn.nn] \in CpuState
    BY <1>1, <2>2, StackMoves
  <2> QED BY <1>2, <1>6, <2>3, ExecuteTyped DEF Reset
<1> QED BY <1>3, <1>4, <1>5, <1>6

\* the stack,
LEMMA StackTyped ==
  ASSUME Filled, CpuInv, PushRegister \/ Pop \/ ExchangeStack
  PROVE  CpuInv'
<1>1. Fetched \in CpuState /\ WellFormed(Insn) /\ mem \in FullMemory
  BY FetchTyped
<1>2. WideAt(Fetched.SP) \in Words
  BY <1>1, StateParts, WordInMemory
<1>3. CASE PushRegister
  <2>1. Insn.rr \in WordRegisters \cup {"AF"}
    BY <1>1, <1>3 DEF PushRegister, Execute, WellFormed
  <2>2. Push(Fetched, WideRegister(Fetched, Insn.rr), mem) \in FullMemory
    BY <1>1, <2>1, WordOfPair, PushTyped
  <2> QED BY <1>1, <1>3, <2>2, StackMoves, ExecuteTyped DEF PushRegister
<1>4. CASE Pop
  <2>1. Insn.rr \in WordRegisters \cup {"AF"}
    BY <1>1, <1>4 DEF Pop, Execute, WellFormed
  <2>2. SetWideRegister(Popped(Fetched), Insn.rr, WideAt(Fetched.SP)) \in CpuState
    BY <1>1, <1>2, <2>1, StackMoves, PairChanged
  <2> QED BY <1>1, <1>4, <2>2, ExecuteTyped DEF Pop
<1>5. CASE ExchangeStack
  <2>1. Insn.rr \in WordRegisters
    BY <1>1, <1>5 DEF ExchangeStack, Execute, WellFormed
  <2>2. Push(Popped(Fetched), Fetched[Insn.rr], mem) \in FullMemory
    BY <1>1, <2>1, PairIsWord, StackMoves, PushTyped
  <2>3. [Fetched EXCEPT ![Insn.rr] = WideAt(Fetched.SP)] \in CpuState
    BY <1>1, <1>2, <2>1, WideChanged
  <2> QED BY <1>5, <2>2, <2>3, ExecuteTyped DEF ExchangeStack
<1> QED BY <1>3, <1>4, <1>5

\* Going back over the two bytes of a repeated instruction.
LEMMA AgainTyped ==
  ASSUME NEW s \in CpuState, NEW more
  PROVE  Again(s, more) \in CpuState
<1>1. s.PC \in Words /\ -2 \in Int
  BY StateParts
<1>2. Plus(s.PC, -2) \in Words
  BY <1>1, PlusIsWord
<1> QED BY <1>2 DEF Again, CpuState

\* moves of blocks and searches,
LEMMA BlocksTyped ==
  ASSUME Filled, CpuInv, BlockCopy \/ BlockSearch
  PROVE  CpuInv'
<1>1. Fetched \in CpuState /\ mem \in FullMemory
  BY FetchTyped
<1>2. PICK h \in Words, d \in Words, b \in Words :
        h = Plus(Fetched.HL, Sign) /\ d = Plus(Fetched.DE, Sign) /\ b = Plus(Fetched.BC, -1)
  <2>1. Sign \in Int /\ -1 \in Int
    BY DEF Sign
  <2>2. Fetched.HL \in Words /\ Fetched.DE \in Words /\ Fetched.BC \in Words
    BY <1>1, StateParts
  <2> QED BY <2>1, <2>2, PlusIsWord
<1>3. CASE BlockCopy
  <2> DEFINE s == [Fetched EXCEPT !.HL = h, !.DE = d, !.BC = b]
             t == [Fetched EXCEPT !.HL = Plus(@, Sign), !.DE = Plus(@, Sign),
                                  !.BC = Plus(@, -1)]
  <2>1. s \in CpuState /\ t = s
    BY <1>1, <1>2 DEF CpuState
  <2>2. [s EXCEPT !.F = CopyFlags(s.BC, @)] \in CpuState
    <3> HIDE DEF s
    <3>1. PICK flags \in SUBSET Flags : flags = CopyFlags(s.BC, s.F)
      BY <2>1, StateParts, OtherFlags
    <3>2. [s EXCEPT !.F = CopyFlags(s.BC, @)] = [s EXCEPT !.F = flags]
      BY <2>1, <3>1 DEF CpuState
    <3> QED BY <2>1, <3>1, <3>2, Changed
  <2>3. [mem EXCEPT ![Fetched.DE] = mem[Fetched.HL]] \in FullMemory
    BY <1>1, StateParts DEF FullMemory
  <2> HIDE DEF s
  <2>4. PICK new \in CpuState, m \in FullMemory : Execute({"ldi"}, new, m)
    BY <1>3, <2>1, <2>2, <2>3, AgainTyped DEF BlockCopy
  <2> QED BY <2>4, ExecuteTyped
<1>4. CASE BlockSearch
  <2> DEFINE s == [Fetched EXCEPT !.HL = h, !.BC = b]
             t == [Fetched EXCEPT !.HL = Plus(@, Sign), !.BC = Plus(@, -1)]
  <2>1. s \in CpuState /\ t = s
    BY <1>1, <1>2 DEF CpuState
  <2>2. [s EXCEPT !.F = SearchFlags(s.A, mem[Fetched.HL], s.BC, @)] \in CpuState
    <3> HIDE DEF s
    <3>1. PICK flags \in SUBSET Flags : flags = SearchFlags(s.A, mem[Fetched.HL], s.BC, s.F)
      BY <2>1, StateParts, OtherFlags
    <3>2. [s EXCEPT !.F = SearchFlags(s.A, mem[Fetched.HL], s.BC, @)]
            = [s EXCEPT !.F = flags]
      BY <2>1, <3>1 DEF CpuState
    <3> QED BY <2>1, <3>1, <3>2, Changed
  <2> HIDE DEF s
  <2>3. PICK new \in CpuState : Execute({"cpi"}, new, mem)
    BY <1>4, <2>1, <2>2, AgainTyped DEF BlockSearch
  <2> QED BY <1>1, <2>3, ExecuteTyped
<1> QED BY <1>3, <1>4

\* (the counter and the pointer of block input and output)
LEMMA BlockPortTyped ==
  ASSUME NEW s \in CpuState
  PROVE  BlockPort(s) \in CpuState
<1>1. "B" \in ByteRegisters /\ Sign \in Int
  BY DEF ByteRegisters, Sign
<1>2. PICK b \in Byte : b = (Register(s, "B") + 255) % 256
  BY <1>1, ByteOfRegister, Wrapped, ByteIs
<1>3. PICK h \in Words : h = Plus(s.HL, Sign)
  BY <1>1, StateParts, PlusIsWord
<1>4. [s EXCEPT !.HL = Plus(@, Sign)] \in CpuState
  <2>1. [s EXCEPT !.HL = Plus(@, Sign)] = [s EXCEPT !.HL = h]
    BY <1>3 DEF CpuState
  <2> QED BY <2>1, Changed
<1>5. PICK t \in CpuState : t = SetRegister([s EXCEPT !.HL = Plus(@, Sign)], "B", b)
  BY <1>1, <1>4, RegisterChanged
<1>6. [t EXCEPT !.F = PortBlockFlags(b, @)] \in CpuState
  <2>1. PICK flags \in SUBSET Flags : flags = PortBlockFlags(b, t.F)
    BY StateParts, OtherFlags
  <2>2. [t EXCEPT !.F = PortBlockFlags(b, @)] = [t EXCEPT !.F = flags]
    BY <2>1 DEF CpuState
  <2> QED BY <2>1, <2>2, Changed
<1> QED BY <1>2, <1>5, <1>6, AgainTyped DEF BlockPort

\* input,
LEMMA InputTyped ==
  ASSUME Filled, CpuInv, Input
  PROVE  CpuInv'
<1>1. Fetched \in CpuState /\ WellFormed(Insn) /\ mem \in FullMemory
  BY FetchTyped
<1>2. PICK data \in Inputs :
        \/ /\ Insn.op = "in_a_(n)"
           /\ Receive(Insn.n, [Fetched EXCEPT !.A = data], mem)
        \/ /\ Insn.op = "in"
           /\ Receive(Register(Fetched, "C"),
                      SetRegister([Fetched EXCEPT !.F = InputFlags(data, @)], Insn.r, data),
                      mem)
        \/ /\ Insn.op = "in_(c)"
           /\ Receive(Register(Fetched, "C"), Fetched, mem)
        \/ /\ Insn.op = "ini"
           /\ Receive(Register(Fetched, "C"), BlockPort(Fetched),
                      [mem EXCEPT ![Fetched.HL] = data])
  BY DEF Input
<1>3. data \in Byte
  BY InputsAssumption
<1>4. ASSUME NEW port, NEW new \in CpuState, NEW m \in FullMemory, Receive(port, new, m)
      PROVE  CpuInv'
  <2>1. /\ Finish(new, m) /\ guest' = guest /\ raised' = raised /\ output' = output
        /\ line' = (line /\ port # Acknowledge)
    BY <1>4 DEF Receive
  <2>2. line \in BOOLEAN /\ output \in Seq([port : Byte, data : Byte])
    BY DEF CpuInv, CpuTypeOK
  <2>3. line' \in BOOLEAN
    BY <2>1, <2>2
  <2> QED BY <2>1, <2>2, <2>3, TypedAfter
<1>5. CASE Receive(Insn.n, [Fetched EXCEPT !.A = data], mem)
  BY <1>1, <1>3, <1>4, <1>5, Changed
<1>6. CASE /\ Insn.op = "in"
           /\ Receive(Register(Fetched, "C"),
                SetRegister([Fetched EXCEPT !.F = InputFlags(data, @)], Insn.r, data), mem)
  <2>1. Insn.r \in ByteRegisters
    BY <1>1, <1>6 DEF WellFormed
  <2>2. [Fetched EXCEPT !.F = InputFlags(data, @)] \in CpuState
    <3>1. PICK flags \in SUBSET Flags : flags = InputFlags(data, Fetched.F)
      BY <1>1, StateParts, OtherFlags
    <3>2. [Fetched EXCEPT !.F = InputFlags(data, @)] = [Fetched EXCEPT !.F = flags]
      BY <1>1, <3>1 DEF CpuState
    <3> QED BY <1>1, <3>1, <3>2, Changed
  <2>3. SetRegister([Fetched EXCEPT !.F = InputFlags(data, @)], Insn.r, data) \in CpuState
    BY <1>3, <2>1, <2>2, RegisterChanged
  <2> QED BY <1>1, <1>4, <1>6, <2>3
<1>7. CASE Receive(Register(Fetched, "C"), Fetched, mem)
  BY <1>1, <1>4, <1>7
<1>8. CASE Receive(Register(Fetched, "C"), BlockPort(Fetched),
                   [mem EXCEPT ![Fetched.HL] = data])
  <2>1. [mem EXCEPT ![Fetched.HL] = data] \in FullMemory
    BY <1>1, <1>3, StateParts DEF FullMemory
  <2> QED BY <1>1, <1>4, <1>8, <2>1, BlockPortTyped
<1> QED BY <1>2, <1>5, <1>6, <1>7, <1>8

\* output,
LEMMA OutputTyped ==
  ASSUME Filled, CpuInv, Output
  PROVE  CpuInv'
<1>1. Fetched \in CpuState /\ WellFormed(Insn) /\ mem \in FullMemory
  BY FetchTyped
<1>2. Register(Fetched, "C") \in Byte
  BY <1>1, ByteOfRegister DEF ByteRegisters
<1>3. ASSUME NEW port \in Byte, NEW data \in Byte, NEW new \in CpuState,
             Send(port, data, new)
      PROVE  CpuInv'
  <2>1. /\ Finish(new, mem) /\ guest' = guest /\ raised' = raised /\ line' = line
        /\ output' = Append(output, [port |-> port, data |-> data])
    BY <1>3 DEF Send
  <2>2. line \in BOOLEAN /\ output \in Seq([port : Byte, data : Byte])
    BY DEF CpuInv, CpuTypeOK
  <2>3. output' \in Seq([port : Byte, data : Byte])
    BY <2>1, <2>2
  <2>4. line' \in BOOLEAN
    BY <2>1, <2>2
  <2> QED BY <1>1, <2>1, <2>3, <2>4, TypedAfter
<1>4. CASE Insn.op = "out_(n)_a" /\ Send(Insn.n, Fetched.A, Fetched)
  <2>1. Insn.n \in Byte
    BY <1>1, <1>4 DEF WellFormed
  <2> QED BY <1>1, <1>3, <1>4, <2>1, StateParts
<1>5. CASE /\ Insn.op = "out"
           /\ Send(Register(Fetched, "C"), Operand(Fetched, Insn.src), Fetched)
  <2>1. Insn.src \in ByteSources
    BY <1>1, <1>5 DEF WellFormed
  <2>2. Operand(Fetched, Insn.src) \in Byte
    BY <1>1, <2>1, OperandTyped
  <2> QED BY <1>1, <1>2, <1>3, <1>5, <2>2
<1>6. CASE Send(Register(Fetched, "C"), mem[Fetched.HL], BlockPort(Fetched))
  <2>1. mem[Fetched.HL] \in Byte
    BY <1>1, StateParts DEF FullMemory
  <2> QED BY <1>1, <1>2, <1>3, <1>6, <2>1, BlockPortTyped
<1> QED BY <1>4, <1>5, <1>6 DEF Output

\* and what controls the CPU.
LEMMA ControlsTyped ==
  ASSUME Filled, CpuInv,
         Nop \/ Halt \/ DisableInterrupts \/ EnableInterrupts \/ SetInterruptMode
  PROVE  CpuInv'
<1>1. Fetched \in CpuState /\ WellFormed(Insn) /\ mem \in FullMemory
  BY FetchTyped
<1>2. CASE Nop
  BY <1>1, <1>2, ExecuteTyped DEF Nop
<1>3. CASE Halt
  <2>1. Fetched.PC \in Words /\ -1 \in Int
    BY <1>1, StateParts
  <2>2. Plus(Fetched.PC, -1) \in Words
    BY <2>1, PlusIsWord
  <2>3. [Fetched EXCEPT !.halted = TRUE, !.PC = Plus(@, -1)] \in CpuState
    BY <1>1, <2>2 DEF CpuState
  <2> QED BY <1>1, <1>3, <2>3, ExecuteTyped DEF Halt
<1>4. CASE DisableInterrupts
  <2>1. [Fetched EXCEPT !.iff1 = FALSE, !.iff2 = FALSE] \in CpuState
    BY <1>1 DEF CpuState
  <2> QED BY <1>1, <1>4, <2>1, ExecuteTyped DEF DisableInterrupts
<1>5. CASE EnableInterrupts
  <2>1. [Fetched EXCEPT !.enable_interrupts_next_cycle = TRUE] \in CpuState
    BY <1>1 DEF CpuState
  <2> QED BY <1>1, <1>5, <2>1, ExecuteTyped DEF EnableInterrupts
<1>6. CASE SetInterruptMode
  <2>1. Insn.mode \in Modes
    BY <1>1, <1>6 DEF SetInterruptMode, Execute, WellFormed, Modes
  <2>2. [Fetched EXCEPT !.interrupt_mode = Insn.mode] \in CpuState
    BY <1>1, <2>1 DEF CpuState
  <2> QED BY <1>1, <1>6, <2>2, ExecuteTyped DEF SetInterruptMode
<1> QED BY <1>2, <1>3, <1>4, <1>5, <1>6

\* The line raised.
LEMMA RaiseTyped ==
  ASSUME CpuInv, Raise
  PROVE  CpuInv'
<1>1. raised' \in 0 .. Raises
  BY RaisesAssumption DEF Raise, CpuInv, CpuTypeOK
<1>2. /\ guest' = guest /\ cpu' = cpu /\ mem' = mem /\ output' = output
      /\ panicked' = panicked /\ line' = TRUE
  BY DEF Raise
<1> QED BY <1>1, <1>2 DEF CpuInv, CpuTypeOK

\* Whatever is executed, every register is a byte or a word, the flags are flags and
\* the memory holds bytes: no instruction leaves the range that the code's u8 and u16
\* have, whose arithmetic the model does with numbers (cpu/mod.rs:82-107).
THEOREM CpuTyped ==
  ASSUME Filled
  PROVE  Spec => []CpuTypeOK
<1>1. Init => CpuInv
  <2> SUFFICES ASSUME Init PROVE CpuInv
    OBVIOUS
  <2>1. cpu \in CpuState
    BY DEF Init, NewCpu, CpuState, Byte, Words, Flags, Modes
  <2>2. mem \in FullMemory
    BY DEF Init, Filled
  <2>3. \A w \in DOMAIN mem : w \in Words /\ mem[w] \in Byte
    BY <2>2 DEF FullMemory
  <2>4. output \in Seq([port : Byte, data : Byte])
    BY DEF Init
  <2>5. raised \in 0 .. Raises
    BY RaisesAssumption DEF Init
  <2> QED BY <2>1, <2>2, <2>3, <2>4, <2>5 DEF Init, CpuInv, CpuTypeOK
<1>2. CpuInv /\ [Next]_vars => CpuInv'
  <2> SUFFICES ASSUME CpuInv, [Next]_vars PROVE CpuInv'
    OBVIOUS
  <2>1. ASSUME Step PROVE CpuInv'
    BY <2>1, LoadsTyped, ExchangesTyped, ArithmeticTypedStep, UpdatesTyped, OthersTyped,
       JumpsTyped, CallsTyped, StackTyped, BlocksTyped, InputTyped, OutputTyped,
       ControlsTyped, Zenon DEF Step
  <2>2. CASE UNCHANGED vars
    BY <2>2 DEF vars, CpuInv, CpuTypeOK
  <2> QED BY <2>1, <2>2, RaiseTyped DEF Next
<1>3. CpuInv => CpuTypeOK
  BY DEF CpuInv
<1> QED BY <1>1, <1>2, <1>3, PTL DEF Spec

(***************************************************************************)
(* What a step does.                                                       *)
(***************************************************************************)
USE DEF Text, Copy, Table, Ticks, KbPort

\* The instruction leaves new registers and a new memory, and nothing else changes.
Moves(new, m) == Finish(new, m) /\ UNCHANGED <<guest, line, raised, output>>

\* An executed instruction moves on.
LEMMA Executes ==
  ASSUME NEW ops, NEW new, NEW m, Execute(ops, new, m)
  PROVE  Moves(new, m)
  BY DEF Execute, Moves

\* The operation says which action the step is.
LEMMA Chosen ==
  ASSUME Step
  PROVE  /\ Insn.op = "ld" => Load
         /\ Insn.op = "ld16" => LoadWide
         /\ Insn.op = "ld_a_i" => LoadAI
         /\ Insn.op = "ex_af" => ExchangeAF
         /\ Insn.op = "exx" => ExchangeExtra
         /\ Insn.op = "ex_de_hl" => ExchangeDEHL
         /\ Insn.op \in MathNames => ArithmeticA
         /\ Insn.op = "a" => AccumulatorOnly
         /\ Insn.op = "inc" => Increment
         /\ Insn.op = "dec" => Decrement
         /\ Insn.op = "shift" => ShiftOperand
         /\ Insn.op = "res" => ResetOperand
         /\ Insn.op = "set" => SetOperand
         /\ Insn.op = "bit" => TestOperand
         /\ Insn.op = "digits" => RotateDigits
         /\ Insn.op \in {"inc16", "dec16"} => CountWide
         /\ Insn.op = "wide" => ArithmeticPair
         /\ Insn.op = "jp" => Jump
         /\ Insn.op = "jr" => JumpRelative
         /\ Insn.op = "jp_(rr)" => JumpIndirect
         /\ Insn.op = "djnz" => Djnz
         /\ Insn.op = "call" => Call
         /\ Insn.op = "ret" => Return
         /\ Insn.op = "reti" => ReturnFromInterrupt
         /\ Insn.op = "rst" => Reset
         /\ Insn.op = "push" => PushRegister
         /\ Insn.op = "pop" => Pop
         /\ Insn.op = "ex_(sp)" => ExchangeStack
         /\ Insn.op = "ldi" => BlockCopy
         /\ Insn.op = "cpi" => BlockSearch
         /\ Insn.op \in {"in_a_(n)", "in", "in_(c)", "ini"} => Input
         /\ Insn.op \in {"out_(n)_a", "out", "outi"} => Output
         /\ Insn.op = "nop" => Nop
         /\ Insn.op = "halt" => Halt
         /\ Insn.op = "di" => DisableInterrupts
         /\ Insn.op = "ei" => EnableInterrupts
         /\ Insn.op = "im" => SetInterruptMode
<1> DEFINE op == Insn.op
<1>1. /\ Load => op = "ld"
      /\ LoadWide => op = "ld16"
      /\ LoadAI => op = "ld_a_i"
      /\ ExchangeAF => op = "ex_af"
      /\ ExchangeExtra => op = "exx"
      /\ ExchangeDEHL => op = "ex_de_hl"
  BY DEF Load, LoadWide, LoadAI, ExchangeAF, ExchangeExtra, ExchangeDEHL, Execute
<1>2. /\ ArithmeticA => op \in MathNames
      /\ AccumulatorOnly => op = "a"
      /\ Increment => op = "inc"
      /\ Decrement => op = "dec"
      /\ ShiftOperand => op = "shift"
      /\ ResetOperand => op = "res"
      /\ SetOperand => op = "set"
  BY DEF ArithmeticA, AccumulatorOnly, Increment, Decrement, ShiftOperand, ResetOperand,
         SetOperand, Update, Execute, MathNames
<1>3. /\ TestOperand => op = "bit"
      /\ RotateDigits => op = "digits"
      /\ CountWide => op \in {"inc16", "dec16"}
      /\ ArithmeticPair => op = "wide"
  BY DEF TestOperand, RotateDigits, CountWide, ArithmeticPair, Execute
<1>4. /\ Jump => op = "jp"
      /\ JumpRelative => op = "jr"
      /\ JumpIndirect => op = "jp_(rr)"
      /\ Djnz => op = "djnz"
      /\ Call => op = "call"
      /\ Return => op = "ret"
      /\ ReturnFromInterrupt => op \in {"reti", "retn"}
      /\ Reset => op = "rst"
  BY DEF Jump, JumpRelative, JumpIndirect, Djnz, Call, Return, ReturnFromInterrupt, Reset,
         Execute
<1>5. /\ PushRegister => op = "push"
      /\ Pop => op = "pop"
      /\ ExchangeStack => op = "ex_(sp)"
      /\ BlockCopy => op = "ldi"
      /\ BlockSearch => op = "cpi"
  BY DEF PushRegister, Pop, ExchangeStack, BlockCopy, BlockSearch, Execute
<1>6. /\ Input => op \in {"in_a_(n)", "in", "in_(c)", "ini"}
      /\ Output => op \in {"out_(n)_a", "out", "outi"}
  BY DEF Input, Output
<1>7. /\ Nop => op = "nop"
      /\ Halt => op = "halt"
      /\ DisableInterrupts => op = "di"
      /\ EnableInterrupts => op = "ei"
      /\ SetInterruptMode => op = "im"
  BY DEF Nop, Halt, DisableInterrupts, EnableInterrupts, SetInterruptMode, Execute
<1> HIDE DEF op
<1>8. op = Insn.op
  BY DEF op
<1> QED BY <1>1, <1>2, <1>3, <1>4, <1>5, <1>6, <1>7, <1>8 DEF Step, MathNames

\* The registers of the machine, when no enable is pending.
Calm == cpu \in CpuState /\ ~cpu.enable_interrupts_next_cycle

\* The program counter, the stack pointer, A, F, BC, DE and HL become these, and
\* the rest stays.
Becomes(t, pc, sp, a, f, bc, de, hl) ==
  /\ t \in CpuState
  /\ t.PC = pc /\ t.SP = sp /\ t.A = a /\ t.F = f /\ t.BC = bc /\ t.DE = de /\ t.HL = hl
  /\ t.IX = cpu.IX /\ t.IY = cpu.IY /\ t.I = cpu.I /\ t.prime = cpu.prime
  /\ t.interrupt_mode = cpu.interrupt_mode /\ t.halted = cpu.halted
  /\ t.enable_interrupts_next_cycle = FALSE
  /\ t.iff1 = cpu.iff1 /\ t.iff2 = cpu.iff2

\* The instruction is fetched, and its length counted.
LEMMA Fetches ==
  ASSUME Calm, NEW len \in Nat, Insn.len = len
  PROVE  Becomes(Fetched, Plus(cpu.PC, len), cpu.SP, cpu.A, cpu.F, cpu.BC, cpu.DE, cpu.HL)
<1>1. Fetched = [cpu EXCEPT !.PC = Plus(cpu.PC, len)]
  BY DEF Fetched, Woken, Calm, CpuState
<1>2. Plus(cpu.PC, len) \in Words
  BY StateParts, PlusIsWord DEF Calm
<1> QED BY <1>1, <1>2 DEF Calm, CpuState, Becomes

\* Changes of the registers.
LEMMA Altered ==
  ASSUME NEW s, NEW p, NEW q, NEW a, NEW f, NEW b, NEW d, NEW h,
         Becomes(s, p, q, a, f, b, d, h)
  PROVE  /\ \A w \in Words : Becomes([s EXCEPT !.PC = w], w, q, a, f, b, d, h)
         /\ \A w, v \in Words : Becomes([s EXCEPT !.SP = v, !.PC = w], w, v, a, f, b, d, h)
         /\ \A w \in Words : Becomes([s EXCEPT !.SP = w], p, w, a, f, b, d, h)
         /\ \A x \in Byte : Becomes([s EXCEPT !.A = x], p, q, x, f, b, d, h)
         /\ \A x \in Byte, y \in SUBSET Flags :
              Becomes([s EXCEPT !.A = x, !.F = y], p, q, x, y, b, d, h)
         /\ \A y \in SUBSET Flags : Becomes([s EXCEPT !.F = y], p, q, a, y, b, d, h)
         /\ \A w \in Words : Becomes([s EXCEPT !.BC = w], p, q, a, f, w, d, h)
         /\ \A w \in Words : Becomes([s EXCEPT !.DE = w], p, q, a, f, b, w, h)
         /\ \A w \in Words : Becomes([s EXCEPT !.HL = w], p, q, a, f, b, d, w)
<1>1. /\ \A w \in Words : Becomes([s EXCEPT !.PC = w], w, q, a, f, b, d, h)
      /\ \A w \in Words : Becomes([s EXCEPT !.SP = w], p, w, a, f, b, d, h)
  BY DEF Becomes, CpuState
<1>2. \A w, v \in Words : Becomes([s EXCEPT !.SP = v, !.PC = w], w, v, a, f, b, d, h)
  BY DEF Becomes, CpuState
<1>3. /\ \A x \in Byte : Becomes([s EXCEPT !.A = x], p, q, x, f, b, d, h)
      /\ \A y \in SUBSET Flags : Becomes([s EXCEPT !.F = y], p, q, a, y, b, d, h)
  BY DEF Becomes, CpuState
<1>4. \A x \in Byte, y \in SUBSET Flags :
        Becomes([s EXCEPT !.A = x, !.F = y], p, q, x, y, b, d, h)
  BY DEF Becomes, CpuState
<1>5. /\ \A w \in Words : Becomes([s EXCEPT !.BC = w], p, q, a, f, w, d, h)
      /\ \A w \in Words : Becomes([s EXCEPT !.DE = w], p, q, a, f, b, w, h)
  BY DEF Becomes, CpuState
<1>6. \A w \in Words : Becomes([s EXCEPT !.HL = w], p, q, a, f, b, d, w)
  BY DEF Becomes, CpuState
<1> QED BY <1>1, <1>2, <1>3, <1>4, <1>5, <1>6, Zenon

\* Where an operand is.
Simple == {"A", "B", "C", "D", "E"}

\* The values of the operands.
LEMMA Operands ==
  ASSUME Calm, Becomes(Fetched, Fetched.PC, cpu.SP, cpu.A, cpu.F, cpu.BC, cpu.DE, cpu.HL)
  PROVE  /\ Operand(Fetched, R("A")) = cpu.A
         /\ Operand(Fetched, R("B")) = OfB(cpu)
         /\ Operand(Fetched, R("C")) = OfC(cpu)
         /\ Operand(Fetched, R("D")) = OfD(cpu)
         /\ Operand(Fetched, R("E")) = OfE(cpu)
         /\ \A n : Operand(Fetched, N(n)) = n
         /\ Operand(Fetched, Mem("HL", 0)) = mem[cpu.HL]
         /\ Operand(Fetched, Mem("IX", 0)) = mem[cpu.IX]
         /\ \A d \in Int : Operand(Fetched, Mem("IX", d)) = mem[Plus(cpu.IX, d)]
         /\ \A nn : Operand(Fetched, At(nn)) = mem[nn]
<1>1. /\ Fetched.A = cpu.A /\ Fetched.BC = cpu.BC /\ Fetched.DE = cpu.DE
      /\ Fetched.HL = cpu.HL /\ Fetched.IX = cpu.IX
  BY DEF Becomes
<1>2. \A w \in Words : Plus(w, 0) = w
  BY WordIs DEF Plus
<1>3. cpu.HL \in Words /\ cpu.IX \in Words
  BY StateParts DEF Calm
<1>4. \A r : Operand(Fetched, R(r)) = Register(Fetched, r)
  BY DEF Operand, R
<1>5. Register(Fetched, "A") = cpu.A
  BY <1>1 DEF Register, HighPart, LowPart
<1>6. Register(Fetched, "B") = OfB(cpu) /\ Register(Fetched, "D") = OfD(cpu)
  BY <1>1 DEF Register, HighPart, LowPart, OfB, OfD
<1>7. Register(Fetched, "C") = OfC(cpu) /\ Register(Fetched, "E") = OfE(cpu)
  BY <1>1 DEF Register, HighPart, LowPart, OfC, OfE
<1>8. \A n : Operand(Fetched, N(n)) = n
  BY DEF Operand, N
<1>9. \A nn : Operand(Fetched, At(nn)) = mem[nn]
  BY DEF Operand, At, Address
<1>10. \A rr, d : Operand(Fetched, Mem(rr, d)) = mem[Plus(Fetched[rr], d)]
  BY DEF Operand, Mem, Address
<1>11. Fetched["HL"] = cpu.HL /\ Fetched["IX"] = cpu.IX
  BY <1>1
<1>12. /\ Operand(Fetched, Mem("HL", 0)) = mem[cpu.HL]
       /\ Operand(Fetched, Mem("IX", 0)) = mem[cpu.IX]
       /\ \A d \in Int : Operand(Fetched, Mem("IX", d)) = mem[Plus(cpu.IX, d)]
  BY <1>2, <1>3, <1>10, <1>11
<1> QED BY <1>4, <1>5, <1>6, <1>7, <1>8, <1>9, <1>12

\* Loads of a register.
LEMMA LoadsRegister ==
  ASSUME Calm, Step, NEW r \in Simple, NEW src, NEW len \in Nat, NEW b \in Byte,
         Insn = Ld(R(r), src, len), Operand(Fetched, src) = b
  PROVE  \E t : /\ Moves(t, mem)
                /\ Becomes(t, Plus(cpu.PC, len), cpu.SP,
                           IF r = "A" THEN b ELSE cpu.A, cpu.F,
                           IF r = "B" THEN 256 * b + OfC(cpu)
                           ELSE IF r = "C" THEN 256 * OfB(cpu) + b ELSE cpu.BC,
                           IF r = "D" THEN 256 * b + OfE(cpu)
                           ELSE IF r = "E" THEN 256 * OfD(cpu) + b ELSE cpu.DE, cpu.HL)
<1> DEFINE pc == Plus(cpu.PC, len)
           t == SetRegister(Fetched, r, b)
<1>1. Becomes(Fetched, pc, cpu.SP, cpu.A, cpu.F, cpu.BC, cpu.DE, cpu.HL)
  BY Fetches DEF Ld
<1>2. Insn.op = "ld" /\ Insn.dst = R(r) /\ Insn.src = src
  BY DEF Ld
<1>3. Moves(t, mem)
  <2>1. PutRegister(Fetched, R(r), b) = t /\ PutMemory(Fetched, R(r), b) = mem
    BY DEF PutRegister, PutMemory, R
  <2>2. Load
    BY <1>2, Chosen
  <2> QED BY <1>2, <2>1, <2>2, Executes DEF Load
<1> HIDE DEF pc
<1>4. Fetched \in CpuState /\ r \in ByteRegisters /\ t \in CpuState
  BY <1>1, RegisterChanged DEF Becomes, Simple, ByteRegisters
<1> DEFINE Goal == Becomes(t, pc, cpu.SP, IF r = "A" THEN b ELSE cpu.A, cpu.F,
                           IF r = "B" THEN 256 * b + OfC(cpu)
                           ELSE IF r = "C" THEN 256 * OfB(cpu) + b ELSE cpu.BC,
                           IF r = "D" THEN 256 * b + OfE(cpu)
                           ELSE IF r = "E" THEN 256 * OfD(cpu) + b ELSE cpu.DE, cpu.HL)
<1>5. ASSUME r = "A" PROVE Goal
  <2>1. t = [Fetched EXCEPT !.A = b]
    BY <1>5 DEF SetRegister, HighPart, LowPart
  <2> QED BY <1>1, <1>4, <1>5, <2>1 DEF Becomes, CpuState
<1>6. ASSUME r = "B" PROVE Goal
  <2>1. t = [Fetched EXCEPT !.BC = 256 * b + Low(Fetched.BC)]
    BY <1>4, <1>6 DEF SetRegister, HighPart, LowPart, CpuState
  <2> QED BY <1>1, <1>4, <1>6, <2>1 DEF Becomes, CpuState, OfC
<1>7. ASSUME r = "C" PROVE Goal
  <2>1. t = [Fetched EXCEPT !.BC = 256 * High(Fetched.BC) + b]
    BY <1>4, <1>7 DEF SetRegister, HighPart, LowPart, CpuState
  <2> QED BY <1>1, <1>4, <1>7, <2>1 DEF Becomes, CpuState, OfB
<1>8. ASSUME r = "D" PROVE Goal
  <2>1. t = [Fetched EXCEPT !.DE = 256 * b + Low(Fetched.DE)]
    BY <1>4, <1>8 DEF SetRegister, HighPart, LowPart, CpuState
  <2> QED BY <1>1, <1>4, <1>8, <2>1 DEF Becomes, CpuState, OfE
<1>9. ASSUME r = "E" PROVE Goal
  <2>1. t = [Fetched EXCEPT !.DE = 256 * High(Fetched.DE) + b]
    BY <1>4, <1>9 DEF SetRegister, HighPart, LowPart, CpuState
  <2> QED BY <1>1, <1>4, <1>9, <2>1 DEF Becomes, CpuState, OfD
<1>10. Goal
  <2> HIDE DEF Goal
  <2> QED BY <1>5, <1>6, <1>7, <1>8, <1>9 DEF Simple
<1> QED BY <1>3, <1>10 DEF pc

\* Loads of a pair.
LEMMA LoadsPair ==
  ASSUME Calm, Step, NEW rr \in {"BC", "DE", "HL"}, NEW w \in Words, NEW len \in Nat,
         Insn = LdWide(RR(rr), NN(w), len)
  PROVE  \E t : /\ Moves(t, mem)
                /\ Becomes(t, Plus(cpu.PC, len), cpu.SP, cpu.A, cpu.F,
                           IF rr = "BC" THEN w ELSE cpu.BC, IF rr = "DE" THEN w ELSE cpu.DE,
                           IF rr = "HL" THEN w ELSE cpu.HL)
<1> DEFINE pc == Plus(cpu.PC, len)
           t == [Fetched EXCEPT ![rr] = w]
<1>1. Becomes(Fetched, pc, cpu.SP, cpu.A, cpu.F, cpu.BC, cpu.DE, cpu.HL)
  BY Fetches DEF LdWide
<1>2. Insn.op = "ld16" /\ Insn.dst = RR(rr) /\ Insn.src = NN(w)
  BY DEF LdWide
<1>3. Moves(t, mem)
  <2>1. LoadWide
    BY <1>2, Chosen
  <2>2. WideOperand(Fetched, NN(w)) = w /\ RR(rr).at = "register" /\ RR(rr).rr = rr
    BY DEF WideOperand, NN, RR
  <2>3. SetWideRegister(Fetched, rr, w) = t
    BY DEF SetWideRegister
  <2> QED BY <1>2, <2>1, <2>2, <2>3, Executes DEF LoadWide
<1> HIDE DEF pc
<1>4. Becomes(t, pc, cpu.SP, cpu.A, cpu.F,
              IF rr = "BC" THEN w ELSE cpu.BC, IF rr = "DE" THEN w ELSE cpu.DE,
              IF rr = "HL" THEN w ELSE cpu.HL)
  BY <1>1 DEF Becomes, CpuState
<1> QED BY <1>3, <1>4 DEF pc

\* A pair counts up or down.
LEMMA CountsPair ==
  ASSUME Calm, Step, NEW rr \in {"BC", "DE", "HL"}, NEW op \in {"inc16", "dec16"},
         Insn = OnPair(op, rr)
  PROVE  \E t, w : /\ Moves(t, mem) /\ w = Plus(cpu[rr], IF op = "inc16" THEN 1 ELSE -1)
                   /\ Becomes(t, Plus(cpu.PC, 1), cpu.SP, cpu.A, cpu.F,
                              IF rr = "BC" THEN w ELSE cpu.BC, IF rr = "DE" THEN w ELSE cpu.DE,
                              IF rr = "HL" THEN w ELSE cpu.HL)
<1> DEFINE pc == Plus(cpu.PC, 1)
           w == Plus(cpu[rr], IF op = "inc16" THEN 1 ELSE -1)
           t == [Fetched EXCEPT ![rr] = w]
<1>1. Becomes(Fetched, pc, cpu.SP, cpu.A, cpu.F, cpu.BC, cpu.DE, cpu.HL)
  BY Fetches DEF OnPair
<1>2. Insn.op = op /\ Insn.rr = rr
  BY DEF OnPair
<1>3. Fetched[rr] = cpu[rr] /\ rr \in DOMAIN Fetched /\ w \in Words
  <2>1. Fetched[rr] = cpu[rr] /\ rr \in DOMAIN Fetched /\ cpu[rr] \in Words
    BY <1>1, StateParts DEF Becomes, CpuState, Calm
  <2>2. (IF op = "inc16" THEN 1 ELSE -1) \in Int
    OBVIOUS
  <2> QED BY <2>1, <2>2, PlusIsWord
<1>4. Moves(t, mem)
  <2>1. CountWide
    BY <1>2, Chosen
  <2>2. t = [Fetched EXCEPT ![Insn.rr] = Plus(@, IF Insn.op = "inc16" THEN 1 ELSE -1)]
    BY <1>2, <1>3
  <2> QED BY <2>1, <2>2, Executes DEF CountWide
<1> HIDE DEF pc, w
<1>5. Becomes(t, pc, cpu.SP, cpu.A, cpu.F,
              IF rr = "BC" THEN w ELSE cpu.BC, IF rr = "DE" THEN w ELSE cpu.DE,
              IF rr = "HL" THEN w ELSE cpu.HL)
  BY <1>1, <1>3 DEF Becomes, CpuState
<1> QED BY <1>4, <1>5 DEF pc, w

\* Where the stack pointer is, of a program or the handler; one word down the stack,
\* and one word up.
Slots == {0} \cup 65520 .. 65534
Lower(c) == IF c = 0 THEN 65534 ELSE c - 2
Higher(c) == IF c = 65534 THEN 0 ELSE c + 2

\* The programs' levels are slots.
LEMMA LevelsAreSlots == Levels \subseteq Slots
  BY DEF Levels, Slots

\* A step down or up the stack.
LEMMA StackLevels ==
  ASSUME NEW c \in Slots
  PROVE  /\ Plus(c, -2) = Lower(c) /\ Plus(c, -1) = Lower(c) + 1
         /\ Lower(c) \in Words /\ Lower(c) \in Cells /\ Lower(c) + 1 \in Cells
         /\ c # 0 => Plus(c, 2) = Higher(c) /\ Higher(c) \in Words /\ Plus(c, 1) = c + 1
  BY WordIs DEF Slots, Lower, Higher, Plus, Cells, Stack

\* The memory v with a word written over two bytes.
WrittenOver(v, m, c, w) ==
  m \in Store /\ Holds(m, c, w) /\ \A a \in Cells \ {c, c + 1} : m[a] = v[a]
Written(m, c, w) == WrittenOver(mem, m, c, w)

\* A word pushed lies below the level.
LEMMA Pushes ==
  ASSUME NEW v \in Store, NEW s, s.SP \in Slots, NEW w \in Words
  PROVE  WrittenOver(v, Push(s, w, v), Lower(s.SP), w)
<1>1. PICK c : c = Lower(s.SP)
  OBVIOUS
<1>2. Plus(s.SP, -2) = c /\ Plus(s.SP, -1) = c + 1
  BY <1>1, StackLevels, Zenon
<1>3. c \in Cells /\ c + 1 \in Cells /\ c \in Int
  BY <1>1, StackLevels, WordIs
<1>4. Low(w) \in Byte /\ High(w) \in Byte
  BY HalvesOfWord
<1>5. Push(s, w, v) = [v EXCEPT ![c + 1] = High(w), ![c] = Low(w)]
  BY <1>2, Zenon DEF Push
<1>6. PICK m : m = Push(s, w, v)
  OBVIOUS
<1>7. WrittenOver(v, m, c, w)
  BY <1>3, <1>4, <1>5, <1>6 DEF WrittenOver, Store, Holds
<1> QED BY <1>1, <1>6, <1>7

\* A call.
LEMMA Calls ==
  ASSUME Calm, Step, mem \in Store, cpu.SP \in Slots,
         Insn.op = "call", Insn.cc = "always", NEW len \in Nat, Insn.len = len,
         NEW w \in Words, Insn.nn = w
  PROVE  \E t, m : /\ Moves(t, m)
                   /\ Written(m, Lower(cpu.SP), Plus(cpu.PC, len))
                   /\ Becomes(t, w, Lower(cpu.SP), cpu.A, cpu.F, cpu.BC, cpu.DE, cpu.HL)
<1> DEFINE pc == Plus(cpu.PC, len)
           sp == Lower(cpu.SP)
           t == [Fetched EXCEPT !.SP = sp, !.PC = w]
           m == Push(Fetched, Fetched.PC, mem)
<1>1. Becomes(Fetched, pc, cpu.SP, cpu.A, cpu.F, cpu.BC, cpu.DE, cpu.HL)
  BY Fetches
<1>2. pc \in Words /\ Fetched.PC = pc /\ Fetched.SP = cpu.SP
  BY <1>1, StateParts DEF Becomes
<1>3. Plus(Fetched.SP, -2) = sp /\ sp \in Words
  BY <1>2, StackLevels
<1>4. Moves(t, m)
  <2>1. Call
    BY Chosen
  <2>2. Condition(Fetched.F, Insn.cc)
    BY DEF Condition
  <2>3. [Fetched EXCEPT !.SP = Plus(@, -2), !.PC = Insn.nn] = t
    <3>1. Fetched.SP = Fetched["SP"] /\ "SP" \in DOMAIN Fetched
      BY <1>1 DEF Becomes, CpuState
    <3> QED BY <1>3, <3>1, Zenon
  <2> QED BY <2>1, <2>2, <2>3, Executes, Zenon DEF Call
<1>5. Written(m, sp, pc)
  <2> HIDE DEF pc
  <2> QED BY <1>2, Pushes DEF Written
<1>6. Becomes(t, w, sp, cpu.A, cpu.F, cpu.BC, cpu.DE, cpu.HL)
  BY <1>1, <1>3, Altered, Zenon
<1> QED BY <1>4, <1>5, <1>6

\* A word on the stack.
LEMMA OnStack ==
  ASSUME NEW c \in Slots \ {0}, NEW w \in Words, Holds(mem, c, w)
  PROVE  WideAt(c) = w
<1>1. Plus(c, 1) = c + 1
  BY StackLevels
<1>2. w = 256 * High(w) + Low(w) /\ High(w) \in Int /\ Low(w) \in Int
  BY HalvesOfWord, ByteIs
<1> QED BY <1>1, <1>2 DEF WideAt, Holds

\* A return.
LEMMA Returns ==
  ASSUME Calm, Step, cpu.SP \in Slots \ {0}, NEW w \in Words, Holds(mem, cpu.SP, w),
         Insn = Ret("always")
  PROVE  \E t : /\ Moves(t, mem)
                /\ Becomes(t, w, Higher(cpu.SP), cpu.A, cpu.F, cpu.BC, cpu.DE, cpu.HL)
<1> DEFINE pc == Plus(cpu.PC, 1)
           sp == Higher(cpu.SP)
           t == [[Fetched EXCEPT !.SP = sp] EXCEPT !.PC = w]
<1>1. Becomes(Fetched, pc, cpu.SP, cpu.A, cpu.F, cpu.BC, cpu.DE, cpu.HL)
  BY Fetches DEF Ret
<1>2. Fetched.SP = cpu.SP /\ WideAt(Fetched.SP) = w
  BY <1>1, OnStack DEF Becomes
<1>3. Plus(Fetched.SP, 2) = sp /\ sp \in Words
  BY <1>2, StackLevels
<1>4. Moves(t, mem)
  <2>1. Return
    BY Chosen DEF Ret
  <2>2. Condition(Fetched.F, Insn.cc)
    BY DEF Condition, Ret
  <2>3. Returned(Fetched) = t
    <3>1. Fetched.SP = Fetched["SP"] /\ "SP" \in DOMAIN Fetched
      BY <1>1 DEF Becomes, CpuState
    <3> QED BY <1>2, <1>3, <3>1, Zenon DEF Returned, Popped
  <2> QED BY <2>1, <2>2, <2>3, Executes, Zenon DEF Return
<1>5. Becomes(t, w, sp, cpu.A, cpu.F, cpu.BC, cpu.DE, cpu.HL)
  <2>1. Becomes([Fetched EXCEPT !.SP = sp], pc, sp, cpu.A, cpu.F, cpu.BC, cpu.DE, cpu.HL)
    BY <1>1, <1>3, Altered, Zenon
  <2> QED BY <2>1, Altered, Zenon
<1> QED BY <1>4, <1>5

\* B counts down, and jumps.
LEMMA CountsDown ==
  ASSUME Calm, Step, Insn.op = "djnz", Insn.len = 2, NEW e \in Int, Insn.e = e
  PROVE  \E t, b : /\ Moves(t, mem) /\ b = (OfB(cpu) + 255) % 256
                   /\ Becomes(t, IF b > 0 THEN Plus(Plus(cpu.PC, 2), e) ELSE Plus(cpu.PC, 2),
                              cpu.SP, cpu.A, cpu.F, 256 * b + OfC(cpu), cpu.DE, cpu.HL)
<1> DEFINE pc == Plus(cpu.PC, 2)
<1>1. Becomes(Fetched, pc, cpu.SP, cpu.A, cpu.F, cpu.BC, cpu.DE, cpu.HL)
  BY Fetches
<1>2. PICK b : b = (OfB(cpu) + 255) % 256
  OBVIOUS
<1>3. b \in Byte /\ OfC(cpu) \in Byte /\ 256 * b + OfC(cpu) \in Words
  <2>1. OfB(cpu) \in Byte /\ OfC(cpu) \in Byte
    BY StateParts, HalvesOfWord DEF Calm, OfB, OfC
  <2>2. b \in Byte
    BY <1>2, <2>1, ByteIs, Wrapped
  <2> QED BY <2>1, <2>2, WordOfHalves
<1>4. Fetched.BC = cpu.BC /\ "BC" \in DOMAIN Fetched
  BY <1>1 DEF Becomes, CpuState
<1> DEFINE w == 256 * b + OfC(cpu)
           s == [Fetched EXCEPT !.BC = w]
<1>5. Register(Fetched, "B") = OfB(cpu)
  BY <1>4 DEF Register, HighPart, LowPart, OfB
<1>6. SetRegister(Fetched, "B", b) = s
  BY <1>4 DEF SetRegister, HighPart, LowPart, OfC
<1>7. Becomes(s, pc, cpu.SP, cpu.A, cpu.F, w, cpu.DE, cpu.HL)
  <2>1. w \in Words
    BY <1>3
  <2> HIDE DEF w, pc
  <2> QED BY <1>1, <2>1, Altered, Zenon
<1> HIDE DEF pc, s, w
<1>8. s.BC = w /\ s.PC = pc /\ s \in CpuState
  BY <1>7 DEF Becomes
<1>9. Register(s, "B") = b
  <2>1. High(w) = b
    BY <1>3, WordOfHalves DEF w
  <2> QED BY <1>8, <2>1 DEF Register, HighPart, LowPart
<1>10. Djnz
  BY Chosen
<1>11. Moves(IF b > 0 THEN [s EXCEPT !.PC = Plus(@, e)] ELSE s, mem)
  BY <1>2, <1>5, <1>6, <1>9, <1>10, Executes DEF Djnz
<1>12. [s EXCEPT !.PC = Plus(@, e)] = [s EXCEPT !.PC = Plus(pc, e)]
  BY <1>8 DEF CpuState
<1>13. Plus(pc, e) \in Words
  BY <1>8, StateParts, PlusIsWord
<1>14. Becomes([s EXCEPT !.PC = Plus(pc, e)], Plus(pc, e), cpu.SP, cpu.A, cpu.F, w, cpu.DE,
               cpu.HL)
  BY <1>7, <1>13, Altered, Zenon
<1>15. CASE b > 0
  <2>1. Moves([s EXCEPT !.PC = Plus(pc, e)], mem)
    BY <1>11, <1>12, <1>15
  <2> QED BY <1>2, <1>14, <1>15, <2>1 DEF w, pc
<1>16. CASE ~(b > 0)
  BY <1>2, <1>7, <1>11, <1>16 DEF w, pc
<1> QED BY <1>15, <1>16

\* The machine halts where it is.
LEMMA Halts ==
  ASSUME Calm, Step, Insn = Plain("halt", 1)
  PROVE  Moves([cpu EXCEPT !.halted = TRUE], mem)
<1>1. Becomes(Fetched, Plus(cpu.PC, 1), cpu.SP, cpu.A, cpu.F, cpu.BC, cpu.DE, cpu.HL)
  BY Fetches DEF Plain
<1>2. Plus(Plus(cpu.PC, 1), -1) = cpu.PC
  BY StateParts, WordIs DEF Calm, Plus
<1>3. Halt
  BY Chosen DEF Plain
<1>4. Moves([Fetched EXCEPT !.halted = TRUE, !.PC = Plus(@, -1)], mem)
  BY <1>3, Executes DEF Halt
<1>5. Fetched = [cpu EXCEPT !.PC = Plus(cpu.PC, 1)]
  BY DEF Fetched, Woken, Calm, CpuState, Plain
<1>6. [Fetched EXCEPT !.halted = TRUE, !.PC = Plus(@, -1)] = [cpu EXCEPT !.halted = TRUE]
  BY <1>2, <1>5 DEF Calm, CpuState
<1> QED BY <1>4, <1>6

\* A byte is written to a port.
Writes(t, port, data) ==
  /\ Finish(t, mem) /\ UNCHANGED <<guest, line, raised>>
  /\ output' = Append(output, [port |-> port, data |-> data])

\* A goes to a port.
LEMMA WritesA ==
  ASSUME Calm, Step, NEW n, Insn = OnPort("out_(n)_a", n)
  PROVE  \E t : /\ Writes(t, n, cpu.A)
                /\ Becomes(t, Plus(cpu.PC, 2), cpu.SP, cpu.A, cpu.F, cpu.BC, cpu.DE, cpu.HL)
<1>1. Becomes(Fetched, Plus(cpu.PC, 2), cpu.SP, cpu.A, cpu.F, cpu.BC, cpu.DE, cpu.HL)
  BY Fetches DEF OnPort
<1>2. Output /\ Insn.op = "out_(n)_a" /\ Insn.n = n
  BY Chosen DEF OnPort
<1>3. Send(n, Fetched.A, Fetched)
  BY <1>2 DEF Output
<1>4. Fetched.A = cpu.A
  BY <1>1 DEF Becomes
<1> QED BY <1>1, <1>3, <1>4 DEF Send, Writes

\* The bits of a number made of bits.
LEMMA BitsOfSum ==
  ASSUME NEW b0 \in {0, 1}, NEW b1 \in {0, 1}, NEW b2 \in {0, 1}, NEW b3 \in {0, 1},
         NEW b4 \in {0, 1}, NEW b5 \in {0, 1}, NEW b6 \in {0, 1}, NEW b7 \in {0, 1}
  PROVE  LET n == b0 + 2 * b1 + 4 * b2 + 8 * b3 + 16 * b4 + 32 * b5 + 64 * b6 + 128 * b7
         IN  /\ (n \div 1) % 2 = b0 /\ (n \div 2) % 2 = b1 /\ (n \div 4) % 2 = b2
             /\ (n \div 8) % 2 = b3 /\ (n \div 16) % 2 = b4 /\ (n \div 32) % 2 = b5
             /\ (n \div 64) % 2 = b6 /\ (n \div 128) % 2 = b7
<1>1. PICK n \in Int :
        n = b0 + 2 * b1 + 4 * b2 + 8 * b3 + 16 * b4 + 32 * b5 + 64 * b6 + 128 * b7
  OBVIOUS
<1>2. (n \div 1) % 2 = b0
  BY <1>1
<1>3. (n \div 2) % 2 = b1
  BY <1>1
<1>4. (n \div 4) % 2 = b2
  BY <1>1
<1>5. (n \div 8) % 2 = b3
  BY <1>1
<1>6. (n \div 16) % 2 = b4
  BY <1>1
<1>7. (n \div 32) % 2 = b5
  BY <1>1
<1>8. (n \div 64) % 2 = b6
  BY <1>1
<1>9. (n \div 128) % 2 = b7
  BY <1>1
<1> QED BY <1>1, <1>2, <1>3, <1>4, <1>5, <1>6, <1>7, <1>8, <1>9

\* The bits of a number made of bits are these.
LEMMA BitsBack ==
  ASSUME NEW bits
  PROVE  \A k \in 0 .. 7 : Bit(FromBits(bits), k) = IF k \in bits THEN 1 ELSE 0
<1> DEFINE B(k) == IF k \in bits THEN 1 ELSE 0
           n == FromBits(bits)
<1>1. /\ 2 ^ 0 = 1 /\ 2 ^ 1 = 2 /\ 2 ^ 2 = 4 /\ 2 ^ 3 = 8
      /\ 2 ^ 4 = 16 /\ 2 ^ 5 = 32 /\ 2 ^ 6 = 64 /\ 2 ^ 7 = 128
  OBVIOUS
<1>2. n = B(0) + 2 * B(1) + 4 * B(2) + 8 * B(3) + 16 * B(4) + 32 * B(5) + 64 * B(6) + 128 * B(7)
  BY <1>1 DEF FromBits, Worth
<1>3. B(0) \in {0, 1} /\ B(1) \in {0, 1} /\ B(2) \in {0, 1} /\ B(3) \in {0, 1}
      /\ B(4) \in {0, 1} /\ B(5) \in {0, 1} /\ B(6) \in {0, 1} /\ B(7) \in {0, 1}
  OBVIOUS
<1> HIDE DEF B, n
<1>4. /\ (n \div 1) % 2 = B(0) /\ (n \div 2) % 2 = B(1) /\ (n \div 4) % 2 = B(2)
      /\ (n \div 8) % 2 = B(3) /\ (n \div 16) % 2 = B(4) /\ (n \div 32) % 2 = B(5)
      /\ (n \div 64) % 2 = B(6) /\ (n \div 128) % 2 = B(7)
  <2>1. PICK b0 \in {0, 1}, b1 \in {0, 1}, b2 \in {0, 1}, b3 \in {0, 1},
             b4 \in {0, 1}, b5 \in {0, 1}, b6 \in {0, 1}, b7 \in {0, 1} :
          /\ b0 = B(0) /\ b1 = B(1) /\ b2 = B(2) /\ b3 = B(3)
          /\ b4 = B(4) /\ b5 = B(5) /\ b6 = B(6) /\ b7 = B(7)
    BY <1>3
  <2>2. n = b0 + 2 * b1 + 4 * b2 + 8 * b3 + 16 * b4 + 32 * b5 + 64 * b6 + 128 * b7
    BY <1>2, <2>1
  <2>3. /\ (n \div 1) % 2 = b0 /\ (n \div 2) % 2 = b1 /\ (n \div 4) % 2 = b2
        /\ (n \div 8) % 2 = b3 /\ (n \div 16) % 2 = b4 /\ (n \div 32) % 2 = b5
        /\ (n \div 64) % 2 = b6 /\ (n \div 128) % 2 = b7
    BY <2>2, BitsOfSum
  <2> QED BY <2>1, <2>3
<1>5. /\ Bit(n, 0) = B(0) /\ Bit(n, 1) = B(1) /\ Bit(n, 2) = B(2) /\ Bit(n, 3) = B(3)
      /\ Bit(n, 4) = B(4) /\ Bit(n, 5) = B(5) /\ Bit(n, 6) = B(6) /\ Bit(n, 7) = B(7)
  BY <1>1, <1>4 DEF Bit
<1>6. \A k \in {0, 1, 2, 3, 4, 5, 6, 7} : Bit(n, k) = B(k)
  BY <1>5
<1> QED BY <1>6 DEF n, B

\* The flags that were pushed are popped.
LEMMA FlagsComeBack ==
  ASSUME NEW f \in SUBSET Flags
  PROVE  FlagsOf(FlagByte(f)) = f
<1> DEFINE bits == {FlagBits[x] : x \in f}
<1>1. /\ 0 \in bits <=> "C" \in f
      /\ 1 \in bits <=> "N" \in f
      /\ 2 \in bits <=> "PV" \in f
      /\ 4 \in bits <=> "H" \in f
      /\ 6 \in bits <=> "Z" \in f
      /\ 7 \in bits <=> "S" \in f
  BY DEF FlagBits, Flags
<1> HIDE DEF bits
<1>2. \A k \in {0, 1, 2, 4, 6, 7} : k \in BitsOf(FlagByte(f)) <=> k \in bits
  <2>1. FlagByte(f) = FromBits(bits)
    BY DEF FlagByte, bits
  <2>2. \A k \in 0 .. 7 : Bit(FromBits(bits), k) = IF k \in bits THEN 1 ELSE 0
    BY BitsBack
  <2> QED BY <2>1, <2>2 DEF BitsOf
<1>3. \A x \in Flags : FlagBits[x] \in BitsOf(FlagByte(f)) <=> x \in f
  BY <1>1, <1>2 DEF Flags, FlagBits
<1> QED BY <1>3 DEF FlagsOf

\* A push of a pair.
LEMMA PushesPair ==
  ASSUME Calm, Step, mem \in Store, cpu.SP \in Slots, NEW rr \in {"AF", "BC", "DE", "HL"},
         Insn = OnPair("push", rr), NEW w \in Words, WideRegister(cpu, rr) = w
  PROVE  \E t, m : /\ Moves(t, m) /\ Written(m, Lower(cpu.SP), w)
                   /\ Becomes(t, Plus(cpu.PC, 1), Lower(cpu.SP), cpu.A, cpu.F, cpu.BC, cpu.DE,
                              cpu.HL)
<1> DEFINE pc == Plus(cpu.PC, 1)
           sp == Lower(cpu.SP)
           t == [Fetched EXCEPT !.SP = sp]
           m == Push(Fetched, w, mem)
<1>1. Becomes(Fetched, pc, cpu.SP, cpu.A, cpu.F, cpu.BC, cpu.DE, cpu.HL)
  BY Fetches DEF OnPair
<1>2. Fetched.SP = cpu.SP /\ WideRegister(Fetched, rr) = w
  BY <1>1 DEF Becomes, WideRegister
<1>3. Plus(Fetched.SP, -2) = sp /\ sp \in Words
  BY <1>2, StackLevels
<1>4. Insn.op = "push" /\ Insn.rr = rr
  BY DEF OnPair
<1>5. Moves(t, m)
  <2>1. PushRegister
    BY <1>4, Chosen
  <2>2. [Fetched EXCEPT !.SP = Plus(@, -2)] = t
    <3>1. Fetched.SP = Fetched["SP"] /\ "SP" \in DOMAIN Fetched
      BY <1>1 DEF Becomes, CpuState
    <3> QED BY <1>3, <3>1, Zenon
  <2> QED BY <1>2, <1>4, <2>1, <2>2, Executes, Zenon DEF PushRegister
<1>6. Written(m, sp, w)
  BY <1>2, Pushes DEF Written
<1>7. Becomes(t, pc, sp, cpu.A, cpu.F, cpu.BC, cpu.DE, cpu.HL)
  BY <1>1, <1>3, Altered, Zenon
<1> QED BY <1>5, <1>6, <1>7

\* A pop of a pair, and of A and the flags.
LEMMA PopsPair ==
  ASSUME Calm, Step, cpu.SP \in Slots \ {0}, NEW rr \in {"BC", "DE", "HL"},
         Insn = OnPair("pop", rr), NEW w \in Words, Holds(mem, cpu.SP, w)
  PROVE  \E t : /\ Moves(t, mem)
                /\ Becomes(t, Plus(cpu.PC, 1), Higher(cpu.SP), cpu.A, cpu.F,
                           IF rr = "BC" THEN w ELSE cpu.BC, IF rr = "DE" THEN w ELSE cpu.DE,
                           IF rr = "HL" THEN w ELSE cpu.HL)
<1> DEFINE pc == Plus(cpu.PC, 1)
           sp == Higher(cpu.SP)
           s == [Fetched EXCEPT !.SP = sp]
           t == [s EXCEPT ![rr] = w]
<1>1. Becomes(Fetched, pc, cpu.SP, cpu.A, cpu.F, cpu.BC, cpu.DE, cpu.HL)
  BY Fetches DEF OnPair
<1>2. Fetched.SP = cpu.SP /\ WideAt(Fetched.SP) = w
  BY <1>1, OnStack DEF Becomes
<1>3. Plus(Fetched.SP, 2) = sp /\ sp \in Words
  BY <1>2, StackLevels
<1>4. Insn.op = "pop" /\ Insn.rr = rr
  BY DEF OnPair
<1>5. Popped(Fetched) = s
  <2>1. Fetched.SP = Fetched["SP"] /\ "SP" \in DOMAIN Fetched
    BY <1>1 DEF Becomes, CpuState
  <2> QED BY <1>3, <2>1, Zenon DEF Popped
<1>6. Moves(t, mem)
  <2>1. Pop
    BY <1>4, Chosen
  <2>2. SetWideRegister(s, rr, w) = t
    BY DEF SetWideRegister
  <2> QED BY <1>2, <1>4, <1>5, <2>1, <2>2, Executes, Zenon DEF Pop
<1>7. Becomes(s, pc, sp, cpu.A, cpu.F, cpu.BC, cpu.DE, cpu.HL)
  BY <1>1, <1>3, Altered, Zenon
<1> HIDE DEF pc, sp, s
<1>8. Becomes(t, pc, sp, cpu.A, cpu.F,
              IF rr = "BC" THEN w ELSE cpu.BC, IF rr = "DE" THEN w ELSE cpu.DE,
              IF rr = "HL" THEN w ELSE cpu.HL)
  BY <1>7 DEF Becomes, CpuState
<1> QED BY <1>6, <1>8 DEF pc, sp

\* A and the flags come back from the stack.
LEMMA PopsFlags ==
  ASSUME Calm, Step, mem \in Store, cpu.SP \in Slots \ {0}, Insn = OnPair("pop", "AF")
  PROVE  \E t : /\ Moves(t, mem)
                /\ Becomes(t, Plus(cpu.PC, 1), Higher(cpu.SP), mem[cpu.SP + 1],
                           FlagsOf(mem[cpu.SP]), cpu.BC, cpu.DE, cpu.HL)
<1> DEFINE pc == Plus(cpu.PC, 1)
           sp == Higher(cpu.SP)
           s == [Fetched EXCEPT !.SP = sp]
           a == mem[cpu.SP + 1]
           f == FlagsOf(mem[cpu.SP])
           t == [s EXCEPT !.A = a, !.F = f]
<1>1. Becomes(Fetched, pc, cpu.SP, cpu.A, cpu.F, cpu.BC, cpu.DE, cpu.HL)
  BY Fetches DEF OnPair
<1>2. a \in Byte /\ mem[cpu.SP] \in Byte
  <2>1. cpu.SP + 1 \in Cells /\ cpu.SP \in Cells
    BY DEF Slots, Cells, Stack
  <2> QED BY <2>1 DEF Store
<1>3. f \in SUBSET Flags
  BY FlagsAreByte
<1>4. WideAt(cpu.SP) = 256 * a + mem[cpu.SP]
  <2>1. Plus(cpu.SP, 1) = cpu.SP + 1
    BY StackLevels
  <2> QED BY <1>2, <2>1, ByteIs DEF WideAt
<1>5. High(WideAt(cpu.SP)) = a /\ Low(WideAt(cpu.SP)) = mem[cpu.SP]
  BY <1>2, <1>4, WordOfHalves
<1>6. Fetched.SP = cpu.SP
  BY <1>1 DEF Becomes
<1>7. Plus(Fetched.SP, 2) = sp /\ sp \in Words
  BY <1>6, StackLevels
<1>8. Insn.op = "pop" /\ Insn.rr = "AF"
  BY DEF OnPair
<1>9. Popped(Fetched) = s
  <2>1. Fetched.SP = Fetched["SP"] /\ "SP" \in DOMAIN Fetched
    BY <1>1 DEF Becomes, CpuState
  <2> QED BY <1>7, <2>1, Zenon DEF Popped
<1> HIDE DEF pc, sp, s, a
<1>10. Moves(t, mem)
  <2>1. Pop
    BY <1>8, Chosen
  <2>2. SetWideRegister(s, "AF", WideAt(cpu.SP)) = t
    BY <1>5, Zenon DEF SetWideRegister
  <2> QED BY <1>6, <1>8, <1>9, <2>1, <2>2, Executes, Zenon DEF Pop
<1> HIDE DEF f
<1>11. Becomes(s, pc, sp, cpu.A, cpu.F, cpu.BC, cpu.DE, cpu.HL)
  BY <1>1, <1>7, Altered, Zenon DEF s
<1>12. Becomes(t, pc, sp, a, f, cpu.BC, cpu.DE, cpu.HL)
  BY <1>2, <1>3, <1>11, Altered, Zenon
<1> QED BY <1>10, <1>12 DEF pc, sp, a, f

\* The memory with a byte written over another.
ByteWritten(m, c, b) == m \in Store /\ m[c] = b /\ \A a \in Cells \ {c} : m[a] = mem[a]

\* A byte put into a cell.
LEMMA WritesByte ==
  ASSUME mem \in Store, NEW c \in Cells, NEW b \in Byte
  PROVE  ByteWritten([mem EXCEPT ![c] = b], c, b)
  BY DEF ByteWritten, Store

\* The byte at HL is incremented.
LEMMA IncrementsAtHL ==
  ASSUME Calm, Step, mem \in Store, cpu.HL \in Cells, Insn = OnByte("inc", Mem("HL", 0), 1)
  PROVE  \E t, m : \E f \in SUBSET Flags :
           /\ Moves(t, m) /\ ByteWritten(m, cpu.HL, (mem[cpu.HL] + 1) % 256)
           /\ Becomes(t, Plus(cpu.PC, 1), cpu.SP, cpu.A, f, cpu.BC, cpu.DE, cpu.HL)
<1> DEFINE pc == Plus(cpu.PC, 1)
           b == mem[cpu.HL]
           r == Inc(b, cpu.F)
           f == r.f
           t == [Fetched EXCEPT !.F = f]
           m == [mem EXCEPT ![cpu.HL] = (b + 1) % 256]
<1>1. Becomes(Fetched, pc, cpu.SP, cpu.A, cpu.F, cpu.BC, cpu.DE, cpu.HL)
  BY Fetches DEF OnByte
<1>2. /\ Insn.op = "inc" /\ Insn.dst = Mem("HL", 0) /\ Insn.copy = "none"
  BY DEF OnByte
<1>3. Fetched.F = cpu.F /\ Fetched.PC = pc /\ Fetched.HL = cpu.HL
  BY <1>1 DEF Becomes
<1>4. Before = b
  BY <1>1, <1>2, <1>3, Operands DEF Before
<1>5. b \in Byte
  BY DEF Store
<1>6. r.x = (b + 1) % 256 /\ f \in SUBSET Flags /\ (b + 1) % 256 \in Byte
  <2>1. cpu.F \in SUBSET Flags
    BY StateParts DEF Calm
  <2>2. Result(r)
    BY <1>5, <2>1, CountTyped
  <2>3. r.x = (b + 1) % 256
    BY DEF Inc
  <2> QED BY <2>2, <2>3 DEF Result
<1>7. Address(Fetched, Mem("HL", 0)) = cpu.HL
  <2>1. Address(Fetched, Mem("HL", 0)) = Plus(Fetched["HL"], 0)
    BY DEF Address, Mem
  <2>2. Plus(cpu.HL, 0) = cpu.HL
    BY StateParts, WordIs DEF Calm, Plus
  <2> QED BY <1>3, <2>1, <2>2
<1>8. Mem("HL", 0).at # "register"
  BY DEF Mem
<1>9. PutMemory(Fetched, Mem("HL", 0), r.x) = m
  BY <1>6, <1>7, <1>8 DEF PutMemory
<1>10. PutRegister(t, Mem("HL", 0), r.x) = t
  BY <1>8 DEF PutRegister
<1>11. Increment
  BY <1>2, Chosen
<1> HIDE DEF pc, b, m, r
<1>12. Moves(t, m)
  <2>1. Update({"inc"}, r)
    BY <1>3, <1>4, <1>11, Zenon DEF Increment, r
  <2>2. Execute({"inc"}, PutRegister(t, Mem("HL", 0), r.x), PutMemory(Fetched, Mem("HL", 0), r.x))
    BY <1>2, <2>1, Zenon DEF Update
  <2> QED BY <1>9, <1>10, <2>2, Executes, Zenon
<1>13. Becomes(t, pc, cpu.SP, cpu.A, f, cpu.BC, cpu.DE, cpu.HL)
  <2> HIDE DEF f
  <2> QED BY <1>1, <1>6, Altered, Zenon
<1>14. ByteWritten(m, cpu.HL, (b + 1) % 256)
  BY <1>6, WritesByte DEF m
<1> QED BY <1>6, <1>12, <1>13, <1>14 DEF pc, b

\* A byte is read from a port.
Receives(t, m, port) ==
  /\ Finish(t, m) /\ UNCHANGED <<guest, raised, output>>
  /\ line' = (line /\ port # Acknowledge)

\* A comes from a port.
LEMMA ReadsA ==
  ASSUME Calm, Step, NEW n, Insn = OnPort("in_a_(n)", n)
  PROVE  \E t : \E data \in Byte :
           /\ Receives(t, mem, n)
           /\ Becomes(t, Plus(cpu.PC, 2), cpu.SP, data, cpu.F, cpu.BC, cpu.DE, cpu.HL)
<1>1. Becomes(Fetched, Plus(cpu.PC, 2), cpu.SP, cpu.A, cpu.F, cpu.BC, cpu.DE, cpu.HL)
  BY Fetches DEF OnPort
<1>2. Input /\ Insn.op = "in_a_(n)" /\ Insn.n = n
  BY Chosen DEF OnPort
<1>3. PICK data \in Inputs : Receive(n, [Fetched EXCEPT !.A = data], mem)
  BY <1>2 DEF Input
<1>4. data \in Byte
  BY InputsAssumption
<1>5. Becomes([Fetched EXCEPT !.A = data], Plus(cpu.PC, 2), cpu.SP, data, cpu.F, cpu.BC,
              cpu.DE, cpu.HL)
  BY <1>1, <1>4, Altered
<1> QED BY <1>3, <1>4, <1>5 DEF Receive, Receives

\* The interrupts will be enabled.
LEMMA WillEnable ==
  ASSUME Calm, Step, Insn = Plain("ei", 1)
  PROVE  \E s, t : /\ Becomes(s, Plus(cpu.PC, 1), cpu.SP, cpu.A, cpu.F, cpu.BC, cpu.DE, cpu.HL)
                   /\ t = [s EXCEPT !.enable_interrupts_next_cycle = TRUE]
                   /\ Moves(t, mem)
<1>1. Becomes(Fetched, Plus(cpu.PC, 1), cpu.SP, cpu.A, cpu.F, cpu.BC, cpu.DE, cpu.HL)
  BY Fetches DEF Plain
<1>2. EnableInterrupts
  BY Chosen DEF Plain
<1>3. Moves([Fetched EXCEPT !.enable_interrupts_next_cycle = TRUE], mem)
  BY <1>2, Executes DEF EnableInterrupts
<1> QED BY <1>1, <1>3

\* The return from the handler, before which the enable takes effect.
LEMMA LeavesHandler ==
  ASSUME cpu \in CpuState, cpu.enable_interrupts_next_cycle, Step,
         cpu.SP \in Slots \ {0}, NEW w \in Words, Holds(mem, cpu.SP, w), Insn = Plain("reti", 2)
  PROVE  \E t : /\ Moves(t, mem) /\ t \in CpuState
                /\ t.PC = w /\ t.SP = Higher(cpu.SP) /\ t.A = cpu.A /\ t.F = cpu.F
                /\ t.HL = cpu.HL /\ t.halted = cpu.halted /\ Spared(t, cpu)
                /\ t.iff1 /\ t.iff2 /\ ~t.enable_interrupts_next_cycle
<1> DEFINE pc == Plus(cpu.PC, 2)
           s == [cpu EXCEPT !.iff1 = TRUE, !.iff2 = TRUE, !.enable_interrupts_next_cycle = FALSE]
           sp == Higher(cpu.SP)
<1>1. Fetched = [s EXCEPT !.PC = pc]
  <2>1. Woken = s /\ Insn.len = 2
    BY DEF Woken, Plain
  <2>2. s.PC = cpu.PC
    BY DEF CpuState
  <2> QED BY <2>1, <2>2 DEF Fetched
<1>2. pc \in Words
  BY StateParts, PlusIsWord
<1> HIDE DEF pc
<1>3. Fetched \in CpuState
  BY <1>1, <1>2 DEF CpuState
<1>4. /\ Fetched.SP = cpu.SP /\ Fetched.A = cpu.A /\ Fetched.F = cpu.F /\ Fetched.HL = cpu.HL
      /\ Fetched.iff1 = TRUE /\ Fetched.iff2 = TRUE /\ Fetched.halted = cpu.halted
      /\ Fetched.enable_interrupts_next_cycle = FALSE /\ Spared(Fetched, cpu)
  BY <1>1, <1>2 DEF CpuState, Spared
<1>5. Plus(Fetched.SP, 2) = sp /\ sp \in Words /\ WideAt(Fetched.SP) = w
  BY <1>4, StackLevels, OnStack
<1>6. Popped(Fetched) = [Fetched EXCEPT !.SP = sp]
  <2>1. Fetched.SP = Fetched["SP"] /\ "SP" \in DOMAIN Fetched
    BY <1>3 DEF CpuState
  <2> QED BY <1>5, <2>1, Zenon DEF Popped
<1> DEFINE t == [Fetched EXCEPT !.SP = sp, !.PC = w, !.iff1 = TRUE]
<1>7. Moves(t, mem)
  <2>1. ReturnFromInterrupt
    BY Chosen DEF Plain
  <2>2. [Returned(Fetched) EXCEPT !.iff1 = Fetched.iff2] = t
    BY <1>4, <1>5, <1>6, Zenon DEF Returned
  <2> QED BY <2>1, <2>2, Executes, Zenon DEF ReturnFromInterrupt
<1> HIDE DEF sp
<1>8. t \in CpuState
  BY <1>3, <1>5 DEF CpuState
<1>9. /\ t.PC = w /\ t.SP = sp /\ t.A = Fetched.A /\ t.F = Fetched.F /\ t.HL = Fetched.HL
      /\ t.halted = Fetched.halted /\ t.iff1 = TRUE /\ t.iff2 = Fetched.iff2
      /\ t.enable_interrupts_next_cycle = Fetched.enable_interrupts_next_cycle
      /\ Spared(t, Fetched)
  BY <1>3 DEF CpuState, Spared
<1>10. Spared(t, cpu)
  BY <1>4, <1>9 DEF Spared
<1> QED BY <1>4, <1>7, <1>8, <1>9, <1>10 DEF sp

\* A jump, when its condition holds.
LEMMA Jumps ==
  ASSUME Calm, Step, Insn.op = "jp", NEW cc, Insn.cc = cc, NEW len \in Nat, Insn.len = len,
         NEW w \in Words, Insn.nn = w
  PROVE  \E t : /\ Moves(t, mem)
                /\ Becomes(t, IF Condition(cpu.F, cc) THEN w ELSE Plus(cpu.PC, len), cpu.SP,
                           cpu.A, cpu.F, cpu.BC, cpu.DE, cpu.HL)
<1> DEFINE pc == Plus(cpu.PC, len)
<1>1. Becomes(Fetched, pc, cpu.SP, cpu.A, cpu.F, cpu.BC, cpu.DE, cpu.HL)
  BY Fetches
<1>2. Jump
  BY Chosen
<1>3. Fetched.F = cpu.F
  BY <1>1 DEF Becomes
<1>4. Moves(IF Condition(cpu.F, cc) THEN [Fetched EXCEPT !.PC = w] ELSE Fetched, mem)
  BY <1>2, <1>3, Executes DEF Jump
<1>5. Becomes([Fetched EXCEPT !.PC = w], w, cpu.SP, cpu.A, cpu.F, cpu.BC, cpu.DE, cpu.HL)
  BY <1>1, Altered
<1> HIDE DEF pc
<1>6. CASE Condition(cpu.F, cc)
  BY <1>4, <1>5, <1>6
<1>7. CASE ~Condition(cpu.F, cc)
  BY <1>1, <1>4, <1>7 DEF pc
<1> QED BY <1>6, <1>7

\* A relative jump, when its condition holds.
LEMMA JumpsRelative ==
  ASSUME Calm, Step, Insn.op = "jr", NEW cc, Insn.cc = cc, Insn.len = 2,
         NEW e \in Int, Insn.e = e
  PROVE  \E t : /\ Moves(t, mem)
                /\ Becomes(t, IF Condition(cpu.F, cc) THEN Plus(Plus(cpu.PC, 2), e)
                              ELSE Plus(cpu.PC, 2), cpu.SP,
                           cpu.A, cpu.F, cpu.BC, cpu.DE, cpu.HL)
<1> DEFINE pc == Plus(cpu.PC, 2)
           w == Plus(pc, e)
<1>1. Becomes(Fetched, pc, cpu.SP, cpu.A, cpu.F, cpu.BC, cpu.DE, cpu.HL)
  BY Fetches
<1>2. JumpRelative
  BY Chosen
<1>3. Fetched.F = cpu.F /\ Fetched.PC = pc /\ Fetched \in CpuState /\ pc \in Words
  BY <1>1, StateParts DEF Becomes
<1>4. w \in Words
  BY <1>3, PlusIsWord
<1> HIDE DEF pc
<1>5. Moves(IF Condition(cpu.F, cc) THEN [Fetched EXCEPT !.PC = w] ELSE Fetched, mem)
  <2>1. [Fetched EXCEPT !.PC = Plus(@, e)] = [Fetched EXCEPT !.PC = w]
    BY <1>3 DEF CpuState
  <2> QED BY <1>2, <1>3, <2>1, Executes DEF JumpRelative
<1> HIDE DEF w
<1>6. Becomes([Fetched EXCEPT !.PC = w], w, cpu.SP, cpu.A, cpu.F, cpu.BC, cpu.DE, cpu.HL)
  BY <1>1, <1>4, Altered
<1>7. CASE Condition(cpu.F, cc)
  BY <1>5, <1>6, <1>7 DEF w, pc
<1>8. CASE ~Condition(cpu.F, cc)
  BY <1>1, <1>5, <1>8 DEF w, pc
<1> QED BY <1>7, <1>8

\* IM, behind EI: the interrupts are enabled in that mode.
LEMMA SetsMode ==
  ASSUME cpu \in CpuState, cpu.enable_interrupts_next_cycle, Step, NEW mode \in Modes,
         Insn = Im(mode)
  PROVE  \E t : /\ Moves(t, mem) /\ t \in CpuState
                /\ t.PC = Plus(cpu.PC, 2) /\ t.SP = cpu.SP /\ t.halted = cpu.halted
                /\ t.iff1 /\ t.iff2 /\ ~t.enable_interrupts_next_cycle
                /\ t.interrupt_mode = mode
<1>1. Insn.op = "im" /\ Insn.mode = mode /\ Insn.len = 2
  BY DEF Im
<1>2. PICK pc : pc = Plus(cpu.PC, 2)
  OBVIOUS
<1>3. pc \in Words
  BY <1>2, StateParts, PlusIsWord
<1> DEFINE s == [cpu EXCEPT !.iff1 = TRUE, !.iff2 = TRUE, !.enable_interrupts_next_cycle = FALSE]
           t == [[s EXCEPT !.PC = pc] EXCEPT !.interrupt_mode = mode]
<1>4. Woken = s
  BY DEF Woken
<1>5. Fetched = [s EXCEPT !.PC = pc]
  <2>1. s.PC = cpu.PC
    BY DEF CpuState
  <2> HIDE DEF s
  <2> QED BY <1>1, <1>2, <1>4, <2>1 DEF Fetched
<1>6. SetInterruptMode
  BY <1>1, Chosen
<1>7. Moves(t, mem)
  BY <1>1, <1>5, <1>6, Executes DEF SetInterruptMode
<1>8. t \in CpuState
  BY <1>3 DEF CpuState
<1>9. /\ t.PC = pc /\ t.SP = cpu.SP /\ t.halted = cpu.halted
      /\ t.iff1 /\ t.iff2 /\ ~t.enable_interrupts_next_cycle
      /\ t.interrupt_mode = mode
  BY DEF CpuState
<1> QED BY <1>2, <1>7, <1>8, <1>9

\* A byte is stored.
LEMMA StoresByte ==
  ASSUME Calm, Step, mem \in Store, NEW dst, dst.at # "register", NEW src, NEW len \in Nat,
         Insn = Ld(dst, src, len), NEW b \in Byte, Operand(Fetched, src) = b,
         NEW c \in Cells, Address(Fetched, dst) = c
  PROVE  \E t, m : /\ Moves(t, m) /\ ByteWritten(m, c, b)
                   /\ Becomes(t, Plus(cpu.PC, len), cpu.SP, cpu.A, cpu.F, cpu.BC, cpu.DE, cpu.HL)
<1> DEFINE m == [mem EXCEPT ![c] = b]
<1>1. Becomes(Fetched, Plus(cpu.PC, len), cpu.SP, cpu.A, cpu.F, cpu.BC, cpu.DE, cpu.HL)
  BY Fetches DEF Ld
<1>2. Insn.op = "ld" /\ Insn.dst = dst /\ Insn.src = src
  BY DEF Ld
<1>3. Moves(Fetched, m)
  <2>1. PutRegister(Fetched, dst, b) = Fetched /\ PutMemory(Fetched, dst, b) = m
    BY DEF PutRegister, PutMemory
  <2>2. Load
    BY <1>2, Chosen
  <2> HIDE DEF m
  <2> QED BY <1>2, <2>1, <2>2, Executes DEF Load
<1>4. ByteWritten(m, c, b)
  BY WritesByte
<1> QED BY <1>1, <1>3, <1>4

\* Where an operand in memory is.
LEMMA Addresses ==
  ASSUME Calm, NEW len \in Nat, Insn.len = len
  PROVE  /\ Address(Fetched, Mem("HL", 0)) = cpu.HL
         /\ \A d \in Int : Address(Fetched, Mem("IX", d)) = Plus(cpu.IX, d)
         /\ \A nn : Address(Fetched, At(nn)) = nn
         /\ \A rr, d : Mem(rr, d).at # "register"
         /\ \A nn : At(nn).at # "register"
<1>1. Becomes(Fetched, Plus(cpu.PC, len), cpu.SP, cpu.A, cpu.F, cpu.BC, cpu.DE, cpu.HL)
  BY Fetches
<1>2. Fetched["HL"] = cpu.HL /\ Fetched["IX"] = cpu.IX
  BY <1>1 DEF Becomes
<1>3. \A rr, d : Address(Fetched, Mem(rr, d)) = Plus(Fetched[rr], d)
  BY DEF Address, Mem
<1>4. Plus(cpu.HL, 0) = cpu.HL
  BY StateParts, WordIs DEF Calm, Plus
<1>5. \A nn : Address(Fetched, At(nn)) = nn
  BY DEF Address, At
<1>6. (\A rr, d : Mem(rr, d).at # "register") /\ (\A nn : At(nn).at # "register")
  BY DEF Mem, At
<1> QED BY <1>2, <1>3, <1>4, <1>5, <1>6

\* DE and HL change places.
LEMMA Exchanges ==
  ASSUME Calm, Step, Insn = Plain("ex_de_hl", 1)
  PROVE  \E t : /\ Moves(t, mem)
                /\ Becomes(t, Plus(cpu.PC, 1), cpu.SP, cpu.A, cpu.F, cpu.BC, cpu.HL, cpu.DE)
<1> DEFINE t == [Fetched EXCEPT !.DE = Fetched.HL, !.HL = Fetched.DE]
<1>1. Becomes(Fetched, Plus(cpu.PC, 1), cpu.SP, cpu.A, cpu.F, cpu.BC, cpu.DE, cpu.HL)
  BY Fetches DEF Plain
<1>2. ExchangeDEHL
  BY Chosen DEF Plain
<1>3. Moves(t, mem)
  BY <1>2, Executes DEF ExchangeDEHL
<1>4. Becomes(t, Plus(cpu.PC, 1), cpu.SP, cpu.A, cpu.F, cpu.BC, cpu.HL, cpu.DE)
  BY <1>1 DEF Becomes, CpuState
<1> QED BY <1>3, <1>4

\* A counter that has not run out counts down.
LEMMA OneLess ==
  ASSUME NEW b \in 1 .. 8, NEW c, c = (b + 255) % 256
  PROVE  c = b - 1 /\ c \in Byte
<1>1. /\ 256 % 256 = 0 /\ 257 % 256 = 1 /\ 258 % 256 = 2 /\ 259 % 256 = 3
      /\ 260 % 256 = 4 /\ 261 % 256 = 5 /\ 262 % 256 = 6 /\ 263 % 256 = 7
  OBVIOUS
<1>2. CASE b = 1
  BY <1>1, <1>2, ByteIs
<1>3. CASE b = 2
  BY <1>1, <1>3, ByteIs
<1>4. CASE b = 3
  BY <1>1, <1>4, ByteIs
<1>5. CASE b = 4
  BY <1>1, <1>5, ByteIs
<1>6. CASE b = 5
  BY <1>1, <1>6, ByteIs
<1>7. CASE b = 6
  BY <1>1, <1>7, ByteIs
<1>8. CASE b = 7
  BY <1>1, <1>8, ByteIs
<1>9. CASE b = 8
  BY <1>1, <1>9, ByteIs
<1> QED BY <1>2, <1>3, <1>4, <1>5, <1>6, <1>7, <1>8, <1>9

\* Up the stack and down again.
LEMMA LowerOfHigher ==
  ASSUME NEW c \in Levels \ {0}
  PROVE  Higher(c) \in Slots /\ Lower(Higher(c)) = c
  BY DEF Levels, Slots, Higher, Lower

\* A pair goes to the memory.
LEMMA StoresPair ==
  ASSUME Calm, Step, mem \in Store, NEW rr \in {"BC", "DE", "HL"}, NEW len \in Nat,
         NEW c \in Cells, c + 1 \in Cells, Insn = LdWide(At(c), RR(rr), len)
  PROVE  \E t, m : /\ Moves(t, m) /\ Written(m, c, cpu[rr])
                   /\ Becomes(t, Plus(cpu.PC, len), cpu.SP, cpu.A, cpu.F, cpu.BC, cpu.DE, cpu.HL)
<1>1. Becomes(Fetched, Plus(cpu.PC, len), cpu.SP, cpu.A, cpu.F, cpu.BC, cpu.DE, cpu.HL)
  BY Fetches DEF LdWide
<1>2. Insn.op = "ld16" /\ Insn.dst = At(c) /\ Insn.src = RR(rr)
  BY DEF LdWide
<1>3. At(c).at = "absolute" /\ At(c).nn = c /\ RR(rr).at = "register" /\ RR(rr).rr = rr
  BY DEF At, RR
<1>4. PICK w \in Words : w = cpu[rr] /\ WideOperand(Fetched, RR(rr)) = w
  <2>1. cpu[rr] \in Words
    BY StateParts DEF Calm
  <2>2. Fetched[rr] = cpu[rr]
    BY <1>1 DEF Becomes
  <2> QED BY <1>3, <2>1, <2>2 DEF WideOperand, WideRegister
<1>5. Plus(c, 1) = c + 1
  BY DEF Plus, Cells, Stack
<1> DEFINE m == [mem EXCEPT ![c] = Low(w), ![c + 1] = High(w)]
<1>6. Moves(Fetched, m)
  <2>1. LoadWide
    BY <1>2, Chosen
  <2>2. Execute({"ld16"}, Fetched, m)
    BY <1>2, <1>3, <1>4, <1>5, <2>1, Zenon DEF LoadWide
  <2> HIDE DEF m
  <2> QED BY <2>2, Executes
<1>7. Written(m, c, w)
  <2>1. Low(w) \in Byte /\ High(w) \in Byte
    BY HalvesOfWord
  <2>2. c \in Int
    BY DEF Cells
  <2> HIDE DEF Cells
  <2>3. PICK n : n = m
    OBVIOUS
  <2>4. WrittenOver(mem, n, c, w)
    BY <2>1, <2>2, <2>3 DEF WrittenOver, Store, Holds
  <2> QED BY <2>3, <2>4 DEF Written
<1> HIDE DEF m
<1> QED BY <1>1, <1>4, <1>6, <1>7

\* What EXX, EX AF,AF' leave alone.
Passes(t, pc) ==
  /\ t \in CpuState /\ t.PC = pc /\ t.SP = cpu.SP
  /\ t.IX = cpu.IX /\ t.IY = cpu.IY /\ t.I = cpu.I
  /\ t.interrupt_mode = cpu.interrupt_mode /\ t.halted = cpu.halted
  /\ t.enable_interrupts_next_cycle = FALSE
  /\ t.iff1 = cpu.iff1 /\ t.iff2 = cpu.iff2

\* The pairs are exchanged for the others.
LEMMA ExchangesPairs ==
  ASSUME Calm, Step, Insn = Plain("exx", 1)
  PROVE  \E t : /\ Moves(t, mem) /\ Passes(t, Plus(cpu.PC, 1))
                /\ t.A = cpu.A /\ t.F = cpu.F
                /\ t.BC = cpu.prime.BC /\ t.DE = cpu.prime.DE /\ t.HL = cpu.prime.HL
                /\ t.prime.BC = cpu.BC /\ t.prime.DE = cpu.DE /\ t.prime.HL = cpu.HL
<1> DEFINE t == [Fetched EXCEPT !.BC = Fetched.prime.BC, !.DE = Fetched.prime.DE,
                                !.HL = Fetched.prime.HL, !.prime.BC = Fetched.BC,
                                !.prime.DE = Fetched.DE, !.prime.HL = Fetched.HL]
<1>1. Becomes(Fetched, Plus(cpu.PC, 1), cpu.SP, cpu.A, cpu.F, cpu.BC, cpu.DE, cpu.HL)
  BY Fetches DEF Plain
<1>2. ExchangeExtra
  BY Chosen DEF Plain
<1>3. Moves(t, mem)
  BY <1>2, Executes DEF ExchangeExtra
<1>4. Fetched \in CpuState /\ Passes(Fetched, Plus(cpu.PC, 1)) /\ Fetched.prime = cpu.prime
  BY <1>1 DEF Becomes, Passes
<1>5. t \in CpuState
  BY <1>4 DEF CpuState
<1>6. /\ t.PC = Fetched.PC /\ t.SP = Fetched.SP /\ t.IX = Fetched.IX /\ t.IY = Fetched.IY
      /\ t.I = Fetched.I /\ t.interrupt_mode = Fetched.interrupt_mode
      /\ t.halted = Fetched.halted /\ t.iff1 = Fetched.iff1 /\ t.iff2 = Fetched.iff2
      /\ t.enable_interrupts_next_cycle = Fetched.enable_interrupts_next_cycle
      /\ t.A = Fetched.A /\ t.F = Fetched.F
  BY <1>4 DEF CpuState
<1>7. /\ t.BC = Fetched.prime.BC /\ t.DE = Fetched.prime.DE /\ t.HL = Fetched.prime.HL
      /\ t.prime.BC = Fetched.BC /\ t.prime.DE = Fetched.DE /\ t.prime.HL = Fetched.HL
  BY <1>4 DEF CpuState
<1> HIDE DEF t
<1>8. Passes(t, Plus(cpu.PC, 1))
  BY <1>4, <1>5, <1>6 DEF Passes
<1> QED BY <1>1, <1>3, <1>4, <1>6, <1>7, <1>8 DEF Becomes

\* A and the flags are exchanged for the others.
LEMMA ExchangesFlags ==
  ASSUME Calm, Step, Insn = Plain("ex_af", 1)
  PROVE  \E t : /\ Moves(t, mem) /\ Passes(t, Plus(cpu.PC, 1))
                /\ t.BC = cpu.BC /\ t.DE = cpu.DE /\ t.HL = cpu.HL
                /\ t.prime.BC = cpu.prime.BC /\ t.prime.DE = cpu.prime.DE
                /\ t.prime.HL = cpu.prime.HL
<1> DEFINE t == [Fetched EXCEPT !.A = Fetched.prime.A, !.F = Fetched.prime.F,
                                !.prime.A = Fetched.A, !.prime.F = Fetched.F]
<1>1. Becomes(Fetched, Plus(cpu.PC, 1), cpu.SP, cpu.A, cpu.F, cpu.BC, cpu.DE, cpu.HL)
  BY Fetches DEF Plain
<1>2. ExchangeAF
  BY Chosen DEF Plain
<1>3. Moves(t, mem)
  BY <1>2, Executes DEF ExchangeAF
<1>4. Fetched \in CpuState /\ Passes(Fetched, Plus(cpu.PC, 1)) /\ Fetched.prime = cpu.prime
  BY <1>1 DEF Becomes, Passes
<1>5. t \in CpuState
  BY <1>4 DEF CpuState
<1>6. /\ t.PC = Fetched.PC /\ t.SP = Fetched.SP /\ t.IX = Fetched.IX /\ t.IY = Fetched.IY
      /\ t.I = Fetched.I /\ t.interrupt_mode = Fetched.interrupt_mode
      /\ t.halted = Fetched.halted /\ t.iff1 = Fetched.iff1 /\ t.iff2 = Fetched.iff2
      /\ t.enable_interrupts_next_cycle = Fetched.enable_interrupts_next_cycle
      /\ t.BC = Fetched.BC /\ t.DE = Fetched.DE /\ t.HL = Fetched.HL
  BY <1>4 DEF CpuState
<1>7. /\ t.prime.BC = Fetched.prime.BC /\ t.prime.DE = Fetched.prime.DE
      /\ t.prime.HL = Fetched.prime.HL
  BY <1>4 DEF CpuState
<1> HIDE DEF t
<1>8. Passes(t, Plus(cpu.PC, 1))
  BY <1>4, <1>5, <1>6 DEF Passes
<1> QED BY <1>1, <1>3, <1>4, <1>6, <1>7, <1>8 DEF Becomes

\* What passes is as sane as before.
LEMMA PassesSane ==
  ASSUME Sane(cpu), NEW t, NEW pc, Passes(t, pc)
  PROVE  Sane(t) /\ t.PC = pc /\ t.SP = cpu.SP /\ t.iff1 = cpu.iff1 /\ t.halted = cpu.halted
  BY DEF Sane, Passes

\* HL and the top of the stack change places.
LEMMA ExchangesTop ==
  ASSUME Calm, Step, mem \in Store, cpu.SP \in Levels \ {0}, NEW w \in Words,
         Holds(mem, cpu.SP, w), Insn = OnPair("ex_(sp)", "HL")
  PROVE  \E t, m : /\ Moves(t, m) /\ Written(m, cpu.SP, cpu.HL)
                   /\ Becomes(t, Plus(cpu.PC, 1), cpu.SP, cpu.A, cpu.F, cpu.BC, cpu.DE, w)
<1> DEFINE pc == Plus(cpu.PC, 1)
           t == [Fetched EXCEPT !.HL = w]
           s == [Fetched EXCEPT !.SP = Higher(cpu.SP)]
           m == Push(s, cpu.HL, mem)
<1>1. Becomes(Fetched, pc, cpu.SP, cpu.A, cpu.F, cpu.BC, cpu.DE, cpu.HL)
  BY Fetches DEF OnPair
<1>2. Fetched.SP = cpu.SP /\ WideAt(Fetched.SP) = w /\ cpu.HL \in Words /\ Fetched["HL"] = cpu.HL
  BY <1>1, LevelsAreSlots, OnStack, StateParts DEF Becomes, Calm
<1>3. Plus(Fetched.SP, 2) = Higher(cpu.SP) /\ Higher(cpu.SP) \in Words
  BY <1>2, LevelsAreSlots, StackLevels
<1>4. Popped(Fetched) = s
  <2>1. Fetched.SP = Fetched["SP"] /\ "SP" \in DOMAIN Fetched
    BY <1>1 DEF Becomes, CpuState
  <2> QED BY <1>3, <2>1, Zenon DEF Popped
<1>5. s.SP = Higher(cpu.SP) /\ Higher(cpu.SP) \in Slots /\ Lower(Higher(cpu.SP)) = cpu.SP
  <2>1. s.SP = Higher(cpu.SP)
    BY <1>1 DEF Becomes, CpuState
  <2>2. Higher(cpu.SP) \in Slots /\ Lower(Higher(cpu.SP)) = cpu.SP
    BY LowerOfHigher
  <2> QED BY <2>1, <2>2
<1>6. Moves(t, m)
  <2>1. ExchangeStack /\ Insn.rr = "HL"
    BY Chosen DEF OnPair
  <2>2. [Fetched EXCEPT !["HL"] = WideAt(Fetched.SP)] = t
    BY <1>2
  <2> HIDE DEF s
  <2> QED BY <1>2, <1>4, <2>1, <2>2, Executes, Zenon DEF ExchangeStack
<1>7. Written(m, cpu.SP, cpu.HL)
  <2> HIDE DEF s
  <2>1. s.SP \in Slots /\ Lower(s.SP) = cpu.SP
    BY <1>5
  <2>2. WrittenOver(mem, Push(s, cpu.HL, mem), Lower(s.SP), cpu.HL)
    BY <1>2, <2>1, Pushes
  <2> QED BY <2>1, <2>2, Zenon DEF Written
<1>8. Becomes(t, pc, cpu.SP, cpu.A, cpu.F, cpu.BC, cpu.DE, w)
  BY <1>1, Altered, Zenon
<1> QED BY <1>6, <1>7, <1>8

\* A restart.
LEMMA Restarts ==
  ASSUME Calm, Step, mem \in Store, cpu.SP \in Slots, NEW w \in Words, Insn = Rst(w)
  PROVE  \E t, m : /\ Moves(t, m)
                   /\ Written(m, Lower(cpu.SP), Plus(cpu.PC, 1))
                   /\ Becomes(t, w, Lower(cpu.SP), cpu.A, cpu.F, cpu.BC, cpu.DE, cpu.HL)
<1> DEFINE pc == Plus(cpu.PC, 1)
           sp == Lower(cpu.SP)
           t == [Fetched EXCEPT !.SP = sp, !.PC = w]
           m == Push(Fetched, Fetched.PC, mem)
<1>1. Becomes(Fetched, pc, cpu.SP, cpu.A, cpu.F, cpu.BC, cpu.DE, cpu.HL)
  BY Fetches DEF Rst
<1>2. pc \in Words /\ Fetched.PC = pc /\ Fetched.SP = cpu.SP
  BY <1>1, StateParts DEF Becomes
<1>3. Plus(Fetched.SP, -2) = sp /\ sp \in Words
  BY <1>2, StackLevels
<1>4. Moves(t, m)
  <2>1. Reset /\ Insn.nn = w
    BY Chosen DEF Rst
  <2>2. [Fetched EXCEPT !.SP = Plus(@, -2), !.PC = Insn.nn] = t
    <3>1. Fetched.SP = Fetched["SP"] /\ "SP" \in DOMAIN Fetched
      BY <1>1 DEF Becomes, CpuState
    <3> QED BY <1>3, <2>1, <3>1, Zenon
  <2> QED BY <2>1, <2>2, Executes, Zenon DEF Reset
<1>5. Written(m, sp, pc)
  <2> HIDE DEF pc
  <2> QED BY <1>2, Pushes DEF Written
<1>6. Becomes(t, w, sp, cpu.A, cpu.F, cpu.BC, cpu.DE, cpu.HL)
  BY <1>1, <1>3, Altered, Zenon
<1> QED BY <1>4, <1>5, <1>6

\* A jump to where a word in memory says.
LEMMA JumpsIndirectly ==
  ASSUME Calm, Step, NEW w \in Words, WideAt(cpu.HL) = w, Insn = OnPair("jp_(rr)", "HL")
  PROVE  \E t : /\ Moves(t, mem)
                /\ Becomes(t, w, cpu.SP, cpu.A, cpu.F, cpu.BC, cpu.DE, cpu.HL)
<1> DEFINE pc == Plus(cpu.PC, 1)
           t == [Fetched EXCEPT !.PC = w]
<1>1. Becomes(Fetched, pc, cpu.SP, cpu.A, cpu.F, cpu.BC, cpu.DE, cpu.HL)
  BY Fetches DEF OnPair
<1>2. Fetched["HL"] = cpu.HL
  BY <1>1 DEF Becomes
<1>3. JumpIndirect /\ Insn.rr = "HL"
  BY Chosen DEF OnPair
<1>4. Moves(t, mem)
  BY <1>2, <1>3, Executes DEF JumpIndirect
<1>5. Becomes(t, w, cpu.SP, cpu.A, cpu.F, cpu.BC, cpu.DE, cpu.HL)
  BY <1>1, Altered, Zenon
<1> QED BY <1>4, <1>5

\* The registers of such a state, and how they change.
LEMMA RegistersOf ==
  ASSUME NEW s, NEW p, NEW q, NEW a, NEW f, NEW bc, NEW de, NEW h, Becomes(s, p, q, a, f, bc, de, h)
  PROVE  /\ Register(s, "A") = a /\ Register(s, "B") = High(bc) /\ Register(s, "C") = Low(bc)
         /\ Register(s, "D") = High(de) /\ Register(s, "E") = Low(de)
         /\ \A b \in Byte :
              /\ Becomes(SetRegister(s, "A", b), p, q, b, f, bc, de, h)
              /\ Becomes(SetRegister(s, "B", b), p, q, a, f, 256 * b + Low(bc), de, h)
              /\ Becomes(SetRegister(s, "C", b), p, q, a, f, 256 * High(bc) + b, de, h)
              /\ Becomes(SetRegister(s, "D", b), p, q, a, f, bc, 256 * b + Low(de), h)
              /\ Becomes(SetRegister(s, "E", b), p, q, a, f, bc, 256 * High(de) + b, h)
<1>1. s \in CpuState /\ s.A = a /\ s.BC = bc /\ s.DE = de /\ bc \in Words /\ de \in Words
  BY StateParts DEF Becomes
<1>2. High(bc) \in Byte /\ Low(bc) \in Byte /\ High(de) \in Byte /\ Low(de) \in Byte
  BY <1>1, HalvesOfWord
<1>3. /\ Register(s, "A") = a /\ Register(s, "B") = High(bc) /\ Register(s, "C") = Low(bc)
      /\ Register(s, "D") = High(de) /\ Register(s, "E") = Low(de)
  BY <1>1 DEF Register, HighPart, LowPart
<1>4. ASSUME NEW b \in Byte
      PROVE  /\ Becomes(SetRegister(s, "A", b), p, q, b, f, bc, de, h)
             /\ Becomes(SetRegister(s, "B", b), p, q, a, f, 256 * b + Low(bc), de, h)
             /\ Becomes(SetRegister(s, "C", b), p, q, a, f, 256 * High(bc) + b, de, h)
             /\ Becomes(SetRegister(s, "D", b), p, q, a, f, bc, 256 * b + Low(de), h)
             /\ Becomes(SetRegister(s, "E", b), p, q, a, f, bc, 256 * High(de) + b, h)
  <2>1. /\ 256 * b + Low(bc) \in Words /\ 256 * High(bc) + b \in Words
        /\ 256 * b + Low(de) \in Words /\ 256 * High(de) + b \in Words
    BY <1>2, WordOfHalves
  <2>2. "BC" \in DOMAIN s /\ "DE" \in DOMAIN s
    BY <1>1 DEF CpuState
  <2>3. SetRegister(s, "A", b) = [s EXCEPT !.A = b]
    BY <1>1 DEF SetRegister, HighPart, LowPart
  <2>4. SetRegister(s, "B", b) = [s EXCEPT !.BC = 256 * b + Low(bc)]
    BY <1>1, <2>2 DEF SetRegister, HighPart, LowPart
  <2>5. SetRegister(s, "C", b) = [s EXCEPT !.BC = 256 * High(bc) + b]
    BY <1>1, <2>2 DEF SetRegister, HighPart, LowPart
  <2>6. SetRegister(s, "D", b) = [s EXCEPT !.DE = 256 * b + Low(de)]
    BY <1>1, <2>2 DEF SetRegister, HighPart, LowPart
  <2>7. SetRegister(s, "E", b) = [s EXCEPT !.DE = 256 * High(de) + b]
    BY <1>1, <2>2 DEF SetRegister, HighPart, LowPart
  <2>8. PICK w1, w2, w3, w4 \in Words :
          /\ w1 = 256 * b + Low(bc) /\ w2 = 256 * High(bc) + b
          /\ w3 = 256 * b + Low(de) /\ w4 = 256 * High(de) + b
    BY <2>1
  <2>9. /\ Becomes([s EXCEPT !.A = b], p, q, b, f, bc, de, h)
        /\ Becomes([s EXCEPT !.BC = w1], p, q, a, f, w1, de, h)
        /\ Becomes([s EXCEPT !.BC = w2], p, q, a, f, w2, de, h)
        /\ Becomes([s EXCEPT !.DE = w3], p, q, a, f, bc, w3, h)
        /\ Becomes([s EXCEPT !.DE = w4], p, q, a, f, bc, w4, h)
    BY Altered
  <2> QED BY <2>3, <2>4, <2>5, <2>6, <2>7, <2>8, <2>9
<1> QED BY <1>3, <1>4

\* An instruction that goes back over its two bytes.
LEMMA Repeats ==
  ASSUME NEW s, NEW p, NEW q, NEW a, NEW f, NEW bc, NEW de, NEW h,
         Becomes(s, p, q, a, f, bc, de, h), NEW more \in BOOLEAN
  PROVE  Becomes(Again(s, more), IF more THEN Plus(p, -2) ELSE p, q, a, f, bc, de, h)
<1>1. s \in CpuState /\ s.PC = p /\ p \in Words
  BY StateParts DEF Becomes
<1>2. PICK w \in Words : w = Plus(p, -2)
  BY <1>1, PlusIsWord
<1>3. [s EXCEPT !.PC = Plus(@, -2)] = [s EXCEPT !.PC = w]
  BY <1>1, <1>2 DEF CpuState
<1>4. Becomes([s EXCEPT !.PC = w], w, q, a, f, bc, de, h)
  BY Altered
<1> QED BY <1>2, <1>3, <1>4 DEF Again

\* A block instruction on a port counts in B and goes up.
LEMMA CountsPort ==
  ASSUME Calm, Insn.len = 2, Insn.up = TRUE, Insn.repeat = TRUE
  PROVE  \E t, b : \E f \in SUBSET Flags :
           /\ t = BlockPort(Fetched) /\ b = (OfB(cpu) + 255) % 256
           /\ Becomes(t, IF b # 0 THEN Plus(Plus(cpu.PC, 2), -2) ELSE Plus(cpu.PC, 2), cpu.SP,
                      cpu.A, f, 256 * b + OfC(cpu), cpu.DE, Plus(cpu.HL, 1))
<1> DEFINE pc == Plus(cpu.PC, 2)
<1>1. Becomes(Fetched, pc, cpu.SP, cpu.A, cpu.F, cpu.BC, cpu.DE, cpu.HL)
  BY Fetches
<1>2. Fetched \in CpuState /\ Fetched.HL = cpu.HL /\ cpu.HL \in Words /\ OfB(cpu) \in Byte
  BY <1>1, StateParts, HalvesOfWord DEF Calm, Becomes, OfB
<1>3. PICK b \in Byte : b = (OfB(cpu) + 255) % 256
  BY <1>2, Wrapped, ByteIs
<1>4. PICK h \in Words : h = Plus(cpu.HL, 1)
  BY <1>2, PlusIsWord
<1>5. PICK s : s = [Fetched EXCEPT !.HL = Plus(@, Sign)]
  OBVIOUS
<1>6. s = [Fetched EXCEPT !.HL = h]
  BY <1>2, <1>4, <1>5 DEF CpuState, Sign
<1>7. Becomes(s, pc, cpu.SP, cpu.A, cpu.F, cpu.BC, cpu.DE, h)
  <2> HIDE DEF pc
  <2> QED BY <1>1, <1>6, Altered
<1>8. PICK t : t = SetRegister(s, "B", b)
  OBVIOUS
<1>9. Becomes(t, pc, cpu.SP, cpu.A, cpu.F, 256 * b + OfC(cpu), cpu.DE, h)
  <2> HIDE DEF pc
  <2> QED BY <1>7, <1>8, RegistersOf DEF OfC
<1> DEFINE w == 256 * b + OfC(cpu)
<1> HIDE DEF w
<1>10. t \in CpuState /\ t.F = cpu.F /\ cpu.F \in SUBSET Flags
  BY <1>2, <1>9, StateParts DEF Becomes, Calm
<1>11. PICK f \in SUBSET Flags : f = PortBlockFlags(b, cpu.F)
  BY <1>10, OtherFlags
<1>12. PICK v : v = [t EXCEPT !.F = PortBlockFlags(b, @)]
  OBVIOUS
<1>13. v = [t EXCEPT !.F = f]
  BY <1>10, <1>11, <1>12 DEF CpuState
<1>14. Becomes(v, pc, cpu.SP, cpu.A, f, 256 * b + OfC(cpu), cpu.DE, h)
  <2>1. Becomes(t, pc, cpu.SP, cpu.A, cpu.F, w, cpu.DE, h)
    BY <1>9 DEF w
  <2>2. Becomes(v, pc, cpu.SP, cpu.A, f, w, cpu.DE, h)
    <3> HIDE DEF pc
    <3> QED BY <1>13, <2>1, Altered
  <2> QED BY <2>2 DEF w
<1>15. Register(Fetched, "B") = OfB(cpu)
  <2> HIDE DEF pc
  <2> QED BY <1>1, RegistersOf DEF OfB
<1>16. BlockPort(Fetched) = Again(v, b # 0)
  BY <1>3, <1>5, <1>8, <1>12, <1>15 DEF BlockPort
<1>17. Becomes(Again(v, b # 0), IF b # 0 THEN Plus(pc, -2) ELSE pc, cpu.SP, cpu.A, f,
               256 * b + OfC(cpu), cpu.DE, h)
  <2>1. Becomes(v, pc, cpu.SP, cpu.A, f, w, cpu.DE, h)
    BY <1>14 DEF w
  <2> HIDE DEF pc
  <2>2. (b # 0) \in BOOLEAN
    OBVIOUS
  <2>3. Becomes(Again(v, b # 0), IF b # 0 THEN Plus(pc, -2) ELSE pc, cpu.SP, cpu.A, f, w,
                cpu.DE, h)
    BY <2>1, <2>2, Repeats
  <2> QED BY <2>3 DEF w
<1> QED BY <1>3, <1>4, <1>16, <1>17

\* A byte is read from the port in C to where HL points, which goes up.
OnceMore(t, b) ==
  /\ b = (OfB(cpu) + 255) % 256
  /\ \E f \in SUBSET Flags :
       Becomes(t, IF b # 0 THEN Plus(Plus(cpu.PC, 2), -2) ELSE Plus(cpu.PC, 2), cpu.SP,
               cpu.A, f, 256 * b + OfC(cpu), cpu.DE, Plus(cpu.HL, 1))

\* One round of a block input, which may have to be repeated.
LEMMA ReadsBlock ==
  ASSUME Calm, Step, mem \in Store, cpu.HL \in Cells,
         Insn.op = "ini", Insn.len = 2, Insn.up = TRUE, Insn.repeat = TRUE
  PROVE  \E t, m, b : \E data \in Byte :
           /\ Receives(t, m, OfC(cpu)) /\ ByteWritten(m, cpu.HL, data) /\ OnceMore(t, b)
<1> DEFINE n == OfC(cpu)
<1>1. PICK t, b : \E f \in SUBSET Flags :
         /\ t = BlockPort(Fetched) /\ b = (OfB(cpu) + 255) % 256
         /\ Becomes(t, IF b # 0 THEN Plus(Plus(cpu.PC, 2), -2) ELSE Plus(cpu.PC, 2), cpu.SP,
                    cpu.A, f, 256 * b + OfC(cpu), cpu.DE, Plus(cpu.HL, 1))
  BY CountsPort
<1>2. Register(Fetched, "C") = n /\ Fetched.HL = cpu.HL
  <2>1. PICK pc : pc = Plus(cpu.PC, 2)
    OBVIOUS
  <2>2. Becomes(Fetched, pc, cpu.SP, cpu.A, cpu.F, cpu.BC, cpu.DE, cpu.HL)
    BY <2>1, Fetches
  <2>3. Register(Fetched, "C") = Low(cpu.BC)
    BY <2>2, RegistersOf
  <2> QED BY <2>2, <2>3 DEF Becomes, OfC
<1>3. Input
  BY Chosen
<1>4. PICK data \in Inputs : Receive(n, t, [mem EXCEPT ![cpu.HL] = data])
  BY <1>1, <1>2, <1>3 DEF Input
<1>5. data \in Byte
  BY InputsAssumption
<1>6. ByteWritten([mem EXCEPT ![cpu.HL] = data], cpu.HL, data)
  BY <1>5, WritesByte
<1>7. Receives(t, [mem EXCEPT ![cpu.HL] = data], n)
  BY <1>4 DEF Receive, Receives
<1>8. PICK m : m = [mem EXCEPT ![cpu.HL] = data]
  OBVIOUS
<1>9. Receives(t, m, n) /\ ByteWritten(m, cpu.HL, data)
  BY <1>6, <1>7, <1>8
<1>10. OnceMore(t, b)
  BY <1>1 DEF OnceMore
<1> QED BY <1>5, <1>9, <1>10

\* The byte where HL points is written to the port in C, and HL goes up.
LEMMA WritesBlock ==
  ASSUME Calm, Step, Insn.op = "outi", Insn.len = 2, Insn.up = TRUE, Insn.repeat = TRUE
  PROVE  \E t, b : Writes(t, OfC(cpu), mem[cpu.HL]) /\ OnceMore(t, b)
<1> DEFINE n == OfC(cpu)
<1>1. PICK t, b : \E f \in SUBSET Flags :
         /\ t = BlockPort(Fetched) /\ b = (OfB(cpu) + 255) % 256
         /\ Becomes(t, IF b # 0 THEN Plus(Plus(cpu.PC, 2), -2) ELSE Plus(cpu.PC, 2), cpu.SP,
                    cpu.A, f, 256 * b + OfC(cpu), cpu.DE, Plus(cpu.HL, 1))
  BY CountsPort
<1>2. Register(Fetched, "C") = n /\ Fetched.HL = cpu.HL
  <2>1. PICK pc : pc = Plus(cpu.PC, 2)
    OBVIOUS
  <2>2. Becomes(Fetched, pc, cpu.SP, cpu.A, cpu.F, cpu.BC, cpu.DE, cpu.HL)
    BY <2>1, Fetches
  <2>3. Register(Fetched, "C") = Low(cpu.BC)
    BY <2>2, RegistersOf
  <2> QED BY <2>2, <2>3 DEF Becomes, OfC
<1>3. Output
  BY Chosen
<1>4. Send(n, mem[cpu.HL], t)
  BY <1>1, <1>2, <1>3 DEF Output
<1>5. OnceMore(t, b)
  BY <1>1 DEF OnceMore
<1> QED BY <1>4, <1>5 DEF Send, Writes

\* A byte is read from the port in C, and goes nowhere.
LEMMA ReadsNothing ==
  ASSUME Calm, Step, NEW n, OfC(cpu) = n, Insn = Plain("in_(c)", 2)
  PROVE  \E t : /\ Receives(t, mem, n)
                /\ Becomes(t, Plus(cpu.PC, 2), cpu.SP, cpu.A, cpu.F, cpu.BC, cpu.DE, cpu.HL)
<1>1. Insn.len = 2 /\ Insn.op = "in_(c)"
  BY DEF Plain
<1>2. PICK pc : pc = Plus(cpu.PC, 2)
  OBVIOUS
<1>3. Becomes(Fetched, pc, cpu.SP, cpu.A, cpu.F, cpu.BC, cpu.DE, cpu.HL)
  BY <1>1, <1>2, Fetches
<1>4. Register(Fetched, "C") = n
  BY <1>3, RegistersOf DEF OfC
<1>5. Input
  BY <1>1, Chosen
<1>6. Receive(n, Fetched, mem)
  BY <1>1, <1>4, <1>5 DEF Input
<1> QED BY <1>2, <1>3, <1>6 DEF Receive, Receives

\* A byte is read from the port in C to D.
LEMMA ReadsD ==
  ASSUME Calm, Step, NEW n, OfC(cpu) = n, Insn = InC("D")
  PROVE  \E t : \E data \in Byte, f \in SUBSET Flags :
           /\ Receives(t, mem, n)
           /\ Becomes(t, Plus(cpu.PC, 2), cpu.SP, cpu.A, f, cpu.BC, 256 * data + OfE(cpu), cpu.HL)
<1>1. Insn.len = 2 /\ Insn.op = "in" /\ Insn.r = "D"
  BY DEF InC
<1>2. PICK pc : pc = Plus(cpu.PC, 2)
  OBVIOUS
<1>3. Becomes(Fetched, pc, cpu.SP, cpu.A, cpu.F, cpu.BC, cpu.DE, cpu.HL)
  BY <1>1, <1>2, Fetches
<1>4. Register(Fetched, "C") = n
  BY <1>3, RegistersOf DEF OfC
<1>5. Input
  BY <1>1, Chosen
<1>6. PICK data \in Inputs :
        Receive(n, SetRegister([Fetched EXCEPT !.F = InputFlags(data, @)], "D", data), mem)
  BY <1>1, <1>4, <1>5 DEF Input
<1>7. data \in Byte
  BY InputsAssumption
<1>8. Fetched \in CpuState /\ Fetched.F = cpu.F /\ cpu.F \in SUBSET Flags
  BY <1>3, StateParts DEF Becomes, Calm
<1>9. PICK f \in SUBSET Flags : f = InputFlags(data, cpu.F)
  BY <1>8, OtherFlags
<1>10. PICK s : s = [Fetched EXCEPT !.F = InputFlags(data, @)]
  OBVIOUS
<1>11. s = [Fetched EXCEPT !.F = f]
  BY <1>8, <1>9, <1>10 DEF CpuState
<1>12. Becomes(s, pc, cpu.SP, cpu.A, f, cpu.BC, cpu.DE, cpu.HL)
  BY <1>3, <1>11, Altered
<1>13. Becomes(SetRegister(s, "D", data), pc, cpu.SP, cpu.A, f, cpu.BC,
               256 * data + OfE(cpu), cpu.HL)
  BY <1>7, <1>12, RegistersOf DEF OfE
<1> QED BY <1>2, <1>6, <1>7, <1>10, <1>13 DEF Receive, Receives

\* A register is written to the port in C.
LEMMA WritesRegister ==
  ASSUME Calm, Step, NEW n, OfC(cpu) = n, NEW src, Insn = Math("out", src, 2),
         NEW b, Operand(Fetched, src) = b
  PROVE  \E t : /\ Writes(t, n, b)
                /\ Becomes(t, Plus(cpu.PC, 2), cpu.SP, cpu.A, cpu.F, cpu.BC, cpu.DE, cpu.HL)
<1>1. Insn.len = 2 /\ Insn.op = "out" /\ Insn.src = src
  BY DEF Math
<1>2. PICK pc : pc = Plus(cpu.PC, 2)
  OBVIOUS
<1>3. Becomes(Fetched, pc, cpu.SP, cpu.A, cpu.F, cpu.BC, cpu.DE, cpu.HL)
  BY <1>1, <1>2, Fetches
<1>4. Register(Fetched, "C") = n
  BY <1>3, RegistersOf DEF OfC
<1>5. Output
  BY <1>1, Chosen
<1>6. Send(n, b, Fetched)
  BY <1>1, <1>4, <1>5 DEF Output
<1> QED BY <1>2, <1>3, <1>6 DEF Send, Writes

\* A result goes back to memory, and to B as well if the instruction copies it there.
LEMMA UpdatesMemory ==
  ASSUME Calm, mem \in Store, NEW ops, NEW r, Result(r), Update(ops, r),
         NEW len \in Nat, Insn.len = len, NEW dst, Insn.dst = dst, dst.at # "register",
         NEW c \in Cells, Address(Fetched, dst) = c, NEW copy \in {"none", "B"}, Insn.copy = copy
  PROVE  \E t, m : /\ Moves(t, m) /\ ByteWritten(m, c, r.x)
                   /\ Becomes(t, Plus(cpu.PC, len), cpu.SP, cpu.A, r.f,
                              IF copy = "B" THEN 256 * r.x + OfC(cpu) ELSE cpu.BC,
                              cpu.DE, cpu.HL)
<1>1. PICK pc : pc = Plus(cpu.PC, len)
  OBVIOUS
<1>2. Becomes(Fetched, pc, cpu.SP, cpu.A, cpu.F, cpu.BC, cpu.DE, cpu.HL)
  BY <1>1, Fetches
<1>3. PICK x \in Byte, f \in SUBSET Flags : x = r.x /\ f = r.f
  BY DEF Result
<1> DEFINE s == [Fetched EXCEPT !.F = f]
<1>4. Becomes(s, pc, cpu.SP, cpu.A, f, cpu.BC, cpu.DE, cpu.HL)
  BY <1>2, Altered
<1>5. Execute(ops, IF copy = "none" THEN PutRegister(s, dst, x) ELSE SetRegister(s, copy, x),
              PutMemory(Fetched, dst, x))
  BY <1>3, Zenon DEF Update
<1> HIDE DEF s
<1>6. PutMemory(Fetched, dst, x) = [mem EXCEPT ![c] = x] /\ PutRegister(s, dst, x) = s
  BY DEF PutMemory, PutRegister
<1>7. PICK m : m = [mem EXCEPT ![c] = x] /\ ByteWritten(m, c, x)
  BY WritesByte
<1>8. CASE copy = "none"
  <2>1. Moves(s, m)
    BY <1>5, <1>6, <1>7, <1>8, Executes
  <2> QED BY <1>1, <1>3, <1>4, <1>7, <1>8, <2>1
<1>9. CASE copy = "B"
  <2>1. Becomes(SetRegister(s, "B", x), pc, cpu.SP, cpu.A, f, 256 * x + OfC(cpu), cpu.DE, cpu.HL)
    BY <1>4, RegistersOf DEF OfC
  <2>2. Moves(SetRegister(s, "B", x), m)
    BY <1>5, <1>6, <1>7, <1>9, Executes
  <2> QED BY <1>1, <1>3, <1>7, <1>9, <2>1, <2>2
<1> QED BY <1>8, <1>9

\* A result goes back to a register.
LEMMA UpdatesRegister ==
  ASSUME Calm, NEW ops, NEW r, Result(r), Update(ops, r), NEW len \in Nat, Insn.len = len,
         NEW q \in {"A", "B", "C"}, Insn.dst = R(q), Insn.copy = "none"
  PROVE  \E t : /\ Moves(t, mem)
                /\ Becomes(t, Plus(cpu.PC, len), cpu.SP, IF q = "A" THEN r.x ELSE cpu.A, r.f,
                           IF q = "B" THEN 256 * r.x + OfC(cpu)
                           ELSE IF q = "C" THEN 256 * OfB(cpu) + r.x ELSE cpu.BC,
                           cpu.DE, cpu.HL)
<1>1. PICK pc : pc = Plus(cpu.PC, len)
  OBVIOUS
<1>2. Becomes(Fetched, pc, cpu.SP, cpu.A, cpu.F, cpu.BC, cpu.DE, cpu.HL)
  BY <1>1, Fetches
<1>3. PICK x \in Byte, f \in SUBSET Flags : x = r.x /\ f = r.f
  BY DEF Result
<1> DEFINE s == [Fetched EXCEPT !.F = f]
<1>4. Becomes(s, pc, cpu.SP, cpu.A, f, cpu.BC, cpu.DE, cpu.HL)
  BY <1>2, Altered
<1>5. Execute(ops, PutRegister(s, R(q), x), PutMemory(Fetched, R(q), x))
  BY <1>3, Zenon DEF Update
<1> HIDE DEF s
<1>6. PutMemory(Fetched, R(q), x) = mem /\ PutRegister(s, R(q), x) = SetRegister(s, q, x)
  BY DEF PutMemory, PutRegister, R
<1>7. Moves(SetRegister(s, q, x), mem)
  BY <1>5, <1>6, Executes
<1>8. /\ Becomes(SetRegister(s, "A", x), pc, cpu.SP, x, f, cpu.BC, cpu.DE, cpu.HL)
      /\ Becomes(SetRegister(s, "B", x), pc, cpu.SP, cpu.A, f, 256 * x + OfC(cpu), cpu.DE, cpu.HL)
      /\ Becomes(SetRegister(s, "C", x), pc, cpu.SP, cpu.A, f, 256 * OfB(cpu) + x, cpu.DE, cpu.HL)
  BY <1>4, RegistersOf DEF OfB, OfC
<1> QED BY <1>1, <1>3, <1>7, <1>8

\* A pair is loaded from memory.
LEMMA LoadsWord ==
  ASSUME Calm, Step, NEW rr \in {"DE", "HL"}, NEW c, NEW w \in Words, WideAt(c) = w,
         NEW len \in Nat, Insn = LdWide(RR(rr), At(c), len)
  PROVE  \E t : /\ Moves(t, mem)
                /\ Becomes(t, Plus(cpu.PC, len), cpu.SP, cpu.A, cpu.F, cpu.BC,
                           IF rr = "DE" THEN w ELSE cpu.DE, IF rr = "HL" THEN w ELSE cpu.HL)
<1>1. PICK pc : pc = Plus(cpu.PC, len)
  OBVIOUS
<1>2. Becomes(Fetched, pc, cpu.SP, cpu.A, cpu.F, cpu.BC, cpu.DE, cpu.HL)
  BY <1>1, Fetches DEF LdWide
<1>3. Insn.op = "ld16" /\ Insn.dst = RR(rr) /\ Insn.src = At(c)
  BY DEF LdWide
<1>4. WideOperand(Fetched, At(c)) = w /\ RR(rr).at = "register" /\ RR(rr).rr = rr
  BY DEF WideOperand, At, RR
<1>5. SetWideRegister(Fetched, rr, w) = [Fetched EXCEPT ![rr] = w]
  BY DEF SetWideRegister
<1>6. LoadWide
  BY <1>3, Chosen
<1>7. Moves([Fetched EXCEPT ![rr] = w], mem)
  BY <1>3, <1>4, <1>5, <1>6, Executes DEF LoadWide
<1>8. Becomes([Fetched EXCEPT ![rr] = w], pc, cpu.SP, cpu.A, cpu.F, cpu.BC,
              IF rr = "DE" THEN w ELSE cpu.DE, IF rr = "HL" THEN w ELSE cpu.HL)
  BY <1>2, Altered
<1> QED BY <1>1, <1>7, <1>8

\* IX is loaded.
LEMMA LoadsIX ==
  ASSUME Calm, Step, Sane(cpu), NEW w \in Words, Insn = LdWide(RR("IX"), NN(w), 4)
  PROVE  \E t : /\ Moves(t, mem) /\ Sane(t) /\ t.PC = Plus(cpu.PC, 4) /\ t.SP = cpu.SP
                /\ t.IX = w /\ t.iff1 = cpu.iff1 /\ t.halted = cpu.halted
<1>1. Becomes(Fetched, Plus(cpu.PC, 4), cpu.SP, cpu.A, cpu.F, cpu.BC, cpu.DE, cpu.HL)
  BY Fetches DEF LdWide
<1>2. Insn.op = "ld16" /\ Insn.dst = RR("IX") /\ Insn.src = NN(w)
  BY DEF LdWide
<1>3. WideOperand(Fetched, NN(w)) = w /\ RR("IX").at = "register" /\ RR("IX").rr = "IX"
  BY DEF WideOperand, NN, RR
<1>4. PICK t : t = [Fetched EXCEPT !.IX = w]
  OBVIOUS
<1>5. SetWideRegister(Fetched, "IX", w) = t
  BY <1>4 DEF SetWideRegister
<1>6. LoadWide
  BY <1>2, Chosen
<1>7. Moves(t, mem)
  BY <1>2, <1>3, <1>5, <1>6, Executes DEF LoadWide
<1>8. t \in CpuState /\ t.PC = Plus(cpu.PC, 4) /\ t.SP = cpu.SP /\ t.IX = w
  <2>1. Fetched \in CpuState /\ Fetched.PC = Plus(cpu.PC, 4) /\ Fetched.SP = cpu.SP
    BY <1>1 DEF Becomes
  <2> QED BY <1>4, <2>1 DEF CpuState
<1>9. /\ t.iff1 = cpu.iff1 /\ t.iff2 = cpu.iff2 /\ t.halted = cpu.halted
      /\ ~t.enable_interrupts_next_cycle /\ t.interrupt_mode = cpu.interrupt_mode
  BY <1>1, <1>4 DEF Becomes, CpuState
<1> QED BY <1>7, <1>8, <1>9 DEF Sane

\* The sum or difference of two pairs.
LEMMA ComputesPair ==
  ASSUME Calm, Step, NEW how \in {"add", "sbc"}, NEW src \in {"DE", "HL"},
         Insn = Wide(how, "HL", src), NEW len \in Nat, Insn.len = len
  PROVE  \E t, r : /\ r = ArithmeticWide(how, cpu.HL, cpu[src], cpu.F)
                   /\ Moves(t, mem)
                   /\ Becomes(t, Plus(cpu.PC, len), cpu.SP, cpu.A, r.f, cpu.BC, cpu.DE, r.x)
<1>1. PICK pc : pc = Plus(cpu.PC, len)
  OBVIOUS
<1>2. Becomes(Fetched, pc, cpu.SP, cpu.A, cpu.F, cpu.BC, cpu.DE, cpu.HL)
  BY <1>1, Fetches
<1>3. /\ Fetched.HL = cpu.HL /\ Fetched[src] = cpu[src] /\ Fetched.F = cpu.F
      /\ cpu.HL \in Words /\ cpu[src] \in Words /\ cpu.F \in SUBSET Flags
  BY <1>2, StateParts DEF Becomes, Calm
<1>4. Insn.op = "wide" /\ Insn.how = how /\ Insn.rr = "HL" /\ Insn.src = src
  BY DEF Wide
<1>5. PICK r : r = ArithmeticWide(how, cpu.HL, cpu[src], cpu.F)
  OBVIOUS
<1>6. r.x \in Words /\ r.f \in SUBSET Flags
  BY <1>3, <1>5, WideTyped
<1>7. ArithmeticPair
  BY <1>4, Chosen
<1>8. Moves([Fetched EXCEPT !.HL = r.x, !.F = r.f], mem)
  BY <1>3, <1>4, <1>5, <1>7, Executes DEF ArithmeticPair
<1>9. Becomes([Fetched EXCEPT !.HL = r.x], pc, cpu.SP, cpu.A, cpu.F, cpu.BC, cpu.DE, r.x)
  BY <1>2, <1>6, Altered
<1>10. Becomes([[Fetched EXCEPT !.HL = r.x] EXCEPT !.F = r.f], pc, cpu.SP, cpu.A, r.f, cpu.BC,
               cpu.DE, r.x)
  BY <1>6, <1>9, Altered
<1> QED BY <1>1, <1>5, <1>8, <1>10

\* One round of a block copy and of a block search, which may have to be repeated.
CopiedOn(t, f, d) ==
  Becomes(t, IF Plus(cpu.BC, -1) # 0 THEN Plus(Plus(cpu.PC, 2), -2) ELSE Plus(cpu.PC, 2), cpu.SP,
          cpu.A, f, Plus(cpu.BC, -1), Plus(cpu.DE, d), Plus(cpu.HL, d))
SearchedOn(t, f) ==
  Becomes(t, IF Plus(cpu.BC, -1) # 0 /\ "Z" \notin f THEN Plus(Plus(cpu.PC, 2), -2)
             ELSE Plus(cpu.PC, 2), cpu.SP,
          cpu.A, f, Plus(cpu.BC, -1), cpu.DE, Plus(cpu.HL, 1))

\* A byte is copied from where HL points to where DE points, both go on, and the
\* instruction is repeated until BC is zero.
LEMMA CopiesByte ==
  ASSUME Calm, Step, mem \in Store, cpu.HL \in Cells, cpu.DE \in Cells,
         Insn.op = "ldi", Insn.len = 2, Insn.repeat = TRUE, NEW d \in {-1, 1}, Sign = d
  PROVE  \E t, m, f : /\ Moves(t, m) /\ ByteWritten(m, cpu.DE, mem[cpu.HL])
                      /\ CopiedOn(t, f, d)
<1>1. PICK n, e, h, pc, back :
        /\ n = Plus(cpu.BC, -1) /\ e = Plus(cpu.DE, d) /\ h = Plus(cpu.HL, d)
        /\ pc = Plus(cpu.PC, 2) /\ back = Plus(pc, -2)
  OBVIOUS
<1>2. Becomes(Fetched, pc, cpu.SP, cpu.A, cpu.F, cpu.BC, cpu.DE, cpu.HL)
  BY <1>1, Fetches
<1>3. /\ cpu.HL \in Words /\ cpu.DE \in Words /\ cpu.BC \in Words
      /\ cpu.F \in SUBSET Flags
  BY StateParts DEF Calm
<1>4. n \in Words /\ e \in Words /\ h \in Words
  <2>1. d \in Int /\ -1 \in Int
    OBVIOUS
  <2> QED BY <1>1, <1>3, <2>1, PlusIsWord
<1>5. PICK s : s = [Fetched EXCEPT !.HL = Plus(@, Sign), !.DE = Plus(@, Sign), !.BC = Plus(@, -1)]
  OBVIOUS
<1>6. Becomes(s, pc, cpu.SP, cpu.A, cpu.F, n, e, h)
  <2>1. Fetched.HL = cpu.HL /\ Fetched.DE = cpu.DE /\ Fetched.BC = cpu.BC /\ Fetched \in CpuState
    BY <1>2 DEF Becomes
  <2>2. s = [Fetched EXCEPT !.HL = h, !.DE = e, !.BC = n]
    BY <1>1, <1>5, <2>1 DEF CpuState
  <2>3. PICK s1 : s1 = [Fetched EXCEPT !.HL = h]
    OBVIOUS
  <2>4. Becomes(s1, pc, cpu.SP, cpu.A, cpu.F, cpu.BC, cpu.DE, h)
    BY <1>2, <1>4, <2>3, Altered
  <2>5. PICK s2 : s2 = [s1 EXCEPT !.DE = e]
    OBVIOUS
  <2>6. Becomes(s2, pc, cpu.SP, cpu.A, cpu.F, cpu.BC, e, h)
    BY <1>4, <2>4, <2>5, Altered
  <2>7. s = [s2 EXCEPT !.BC = n]
    BY <2>1, <2>2, <2>3, <2>5 DEF CpuState
  <2> QED BY <1>4, <2>6, <2>7, Altered
<1>7. PICK f \in SUBSET Flags : f = CopyFlags(n, cpu.F)
  BY <1>3, OtherFlags
<1>8. PICK t : t = [s EXCEPT !.F = CopyFlags(s.BC, @)]
  OBVIOUS
<1>9. Becomes(t, pc, cpu.SP, cpu.A, f, n, e, h)
  <2>1. s \in CpuState /\ s.F = cpu.F /\ s.BC = n
    BY <1>6 DEF Becomes
  <2>2. t = [s EXCEPT !.F = f]
    BY <1>7, <1>8, <2>1 DEF CpuState
  <2> QED BY <1>6, <2>2, Altered
<1>10. (n # 0) \in BOOLEAN
  OBVIOUS
<1>11. Becomes(Again(t, n # 0), IF n # 0 THEN back ELSE pc, cpu.SP, cpu.A, f, n, e, h)
  BY <1>1, <1>9, <1>10, Repeats
<1>12. PICK m : m = [mem EXCEPT ![cpu.DE] = mem[cpu.HL]]
  OBVIOUS
<1>13. ByteWritten(m, cpu.DE, mem[cpu.HL])
  <2>1. mem[cpu.HL] \in Byte
    BY DEF Store
  <2> QED BY <1>12, <2>1, WritesByte
<1>14. Execute({"ldi"}, Again(t, n # 0), m)
  <2>1. BlockCopy
    BY Chosen
  <2>2. s.BC = n /\ Fetched.HL = cpu.HL /\ Fetched.DE = cpu.DE
    BY <1>2, <1>6 DEF Becomes
  <2> QED BY <1>5, <1>8, <1>12, <2>1, <2>2 DEF BlockCopy
<1>15. Moves(Again(t, n # 0), m)
  BY <1>14, Executes
<1>16. CopiedOn(Again(t, n # 0), f, d)
  BY <1>1, <1>11 DEF CopiedOn
<1> QED BY <1>13, <1>15, <1>16

\* The byte where HL points is compared with A, HL goes up, and the instruction is
\* repeated until they are the same or BC is zero.
LEMMA SearchesByte ==
  ASSUME Calm, Step, mem \in Store, cpu.HL \in Cells,
         Insn.op = "cpi", Insn.len = 2, Insn.repeat = TRUE, Sign = 1
  PROVE  \E t, f : /\ Moves(t, mem) /\ ("Z" \in f <=> cpu.A = mem[cpu.HL])
                   /\ SearchedOn(t, f)
<1>1. PICK n, h, pc, back :
        /\ n = Plus(cpu.BC, -1) /\ h = Plus(cpu.HL, 1)
        /\ pc = Plus(cpu.PC, 2) /\ back = Plus(pc, -2)
  OBVIOUS
<1>2. Becomes(Fetched, pc, cpu.SP, cpu.A, cpu.F, cpu.BC, cpu.DE, cpu.HL)
  BY <1>1, Fetches
<1>3. /\ cpu.HL \in Words /\ cpu.BC \in Words /\ cpu.A \in Byte
      /\ cpu.F \in SUBSET Flags
  BY StateParts DEF Calm
<1>4. n \in Words /\ h \in Words
  <2>1. 1 \in Int /\ -1 \in Int
    OBVIOUS
  <2> QED BY <1>1, <1>3, <2>1, PlusIsWord
<1>5. PICK s : s = [Fetched EXCEPT !.HL = Plus(@, Sign), !.BC = Plus(@, -1)]
  OBVIOUS
<1>6. Becomes(s, pc, cpu.SP, cpu.A, cpu.F, n, cpu.DE, h)
  <2>1. Fetched.HL = cpu.HL /\ Fetched.BC = cpu.BC /\ Fetched \in CpuState
    BY <1>2 DEF Becomes
  <2>2. s = [Fetched EXCEPT !.HL = h, !.BC = n]
    BY <1>1, <1>5, <2>1 DEF CpuState
  <2>3. PICK s1 : s1 = [Fetched EXCEPT !.HL = h]
    OBVIOUS
  <2>4. Becomes(s1, pc, cpu.SP, cpu.A, cpu.F, cpu.BC, cpu.DE, h)
    BY <1>2, <1>4, <2>3, Altered
  <2>5. s = [s1 EXCEPT !.BC = n]
    BY <2>1, <2>2, <2>3 DEF CpuState
  <2> QED BY <1>4, <2>4, <2>5, Altered
<1>7. PICK f \in SUBSET Flags : f = SearchFlags(cpu.A, mem[cpu.HL], n, cpu.F)
  BY <1>3, OtherFlags
<1>8. "Z" \in f <=> cpu.A = mem[cpu.HL]
  <2>1. mem[cpu.HL] \in Byte
    BY DEF Store
  <2>2. PICK x : x = (cpu.A - mem[cpu.HL]) % 256
    OBVIOUS
  <2>3. "Z" \in f <=> x = 0
    BY <1>7, <2>2 DEF SearchFlags, SignZero, When
  <2>4. x = 0 <=> cpu.A = mem[cpu.HL]
    BY <1>3, <2>1, <2>2, ByteIs
  <2> QED BY <2>3, <2>4
<1>9. PICK t : t = [s EXCEPT !.F = SearchFlags(s.A, mem[Fetched.HL], s.BC, @)]
  OBVIOUS
<1>10. Becomes(t, pc, cpu.SP, cpu.A, f, n, cpu.DE, h) /\ t.F = f
  <2>1. s \in CpuState /\ s.F = cpu.F /\ s.BC = n /\ s.A = cpu.A /\ Fetched.HL = cpu.HL
    BY <1>2, <1>6 DEF Becomes
  <2>2. t = [s EXCEPT !.F = f]
    BY <1>7, <1>9, <2>1 DEF CpuState
  <2>3. Becomes(t, pc, cpu.SP, cpu.A, f, n, cpu.DE, h)
    BY <1>6, <2>2, Altered
  <2> QED BY <2>3 DEF Becomes
<1> DEFINE more == n # 0 /\ "Z" \notin f
<1>11. more \in BOOLEAN
  OBVIOUS
<1>12. Becomes(Again(t, more), IF more THEN back ELSE pc, cpu.SP, cpu.A, f, n, cpu.DE, h)
  <2> HIDE DEF more
  <2> QED BY <1>1, <1>10, <1>11, Repeats
<1>13. Execute({"cpi"}, Again(t, more), mem)
  <2>1. BlockSearch
    BY Chosen
  <2>2. s.BC = n /\ (Insn.repeat /\ s.BC # 0 /\ "Z" \notin t.F) = more
    BY <1>6, <1>10 DEF Becomes
  <2> HIDE DEF more
  <2> QED BY <1>5, <1>9, <2>1, <2>2 DEF BlockSearch
<1>14. Moves(Again(t, more), mem)
  <2> HIDE DEF more
  <2> QED BY <1>13, Executes
<1>15. SearchedOn(Again(t, more), f)
  BY <1>1, <1>12 DEF SearchedOn
<1> QED BY <1>8, <1>14, <1>15

\* What is left of a byte above bit b - 1, and that bit.
Halving(y, b) ==
  LET h == y \div 2 ^ b
      j == y \div 2 ^ (b - 1)
      c == Bit(y, b - 1)
  IN  h \in 0 .. 127 /\ j \in 0 .. 255 /\ c \in {0, 1} /\ j = 2 * h + c

\* Every byte does, at every bit.
LEMMA HalvedOnce ==
  ASSUME NEW y \in Byte, NEW b \in 1 .. 8
  PROVE  Halving(y, b)
<1> DEFINE Halved(p, q) == LET h == y \div q
                               j == y \div p
                               c == j % 2
                           IN  /\ h \in 0 .. 127 /\ j \in 0 .. 255 /\ c \in {0, 1}
                               /\ j = 2 * h + c
<1>1. y \in Int /\ 0 <= y /\ y <= 255
  BY ByteIs
<1>2. Halved(1, 2) /\ Halved(2, 4) /\ Halved(4, 8) /\ Halved(8, 16)
  BY <1>1
<1>3. Halved(16, 32) /\ Halved(32, 64) /\ Halved(64, 128) /\ Halved(128, 256)
  BY <1>1
<1>4. Halved(2 ^ (b - 1), 2 ^ b)
  <2> HIDE DEF Halved
  <2>1. b - 1 = 0 \/ b - 1 = 1 \/ b - 1 = 2 \/ b - 1 = 3
        \/ b - 1 = 4 \/ b - 1 = 5 \/ b - 1 = 6 \/ b - 1 = 7
    OBVIOUS
  <2> DEFINE Power(n) == 2 ^ n
  <2>2. Power(0) = 1 /\ Power(1) = 2 /\ Power(2) = 4 /\ Power(3) = 8 /\ Power(4) = 16
    OBVIOUS
  <2>3. Power(5) = 32 /\ Power(6) = 64 /\ Power(7) = 128 /\ Power(8) = 256
    OBVIOUS
  <2> HIDE DEF Power
  <2>4. Halved(Power(b - 1), Power(b))
    BY <1>2, <1>3, <2>1, <2>2, <2>3
  <2> QED BY <2>4 DEF Power
<1> QED BY <1>4 DEF Bit, Halving

\* A byte of parts h, c and l, rotated so that h is at its end, is rotated once more;
\* s is l where it is then.
TurnedBy(y, p, q) ==
  LET r == ((y * q) % 256) + y \div (2 * p)
  IN  /\ r \in 0 .. 255 /\ (r \div 128) % 2 = (y \div p) % 2
      /\ ((2 * r) % 256) + ((r \div 128) % 2) = ((y * (2 * q)) % 256) + y \div p
InParts(y, p, q, h, c, s) ==
  /\ y \in 0 .. 255 /\ p \in 1 .. 128 /\ q \in 1 .. 128
  /\ h \in 0 .. 127 /\ c \in {0, 1} /\ s \in 0 .. 127 /\ s + h <= 127
  /\ y \div (2 * p) = h /\ y \div p = 2 * h + c
  /\ (y * q) % 256 = 128 * c + s /\ (y * (2 * q)) % 256 = 2 * s

\* The sum of the parts of a byte, turned.
LEMMA TurnedParts ==
  ASSUME NEW y, NEW p, NEW q, NEW h, NEW c, NEW s, InParts(y, p, q, h, c, s)
  PROVE  TurnedBy(y, p, q)
<1>1. PICK n, m, v, w : /\ n = (y * q) % 256 /\ m = (y * (2 * q)) % 256
                        /\ v = y \div p /\ w = y \div (2 * p)
  OBVIOUS
<1>2. /\ h \in 0 .. 127 /\ c \in {0, 1} /\ s \in 0 .. 127 /\ s + h <= 127
      /\ n = 128 * c + s /\ m = 2 * s /\ v = 2 * h + c /\ w = h
  BY <1>1 DEF InParts
<1>3. PICK r \in 0 .. 255 : r = (128 * c + s) + h
  BY <1>2
<1>4. (r \div 128) % 2 = c /\ (2 * r) % 256 = 2 * s + 2 * h
  BY <1>2, <1>3
<1>5. v % 2 = c /\ (2 * s + 2 * h) + c = m + v /\ n + w = r
  BY <1>2, <1>3
<1>6. ((2 * r) % 256) + ((r \div 128) % 2) = m + v
  <2>1. PICK d \in Int, e \in Int : d = (2 * r) % 256 /\ e = (r \div 128) % 2
    OBVIOUS
  <2>2. d = 2 * s + 2 * h /\ e = c
    BY <1>4, <2>1
  <2>3. d + e = m + v
    BY <1>2, <1>5, <2>2
  <2> QED BY <2>1, <2>3
<1>7. ((y * q) % 256) + y \div (2 * p) = r
  BY <1>1, <1>5
<1>8. (r \div 128) % 2 = (y \div p) % 2
  BY <1>1, <1>4, <1>5
<1>9. ((2 * r) % 256) + ((r \div 128) % 2) = ((y * (2 * q)) % 256) + y \div p
  BY <1>1, <1>6
<1> QED BY <1>7, <1>8, <1>9 DEF TurnedBy

\* A byte turned by each number of bits.
LEMMA TurnedEach ==
  ASSUME NEW y \in 0 .. 255
  PROVE  /\ TurnedBy(y, 1, 128) /\ TurnedBy(y, 2, 64) /\ TurnedBy(y, 4, 32)
         /\ TurnedBy(y, 8, 16) /\ TurnedBy(y, 16, 8) /\ TurnedBy(y, 32, 4)
         /\ TurnedBy(y, 64, 2) /\ TurnedBy(y, 128, 1)
<1>1. TurnedBy(y, 1, 128)
  <2>1. PICK j \in 0 .. 255, l \in 0 .. 0 : y = j + l
    OBVIOUS
  <2>2. PICK h \in 0 .. 127, c \in {0, 1} : j = 2 * h + c
    OBVIOUS
  <2>3. y \div (2 * 1) = h /\ y \div 1 = 2 * h + c
    BY <2>1, <2>2
  <2>4. PICK s \in 0 .. 127 : s = 128 * l
    OBVIOUS
  <2>5. (y * 128) % 256 = 128 * c + s
    <3>1. y * 128 = 256 * h + (128 * c + s) /\ 128 * c + s \in 0 .. 255
      BY <2>1, <2>2, <2>4
    <3> QED BY <3>1
  <2>6. (y * (2 * 128)) % 256 = 2 * s
    <3>1. y * (2 * 128) = 256 * (2 * h + c) + 2 * s /\ 2 * s \in 0 .. 255
      BY <2>1, <2>2, <2>4
    <3> QED BY <3>1
  <2>7. h \in 0 .. 127 /\ s + h <= 127
    BY <2>2, <2>4
  <2>8. InParts(y, 1, 128, h, c, s)
    BY <2>2, <2>3, <2>4, <2>5, <2>6, <2>7 DEF InParts
  <2> QED BY <2>8, TurnedParts
<1>2. TurnedBy(y, 2, 64)
  <2>1. PICK j \in 0 .. 127, l \in 0 .. 1 : y = 2 * j + l
    OBVIOUS
  <2>2. PICK h \in 0 .. 63, c \in {0, 1} : j = 2 * h + c
    OBVIOUS
  <2>3. y \div (2 * 2) = h /\ y \div 2 = 2 * h + c
    BY <2>1, <2>2
  <2>4. PICK s \in 0 .. 127 : s = 64 * l
    OBVIOUS
  <2>5. (y * 64) % 256 = 128 * c + s
    <3>1. y * 64 = 256 * h + (128 * c + s) /\ 128 * c + s \in 0 .. 255
      BY <2>1, <2>2, <2>4
    <3> QED BY <3>1
  <2>6. (y * (2 * 64)) % 256 = 2 * s
    <3>1. y * (2 * 64) = 256 * (2 * h + c) + 2 * s /\ 2 * s \in 0 .. 255
      BY <2>1, <2>2, <2>4
    <3> QED BY <3>1
  <2>7. h \in 0 .. 127 /\ s + h <= 127
    BY <2>2, <2>4
  <2>8. InParts(y, 2, 64, h, c, s)
    BY <2>2, <2>3, <2>4, <2>5, <2>6, <2>7 DEF InParts
  <2> QED BY <2>8, TurnedParts
<1>3. TurnedBy(y, 4, 32)
  <2>1. PICK j \in 0 .. 63, l \in 0 .. 3 : y = 4 * j + l
    OBVIOUS
  <2>2. PICK h \in 0 .. 31, c \in {0, 1} : j = 2 * h + c
    OBVIOUS
  <2>3. y \div (2 * 4) = h /\ y \div 4 = 2 * h + c
    BY <2>1, <2>2
  <2>4. PICK s \in 0 .. 127 : s = 32 * l
    OBVIOUS
  <2>5. (y * 32) % 256 = 128 * c + s
    <3>1. y * 32 = 256 * h + (128 * c + s) /\ 128 * c + s \in 0 .. 255
      BY <2>1, <2>2, <2>4
    <3> QED BY <3>1
  <2>6. (y * (2 * 32)) % 256 = 2 * s
    <3>1. y * (2 * 32) = 256 * (2 * h + c) + 2 * s /\ 2 * s \in 0 .. 255
      BY <2>1, <2>2, <2>4
    <3> QED BY <3>1
  <2>7. h \in 0 .. 127 /\ s + h <= 127
    BY <2>2, <2>4
  <2>8. InParts(y, 4, 32, h, c, s)
    BY <2>2, <2>3, <2>4, <2>5, <2>6, <2>7 DEF InParts
  <2> QED BY <2>8, TurnedParts
<1>4. TurnedBy(y, 8, 16)
  <2>1. PICK j \in 0 .. 31, l \in 0 .. 7 : y = 8 * j + l
    OBVIOUS
  <2>2. PICK h \in 0 .. 15, c \in {0, 1} : j = 2 * h + c
    OBVIOUS
  <2>3. y \div (2 * 8) = h /\ y \div 8 = 2 * h + c
    BY <2>1, <2>2
  <2>4. PICK s \in 0 .. 127 : s = 16 * l
    OBVIOUS
  <2>5. (y * 16) % 256 = 128 * c + s
    <3>1. y * 16 = 256 * h + (128 * c + s) /\ 128 * c + s \in 0 .. 255
      BY <2>1, <2>2, <2>4
    <3> QED BY <3>1
  <2>6. (y * (2 * 16)) % 256 = 2 * s
    <3>1. y * (2 * 16) = 256 * (2 * h + c) + 2 * s /\ 2 * s \in 0 .. 255
      BY <2>1, <2>2, <2>4
    <3> QED BY <3>1
  <2>7. h \in 0 .. 127 /\ s + h <= 127
    BY <2>2, <2>4
  <2>8. InParts(y, 8, 16, h, c, s)
    BY <2>2, <2>3, <2>4, <2>5, <2>6, <2>7 DEF InParts
  <2> QED BY <2>8, TurnedParts
<1>5. TurnedBy(y, 16, 8)
  <2>1. PICK j \in 0 .. 15, l \in 0 .. 15 : y = 16 * j + l
    OBVIOUS
  <2>2. PICK h \in 0 .. 7, c \in {0, 1} : j = 2 * h + c
    OBVIOUS
  <2>3. y \div (2 * 16) = h /\ y \div 16 = 2 * h + c
    BY <2>1, <2>2
  <2>4. PICK s \in 0 .. 127 : s = 8 * l
    OBVIOUS
  <2>5. (y * 8) % 256 = 128 * c + s
    <3>1. y * 8 = 256 * h + (128 * c + s) /\ 128 * c + s \in 0 .. 255
      BY <2>1, <2>2, <2>4
    <3> QED BY <3>1
  <2>6. (y * (2 * 8)) % 256 = 2 * s
    <3>1. y * (2 * 8) = 256 * (2 * h + c) + 2 * s /\ 2 * s \in 0 .. 255
      BY <2>1, <2>2, <2>4
    <3> QED BY <3>1
  <2>7. h \in 0 .. 127 /\ s + h <= 127
    BY <2>2, <2>4
  <2>8. InParts(y, 16, 8, h, c, s)
    BY <2>2, <2>3, <2>4, <2>5, <2>6, <2>7 DEF InParts
  <2> QED BY <2>8, TurnedParts
<1>6. TurnedBy(y, 32, 4)
  <2>1. PICK j \in 0 .. 7, l \in 0 .. 31 : y = 32 * j + l
    OBVIOUS
  <2>2. PICK h \in 0 .. 3, c \in {0, 1} : j = 2 * h + c
    OBVIOUS
  <2>3. y \div (2 * 32) = h /\ y \div 32 = 2 * h + c
    BY <2>1, <2>2
  <2>4. PICK s \in 0 .. 127 : s = 4 * l
    OBVIOUS
  <2>5. (y * 4) % 256 = 128 * c + s
    <3>1. y * 4 = 256 * h + (128 * c + s) /\ 128 * c + s \in 0 .. 255
      BY <2>1, <2>2, <2>4
    <3> QED BY <3>1
  <2>6. (y * (2 * 4)) % 256 = 2 * s
    <3>1. y * (2 * 4) = 256 * (2 * h + c) + 2 * s /\ 2 * s \in 0 .. 255
      BY <2>1, <2>2, <2>4
    <3> QED BY <3>1
  <2>7. h \in 0 .. 127 /\ s + h <= 127
    BY <2>2, <2>4
  <2>8. InParts(y, 32, 4, h, c, s)
    BY <2>2, <2>3, <2>4, <2>5, <2>6, <2>7 DEF InParts
  <2> QED BY <2>8, TurnedParts
<1>7. TurnedBy(y, 64, 2)
  <2>1. PICK j \in 0 .. 3, l \in 0 .. 63 : y = 64 * j + l
    OBVIOUS
  <2>2. PICK h \in 0 .. 1, c \in {0, 1} : j = 2 * h + c
    OBVIOUS
  <2>3. y \div (2 * 64) = h /\ y \div 64 = 2 * h + c
    BY <2>1, <2>2
  <2>4. PICK s \in 0 .. 127 : s = 2 * l
    OBVIOUS
  <2>5. (y * 2) % 256 = 128 * c + s
    <3>1. y * 2 = 256 * h + (128 * c + s) /\ 128 * c + s \in 0 .. 255
      BY <2>1, <2>2, <2>4
    <3> QED BY <3>1
  <2>6. (y * (2 * 2)) % 256 = 2 * s
    <3>1. y * (2 * 2) = 256 * (2 * h + c) + 2 * s /\ 2 * s \in 0 .. 255
      BY <2>1, <2>2, <2>4
    <3> QED BY <3>1
  <2>7. h \in 0 .. 127 /\ s + h <= 127
    BY <2>2, <2>4
  <2>8. InParts(y, 64, 2, h, c, s)
    BY <2>2, <2>3, <2>4, <2>5, <2>6, <2>7 DEF InParts
  <2> QED BY <2>8, TurnedParts
<1>8. TurnedBy(y, 128, 1)
  <2>1. PICK j \in 0 .. 1, l \in 0 .. 127 : y = 128 * j + l
    OBVIOUS
  <2>2. PICK h \in 0 .. 0, c \in {0, 1} : j = 2 * h + c
    OBVIOUS
  <2>3. y \div (2 * 128) = h /\ y \div 128 = 2 * h + c
    BY <2>1, <2>2
  <2>4. PICK s \in 0 .. 127 : s = l
    OBVIOUS
  <2>5. (y * 1) % 256 = 128 * c + s
    <3>1. y * 1 = 256 * h + (128 * c + s) /\ 128 * c + s \in 0 .. 255
      BY <2>1, <2>2, <2>4
    <3> QED BY <3>1
  <2>6. (y * (2 * 1)) % 256 = 2 * s
    <3>1. y * (2 * 1) = 256 * (2 * h + c) + 2 * s /\ 2 * s \in 0 .. 255
      BY <2>1, <2>2, <2>4
    <3> QED BY <3>1
  <2>7. h \in 0 .. 127 /\ s + h <= 127
    BY <2>2, <2>4
  <2>8. InParts(y, 128, 1, h, c, s)
    BY <2>2, <2>3, <2>4, <2>5, <2>6, <2>7 DEF InParts
  <2> QED BY <2>8, TurnedParts
<1> QED BY <1>1, <1>2, <1>3, <1>4, <1>5, <1>6, <1>7, <1>8

\* A byte that has been rotated b times is rotated once more.
Rotation(y, b) == ((y * 2 ^ (8 - b)) % 256) + y \div 2 ^ b
Turns(a, y, b) == /\ a \in Byte /\ Bit(a, 7) = Bit(y, b - 1)
                  /\ ((2 * a) % 256) + Bit(a, 7) = Rotation(y, b - 1)

\* Every byte turns so.
LEMMA RotatedOnce ==
  ASSUME NEW y \in Byte, NEW b \in 1 .. 8
  PROVE  Turns(Rotation(y, b), y, b)
<1> DEFINE Power(n) == 2 ^ n
<1>1. Power(0) = 1 /\ Power(1) = 2 /\ Power(2) = 4 /\ Power(3) = 8 /\ Power(4) = 16
  OBVIOUS
<1>2. Power(5) = 32 /\ Power(6) = 64 /\ Power(7) = 128 /\ Power(8) = 256
  OBVIOUS
<1>3. y \in 0 .. 255 /\ Byte = 0 .. 255
  BY ByteIs
<1> DEFINE Turning(k) == /\ TurnedBy(y, Power(k - 1), Power(8 - k))
                       /\ Power(k) = 2 * Power(k - 1) /\ Power(8 - (k - 1)) = 2 * Power(8 - k)
<1>4. Turning(b)
  <2>1. b = 1 \/ b = 2 \/ b = 3 \/ b = 4 \/ b = 5 \/ b = 6 \/ b = 7 \/ b = 8
    OBVIOUS
  <2> HIDE DEF Power
  <2>2. Turning(1)
    <3>1. 1 - 1 = 0 /\ 8 - 1 = 7 /\ 8 - (1 - 1) = 8
      OBVIOUS
    <3>2. TurnedBy(y, 1, 128)
      BY <1>3, TurnedEach, Zenon
    <3>3. 2 = 2 * 1 /\ 256 = 2 * 128
      OBVIOUS
    <3> QED BY <1>1, <1>2, <3>1, <3>2, <3>3
  <2>3. Turning(2)
    <3>1. 2 - 1 = 1 /\ 8 - 2 = 6 /\ 8 - (2 - 1) = 7
      OBVIOUS
    <3>2. TurnedBy(y, 2, 64)
      BY <1>3, TurnedEach, Zenon
    <3>3. 4 = 2 * 2 /\ 128 = 2 * 64
      OBVIOUS
    <3> QED BY <1>1, <1>2, <3>1, <3>2, <3>3
  <2>4. Turning(3)
    <3>1. 3 - 1 = 2 /\ 8 - 3 = 5 /\ 8 - (3 - 1) = 6
      OBVIOUS
    <3>2. TurnedBy(y, 4, 32)
      BY <1>3, TurnedEach, Zenon
    <3>3. 8 = 2 * 4 /\ 64 = 2 * 32
      OBVIOUS
    <3> QED BY <1>1, <1>2, <3>1, <3>2, <3>3
  <2>5. Turning(4)
    <3>1. 4 - 1 = 3 /\ 8 - 4 = 4 /\ 8 - (4 - 1) = 5
      OBVIOUS
    <3>2. TurnedBy(y, 8, 16)
      BY <1>3, TurnedEach, Zenon
    <3>3. 16 = 2 * 8 /\ 32 = 2 * 16
      OBVIOUS
    <3> QED BY <1>1, <1>2, <3>1, <3>2, <3>3
  <2>6. Turning(5)
    <3>1. 5 - 1 = 4 /\ 8 - 5 = 3 /\ 8 - (5 - 1) = 4
      OBVIOUS
    <3>2. TurnedBy(y, 16, 8)
      BY <1>3, TurnedEach, Zenon
    <3>3. 32 = 2 * 16 /\ 16 = 2 * 8
      OBVIOUS
    <3> QED BY <1>1, <1>2, <3>1, <3>2, <3>3
  <2>7. Turning(6)
    <3>1. 6 - 1 = 5 /\ 8 - 6 = 2 /\ 8 - (6 - 1) = 3
      OBVIOUS
    <3>2. TurnedBy(y, 32, 4)
      BY <1>3, TurnedEach, Zenon
    <3>3. 64 = 2 * 32 /\ 8 = 2 * 4
      OBVIOUS
    <3> QED BY <1>1, <1>2, <3>1, <3>2, <3>3
  <2>8. Turning(7)
    <3>1. 7 - 1 = 6 /\ 8 - 7 = 1 /\ 8 - (7 - 1) = 2
      OBVIOUS
    <3>2. TurnedBy(y, 64, 2)
      BY <1>3, TurnedEach, Zenon
    <3>3. 128 = 2 * 64 /\ 4 = 2 * 2
      OBVIOUS
    <3> QED BY <1>1, <1>2, <3>1, <3>2, <3>3
  <2>9. Turning(8)
    <3>1. 8 - 1 = 7 /\ 8 - 8 = 0 /\ 8 - (8 - 1) = 1
      OBVIOUS
    <3>2. TurnedBy(y, 128, 1)
      BY <1>3, TurnedEach, Zenon
    <3>3. 256 = 2 * 128 /\ 2 = 2 * 1
      OBVIOUS
    <3> QED BY <1>1, <1>2, <3>1, <3>2, <3>3
  <2> HIDE DEF Turning
  <2> QED BY <2>1, <2>2, <2>3, <2>4, <2>5, <2>6, <2>7, <2>8, <2>9
<1>5. Rotation(y, b) = ((y * Power(8 - b)) % 256) + y \div Power(b)
  BY DEF Rotation
<1>6. Rotation(y, b - 1) = ((y * Power(8 - (b - 1))) % 256) + y \div Power(b - 1)
  BY DEF Rotation
<1>7. Bit(y, b - 1) = (y \div Power(b - 1)) % 2
  BY DEF Bit
<1>8. \A a : Bit(a, 7) = (a \div 128) % 2
  BY <1>2 DEF Bit
<1> HIDE DEF Power
<1>9. Rotation(y, b) = ((y * Power(8 - b)) % 256) + y \div (2 * Power(b - 1))
  BY <1>4, <1>5
<1>10. Rotation(y, b - 1) = ((y * (2 * Power(8 - b))) % 256) + y \div Power(b - 1)
  BY <1>4, <1>6
<1>11. PICK r : r = Rotation(y, b)
  OBVIOUS
<1>12. /\ r \in 0 .. 255 /\ (r \div 128) % 2 = (y \div Power(b - 1)) % 2
       /\ ((2 * r) % 256) + ((r \div 128) % 2) = Rotation(y, b - 1)
  BY <1>4, <1>9, <1>10, <1>11 DEF TurnedBy
<1>13. Bit(r, 7) = (r \div 128) % 2
  BY <1>8
<1>14. PICK c \in {0, 1} : c = (r \div 128) % 2
  BY <1>12
<1>15. Bit(r, 7) = c /\ Bit(y, b - 1) = c
  BY <1>7, <1>12, <1>13, <1>14
<1>16. ((2 * r) % 256) + Bit(r, 7) = Rotation(y, b - 1)
  <2>1. PICK d : d = (2 * r) % 256
    OBVIOUS
  <2>2. d + c = Rotation(y, b - 1)
    BY <1>12, <1>14, <2>1
  <2> QED BY <1>15, <2>1, <2>2
<1>17. Turns(r, y, b)
  BY <1>3, <1>12, <1>15, <1>16 DEF Turns
<1> QED BY <1>11, <1>17

\* The products are words.
LEMMA ProductFits ==
  ASSUME NEW x \in Byte, NEW h \in 0 .. 127
  PROVE  /\ (x * h + x * h) % 65536 = 2 * x * h
         /\ (2 * x * h + x) % 65536 = x * (2 * h + 1)
         /\ 2 * x * h = x * (2 * h + 0)
<1>1. x \in Int /\ 0 <= x /\ x <= 255
  BY ByteIs
<1>2. PICK p \in Int : p = x * h
  BY <1>1
<1>3. 0 <= p /\ p <= 32385
  BY <1>1, <1>2
<1>4. 2 * x * h = 2 * p /\ x * (2 * h + 1) = 2 * p + x /\ x * (2 * h + 0) = 2 * p
  BY <1>1, <1>2
<1>5. (p + p) % 65536 = 2 * p
  BY <1>3
<1>6. (2 * p + x) % 65536 = 2 * p + x
  BY <1>1, <1>3
<1> QED BY <1>2, <1>4, <1>5, <1>6

\* A reversed byte.
LEMMA ReversedBits ==
  ASSUME NEW x \in Byte
  PROVE  Reversed(x) \in Byte /\ \A j \in 0 .. 7 : Bit(Reversed(x), j) = Bit(x, 7 - j)
<1> DEFINE bits == {7 - k : k \in BitsOf(x)}
<1>1. Reversed(x) = FromBits(bits)
  BY DEF Reversed
<1>2. \A j \in 0 .. 7 : j \in bits <=> 7 - j \in BitsOf(x)
  BY DEF BitsOf
<1>3. \A j \in 0 .. 7 : 7 - j \in BitsOf(x) <=> Bit(x, 7 - j) = 1
  BY DEF BitsOf
<1> HIDE DEF bits
<1>4. \A j \in 0 .. 7 : Bit(x, 7 - j) \in {0, 1}
  BY BitFits
<1>5. \A j \in 0 .. 7 : Bit(FromBits(bits), j) = IF j \in bits THEN 1 ELSE 0
  BY BitsBack
<1> QED BY <1>1, <1>2, <1>3, <1>4, <1>5, BitsMakeByte

\* A bit comes in below the k bits that are there.
ComesIn(c, d, p, q) ==
  /\ ((2 * c) % 256) + d \in Byte
  /\ (((2 * c) % 256) + d) % q = 2 * (c % p) + d

\* Every bit does.
LEMMA BitComesIn ==
  ASSUME NEW c \in Byte, NEW d \in {0, 1}, NEW k \in 0 .. 7
  PROVE  ComesIn(c, d, 2 ^ k, 2 ^ (k + 1))
<1>1. c \in 0 .. 255 /\ Byte = 0 .. 255
  BY ByteIs
<1>2. PICK e : e = (2 * c) % 256
  OBVIOUS
<1>3. e \in 0 .. 254 /\ (e = 2 * c \/ e = 2 * c - 256) /\ e + d \in Byte
  <2>1. e = IF c < 128 THEN 2 * c ELSE 2 * c - 256
    BY <1>1, <1>2
  <2>2. e \in 0 .. 254 /\ e % 2 = 0
    BY <1>1, <2>1
  <2> QED BY <1>1, <2>1, <2>2
<1>4. ComesIn(c, d, 1, 2)
  <2>1. PICK j \in 0 .. 255, l \in 0 .. 0 : c = 1 * j + l /\ c % 1 = l
    BY <1>1
  <2>2. e = 2 * j + 2 * l \/ e = 2 * (j - 128) + 2 * l
    BY <1>3, <2>1
  <2>3. 2 * l + d \in 0 .. 1
    BY <2>1
  <2>4. (e + d) % 2 = 2 * l + d
    <3>1. CASE e = 2 * j + 2 * l
      BY <2>1, <2>3, <3>1
    <3>2. CASE e = 2 * (j - 128) + 2 * l
      BY <2>1, <2>3, <3>2
    <3> QED BY <2>2, <3>1, <3>2
  <2> QED BY <1>2, <1>3, <2>1, <2>4 DEF ComesIn
<1>5. ComesIn(c, d, 2, 4)
  <2>1. PICK j \in 0 .. 127, l \in 0 .. 1 : c = 2 * j + l /\ c % 2 = l
    BY <1>1
  <2>2. e = 4 * j + 2 * l \/ e = 4 * (j - 64) + 2 * l
    BY <1>3, <2>1
  <2>3. 2 * l + d \in 0 .. 3
    BY <2>1
  <2>4. (e + d) % 4 = 2 * l + d
    <3>1. CASE e = 4 * j + 2 * l
      BY <2>1, <2>3, <3>1
    <3>2. CASE e = 4 * (j - 64) + 2 * l
      BY <2>1, <2>3, <3>2
    <3> QED BY <2>2, <3>1, <3>2
  <2> QED BY <1>2, <1>3, <2>1, <2>4 DEF ComesIn
<1>6. ComesIn(c, d, 4, 8)
  <2>1. PICK j \in 0 .. 63, l \in 0 .. 3 : c = 4 * j + l /\ c % 4 = l
    BY <1>1
  <2>2. e = 8 * j + 2 * l \/ e = 8 * (j - 32) + 2 * l
    BY <1>3, <2>1
  <2>3. 2 * l + d \in 0 .. 7
    BY <2>1
  <2>4. (e + d) % 8 = 2 * l + d
    <3>1. CASE e = 8 * j + 2 * l
      BY <2>1, <2>3, <3>1
    <3>2. CASE e = 8 * (j - 32) + 2 * l
      BY <2>1, <2>3, <3>2
    <3> QED BY <2>2, <3>1, <3>2
  <2> QED BY <1>2, <1>3, <2>1, <2>4 DEF ComesIn
<1>7. ComesIn(c, d, 8, 16)
  <2>1. PICK j \in 0 .. 31, l \in 0 .. 7 : c = 8 * j + l /\ c % 8 = l
    BY <1>1
  <2>2. e = 16 * j + 2 * l \/ e = 16 * (j - 16) + 2 * l
    BY <1>3, <2>1
  <2>3. 2 * l + d \in 0 .. 15
    BY <2>1
  <2>4. (e + d) % 16 = 2 * l + d
    <3>1. CASE e = 16 * j + 2 * l
      BY <2>1, <2>3, <3>1
    <3>2. CASE e = 16 * (j - 16) + 2 * l
      BY <2>1, <2>3, <3>2
    <3> QED BY <2>2, <3>1, <3>2
  <2> QED BY <1>2, <1>3, <2>1, <2>4 DEF ComesIn
<1>8. ComesIn(c, d, 16, 32)
  <2>1. PICK j \in 0 .. 15, l \in 0 .. 15 : c = 16 * j + l /\ c % 16 = l
    BY <1>1
  <2>2. e = 32 * j + 2 * l \/ e = 32 * (j - 8) + 2 * l
    BY <1>3, <2>1
  <2>3. 2 * l + d \in 0 .. 31
    BY <2>1
  <2>4. (e + d) % 32 = 2 * l + d
    <3>1. CASE e = 32 * j + 2 * l
      BY <2>1, <2>3, <3>1
    <3>2. CASE e = 32 * (j - 8) + 2 * l
      BY <2>1, <2>3, <3>2
    <3> QED BY <2>2, <3>1, <3>2
  <2> QED BY <1>2, <1>3, <2>1, <2>4 DEF ComesIn
<1>9. ComesIn(c, d, 32, 64)
  <2>1. PICK j \in 0 .. 7, l \in 0 .. 31 : c = 32 * j + l /\ c % 32 = l
    BY <1>1
  <2>2. e = 64 * j + 2 * l \/ e = 64 * (j - 4) + 2 * l
    BY <1>3, <2>1
  <2>3. 2 * l + d \in 0 .. 63
    BY <2>1
  <2>4. (e + d) % 64 = 2 * l + d
    <3>1. CASE e = 64 * j + 2 * l
      BY <2>1, <2>3, <3>1
    <3>2. CASE e = 64 * (j - 4) + 2 * l
      BY <2>1, <2>3, <3>2
    <3> QED BY <2>2, <3>1, <3>2
  <2> QED BY <1>2, <1>3, <2>1, <2>4 DEF ComesIn
<1>10. ComesIn(c, d, 64, 128)
  <2>1. PICK j \in 0 .. 3, l \in 0 .. 63 : c = 64 * j + l /\ c % 64 = l
    BY <1>1
  <2>2. e = 128 * j + 2 * l \/ e = 128 * (j - 2) + 2 * l
    BY <1>3, <2>1
  <2>3. 2 * l + d \in 0 .. 127
    BY <2>1
  <2>4. (e + d) % 128 = 2 * l + d
    <3>1. CASE e = 128 * j + 2 * l
      BY <2>1, <2>3, <3>1
    <3>2. CASE e = 128 * (j - 2) + 2 * l
      BY <2>1, <2>3, <3>2
    <3> QED BY <2>2, <3>1, <3>2
  <2> QED BY <1>2, <1>3, <2>1, <2>4 DEF ComesIn
<1>11. ComesIn(c, d, 128, 256)
  <2>1. PICK j \in 0 .. 1, l \in 0 .. 127 : c = 128 * j + l /\ c % 128 = l
    BY <1>1
  <2>2. e = 256 * j + 2 * l \/ e = 256 * (j - 1) + 2 * l
    BY <1>3, <2>1
  <2>3. 2 * l + d \in 0 .. 255
    BY <2>1
  <2>4. (e + d) % 256 = 2 * l + d
    <3>1. CASE e = 256 * j + 2 * l
      BY <2>1, <2>3, <3>1
    <3>2. CASE e = 256 * (j - 1) + 2 * l
      BY <2>1, <2>3, <3>2
    <3> QED BY <2>2, <3>1, <3>2
  <2> QED BY <1>2, <1>3, <2>1, <2>4 DEF ComesIn
<1> DEFINE Power(n) == 2 ^ n
<1>12. Power(0) = 1 /\ Power(1) = 2 /\ Power(2) = 4 /\ Power(3) = 8 /\ Power(4) = 16
  OBVIOUS
<1>13. Power(5) = 32 /\ Power(6) = 64 /\ Power(7) = 128 /\ Power(8) = 256
  OBVIOUS
<1> HIDE DEF Power
<1>14. ComesIn(c, d, Power(k), Power(k + 1))
  <2>1. k = 0 \/ k = 1 \/ k = 2 \/ k = 3 \/ k = 4 \/ k = 5 \/ k = 6 \/ k = 7
    OBVIOUS
  <2>2. ASSUME k = 0 PROVE ComesIn(c, d, Power(k), Power(k + 1))
    <3>1. k + 1 = 1
      BY <2>2
    <3> QED BY <1>12, <1>13, <1>4, <2>2, <3>1
  <2>3. ASSUME k = 1 PROVE ComesIn(c, d, Power(k), Power(k + 1))
    <3>1. k + 1 = 2
      BY <2>3
    <3> QED BY <1>12, <1>13, <1>5, <2>3, <3>1
  <2>4. ASSUME k = 2 PROVE ComesIn(c, d, Power(k), Power(k + 1))
    <3>1. k + 1 = 3
      BY <2>4
    <3> QED BY <1>12, <1>13, <1>6, <2>4, <3>1
  <2>5. ASSUME k = 3 PROVE ComesIn(c, d, Power(k), Power(k + 1))
    <3>1. k + 1 = 4
      BY <2>5
    <3> QED BY <1>12, <1>13, <1>7, <2>5, <3>1
  <2>6. ASSUME k = 4 PROVE ComesIn(c, d, Power(k), Power(k + 1))
    <3>1. k + 1 = 5
      BY <2>6
    <3> QED BY <1>12, <1>13, <1>8, <2>6, <3>1
  <2>7. ASSUME k = 5 PROVE ComesIn(c, d, Power(k), Power(k + 1))
    <3>1. k + 1 = 6
      BY <2>7
    <3> QED BY <1>12, <1>13, <1>9, <2>7, <3>1
  <2>8. ASSUME k = 6 PROVE ComesIn(c, d, Power(k), Power(k + 1))
    <3>1. k + 1 = 7
      BY <2>8
    <3> QED BY <1>12, <1>13, <1>10, <2>8, <3>1
  <2>9. ASSUME k = 7 PROVE ComesIn(c, d, Power(k), Power(k + 1))
    <3>1. k + 1 = 8
      BY <2>9
    <3> QED BY <1>12, <1>13, <1>11, <2>9, <3>1
  <2> QED BY <2>1, <2>2, <2>3, <2>4, <2>5, <2>6, <2>7, <2>8, <2>9
<1> QED BY <1>14 DEF Power

\* The digits of A and of the byte at HL go round to the left.
LEMMA RotatesDigits ==
  ASSUME Calm, Step, mem \in Store, cpu.HL \in Cells, Insn = Digits("rld")
  PROVE  \E t, m, r : /\ Moves(t, m) /\ r = Rld(cpu.A, mem[cpu.HL], cpu.F)
                      /\ ByteWritten(m, cpu.HL, r.m)
                      /\ Becomes(t, Plus(cpu.PC, 2), cpu.SP, r.x, r.f, cpu.BC, cpu.DE, cpu.HL)
<1>1. Insn.op = "digits" /\ Insn.len = 2 /\ Insn.how = "rld"
  BY DEF Digits
<1>2. Becomes(Fetched, Plus(cpu.PC, 2), cpu.SP, cpu.A, cpu.F, cpu.BC, cpu.DE, cpu.HL)
  BY <1>1, Fetches
<1>3. RotateDigits
  BY <1>1, Chosen
<1>4. /\ Fetched.A = cpu.A /\ Fetched.F = cpu.F /\ Fetched.HL = cpu.HL
      /\ cpu.A \in Byte /\ cpu.F \in SUBSET Flags /\ mem[cpu.HL] \in Byte
  BY <1>2, StateParts DEF Becomes, Calm, Store
<1> DEFINE r == Rld(cpu.A, mem[cpu.HL], cpu.F)
<1>5. Result(r) /\ r.m \in Byte
  BY <1>4, DigitsTyped
<1>6. Rld(Fetched.A, mem[Fetched.HL], Fetched.F) = r
  BY <1>4
<1> HIDE DEF r
<1>7. PICK m : m = [mem EXCEPT ![cpu.HL] = r.m] /\ ByteWritten(m, cpu.HL, r.m)
  BY <1>5, WritesByte
<1>8. Moves([Fetched EXCEPT !.A = r.x, !.F = r.f], m)
  BY <1>1, <1>3, <1>4, <1>6, <1>7, Executes DEF RotateDigits
<1>9. Becomes([Fetched EXCEPT !.A = r.x, !.F = r.f], Plus(cpu.PC, 2), cpu.SP, r.x, r.f,
              cpu.BC, cpu.DE, cpu.HL)
  BY <1>2, <1>5, Altered DEF Result
<1> QED BY <1>7, <1>8, <1>9 DEF r

\* LD A,I shows the second flip-flop.
LEMMA LoadsI ==
  ASSUME Calm, Step, Insn = Plain("ld_a_i", 2)
  PROVE  \E t, f : /\ Moves(t, mem) /\ ("PV" \in f <=> cpu.iff2)
                   /\ Becomes(t, Plus(cpu.PC, 2), cpu.SP, cpu.I, f, cpu.BC, cpu.DE, cpu.HL)
<1>1. Insn.op = "ld_a_i" /\ Insn.len = 2
  BY DEF Plain
<1>2. Becomes(Fetched, Plus(cpu.PC, 2), cpu.SP, cpu.A, cpu.F, cpu.BC, cpu.DE, cpu.HL)
  BY <1>1, Fetches
<1>3. LoadAI
  BY <1>1, Chosen
<1>4. Fetched.F = cpu.F /\ Fetched.I = cpu.I /\ Fetched.iff2 = cpu.iff2 /\ cpu.I \in Byte
  BY <1>2, StateParts DEF Becomes, Calm
<1> DEFINE f == (cpu.F \cap {"C"}) \cup SignZero(cpu.I) \cup When("PV", cpu.iff2)
<1>5. f \in SUBSET Flags /\ ("PV" \in f <=> cpu.iff2)
  BY AreFlags DEF When, SignZero, Flags
<1>6. (Fetched.F \cap {"C"}) \cup SignZero(Fetched.I) \cup When("PV", Fetched.iff2) = f
  BY <1>4
<1> HIDE DEF f
<1>7. Moves([Fetched EXCEPT !.A = cpu.I, !.F = f], mem)
  <2>1. [Fetched EXCEPT !.A = Fetched.I,
           !.F = (@ \cap {"C"}) \cup SignZero(Fetched.I) \cup When("PV", Fetched.iff2)]
          = [Fetched EXCEPT !.A = cpu.I, !.F = f]
    BY <1>4, <1>6
  <2> QED BY <1>3, <2>1, Executes DEF LoadAI
<1>8. Becomes([Fetched EXCEPT !.A = cpu.I, !.F = f], Plus(cpu.PC, 2), cpu.SP, cpu.I, f,
              cpu.BC, cpu.DE, cpu.HL)
  <2>1. PICK a \in Byte : a = cpu.I
    BY <1>4
  <2>2. Becomes([Fetched EXCEPT !.A = a, !.F = f], Plus(cpu.PC, 2), cpu.SP, a, f,
                cpu.BC, cpu.DE, cpu.HL)
    BY <1>2, <1>5, Altered
  <2> QED BY <2>1, <2>2
<1> QED BY <1>5, <1>7, <1>8

\* NOP rests.
LEMMA Rests ==
  ASSUME Calm, Step, Insn = Plain("nop", 1)
  PROVE  \E t : /\ Moves(t, mem)
                /\ Becomes(t, Plus(cpu.PC, 1), cpu.SP, cpu.A, cpu.F, cpu.BC, cpu.DE, cpu.HL)
<1>1. Insn.op = "nop" /\ Insn.len = 1
  BY DEF Plain
<1>2. Becomes(Fetched, Plus(cpu.PC, 1), cpu.SP, cpu.A, cpu.F, cpu.BC, cpu.DE, cpu.HL)
  BY <1>1, Fetches
<1>3. Nop
  BY <1>1, Chosen
<1> QED BY <1>2, <1>3, Executes DEF Nop

\* DI disables the interrupts.
LEMMA Disabled ==
  ASSUME Calm, Step, Insn = Plain("di", 1)
  PROVE  \E t : /\ Moves(t, mem) /\ t \in CpuState
                /\ t.PC = Plus(cpu.PC, 1) /\ t.SP = cpu.SP /\ t.halted = cpu.halted
                /\ t.interrupt_mode = cpu.interrupt_mode /\ ~t.enable_interrupts_next_cycle
                /\ ~t.iff1 /\ t.iff2 = t.iff1
<1>1. Insn.op = "di" /\ Insn.len = 1
  BY DEF Plain
<1>2. Becomes(Fetched, Plus(cpu.PC, 1), cpu.SP, cpu.A, cpu.F, cpu.BC, cpu.DE, cpu.HL)
  BY <1>1, Fetches
<1>3. DisableInterrupts
  BY <1>1, Chosen
<1> DEFINE t == [Fetched EXCEPT !.iff1 = FALSE, !.iff2 = FALSE]
<1>4. Moves(t, mem)
  BY <1>3, Executes DEF DisableInterrupts
<1>5. /\ t \in CpuState /\ t.PC = Fetched.PC /\ t.SP = Fetched.SP /\ t.halted = Fetched.halted
      /\ t.interrupt_mode = Fetched.interrupt_mode
      /\ t.enable_interrupts_next_cycle = Fetched.enable_interrupts_next_cycle
      /\ ~t.iff1 /\ t.iff2 = t.iff1
  BY <1>2 DEF Becomes, CpuState
<1> HIDE DEF t
<1> QED BY <1>2, <1>4, <1>5 DEF Becomes

\* The enable that is pending takes effect, and B is counted down.
LEMMA CountsAwake ==
  ASSUME cpu \in CpuState, cpu.enable_interrupts_next_cycle, Step,
         Insn = OnByte("dec", R("B"), 1)
  PROVE  \E t : /\ Moves(t, mem) /\ t \in CpuState
                /\ t.PC = Plus(cpu.PC, 1) /\ t.SP = cpu.SP /\ t.halted = cpu.halted
                /\ t.interrupt_mode = cpu.interrupt_mode
                /\ t.iff1 /\ t.iff2 /\ ~t.enable_interrupts_next_cycle
<1>1. /\ Insn.op = "dec" /\ Insn.len = 1 /\ Insn.dst = R("B") /\ Insn.copy = "none"
  BY DEF OnByte
<1> DEFINE w == [cpu EXCEPT !.iff1 = TRUE, !.iff2 = TRUE, !.enable_interrupts_next_cycle = FALSE]
           pc == Plus(cpu.PC, 1)
<1>2. Fetched = [w EXCEPT !.PC = pc]
  <2>1. Woken = w /\ Insn.len = 1
    BY <1>1 DEF Woken
  <2>2. w.PC = cpu.PC
    BY DEF CpuState
  <2> QED BY <2>1, <2>2 DEF Fetched
<1>3. pc \in Words
  BY StateParts, PlusIsWord
<1> HIDE DEF pc
<1>4. /\ Fetched \in CpuState /\ Fetched.PC = pc /\ Fetched.SP = cpu.SP
      /\ Fetched.halted = cpu.halted /\ Fetched.interrupt_mode = cpu.interrupt_mode
      /\ Fetched.iff1 = TRUE /\ Fetched.iff2 = TRUE
      /\ Fetched.enable_interrupts_next_cycle = FALSE
  BY <1>2, <1>3 DEF CpuState
<1>5. Before \in Byte /\ Fetched.F \in SUBSET Flags
  <2>1. Before = Register(Fetched, "B")
    BY <1>1 DEF Before, Operand, R
  <2>2. "B" \in ByteRegisters
    BY DEF ByteRegisters
  <2> QED BY <1>4, <2>1, <2>2, ByteOfRegister, StateParts
<1>6. PICK x \in Byte, f \in SUBSET Flags :
        x = Dec(Before, Fetched.F).x /\ f = Dec(Before, Fetched.F).f
  BY <1>5, CountTyped DEF Result
<1> DEFINE s == [Fetched EXCEPT !.F = f]
<1>7. /\ s \in CpuState /\ s.PC = pc /\ s.SP = cpu.SP
      /\ s.halted = cpu.halted /\ s.interrupt_mode = cpu.interrupt_mode
      /\ s.iff1 = TRUE /\ s.iff2 = TRUE /\ s.enable_interrupts_next_cycle = FALSE
  BY <1>4, <1>6 DEF CpuState
<1>8. Execute({"dec"}, SetRegister(s, "B", x), mem)
  <2>1. Update({"dec"}, Dec(Before, Fetched.F))
    BY <1>1, Chosen DEF Decrement
  <2>2. Execute({"dec"}, PutRegister(s, R("B"), x), PutMemory(Fetched, R("B"), x))
    BY <1>1, <1>6, <2>1, Zenon DEF Update
  <2> HIDE DEF s
  <2>3. PutMemory(Fetched, R("B"), x) = mem /\ PutRegister(s, R("B"), x) = SetRegister(s, "B", x)
    BY DEF PutMemory, PutRegister, R
  <2> QED BY <2>2, <2>3
<1> HIDE DEF s
<1>9. SetRegister(s, "B", x) = [s EXCEPT !.BC = 256 * x + Low(s.BC)]
  <2>1. "BC" \in DOMAIN s
    BY <1>7 DEF CpuState
  <2> QED BY <2>1 DEF SetRegister, HighPart, LowPart
<1>10. PICK v \in Words : v = 256 * x + Low(s.BC)
  BY <1>7, StateParts, HalvesOfWord, WordOfHalves
<1> DEFINE t == [s EXCEPT !.BC = v]
<1>11. /\ t \in CpuState /\ t.PC = s.PC /\ t.SP = s.SP
       /\ t.halted = s.halted /\ t.interrupt_mode = s.interrupt_mode
       /\ t.iff1 = s.iff1 /\ t.iff2 = s.iff2
       /\ t.enable_interrupts_next_cycle = s.enable_interrupts_next_cycle
  BY <1>7 DEF CpuState
<1>12. Moves(t, mem)
  BY <1>8, <1>9, <1>10, Executes
<1> HIDE DEF t
<1> QED BY <1>7, <1>11, <1>12 DEF pc

-----------------------------------------------------------------------------
=============================================================================
