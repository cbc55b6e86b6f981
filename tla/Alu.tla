-------------------------------- MODULE Alu --------------------------------
(***************************************************************************)
(* The arithmetic of the CPU (emu/src/cpu/mod.rs) as operators: each takes *)
(* its operands and the flags before, and returns the result `x' and the   *)
(* flags `f' after.                                                        *)
(*                                                                         *)
(* A byte is a number below 256, the flags are the set of the names of the *)
(* set bits.  The undocumented flags X and Y are left out.                 *)
(***************************************************************************)
EXTENDS Integers, FiniteSets

Byte == 0 .. 2 ^ 8 - 1
Words == 0 .. 2 ^ 16 - 1
Flags == {"C", "N", "PV", "H", "Z", "S"}

Bit(x, k) == (x \div 2 ^ k) % 2
BitsOf(x) == {k \in 0 .. 7 : Bit(x, k) = 1}
Worth(k, bits) == IF k \in bits THEN 2 ^ k ELSE 0
FromBits(bits) ==
  Worth(0, bits) + Worth(1, bits) + Worth(2, bits) + Worth(3, bits)
    + Worth(4, bits) + Worth(5, bits) + Worth(6, bits) + Worth(7, bits)

\* A flag that is set when the condition holds.
When(flag, condition) == IF condition THEN {flag} ELSE {}
Carry(f) == IF "C" \in f THEN 1 ELSE 0

\* The flags most results set: zero, sign and even parity.
SignZero(x) == When("Z", x = 0) \cup When("S", Bit(x, 7) = 1)
Parity(x) == When("PV", Cardinality(BitsOf(x)) % 2 = 0)

\* The carry out of bit k - 1: bit k of lhs ^ rhs ^ result.
CarryInto(k, lhs, rhs, result) ==
  (Bit(lhs, k) + Bit(rhs, k) + Bit(result, k)) % 2 = 1

-----------------------------------------------------------------------------
\* Fault: the carry is not added.
AddWithoutCarry(lhs, rhs, carry) ==
  LET x == (lhs + rhs) % 256
  IN  [x |-> x,
       f |-> SignZero(x) \cup When("C", lhs + rhs > 255)
               \cup When("PV", Bit(lhs, 7) = Bit(rhs, 7) /\ Bit(rhs, 7) # Bit(x, 7))
               \cup When("H", CarryInto(4, lhs, rhs, x))]

AddCarry(lhs, rhs, carry) ==
  LET x == (lhs + rhs + carry) % 256
  IN  [x |-> x,
       f |-> SignZero(x) \cup When("C", lhs + rhs + carry > 255)
               \cup When("PV", Bit(lhs, 7) = Bit(rhs, 7) /\ Bit(rhs, 7) # Bit(x, 7))
               \cup When("H", CarryInto(4, lhs, rhs, x))]

SubCarry(lhs, rhs, carry) ==
  LET x == (lhs - rhs - carry) % 256
  IN  [x |-> x,
       f |-> {"N"} \cup SignZero(x) \cup When("C", lhs - rhs - carry < 0)
               \cup When("PV", Bit(lhs, 7) # Bit(rhs, 7) /\ Bit(x, 7) # Bit(lhs, 7))
               \cup When("H", CarryInto(4, lhs, rhs, x))]

And(lhs, rhs) ==
  LET x == FromBits(BitsOf(lhs) \cap BitsOf(rhs))
  IN  [x |-> x, f |-> {"H"} \cup SignZero(x) \cup Parity(x)]

Or(lhs, rhs) ==
  LET x == FromBits(BitsOf(lhs) \cup BitsOf(rhs))
  IN  [x |-> x, f |-> SignZero(x) \cup Parity(x)]

Xor(lhs, rhs) ==
  LET x == FromBits((BitsOf(lhs) \ BitsOf(rhs)) \cup (BitsOf(rhs) \ BitsOf(lhs)))
  IN  [x |-> x, f |-> SignZero(x) \cup Parity(x)]

\* A comparison subtracts and keeps A.
Compare(lhs, rhs) == [x |-> lhs, f |-> SubCarry(lhs, rhs, 0).f]

Arithmetic(op, lhs, rhs, f) ==
  CASE op = "add" -> AddCarry(lhs, rhs, 0)
    [] op = "adc" -> AddCarry(lhs, rhs, Carry(f))
    [] op = "sub" -> SubCarry(lhs, rhs, 0)
    [] op = "sbc" -> SubCarry(lhs, rhs, Carry(f))
    [] op = "and" -> And(lhs, rhs)
    [] op = "xor" -> Xor(lhs, rhs)
    [] op = "or" -> Or(lhs, rhs)
    [] op = "cp" -> Compare(lhs, rhs)

\* These two keep the carry.
Inc(data, f) ==
  LET x == (data + 1) % 256
  IN  [x |-> x,
       f |-> (f \cap {"C"}) \cup SignZero(x) \cup When("PV", x = 128)
               \cup When("H", Bit(x, 4) # Bit(data, 4))]

\* Fault: the overflow of the increment.
DecOverflowOfInc(data, f) ==
  LET x == (data + 255) % 256
  IN  [x |-> x,
       f |-> (f \cap {"C"}) \cup {"N"} \cup SignZero(x) \cup When("PV", x = 128)
               \cup When("H", Bit(x, 4) # Bit(data, 4))]

Dec(data, f) ==
  LET x == (data + 255) % 256
  IN  [x |-> x,
       f |-> (f \cap {"C"}) \cup {"N"} \cup SignZero(x) \cup When("PV", x = 127)
               \cup When("H", Bit(x, 4) # Bit(data, 4))]

-----------------------------------------------------------------------------
\* The operations on A alone.

\* Fault: the upper digit is adjusted for the lower one's result.
DaaInTwoSteps(data, f) ==
  LET sign == IF "N" \in f THEN -1 ELSE 1
      low == IF data % 16 > 9 \/ "H" \in f THEN (data + sign * 6) % 256 ELSE data
      high == low > 153 \/ "C" \in f
      x == IF high THEN (low + sign * 96) % 256 ELSE low
  IN  [x |-> x,
       f |-> (f \cap {"N"}) \cup When("C", high) \cup SignZero(x) \cup Parity(x)
               \cup When("H", Bit(data, 4) # Bit(x, 4))]

Daa(data, f) ==
  LET low == data % 16 > 9 \/ "H" \in f
      high == data > 153 \/ "C" \in f
      adjust == (IF low THEN 6 ELSE 0) + (IF high THEN 96 ELSE 0)
      x == (IF "N" \in f THEN data - adjust ELSE data + adjust) % 256
  IN  [x |-> x,
       f |-> (f \cap {"N"}) \cup When("C", high) \cup SignZero(x) \cup Parity(x)
               \cup When("H", Bit(data, 4) # Bit(x, 4))]

Neg(data) == SubCarry(0, data, 0)
Cpl(data, f) == [x |-> 255 - data, f |-> f \cup {"N", "H"}]
Scf(data, f) == [x |-> data, f |-> (f \ {"N", "H"}) \cup {"C"}]
Ccf(data, f) ==
  [x |-> data,
   f |-> (f \ {"N", "H", "C"}) \cup IF "C" \in f THEN {"H"} ELSE {"C"}]

\* The shifts: the bit that goes in at the other end, the bit that goes out.
Left == {"rlc", "rl", "sla", "sll"}
Right == {"rrc", "rr", "sra", "srl"}
BitOut(op, data) == IF op \in Left THEN Bit(data, 7) ELSE Bit(data, 0)

\* Fault: every rotation is within the byte, and the carry before is lost.
BitInIsOut(op, data, f) == BitOut(op, data)

BitIn(op, data, f) ==
  CASE op \in {"rlc", "rrc"} -> BitOut(op, data)
    [] op \in {"rl", "rr"} -> Carry(f)
    [] op = "sra" -> Bit(data, 7)
    [] op = "sll" -> 1
    [] op \in {"sla", "srl"} -> 0

Shift(op, data, f) ==
  LET x == IF op \in Left THEN ((2 * data) % 256) + BitIn(op, data, f)
                          ELSE (data \div 2) + 128 * BitIn(op, data, f)
  IN  [x |-> x,
       f |-> When("C", BitOut(op, data) = 1) \cup SignZero(x) \cup Parity(x)]

\* RLCA, RRCA, RLA and RRA leave the other flags of a shift alone.
ShiftA(op, data, f) ==
  [x |-> Shift(op, data, f).x,
   f |-> (f \ {"C", "N", "H"}) \cup When("C", BitOut(op, data) = 1)]

AdjustA(op, data, f) ==
  CASE op = "daa" -> Daa(data, f)
    [] op = "neg" -> Neg(data)
    [] op = "cpl" -> Cpl(data, f)
    [] op = "scf" -> Scf(data, f)
    [] op = "ccf" -> Ccf(data, f)
    [] op \in {"rlc", "rrc", "rl", "rr"} -> ShiftA(op, data, f)

\* BIT, RES and SET of bit k.
TestBit(k, data, f) ==
  (f \cap {"C"}) \cup {"H"}
    \cup (IF Bit(data, k) = 0 THEN {"Z", "PV"} ELSE When("S", k = 7))
ResetBit(k, data) == data - 2 ^ k * Bit(data, k)
SetBit(k, data) == data + 2 ^ k * (1 - Bit(data, k))

\* RRD and RLD move digits between A and a byte of memory.
RotateFlags(x, f) == (f \cap {"C"}) \cup SignZero(x) \cup Parity(x)
Rrd(a, data, f) ==
  LET x == (a - (a % 16)) + (data % 16)
  IN  [x |-> x, m |-> (data \div 16) + 16 * (a % 16), f |-> RotateFlags(x, f)]
Rld(a, data, f) ==
  LET x == (a - (a % 16)) + (data \div 16)
  IN  [x |-> x, m |-> 16 * (data % 16) + (a % 16), f |-> RotateFlags(x, f)]

-----------------------------------------------------------------------------
\* Sixteen bits.
AddWide(lhs, rhs, f) ==
  LET x == (lhs + rhs) % 65536
  IN  [x |-> x,
       f |-> (f \cap {"PV", "Z", "S"}) \cup When("C", lhs + rhs > 65535)
               \cup When("H", CarryInto(12, lhs, rhs, x))]

\* Fault: the zero flag is that of the high byte.
ZeroOfHighByte(x) == SignZero(x \div 256)

\* The zero flag is that of the whole word.
SignZeroWide(x) == When("Z", x = 0) \cup When("S", Bit(x, 15) = 1)

AddCarryWide(lhs, rhs, f) ==
  LET sum == lhs + rhs + Carry(f)
      x == sum % 65536
  IN  [x |-> x,
       f |-> SignZeroWide(x) \cup When("C", sum > 65535)
               \cup When("PV", Bit(lhs, 15) = Bit(rhs, 15) /\ Bit(rhs, 15) # Bit(x, 15))
               \cup When("H", CarryInto(12, lhs, rhs, x))]

SubCarryWide(lhs, rhs, f) ==
  LET difference == lhs - rhs - Carry(f)
      x == difference % 65536
  IN  [x |-> x,
       f |-> {"N"} \cup SignZeroWide(x) \cup When("C", difference < 0)
               \cup When("PV", Bit(lhs, 15) # Bit(rhs, 15) /\ Bit(x, 15) # Bit(lhs, 15))
               \cup When("H", CarryInto(12, lhs, rhs, x))]

ArithmeticWide(op, lhs, rhs, f) ==
  CASE op = "add" -> AddWide(lhs, rhs, f)
    [] op = "adc" -> AddCarryWide(lhs, rhs, f)
    [] op = "sbc" -> SubCarryWide(lhs, rhs, f)

\* The flags of one step of a block copy, a block search and an input.
CopyFlags(bc, f) == (f \cap {"C", "Z", "S"}) \cup When("PV", bc # 0)
SearchFlags(a, data, bc, f) ==
  LET x == (a - data) % 256
  IN  (f \cap {"C"}) \cup {"N"} \cup SignZero(x) \cup When("PV", bc # 0)
        \cup When("H", x % 16 > a % 16)
InputFlags(data, f) == (f \cap {"C"}) \cup SignZero(data) \cup Parity(data)
PortBlockFlags(b, f) == (f \ {"Z"}) \cup {"N"} \cup When("Z", b = 0)
=============================================================================
