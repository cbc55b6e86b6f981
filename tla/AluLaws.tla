------------------------------ MODULE AluLaws ------------------------------
(***************************************************************************)
(* What the arithmetic of the CPU promises, for every two bytes and carry. *)
(***************************************************************************)
EXTENDS Alu

VARIABLES
  x, y,     \* the operands
  f         \* the flags before: the carry, or none

laws == <<x, y, f>>

\* The second operand runs through the bytes.
LawsInit == x \in Byte /\ y = 0 /\ f \in {{}, {"C"}}
LawsNext == y' = (y + 1) % 256 /\ UNCHANGED <<x, f>>
LawsSpec == LawsInit /\ [][LawsNext]_laws

\* The value of a byte in two's complement.
Signed(b) == IF b > 127 THEN b - 256 ELSE b
IsSigned(n) == n \in -128 .. 127

\* Addition and subtraction are exact, read without sign (carry), with sign
\* (overflow, sign), and by digits (half carry); and so is the comparison that
\* a guest makes of the flags (cpu/mod.rs:602-654).
ArithmeticExact ==
  LET c == Carry(f)
      sum == AddCarry(x, y, c)
      difference == SubCarry(x, y, c)
      compared == Compare(x, y).f
  IN  /\ x + y + c = sum.x + 256 * Carry(sum.f)
      /\ "PV" \in sum.f <=> ~IsSigned(Signed(x) + Signed(y) + c)
      /\ "H" \in sum.f <=> (x % 16) + (y % 16) + c > 15
      /\ x - y - c = difference.x - 256 * Carry(difference.f)
      /\ "PV" \in difference.f <=> ~IsSigned(Signed(x) - Signed(y) - c)
      /\ "H" \in difference.f <=> (x % 16) - (y % 16) - c < 0
      /\ "C" \in compared <=> x < y
      /\ ("S" \in compared) # ("PV" \in compared) <=> Signed(x) < Signed(y)

\* The result of a sixteen bit operation is that of the byte operation on the low
\* bytes and then on the high ones, with the carry handed on; only its zero flag is
\* that of the whole word.
IsTwoBytes(op, wide, lhs, rhs, flags) ==
  LET low == Arithmetic(op, lhs % 256, rhs % 256, flags)
      high == Arithmetic(op, lhs \div 256, rhs \div 256, low.f)
  IN  /\ wide.x = 256 * high.x + low.x
      /\ wide.f \ {"Z"} = high.f \ {"Z"}
      /\ "Z" \in wide.f <=> "Z" \in low.f /\ "Z" \in high.f

\* A sixteen bit operation is the byte operation twice (cpu/mod.rs:1461-1482,
\* 1529-1550).
WordsAreTwoBytes ==
  LET lhs == 256 * x + y
  IN  \A rhs \in {lhs, 65536 - lhs, 32767, 255} \cap Words :
        /\ IsTwoBytes("adc", AddCarryWide(lhs, rhs, f), lhs, rhs, f)
        /\ IsTwoBytes("sbc", SubCarryWide(lhs, rhs, f), lhs, rhs, f)

\* After the addition or subtraction of two numbers of two decimal digits, DAA
\* leaves the digits of the result and its carry (cpu/mod.rs:450-477).
Decimal(b) == 10 * (b \div 16) + (b % 16)
IsDecimal(b) == b \div 16 < 10 /\ b % 16 < 10
DecimalAdjusted ==
  IsDecimal(x) /\ IsDecimal(y) =>
    LET added == AddCarry(x, y, Carry(f))
        sum == Daa(added.x, added.f)
        subtracted == SubCarry(x, y, Carry(f))
        difference == Daa(subtracted.x, subtracted.f)
    IN  /\ IsDecimal(sum.x) /\ IsDecimal(difference.x)
        /\ Decimal(x) + Decimal(y) + Carry(f) = Decimal(sum.x) + 100 * Carry(sum.f)
        /\ Decimal(x) - Decimal(y) - Carry(f)
             = Decimal(difference.x) - 100 * Carry(difference.f)

\* A rotation and its opposite undo each other, through the carry too; a shift
\* doubles or halves; moving a digit back and forth changes nothing
\* (cpu/mod.rs:984-1221, 1553-1588).
RotationsUndone ==
  LET Undone(op, opposite) ==
        LET turned == Shift(op, x, f)
        IN  Shift(opposite, turned.x, turned.f).x = x
      CarryKept(op, opposite) ==
        LET turned == Shift(op, x, f)
        IN  Carry(Shift(opposite, turned.x, turned.f).f) = Carry(f)
      left == Rld(x, y, f)
      back == Rrd(left.x, left.m, f)
  IN  /\ Undone("rlc", "rrc") /\ Undone("rl", "rr") /\ Undone("rr", "rl")
      /\ CarryKept("rl", "rr") /\ CarryKept("rr", "rl")
      /\ 2 * x = Shift("sla", x, f).x + 256 * Carry(Shift("sla", x, f).f)
      /\ Signed(Shift("sra", x, f).x) = Signed(x) \div 2
      /\ back.x = x /\ back.m = y

\* INC, DEC, NEG and the block search compute their flags in ways of their own;
\* they are those of the addition, subtraction or comparison they stand for
\* (cpu/mod.rs:276-303, 1485-1490, 1619-1637).
ShortcutsAgree ==
  LET keep == f \cap {"C"}
      compared == Compare(x, y).f
  IN  /\ Inc(x, f).x = AddCarry(x, 1, 0).x
      /\ Inc(x, f).f = (AddCarry(x, 1, 0).f \ {"C"}) \cup keep
      /\ Dec(x, f).x = SubCarry(x, 1, 0).x
      /\ Dec(x, f).f = (SubCarry(x, 1, 0).f \ {"C"}) \cup keep
      /\ Neg(x).x = Inc(Cpl(x, f).x, f).x
      /\ SearchFlags(x, y, 0, f) = (compared \ {"C", "PV"}) \cup keep
=============================================================================
