----------------------------- MODULE DecodeLaws -----------------------------
(***************************************************************************)
(* What the tables of opcodes promise, for every opcode.                   *)
(***************************************************************************)
EXTENDS AluLaws, Decode, FiniteSets

Operands == <<33, 5, 130>>      \* the bytes after an opcode

\* What is decoded is what `Cpu' executes, but for the instructions that touch R.
ASSUME DecodedAssumption ==
  \A o \in Byte : \A prefix \in {<<>>, <<203>>, <<221>>, <<253>>, <<237>>,
                                 <<221, 203, 5>>, <<253, 203, 5>>} :
    LET insn == Decoded(prefix \o <<o>> \o Operands)
    IN  \/ WellFormed(insn)
        \/ insn.op = "ld" /\ "R" \in {insn.dst.r, insn.src.r}

\* Two opcodes of a table are two instructions, so that none is out of reach of the
\* guest.  The exceptions are the lines the tables repeat: a second CALL PE in place of
\* CALL M (cpu/mod.rs:2412), the opcodes of NEG, RETN and each IM after 0xED, and BIT on an
\* indexed byte, which copies to no register (cpu/mod.rs:2142-2805).
Apart(before, after, lines) ==
  x < y /\ {x, y} \subseteq lines =>
    Decoded(before \o <<x>> \o after) # Decoded(before \o <<y>> \o after)

ExtendedLines == {o \in Byte : ExtendedTable(<<o>> \o Operands).op # "none"}
Repetitions ==      \* of NEG, RETN, IM 0, IM 1 and IM 2
  {{68 + 8 * k : k \in 0 .. 7}, {69 + 8 * k : k \in 0 .. 7 \ {1}},
   {70, 78, 102, 110}, {86, 118}, {94, 126}}
IsBit(o) == o \div 64 = 1

EachOpcodeItsOwn ==
  /\ {x, y} # {236, 252} => Apart(<<>>, Operands, Byte)
  /\ Apart(<<203>>, Operands, Byte)
  /\ \/ \E repeated \in Repetitions : {x, y} \subseteq repeated
     \/ Apart(<<237>>, Operands, ExtendedLines)
  /\ \A prefix \in {221, 253} :
       /\ Apart(<<prefix>>, Operands, IndexedOpcodes)
       /\ \/ IsBit(x) /\ IsBit(y) /\ x \div 8 = y \div 8
          \/ Apart(<<prefix, 203, 5>>, Operands, Byte)

\* An instruction on HL as it is on an index pair: the pair, its halves, and the byte
\* it points at with a displacement d of its own.  Where that byte is an operand, H and
\* L are not replaced.  EX DE,HL and EXX name no operand.
HalvesOf ==
  [IX |-> [HL |-> "IX", H |-> "IXH", L |-> "IXL"],
   IY |-> [HL |-> "IY", H |-> "IYH", L |-> "IYL"]]
Renamed(name, index) ==
  IF name \in DOMAIN HalvesOf[index] THEN HalvesOf[index][name] ELSE name
RenamedIn(operand, index) ==
  [field \in DOMAIN operand |->
     IF field \in {"r", "rr"} THEN Renamed(operand[field], index) ELSE operand[field]]

OperandsOf(insn) == IF insn.op = "wide" THEN {} ELSE {"dst", "src"} \cap DOMAIN insn
PointsAt(insn) == {side \in OperandsOf(insn) : insn[side] = Mem("HL", 0)}
OnIndex(insn, index, d) ==
  [field \in DOMAIN insn |->
     CASE field = "len" -> insn.len + 1 + Cardinality(PointsAt(insn))
       [] field \in PointsAt(insn) -> Mem(index, d)
       [] field \in OperandsOf(insn) \ PointsAt(insn) ->
            IF PointsAt(insn) = {} THEN RenamedIn(insn[field], index) ELSE insn[field]
       [] insn.op = "wide" /\ field \in {"rr", "src"} -> Renamed(insn[field], index)
       [] insn.op # "wide" /\ field = "rr" -> Renamed(insn.rr, index)
       [] OTHER -> insn[field]]

\* A prefix makes of every opcode the same instruction with IX or IY, one byte longer:
\* of LD H,n LD IYH,n, of ADD HL,HL ADD IX,IX, of INC (HL) INC (IY+d), of LD H,(HL)
\* LD H,(IX+d); and leaves all others alone (cpu/mod.rs:2697-2805).  The displacement
\* is the byte x.  After 0xCB it comes before the opcode, all shifts and bit operations
\* are on the indexed byte, and the register they would be on gets a copy of the result.
PrefixSubstitutes ==
  \A prefix \in {221, 253} :
    LET index == IF prefix = 221 THEN "IX" ELSE "IY"
        plain == Decoded(<<y>> \o Operands)
        displacement == IF PointsAt(plain) = {} THEN <<>> ELSE <<x>>
        bit == Decoded(<<203, y>>)
        pointed == OnIndex(Decoded(<<203, y - (y % 8) + 6>>), index, Signed(x))
        copied == IF PointsAt(bit) # {} \/ bit.op = "bit" THEN "none" ELSE bit.dst.r
    IN  /\ y \notin {203, 221, 237, 253} =>
             Decoded(<<prefix, y>> \o displacement \o Operands)
               = OnIndex(plain, index, Signed(x))
        /\ Decoded(<<prefix, 203, x, y>>) = [pointed EXCEPT !.copy = copied]
=============================================================================
