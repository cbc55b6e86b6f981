------------------------------- MODULE Decode -------------------------------
(***************************************************************************)
(* The tables of opcodes of the CPU (emu/src/cpu/mod.rs): the instruction  *)
(* that a sequence of bytes is, beginning with its opcode or prefix.  The  *)
(* code has seven tables with a line for every opcode; here the fields of  *)
(* an opcode say what it is, where they do.                                *)
(*                                                                         *)
(* i is the pair that stands for HL: HL itself, IX after the prefix 0xDD   *)
(* and IY after 0xFD.                                                      *)
(***************************************************************************)
EXTENDS Instructions, Sequences

\* The fields of an opcode.
X(o) == o \div 64
Y(o) == (o \div 8) % 8
Z(o) == o % 8
P(o) == Y(o) \div 2
Odd(o) == Y(o) % 2 = 1

Word(b, k) == b[k] + 256 * b[k + 1]
Offset(byte) == IF byte > 127 THEN byte - 256 ELSE byte
Longer(insn, n) == [insn EXCEPT !.len = @ + n]

HighByte == [HL |-> "H", IX |-> "IXH", IY |-> "IYH"]

\* Fault: the lines of IY are copied from those of IX.
LowByteOfIX == [HL |-> "L", IX |-> "IXL", IY |-> "IXL"]

LowByte == [HL |-> "L", IX |-> "IXL", IY |-> "IYL"]

\* The byte operand numbered k; with a displacement, if memory is indexed.
Named(i, k) == <<"B", "C", "D", "E", HighByte[i], LowByte[i], "(hl)", "A">>[k + 1]
InMemory(i, b) == Mem(i, IF i = "HL" THEN 0 ELSE Offset(b[2]))
ByteOperand(i, k, b) == IF k = 6 THEN InMemory(i, b) ELSE R(Named(i, k))
Displaced(i, k) == IF k = 6 /\ i # "HL" THEN 1 ELSE 0

Pairs(i, last) == <<"BC", "DE", i, last>>

\* Fault: every table has the slip that the calls have.
ConditionsOfCalls == <<"NZ", "Z", "NC", "C", "PO", "PE", "P", "PE">>

Conditions == <<"NZ", "Z", "NC", "C", "PO", "PE", "P", "M">>

\* No opcode calls on M: 0xFC is a second CALL PE.
CallConditions == [Conditions EXCEPT ![8] = "PE"]

MathOps == <<"add", "adc", "sub", "sbc", "and", "xor", "or", "cp">>
Shifts == <<"rlc", "rrc", "rl", "rr", "sla", "sra", "sll", "srl">>
BitOps == <<"bit", "res", "set">>

-----------------------------------------------------------------------------
\* Opcodes 0x00 to 0x3F.
Relative(y, e) ==
  CASE y = 0 -> Plain("nop", 1)
    [] y = 1 -> Plain("ex_af", 1)
    [] y = 2 -> Jr("djnz", "always", e)
    [] y = 3 -> Jr("jr", "always", e)
    [] OTHER -> Jr("jr", Conditions[y - 3], e)

Indirect(i, y, nn) ==
  <<Ld(Mem("BC", 0), R("A"), 1), Ld(R("A"), Mem("BC", 0), 1),
    Ld(Mem("DE", 0), R("A"), 1), Ld(R("A"), Mem("DE", 0), 1),
    LdWide(At(nn), RR(i), 3), LdWide(RR(i), At(nn), 3),
    Ld(At(nn), R("A"), 3), Ld(R("A"), At(nn), 3)>>[y + 1]

Low(i, b) ==
  LET y == Y(b[1])
      pair == Pairs(i, "SP")[P(b[1]) + 1]
      operand == ByteOperand(i, y, b)
      d == Displaced(i, y)
  IN  <<Relative(y, Offset(b[2])),
        IF Odd(b[1]) THEN Wide("add", i, pair) ELSE LdWide(RR(pair), NN(Word(b, 2)), 3),
        Indirect(i, y, Word(b, 2)),
        OnPair(IF Odd(b[1]) THEN "dec16" ELSE "inc16", pair),
        OnByte("inc", operand, 1 + d),
        OnByte("dec", operand, 1 + d),
        Ld(operand, N(b[2 + d]), 2 + d),
        OnA(<<"rlc", "rrc", "rl", "rr", "daa", "cpl", "scf", "ccf">>[y + 1])>>[Z(b[1]) + 1]

\* Opcodes 0x40 to 0x7F.  Beside an operand in memory, H and L are H and L.
Loads(i, b) ==
  LET j == IF 6 \in {Y(b[1]), Z(b[1])} THEN "HL" ELSE i
      Side(k) == IF k = 6 THEN InMemory(i, b) ELSE R(Named(j, k))
  IN  IF b[1] = 118 THEN Plain("halt", 1)
      ELSE Ld(Side(Y(b[1])), Side(Z(b[1])), IF i # j THEN 2 ELSE 1)

\* Opcodes 0x80 to 0xBF.
Sums(i, b) ==
  Math(MathOps[Y(b[1]) + 1], ByteOperand(i, Z(b[1]), b), 1 + Displaced(i, Z(b[1])))

\* Opcodes 0xC0 to 0xFF, but for the prefixes.
Single(i, y, b) ==
  <<Jp("jp", "always", Word(b, 2)), Plain("prefix", 1),
    OnPort("out_(n)_a", b[2]), OnPort("in_a_(n)", b[2]),
    OnPair("ex_(sp)", i), Plain("ex_de_hl", 1), Plain("di", 1), Plain("ei", 1)>>[y + 1]

Upper(i, b) ==
  LET y == Y(b[1])
      stacked == Pairs(i, "AF")[P(b[1]) + 1]
  IN  <<Ret(Conditions[y + 1]),
        IF Odd(b[1])
        THEN <<Ret("always"), Plain("exx", 1), OnPair("jp_(rr)", i),
               LdWide(RR("SP"), RR(i), 1)>>[P(b[1]) + 1]
        ELSE OnPair("pop", stacked),
        Jp("jp", Conditions[y + 1], Word(b, 2)),
        Single(i, y, b),
        Jp("call", CallConditions[y + 1], Word(b, 2)),
        IF Odd(b[1]) THEN Jp("call", "always", Word(b, 2)) ELSE OnPair("push", stacked),
        Math(MathOps[y + 1], N(b[2]), 2),
        Rst(8 * y)>>[Z(b[1]) + 1]

Quarter(i, b) ==
  CASE X(b[1]) = 0 -> Low(i, b) [] X(b[1]) = 1 -> Loads(i, b)
    [] X(b[1]) = 2 -> Sums(i, b) [] X(b[1]) = 3 -> Upper(i, b)

-----------------------------------------------------------------------------
\* After 0xCB.
BitTable(o) ==
  LET operand == ByteOperand("HL", Z(o), <<o>>)
  IN  IF X(o) = 0 THEN ShiftBy(Shifts[Y(o) + 1], operand)
                  ELSE OnBit(BitOps[X(o)], Y(o), operand)

\* After 0xDD 0xCB or 0xFD 0xCB: the displacement comes before the opcode, and
\* the register the opcode names gets a copy of the byte.
IndexedBitTable(i, d, o) ==
  LET operand == Mem(i, Offset(d))
      insn == IF X(o) = 0 THEN ShiftBy(Shifts[Y(o) + 1], operand)
                          ELSE OnBit(BitOps[X(o)], Y(o), operand)
  IN  Longer([insn EXCEPT !.copy = IF Z(o) = 6 \/ X(o) = 1 THEN "none"
                                   ELSE Named("HL", Z(o))], 2)

\* After 0xED; `none' where the table has no line.
Modes == <<"zero", "zero", "one", "two", "zero", "zero", "one", "two">>
Interrupting(y) ==
  <<Ld(R("I"), R("A"), 2), Ld(R("R"), R("A"), 2), Plain("ld_a_i", 2), Plain("ld a,r", 2),
    Digits("rrd"), Digits("rld"), Plain("none", 2), Plain("none", 2)>>[y + 1]

Extended(b) ==
  LET y == Y(b[1])
      pair == Pairs("HL", "SP")[P(b[1]) + 1]
      register == Named("HL", y)
  IN  <<IF y = 6 THEN Plain("in_(c)", 2) ELSE InC(register),
        Math("out", IF y = 6 THEN N(0) ELSE R(register), 2),
        Wide(IF Odd(b[1]) THEN "adc" ELSE "sbc", "HL", pair),
        Longer(IF Odd(b[1]) THEN LdWide(RR(pair), At(Word(b, 2)), 3)
                            ELSE LdWide(At(Word(b, 2)), RR(pair), 3), 1),
        OnA("neg"),
        Plain(IF y = 1 THEN "reti" ELSE "retn", 2),
        Im(Modes[y + 1]),
        Interrupting(y)>>[Z(b[1]) + 1]

Blocks(o) ==
  Block(<<"ldi", "cpi", "ini", "outi">>[Z(o) + 1], ~Odd(o), Y(o) > 5)

ExtendedTable(b) ==
  CASE X(b[1]) = 1 -> Extended(b)
    [] X(b[1]) = 2 /\ Y(b[1]) >= 4 /\ Z(b[1]) < 4 -> Blocks(b[1])
    [] OTHER -> Plain("none", 2)

\* The opcodes with a line of their own after 0xDD and 0xFD, 0xCB left out.
IndexedLoads ==
  UNION {{o + 4, o + 5, o + 6} : o \in {64, 72, 80, 88}}
    \cup 96 .. 111 \cup (112 .. 119 \ {118}) \cup 124 .. 126
IndexedOpcodes ==
  {9, 25, 41, 57} \cup 33 .. 38 \cup 42 .. 46 \cup 52 .. 54
    \cup IndexedLoads
    \cup UNION {{o + 4, o + 5, o + 6} : o \in {128 + 8 * k : k \in 0 .. 7}}
    \cup {225, 227, 229, 233, 249}

-----------------------------------------------------------------------------
\* do_opcode(); a prefix before an opcode that its table lacks does nothing.
RECURSIVE Decoded(_)
Prefixed(i, b) ==
  CASE b[1] = 203 -> IndexedBitTable(i, b[2], b[3])
    [] b[1] \in IndexedOpcodes -> Longer(Quarter(i, b), 1)
    [] OTHER -> Longer(Decoded(b), 1)
Decoded(b) ==
  CASE b[1] = 203 -> BitTable(b[2])
    [] b[1] = 221 -> Prefixed("IX", Tail(b))
    [] b[1] = 253 -> Prefixed("IY", Tail(b))
    [] b[1] = 237 -> IF ExtendedTable(Tail(b)).op # "none" THEN ExtendedTable(Tail(b))
                     ELSE Longer(Decoded(Tail(b)), 1)
    [] OTHER -> Quarter("HL", b)
=============================================================================
