---------------------------- MODULE Instructions ----------------------------
(***************************************************************************)
(* The instructions of the CPU, decoded, as `Cpu' executes them: records   *)
(* with an operation, a length in bytes and operands.                      *)
(***************************************************************************)
EXTENDS Alu

\* Operands: a register or an immediate, of one byte or two; a byte in memory at a
\* pair of registers and a displacement, or at an address.
R(r) == [at |-> "register", r |-> r]
N(n) == [at |-> "immediate", n |-> n]
Mem(rr, d) == [at |-> "pair", rr |-> rr, d |-> d]
At(nn) == [at |-> "absolute", nn |-> nn]
RR(rr) == [at |-> "register", rr |-> rr]
NN(nn) == [at |-> "immediate", nn |-> nn]

Plain(op, len) == [op |-> op, len |-> len]
Ld(dst, src, len) == [op |-> "ld", len |-> len, dst |-> dst, src |-> src]
LdWide(dst, src, len) == [op |-> "ld16", len |-> len, dst |-> dst, src |-> src]
Math(op, src, len) == [op |-> op, len |-> len, src |-> src]
OnA(how) == [op |-> "a", len |-> IF how = "neg" THEN 2 ELSE 1, how |-> how]
OnByte(op, dst, len) == [op |-> op, len |-> len, dst |-> dst, copy |-> "none"]
ShiftBy(how, dst) == [op |-> "shift", len |-> 2, how |-> how, dst |-> dst, copy |-> "none"]
OnBit(op, bit, dst) == [op |-> op, len |-> 2, bit |-> bit, dst |-> dst, copy |-> "none"]
Digits(how) == [op |-> "digits", len |-> 2, how |-> how]
Wide(how, rr, src) ==
  [op |-> "wide", len |-> IF how = "add" THEN 1 ELSE 2, how |-> how, rr |-> rr, src |-> src]
OnPair(op, rr) == [op |-> op, len |-> 1, rr |-> rr]
Jp(op, cc, nn) == [op |-> op, len |-> 3, cc |-> cc, nn |-> nn]
Jr(op, cc, e) == [op |-> op, len |-> 2, cc |-> cc, e |-> e]
Rst(nn) == [op |-> "rst", len |-> 1, nn |-> nn]
Ret(cc) == [op |-> "ret", len |-> 1, cc |-> cc]
Im(mode) == [op |-> "im", len |-> 2, mode |-> mode]
Block(op, up, repeat) == [op |-> op, len |-> 2, up |-> up, repeat |-> repeat]
OnPort(op, n) == [op |-> op, len |-> 2, n |-> n]
InC(r) == [op |-> "in", len |-> 2, r |-> r]

-----------------------------------------------------------------------------
\* What the operands may be.  R is no operand here.
ByteRegisters ==
  {"A", "B", "C", "D", "E", "H", "L", "IXH", "IXL", "IYH", "IYL", "I"}
WordRegisters == {"BC", "DE", "HL", "IX", "IY", "SP"}
Offsets == -128 .. 127

InRegister == [at : {"register"}, r : ByteRegisters]
Absolute == [at : {"absolute"}, nn : Words]
Immediate == [at : {"immediate"}, n : Byte]
ByteTargets ==
  InRegister \cup Absolute \cup [at : {"pair"}, rr : WordRegisters \ {"SP"}, d : Offsets]
ByteSources == ByteTargets \cup Immediate
WordTargets == Absolute \cup [at : {"register"}, rr : WordRegisters]
WordSources == WordTargets \cup [at : {"immediate"}, nn : Words]

MathNames == {"add", "adc", "sub", "sbc", "and", "xor", "or", "cp"}
ShiftNames == {"rlc", "rrc", "rl", "rr", "sla", "sra", "sll", "srl"}
ANames == {"rlc", "rrc", "rl", "rr", "daa", "cpl", "scf", "ccf", "neg"}
ConditionNames == {"always", "NZ", "Z", "NC", "C", "PO", "PE", "P", "M"}

\* An instruction has the operands that its operation uses.
WellFormed(i) ==
  /\ i.len \in Nat
  /\ i.op = "ld" => i.dst \in ByteTargets /\ i.src \in ByteSources
  /\ i.op = "ld16" => i.dst \in WordTargets /\ i.src \in WordSources
  /\ i.op \in MathNames \cup {"out"} => i.src \in ByteSources
  /\ i.op = "a" => i.how \in ANames
  /\ i.op \in {"inc", "dec", "shift", "res", "set"} =>
       i.dst \in ByteTargets /\ i.copy \in ByteRegisters \cup {"none"}
  /\ i.op = "shift" => i.how \in ShiftNames
  /\ i.op \in {"res", "set", "bit"} => i.bit \in 0 .. 7
  /\ i.op = "bit" => i.dst \in ByteTargets
  /\ i.op = "digits" => i.how \in {"rld", "rrd"}
  /\ i.op = "wide" => /\ i.how \in {"add", "adc", "sbc"}
                      /\ i.rr \in WordRegisters /\ i.src \in WordRegisters
  /\ i.op \in {"inc16", "dec16", "jp_(rr)", "ex_(sp)"} => i.rr \in WordRegisters
  /\ i.op \in {"push", "pop"} => i.rr \in WordRegisters \cup {"AF"}
  /\ i.op \in {"jp", "call", "rst"} => i.nn \in Words
  /\ i.op \in {"jr", "djnz"} => i.e \in Offsets
  /\ i.op \in {"jp", "call", "jr", "ret"} => i.cc \in ConditionNames
  /\ i.op = "im" => i.mode \in {"zero", "one", "two"}
  /\ i.op \in {"ldi", "cpi", "ini", "outi"} => i.up \in BOOLEAN /\ i.repeat \in BOOLEAN
  /\ i.op \in {"in_a_(n)", "out_(n)_a"} => i.n \in Byte
  /\ i.op = "in" => i.r \in ByteRegisters
=============================================================================
