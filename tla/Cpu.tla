-------------------------------- MODULE Cpu --------------------------------
(***************************************************************************)
(* The CPU (emu/src/cpu/mod.rs), one instruction a step: the pending       *)
(* enable of the interrupts, the fetch, the instruction, then the          *)
(* interrupt line.                                                         *)
(*                                                                         *)
(* Instructions are given decoded, with their length; the operands say     *)
(* where a byte or a word is.  Programs do not write over their own code,  *)
(* so code and data are kept apart.  Left out: the undocumented flags, the *)
(* refresh register R and the internal register WZ, which only they show.  *)
(***************************************************************************)
EXTENDS Instructions, Sequences

CONSTANTS
  Guests,       \* the programs the machine may be loaded with
  Code(_),      \* Code(g): the instructions of program g by address
  Data(_),      \* Data(g): what the data memory holds when g is loaded
  Inputs,       \* the bytes the ports return
  Acknowledge,  \* the port whose reading lowers the interrupt line
  Raises        \* bound: how often a device raises the line

ASSUME CodeAssumption ==
  \A g \in Guests : \A w \in DOMAIN Code(g) : WellFormed(Code(g)[w])
ASSUME InputsAssumption == Inputs \subseteq Byte
ASSUME RaisesAssumption == Raises \in Nat

VARIABLES
  guest,        \* the program loaded
  cpu,          \* the registers and the interrupt state
  mem,          \* the data memory
  line,         \* bus.interrupted()
  raised,       \* how often the line was raised
  output,       \* the bytes written to ports, with the ports
  panicked      \* an interrupt in a mode that is unimplemented!()

vars == <<guest, cpu, mem, line, raised, output, panicked>>

-----------------------------------------------------------------------------
\* Registers and operands.
HighPart == [B |-> "BC", D |-> "DE", H |-> "HL", IXH |-> "IX", IYH |-> "IY"]
LowPart == [C |-> "BC", E |-> "DE", L |-> "HL", IXL |-> "IX", IYL |-> "IY"]

Modes == {"zero", "one", "two"}

CpuState ==
  [PC : Words, SP : Words, A : Byte, F : SUBSET Flags, BC : Words, DE : Words,
   HL : Words, IX : Words, IY : Words, I : Byte,
   prime : [A : Byte, F : SUBSET Flags, BC : Words, DE : Words, HL : Words],
   interrupt_mode : Modes, halted : BOOLEAN,
   enable_interrupts_next_cycle : BOOLEAN, iff1 : BOOLEAN, iff2 : BOOLEAN]

\* The type of every variable.
CpuTypeOK ==
  /\ guest \in Guests
  /\ cpu \in CpuState
  /\ \A w \in DOMAIN mem : w \in Words /\ mem[w] \in Byte
  /\ line \in BOOLEAN
  /\ raised \in 0 .. Raises
  /\ output \in Seq([port : Byte, data : Byte])
  /\ panicked \in BOOLEAN

\* Cpu::default()
NewCpu ==
  [PC |-> 0, SP |-> 0, A |-> 0, F |-> {}, BC |-> 0, DE |-> 0,
   HL |-> 0, IX |-> 0, IY |-> 0, I |-> 0,
   prime |-> [A |-> 0, F |-> {}, BC |-> 0, DE |-> 0, HL |-> 0],
   interrupt_mode |-> "zero", halted |-> FALSE,
   enable_interrupts_next_cycle |-> FALSE, iff1 |-> FALSE, iff2 |-> FALSE]

Init ==
  /\ guest \in Guests
  /\ cpu = NewCpu
  /\ mem = Data(guest)
  /\ line = FALSE
  /\ raised = 0
  /\ output = <<>>
  /\ panicked = FALSE

High(w) == w \div 256
Low(w) == w % 256

\* Fault: addresses do not wrap.
PlusUnwrapped(w, d) == w + d

Plus(w, d) == (w + d) % 65536

FlagBits == [C |-> 0, N |-> 1, PV |-> 2, H |-> 4, Z |-> 6, S |-> 7]
FlagByte(f) == FromBits({FlagBits[x] : x \in f})
FlagsOf(x) == {name \in Flags : FlagBits[name] \in BitsOf(x)}

Register(s, r) ==
  CASE r \in {"A", "I"} -> s[r]
    [] r \in DOMAIN HighPart -> High(s[HighPart[r]])
    [] r \in DOMAIN LowPart -> Low(s[LowPart[r]])

SetRegister(s, r, x) ==
  CASE r \in {"A", "I"} -> [s EXCEPT ![r] = x]
    [] r \in DOMAIN HighPart -> [s EXCEPT ![HighPart[r]] = 256 * x + Low(@)]
    [] r \in DOMAIN LowPart -> [s EXCEPT ![LowPart[r]] = 256 * High(@) + x]

WideRegister(s, rr) == IF rr = "AF" THEN 256 * s.A + FlagByte(s.F) ELSE s[rr]
SetWideRegister(s, rr, w) ==
  IF rr = "AF" THEN [s EXCEPT !.A = High(w), !.F = FlagsOf(Low(w))]
               ELSE [s EXCEPT ![rr] = w]

\* The address of an operand in memory, and the byte or word of an operand.
Address(s, o) == IF o.at = "pair" THEN Plus(s[o.rr], o.d) ELSE o.nn
Operand(s, o) ==
  CASE o.at = "register" -> Register(s, o.r)
    [] o.at = "immediate" -> o.n
    [] OTHER -> mem[Address(s, o)]
WideAt(w) == mem[w] + 256 * mem[Plus(w, 1)]
WideOperand(s, o) ==
  CASE o.at = "register" -> WideRegister(s, o.rr)
    [] o.at = "immediate" -> o.nn
    [] o.at = "absolute" -> WideAt(o.nn)

\* The registers and the memory after a byte is put in an operand.
PutRegister(s, o, x) == IF o.at = "register" THEN SetRegister(s, o.r, x) ELSE s
PutMemory(s, o, x) ==
  IF o.at = "register" THEN mem ELSE [mem EXCEPT ![Address(s, o)] = x]

Push(s, w, m) ==
  [m EXCEPT ![Plus(s.SP, -1)] = High(w), ![Plus(s.SP, -2)] = Low(w)]

\* PO, PE, P and M are the wrong way round in the code.
Condition(f, condition) ==
  CASE condition = "always" -> TRUE
    [] condition = "NZ" -> "Z" \notin f
    [] condition = "Z" -> "Z" \in f
    [] condition = "NC" -> "C" \notin f
    [] condition = "C" -> "C" \in f
    [] condition = "PO" -> "PV" \in f
    [] condition = "PE" -> "PV" \notin f
    [] condition = "P" -> "S" \in f
    [] condition = "M" -> "S" \notin f

-----------------------------------------------------------------------------
\* One step.  main.rs steps the machine until it halts.
Running == ~panicked /\ ~cpu.halted

\* The enable that EI left pending takes effect, and the instruction is fetched.
Woken ==
  IF cpu.enable_interrupts_next_cycle
  THEN [cpu EXCEPT !.iff1 = TRUE, !.iff2 = TRUE,
                   !.enable_interrupts_next_cycle = FALSE]
  ELSE cpu
Insn == Code(guest)[cpu.PC]
Fetched == [Woken EXCEPT !.PC = Plus(@, Insn.len)]

\* do_irq(), after the instruction has made new registers and new memory.
Finish(new, m) ==
  \/ ~line' /\ cpu' = new /\ mem' = m /\ UNCHANGED panicked
  \/ /\ line' /\ ~new.iff1
     /\ cpu' = [new EXCEPT !.halted = FALSE]
     /\ mem' = m /\ UNCHANGED panicked
  \/ /\ line' /\ new.iff1 /\ new.interrupt_mode = "one"
     /\ cpu' = [new EXCEPT !.halted = FALSE, !.iff1 = FALSE, !.iff2 = FALSE,
                           !.SP = Plus(@, -2), !.PC = 56]
     /\ mem' = Push(new, new.PC, m)
     /\ UNCHANGED panicked
  \/ /\ line' /\ new.iff1 /\ new.interrupt_mode # "one"
     /\ cpu' = [new EXCEPT !.halted = FALSE, !.iff1 = FALSE, !.iff2 = FALSE]
     /\ mem' = m /\ panicked' = TRUE

\* The instructions `ops' turn the registers into `new' and the memory into `m'.
Execute(ops, new, m) ==
  /\ Running /\ Insn.op \in ops
  /\ UNCHANGED <<guest, line, raised, output>>
  /\ Finish(new, m)

-----------------------------------------------------------------------------
\* Loads.
Load ==
  LET x == Operand(Fetched, Insn.src)
  IN  Execute({"ld"}, PutRegister(Fetched, Insn.dst, x), PutMemory(Fetched, Insn.dst, x))

LoadWide ==
  LET w == WideOperand(Fetched, Insn.src)
      at == Insn.dst.nn
  IN  \/ /\ Insn.op = "ld16" /\ Insn.dst.at = "register"
         /\ Execute({"ld16"}, SetWideRegister(Fetched, Insn.dst.rr, w), mem)
      \/ /\ Insn.op = "ld16" /\ Insn.dst.at = "absolute"
         /\ Execute({"ld16"}, Fetched,
                    [mem EXCEPT ![at] = Low(w), ![Plus(at, 1)] = High(w)])

\* LD A,I shows iff2 as the parity flag.
LoadAI ==
  Execute({"ld_a_i"},
          [Fetched EXCEPT !.A = Fetched.I,
             !.F = (@ \cap {"C"}) \cup SignZero(Fetched.I)
                     \cup When("PV", Fetched.iff2)],
          mem)

ExchangeAF ==
  Execute({"ex_af"},
          [Fetched EXCEPT !.A = Fetched.prime.A, !.F = Fetched.prime.F,
                          !.prime.A = Fetched.A, !.prime.F = Fetched.F], mem)

ExchangeExtra ==
  Execute({"exx"},
          [Fetched EXCEPT !.BC = Fetched.prime.BC, !.DE = Fetched.prime.DE,
                          !.HL = Fetched.prime.HL, !.prime.BC = Fetched.BC,
                          !.prime.DE = Fetched.DE, !.prime.HL = Fetched.HL], mem)

ExchangeDEHL ==
  Execute({"ex_de_hl"}, [Fetched EXCEPT !.DE = Fetched.HL, !.HL = Fetched.DE], mem)

-----------------------------------------------------------------------------
\* Arithmetic.
ArithmeticA ==
  LET r == Arithmetic(Insn.op, Fetched.A, Operand(Fetched, Insn.src), Fetched.F)
  IN  Execute({"add", "adc", "sub", "sbc", "and", "xor", "or", "cp"},
              [Fetched EXCEPT !.A = r.x, !.F = r.f], mem)

AccumulatorOnly ==
  LET r == AdjustA(Insn.how, Fetched.A, Fetched.F)
  IN  Execute({"a"}, [Fetched EXCEPT !.A = r.x, !.F = r.f], mem)

\* A result goes back to its operand, and for the indexed forms of the CB table
\* to a register as well.
Update(ops, r) ==
  LET s == [Fetched EXCEPT !.F = r.f]
  IN  Execute(ops, IF Insn.copy = "none" THEN PutRegister(s, Insn.dst, r.x)
                                         ELSE SetRegister(s, Insn.copy, r.x),
              PutMemory(Fetched, Insn.dst, r.x))

Before == Operand(Fetched, Insn.dst)

Increment == Update({"inc"}, Inc(Before, Fetched.F))
Decrement == Update({"dec"}, Dec(Before, Fetched.F))
ShiftOperand == Update({"shift"}, Shift(Insn.how, Before, Fetched.F))
ResetOperand == Update({"res"}, [x |-> ResetBit(Insn.bit, Before), f |-> Fetched.F])
SetOperand == Update({"set"}, [x |-> SetBit(Insn.bit, Before), f |-> Fetched.F])

TestOperand ==
  Execute({"bit"}, [Fetched EXCEPT !.F = TestBit(Insn.bit, Before, @)], mem)

RotateDigits ==
  LET data == mem[Fetched.HL]
      r == IF Insn.how = "rld" THEN Rld(Fetched.A, data, Fetched.F)
                               ELSE Rrd(Fetched.A, data, Fetched.F)
  IN  Execute({"digits"}, [Fetched EXCEPT !.A = r.x, !.F = r.f],
              [mem EXCEPT ![Fetched.HL] = r.m])

CountWide ==
  Execute({"inc16", "dec16"},
          [Fetched EXCEPT ![Insn.rr] = Plus(@, IF Insn.op = "inc16" THEN 1 ELSE -1)],
          mem)

ArithmeticPair ==
  LET r == ArithmeticWide(Insn.how, Fetched[Insn.rr], Fetched[Insn.src], Fetched.F)
  IN  Execute({"wide"}, [Fetched EXCEPT ![Insn.rr] = r.x, !.F = r.f], mem)

-----------------------------------------------------------------------------
\* Jumps and the stack.
Jump ==
  Execute({"jp"}, IF Condition(Fetched.F, Insn.cc) THEN [Fetched EXCEPT !.PC = Insn.nn]
                                                   ELSE Fetched, mem)

JumpRelative ==
  Execute({"jr"}, IF Condition(Fetched.F, Insn.cc)
                  THEN [Fetched EXCEPT !.PC = Plus(@, Insn.e)] ELSE Fetched, mem)

\* The word that the pair points at is where the code jumps, not the pair.
JumpIndirect ==
  Execute({"jp_(rr)"}, [Fetched EXCEPT !.PC = WideAt(Fetched[Insn.rr])], mem)

Djnz ==
  LET s == SetRegister(Fetched, "B", (Register(Fetched, "B") + 255) % 256)
  IN  Execute({"djnz"}, IF Register(s, "B") > 0 THEN [s EXCEPT !.PC = Plus(@, Insn.e)]
                                                ELSE s, mem)

Call ==
  LET taken == Condition(Fetched.F, Insn.cc)
  IN  Execute({"call"},
              IF taken THEN [Fetched EXCEPT !.SP = Plus(@, -2), !.PC = Insn.nn]
                       ELSE Fetched,
              IF taken THEN Push(Fetched, Fetched.PC, mem) ELSE mem)

Popped(s) == [s EXCEPT !.SP = Plus(@, 2)]
Returned(s) == [Popped(s) EXCEPT !.PC = WideAt(s.SP)]

Return ==
  Execute({"ret"}, IF Condition(Fetched.F, Insn.cc) THEN Returned(Fetched) ELSE Fetched,
          mem)

\* RETI and RETN do the same.
ReturnFromInterrupt ==
  Execute({"reti", "retn"}, [Returned(Fetched) EXCEPT !.iff1 = Fetched.iff2], mem)

Reset ==
  Execute({"rst"}, [Fetched EXCEPT !.SP = Plus(@, -2), !.PC = Insn.nn],
          Push(Fetched, Fetched.PC, mem))

PushRegister ==
  Execute({"push"}, [Fetched EXCEPT !.SP = Plus(@, -2)],
          Push(Fetched, WideRegister(Fetched, Insn.rr), mem))

Pop ==
  Execute({"pop"}, SetWideRegister(Popped(Fetched), Insn.rr, WideAt(Fetched.SP)), mem)

ExchangeStack ==
  Execute({"ex_(sp)"}, [Fetched EXCEPT ![Insn.rr] = WideAt(Fetched.SP)],
          Push(Popped(Fetched), Fetched[Insn.rr], mem))

-----------------------------------------------------------------------------
\* The block instructions; a repeating one goes back over its two bytes.

\* Fault: a repeated copy goes on past its instruction.
AgainFromNext(s, more) == s

Again(s, more) == IF more THEN [s EXCEPT !.PC = Plus(@, -2)] ELSE s
Sign == IF Insn.up THEN 1 ELSE -1

BlockCopy ==
  LET s == [Fetched EXCEPT !.HL = Plus(@, Sign), !.DE = Plus(@, Sign),
                           !.BC = Plus(@, -1)]
      done == [s EXCEPT !.F = CopyFlags(s.BC, @)]
  IN  Execute({"ldi"}, Again(done, Insn.repeat /\ s.BC # 0),
              [mem EXCEPT ![Fetched.DE] = mem[Fetched.HL]])

BlockSearch ==
  LET s == [Fetched EXCEPT !.HL = Plus(@, Sign), !.BC = Plus(@, -1)]
      done == [s EXCEPT !.F = SearchFlags(s.A, mem[Fetched.HL], s.BC, @)]
  IN  Execute({"cpi"}, Again(done, Insn.repeat /\ s.BC # 0 /\ "Z" \notin done.F), mem)

\* One port byte counted in B; an output counts first.
BlockPort(s) ==
  LET b == (Register(s, "B") + 255) % 256
      t == SetRegister([s EXCEPT !.HL = Plus(@, Sign)], "B", b)
  IN  Again([t EXCEPT !.F = PortBlockFlags(b, @)], Insn.repeat /\ b # 0)

-----------------------------------------------------------------------------
\* The ports.  The system decodes the low byte of the address.
Receive(port, new, m) ==
  /\ line' = (line /\ port # Acknowledge)
  /\ UNCHANGED <<guest, raised, output>>
  /\ Finish(new, m)

Send(port, data, new) ==
  /\ output' = Append(output, [port |-> port, data |-> data])
  /\ UNCHANGED <<guest, line, raised>>
  /\ Finish(new, mem)

Input ==
  /\ Running
  /\ \E data \in Inputs :
       \/ /\ Insn.op = "in_a_(n)"
          /\ Receive(Insn.n, [Fetched EXCEPT !.A = data], mem)
       \/ /\ Insn.op = "in"
          /\ Receive(Register(Fetched, "C"),
                     SetRegister([Fetched EXCEPT !.F = InputFlags(data, @)], Insn.r, data),
                     mem)
       \/ /\ Insn.op = "in_(c)"
          /\ Receive(Register(Fetched, "C"), Fetched, mem)
       \/ /\ Insn.op = "ini"
          /\ Receive(Register(Fetched, "C"), BlockPort(Fetched),
                     [mem EXCEPT ![Fetched.HL] = data])

Output ==
  /\ Running
  /\ \/ /\ Insn.op = "out_(n)_a"
        /\ Send(Insn.n, Fetched.A, Fetched)
     \/ /\ Insn.op = "out"
        /\ Send(Register(Fetched, "C"), Operand(Fetched, Insn.src), Fetched)
     \/ /\ Insn.op = "outi"
        /\ Send(Register(Fetched, "C"), mem[Fetched.HL], BlockPort(Fetched))

-----------------------------------------------------------------------------
\* Control.
Nop == Execute({"nop"}, Fetched, mem)

\* Fault: HALT is executed again and again, and nobody is told.
HaltUntold == Execute({"halt"}, [Fetched EXCEPT !.PC = Plus(@, -1)], mem)

Halt == Execute({"halt"}, [Fetched EXCEPT !.halted = TRUE, !.PC = Plus(@, -1)], mem)

\* Fault: the first flip-flop is left alone.
DisableSecond == Execute({"di"}, [Fetched EXCEPT !.iff2 = FALSE], mem)

\* Fault: the interrupts are enabled at once.
EnableAtOnce == Execute({"ei"}, [Fetched EXCEPT !.iff1 = TRUE, !.iff2 = TRUE], mem)

DisableInterrupts == Execute({"di"}, [Fetched EXCEPT !.iff1 = FALSE, !.iff2 = FALSE], mem)
EnableInterrupts ==
  Execute({"ei"}, [Fetched EXCEPT !.enable_interrupts_next_cycle = TRUE], mem)
SetInterruptMode == Execute({"im"}, [Fetched EXCEPT !.interrupt_mode = Insn.mode], mem)

-----------------------------------------------------------------------------
Step ==
  \/ Load \/ LoadWide \/ LoadAI
  \/ ExchangeAF \/ ExchangeExtra \/ ExchangeDEHL
  \/ ArithmeticA \/ AccumulatorOnly
  \/ Increment \/ Decrement \/ ShiftOperand \/ ResetOperand \/ SetOperand
  \/ TestOperand \/ RotateDigits \/ CountWide \/ ArithmeticPair
  \/ Jump \/ JumpRelative \/ JumpIndirect \/ Djnz \/ Call \/ Return
  \/ ReturnFromInterrupt \/ Reset \/ PushRegister \/ Pop \/ ExchangeStack
  \/ BlockCopy \/ BlockSearch \/ Input \/ Output
  \/ Nop \/ Halt \/ DisableInterrupts \/ EnableInterrupts \/ SetInterruptMode

\* A device raises its interrupt and keeps it up until it is acknowledged.
Raise ==
  /\ ~line /\ raised < Raises /\ Running
  /\ line' = TRUE
  /\ raised' = raised + 1
  /\ UNCHANGED <<guest, cpu, mem, output, panicked>>

Next == Step \/ Raise

\* main.rs steps the machine for as long as it runs.
Spec == Init /\ [][Next]_vars /\ WF_vars(Step)
=============================================================================
