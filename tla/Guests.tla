------------------------------- MODULE Guests -------------------------------
(***************************************************************************)
(* Guest programs for `Cpu', with an interrupt handler that counts, and    *)
(* what they promise however often and wherever they are interrupted.      *)
(* A listing is assembled at an address; `to' is the number of the line a  *)
(* jump goes to.                                                           *)
(***************************************************************************)
EXTENDS Cpu

\* The ports, and the addresses of what the programs work on.
KbPort == 2
Text == 4096
Copy == 4104
Table == 4112
Ticks == 4114
Stack == 65516 .. 65535

\* A jump to a line, whose address is still to be put in.
Branch(op, cc, to, len) ==
  [op |-> op, len |-> len, cc |-> cc, to |-> to, nn |-> 0, e |-> 0]

\* The address of each line of a listing, and of the byte after it.
Places(base, listing) ==
  LET place[k \in 1 .. Len(listing) + 1] ==
        IF k = 1 THEN base ELSE place[k - 1] + listing[k - 1].len
  IN  place

\* The instruction of a line, with the addresses of the lines it names.
Linked(insn, next, place) ==
  IF "to" \in DOMAIN insn
  THEN [insn EXCEPT !.nn = place[insn.to], !.e = place[insn.to] - next]
  ELSE insn

\* The listing in memory.
Assemble(base, listing) ==
  LET place == Places(base, listing)
      Line(w) == CHOOSE k \in DOMAIN listing : place[k] = w
  IN  [w \in {place[k] : k \in DOMAIN listing} |->
         Linked(listing[Line(w)], place[Line(w) + 1], place)]

\* Two pieces of code that lie apart.
Beside(code, other) ==
  [w \in DOMAIN code \cup DOMAIN other |-> IF w \in DOMAIN code THEN code[w] ELSE other[w]]

-----------------------------------------------------------------------------
\* Interrupts are enabled, and the next instruction makes them safe.
Boot ==
  <<Plain("ei", 1), Im("one"),
    Jp("jp", "always", 256)>>

\* The handler counts the interrupt and acknowledges it.
Handler ==
  <<OnPair("push", "AF"), OnPair("push", "HL"),
    LdWide(RR("HL"), NN(Ticks), 3), OnByte("inc", Mem("HL", 0), 1),
    OnPort("in_a_(n)", Acknowledge),
    OnPair("pop", "HL"), OnPair("pop", "AF"), Plain("ei", 1), Plain("reti", 2)>>

\* hello.az8: the text is printed.
Hello ==
  <<LdWide(RR("HL"), NN(Text), 3), Ld(R("B"), N(3), 2),
    Branch("call", "always", 5, 3), Plain("halt", 1),
    Ld(R("A"), Mem("HL", 0), 1),                                   \* Print
    OnPort("out_(n)_a", KbPort), OnPair("inc16", "HL"),
    Branch("djnz", "always", 5, 2), Ret("always")>>

\* hello_hd.az8, KbWriteX: a byte is printed as two digits.
Hex ==
  <<Ld(R("A"), At(Text), 3), Branch("call", "always", 4, 3), Plain("halt", 1),
    Ld(R("C"), R("A"), 1),                                         \* KbWriteX
    OnA("rr"), OnA("rr"), OnA("rr"), OnA("rr"),
    Branch("call", "always", 11, 3), Ld(R("A"), R("C"), 1),
    Math("and", N(15), 2), Math("add", N(144), 2), OnA("daa"),     \* wr_low_nibble
    Math("adc", N(64), 2), OnA("daa"), OnPort("out_(n)_a", KbPort), Ret("always")>>

\* hello_hd.az8, the copy of its message: HL and DE take turns.
Copying ==
  <<LdWide(RR("HL"), NN(Text), 3), LdWide(RR("DE"), NN(Copy), 3), Ld(R("B"), N(3), 2),
    Ld(R("A"), Mem("HL", 0), 1), Plain("ex_de_hl", 1), Ld(Mem("HL", 0), R("A"), 1),
    Plain("ex_de_hl", 1), OnPair("inc16", "HL"), OnPair("inc16", "DE"),
    Branch("djnz", "always", 4, 2), Plain("halt", 1)>>

\* hello_hd.az8, HdBufIn: a buffer is filled from a port, and printed at once.
Filling ==
  <<LdWide(RR("DE"), NN(3), 3), LdWide(RR("HL"), NN(Text), 3),
    OnPort("in_a_(n)", 8), Ld(Mem("HL", 0), R("A"), 1), OnPort("out_(n)_a", KbPort),
    OnPair("inc16", "HL"), OnPair("dec16", "DE"), Ld(R("A"), R("D"), 1),
    Math("or", R("E"), 1), Branch("jp", "NZ", 3, 3), Plain("halt", 1)>>

\* The text moves down one byte and back up, and its last byte is searched for.
Blocks ==
  <<LdWide(RR("HL"), NN(Text), 3), LdWide(RR("DE"), NN(Text - 1), 3),
    LdWide(RR("BC"), NN(3), 3), Block("ldi", TRUE, TRUE),
    LdWide(RR("HL"), NN(Text + 1), 3), LdWide(RR("DE"), NN(Text + 2), 3),
    LdWide(RR("BC"), NN(3), 3), Block("ldi", FALSE, TRUE),
    LdWide(RR("HL"), NN(Text), 3), LdWide(RR("BC"), NN(8), 3),
    Ld(R("A"), At(Text + 2), 3), Block("cpi", TRUE, TRUE),
    LdWide(At(Copy), RR("HL"), 3), Plain("halt", 1)>>

\* A buffer is filled and printed by block input and output, then one more byte.
Ports ==
  <<LdWide(RR("HL"), NN(Text), 3), LdWide(RR("BC"), NN(3 * 256 + 8), 3),
    Block("ini", TRUE, TRUE),
    LdWide(RR("HL"), NN(Text), 3), LdWide(RR("BC"), NN(3 * 256 + KbPort), 3),
    Block("outi", TRUE, TRUE),
    LdWide(RR("BC"), NN(8), 3), Plain("in_(c)", 2), InC("D"),
    Ld(R("C"), N(KbPort), 2), Math("out", R("D"), 2),
    Ld(R("A"), R("D"), 1), Ld(At(Copy), R("A"), 3), Plain("halt", 1)>>

\* Everything is stacked and exchanged, and a table says where to go.
Stacking ==
  <<LdWide(RR("HL"), NN(4660), 3), LdWide(RR("BC"), NN(22136), 3),
    OnPair("push", "BC"), OnPair("ex_(sp)", "HL"), OnPair("pop", "BC"),
    Plain("exx", 1), Plain("ex_af", 1), Branch("call", "always", 14, 3),
    Plain("exx", 1), Plain("ex_af", 1),
    LdWide(At(Copy), RR("HL"), 3), LdWide(At(Copy + 2), RR("BC"), 4), Plain("halt", 1),
    Rst(8),
    LdWide(RR("HL"), NN(Table), 3), OnPair("jp_(rr)", "HL")>>

\* Two bytes are multiplied.
Multiply ==
  <<Ld(R("A"), At(Text), 3), Ld(R("E"), R("A"), 1), Ld(R("D"), N(0), 2),
    LdWide(RR("HL"), NN(0), 3), Ld(R("A"), At(Text + 1), 3), Ld(R("B"), N(8), 2),
    Wide("add", "HL", "HL"), OnA("rlc"), Branch("jr", "NC", 11, 2),
    Wide("add", "HL", "DE"), Branch("djnz", "always", 7, 2),
    LdWide(At(Copy), RR("HL"), 3), Plain("halt", 1)>>

\* The bits of a byte are reversed; then bit 0 is set, bit 7 reset, if it was set,
\* and the digits are moved into zeroes.
Bits ==
  <<LdWide(RR("HL"), NN(Text), 3), Ld(R("B"), N(8), 2),
    ShiftBy("srl", Mem("HL", 0)), ShiftBy("rl", R("C")), Branch("djnz", "always", 3, 2),
    Ld(Mem("HL", 0), R("C"), 1), OnBit("set", 0, Mem("HL", 0)),
    OnBit("bit", 7, Mem("HL", 0)), Branch("jr", "Z", 11, 2),
    OnBit("res", 7, Mem("HL", 0)),
    Math("xor", R("A"), 1), Digits("rld"),
    Ld(At(Copy), R("A"), 3), Plain("halt", 1)>>

\* The handler's count is raised with the interrupts disabled, which are enabled
\* again if they were before: LD A,I tells, and the code's PE is parity odd.
Critical ==
  <<Plain("ld_a_i", 2), OnPair("push", "AF"), Plain("di", 1),
    Ld(R("A"), At(Ticks), 3), OnByte("inc", R("A"), 1), Ld(At(Ticks), R("A"), 3),
    OnPair("pop", "AF"), Branch("jp", "PE", 10, 3), Plain("ei", 1),
    OnByte("dec", R("B"), 1), Plain("nop", 1), Plain("halt", 1)>>

\* A difference of bytes and one of words, and a shift that is copied to a register.
Indexed ==
  <<LdWide(RR("IX"), NN(Text + 1), 4), Ld(R("A"), Mem("IX", 0), 3),
    Math("sub", Mem("IX", -1), 3), Ld(At(Copy), R("A"), 3),
    [ShiftBy("rlc", Mem("IX", 1)) EXCEPT !.copy = "B", !.len = 4],
    Ld(R("A"), R("B"), 1), Ld(At(Copy + 1), R("A"), 3),
    LdWide(RR("HL"), At(Text), 3), LdWide(RR("DE"), At(Text + 1), 4),
    Math("or", R("A"), 1), Wide("sbc", "HL", "DE"),
    LdWide(At(Copy + 2), RR("HL"), 3), Plain("halt", 1)>>

Listing ==
  [hello |-> Hello, hex |-> Hex, copying |-> Copying, filling |-> Filling,
   blocks |-> Blocks, ports |-> Ports, stacking |-> Stacking, multiply |-> Multiply,
   bits |-> Bits, critical |-> Critical, indexed |-> Indexed]

CodeOf ==
  [program \in DOMAIN Listing |->
     Beside(Beside(Assemble(0, Boot), Assemble(8, <<Ret("always")>>)),
            Beside(Assemble(56, Handler), Assemble(256, Listing[program])))]
GuestCode(g) == CodeOf[g.program]

\* The data: the parameters x and y, a third byte, and the table.
GuestData(g) ==
  [w \in (Text - 1 .. Ticks) \cup Stack |->
     CASE w = Text -> g.x [] w = Text + 1 -> g.y [] w = Text + 2 -> 111
       [] w = Table -> 8 [] OTHER -> 0]

-----------------------------------------------------------------------------
\* What the programs promise.
Digit(n) == IF n < 10 THEN 48 + n ELSE 55 + n
Sent == [k \in DOMAIN output |-> output[k].data]
Reversed(b) == FromBits({7 - k : k \in BitsOf(b)})

Kept(b) == ResetBit(7, SetBit(0, Reversed(b)))

Promise(g) ==
  CASE g.program = "hello" -> Sent = <<g.x, g.y, 111>>
    [] g.program = "hex" -> Sent = <<Digit(g.x \div 16), Digit(g.x % 16)>>
    [] g.program = "copying" -> \A k \in 0 .. 2 : mem[Copy + k] = mem[Text + k]
    [] g.program = "filling" -> Sent = [k \in 1 .. 3 |-> mem[Text + k - 1]]
    [] g.program = "ports" ->
         Sent = <<mem[Text], mem[Text + 1], mem[Text + 2], mem[Copy]>>
    [] g.program = "blocks" ->
         /\ mem[Text - 1] = g.x /\ mem[Text] = g.x
         /\ mem[Text + 1] = g.y /\ mem[Text + 2] = 111
         /\ WideAt(Copy) = IF g.x = 111 THEN Text + 1
                           ELSE IF g.y = 111 THEN Text + 2 ELSE Text + 3
    [] g.program = "stacking" -> WideAt(Copy) = 22136 /\ WideAt(Copy + 2) = 4660
    [] g.program = "multiply" -> WideAt(Copy) = g.x * g.y
    [] g.program = "bits" ->
         /\ mem[Copy] = Kept(g.x) \div 16
         /\ mem[Text] = 16 * (Kept(g.x) % 16)
    [] g.program = "critical" -> cpu.iff1 /\ cpu.iff2
    [] g.program = "indexed" ->
         /\ mem[Copy] = (g.y - g.x) % 256 /\ mem[Copy + 1] = 222
         /\ WideAt(Copy + 2) = (WideAt(Text) - WideAt(Text + 1)) % 65536

\* A program that has halted has done what it promises, wherever it was interrupted:
\* an interrupt is taken between two instructions, and between two rounds of a
\* repeated one, and leaves no trace (cpu/mod.rs:2092-2140).
PromiseKept == cpu.halted => Promise(guest)

\* Every interrupt raised is served exactly once, and a count that the handler and
\* the program share loses nothing, the program's part being under DI
\* (cpu/mod.rs:951-968, 2110-2140).
Own == IF guest.program = "critical" THEN 1 ELSE 0
EachServedOnce == cpu.halted => mem[Ticks] = raised + Own

\* The handler never interrupts itself: EI takes effect so late that RETI has
\* emptied the stack (cpu/mod.rs:2092-2099).
Deepest == [hello |-> 2, hex |-> 4, copying |-> 0, filling |-> 0, blocks |-> 0, ports |-> 0,
            stacking |-> 4, multiply |-> 0, bits |-> 0, critical |-> 2, indexed |-> 0]
StackBounded == (65536 - cpu.SP) % 65536 <= Deepest[guest.program] + 6

\* No interrupt comes before its mode is set, although it is set after EI.
NoUnimplementedMode == ~panicked

\* Every program halts, interrupted or not.
ProgramHalts == <>cpu.halted
=============================================================================
