-------------------------- MODULE GuestAssertions ---------------------------
(***************************************************************************)
(* What holds at every line of the guest programs: the assertions from     *)
(* which GuestProofs concludes that they keep their promises.              *)
(*                                                                         *)
(* An interrupt leaves no trace: while its handler runs there are the      *)
(* registers `u' and the memory `v' that the program had when it came, and *)
(* will have again.  The assertions are about these.                       *)
(***************************************************************************)
EXTENDS Guests

\* The memory: bytes in the cells that the programs use.
Cells == (Text - 1 .. Ticks) \cup Stack
Store == [Cells -> Byte]

\* Where the stack pointer of a program may be, as deep as the programs call.
Levels == {0, 65534, 65532}

\* The top of the stack, and what the handler may write over: the six bytes below
\* it, and its count.
Top(u) == IF u.SP = 0 THEN 65536 ELSE u.SP
Scratch(u) == Top(u) - 6 .. Top(u) - 1
Alike(u, v, w) == \A c \in Cells : c \in Scratch(u) \/ c = Ticks \/ w[c] = v[c]

Holds(m, c, w) == m[c] = Low(w) /\ m[c + 1] = High(w)

\* Between two instructions of a program.
Sane(u) ==
  /\ u \in CpuState /\ u.SP \in Levels
  /\ u.iff2 = u.iff1
  /\ u.iff1 => ~u.enable_interrupts_next_cycle /\ u.interrupt_mode = "one"

\* The bytes that the handler has on the stack, at each of its lines.
HandlerLines == {56, 57, 58, 61, 62, 64, 65, 66, 67}
Depth(w) == IF w \in {56, 66, 67} THEN 2 ELSE IF w \in {57, 65} THEN 4 ELSE 6

\* The registers that the handler does not use.
Spared(s, u) ==
  /\ s.BC = u.BC /\ s.DE = u.DE /\ s.IX = u.IX /\ s.IY = u.IY /\ s.I = u.I
  /\ s.prime = u.prime /\ s.interrupt_mode = u.interrupt_mode

\* The handler runs, with the registers s, the memory m and the interrupt line l, and
\* returns to u and v.
Serving(s, m, l, u, v) ==
  LET w == s.PC
  IN  /\ u.iff1 /\ ~u.halted
      /\ w \in HandlerLines
      /\ s \in CpuState /\ s.SP = Top(u) - Depth(w) /\ Spared(s, u)
      /\ ~s.iff1 /\ ~s.iff2 /\ ~s.halted
      /\ s.enable_interrupts_next_cycle <=> w = 67
      /\ Alike(u, v, m)
      /\ Holds(m, Top(u) - 2, u.PC)
      /\ w \in {56, 66, 67} => s.A = u.A /\ s.F = u.F
      /\ w \notin {56, 66, 67} => m[Top(u) - 3] = u.A /\ m[Top(u) - 4] = FlagByte(u.F)
      /\ w \in {58, 61, 62, 64} => Holds(m, Top(u) - 6, u.HL)
      /\ w \notin {58, 61, 62, 64} => s.HL = u.HL
      /\ w \in {61, 62} => s.HL = Ticks
      /\ w \in {56, 57, 58, 61, 62} => l
Interrupted(u, v) == Serving(cpu, mem, line, u, v)

-----------------------------------------------------------------------------
\* The bytes of the pairs.
OfB(u) == High(u.BC)
OfC(u) == Low(u.BC)
OfD(u) == High(u.DE)
OfE(u) == Low(u.DE)

TextIs(v, b1, b2, b3) == v[Text] = b1 /\ v[Text + 1] = b2 /\ v[Text + 2] = b3

\* The first k of three bytes have been written.
Sends(o, k, b1, b2, b3) ==
  /\ Len(o) = k
  /\ k >= 1 => o[1].data = b1
  /\ k >= 2 => o[2].data = b2
  /\ k >= 3 => o[3].data = b3

Original(g, v) == TextIs(v, g.x, g.y, 111) /\ v[Table] = 8 /\ v[Table + 1] = 0

BootAt(g, u, v, o) ==
  /\ u.PC \in {0, 1, 3} /\ u.SP = 0 /\ ~u.halted
  /\ o = <<>> /\ Original(g, v)
  /\ u.PC \in {0, 1} => ~u.iff1
  /\ u.PC = 0 => ~u.enable_interrupts_next_cycle
  /\ u.PC = 1 => u.enable_interrupts_next_cycle
  /\ u.PC = 3 => u.iff1

HelloAt(g, u, v, o) ==
  LET b == OfB(u)
      Printed(k) == Sends(o, k, g.x, g.y, 111)
  IN /\ u.iff1 /\ TextIs(v, g.x, g.y, 111)
     /\ u.halted => u.PC = 264
     /\ \/ u.PC \in {256, 259, 261, 264} /\ u.SP = 0
        \/ u.PC \in {265, 266, 268, 269, 271} /\ u.SP = 65534 /\ Holds(v, 65534, 264)
     /\ u.PC \in {256, 259, 261} => Printed(0)
     /\ u.PC \in {259, 261} => u.HL = Text
     /\ u.PC = 261 => b = 3
     /\ u.PC \in {265, 266} => b \in 1 .. 3 /\ u.HL = Text + 3 - b /\ Printed(3 - b)
     /\ u.PC = 266 => u.A = v[u.HL]
     /\ u.PC = 268 => b \in 1 .. 3 /\ u.HL = Text + 3 - b /\ Printed(4 - b)
     /\ u.PC = 269 => b \in 1 .. 3 /\ u.HL = Text + 4 - b /\ Printed(4 - b)
     /\ u.PC \in {264, 271} => Printed(3)

HexAt(g, u, v, o) ==
  LET high == g.x \div 16
      n == IF u.SP = 65532 THEN high ELSE g.x % 16
      Printed(k) == Sends(o, k, Digit(high), Digit(g.x % 16), 0)
  IN /\ u.iff1
     /\ v[Text] = g.x
     /\ u.halted => u.PC = 262
     /\ \/ u.PC \in {256, 259} /\ u.SP = 0 /\ Printed(0)
        \/ u.PC = 262 /\ u.SP = 0 /\ Printed(2)
        \/ u.PC \in {263, 264, 265, 266, 267, 268} /\ u.SP = 65534 /\ Printed(0)
        \/ u.PC = 271 /\ u.SP = 65534 /\ Printed(1)
        \/ u.PC \in {272, 274, 276, 277, 279, 280, 282} /\ u.SP \in {65532, 65534}
     /\ u.SP \in {65532, 65534} => Holds(v, 65534, 262)
     /\ u.SP = 65532 => Holds(v, 65532, 271)
     /\ u.PC \in {259, 263, 264} => u.A = g.x
     /\ u.PC \in 264 .. 271 \/ u.SP = 65532 => OfC(u) = g.x
     /\ u.PC = 265 => u.A % 128 = g.x \div 2
     /\ u.PC = 266 => u.A % 64 = g.x \div 4
     /\ u.PC = 267 => u.A % 32 = g.x \div 8
     /\ u.PC = 268 => u.A % 16 = high
     /\ u.PC = 272 => u.A % 16 = n
     /\ u.PC = 274 => u.A = n
     /\ u.PC = 276 => u.A = 144 + n /\ u.F \cap {"N", "H", "C"} = {}
     /\ u.PC = 277 => IF n < 10 THEN u.A = 144 + n /\ "C" \notin u.F
                                ELSE u.A = n - 10 /\ "C" \in u.F
     /\ u.PC = 279 => /\ u.F \cap {"N", "H", "C"} = {}
                      /\ u.A = IF n < 10 THEN 208 + n ELSE 55 + n
     /\ u.PC = 280 => u.A = Digit(n)
     /\ u.PC \in {272, 274, 276, 277, 279, 280} => Printed(IF u.SP = 65532 THEN 0 ELSE 1)
     /\ u.PC = 282 => Printed(IF u.SP = 65532 THEN 1 ELSE 2)

CopyingAt(g, u, v, o) ==
  LET b == OfB(u)
      Copied(k) == /\ k >= 1 => v[Copy] = v[Text]
                   /\ k >= 2 => v[Copy + 1] = v[Text + 1]
                   /\ k >= 3 => v[Copy + 2] = v[Text + 2]
      At2(from, to, k) == b \in 1 .. 3 /\ from = Text + k /\ to = Copy + k
  IN /\ u.iff1 /\ u.SP = 0
     /\ u.halted => u.PC = 272
     /\ u.PC \in {256, 259, 262, 264, 265, 266, 267, 268, 269, 270, 272}
     /\ u.PC \in {259, 262} => u.HL = Text
     /\ u.PC = 262 => u.DE = Copy
     /\ u.PC \in {264, 265, 268} => At2(u.HL, u.DE, 3 - b)
     /\ u.PC \in {266, 267} => At2(u.DE, u.HL, 3 - b)
     /\ u.PC \in {264, 265, 266} => Copied(3 - b)
     /\ u.PC = 265 => u.A = v[u.HL]
     /\ u.PC = 266 => u.A = v[u.DE]
     /\ u.PC = 269 => At2(u.HL, u.DE + 1, 4 - b)
     /\ u.PC = 270 => At2(u.HL, u.DE, 4 - b)
     /\ u.PC \in {267, 268, 269, 270} => Copied(4 - b)
     /\ u.PC = 272 => Copied(3)

FillingAt(g, u, v, o) ==
  LET Printed(k) == Sends(o, k, v[Text], v[Text + 1], v[Text + 2])
      d == u.DE
  IN /\ u.iff1 /\ u.SP = 0
     /\ u.halted => u.PC = 274
     /\ u.PC \in {256, 259, 262, 264, 265, 267, 268, 269, 270, 271, 274}
     /\ u.PC \in {256, 259} => Printed(0)
     /\ u.PC = 259 => d = 3
     /\ u.PC \in {262, 264, 265} => d \in 1 .. 3 /\ u.HL = Text + 3 - d /\ Printed(3 - d)
     /\ u.PC = 265 => v[u.HL] = u.A
     /\ u.PC = 267 => d \in 1 .. 3 /\ u.HL = Text + 3 - d /\ Printed(4 - d)
     /\ u.PC = 268 => d \in 1 .. 3 /\ u.HL = Text + 4 - d /\ Printed(4 - d)
     /\ u.PC \in {269, 270, 271} => d \in 0 .. 2 /\ u.HL = Text + 3 - d /\ Printed(3 - d)
     /\ u.PC = 270 => u.A = 0
     /\ u.PC = 271 => ("Z" \in u.F <=> d = 0)
     /\ u.PC = 274 => Printed(3)

BlocksAt(g, u, v, o) ==
  LET n == u.BC
      found == IF g.x = 111 THEN 1 ELSE IF g.y = 111 THEN 2 ELSE 3
      Down(k) == /\ IF k >= 1 THEN v[Text - 1] = g.x ELSE TRUE
                 /\ v[Text] = IF k >= 2 THEN g.y ELSE g.x
                 /\ v[Text + 1] = IF k >= 3 THEN 111 ELSE g.y
                 /\ v[Text + 2] = 111
      Up(k) == /\ v[Text - 1] = g.x
               /\ v[Text] = IF k >= 3 THEN g.x ELSE g.y
               /\ v[Text + 1] = IF k >= 2 THEN g.y ELSE 111
               /\ v[Text + 2] = 111
  IN /\ u.iff1 /\ u.SP = 0
     /\ u.halted => u.PC = 292
     /\ u.PC \in {256, 259, 262, 265, 267, 270, 273, 276, 278, 281, 284, 287, 289, 292}
     /\ u.PC \in {256, 259, 262} => Down(0)
     /\ u.PC \in {259, 262} => u.HL = Text
     /\ u.PC = 262 => u.DE = Text - 1
     /\ u.PC = 265 => n \in 1 .. 3 /\ u.HL = Text + 3 - n /\ u.DE = Text + 2 - n /\ Down(3 - n)
     /\ u.PC \in {267, 270, 273} => Down(3)
     /\ u.PC \in {270, 273} => u.HL = Text + 1
     /\ u.PC = 273 => u.DE = Text + 2
     /\ u.PC = 276 => n \in 1 .. 3 /\ u.HL = Text + n - 2 /\ u.DE = Text + n - 1 /\ Up(3 - n)
     /\ u.PC \in {278, 281, 284, 287, 289, 292} => Up(3)
     /\ u.PC \in {281, 284} => u.HL = Text
     /\ u.PC = 284 => n = 8
     /\ u.PC = 287 => u.A = 111 /\ n \in 6 .. 8 /\ u.HL = Text + 8 - n /\ 8 - n < found
     /\ u.PC = 289 => u.HL = Text + found
     /\ u.PC = 292 => Holds(v, Copy, Text + found)

PortsAt(g, u, v, o) ==
  LET b == OfB(u)
      Printed(k) == Sends(o, k, v[Text], v[Text + 1], v[Text + 2])
  IN /\ u.iff1 /\ u.SP = 0
     /\ u.halted => u.PC = 287
     /\ u.PC \in {256, 259, 262, 264, 267, 270, 272, 275, 277, 279, 281, 283, 284, 287}
     /\ u.PC \in {256, 259, 262, 264, 267} => Len(o) = 0
     /\ u.PC \in {259, 267} => u.HL = Text
     /\ u.PC = 262 => b \in 1 .. 3 /\ OfC(u) = 8 /\ u.HL = Text + 3 - b
     /\ u.PC = 270 => b \in 1 .. 3 /\ OfC(u) = KbPort /\ u.HL = Text + 3 - b /\ Printed(3 - b)
     /\ u.PC \in {272, 275, 277, 279, 281} => Printed(3)
     /\ u.PC \in {275, 277} => OfC(u) = 8
     /\ u.PC = 281 => OfC(u) = KbPort
     /\ u.PC \in {283, 284, 287} =>
          /\ Len(o) = 4 /\ o[1].data = v[Text] /\ o[2].data = v[Text + 1] /\ o[3].data = v[Text + 2]
     /\ u.PC = 283 => o[4].data = OfD(u)
     /\ u.PC = 284 => o[4].data = u.A
     /\ u.PC = 287 => o[4].data = v[Copy]

StackingAt(g, u, v, o) ==
  /\ u.iff1 /\ v[Table] = 8 /\ v[Table + 1] = 0
  /\ u.halted => u.PC = 279
  /\ \/ u.PC \in {256, 259, 262, 265, 266, 267, 270, 271, 272, 275, 279} /\ u.SP = 0
     \/ u.PC = 263 /\ u.SP = 65534 /\ Holds(v, 65534, 22136)
     \/ u.PC = 264 /\ u.SP = 65534 /\ Holds(v, 65534, 4660)
     \/ u.PC \in {8, 280, 281, 284} /\ u.SP = 65534 /\ Holds(v, 65534, 270)
     \/ u.PC = 8 /\ u.SP = 65532 /\ Holds(v, 65534, 270) /\ Holds(v, 65532, 281)
  /\ u.PC \in {259, 262, 263} => u.HL = 4660
  /\ u.PC = 262 => u.BC = 22136
  /\ u.PC \in {264, 265, 271, 272} => u.HL = 22136
  /\ u.PC \in {265, 271, 272, 275} => u.BC = 4660
  /\ u.PC \in {8, 266, 267, 270, 280, 281, 284} => u.prime.HL = 22136 /\ u.prime.BC = 4660
  /\ u.PC = 284 => u.HL = Table
  /\ u.PC \in {275, 279} => Holds(v, Copy, 22136)
  /\ u.PC = 279 => Holds(v, Copy + 2, 4660)

MultiplyAt(g, u, v, o) ==
  LET b == OfB(u)
      Rotated(k) == u.A = ((g.y * 2 ^ k) % 256) + g.y \div 2 ^ (8 - k)
  IN /\ u.iff1 /\ u.SP = 0
     /\ u.halted => u.PC = 280
     /\ u.PC \in {256, 259, 260, 262, 265, 268, 270, 271, 272, 274, 275, 277, 280}
     /\ u.PC \in {256, 259, 260, 262, 265} => v[Text] = g.x /\ v[Text + 1] = g.y
     /\ u.PC = 259 => u.A = g.x
     /\ u.PC = 260 => OfE(u) = g.x
     /\ u.PC \in {262, 265, 268, 270, 271, 272, 274, 275} => u.DE = g.x
     /\ u.PC \in {265, 268} => u.HL = 0
     /\ u.PC = 268 => u.A = g.y
     /\ u.PC \in {270, 271, 272, 274, 275} => b \in 1 .. 8
     /\ u.PC = 270 => Rotated(8 - b) /\ u.HL = g.x * (g.y \div 2 ^ b)
     /\ u.PC = 271 => Rotated(8 - b) /\ u.HL = 2 * g.x * (g.y \div 2 ^ b)
     /\ u.PC \in {272, 274, 275} => Rotated(9 - b)
     /\ u.PC \in {272, 274} => u.HL = 2 * g.x * (g.y \div 2 ^ b)
     /\ u.PC = 272 => ("C" \in u.F <=> Bit(g.y, b - 1) = 1)
     /\ u.PC = 274 => Bit(g.y, b - 1) = 1
     /\ u.PC = 275 => u.HL = g.x * (g.y \div 2 ^ (b - 1))
     /\ u.PC = 277 => u.HL = g.x * g.y
     /\ u.PC = 280 => Holds(v, Copy, g.x * g.y)

BitsAt(g, u, v, o) ==
  LET b == OfB(u)
      Moved(k) == OfC(u) % 2 ^ k = Reversed(g.x) \div 2 ^ (8 - k)
      r == Reversed(g.x)
  IN /\ u.iff1 /\ u.SP = 0
     /\ u.halted => u.PC = 282
     /\ u.PC \in {256, 259, 261, 263, 265, 267, 268, 270, 272, 274, 276, 277, 279, 282}
     /\ u.PC \in {256, 259} => v[Text] = g.x
     /\ u.PC \in {259, 261, 263, 265, 267, 268, 270, 272, 274, 276, 277} => u.HL = Text
     /\ u.PC \in {261, 263, 265} => b \in 1 .. 8
     /\ u.PC = 261 => v[Text] = g.x \div 2 ^ (8 - b) /\ Moved(8 - b)
     /\ u.PC = 263 => /\ v[Text] = g.x \div 2 ^ (9 - b) /\ Moved(8 - b)
                      /\ ("C" \in u.F <=> Bit(g.x, 8 - b) = 1)
     /\ u.PC = 265 => v[Text] = g.x \div 2 ^ (9 - b) /\ Moved(9 - b)
     /\ u.PC = 267 => OfC(u) = r
     /\ u.PC = 268 => v[Text] = r
     /\ u.PC \in {270, 272, 274} => v[Text] = SetBit(0, r)
     /\ u.PC = 272 => ("Z" \in u.F <=> Bit(SetBit(0, r), 7) = 0)
     /\ u.PC \in {276, 277} => v[Text] = Kept(g.x)
     /\ u.PC = 277 => u.A = 0
     /\ u.PC \in {279, 282} => v[Text] = 16 * (Kept(g.x) % 16)
     /\ u.PC = 279 => u.A = Kept(g.x) \div 16
     /\ u.PC = 282 => v[Copy] = Kept(g.x) \div 16

CriticalAt(g, u, v, o) ==
  /\ u.halted => u.PC = 274
  /\ \/ u.PC \in {256, 258} /\ u.SP = 0 /\ u.iff1
     \/ u.PC = 259 /\ u.SP = 65534 /\ u.iff1
     \/ u.PC \in {260, 263, 264, 267} /\ u.SP = 65534 /\ ~u.iff1
     \/ u.PC \in {268, 271, 272} /\ u.SP = 0 /\ ~u.iff1
     \/ u.PC \in {273, 274} /\ u.SP = 0 /\ u.iff1
  /\ u.enable_interrupts_next_cycle => u.PC = 272
  /\ u.PC = 272 => u.enable_interrupts_next_cycle
  /\ u.interrupt_mode = "one"
  /\ u.PC = 258 => "PV" \in u.F
  /\ u.PC \in {259, 260, 263, 264, 267} => "PV" \in FlagsOf(v[65534])
  /\ u.PC = 268 => "PV" \in u.F
  /\ u.PC = 263 => u.A = v[Ticks]
  /\ u.PC = 264 => u.A = (v[Ticks] + 1) % 256

IndexedAt(g, u, v, o) ==
  /\ u.iff1 /\ u.SP = 0
  /\ u.halted => u.PC = 290
  /\ u.PC \in {256, 260, 263, 266, 269, 273, 274, 277, 280, 284, 285, 287, 290}
  /\ v[Text] = g.x /\ v[Text + 1] = g.y
  /\ v[Text + 2] = IF u.PC \in {256, 260, 263, 266, 269} THEN 111 ELSE 222
  /\ u.PC \in {260, 263, 266, 269} => u.IX = Text + 1
  /\ u.PC = 263 => u.A = g.y
  /\ u.PC = 266 => u.A = (g.y - g.x) % 256
  /\ u.PC \notin {256, 260, 263, 266} => v[Copy] = (g.y - g.x) % 256
  /\ u.PC = 273 => OfB(u) = 222
  /\ u.PC = 274 => u.A = 222
  /\ u.PC \in {277, 280, 284, 285, 287, 290} => v[Copy + 1] = 222
  /\ u.PC \in {280, 284, 285} => u.HL = g.x + 256 * g.y
  /\ u.PC \in {284, 285} => u.DE = g.y + 256 * 222
  /\ u.PC = 285 => "C" \notin u.F
  /\ u.PC = 287 => u.HL = (g.x + 256 * g.y - (g.y + 256 * 222)) % 65536
  /\ u.PC = 290 => Holds(v, Copy + 2, (g.x + 256 * g.y - (g.y + 256 * 222)) % 65536)

-----------------------------------------------------------------------------
ProgramAt(g, u, v, o) ==
  CASE g.program = "hello" -> HelloAt(g, u, v, o)
    [] g.program = "hex" -> HexAt(g, u, v, o)
    [] g.program = "copying" -> CopyingAt(g, u, v, o)
    [] g.program = "filling" -> FillingAt(g, u, v, o)
    [] g.program = "blocks" -> BlocksAt(g, u, v, o)
    [] g.program = "ports" -> PortsAt(g, u, v, o)
    [] g.program = "stacking" -> StackingAt(g, u, v, o)
    [] g.program = "multiply" -> MultiplyAt(g, u, v, o)
    [] g.program = "bits" -> BitsAt(g, u, v, o)
    [] g.program = "critical" -> CriticalAt(g, u, v, o)
    [] g.program = "indexed" -> IndexedAt(g, u, v, o)

Asserted(g, u, v, o) == BootAt(g, u, v, o) \/ ProgramAt(g, u, v, o)

\* The interrupts counted, and the one that the critical program counts itself.
Counts(g, u) == IF g.program = "critical" /\ u.PC \in 267 .. 274 THEN 1 ELSE 0
Pending == IF line /\ cpu.PC # 62 THEN 1 ELSE 0
Counted(u) == mem[Ticks] + Pending = raised + Counts(guest, u)

\* The count does not overflow, and the programs do not acknowledge by reading data.
Countable == Raises < 255 /\ Acknowledge # 8

GuestInv ==
  /\ guest \in Guests /\ mem \in Store /\ line \in BOOLEAN /\ raised \in 0 .. Raises
  /\ output \in Seq([port : Byte, data : Byte]) /\ panicked = FALSE
  /\ cpu.halted => ~line
  /\ \E u \in CpuState, v \in Store :
       /\ Sane(u) /\ Asserted(guest, u, v, output)
       /\ (cpu = u /\ mem = v) \/ Interrupted(u, v)
       /\ Countable => Counted(u)
=============================================================================
