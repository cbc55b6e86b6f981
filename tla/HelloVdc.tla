----------------------------- MODULE HelloVdc ------------------------------
(***************************************************************************)
(* A guest on the machine: software/hello_vdc.az8, which sets the video    *)
(* chip up, shows a message and moves the cursor on the key W until the    *)
(* key Q; or any guest, which uses memory and ports as it likes.           *)
(***************************************************************************)
EXTENDS Machine

CONSTANTS
  VdcInitValues,        \* VDC_INIT_VALUES: registers and values, in their order
  Charset,              \* CHARSET: the pixels of each character, by line
  HelloMsg,             \* HELLO_MSG: numbers of characters
  SetupCycles,          \* the cycles from one access to the next before the program
  LoopCycles,           \* reaches its loop, and from then on
  OtherCycles,          \* and in the other guest
  Ports, Data           \* of the other guest

ASSUME HelloAssumption ==
  /\ VdcInitValues \in Seq((0 .. 63) \X (0 .. 255))
  /\ Charset \in Seq(Seq(0 .. 255)) \ {<<>>}
  /\ \A k \in DOMAIN Charset : Len(Charset[k]) = Len(Charset[1])
  /\ HelloMsg \in Seq(0 .. 255)
  /\ {SetupCycles, LoopCycles, OtherCycles} \subseteq Nat \ {0}

\* What the registers of the sizes of a picture are worth: the columns, the rows, and
\* the lines and the pixels of a cell (vdc/mod.rs:309-320).
SizeRegisters == {0, 4, 9, 22}
Times(n, data) ==
  CASE n \in {0, 4} -> (data + 1) % 256
    [] n = 9 -> (data + 1) % 32
    [] n = 22 -> ((data \div 16) + 1) % 16

\* The table never sets one of them to nothing or to less than before
\* (hello_vdc.az8:140-165).
ASSUME GrowthAssumption ==
  \A j \in DOMAIN VdcInitValues : VdcInitValues[j][1] \in SizeRegisters =>
    /\ Times(VdcInitValues[j][1], VdcInitValues[j][2]) > 0
    /\ \A i \in 1 .. j - 1 :
         VdcInitValues[i][1] = VdcInitValues[j][1] =>
           Times(VdcInitValues[i][1], VdcInitValues[i][2])
             <= Times(VdcInitValues[j][1], VdcInitValues[j][2])

VARIABLES
  program,      \* "hello_vdc" or "any"
  at,           \* the next access of hello_vdc
  CurPos,       \* its variable
  halted        \* it has executed HALT, at which main.rs leaves its loop

vars == <<machineVars, program, at, CurPos, halted>>

-----------------------------------------------------------------------------
VDC_SEL == 64
VDC_STAT == 64
VDC_DATA == 65
KB_PORT == 2

OutTo(port, data) == [port |-> port, data |-> data]
InFrom(port) == [port |-> port]

\* VdcSel: the chip is always ready, so that its status is read once.
VdcSel(n) == <<OutTo(VDC_SEL, n), InFrom(VDC_STAT)>>
SetRegister(n, data) == Append(VdcSel(n), OutTo(VDC_DATA, data))
Send(bytes) == [k \in DOMAIN bytes |-> OutTo(VDC_DATA, bytes[k])]

\* Fault: the table is sent from its end.
VdcInitBackwards ==
  FlattenSeq([k \in DOMAIN VdcInitValues |->
    LET pair == VdcInitValues[Len(VdcInitValues) + 1 - k]
    IN  SetRegister(pair[1], pair[2])])

VdcInit ==
  FlattenSeq([k \in DOMAIN VdcInitValues |->
    SetRegister(VdcInitValues[k][1], VdcInitValues[k][2])])

\* DE counts characters but starts at the number of bytes of the table: zeroes
\* after its end are sent too.
Height(charset) == Len(charset[1])
CharsetBytes ==
  FlattenSeq([k \in 1 .. Len(Charset) * Height(Charset) |->
    [line \in 1 .. 16 |->
       IF k <= Len(Charset) /\ line <= Height(Charset) THEN Charset[k][line] ELSE 0]])

Hello ==
  SetRegister(18, 32) \o SetRegister(19, 0) \o VdcSel(31) \o Send(CharsetBytes)
    \o SetRegister(18, 0) \o SetRegister(19, 0) \o VdcSel(31) \o Send(HelloMsg)
    \o SetRegister(15, Len(HelloMsg))

Boot == VdcInit \o Hello
Exit == Len(Boot) + 1

\* The accesses of the program: its start, the keyboard, the cursor.
Access(k) ==
  CASE k < Exit -> Boot[k]
    [] k = Exit -> InFrom(KB_PORT)
    [] k > Exit ->
         (SetRegister(15, CurPos % 256) \o SetRegister(14, CurPos \div 256))[k - Exit]

\* SET 5,A makes a letter a small one.
LowerCase(byte) == IF (byte \div 32) % 2 = 0 THEN byte + 32 ELSE byte

Pace == IF at < Exit THEN SetupCycles ELSE LoopCycles

\* What the program does next.
Continue ==
  LET key == LowerCase(input')
  IN  IF at # Exit
      THEN /\ at' = IF at = Exit + 6 THEN Exit ELSE at + 1
           /\ UNCHANGED <<CurPos, halted>>
      ELSE /\ halted' = (key = 113)
           /\ CurPos' = IF key = 119 THEN (CurPos + 1) % 65536 ELSE CurPos
           /\ at' = IF key = 119 THEN Exit + 1 ELSE Exit

-----------------------------------------------------------------------------
Init ==
  /\ MachineInit
  /\ program \in {"hello_vdc", "any"}
  /\ at = 1 /\ CurPos = 0 /\ halted = FALSE

Running == ~Panicked /\ ~halted

HelloVdc ==
  /\ Running /\ program = "hello_vdc"
  /\ IF "data" \in DOMAIN Access(at)
     THEN Out(Access(at).port, Access(at).data, Pace)
     ELSE In(Access(at).port, Pace)
  /\ Continue
  /\ UNCHANGED program

AnyGuest ==
  /\ Running /\ program = "any"
  /\ \/ \E a \in Addresses :
          \/ Load(a, OtherCycles)
          \/ \E data \in Byte : Store(a, data, OtherCycles)
     \/ \E port \in Ports :
          \/ In(port, OtherCycles)
          \/ \E data \in Data : Device(port) # "VDC" /\ Out(port, data, OtherCycles)
  /\ UNCHANGED <<program, at, CurPos, halted>>

\* The user of the other guest leaves the keyboard alone.
Outside ==
  /\ ~halted /\ program = "hello_vdc" /\ Host
  /\ UNCHANGED <<program, at, CurPos, halted>>

Next == HelloVdc \/ AnyGuest \/ Outside

\* main.rs takes steps, and time passes, until it leaves its loop; nobody has to type.  The disjunction
\* is WF_vars(HelloVdc): the program can always step while it runs, and its steps
\* are the ones that move the raster.  (TLC would find ENABLED by running the chip.)
CanStep == Running /\ program = "hello_vdc"
Spec ==
  /\ Init /\ [][Next]_vars
  /\ []<>~CanStep \/ []<><<program = "hello_vdc">>_vdc
  /\ WF_vars(TimePasses /\ ~halted /\ program = "hello_vdc"
               /\ UNCHANGED <<program, at, CurPos, halted>>)

-----------------------------------------------------------------------------
\* Every byte typed is on its way to the guest or was given to it, once and in
\* the order typed, however the guest's reads and the polls of the host's queue
\* fall (kb.rs:34-46).
KeysInOrder == typed = delivered \o buffer \o FlattenSeq(pending)

\* The order in which the program sets the registers up never makes the chip
\* subtract below zero or paint outside of the framebuffer, although the raster
\* paints with half the registers set (vdc/mod.rs:324, 417-444, hello_vdc.az8:140-165).
NoPanic == program = "hello_vdc" => ~Panicked

\* The raster is never beyond the signal, whose end it finds by equality and from
\* where it would not come back (vdc/mod.rs:550-562).
RasterInside ==
  (program = "hello_vdc" /\ ~vdc.parameters_dirty) =>
    /\ vdc.raster_x < vdc.geometry.signal_width
    /\ vdc.raster_y < vdc.geometry.signal_height

\* What the program means to show, from its own tables: the message in rows of
\* characters, the cursor after it or where W has moved it, a border around.
Value(n) ==
  LET k == CHOOSE i \in DOMAIN VdcInitValues : VdcInitValues[i][1] = n
  IN  VdcInitValues[k][2]
InkColour == Value(26) \div 16
PaperColour == Value(26) % 16
CursorCell == IF CurPos = 0 THEN Len(HelloMsg) ELSE CurPos
Columns == Value(1)
Rows == Value(6)
Width == Value(22) % 16
Lit(cell, row, column) ==
  LET char == IF cell < Len(HelloMsg) THEN HelloMsg[cell + 1] ELSE 0
      dot == (Charset[char + 1][row + 1] \div 2 ^ (7 - column)) % 2 = 1
  IN  IF cell = CursorCell /\ vdc.blink_timer < 7 THEN ~dot ELSE dot
Message(left, top) ==
  [place \in (0 .. vdc.geometry.width - 1) \X (0 .. vdc.geometry.height - 1) |->
     LET x == place[1] - left
         y == place[2] - top
         height == Height(Charset)
     IN  IF /\ x \in 0 .. Columns * Width - 1 /\ y \in 0 .. Rows * height - 1
            /\ Lit((y \div height) * Columns + (x \div Width), y % height, x % Width)
         THEN InkColour ELSE PaperColour]

CONSTANTS Left, Top     \* the borders the program's values lead to

\* A picture that is offered and was painted undisturbed is the message, with no
\* trace of the border that is painted past the end of the line or of pictures
\* before (vdc/mod.rs:401-548, hello_vdc.az8:66-131).
ScreenShowsMessage ==
  (program = "hello_vdc" /\ at = Exit /\ steady /\ vdc.framebuffer_ready) =>
    \A place \in DOMAIN Message(Left, Top) :
      vdc.pixels[place[1] + place[2] * vdc.geometry.width] = Message(Left, Top)[place]

\* Q ends the machine, whatever was typed before it and whatever else the host's
\* queue holds (kb.rs:34-46, hello_vdc.az8:8-32).
QuitHalts ==
  (program = "hello_vdc" /\ \E k \in DOMAIN typed : LowerCase(typed[k]) = 113) ~> halted

\* Until then a picture is offered again and again (vdc/mod.rs:556-561).
FramesKeepComing == program = "hello_vdc" => <>halted \/ []<>vdc.framebuffer_ready
=============================================================================
