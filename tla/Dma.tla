-------------------------------- MODULE Dma --------------------------------
(***************************************************************************)
(* The z8410 DMA controller (emu/src/dma/mod.rs): its programming protocol *)
(* of base bytes and following bytes, its read sequences, and the transfer *)
(* of one byte per tick.                                                   *)
(*                                                                         *)
(* A base byte is given decoded, as a record of the bits it carries; the   *)
(* bytes that change no state (no register answers, or the controller is   *)
(* enabled) are not actions.  Numbers keep their structure and lose their  *)
(* size: a nibble has Nibble values (16 in the code), a byte two nibbles,  *)
(* an address or a length (u16) two bytes.  A byte of data is the set of   *)
(* its bits.  Fields that are stored and never read (access mode, vector)  *)
(* are left out.                                                           *)
(***************************************************************************)
EXTENDS Integers, Sequences, FiniteSets

CONSTANTS
  Nibble,       \* the number of values of half a byte
  Bits,         \* the bits of a data byte
  Headers,      \* the base bytes the guest writes, decoded
  Bytes,        \* the bytes it writes as halves of addresses and lengths
  Patterns,     \* the bytes it writes as match and mask bytes
  Controls,     \* the interrupt control bytes it writes, decoded
  Masks,        \* the read masks it writes
  InitialBus,   \* what memory and the I/O ports hold
  ReadLimit     \* bound: read registers the guest leaves unread

ASSUME NibbleAssumption == Nibble \in {2, 4, 8, 16}
ASSUME ReadLimitAssumption == ReadLimit \in Nat

Word == Nibble * Nibble * Nibble * Nibble
Words == 0 .. Word - 1
Spaces == {"memory", "io"}
Ports == {"A", "B"}
Modes == {"Decrement", "Increment", "Fixed"}

\* The bits of RR0; READY is never set.
Flags ==
  {"TRANSFER_OCCURRED", "INTERRUPT_PENDING", "MATCH_NOT_FOUND",
   "NOT_END_OF_BLOCK"}

ReadRegisters ==
  {"Status", "ByteCounterLow", "ByteCounterHigh", "PortAAddressLow",
   "PortAAddressHigh", "PortBAddressLow", "PortBAddressHigh"}

\* WR6 commands that are implemented, and those that are todo!(), the bytes that are
\* no command of the data sheet among them, which are unimplemented!().
Commands ==
  {"Reset", "Load", "Continue", "EnableInterrupts", "ReadStatus",
   "ReinitializeStatus", "ReadMaskFollows", "InitiateReadSequence",
   "EnableDma", "DisableDma"}
TodoCommands ==
  {"ResetPortATiming", "ResetPortBTiming", "DisableInterrupts",
   "ResetAndDisableInterrupts", "EnableAfterReti", "ForceReady", "Unrecognized"}

\* Each base byte with the registers whose bytes it says follow.
WR0 == [reg : {"WR0"}, search : BOOLEAN, transfer : BOOLEAN,
        direction : {"AToB", "BToA"},
        follow : SUBSET {"PortAAddressLow", "PortAAddressHigh",
                         "BlockLengthLow", "BlockLengthHigh"}]
WR1 == [reg : {"WR1"}, space : Spaces, mode : Modes,
        follow : SUBSET {"PortATiming"}]
WR2 == [reg : {"WR2"}, space : Spaces, mode : Modes,
        follow : SUBSET {"PortBTiming"}]
WR3 == [reg : {"WR3"}, stop_on_match : BOOLEAN, interrupts : BOOLEAN,
        enable : BOOLEAN, follow : SUBSET {"MaskByte", "MatchByte"}]
WR4 == [reg : {"WR4"},
        follow : SUBSET {"PortBAddressLow", "PortBAddressHigh",
                         "InterruptControl"}]
WR5 == [reg : {"WR5"}, wait : BOOLEAN, restart : BOOLEAN]
WR6 == [reg : {"WR6"}, command : Commands \cup TodoCommands]

Control == [on_match : BOOLEAN, at_end : BOOLEAN, on_ready : BOOLEAN,
            pulse : BOOLEAN, follow : SUBSET {"InterruptVector", "PulseControl"}]

ASSUME HeadersAssumption ==
  /\ Headers \subseteq WR0 \cup WR1 \cup WR2 \cup WR3 \cup WR4 \cup WR5 \cup WR6
  /\ \A h \in Headers : h.reg = "WR0" => h.search \/ h.transfer
ASSUME BytesAssumption ==
  /\ Bytes \subseteq 0 .. Nibble * Nibble - 1
  /\ Patterns \subseteq SUBSET Bits
  /\ Controls \subseteq Control
  /\ Masks \subseteq SUBSET ReadRegisters
  /\ InitialBus \in [Spaces -> [Words -> SUBSET Bits]]

\* The registers that one base byte, or a byte following it, asks for.
Groups ==
  {{"PortAAddressLow", "PortAAddressHigh", "BlockLengthLow", "BlockLengthHigh"},
   {"PortATiming"}, {"PortBTiming"}, {"MaskByte", "MatchByte"},
   {"PortBAddressLow", "PortBAddressHigh", "InterruptControl"},
   {"InterruptVector", "PulseControl"}, {"ReadMask"}}
WriteRegisters == UNION Groups

VARIABLES
  enabled,
  status,         \* RR0, the set of its bits
  program,        \* the programmed registers
  counter,        \* port_a_counter, port_b_counter
  byte_counter,
  write_order,    \* the registers whose bytes follow, the next one last
  read_order,     \* the registers to be read, the next one last
  bus,            \* the memory and the ports the controller reaches
  panicked        \* a todo!(), or an assertion on the stacks

vars == <<enabled, status, program, counter, byte_counter, write_order,
          read_order, bus, panicked>>

Program ==
  [interrupts_enabled : BOOLEAN, stop_on_match : BOOLEAN,
   mask_byte : SUBSET Bits, match_byte : SUBSET Bits,
   interrupt_on_match : BOOLEAN, interrupt_at_end_of_block : BOOLEAN,
   restart_at_end_of_block : BOOLEAN, interrupt_on_ready : BOOLEAN,
   read_mask : SUBSET ReadRegisters, search : BOOLEAN, transfer : BOOLEAN,
   direction : {"AToB", "BToA"}, start : [Ports -> Words],
   block_length : Words, space : [Ports -> Spaces], mode : [Ports -> Modes]]

\* The type of every variable.
DmaTypeOK ==
  /\ enabled \in BOOLEAN
  /\ status \subseteq Flags
  /\ program \in Program
  /\ counter \in [Ports -> Words]
  /\ byte_counter \in Words
  /\ write_order \in Seq(WriteRegisters)
  /\ read_order \in Seq(ReadRegisters)
  /\ bus \in [Spaces -> [Words -> SUBSET Bits]]
  /\ panicked \in BOOLEAN

\* Dma::default()
DefaultProgram ==
  [interrupts_enabled |-> FALSE, stop_on_match |-> FALSE,
   mask_byte |-> {}, match_byte |-> {},
   interrupt_on_match |-> FALSE, interrupt_at_end_of_block |-> FALSE,
   restart_at_end_of_block |-> FALSE, interrupt_on_ready |-> FALSE,
   read_mask |-> {}, search |-> FALSE, transfer |-> FALSE,
   direction |-> "BToA", start |-> [p \in Ports |-> 0],
   block_length |-> 0, space |-> [p \in Ports |-> "io"],
   mode |-> [p \in Ports |-> "Decrement"]]

Init ==
  /\ enabled = FALSE
  /\ status = {}
  /\ program = DefaultProgram
  /\ counter = [p \in Ports |-> 0]
  /\ byte_counter = 0
  /\ write_order = <<>>
  /\ read_order = <<>>
  /\ bus = InitialBus
  /\ panicked = FALSE

-----------------------------------------------------------------------------
\* Writes.  The controller ignores them all while it is enabled.
Accepts == ~panicked /\ ~enabled
AcceptsBase == Accepts /\ write_order = <<>>

\* Fault: a 16-bit register is asked for twice.
AskTwice(register, follow) ==
  IF register \in follow THEN <<register, register>> ELSE <<>>

\* Registers are pushed one by one and popped from the end.
Ask(register, follow) == IF register \in follow THEN <<register>> ELSE <<>>
Rest(order) == SubSeq(order, 1, Len(order) - 1)

Set(new) == program' = new

WriteWR0(h) ==
  /\ AcceptsBase
  /\ Set([program EXCEPT !.transfer = @ \/ h.transfer,
                         !.search = @ \/ h.search,
                         !.direction = h.direction])
  /\ write_order' = Ask("BlockLengthHigh", h.follow)
                      \o Ask("BlockLengthLow", h.follow)
                      \o Ask("PortAAddressHigh", h.follow)
                      \o Ask("PortAAddressLow", h.follow)
  /\ UNCHANGED <<enabled, status, counter, byte_counter, read_order, bus,
                 panicked>>

\* WR1 and WR2 differ in the port they set up.
WriteWR12(h, port, timing) ==
  /\ AcceptsBase
  /\ Set([program EXCEPT !.space[port] = h.space, !.mode[port] = h.mode])
  /\ write_order' = Ask(timing, h.follow)
  /\ UNCHANGED <<enabled, status, counter, byte_counter, read_order, bus,
                 panicked>>

WriteWR1(h) == WriteWR12(h, "A", "PortATiming")
WriteWR2(h) == WriteWR12(h, "B", "PortBTiming")

\* Interrupts and the controller are switched on here, never off.
WriteWR3(h) ==
  /\ AcceptsBase
  /\ Set([program EXCEPT !.stop_on_match = h.stop_on_match,
                         !.interrupts_enabled = @ \/ h.interrupts])
  /\ enabled' = h.enable
  /\ write_order' = Ask("MatchByte", h.follow) \o Ask("MaskByte", h.follow)
  /\ UNCHANGED <<status, counter, byte_counter, read_order, bus, panicked>>

\* Fault: pushed in the order of the bits.
WriteWR4Forwards(h) ==
  /\ AcceptsBase
  /\ write_order' = Ask("PortBAddressLow", h.follow)
                      \o Ask("PortBAddressHigh", h.follow)
                      \o Ask("InterruptControl", h.follow)
  /\ UNCHANGED <<enabled, status, program, counter, byte_counter, read_order,
                 bus, panicked>>

WriteWR4(h) ==
  /\ AcceptsBase
  /\ write_order' = Ask("InterruptControl", h.follow)
                      \o Ask("PortBAddressHigh", h.follow)
                      \o Ask("PortBAddressLow", h.follow)
  /\ UNCHANGED <<enabled, status, program, counter, byte_counter, read_order,
                 bus, panicked>>

WriteWR5(h) ==
  /\ AcceptsBase
  /\ IF h.wait
     THEN panicked' = TRUE /\ UNCHANGED program
     ELSE /\ Set([program EXCEPT !.restart_at_end_of_block = h.restart])
          /\ UNCHANGED panicked
  /\ UNCHANGED <<enabled, status, counter, byte_counter, write_order,
                 read_order, bus>>

-----------------------------------------------------------------------------
Source == IF program.direction = "AToB" THEN "A" ELSE "B"
Dest == IF program.direction = "AToB" THEN "B" ELSE "A"

\* What a read sequence pushes, the first to be read last.
ReadSequence(mask) ==
  Ask("PortBAddressHigh", mask) \o Ask("PortBAddressLow", mask)
    \o Ask("PortAAddressHigh", mask) \o Ask("PortAAddressLow", mask)
    \o Ask("ByteCounterLow", mask) \o Ask("ByteCounterHigh", mask)
    \o Ask("Status", mask)

CommandEffect(c) ==
  CASE c = "Reset" ->
         /\ Set([program EXCEPT !.interrupts_enabled = FALSE,
                                !.restart_at_end_of_block = FALSE])
         /\ status' = status \ {"INTERRUPT_PENDING"}
         /\ UNCHANGED <<enabled, counter, byte_counter, write_order, read_order>>
    [] c = "Load" ->
         /\ counter' = [counter EXCEPT ![Source] = program.start[Source]]
         /\ byte_counter' = 0
         /\ UNCHANGED <<enabled, status, program, write_order, read_order>>
    [] c = "Continue" ->
         /\ byte_counter' = 0
         /\ UNCHANGED <<enabled, status, program, counter, write_order, read_order>>
    [] c = "EnableInterrupts" ->
         /\ Set([program EXCEPT !.interrupts_enabled = TRUE])
         /\ UNCHANGED <<enabled, status, counter, byte_counter, write_order, read_order>>
    [] c = "ReadStatus" ->
         /\ read_order' = Append(read_order, "Status")
         /\ UNCHANGED <<enabled, status, program, counter, byte_counter, write_order>>
    [] c = "ReinitializeStatus" ->
         /\ status' = status \cup {"MATCH_NOT_FOUND", "NOT_END_OF_BLOCK"}
         /\ UNCHANGED <<enabled, program, counter, byte_counter, write_order, read_order>>
    [] c = "ReadMaskFollows" ->
         /\ write_order' = <<"ReadMask">>
         /\ UNCHANGED <<enabled, status, program, counter, byte_counter, read_order>>
    [] c = "InitiateReadSequence" ->
         /\ read_order' = read_order \o ReadSequence(program.read_mask)
         /\ UNCHANGED <<enabled, status, program, counter, byte_counter, write_order>>
    [] c = "EnableDma" ->
         /\ enabled' = TRUE
         /\ UNCHANGED <<status, program, counter, byte_counter, write_order, read_order>>
    [] c = "DisableDma" ->
         UNCHANGED <<enabled, status, program, counter, byte_counter, write_order, read_order>>

WriteWR6(h) ==
  /\ AcceptsBase
  /\ IF h.command \in TodoCommands
     THEN /\ panicked' = TRUE
          /\ UNCHANGED <<enabled, status, program, counter, byte_counter,
                         write_order, read_order>>
     ELSE CommandEffect(h.command) /\ UNCHANGED panicked
  /\ UNCHANGED bus

-----------------------------------------------------------------------------
\* A byte that follows goes to the register at the end of write_order.
AcceptsFor(register) ==
  Accepts /\ write_order # <<>> /\ write_order[Len(write_order)] = register

\* Bitwise or of two nibbles, bit by bit.
OrBit(x, y, b) == IF (x \div b) % 2 = 0 /\ (y \div b) % 2 = 0 THEN 0 ELSE b
Or(x, y) == OrBit(x, y, 1) + OrBit(x, y, 2) + OrBit(x, y, 4) + OrBit(x, y, 8)

\* The halves of a 16-bit register are masked with 0xF0 and 0x0F: a low byte is
\* put on top of the high nibble of the old one and clears the high byte, a
\* high byte leaves the low nibble only.
WithLow(w, data) ==
  Or((w \div Nibble) % Nibble, data \div Nibble) * Nibble + (data % Nibble)
WithHigh(w, data) == (w % Nibble) + data * Nibble * Nibble

WriteHalf(register, data) ==
  /\ AcceptsFor(register)
  /\ CASE register = "PortAAddressLow" ->
            Set([program EXCEPT !.start["A"] = WithLow(@, data)])
       [] register = "PortAAddressHigh" ->
            Set([program EXCEPT !.start["A"] = WithHigh(@, data)])
       [] register = "PortBAddressLow" ->
            Set([program EXCEPT !.start["B"] = WithLow(@, data)])
       [] register = "PortBAddressHigh" ->
            Set([program EXCEPT !.start["B"] = WithHigh(@, data)])
       [] register = "BlockLengthLow" ->
            Set([program EXCEPT !.block_length = WithLow(@, data)])
       [] register = "BlockLengthHigh" ->
            Set([program EXCEPT !.block_length = WithHigh(@, data)])
  /\ write_order' = Rest(write_order)
  /\ UNCHANGED <<enabled, status, counter, byte_counter, read_order, bus,
                 panicked>>

Halves ==
  {"PortAAddressLow", "PortAAddressHigh", "PortBAddressLow",
   "PortBAddressHigh", "BlockLengthLow", "BlockLengthHigh"}

WriteInterruptControl(c) ==
  /\ AcceptsFor("InterruptControl")
  /\ IF c.pulse
     THEN /\ Set([program EXCEPT !.interrupt_on_match = c.on_match,
                                 !.interrupt_at_end_of_block = c.at_end])
          /\ write_order' = Rest(write_order)
          /\ panicked' = TRUE
     ELSE /\ Set([program EXCEPT !.interrupt_on_match = c.on_match,
                                 !.interrupt_at_end_of_block = c.at_end,
                                 !.interrupt_on_ready = c.on_ready])
          /\ write_order' = Rest(write_order) \o Ask("InterruptVector", c.follow)
                              \o Ask("PulseControl", c.follow)
          /\ UNCHANGED panicked
  /\ UNCHANGED <<enabled, status, counter, byte_counter, read_order, bus>>

WriteReadMask(mask) ==
  /\ AcceptsFor("ReadMask")
  /\ Set([program EXCEPT !.read_mask = mask])
  /\ write_order' = Rest(write_order)
  /\ UNCHANGED <<enabled, status, counter, byte_counter, read_order, bus,
                 panicked>>

WriteMaskByte(pattern) ==
  /\ AcceptsFor("MaskByte")
  /\ Set([program EXCEPT !.mask_byte = pattern])
  /\ write_order' = Rest(write_order)
  /\ UNCHANGED <<enabled, status, counter, byte_counter, read_order, bus,
                 panicked>>

WriteMatchByte(pattern) ==
  /\ AcceptsFor("MatchByte")
  /\ Set([program EXCEPT !.match_byte = pattern])
  /\ write_order' = Rest(write_order)
  /\ UNCHANGED <<enabled, status, counter, byte_counter, read_order, bus,
                 panicked>>

\* The vector is stored; timing and pulse bytes are todo!().
WriteVector ==
  /\ AcceptsFor("InterruptVector")
  /\ write_order' = Rest(write_order)
  /\ UNCHANGED <<enabled, status, program, counter, byte_counter, read_order,
                 bus, panicked>>

WriteTodo(register) ==
  /\ AcceptsFor(register)
  /\ write_order' = Rest(write_order)
  /\ panicked' = TRUE
  /\ UNCHANGED <<enabled, status, program, counter, byte_counter, read_order,
                 bus>>

-----------------------------------------------------------------------------
\* A read takes the register at the end of read_order, which must not hold more than
\* eight.
Read ==
  /\ ~panicked
  /\ read_order # <<>>
  /\ IF Len(read_order) > 8
     THEN panicked' = TRUE /\ UNCHANGED read_order
     ELSE read_order' = Rest(read_order) /\ UNCHANGED panicked
  /\ UNCHANGED <<enabled, status, program, counter, byte_counter, write_order, bus>>

-----------------------------------------------------------------------------
\* Fault: the counters do not wrap.
StepUnwrapped(w, mode) ==
  CASE mode = "Increment" -> w + 1
    [] mode = "Decrement" -> w - 1
    [] mode = "Fixed" -> w

\* One byte of a transfer: wrapping_add and wrapping_sub on the counters.
Step(w, mode) ==
  CASE mode = "Increment" -> (w + 1) % Word
    [] mode = "Decrement" -> (w + Word - 1) % Word
    [] mode = "Fixed" -> w

ByteRead == bus[program.space[Source]][counter[Source]]

\* Fault: the destination counter is not loaded.
DestCounterKept == counter[Dest]

\* The destination counter is loaded by the first byte ever transferred, unless
\* it is fixed.
DestCounter ==
  IF "TRANSFER_OCCURRED" \notin status /\ program.mode[Dest] # "Fixed"
  THEN program.start[Dest]
  ELSE counter[Dest]

Matched ==
  program.search /\ program.match_byte \ program.mask_byte = ByteRead
Stopped == Matched /\ program.stop_on_match
\* Fault: the byte counter is compared before it wraps.
EndedUnwrapped == ~Stopped /\ byte_counter + 1 = program.block_length

Ended == ~Stopped /\ (byte_counter + 1) % Word = program.block_length
Restarts == Ended /\ program.restart_at_end_of_block

\* Fault: the end of the block does not interrupt.
InterruptsOnMatch ==
  Matched /\ program.interrupts_enabled /\ program.interrupt_on_match

Interrupts ==
  \/ Matched /\ program.interrupts_enabled /\ program.interrupt_on_match
  \/ Ended /\ program.interrupt_at_end_of_block
  \/ ~Stopped /\ ~Restarts /\ program.interrupt_on_ready

Tick ==
  /\ enabled /\ ~panicked
  /\ counter' = [counter EXCEPT
                   ![Source] = Step(@, program.mode[Source]),
                   ![Dest] = Step(DestCounter, program.mode[Dest])]
  /\ bus' = IF program.transfer
            THEN [bus EXCEPT ![program.space[Dest]][DestCounter] = ByteRead]
            ELSE bus
  /\ byte_counter' = IF Stopped THEN byte_counter ELSE (byte_counter + 1) % Word
  /\ enabled' = (~Matched /\ ~Ended)
  /\ status' = ((status \cup {"TRANSFER_OCCURRED"})
                  \ ((IF Matched THEN {"MATCH_NOT_FOUND"} ELSE {})
                       \cup (IF Ended THEN {"NOT_END_OF_BLOCK"} ELSE {})))
                 \cup (IF Interrupts THEN {"INTERRUPT_PENDING"} ELSE {})
  /\ panicked' = Restarts
  /\ UNCHANGED <<program, write_order, read_order>>

-----------------------------------------------------------------------------
WriteBase(h) ==
  \/ h.reg = "WR0" /\ WriteWR0(h)
  \/ h.reg = "WR1" /\ WriteWR1(h)
  \/ h.reg = "WR2" /\ WriteWR2(h)
  \/ h.reg = "WR3" /\ WriteWR3(h)
  \/ h.reg = "WR4" /\ WriteWR4(h)
  \/ h.reg = "WR5" /\ WriteWR5(h)
  \/ h.reg = "WR6" /\ WriteWR6(h)

WriteFollowing ==
  \/ \E r \in Halves, data \in Bytes : WriteHalf(r, data)
  \/ \E c \in Controls : WriteInterruptControl(c)
  \/ \E mask \in Masks : WriteReadMask(mask)
  \/ \E p \in Patterns : WriteMaskByte(p) \/ WriteMatchByte(p)
  \/ WriteVector
  \/ \E r \in {"PortATiming", "PortBTiming", "PulseControl"} : WriteTodo(r)

\* The guest leaves at most ReadLimit registers unread before it asks for more.
Guest ==
  \/ Len(read_order) <= ReadLimit /\ \E h \in Headers : WriteBase(h)
  \/ WriteFollowing
  \/ Read

Next == Guest \/ Tick

\* The bus ticks its devices for as long as the machine runs.
Spec == Init /\ [][Next]_vars /\ WF_vars(Tick)

-----------------------------------------------------------------------------
(***************************************************************************)
(* Properties.                                                             *)
(***************************************************************************)

\* The bound of the assertion on the stack of registers to write
\* (dma/mod.rs:387), and that it is loose.
WriteOrderBounded == Len(write_order) <= 4

\* The registers waiting for a byte were all asked for by one base byte or one
\* control byte, and each waits once: a guest's parameter never lands in the
\* register of another command, although the controller may be enabled between
\* the two and ignore what the guest writes meanwhile (dma/mod.rs:386-483).
ParametersOfOneCommand ==
  /\ \E group \in Groups :
       \A i \in 1 .. Len(write_order) : write_order[i] \in group
  /\ \A i, j \in 1 .. Len(write_order) :
       write_order[i] = write_order[j] => i = j

\* A transfer always comes to an end, by a match, the end of its block or a
\* todo!(), for every length: a length of zero is the longest of all, because
\* the byte counter wraps (dma/mod.rs:346-361).
BlockEnds == enabled ~> ~enabled
=============================================================================
