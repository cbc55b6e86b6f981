-------------------------------- MODULE Uart --------------------------------
(***************************************************************************)
(* The serial port (emu/src/ser/mod.rs), a guest that uses its registers   *)
(* as it likes, and the host at the other end of the line, which sends     *)
(* bytes and may fail to take one.  The machine does not connect it yet.   *)
(* The FIFO and modem control registers are left out: nothing looks at     *)
(* them but a guest that reads them back.                                  *)
(***************************************************************************)
EXTENDS Integers, Sequences, SequencesExt

CONSTANTS
  Byte,             \* the bytes on the line and in the registers
  LineControls,     \* the bytes written to the line control register
  FIFO_SIZE,        \* 16, how many bytes one read of the host may bring
  OverflowChecks,   \* whether the build panics when arithmetic overflows
  MaxArrived,       \* bound: the bytes the host sends
  MaxWritten        \* bound: the bytes the guest sends

ASSUME UartAssumption ==
  /\ Byte \subseteq 0 .. 255 /\ 0 \in Byte
  /\ LineControls \subseteq 0 .. 255
  /\ FIFO_SIZE \in Nat \ {0}
  /\ OverflowChecks \in BOOLEAN
  /\ MaxArrived \in Nat /\ MaxWritten \in Nat

VARIABLES
  tx_fifo, rx_fifo,
  interrupt_enable, line_control,
  divisor_latch,    \* by halves: [low |-> .., high |-> ..]
  panicked,
  waiting,          \* what the host has sent and the port has not yet read
  arrived,          \* history: what the host has sent
  delivered,        \* history: what the guest has read of it
  written,          \* history: what the guest has sent
  sent              \* history: what was handed to the host: the byte, and whether
                    \* the host took it

registers == <<interrupt_enable, line_control, divisor_latch>>
receiving == <<rx_fifo, waiting, arrived, delivered>>
sending == <<tx_fifo, written, sent>>
vars == <<registers, receiving, sending, panicked>>

\* Uart::new()
Init ==
  /\ tx_fifo = <<>> /\ rx_fifo = <<>>
  /\ interrupt_enable = 0 /\ line_control = 0
  /\ divisor_latch = [low |-> 0, high |-> 0]
  /\ panicked = FALSE
  /\ waiting = <<>> /\ arrived = <<>> /\ delivered = <<>>
  /\ written = <<>> /\ sent = <<>>

-----------------------------------------------------------------------------
\* The bit that puts the divisor in the place of registers 0 and 1.
DivisorAccess == line_control >= 128

\* What the write of register 1 tests in its place: a product of bytes.
TestedByWrite == (line_control * 128) % 256 # 0
TestOverflows == OverflowChecks /\ line_control * 128 > 255

\* tick(): bytes are fetched when none is left, as many as the host has at hand
\* or fewer; one byte goes out, and is gone when the host fails to take it.
TickWith(room) ==
  /\ ~panicked
  /\ IF room
     THEN \E n \in 0 .. (IF Len(waiting) < FIFO_SIZE THEN Len(waiting) ELSE FIFO_SIZE) :
            /\ rx_fifo' = rx_fifo \o SubSeq(waiting, 1, n)
            /\ waiting' = SubSeq(waiting, n + 1, Len(waiting))
     ELSE UNCHANGED <<rx_fifo, waiting>>
  /\ IF tx_fifo # <<>>
     THEN \E taken \in BOOLEAN :
            /\ sent' = Append(sent, [data |-> Head(tx_fifo), taken |-> taken])
            /\ tx_fifo' = Tail(tx_fifo)
     ELSE UNCHANGED <<sent, tx_fifo>>
  /\ UNCHANGED <<registers, panicked, arrived, delivered, written>>

\* Fault: bytes are fetched whatever is left.
TickAlways == TickWith(TRUE)

\* Fault: the byte that was written last goes out first.
TickLast ==
  /\ ~panicked
  /\ UNCHANGED receiving
  /\ IF tx_fifo # <<>>
     THEN /\ sent' = Append(sent, [data |-> Last(tx_fifo), taken |-> TRUE])
          /\ tx_fifo' = Front(tx_fifo)
     ELSE UNCHANGED <<sent, tx_fifo>>
  /\ UNCHANGED <<registers, panicked, written>>

\* Fault: nothing goes out while something comes in.
TickOneWay ==
  /\ TickWith(rx_fifo = <<>>)
  /\ rx_fifo # <<>> => UNCHANGED tx_fifo

Tick == TickWith(rx_fifo = <<>>)

\* read() of register 0, when it is the fifo.  Reading anything else changes nothing.
ReadData ==
  /\ ~panicked
  /\ ~DivisorAccess /\ rx_fifo # <<>>
  /\ rx_fifo' = Tail(rx_fifo)
  /\ delivered' = Append(delivered, Head(rx_fifo))
  /\ UNCHANGED <<registers, sending, panicked, waiting, arrived>>

\* write() of register 0.
WriteData(data) ==
  /\ ~panicked
  /\ IF DivisorAccess
     THEN divisor_latch' = [divisor_latch EXCEPT !.low = data] /\ UNCHANGED sending
     ELSE /\ Len(written) < MaxWritten
          /\ tx_fifo' = Append(tx_fifo, data)
          /\ written' = Append(written, data)
          /\ UNCHANGED <<divisor_latch, sent>>
  /\ UNCHANGED <<interrupt_enable, line_control, receiving, panicked>>

\* write() of register 1.
WriteInterruptEnable(data) ==
  /\ ~panicked
  /\ panicked' = TestOverflows
  /\ IF TestOverflows THEN UNCHANGED <<interrupt_enable, divisor_latch>>
     ELSE IF TestedByWrite
     THEN divisor_latch' = [divisor_latch EXCEPT !.high = data] /\ UNCHANGED interrupt_enable
     ELSE interrupt_enable' = data /\ UNCHANGED divisor_latch
  /\ UNCHANGED <<line_control, receiving, sending>>

\* write() of register 3.
WriteLineControl(data) ==
  /\ ~panicked
  /\ line_control' = data
  /\ UNCHANGED <<interrupt_enable, divisor_latch, receiving, sending, panicked>>

\* The other end of the line.
Arrive(data) ==
  /\ ~panicked /\ Len(arrived) < MaxArrived
  /\ arrived' = Append(arrived, data)
  /\ waiting' = Append(waiting, data)
  /\ UNCHANGED <<registers, rx_fifo, delivered, sending, panicked>>

Next ==
  \/ Tick \/ ReadData
  \/ \E data \in Byte : WriteData(data) \/ WriteInterruptEnable(data) \/ Arrive(data)
  \/ \E data \in LineControls : WriteLineControl(data)

\* The bus ticks its devices for ever; the guest and the host owe nothing.
Spec == Init /\ [][Next]_vars /\ WF_vars(Tick)

-----------------------------------------------------------------------------
\* The type of every variable.
UartTypeOK ==
  /\ tx_fifo \in Seq(Byte) /\ rx_fifo \in Seq(Byte) /\ waiting \in Seq(Byte)
  /\ interrupt_enable \in Byte
  /\ line_control \in LineControls \cup {0}
  /\ divisor_latch \in [low : Byte, high : Byte]
  /\ panicked \in BOOLEAN
  /\ arrived \in Seq(Byte) /\ delivered \in Seq(Byte) /\ written \in Seq(Byte)
  /\ sent \in Seq([data : Byte, taken : BOOLEAN])

\* What the host sends reaches the guest whole and in order, whatever is done to the
\* registers between, and the fifo, of which nothing tells the guest how full it is,
\* never holds more than it is made for (ser/mod.rs:76-82, 90-97).
ReceivedInOrder ==
  /\ arrived = delivered \o rx_fifo \o waiting
  /\ Len(rx_fifo) <= FIFO_SIZE

\* What the guest sends is handed to the host once and in order, although the divisor
\* may be written in between; a byte that the host fails to take was handed over, and is
\* neither sent again nor overtaken (ser/mod.rs:84-86, 123-129).
Handed == [k \in DOMAIN sent |-> sent[k].data]
SentInOrder == written = Handed \o tx_fifo

\* A byte the guest has sent is handed to the host, unless the emulator ends before,
\* however many bytes come in meanwhile (ser/mod.rs:75-87).
BytesGoOut ==
  \A k \in 1 .. MaxWritten : Len(written) >= k ~> (Len(sent) >= k \/ panicked)
=============================================================================
