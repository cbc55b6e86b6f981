------------------------------ MODULE DmaCopy ------------------------------
(***************************************************************************)
(* The program of the controller's own test (emu/src/dma/tests.rs:5-34),   *)
(* for any block: it sets up the two ports, the length and the interrupt,  *)
(* loads, enables, and waits for the interrupt.                            *)
(*                                                                         *)
(* A block with a fixed destination takes the detour that the controller's *)
(* comments describe (dma/mod.rs:267-270), a load in the other direction   *)
(* first; with Detour every block but the first does.  A later block       *)
(* begins with a reset, which takes the interrupt of the one before away.  *)
(* A job may search as well: WR3 gives the byte to stop at.  Nothing turns  *)
(* searching off again, so such a job is the last one.                     *)
(***************************************************************************)
EXTENDS Dma

CONSTANTS
  Jobs,         \* the blocks to be copied first
  LaterJobs,    \* those to be copied after another one
  Blocks,       \* bound: how many are copied, one after the other
  Detour        \* the program loads the destination of a later one by hand

VARIABLES
  job,          \* the block being copied
  at,           \* the next write of the program
  left,         \* blocks to be copied after this one
  before        \* history: the bus when the controller was enabled

copyVars == <<enabled, status, program, counter, byte_counter, write_order,
              read_order, bus, panicked, job, at, left, before>>

Job == [direction : {"AToB", "BToA"}, start : [Ports -> Words],
        length : Words, mode : [Ports -> Modes], space : [Ports -> Spaces],
        search : BOOLEAN, stop : BOOLEAN, match : SUBSET Bits]

ASSUME JobsAssumption ==
  Jobs \cup LaterJobs \subseteq Job /\ Blocks \in Nat \ {0} /\ Detour \in BOOLEAN

CopyInit ==
  /\ Init
  /\ job \in Jobs
  /\ at = "wr0"
  /\ left = Blocks - 1
  /\ before = bus

-----------------------------------------------------------------------------
Low(w) == w % (Nibble * Nibble)
High(w) == w \div (Nibble * Nibble)

\* A base byte WR0 of the job, and one for the opposite direction.
Other(direction) == IF direction = "AToB" THEN "BToA" ELSE "AToB"
JobWR0(direction, follow) ==
  [reg |-> "WR0", search |-> job.search, transfer |-> TRUE,
   direction |-> direction, follow |-> follow]
JobWR12(reg, port) ==
  [reg |-> reg, space |-> job.space[port], mode |-> job.mode[port],
   follow |-> {}]
JobWR3 ==
  [reg |-> "WR3", stop_on_match |-> job.stop, interrupts |-> FALSE,
   enable |-> FALSE, follow |-> {"MatchByte"}]
JobWR4 ==
  [reg |-> "WR4",
   follow |-> {"PortBAddressLow", "PortBAddressHigh", "InterruptControl"}]
JobControl ==
  [on_match |-> job.search, at_end |-> TRUE, on_ready |-> FALSE, pulse |-> FALSE,
   follow |-> {}]
Issue(command) == WriteWR6([reg |-> "WR6", command |-> command])

JobDest == IF job.direction = "AToB" THEN "B" ELSE "A"
Later == left < Blocks - 1
JobSource == IF job.direction = "AToB" THEN "A" ELSE "B"

\* The program writes at one step, goes to the next.
Do(step, write, next) ==
  /\ at = step
  /\ write
  /\ at' = next
  /\ UNCHANGED <<job, left>>

Setup ==
  \/ Do("reset", Issue("Reset"), "wr0")
  \/ Do("wr0", WriteWR0(JobWR0(job.direction,
                               {"PortAAddressLow", "PortAAddressHigh",
                                "BlockLengthLow", "BlockLengthHigh"})), "a_low")
  \/ Do("a_low", WriteHalf("PortAAddressLow", Low(job.start["A"])), "a_high")
  \/ Do("a_high", WriteHalf("PortAAddressHigh", High(job.start["A"])), "len_low")
  \/ Do("len_low", WriteHalf("BlockLengthLow", Low(job.length)), "len_high")
  \/ Do("len_high", WriteHalf("BlockLengthHigh", High(job.length)), "wr1")
  \/ Do("wr1", WriteWR1(JobWR12("WR1", "A")), "wr2")
  \/ Do("wr2", WriteWR2(JobWR12("WR2", "B")),
        IF job.search THEN "wr3" ELSE "wr4")
  \/ Do("wr3", WriteWR3(JobWR3), "match")
  \/ Do("match", WriteMatchByte(job.match), "wr4")
  \/ Do("wr4", WriteWR4(JobWR4), "b_low")
  \/ Do("b_low", WriteHalf("PortBAddressLow", Low(job.start["B"])), "b_high")
  \/ Do("b_high", WriteHalf("PortBAddressHigh", High(job.start["B"])), "control")
  \/ Do("control", WriteInterruptControl(JobControl),
        IF (Later /\ Detour) \/ job.mode[JobDest] = "Fixed" THEN "swap"
                                                        ELSE "load")
  \/ Do("swap", WriteWR0(JobWR0(Other(job.direction), {})), "swap_load")
  \/ Do("swap_load", Issue("Load"), "swap_back")
  \/ Do("swap_back", WriteWR0(JobWR0(job.direction, {})), "load")
  \/ Do("load", Issue("Load"), "interrupts")
  \/ Do("interrupts", Issue("EnableInterrupts"), "enable")

WriteProgram == Setup /\ UNCHANGED before

EnableBlock ==
  /\ Do("enable", Issue("EnableDma"), "wait")
  /\ before' = bus

\* dma.tick() in the loop of the test, until dma.interrupting().
TickBlock ==
  /\ at = "wait"
  /\ "INTERRUPT_PENDING" \notin status
  /\ Tick
  /\ UNCHANGED <<job, at, left, before>>

WaitBlock ==
  /\ "INTERRUPT_PENDING" \in status
  /\ Do("wait", UNCHANGED vars, "done")
  /\ UNCHANGED before

NextBlock ==
  /\ at = "done" /\ left > 0
  /\ job' \in LaterJobs
  /\ at' = "reset"
  /\ left' = left - 1
  /\ UNCHANGED <<vars, before>>

CopyNext ==
  \/ WriteProgram \/ EnableBlock \/ TickBlock \/ WaitBlock \/ NextBlock

\* The test's loop ticks until the interrupt; the program is sequential.
CopySpec == CopyInit /\ [][CopyNext]_copyVars /\ WF_copyVars(CopyNext)

-----------------------------------------------------------------------------
(***************************************************************************)
(* What a block transfer is.                                               *)
(***************************************************************************)

\* The address of a port's i-th byte.
Address(port, i) ==
  CASE job.mode[port] = "Increment" -> (job.start[port] + i) % Word
    [] job.mode[port] = "Decrement" -> (job.start[port] + Word - i) % Word
    [] job.mode[port] = "Fixed" -> job.start[port]

Length == IF job.length = 0 THEN Word ELSE job.length

\* The bus after the first n bytes have been moved one by one.
Moved[n \in 0 .. Word] ==
  IF n = 0 THEN before
  ELSE [Moved[n - 1] EXCEPT
          ![job.space[JobDest]][Address(JobDest, n - 1)] =
             Moved[n - 1][job.space[JobSource]][Address(JobSource, n - 1)]]

\* Byte i, as it is when its turn comes, is the one searched for.
Found(i) ==
  job.search /\ Moved[i][job.space[JobSource]][Address(JobSource, i)] = job.match

\* The first n bytes are the block, or the part of it up to a byte found.
IsBlock(n) ==
  /\ \A i \in 0 .. n - 2 : ~Found(i)
  /\ n = Length \/ Found(n - 1)

(***************************************************************************)
(* Properties.                                                             *)
(***************************************************************************)

\* The test's claim, for every block: when the controller interrupts, the
\* bytes of the source are at the destination and no others were touched
\* (tests.rs:33), also when the blocks overlap or wrap around.  A search moves
\* the bytes up to the first one that matches, that one included.
BlockCopied ==
  at = "done" => \E n \in 1 .. Length : IsBlock(n) /\ bus = Moved[n]

\* The program comes to its end: the interrupt arrives.
CopyEnds == <>(at = "done" /\ left = 0)

\* The bytes of the test's program are the low and the high byte of an address
\* and a length (tests.rs:11-14), so a block may be anywhere.  The 8-bit masks
\* lose the high nibble of each low byte.
BlockAnywhereCopied == BlockCopied
=============================================================================
