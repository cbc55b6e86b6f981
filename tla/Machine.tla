------------------------------ MODULE Machine ------------------------------
(***************************************************************************)
(* The machine around the CPU: the decoding of ports (emu/src/sys/mod.rs), *)
(* the keyboard (bin/possum-emu/kb.rs), the video chip ticking beside the  *)
(* CPU, and the loop of main.rs.  A step of the guest is one access to     *)
(* memory or to a port and the n clock cycles until the next one.          *)
(***************************************************************************)
EXTENDS Memory, Vdc, SequencesExt

CONSTANTS
  Events,       \* what the host's event queue holds: the bytes of a text, or
                \* <<>>, an event that is no text
  MaxTyped,     \* bound: the bytes the user types
  MaxPending,   \* bound: the events that wait
  HdBytes       \* what the ATA bus may answer (module Card), {0} without one

ASSUME MachineAssumption ==
  /\ MaxTyped \in Nat /\ MaxPending \in Nat
  /\ \A e \in Events : e \in Seq(Nat)

VARIABLES
  vdc,          \* System.vdc, a record of module Vdc
  buffer,       \* AsciiKeyboard.buffer
  due,          \* whether next_poll_time has come
  pending,      \* the events that the host holds
  input,        \* the byte the CPU last read from a port
  aborted,      \* a todo! or an unwrap has ended the emulator
  typed,        \* history: the bytes typed
  delivered,    \* history: the bytes the guest was given, zeroes for none left out
  steady        \* history: no register of the chip was written in this picture

keyboardVars == <<buffer, due, pending, typed, delivered>>
screenVars == <<vdc, steady>>
machineVars == <<memoryVars, screenVars, keyboardVars, input, aborted>>

\* The process has ended in a panic.
Panicked == aborted \/ vdc.panicked

\* System::new() with the devices that main.rs makes.
MachineInit ==
  /\ MemoryInit
  /\ vdc = NewVdc /\ steady = FALSE
  /\ buffer = <<>> /\ due = TRUE /\ pending = <<>>
  /\ typed = <<>> /\ delivered = <<>>
  /\ input = 0 /\ aborted = FALSE

-----------------------------------------------------------------------------
\* The device that a port belongs to: the upper byte is not looked at, and the
\* serial ports, 16 and 24, are not there.
Device(port) ==
  LET low == port % 256
  IN  CASE low = 0 -> "IC" [] low = 1 -> "BANK" [] low = 2 -> "KB"
        [] low \div 16 = 2 -> "HD" [] low \div 16 = 4 -> "VDC"
        [] OTHER -> "none"

\* The chip is v after the access, which may have `wrote' to it; then it ticks once
\* for each of n cycles.
Clock(v, wrote, n) ==
  LET after[k \in 0 .. n] == IF k = 0 THEN v ELSE Ticked(after[k - 1])
  IN  /\ vdc' = after[n]
      /\ steady' = \/ steady /\ ~wrote
                   \/ \E k \in 1 .. n : after[k].raster_x = 0 /\ after[k].raster_y = 0

\* An access that leaves the keyboard alone.
OffKeyboard == UNCHANGED keyboardVars

Load(a, n) ==
  /\ ReadMemory(a)
  /\ Clock(vdc, FALSE, n) /\ OffKeyboard /\ UNCHANGED <<input, aborted>>

Store(a, data, n) ==
  /\ WriteMemory(a, data)
  /\ Clock(vdc, FALSE, n) /\ OffKeyboard /\ UNCHANGED <<input, aborted>>

-----------------------------------------------------------------------------
\* One event is taken from the queue, if it is time; a byte is given to the guest.
Arrived == IF due /\ pending # <<>> THEN buffer \o Head(pending) ELSE buffer

\* Fault: the byte that arrived last comes first.
ReadKbLast ==
  /\ due' = FALSE
  /\ pending' = IF due /\ pending # <<>> THEN Tail(pending) ELSE pending
  /\ IF Arrived = <<>>
     THEN input' = 0 /\ UNCHANGED <<buffer, delivered>>
     ELSE /\ input' = Last(Arrived)
          /\ buffer' = Front(Arrived)
          /\ delivered' = Append(delivered, Last(Arrived))
  /\ UNCHANGED typed

\* Fault: a text replaces what the guest has not read yet.
ReadKbOver ==
  LET text == IF due /\ pending # <<>> THEN Head(pending) ELSE buffer
  IN  /\ due' = FALSE
      /\ pending' = IF due /\ pending # <<>> THEN Tail(pending) ELSE pending
      /\ IF text = <<>>
         THEN input' = 0 /\ buffer' = <<>> /\ UNCHANGED delivered
         ELSE /\ input' = Head(text)
              /\ buffer' = Tail(text)
              /\ delivered' = Append(delivered, Head(text))
      /\ UNCHANGED typed

\* AsciiKeyboard::read()
ReadKb ==
  /\ due' = FALSE
  /\ pending' = IF due /\ pending # <<>> THEN Tail(pending) ELSE pending
  /\ IF Arrived = <<>>
     THEN input' = 0 /\ UNCHANGED <<buffer, delivered>>
     ELSE /\ input' = Head(Arrived)
          /\ buffer' = Tail(Arrived)
          /\ delivered' = Append(delivered, Head(Arrived))
  /\ UNCHANGED typed

\* CpuView::input()
In(port, n) ==
  \/ /\ Device(port) = "KB"
     /\ ReadKb /\ Clock(vdc, FALSE, n) /\ UNCHANGED <<memoryVars, aborted>>
  \/ /\ Device(port) = "VDC"
     /\ input' = ReadByte(vdc, port)
     /\ Clock(ReadBy(vdc, port), FALSE, n) /\ OffKeyboard /\ UNCHANGED <<memoryVars, aborted>>
  \/ /\ Device(port) \in {"BANK", "HD", "none"}
     /\ input' \in CASE Device(port) = "BANK" -> {bank}
                     [] Device(port) = "HD" -> HdBytes
                     [] OTHER -> {0}
     /\ Clock(vdc, FALSE, n) /\ OffKeyboard /\ UNCHANGED <<memoryVars, aborted>>
  \/ /\ Device(port) = "IC"             \* no device of the machine interrupts
     /\ aborted' = TRUE
     /\ OffKeyboard /\ UNCHANGED <<memoryVars, screenVars, input>>

\* CpuView::output().  What is written to the keyboard is printed, which may fail;
\* what the ATA bus does with a byte is module Card's.
Out(port, data, n) ==
  /\ OffKeyboard /\ UNCHANGED input
  /\ \/ /\ Device(port) = "KB"
        /\ aborted' \in BOOLEAN
        /\ Clock(vdc, FALSE, n) /\ UNCHANGED memoryVars
     \/ /\ Device(port) = "BANK"
        /\ Select(data)
        /\ Clock(vdc, FALSE, n) /\ UNCHANGED aborted
     \/ /\ Device(port) = "VDC"
        /\ Clock(Written(vdc, port, data), TRUE, n) /\ UNCHANGED <<memoryVars, aborted>>
     \/ /\ Device(port) \in {"IC", "HD", "none"}
        /\ Clock(vdc, FALSE, n) /\ UNCHANGED <<memoryVars, aborted>>

-----------------------------------------------------------------------------
\* The host: the user types, or something else happens; 16 ms go by.
Happen(event) ==
  /\ ~Panicked
  /\ Len(pending) < MaxPending /\ Len(typed) + Len(event) <= MaxTyped
  /\ pending' = Append(pending, event)
  /\ typed' = typed \o event
  /\ UNCHANGED <<memoryVars, screenVars, input, aborted, buffer, due, delivered>>

TimePasses ==
  /\ ~Panicked /\ ~due
  /\ due' = TRUE
  /\ UNCHANGED <<memoryVars, screenVars, input, aborted, buffer, pending, typed, delivered>>

Host == TimePasses \/ \E e \in Events : Happen(e)
=============================================================================
