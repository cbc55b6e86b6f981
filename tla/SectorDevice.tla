---------------------------- MODULE SectorDevice ----------------------------
(***************************************************************************)
(* What a guest program may rely on when it uses the disk through the      *)
(* routines of software/hello_hd.az8: a store of sectors, one of them      *)
(* selected, read and written whole, one request at a time.                *)
(*                                                                         *)
(* A write takes effect in one step.  When it reports success everything   *)
(* written so far survives a loss of power; when it reports failure, or    *)
(* the emulator is killed meanwhile, only the sector being written is in   *)
(* doubt ("dirty"), until a later write succeeds.                          *)
(***************************************************************************)
EXTENDS Integers

CONSTANTS
  Sectors,      \* the sectors of the disk
  BadSectors,   \* addresses past its end
  NoSector,     \* no address selected
  SectorSize,
  Byte

Data == [0 .. SectorSize - 1 -> Byte]
Requests == {"none", "seek", "features", "identify", "read", "write"}
Idle == [op |-> "none", sector |-> NoSector, phase |-> "started"]

VARIABLES
  disk,         \* disk[s]: what a read of s returns
  stable,       \* stable[s]: what a read of s returns after a power loss
  dirty,        \* the sectors that may be lost
  selected,     \* the address the next request is about
  request,      \* the request in progress
  buffer,       \* the guest's sector buffer
  failed        \* the last request reported an error

vars == <<disk, stable, dirty, selected, request, buffer, failed>>

Init ==
  /\ disk \in [Sectors -> Data]
  /\ stable = disk
  /\ dirty = {}
  /\ selected = NoSector
  /\ request = Idle
  /\ buffer \in Data
  /\ failed = FALSE

-----------------------------------------------------------------------------
\* The guest puts data in its buffer between requests.
Fill ==
  /\ request = Idle
  /\ buffer' \in Data
  /\ UNCHANGED <<disk, stable, dirty, selected, request, failed>>

Start(op, s) ==
  /\ request = Idle
  /\ request' = [op |-> op, sector |-> s, phase |-> "started"]
  /\ selected' = IF op = "seek" THEN NoSector ELSE selected
  /\ UNCHANGED <<disk, stable, dirty, buffer, failed>>

\* Data arrives in the guest's buffer while it reads.
Receive ==
  /\ request.op \in {"identify", "read"}
  /\ buffer' \in Data
  /\ UNCHANGED <<disk, stable, dirty, selected, request, failed>>

Writing(s) ==
  request.op = "write" /\ request.phase = "started" /\ selected = s

\* The whole sector is written, and with luck the whole disk made stable.
Store(ok) ==
  /\ selected \in Sectors /\ Writing(selected)
  /\ disk' = [disk EXCEPT ![selected] = buffer]
  /\ stable' = IF ok THEN disk' ELSE stable
  /\ dirty' = IF ok THEN {} ELSE dirty \cup {selected}
  /\ request' = [request EXCEPT !.phase = IF ok THEN "stored" ELSE "failed"]
  /\ UNCHANGED <<selected, buffer, failed>>

Reply(error) ==
  /\ request' = Idle
  /\ failed' = error
  /\ UNCHANGED <<disk, stable, dirty, buffer>>

Finish ==
  \/ /\ request.op = "seek"
     /\ selected' = request.sector
     /\ Reply(FALSE)
  \/ /\ request.op \in {"features", "identify"}
     /\ Reply(FALSE)
     /\ UNCHANGED selected
  \/ /\ request.op = "read"
     /\ selected \in Sectors => buffer = disk[selected]
     /\ Reply(selected \notin Sectors)
     /\ UNCHANGED selected
  \/ /\ request.op = "write"
     /\ selected \in Sectors => request.phase # "started"
     /\ Reply(request.phase # "stored")
     /\ UNCHANGED selected

-----------------------------------------------------------------------------
\* A byte of a sector becomes stable behind the guest's back, the one it holds
\* or the one being written over it.
Settle(s, i) ==
  /\ \E b \in {disk[s][i]} \cup (IF Writing(s) THEN {buffer[i]} ELSE {}) :
       stable' = [stable EXCEPT ![s][i] = b]
  /\ UNCHANGED <<disk, dirty, selected, request, buffer, failed>>

Reboot ==
  /\ request' = Idle
  /\ selected' = NoSector
  /\ buffer' \in Data
  /\ failed' = FALSE
  /\ UNCHANGED stable

PowerLoss ==
  /\ disk' = stable
  /\ dirty' = {}
  /\ Reboot

\* The emulator is killed: at most the sector being written is torn, each of
\* its bytes old or new.
Restart ==
  /\ Reboot
  /\ \/ UNCHANGED <<disk, dirty>>
     \/ /\ selected \in Sectors /\ Writing(selected)
        /\ \E new \in SUBSET (0 .. SectorSize - 1) :
             disk' = [disk EXCEPT ![selected] =
                        [i \in DOMAIN @ |-> IF i \in new THEN buffer[i] ELSE @[i]]]
        /\ dirty' = dirty \cup {selected}

Next ==
  \/ Fill
  \/ \E s \in Sectors \cup BadSectors : Start("seek", s)
  \/ \E op \in Requests \ {"none", "seek"} : Start(op, NoSector)
  \/ Receive
  \/ \E ok \in BOOLEAN : Store(ok)
  \/ Finish
  \/ \E s \in Sectors, i \in 0 .. SectorSize - 1 : Settle(s, i)
  \/ PowerLoss
  \/ Restart

Spec == Init /\ [][Next]_vars
=============================================================================
