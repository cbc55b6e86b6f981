------------------------------ MODULE HdDriver ------------------------------
(***************************************************************************)
(* The guest's disk routines (software/hello_hd.az8:144-232) on the CPU,   *)
(* driving the card on the ATA bus.  One step is one port access: the      *)
(* instructions between two accesses touch only the CPU's registers and    *)
(* the guest's sector buffer.                                              *)
(*                                                                         *)
(* The caller of the routines is any guest program: it calls them in any   *)
(* order, selects sectors that HdIdent says exist and writes only those;   *)
(* it may also probe with a read past the end of the image.                *)
(***************************************************************************)
EXTENDS Card

CONSTANTS
  ProbeLbas,    \* addresses past the image the caller reads
  Calls,        \* the routines the caller uses, besides HdLba
  Payloads,     \* the data the caller puts in SECTOR_BUF
  InfoByte,     \* the bytes of the device information
  NoSector

VARIABLES
  op,           \* the routine running, "none" when the caller runs
  at,           \* the port access it makes next
  arg,          \* DE:HL of HdLba
  moved,        \* SECTOR_SIZE - DE of HdBufIn and HdBufOut
  buf,          \* SECTOR_BUF
  failed,       \* the carry flag the last routine returned
  before,       \* history: the contents of the sector being overwritten
  dirty         \* history: sectors whose last write was not flushed

driverVars == <<op, at, arg, moved, buf, failed, before, dirty>>
hdVars == <<registers, card, mmap, file, panicked, driverVars>>

Offsets == 0 .. SectorSize - 1
Data == [Offsets -> Byte]
None == <<>>

\* The sectors that device_info() reports: whole ones only.
Sectors == 0 .. ImageLen[0] \div SectorSize - 1

\* The bytes of an address as HdLba takes them from its registers.
E(l) == l % RegBase
D(l) == (l \div RegBase) % RegBase
L(l) == ((l \div RegBase) \div RegBase) % RegBase
H(l) == (((l \div RegBase) \div RegBase) \div RegBase) % RegBase

ASSUME ProbeAssumption ==
  \A l \in ProbeLbas : l * SectorSize > ImageLen[0]
\* HdLba sends the addresses the caller uses, 28 bits: a disk has fewer than
\* 2^28 sectors.
ASSUME AddressAssumption ==
  \A l \in Sectors \cup ProbeLbas :
    /\ l \in Lbas
    /\ E(l) \in SectorRegs /\ {D(l), L(l)} \subseteq CylRegs /\ H(l) \in HeadRegs
ASSUME FeatureAssumption == "data_width" \in FeatureRegs
ASSUME CallsAssumption == Calls \subseteq {"features", "identify", "read", "write"}
ASSUME DataAssumption == InfoByte \in Byte /\ Payloads \subseteq Data
ASSUME NoSectorAssumption == NoSector \notin Lbas

Ops == {"none", "lba", "features", "identify", "read", "write"}
Accesses ==
  {"idle", "sec_num", "cyl_lo", "cyl_hi", "head", "wait", "feature", "command",
   "check_wait", "check", "error", "data_wait", "data"}

HdTypeOK ==
  /\ TypeOK
  /\ op \in Ops /\ at \in Accesses
  /\ arg \in Lbas
  /\ moved \in 0 .. SectorSize
  /\ buf \in Data
  /\ failed \in BOOLEAN
  /\ before \in Data \cup {None}
  /\ dirty \subseteq Sectors

\* The contents of a sector in an image.
SectorOf(image, s) == [i \in Offsets |-> image[s * SectorSize + i]]

ClearBuf == [i \in Offsets |-> InfoByte]

HdInit ==
  /\ Init
  /\ op = "none" /\ at = "idle" /\ arg = 0 /\ moved = 0
  /\ buf = ClearBuf
  /\ failed = FALSE
  /\ before = None
  /\ dirty = {}

-----------------------------------------------------------------------------
\* The caller.
Selected == IF registers.lba_mode THEN RegisterLba ELSE NoSector

Call(o) ==
  /\ op = "none" /\ ~panicked
  /\ o = "write" => Selected \in Sectors \cup {NoSector}
  /\ op' = o
  /\ at' = "wait"
  /\ UNCHANGED <<vars, arg, moved, buf, failed, before, dirty>>

CallLba(l) ==
  /\ op = "none" /\ ~panicked
  /\ op' = "lba" /\ at' = "sec_num" /\ arg' = l
  /\ UNCHANGED <<vars, moved, buf, failed, before, dirty>>

FillBuf(data) ==
  /\ op = "none" /\ ~panicked
  /\ buf' = data
  /\ UNCHANGED <<vars, op, at, arg, moved, failed, before, dirty>>

-----------------------------------------------------------------------------
\* A routine goes to its next access, or returns with carry as told and leaves
\* nothing in the CPU's registers that a caller uses.
Goto(access) == at' = access /\ UNCHANGED <<op, arg, moved, failed>>
Return(carry) ==
  op' = "none" /\ at' = "idle" /\ arg' = 0 /\ moved' = 0 /\ failed' = carry

\* HdLba: four ports, the LBA mode and drive 0 with the last.
HdLba ==
  /\ op = "lba"
  /\ \/ at = "sec_num" /\ WriteSectorNumber(E(arg)) /\ Goto("cyl_lo")
     \/ at = "cyl_lo" /\ WriteCylinderLow(D(arg)) /\ Goto("cyl_hi")
     \/ at = "cyl_hi" /\ WriteCylinderHigh(L(arg)) /\ Goto("head")
     \/ at = "head" /\ WriteDriveHead(0, TRUE, H(arg)) /\ Return(FALSE)
  /\ UNCHANGED <<buf, before, dirty>>

\* HdWait: polls the status until the card is not busy.
HdWait(access, next) ==
  /\ at = access
  /\ ReadStatus
  /\ Goto(IF "BUSY" \in card[Sel].status THEN access ELSE next)
  /\ UNCHANGED <<buf, before, dirty>>

\* Hd8Bit writes the feature register before the command.
HdFeature ==
  /\ at = "feature"
  /\ WriteFeature("data_width")
  /\ Goto("command")
  /\ UNCHANGED <<buf, before, dirty>>

HdCommand ==
  /\ at = "command"
  /\ \/ op = "features" /\ SetFeatures
     \/ op = "identify" /\ Identify
     \/ op = "read" /\ ReadSectors
     \/ op = "write" /\ WriteSectors
  /\ before' = IF op = "write" /\ card'[Sel].state = "WriteSectors"
                    /\ "ERR" \notin card'[Sel].status
               THEN SectorOf(mmap[Sel], card'[Sel].lba) ELSE before
  /\ Goto("check_wait")
  /\ UNCHANGED <<buf, dirty>>

\* Fault: ERR is not looked at.
HdErrIgnored ==
  /\ at = "check"
  /\ ReadStatus
  /\ IF op = "features" \/ moved = SectorSize THEN Return(FALSE)
                                             ELSE Goto("data_wait")
  /\ UNCHANGED <<buf, before, dirty>>

\* HdErr, after its HdWait: without ERR the routine goes on, or returns when it
\* has no data to move or has moved it.
HdErr ==
  /\ at = "check"
  /\ ReadStatus
  /\ IF "ERR" \in card[Sel].status
     THEN Goto("error")
     ELSE IF op = "features" \/ moved = SectorSize
          THEN Return(FALSE)
          ELSE Goto("data_wait")
  /\ UNCHANGED <<buf, before, dirty>>

\* The rest of HdErr: the error register goes to A.
HdErrCode ==
  /\ at = "error"
  /\ Return(TRUE)
  /\ UNCHANGED <<vars, buf, before, dirty>>

NextByte ==
  /\ moved' = moved + 1
  /\ at' = IF moved + 1 = SectorSize THEN "check_wait" ELSE "data_wait"
  /\ UNCHANGED <<op, arg, failed>>

\* HdBufIn: a card that is not sending anything is read as 0.
HdBufIn ==
  /\ at = "data" /\ op \in {"identify", "read"}
  /\ CASE card[Sel].state = "IdentifyDevice" ->
            ReadInfo /\ buf' = [buf EXCEPT ![moved] = InfoByte]
       [] card[Sel].state = "ReadSectors" ->
            /\ ReadData
            /\ buf' = IF panicked' THEN buf ELSE [buf EXCEPT ![moved] = DataIn]
       [] OTHER -> UNCHANGED vars /\ buf' = [buf EXCEPT ![moved] = 0]
  /\ NextByte
  /\ UNCHANGED <<before, dirty>>

\* HdBufOut: a card that expects nothing ignores the byte.
HdBufOut ==
  /\ at = "data" /\ op = "write"
  /\ IF card[Sel].state = "WriteSectors" THEN WriteData(buf[moved])
                                         ELSE UNCHANGED vars
  /\ NextByte
  /\ IF moved + 1 # SectorSize
     THEN UNCHANGED <<before, dirty>>
     ELSE /\ before' = None
          /\ dirty' = IF "ERR" \in card'[Sel].status
                      THEN dirty \cup {card[Sel].lba} ELSE {}
  /\ UNCHANGED buf

-----------------------------------------------------------------------------
\* The guest's program starts over with the emulator.
Reboot ==
  /\ Return(FALSE)
  /\ buf' = ClearBuf
  /\ before' = None

HdRestart ==
  /\ Restart
  /\ Reboot
  /\ dirty' = IF before = None THEN dirty ELSE dirty \cup {card[0].lba}

HdPowerLoss ==
  /\ PowerLoss
  /\ Reboot
  /\ dirty' = {}

HdWriteBack(i) == WriteBack(0, i) /\ UNCHANGED driverVars

-----------------------------------------------------------------------------
Caller ==
  \/ \E o \in Calls : Call(o)
  \/ \E l \in Sectors \cup ProbeLbas : CallLba(l)
  \/ \E data \in Payloads : FillBuf(data)

Routine ==
  \/ HdLba
  \/ HdWait("wait", IF op = "features" THEN "feature" ELSE "command")
  \/ HdFeature
  \/ HdCommand
  \/ HdWait("check_wait", "check")
  \/ HdErr
  \/ HdErrCode
  \/ HdWait("data_wait", "data")
  \/ HdBufIn
  \/ HdBufOut

HdHost ==
  \/ \E i \in 0 .. ImageLen[0] - 1 : HdWriteBack(i)
  \/ HdRestart
  \/ HdPowerLoss

HdNext == Caller \/ Routine \/ HdHost

\* The emulator's loop executes one instruction after another (main.rs:76), so
\* a routine that can go on does.
HdSpec == HdInit /\ [][HdNext]_hdVars /\ WF_hdVars(Routine)

-----------------------------------------------------------------------------
(***************************************************************************)
(* Properties.                                                             *)
(***************************************************************************)

\* As long as the caller keeps to the sectors of the image, no sequence of
\* routines makes the card index past it or run into its todo!s, although it
\* keeps a write command open after the last byte (ata/mod.rs:206-218) and an
\* LBA of an aborted one.
NoPanic == ~panicked

\* What HdWrite has reported written is on the disk of the host: every sector
\* but the ones whose write failed or was cut short, and the one being written,
\* is the same after a power loss (ata/mod.rs:211-216, hello_hd.az8:168-215).
AcknowledgedSurvives ==
  \A s \in Sectors \ dirty :
    \/ SectorOf(file[0], s) = SectorOf(mmap[0], s)
    \/ before # None /\ s = card[0].lba

\* Every routine comes back to its caller, whatever the card answers.
RoutinesReturn == op # "none" ~> op = "none"

\* The routines use the card as a device of whole sectors.
disk ==
  [s \in Sectors |-> IF before # None /\ s = card[0].lba
                     THEN before ELSE SectorOf(mmap[0], s)]
stable == [s \in Sectors |-> SectorOf(file[0], s)]
selected == IF op = "lba" THEN NoSector ELSE Selected
request ==
  [op |-> IF op = "lba" THEN "seek" ELSE op,
   sector |-> IF op = "lba" THEN arg ELSE NoSector,
   phase |-> IF op # "write" \/ moved # SectorSize THEN "started"
             ELSE IF "ERR" \in card[0].status THEN "failed" ELSE "stored"]

Device == INSTANCE SectorDevice WITH BadSectors <- ProbeLbas, buffer <- buf

\* Every behaviour of the routines over the card is one of a device whose
\* sectors are read and written atomically, whose acknowledged writes survive
\* a power loss and whose failures touch one sector only.
ImplementsSectorDevice == Device!Spec
=============================================================================
