-------------------------------- MODULE Card --------------------------------
(***************************************************************************)
(* The ATA bus of the machine (emu/src/ata/mod.rs): the shared task-file   *)
(* registers and one or two Compact Flash cards, each over a memory-mapped *)
(* disk image.                                                             *)
(*                                                                         *)
(* Every action is one guest access to one port.  Accesses that change     *)
(* nothing (reading a task-file register, the data port of an idle card,   *)
(* any access to a drive that is not fitted) are not actions.  The status  *)
(* and error registers are sets of the names of their set bits.            *)
(*                                                                         *)
(* External to the code: `file', the bytes the host has made durable, and  *)
(* the way the host's mmap behaves (Flush, WriteBack, PowerLoss).          *)
(***************************************************************************)
EXTENDS Integers, FiniteSets

CONSTANTS
  Drives,       \* the drives fitted: {0}, or {0, 1} when card1 is Some
  SectorSize,   \* Card::SECTOR_SIZE
  ImageLen,     \* ImageLen[d] is mmap.len() of drive d, in bytes
  Byte,         \* the data bytes
  Erased,       \* the byte an erase leaves, 0xFF
  RegBase,      \* number of values of an 8-bit LBA register
  SectorRegs,   \* values the guest puts in the sector number register
  CylRegs,      \* values the guest puts in a cylinder register
  HeadRegs,     \* values the guest puts in the low nibble of drive/head
  FeatureRegs   \* values the guest puts in the feature register

ASSUME DrivesAssumption == 0 \in Drives /\ Drives \subseteq {0, 1}
ASSUME SizesAssumption ==
  /\ SectorSize \in Nat \ {0}
  /\ RegBase \in Nat \ {0}
  /\ ImageLen \in [Drives -> Nat]
ASSUME ByteAssumption == Erased \in Byte
\* Feature codes 0x01 and 0x02 set is_8_bit, which nothing reads: it is left
\* out, like the sector count, which is only read back.
Features == {"data_width", "other"}

ASSUME RegsAssumption ==
  /\ SectorRegs \subseteq 0 .. RegBase - 1
  /\ CylRegs \subseteq 0 .. RegBase - 1
  /\ HeadRegs \subseteq 0 .. RegBase - 1
  /\ 0 \in SectorRegs \cap CylRegs \cap HeadRegs
  /\ FeatureRegs \subseteq Features /\ "other" \in FeatureRegs

VARIABLES
  registers,    \* CardBus.registers
  card,         \* card[d]: CardBus.card0, CardBus.card1
  mmap,         \* mmap[d]: the mapped image as the emulator sees it
  file,         \* file[d]: the bytes of the image that survive a power loss
  panicked      \* the emulator has panicked (index out of bounds, todo!)

vars == <<registers, card, mmap, file, panicked>>

Statuses == {"ERR", "DRQ", "DSC", "RDY", "BUSY"}
Errors == {"AMNF", "ABRT", "IDNF", "BBK"}
States == {"None", "IdentifyDevice", "ReadSectors", "WriteSectors"}
Lbas == 0 .. RegBase * (RegBase * (RegBase * RegBase)) - 1

Registers ==
  [feature: FeatureRegs, sector_number: SectorRegs, cylinder_low: CylRegs,
   cylinder_high: CylRegs, head: HeadRegs, lba_mode: BOOLEAN, drive: {0, 1}]

Cards ==
  [interrupt: BOOLEAN, state: States,
   error: SUBSET Errors, status: SUBSET Statuses,
   lba: Lbas, sector_offset: Nat]

\* A disk image per drive, each of its drive's length.
Image(d) == [0 .. ImageLen[d] - 1 -> Byte]
Images ==
  {m \in [Drives -> UNION {Image(d) : d \in Drives}] :
     \A d \in Drives : m[d] \in Image(d)}

\* The type of every variable.
TypeOK ==
  /\ registers \in Registers
  /\ card \in [Drives -> Cards]
  /\ mmap \in Images
  /\ file \in Images
  /\ panicked \in BOOLEAN

-----------------------------------------------------------------------------
NewCard ==
  [interrupt |-> FALSE, state |-> "None",
   error |-> {}, status |-> {"RDY", "DSC"}, lba |-> 0, sector_offset |-> 0]

NewRegisters ==
  [feature |-> "other", sector_number |-> 0, cylinder_low |-> 0,
   cylinder_high |-> 0, head |-> 0, lba_mode |-> FALSE, drive |-> 0]

Init ==
  /\ registers = NewRegisters
  /\ card = [d \in Drives |-> NewCard]
  /\ mmap \in Images
  /\ file = mmap
  /\ panicked = FALSE

-----------------------------------------------------------------------------
Sel == registers.drive

\* The selected card exists and obeys: the code tests BUSY before anything.
Ready ==
  /\ ~panicked
  /\ Sel \in Drives
  /\ "BUSY" \notin card[Sel].status

\* The LBA that a command latches from the task file, low byte first.
RegisterLba ==
  registers.sector_number
    + RegBase * (registers.cylinder_low
      + RegBase * (registers.cylinder_high
        + RegBase * registers.head))

\* The bytes of the sector the card has latched, and the byte next to move.
SectorStart(c) == c.lba * SectorSize
Sector(c) == SectorStart(c) .. SectorStart(c) + SectorSize - 1
Position(c) == SectorStart(c) + c.sector_offset

SetCard(c) == card' = [card EXCEPT ![Sel] = c]

\* Fault: the image is not flushed.
FlushNothing(ok) == file' = file

\* mmap.flush() of the selected drive: when it succeeds the whole image is
\* durable, when it fails nothing more is known to be.
Flush(ok) ==
  file' = IF ok THEN [file EXCEPT ![Sel] = mmap'[Sel]] ELSE file

\* Every command latches the LBA and forgets the last error.
Latched ==
  [card[Sel] EXCEPT !.lba = RegisterLba, !.error = {}, !.status = @ \ {"ERR"}]

\* Fault: the bit of one register is set in the other.
FailWrongRegister(c, errors) == [c EXCEPT !.error = @ \cup {"ERR"}]

\* Fault: ERR is forgotten.
FailSilently(c, errors) == [c EXCEPT !.error = @ \cup errors]

Fail(c, errors) ==
  [c EXCEPT !.error = @ \cup errors, !.status = @ \cup {"ERR"}]

Unsupported == {"AMNF", "ABRT"}
NoLbaMode == {"AMNF", "IDNF", "ABRT"}
BadLba == {"AMNF", "IDNF"}
WriteFault == {"AMNF", "BBK"}

-----------------------------------------------------------------------------
\* Ports 1 to 6: the task-file registers, shared by both drives.
WriteFeature(f) ==
  /\ ~panicked
  /\ registers' = [registers EXCEPT !.feature = f]
  /\ UNCHANGED <<card, mmap, file, panicked>>

WriteSectorNumber(v) ==
  /\ ~panicked
  /\ registers' = [registers EXCEPT !.sector_number = v]
  /\ UNCHANGED <<card, mmap, file, panicked>>

WriteCylinderLow(v) ==
  /\ ~panicked
  /\ registers' = [registers EXCEPT !.cylinder_low = v]
  /\ UNCHANGED <<card, mmap, file, panicked>>

WriteCylinderHigh(v) ==
  /\ ~panicked
  /\ registers' = [registers EXCEPT !.cylinder_high = v]
  /\ UNCHANGED <<card, mmap, file, panicked>>

WriteDriveHead(d, lba, h) ==
  /\ ~panicked
  /\ registers' = [registers EXCEPT !.drive = d, !.lba_mode = lba, !.head = h]
  /\ UNCHANGED <<card, mmap, file, panicked>>

\* Fault: both drives' interrupts are acknowledged.
ReadStatusOfBoth ==
  /\ ~panicked
  /\ Sel \in Drives
  /\ card' = [d \in Drives |-> [card[d] EXCEPT !.interrupt = FALSE]]
  /\ UNCHANGED <<registers, mmap, file, panicked>>

\* Port 7, read: reading the status acknowledges the interrupt of the
\* selected drive.
ReadStatus ==
  /\ ~panicked
  /\ Sel \in Drives
  /\ SetCard([card[Sel] EXCEPT !.interrupt = FALSE])
  /\ UNCHANGED <<registers, mmap, file, panicked>>

-----------------------------------------------------------------------------
\* Port 7, write: the commands.  Each is a whole call of write_command().

\* A command that touches neither the image nor the file.
Command(c) ==
  /\ Ready
  /\ SetCard(c)
  /\ UNCHANGED <<registers, mmap, file, panicked>>

\* Fault: the offset of the last transfer is kept.
BeginWhereLeft(c, state) ==
  [c EXCEPT !.status = @ \cup {"DRQ"}, !.state = state]

\* Fault: the card says it is busy and never clears it.
BeginBusy(c, state) ==
  [c EXCEPT !.sector_offset = 0, !.status = @ \cup {"DRQ", "BUSY"},
            !.state = state]

\* Begins the transfer of a sector (or of the device information).
Begin(c, state) ==
  [c EXCEPT !.sector_offset = 0, !.status = @ \cup {"DRQ"}, !.state = state]

\* Data commands are refused in CHS mode.
Refuse ==
  /\ ~registers.lba_mode
  /\ Command(Fail(Latched, NoLbaMode))

\* 0x90: error code 1 means "no error detected".
Diagnostic == Command([Latched EXCEPT !.error = {"AMNF"}])

\* 0xEC
Identify ==
  Command([Begin(Latched, "IdentifyDevice") EXCEPT !.interrupt = TRUE])

\* 0x00
Nop == Command(Fail(Latched, Unsupported))

\* Any code that is no command.
Invalid == Command(Fail(Latched, Unsupported))

\* 0xEF
SetFeatures ==
  \/ /\ registers.feature = "other"
     /\ Command(Fail(Latched, Unsupported))
  \/ /\ registers.feature # "other"
     /\ Command(Latched)

\* Fault: the LBA is not checked.
ReadUnchecked ==
  \/ Refuse
  \/ /\ registers.lba_mode
     /\ Command([Begin(Latched, "ReadSectors") EXCEPT !.interrupt = TRUE])

\* 0x20, 0x21: a bad LBA leaves the command state as it was.
ReadSectors ==
  \/ Refuse
  \/ /\ Ready /\ registers.lba_mode
     /\ ImageLen[Sel] < SectorStart(Latched)
     /\ Command(Fail([Latched EXCEPT !.interrupt = TRUE, !.sector_offset = 0],
                     BadLba))
  \/ /\ Ready /\ registers.lba_mode
     /\ ImageLen[Sel] >= SectorStart(Latched)
     /\ Command([Begin(Latched, "ReadSectors") EXCEPT !.interrupt = TRUE])

\* 0x40, 0x41: the disk is assumed fine.
ReadVerify ==
  \/ Refuse
  \/ /\ registers.lba_mode
     /\ Command([Latched EXCEPT !.interrupt = TRUE])

\* 0x30, 0x31, 0x38, 0x3C: the LBA is not compared with the image.
WriteSectors ==
  \/ Refuse
  \/ /\ registers.lba_mode
     /\ Command(Begin(Latched, "WriteSectors"))

\* 0xC0: erases byte by byte and flushes; past the image the index panics.
EraseSectors ==
  \/ Refuse
  \/ /\ Ready /\ registers.lba_mode
     /\ mmap' = [mmap EXCEPT ![Sel] =
                   [i \in DOMAIN @ |-> IF i \in Sector(Latched) THEN Erased
                                                              ELSE @[i]]]
     /\ \/ /\ SectorStart(Latched) + SectorSize <= ImageLen[Sel]
           /\ \E ok \in BOOLEAN :
                /\ Flush(ok)
                /\ SetCard(IF ok THEN Latched ELSE Fail(Latched, WriteFault))
           /\ UNCHANGED panicked
        \/ /\ SectorStart(Latched) + SectorSize > ImageLen[Sel]
           /\ SetCard(Latched)
           /\ panicked' = TRUE
           /\ UNCHANGED file
     /\ UNCHANGED registers

\* 0x03: todo!()
RequestSense ==
  /\ Ready
  /\ SetCard(Latched)
  /\ panicked' = TRUE
  /\ UNCHANGED <<registers, mmap, file>>

-----------------------------------------------------------------------------
\* Port 0: the data port.
Moved == [card[Sel] EXCEPT !.sector_offset = @ + 1]

\* The index of the data port runs off the image.
DataPanic ==
  /\ Position(card[Sel]) >= ImageLen[Sel]
  /\ panicked' = TRUE
  /\ UNCHANGED <<registers, card, mmap, file>>

\* The byte a data port read returns while a sector is being read.
DataIn == mmap[Sel][Position(card[Sel])]

\* Fault: the end of the identification leaves DRQ set.
ReadInfoKeepsDrq ==
  /\ Ready /\ card[Sel].state = "IdentifyDevice"
  /\ SetCard(IF Moved.sector_offset = SectorSize
               THEN [Moved EXCEPT !.error = {}, !.state = "None"]
               ELSE Moved)
  /\ UNCHANGED <<registers, mmap, file, panicked>>

ReadInfo ==
  /\ Ready /\ card[Sel].state = "IdentifyDevice"
  /\ SetCard(IF Moved.sector_offset = SectorSize
               THEN [Moved EXCEPT !.error = {}, !.status = @ \ {"DRQ"},
                                  !.state = "None"]
               ELSE Moved)
  /\ UNCHANGED <<registers, mmap, file, panicked>>

ReadData ==
  /\ Ready /\ card[Sel].state = "ReadSectors"
  /\ \/ DataPanic
     \/ /\ Position(card[Sel]) < ImageLen[Sel]
        /\ SetCard(IF Moved.sector_offset = SectorSize
                     THEN [Moved EXCEPT !.status = @ \ {"DRQ"}, !.state = "None"]
                     ELSE Moved)
        /\ UNCHANGED <<registers, mmap, file, panicked>>

\* The last byte of a sector flushes the image; the command state stays.
WriteData(data) ==
  /\ Ready /\ card[Sel].state = "WriteSectors"
  /\ \/ DataPanic
     \/ /\ Position(card[Sel]) < ImageLen[Sel]
        /\ mmap' = [mmap EXCEPT ![Sel][Position(card[Sel])] = data]
        /\ \/ /\ Moved.sector_offset # SectorSize
              /\ SetCard(Moved)
              /\ UNCHANGED file
           \/ /\ Moved.sector_offset = SectorSize
              /\ \E ok \in BOOLEAN :
                   /\ Flush(ok)
                   /\ SetCard(IF ok THEN Moved
                               ELSE Fail([Moved EXCEPT !.status = @ \ {"DRQ"}],
                                         WriteFault))
        /\ UNCHANGED <<registers, panicked>>

-----------------------------------------------------------------------------
\* The host.  The kernel writes a mapped byte back whenever it likes.
WriteBack(d, i) ==
  /\ file' = [file EXCEPT ![d][i] = mmap[d][i]]
  /\ UNCHANGED <<registers, card, mmap, panicked>>

\* The emulator is started again: CardBus::new over the mapped image.
Restart ==
  /\ registers' = NewRegisters
  /\ card' = [d \in Drives |-> NewCard]
  /\ panicked' = FALSE
  /\ UNCHANGED <<mmap, file>>

\* The host loses power and comes back: what was not durable is gone.
PowerLoss ==
  /\ registers' = NewRegisters
  /\ card' = [d \in Drives |-> NewCard]
  /\ panicked' = FALSE
  /\ mmap' = file
  /\ UNCHANGED file

-----------------------------------------------------------------------------
TaskFile ==
  \/ \E f \in FeatureRegs : WriteFeature(f)
  \/ \E v \in SectorRegs : WriteSectorNumber(v)
  \/ \E v \in CylRegs : WriteCylinderLow(v)
  \/ \E v \in CylRegs : WriteCylinderHigh(v)
  \/ \E d \in {0, 1}, lba \in BOOLEAN, h \in HeadRegs : WriteDriveHead(d, lba, h)

Commands ==
  \/ Diagnostic
  \/ EraseSectors
  \/ Identify
  \/ Nop
  \/ ReadSectors
  \/ ReadVerify
  \/ RequestSense
  \/ SetFeatures
  \/ WriteSectors
  \/ Invalid

DataPort ==
  \/ ReadInfo
  \/ ReadData
  \/ \E b \in Byte : WriteData(b)

Guest == TaskFile \/ ReadStatus \/ Commands \/ DataPort

Host ==
  \/ \E d \in Drives : \E i \in 0 .. ImageLen[d] - 1 : WriteBack(d, i)
  \/ Restart
  \/ PowerLoss

Next == Guest \/ Host

Spec == Init /\ [][Next]_vars

-----------------------------------------------------------------------------
(***************************************************************************)
(* Properties.                                                             *)
(***************************************************************************)

\* A card that is handing out a sector or its device information stays inside
\* it, whatever commands, resets of the offset and failures came before: the
\* 512-byte device_info is never indexed past its end, and a read never runs
\* on into the next sector (ata/mod.rs:168-188).
TransferInSector ==
  \A d \in Drives :
    card[d].state \in {"IdentifyDevice", "ReadSectors"}
      => card[d].sector_offset < SectorSize

\* DRQ tells the guest the truth about reads: it is set as long as there is
\* something to read, and an idle card never asks for a transfer.  Only a write
\* whose flush failed is without DRQ and not idle (ata/mod.rs:160-220).
DataRequestTracksTransfer ==
  \A d \in Drives :
    /\ card[d].state = "None" => "DRQ" \notin card[d].status
    /\ card[d].state \in {"IdentifyDevice", "ReadSectors"}
         => "DRQ" \in card[d].status

\* No failure is silent: an error code that is not the diagnostic's "1 means no
\* error" is never in the error register without ERR in the status, although
\* the two are cleared and set in different places (ata/mod.rs:172-175,
\* 211-216, 237-238).
NoSilentFailure ==
  \A d \in Drives :
    "ERR" \notin card[d].status => card[d].error \subseteq {"AMNF"}

\* The drives share their registers and nothing else: a guest's access changes
\* at most the drive selected before it, and a change of the registers leaves
\* a transfer in progress on either drive where it was (ata/mod.rs:452-504).
DriveIsolation ==
  [][\A d \in Drives :
       \/ Restart \/ PowerLoss
       \/ /\ d # Sel \/ registers' # registers
             => card'[d] = card[d] /\ mmap'[d] = mmap[d]]_vars

\* What the identification says of a card, "multiple sector read/writes *NOT*
\* allowed" (ata/mod.rs:131): one write command changes bytes of one sector,
\* the one it was given.  write_data() does not end the command after the
\* last byte of the sector, so the next byte goes into the next sector.
OneSectorPerWrite ==
  [][\A d \in Drives : \A i \in DOMAIN mmap[d] :
       mmap'[d][i] # mmap[d][i] =>
         \/ Restart \/ PowerLoss
         \/ i \in Sector(card[d]) \/ i \in Sector(card'[d])]_vars

\* "ID not found (bad lba)" (ata/mod.rs:39): a sector whose bytes are not all
\* in the image is refused by a read.  The bound compares the image's length
\* with the sector's first byte and lets the sector at the end through.
BadLbaRefused ==
  \A d \in Drives :
    card[d].state = "ReadSectors"
      => SectorStart(card[d]) + SectorSize <= ImageLen[d]
=============================================================================
