----------------------------- MODULE DiskProofs -----------------------------
(***************************************************************************)
(* Theorems about Card, for any sector size, images and registers, and     *)
(* about HdDriver, for any callers: the routines never make the card       *)
(* panic, what they report written survives, and they implement            *)
(* SectorDevice step by step.                                              *)
(***************************************************************************)
EXTENDS HdDriver, NumberFacts

(***************************************************************************)
(* The card.                                                               *)
(***************************************************************************)
(***************************************************************************)
(* Helpers.                                                                *)
(***************************************************************************)

\* One digit of the LBA: a number below m with a digit of base b under it is
\* below b * m.
LEMMA DigitBound ==
  ASSUME NEW b \in Nat \ {0}, NEW m \in Nat \ {0},
         NEW x \in 0 .. b - 1, NEW y \in 0 .. m - 1
  PROVE  x + b * y \in 0 .. b * m - 1
<1>1. b * y \in Nat /\ b * m \in Nat
  OBVIOUS
<1>2. b * (m - 1 - y) \in Nat
  <2>1. m - 1 - y \in Nat
    OBVIOUS
  <2> QED BY <2>1
<1>3. b * (m - 1 - y) = b * m - b - b * y
  OBVIOUS
<1> QED BY <1>1, <1>2, <1>3

\* The task file holds an LBA.
LEMMA RegisterLbaType ==
  ASSUME registers \in Registers
  PROVE  RegisterLba \in Lbas
<1> DEFINE b == RegBase
           r == registers
<1>1. b \in Nat \ {0}
  BY SizesAssumption
<1>2. /\ r.sector_number \in 0 .. b - 1
      /\ r.cylinder_low \in 0 .. b - 1
      /\ r.cylinder_high \in 0 .. b - 1
      /\ r.head \in 0 .. b - 1
  BY RegsAssumption DEF Registers
<1>3. b * b \in Nat \ {0} /\ b * (b * b) \in Nat \ {0}
  BY <1>1
<1> HIDE DEF b, r
<1>4. r.cylinder_high + b * r.head \in 0 .. b * b - 1
  BY <1>1, <1>2, DigitBound
<1>5. r.cylinder_low + b * (r.cylinder_high + b * r.head)
        \in 0 .. b * (b * b) - 1
  BY <1>1, <1>2, <1>3, <1>4, DigitBound
<1>6. r.sector_number + b * (r.cylinder_low + b * (r.cylinder_high + b * r.head))
        \in 0 .. b * (b * (b * b)) - 1
  BY <1>1, <1>2, <1>3, <1>5, DigitBound
<1> QED BY <1>6 DEF RegisterLba, Lbas, b, r

(***************************************************************************)
(* A card at a time: what the invariants say of one card, and the cards    *)
(* that a command or a byte of data leads to.                              *)
(***************************************************************************)
Sound(c) ==
  /\ c.state \in {"IdentifyDevice", "ReadSectors"}
       => c.sector_offset < SectorSize /\ "DRQ" \in c.status
  /\ c.state = "None" => "DRQ" \notin c.status
  /\ "ERR" \notin c.status => c.error \subseteq {"AMNF"}

SoundCards == {c \in Cards : Sound(c)}

\* The inductive invariant: the type, and every card sound.
IInv == TypeOK /\ card \in [Drives -> SoundCards]

\* The changes of a command after it has latched the LBA: only they keep the
\* error and the command state consistent.
LEMMA LatchSound ==
  ASSUME NEW c \in SoundCards, c.error = {},
         NEW offset \in {0, c.sector_offset}, NEW interrupt \in BOOLEAN
  PROVE  [c EXCEPT !.interrupt = interrupt, !.sector_offset = offset] \in SoundCards
<1> DEFINE new == [c EXCEPT !.interrupt = interrupt, !.sector_offset = offset]
<1>0. c \in Cards /\ offset \in Nat
  BY DEF SoundCards, Cards
<1>1. new \in Cards
  BY <1>0 DEF Cards
<1>2. /\ new.state = c.state /\ new.status = c.status /\ new.error = c.error
      /\ new.sector_offset = offset
  BY DEF SoundCards, Cards
<1>3. Sound(new)
  BY <1>2, SizesAssumption DEF SoundCards, Sound
<1> QED BY <1>1, <1>3 DEF SoundCards

LEMMA LatchedSound ==
  ASSUME IInv, Ready
  PROVE  /\ Latched \in SoundCards
         /\ Latched.error = {}
         /\ [Latched EXCEPT !.interrupt = TRUE] \in SoundCards
         /\ [Latched EXCEPT !.error = {"AMNF"}] \in SoundCards
         /\ [Latched EXCEPT !.interrupt = TRUE, !.sector_offset = 0] \in SoundCards
<1>1. card[Sel] \in SoundCards
  BY DEF IInv, Ready
<1>2. RegisterLba \in Lbas
  BY RegisterLbaType DEF IInv, TypeOK
<1>3. /\ Latched \in Cards
      /\ Latched.error = {}
      /\ Latched.state = card[Sel].state
      /\ Latched.status = card[Sel].status \ {"ERR"}
      /\ Latched.sector_offset = card[Sel].sector_offset
  BY <1>1, <1>2 DEF Latched, SoundCards, Cards, Errors
<1>4. Latched \in SoundCards
  BY <1>1, <1>3 DEF SoundCards, Sound
<1>5. /\ [Latched EXCEPT !.interrupt = TRUE]
            = [Latched EXCEPT !.interrupt = TRUE,
                              !.sector_offset = Latched.sector_offset]
      /\ [Latched EXCEPT !.interrupt = TRUE] \in SoundCards
      /\ [Latched EXCEPT !.interrupt = TRUE, !.sector_offset = 0] \in SoundCards
  <2>1. [Latched EXCEPT !.interrupt = TRUE]
          = [Latched EXCEPT !.interrupt = TRUE,
                            !.sector_offset = Latched.sector_offset]
    BY <1>3 DEF Cards
  <2> QED BY <1>3, <1>4, <2>1, LatchSound
<1>6. [Latched EXCEPT !.error = {"AMNF"}] \in SoundCards
  <2> DEFINE new == [Latched EXCEPT !.error = {"AMNF"}]
  <2>1. /\ new \in Cards
        /\ new.state = Latched.state /\ new.status = Latched.status
        /\ new.sector_offset = Latched.sector_offset /\ new.error = {"AMNF"}
    BY <1>3 DEF Cards, Errors
  <2> QED BY <1>4, <2>1 DEF SoundCards, Sound
<1> QED BY <1>3, <1>4, <1>5, <1>6

LEMMA FailSound ==
  ASSUME NEW c \in SoundCards, NEW errors \in SUBSET Errors
  PROVE  Fail(c, errors) \in SoundCards
<1> DEFINE new == Fail(c, errors)
<1>1. /\ new \in Cards
      /\ new.state = c.state /\ new.sector_offset = c.sector_offset
      /\ new.status = c.status \cup {"ERR"}
  BY DEF Fail, SoundCards, Cards, Statuses, Errors
<1> QED BY <1>1 DEF SoundCards, Sound

LEMMA BeginSound ==
  ASSUME NEW c \in SoundCards, NEW state \in States \ {"None"}
  PROVE  /\ Begin(c, state) \in SoundCards
         /\ [Begin(c, state) EXCEPT !.interrupt = TRUE] \in SoundCards
<1> DEFINE new == Begin(c, state)
           raised == [new EXCEPT !.interrupt = TRUE]
<1>1. /\ new \in Cards
      /\ new.state = state /\ new.sector_offset = 0 /\ new.error = c.error
      /\ new.status = c.status \cup {"DRQ"}
  BY DEF Begin, SoundCards, Cards, Statuses, States
<1>2. /\ raised \in Cards
      /\ raised.state = state /\ raised.sector_offset = 0
      /\ raised.error = c.error /\ raised.status = c.status \cup {"DRQ"}
  BY <1>1 DEF Cards
<1>3. c \in Cards /\ Sound(c) /\ 0 < SectorSize
  BY SizesAssumption DEF SoundCards
<1>4. Sound(new)
  BY <1>1, <1>3 DEF Sound
<1>5. Sound(raised)
  BY <1>2, <1>3 DEF Sound
<1> QED BY <1>1, <1>2, <1>4, <1>5 DEF SoundCards

\* The card after a byte of data: it goes on, it is done, or its flush failed.
LEMMA MovedSound ==
  ASSUME IInv, Ready
  PROVE  /\ card[Sel].state \in {"IdentifyDevice", "ReadSectors"}
              /\ Moved.sector_offset # SectorSize
              => Moved \in SoundCards
         /\ card[Sel].state = "WriteSectors" => Moved \in SoundCards
         /\ [Moved EXCEPT !.status = @ \ {"DRQ"}, !.state = "None"] \in SoundCards
         /\ [Moved EXCEPT !.error = {}, !.status = @ \ {"DRQ"}, !.state = "None"]
              \in SoundCards
         /\ card[Sel].state = "WriteSectors"
              => [Moved EXCEPT !.status = @ \ {"DRQ"}] \in SoundCards
<1>1. card[Sel] \in SoundCards
  BY DEF IInv, Ready
<1> DEFINE c == card[Sel]
           quiet == [Moved EXCEPT !.status = @ \ {"DRQ"}]
           done == [Moved EXCEPT !.status = @ \ {"DRQ"}, !.state = "None"]
           clean == [Moved EXCEPT !.error = {}, !.status = @ \ {"DRQ"},
                                  !.state = "None"]
<1>2. /\ Moved \in Cards
      /\ Moved.state = c.state /\ Moved.status = c.status
      /\ Moved.error = c.error /\ Moved.sector_offset = c.sector_offset + 1
  BY <1>1 DEF Moved, SoundCards, Cards
<1>3. /\ quiet \in Cards
      /\ quiet.state = c.state /\ quiet.status = c.status \ {"DRQ"}
      /\ quiet.error = c.error
  BY <1>2 DEF Cards
<1>4. /\ done \in Cards
      /\ done.state = "None" /\ done.status = c.status \ {"DRQ"}
      /\ done.error = c.error
  BY <1>2 DEF Cards, States
<1>5. /\ clean \in Cards
      /\ clean.state = "None" /\ clean.status = c.status \ {"DRQ"}
      /\ clean.error = {}
  BY <1>2 DEF Cards, States, Errors
<1>6. c.sector_offset \in Nat
  BY <1>1 DEF SoundCards, Cards
<1>7. ASSUME c.state \in {"IdentifyDevice", "ReadSectors"},
             Moved.sector_offset # SectorSize
      PROVE  Moved \in SoundCards
  BY <1>1, <1>2, <1>6, <1>7, SizesAssumption DEF SoundCards, Sound
<1>8. ASSUME c.state = "WriteSectors"
      PROVE  Moved \in SoundCards /\ quiet \in SoundCards
  BY <1>1, <1>2, <1>3, <1>8 DEF SoundCards, Sound
<1>9. done \in SoundCards /\ clean \in SoundCards
  BY <1>1, <1>4, <1>5 DEF SoundCards, Sound
<1> QED BY <1>7, <1>8, <1>9

\* A step that gives the selected drive a sound card keeps all cards sound.
LEMMA SetCardSound ==
  ASSUME IInv, Ready, NEW c \in SoundCards, SetCard(c)
  PROVE  card' \in [Drives -> SoundCards]
BY DEF IInv, Ready, SetCard

LEMMA SoundCardsAreCards ==
  ASSUME NEW S, NEW f \in [S -> SoundCards]
  PROVE  f \in [S -> Cards]
BY DEF SoundCards

LEMMA CommandSound ==
  ASSUME IInv, NEW c, Ready => c \in SoundCards, Command(c)
  PROVE  IInv'
<1>1. card' \in [Drives -> SoundCards]
  BY SetCardSound DEF Command
<1> QED
  BY <1>1, SoundCardsAreCards DEF Command, IInv, TypeOK, Images

(***************************************************************************)
(* The images.                                                             *)
(***************************************************************************)
LEMMA ImagesUpdate ==
  ASSUME NEW m \in Images, NEW d \in Drives, NEW f \in Image(d)
  PROVE  [m EXCEPT ![d] = f] \in Images
BY DEF Images

LEMMA ImageByte ==
  ASSUME NEW m \in Images, NEW d \in Drives, NEW i, NEW b \in Byte
  PROVE  [m EXCEPT ![d][i] = b] \in Images
<1>1. m[d] \in Image(d)
  BY DEF Images
<1>2. [m[d] EXCEPT ![i] = b] \in Image(d)
  BY <1>1 DEF Image
<1> QED BY <1>2, ImagesUpdate

LEMMA FlushType ==
  ASSUME NEW ok \in BOOLEAN, Sel \in Drives, file \in Images, mmap' \in Images,
         Flush(ok)
  PROVE  file' \in Images
<1>1. mmap'[Sel] \in Image(Sel)
  BY DEF Images
<1> QED BY <1>1, ImagesUpdate DEF Flush

(***************************************************************************)
(* The invariant is inductive.                                             *)
(***************************************************************************)
LEMMA InitSound == Init => IInv
<1> SUFFICES ASSUME Init PROVE IInv
  OBVIOUS
<1>1. NewRegisters \in Registers
  BY RegsAssumption, DrivesAssumption DEF NewRegisters, Registers, Features
<1>2. NewCard \in SoundCards
  BY SizesAssumption
  DEF NewCard, SoundCards, Sound, Cards, States, Statuses, Errors, Lbas
<1>3. card \in [Drives -> SoundCards]
  BY <1>2 DEF Init
<1> QED BY <1>1, <1>3, SoundCardsAreCards DEF Init, IInv, TypeOK

\* The errors that commands report are errors.
LEMMA ErrorTypes ==
  /\ Unsupported \in SUBSET Errors /\ NoLbaMode \in SUBSET Errors
  /\ BadLba \in SUBSET Errors /\ WriteFault \in SUBSET Errors
BY DEF Unsupported, NoLbaMode, BadLba, WriteFault, Errors

LEMMA TaskFileSound ==
  ASSUME IInv, TaskFile \/ ReadStatus
  PROVE  IInv'
<1>1. ASSUME TaskFile PROVE IInv'
  <2>1. registers' \in Registers
    BY <1>1
    DEF TaskFile, WriteFeature, WriteSectorNumber, WriteCylinderLow,
        WriteCylinderHigh, WriteDriveHead, IInv, TypeOK, Registers
  <2>2. UNCHANGED <<card, mmap, file, panicked>>
    BY <1>1
    DEF TaskFile, WriteFeature, WriteSectorNumber, WriteCylinderLow,
        WriteCylinderHigh, WriteDriveHead
  <2> QED BY <2>1, <2>2 DEF IInv, TypeOK, Images
<1>2. ASSUME ReadStatus PROVE IInv'
  <2> DEFINE c == [card[Sel] EXCEPT !.interrupt = FALSE]
  <2>1. card[Sel] \in SoundCards
    BY <1>2 DEF ReadStatus, IInv
  <2>2. /\ c \in Cards
        /\ c.state = card[Sel].state /\ c.status = card[Sel].status
        /\ c.error = card[Sel].error /\ c.sector_offset = card[Sel].sector_offset
    BY <2>1 DEF SoundCards, Cards
  <2>3. c \in SoundCards
    BY <2>1, <2>2 DEF SoundCards, Sound
  <2>4. card' \in [Drives -> SoundCards]
    BY <1>2, <2>3 DEF ReadStatus, SetCard, IInv
  <2> QED BY <1>2, <2>4, SoundCardsAreCards DEF ReadStatus, IInv, TypeOK, Images
<1> QED BY <1>1, <1>2

LEMMA EraseSound ==
  ASSUME IInv, EraseSectors
  PROVE  IInv'
<1>1. CASE Refuse
  BY <1>1, LatchedSound, FailSound, ErrorTypes, CommandSound DEF Refuse
<1>2. CASE ~Refuse
  <2>1. /\ Ready /\ UNCHANGED registers
        /\ mmap' = [mmap EXCEPT ![Sel] =
                     [i \in DOMAIN @ |-> IF i \in Sector(Latched)
                                          THEN Erased ELSE @[i]]]
    BY <1>2 DEF EraseSectors
  <2>2. mmap' \in Images
    <3>1. mmap \in Images /\ Sel \in Drives /\ mmap[Sel] \in Image(Sel)
      BY <2>1 DEF IInv, TypeOK, Ready, Images
    <3>2. [i \in DOMAIN mmap[Sel] |-> IF i \in Sector(Latched)
                                       THEN Erased ELSE mmap[Sel][i]]
            \in Image(Sel)
      BY <3>1, ByteAssumption DEF Image
    <3> QED BY <2>1, <3>1, <3>2, ImagesUpdate
  <2>3. Latched \in SoundCards /\ Fail(Latched, WriteFault) \in SoundCards
    BY <2>1, LatchedSound, FailSound, ErrorTypes
  <2>4. card' \in [Drives -> SoundCards]
    BY <1>2, <2>1, <2>3, SetCardSound DEF EraseSectors
  <2>5. file' \in Images
    BY <1>2, <2>1, <2>2, FlushType DEF EraseSectors, IInv, TypeOK, Ready
  <2>6. panicked' \in BOOLEAN
    BY <1>2 DEF EraseSectors, IInv, TypeOK
  <2> QED
    BY <2>1, <2>2, <2>4, <2>5, <2>6, SoundCardsAreCards DEF IInv, TypeOK
<1> QED BY <1>1, <1>2

LEMMA CommandsSound ==
  ASSUME IInv, Commands
  PROVE  IInv'
<1>1. CASE Diagnostic
  BY <1>1, LatchedSound, CommandSound DEF Diagnostic
<1>2. CASE EraseSectors
  BY <1>2, EraseSound
<1>3. CASE Identify
  BY <1>3, LatchedSound, BeginSound, CommandSound DEF Identify, States
<1>4. CASE Nop \/ Invalid
  BY <1>4, LatchedSound, FailSound, ErrorTypes, CommandSound DEF Nop, Invalid
<1>5. CASE ReadSectors
  <2>1. CASE Refuse
    BY <2>1, LatchedSound, FailSound, ErrorTypes, CommandSound DEF Refuse
  <2>2. CASE Command(Fail([Latched EXCEPT !.interrupt = TRUE,
                                          !.sector_offset = 0], BadLba))
    BY <2>2, LatchedSound, FailSound, ErrorTypes, CommandSound
  <2>3. CASE Command([Begin(Latched, "ReadSectors") EXCEPT !.interrupt = TRUE])
    BY <2>3, LatchedSound, BeginSound, CommandSound DEF States
  <2> QED BY <1>5, <2>1, <2>2, <2>3 DEF ReadSectors
<1>6. CASE ReadVerify
  <2>1. CASE Refuse
    BY <2>1, LatchedSound, FailSound, ErrorTypes, CommandSound DEF Refuse
  <2>2. CASE Command([Latched EXCEPT !.interrupt = TRUE])
    BY <2>2, LatchedSound, CommandSound
  <2> QED BY <1>6, <2>1, <2>2 DEF ReadVerify
<1>7. CASE RequestSense
  <2>1. card' \in [Drives -> SoundCards]
    BY <1>7, LatchedSound, SetCardSound DEF RequestSense
  <2> QED
    BY <1>7, <2>1, SoundCardsAreCards DEF RequestSense, IInv, TypeOK, Images
<1>8. CASE SetFeatures
  BY <1>8, LatchedSound, FailSound, ErrorTypes, CommandSound DEF SetFeatures
<1>9. CASE WriteSectors
  <2>1. CASE Refuse
    BY <2>1, LatchedSound, FailSound, ErrorTypes, CommandSound DEF Refuse
  <2>2. CASE Command(Begin(Latched, "WriteSectors"))
    BY <2>2, LatchedSound, BeginSound, CommandSound DEF States
  <2> QED BY <1>9, <2>1, <2>2 DEF WriteSectors
<1> QED
  BY <1>1, <1>2, <1>3, <1>4, <1>5, <1>6, <1>7, <1>8, <1>9 DEF Commands

LEMMA DataPortSound ==
  ASSUME IInv, DataPort
  PROVE  IInv'
<1>0. Ready /\ Sel \in Drives
  BY DEF DataPort, ReadInfo, ReadData, WriteData, Ready
<1>1. CASE ReadInfo
  <2>1. card' \in [Drives -> SoundCards]
    BY <1>0, <1>1, MovedSound, SetCardSound DEF ReadInfo
  <2> QED
    BY <1>1, <2>1, SoundCardsAreCards DEF ReadInfo, IInv, TypeOK, Images
<1>2. CASE DataPanic
  BY <1>2 DEF DataPanic, IInv, TypeOK, Images
<1>3. CASE ReadData /\ ~DataPanic
  <2>1. card' \in [Drives -> SoundCards]
    BY <1>0, <1>3, MovedSound, SetCardSound DEF ReadData
  <2> QED
    BY <1>3, <2>1, SoundCardsAreCards DEF ReadData, IInv, TypeOK, Images
<1>4. ASSUME NEW b \in Byte, WriteData(b), ~DataPanic
      PROVE  IInv'
  <2>1. mmap' \in Images
    <3>1. mmap' = [mmap EXCEPT ![Sel][Position(card[Sel])] = b]
      BY <1>4 DEF WriteData
    <3>2. mmap \in Images
      BY DEF IInv, TypeOK
    <3>3. [mmap EXCEPT ![Sel][Position(card[Sel])] = b] \in Images
      BY <1>0, <3>2, ImageByte
    <3> QED BY <3>1, <3>3
  <2>2. /\ card[Sel].state = "WriteSectors"
        /\ Moved \in SoundCards
        /\ Fail([Moved EXCEPT !.status = @ \ {"DRQ"}], WriteFault) \in SoundCards
    BY <1>0, <1>4, MovedSound, FailSound, ErrorTypes DEF WriteData
  <2>3. card' \in [Drives -> SoundCards]
    BY <1>0, <1>4, <2>2, SetCardSound DEF WriteData
  <2>4. file' \in Images
    BY <1>0, <1>4, <2>1, FlushType DEF WriteData, IInv, TypeOK
  <2> QED
    BY <1>4, <2>1, <2>3, <2>4, SoundCardsAreCards DEF WriteData, IInv, TypeOK
<1> QED BY <1>1, <1>2, <1>3, <1>4 DEF DataPort

LEMMA HostSound ==
  ASSUME IInv, Host
  PROVE  IInv'
<1>1. ASSUME NEW d \in Drives, NEW i \in 0 .. ImageLen[d] - 1, WriteBack(d, i)
      PROVE  IInv'
  <2>1. mmap[d][i] \in Byte
    BY DEF IInv, TypeOK, Images, Image
  <2>2. file' \in Images
    BY <1>1, <2>1, ImageByte DEF WriteBack, IInv, TypeOK
  <2> QED BY <1>1, <2>2 DEF WriteBack, IInv, TypeOK, Images
<1>2. CASE Restart \/ PowerLoss
  <2>1. NewRegisters \in Registers
    BY RegsAssumption, DrivesAssumption DEF NewRegisters, Registers, Features
  <2>2. NewCard \in SoundCards
    BY SizesAssumption
    DEF NewCard, SoundCards, Sound, Cards, States, Statuses, Errors, Lbas
  <2>3. card' \in [Drives -> SoundCards]
    BY <1>2, <2>2 DEF Restart, PowerLoss
  <2> QED
    BY <1>2, <2>1, <2>3, SoundCardsAreCards
    DEF Restart, PowerLoss, IInv, TypeOK, Images
<1> QED BY <1>1, <1>2 DEF Host

LEMMA StepSound == IInv /\ [Next]_vars => IInv'
<1> SUFFICES ASSUME IInv, [Next]_vars PROVE IInv'
  OBVIOUS
<1>1. CASE Guest
  BY <1>1, TaskFileSound, CommandsSound, DataPortSound DEF Guest
<1>2. CASE Host
  BY <1>2, HostSound
<1>3. CASE UNCHANGED vars
  BY <1>3 DEF vars, IInv, TypeOK, Images
<1> QED BY <1>1, <1>2, <1>3 DEF Next

(***************************************************************************)
(* The theorems.                                                           *)
(***************************************************************************)

\* The inductive invariant holds.
THEOREM Invariance == Spec => []IInv
BY InitSound, StepSound, PTL DEF Spec

\* Every variable keeps its type: the latched LBA fits, the images keep their
\* length and no register holds a bit of another (ata/mod.rs:65-88).
THEOREM TypeCorrect == Spec => []TypeOK
<1>1. IInv => TypeOK
  BY DEF IInv
<1> QED BY <1>1, Invariance, PTL

\* A transfer to the guest never runs past its 512 bytes (ata/mod.rs:168-188).
THEOREM TransfersStayInSector == Spec => []TransferInSector
<1>1. IInv => TransferInSector
  BY DEF IInv, TransferInSector, SoundCards, Sound
<1> QED BY <1>1, Invariance, PTL

\* DRQ says whether there is something to read (ata/mod.rs:160-220).
THEOREM DataRequestIsHonest == Spec => []DataRequestTracksTransfer
<1>1. IInv => DataRequestTracksTransfer
  BY DEF IInv, DataRequestTracksTransfer, SoundCards, Sound
<1> QED BY <1>1, Invariance, PTL

\* No error code without ERR (ata/mod.rs:236-238).
THEOREM FailuresAreReported == Spec => []NoSilentFailure
<1>1. IInv => NoSilentFailure
  BY DEF IInv, NoSilentFailure, SoundCards, Sound
<1> QED BY <1>1, Invariance, PTL

\* A guest's access reaches one drive, and the registers alone reach none
\* (ata/mod.rs:452-504).
THEOREM DrivesAreIsolated == Spec => DriveIsolation
<1> DEFINE Isolated(d) ==
             \/ Restart \/ PowerLoss
             \/ /\ d # Sel \/ registers' # registers
                   => card'[d] = card[d] /\ mmap'[d] = mmap[d]
<1>1. ASSUME IInv, Next, NEW d \in Drives
      PROVE  Isolated(d)
  <2>1. card \in [Drives -> SoundCards] /\ mmap \in Images
    BY <1>1 DEF IInv, TypeOK
  <2>2. CASE TaskFile
    BY <2>2
    DEF TaskFile, WriteFeature, WriteSectorNumber, WriteCylinderLow,
        WriteCylinderHigh, WriteDriveHead
  <2>3. CASE ReadStatus
    BY <2>1, <2>3 DEF ReadStatus, SetCard
  <2>4. ASSUME NEW c, Command(c) PROVE Isolated(d)
    BY <2>1, <2>4 DEF Command, SetCard
  <2>5. CASE EraseSectors
    <3>1. CASE Refuse
      BY <2>4, <3>1 DEF Refuse
    <3>2. CASE ~Refuse
      BY <2>1, <2>5, <3>2 DEF EraseSectors, SetCard, Images
    <3> QED BY <3>1, <3>2
  <2>6. CASE RequestSense
    BY <2>1, <2>6 DEF RequestSense, SetCard
  <2>7. CASE Commands /\ ~EraseSectors /\ ~RequestSense
    BY <2>4, <2>7
    DEF Commands, Diagnostic, Identify, Nop, ReadSectors, ReadVerify,
        SetFeatures, WriteSectors, Invalid, Refuse
  <2>8. CASE DataPort
    BY <2>1, <2>8
    DEF DataPort, ReadInfo, ReadData, WriteData, DataPanic, SetCard, Images
  <2>9. CASE \E k \in Drives : \E i \in 0 .. ImageLen[k] - 1 : WriteBack(k, i)
    BY <2>9 DEF WriteBack
  <2> QED
    BY <1>1, <2>2, <2>3, <2>5, <2>6, <2>7, <2>8, <2>9 DEF Next, Guest, Host
<1>2. IInv /\ [Next]_vars => [\A d \in Drives : Isolated(d)]_vars
  BY <1>1
<1> QED BY <1>2, Invariance, PTL DEF Spec, DriveIsolation

(***************************************************************************)
(* The routines.                                                           *)
(***************************************************************************)
(***************************************************************************)
(* Addresses and bytes of an image.                                        *)
(***************************************************************************)

LEMMA Sizes ==
  /\ 0 \in Drives /\ SectorSize \in Nat \ {0} /\ ImageLen[0] \in Nat
  /\ RegBase \in Nat \ {0}
BY DrivesAssumption, SizesAssumption

\* The sectors of the disk lie in its image ...
LEMMA SectorFits ==
  ASSUME NEW s \in Sectors, NEW i \in Offsets
  PROVE  s \in Nat /\ s * SectorSize \in Nat /\ s * SectorSize + i \in 0 .. ImageLen[0] - 1
<1> DEFINE q == ImageLen[0] \div SectorSize
           r == ImageLen[0] % SectorSize
<1>0. q \in Nat /\ r \in 0 .. SectorSize - 1 /\ ImageLen[0] = r + SectorSize * q
  BY Sizes, Divided, Zenon
<1>1. s \in 0 .. q - 1 /\ i \in 0 .. SectorSize - 1
  BY DEF Sectors, Offsets
<1> HIDE DEF q, r
<1>2. SectorSize * q <= ImageLen[0] /\ SectorSize * q \in Nat
  BY <1>0, Sizes, SMT
<1>3. s * SectorSize + SectorSize <= q * SectorSize
  BY <1>0, <1>1, Sizes, Grows
<1>4. s \in Nat /\ s * SectorSize \in Nat /\ q * SectorSize = SectorSize * q
  BY <1>0, <1>1, Sizes, SMT
<1> QED BY <1>1, <1>2, <1>3, <1>4, Sizes

\* ... and apart from one another.
LEMMA SectorsApart ==
  ASSUME NEW s \in Sectors, NEW t \in Sectors, NEW i \in Offsets, NEW j \in Offsets,
         s * SectorSize + i = t * SectorSize + j
  PROVE  s = t /\ i = j
<1>1. /\ s \in Nat /\ t \in Nat /\ i \in 0 .. SectorSize - 1 /\ j \in 0 .. SectorSize - 1
      /\ s * SectorSize \in Nat /\ t * SectorSize \in Nat /\ SectorSize \in Nat
  BY SectorFits, Sizes DEF Offsets
<1>2. CASE s < t
  <2>1. s * SectorSize + SectorSize <= t * SectorSize
    BY <1>1, <1>2, Grows
  <2> QED BY <1>1, <2>1
<1>3. CASE t < s
  <2>1. t * SectorSize + SectorSize <= s * SectorSize
    BY <1>1, <1>3, Grows
  <2> QED BY <1>1, <2>1
<1>4. CASE s = t
  BY <1>1, <1>4
<1> QED BY <1>1, <1>2, <1>3, <1>4

\* What a caller asks for is an address, and a probe no sector.
LEMMA Addresses ==
  /\ Sectors \subseteq Lbas /\ ProbeLbas \subseteq Lbas /\ NoSector \notin Lbas
  /\ ProbeLbas \cap Sectors = {}
<1>1. ASSUME NEW l \in ProbeLbas, l \in Sectors PROVE FALSE
  <2>1. 0 \in Offsets
    BY Sizes DEF Offsets
  <2>2. l * SectorSize + 0 \in 0 .. ImageLen[0] - 1 /\ l * SectorSize \in Nat
    BY <1>1, <2>1, SectorFits
  <2> QED BY <2>2, ProbeAssumption, Sizes
<1> QED BY <1>1, AddressAssumption, NoSectorAssumption

\* The four bytes of an address make it up.
LEMMA Bytes ==
  ASSUME NEW l \in Lbas
  PROVE  E(l) + RegBase * (D(l) + RegBase * (L(l) + RegBase * H(l))) = l
<1> DEFINE b == RegBase
           d == l \div b
           m == d \div b
           h == m \div b
<1>1. b \in Nat \ {0} /\ b * b \in Nat /\ b * (b * b) \in Nat
  BY Sizes, SMT
<1>2. l \in 0 .. b * (b * (b * b)) - 1 /\ l \in Nat
  BY DEF Lbas
<1>3. d \in 0 .. b * (b * b) - 1 /\ l = (l % b) + b * d
  BY <1>1, <1>2, QuotientBound, Divided, Zenon
<1>4. d \in Nat
  BY <1>3
<1>5. m \in 0 .. b * b - 1 /\ d = (d % b) + b * m
  BY <1>1, <1>3, <1>4, QuotientBound, Divided, Zenon
<1>6. m \in Nat
  BY <1>5
<1>7. h \in 0 .. b - 1 /\ m = (m % b) + b * h
  BY <1>1, <1>5, <1>6, QuotientBound, Divided, Zenon
<1>8. E(l) = l % b /\ D(l) = d % b /\ L(l) = m % b /\ H(l) = h % b
  BY DEF E, D, L, H
<1> HIDE DEF h
<1>9. h % b = h
  BY <1>1, <1>7
<1> HIDE DEF b, d, m
<1> QED BY <1>3, <1>5, <1>7, <1>8, <1>9, Zenon DEF b

(***************************************************************************)
(* The inductive invariant.                                                *)
(***************************************************************************)

\* The command has been given; it was refused or failed; it moves data still.
Answered == at \in {"check_wait", "check", "data_wait", "data", "error"}
Refused == "ERR" \in card[0].status
Moving ==
  /\ op \in {"identify", "read", "write"} /\ Answered
  /\ moved < SectorSize /\ ~Refused

\* The register file holds no address, an address the caller gave, or the bytes
\* of one that have been sent.
AddressKept ==
  /\ registers.drive = 0
  /\ op = "lba" => arg \in Sectors \cup ProbeLbas
  /\ op # "lba" /\ registers.lba_mode => RegisterLba \in Sectors \cup ProbeLbas
  /\ op = "write" => Selected \in Sectors \cup {NoSector}
  /\ at \in {"cyl_lo", "cyl_hi", "head"} => registers.sector_number = E(arg)
  /\ at \in {"cyl_hi", "head"} => registers.cylinder_low = D(arg)
  /\ at = "head" => registers.cylinder_high = L(arg)

\* Which routine makes which access, and what it has moved by then.
InRoutine ==
  /\ at = "idle" <=> op = "none"
  /\ at \in {"sec_num", "cyl_lo", "cyl_hi", "head"} <=> op = "lba"
  /\ at = "feature" => op = "features"
  /\ at \in {"data_wait", "data"} => Moving
  /\ at \in {"check_wait", "check", "error"} => moved \in {0, SectorSize}
  /\ ~Answered \/ op = "features" => moved = 0
  /\ at = "error" => Refused

\* What the card has answered, and where its transfer stands.
CardAnswers ==
  /\ "BUSY" \notin card[0].status
  /\ op = "features" /\ at = "command" => registers.feature = "data_width"
  /\ op \in {"features", "identify"} /\ Answered => ~Refused
  /\ op = "read" /\ Answered => (Refused <=> Selected \notin Sectors)
  /\ op = "write" /\ Answered /\ moved < SectorSize
       => (Refused <=> Selected = NoSector)
  /\ op = "read" /\ Refused /\ Answered => moved = 0
  /\ op = "write" /\ Answered /\ moved = SectorSize => Selected \in Sectors
  /\ op \in {"read", "write"} /\ Answered /\ Selected \in Sectors
       => card[0].lba = Selected
  /\ Moving =>
       /\ card[0].sector_offset = moved
       /\ card[0].state = CASE op = "identify" -> "IdentifyDevice"
                            [] op = "read" -> "ReadSectors"
                            [] op = "write" -> "WriteSectors"

\* What the bytes moved so far have become.
BytesFollow ==
  /\ before # None <=> op = "write" /\ Moving
  /\ op = "read" /\ Answered /\ ~Refused =>
       \A i \in 0 .. moved - 1 : buf[i] = mmap[0][card[0].lba * SectorSize + i]
  /\ op = "write" /\ Moving =>
       \A i \in Offsets :
         mmap[0][card[0].lba * SectorSize + i] = IF i < moved THEN buf[i]
                                                              ELSE before[i]

HdInv ==
  /\ IInv /\ HdTypeOK /\ NoPanic
  /\ AddressKept /\ InRoutine /\ CardAnswers /\ BytesFollow
  /\ AcknowledgedSurvives

(***************************************************************************)
(* What the invariant says at any time.                                    *)
(***************************************************************************)

\* The routines use drive 0, which is ready, and one of whose images' sectors
\* or no address is selected.
LEMMA Standing ==
  ASSUME HdInv
  PROVE  /\ Sel = 0 /\ Ready /\ ~panicked
         /\ registers \in Registers /\ RegisterLba \in Lbas
         /\ card \in [Drives -> Cards] /\ card[0] \in Cards
         /\ mmap \in Images /\ file \in Images
         /\ buf \in Data /\ moved \in 0 .. SectorSize
<1>1. TypeOK /\ HdTypeOK /\ ~panicked /\ registers.drive = 0 /\ "BUSY" \notin card[0].status
  BY DEF HdInv, IInv, NoPanic, AddressKept, CardAnswers
<1>2. RegisterLba \in Lbas
  BY <1>1, RegisterLbaType DEF TypeOK
<1> QED BY <1>1, <1>2, Sizes DEF TypeOK, HdTypeOK, Sel, Ready

\* The images' bytes of a sector.
LEMMA SectorData ==
  ASSUME NEW m \in Images, NEW s \in Sectors
  PROVE  SectorOf(m[0], s) \in Data
<1>1. m[0] \in Image(0)
  BY Sizes DEF Images
<1>2. ASSUME NEW i \in Offsets PROVE m[0][s * SectorSize + i] \in Byte
  BY <1>1, SectorFits DEF Image
<1> QED BY <1>2 DEF SectorOf, Data

\* Reading the status changes no more than the interrupt.
LEMMA StatusRead ==
  ASSUME HdInv, ReadStatus
  PROVE  /\ UNCHANGED <<registers, mmap, file, panicked>>
         /\ card'[0].state = card[0].state /\ card'[0].status = card[0].status
         /\ card'[0].lba = card[0].lba
         /\ card'[0].sector_offset = card[0].sector_offset
<1>1. card' = [card EXCEPT ![0] = [card[0] EXCEPT !.interrupt = FALSE]]
  BY Standing DEF ReadStatus, SetCard
<1>2. card \in [Drives -> Cards] /\ 0 \in Drives
  BY Standing, Sizes
<1>3. card'[0] = [card[0] EXCEPT !.interrupt = FALSE]
  BY <1>1, <1>2
<1> QED BY <1>2, <1>3 DEF ReadStatus, Cards

(***************************************************************************)
(* Every step of the routines is one of a guest of the card.               *)
(***************************************************************************)
LEMMA CardStep ==
  ASSUME HdInv, [HdNext]_hdVars
  PROVE  [Next]_vars
<1>1. CASE Caller
  BY <1>1 DEF Caller, Call, CallLba, FillBuf
<1>2. CASE HdLba
  <2>1. /\ E(arg) \in SectorRegs /\ D(arg) \in CylRegs /\ L(arg) \in CylRegs
        /\ H(arg) \in HeadRegs
    BY <1>2, AddressAssumption DEF HdLba, HdInv, AddressKept
  <2>2. TaskFile
    BY <1>2, <2>1 DEF HdLba, TaskFile
  <2> QED BY <2>2 DEF Next, Guest
<1>3. ASSUME NEW access, NEW next, HdWait(access, next) PROVE Next
  BY <1>3 DEF HdWait, Next, Guest
<1>4. CASE HdFeature
  BY <1>4, FeatureAssumption DEF HdFeature, Next, Guest, TaskFile
<1>5. CASE HdCommand
  BY <1>5 DEF HdCommand, Next, Guest, Commands
<1>6. CASE HdErr
  BY <1>6 DEF HdErr, Next, Guest
<1>7. CASE HdErrCode
  BY <1>7 DEF HdErrCode
<1>8. CASE HdBufIn
  BY <1>8 DEF HdBufIn, Next, Guest, DataPort
<1>9. CASE HdBufOut
  <2>1. moved < SectorSize
    BY <1>9 DEF HdBufOut, HdInv, InRoutine, Moving
  <2>2. buf[moved] \in Byte
    BY <2>1, Standing, Sizes DEF Data, Offsets
  <2> QED BY <1>9, <2>2 DEF HdBufOut, Next, Guest, DataPort
<1>10. CASE HdHost
  BY <1>10, Sizes DEF HdHost, HdWriteBack, HdRestart, HdPowerLoss, Next, Host
<1>11. CASE UNCHANGED hdVars
  BY <1>11 DEF hdVars, vars
<1> QED
  BY <1>1, <1>2, <1>3, <1>4, <1>5, <1>6, <1>7, <1>8, <1>9, <1>10, <1>11
  DEF HdNext, Routine

\* Card's own invariant goes on holding.
LEMMA CardSound ==
  ASSUME HdInv, [HdNext]_hdVars
  PROVE  IInv'
BY CardStep, StepSound DEF HdInv

LEMMA AddressStays ==
  ASSUME UNCHANGED registers
  PROVE  UNCHANGED RegisterLba /\ UNCHANGED Selected
BY DEF RegisterLba, Selected

\* What is on the disk of the host stays as it is while nothing is written.
LEMMA NothingWritten ==
  ASSUME AcknowledgedSurvives, UNCHANGED <<mmap, file, before, dirty>>,
         before # None => card'[0].lba = card[0].lba
  PROVE  AcknowledgedSurvives'
BY DEF AcknowledgedSurvives, SectorOf

(***************************************************************************)
(* The invariant is inductive: the first states, the caller's steps.       *)
(***************************************************************************)
LEMMA InitHolds == HdInit => HdInv
<1> SUFFICES ASSUME HdInit PROVE HdInv
  OBVIOUS
<1>1. IInv
  BY InitSound DEF HdInit
<1>2. /\ card[0] = NewCard /\ registers = NewRegisters /\ file = mmap /\ ~panicked
  BY Sizes DEF HdInit, Init
<1>3. card[0].lba = 0 /\ card[0].status = {"RDY", "DSC"} /\ 0 \in Lbas
  BY <1>1, <1>2, Sizes DEF NewCard, IInv, TypeOK, Cards
<1>4. buf \in Data
  BY DataAssumption DEF HdInit, ClearBuf, Data
<1>5. HdTypeOK
  <2>1. moved \in 0 .. SectorSize
    BY Sizes DEF HdInit
  <2> QED BY <1>1, <1>3, <1>4, <2>1 DEF HdInit, HdTypeOK, IInv, Ops, Accesses
<1>6. AddressKept
  BY <1>2 DEF HdInit, AddressKept, NewRegisters
<1>7. InRoutine /\ CardAnswers /\ BytesFollow
  BY <1>3 DEF HdInit, InRoutine, CardAnswers, BytesFollow, Moving, Answered
<1>8. AcknowledgedSurvives
  BY <1>2 DEF AcknowledgedSurvives
<1> QED BY <1>1, <1>2, <1>5, <1>6, <1>7, <1>8 DEF HdInv, NoPanic

LEMMA CallHolds ==
  ASSUME HdInv, NEW o \in Calls, Call(o)
  PROVE  HdInv'
<1>1. IInv'
  BY CardSound DEF HdNext, Caller
<1>2. /\ op = "none" /\ op' = o /\ at' = "wait"
      /\ o \in {"features", "identify", "read", "write"}
      /\ UNCHANGED <<registers, card, mmap, file, panicked, arg, moved, buf, failed,
                     before, dirty>>
      /\ o = "write" => Selected \in Sectors \cup {NoSector}
  BY CallsAssumption DEF Call, vars
<1>3. UNCHANGED RegisterLba /\ UNCHANGED Selected
  BY <1>2, AddressStays
<1>4. HdTypeOK'
  BY <1>1, <1>2 DEF HdInv, HdTypeOK, IInv, Ops, Accesses
<1>5. AddressKept'
  BY <1>2, <1>3 DEF HdInv, AddressKept
<1>6. InRoutine'
  BY <1>2 DEF HdInv, InRoutine, Answered, Moving, Refused
<1>7. CardAnswers'
  BY <1>2 DEF HdInv, CardAnswers, Answered, Moving, Refused
<1>8. BytesFollow'
  BY <1>2 DEF HdInv, BytesFollow, Answered, Moving, Refused
<1>9. AcknowledgedSurvives'
  BY <1>2, NothingWritten DEF HdInv
<1> QED BY <1>1, <1>2, <1>4, <1>5, <1>6, <1>7, <1>8, <1>9 DEF HdInv, NoPanic

LEMMA CallLbaHolds ==
  ASSUME HdInv, NEW l \in Sectors \cup ProbeLbas, CallLba(l)
  PROVE  HdInv'
<1>1. IInv'
  BY CardSound DEF HdNext, Caller
<1>2. /\ op = "none" /\ op' = "lba" /\ at' = "sec_num" /\ arg' = l /\ l \in Lbas
      /\ UNCHANGED <<registers, card, mmap, file, panicked, moved, buf, failed, before, dirty>>
  BY Addresses DEF CallLba, vars
<1>3. HdTypeOK'
  BY <1>1, <1>2 DEF HdInv, HdTypeOK, IInv, Ops, Accesses
<1>4. AddressKept'
  BY <1>2 DEF HdInv, AddressKept
<1>5. InRoutine'
  BY <1>2 DEF HdInv, InRoutine, Answered, Moving, Refused
<1>6. CardAnswers'
  BY <1>2 DEF HdInv, CardAnswers, Answered, Moving, Refused
<1>7. BytesFollow'
  BY <1>2 DEF HdInv, BytesFollow, Answered, Moving, Refused
<1>8. AcknowledgedSurvives'
  BY <1>2, NothingWritten DEF HdInv
<1> QED BY <1>1, <1>2, <1>3, <1>4, <1>5, <1>6, <1>7, <1>8 DEF HdInv, NoPanic

LEMMA FillBufHolds ==
  ASSUME HdInv, NEW data \in Payloads, FillBuf(data)
  PROVE  HdInv'
<1>1. IInv'
  BY CardSound DEF HdNext, Caller
<1>2. /\ op = "none" /\ buf' = data /\ data \in Data
      /\ UNCHANGED <<registers, card, mmap, file, panicked, op, at, arg, moved, failed,
                     before, dirty>>
  BY DataAssumption DEF FillBuf, vars
<1>3. UNCHANGED RegisterLba /\ UNCHANGED Selected
  BY <1>2, AddressStays
<1>4. HdTypeOK'
  BY <1>1, <1>2 DEF HdInv, HdTypeOK, IInv
<1>5. AddressKept'
  BY <1>2, <1>3 DEF HdInv, AddressKept
<1>6. InRoutine' /\ CardAnswers'
  BY <1>2, <1>3 DEF HdInv, InRoutine, CardAnswers, Answered, Moving, Refused
<1>7. BytesFollow'
  BY <1>2 DEF HdInv, BytesFollow, Answered, Moving, Refused
<1>8. AcknowledgedSurvives'
  BY <1>2, NothingWritten DEF HdInv
<1> QED BY <1>1, <1>2, <1>4, <1>5, <1>6, <1>7, <1>8 DEF HdInv, NoPanic

(***************************************************************************)
(* The routines before a command and between the bytes.                    *)
(***************************************************************************)

\* HdLba leaves the address it was given in the task file.
LEMMA AddressSent ==
  ASSUME HdInv, op = "lba", at = "head", WriteDriveHead(0, TRUE, H(arg))
  PROVE  RegisterLba' = arg /\ registers'.lba_mode /\ registers'.drive = 0
<1>1. /\ registers \in Registers /\ arg \in Lbas
      /\ registers.sector_number = E(arg) /\ registers.cylinder_low = D(arg)
      /\ registers.cylinder_high = L(arg)
  BY Standing DEF HdInv, HdTypeOK, AddressKept
<1>2. registers' = [registers EXCEPT !.drive = 0, !.lba_mode = TRUE, !.head = H(arg)]
  BY DEF WriteDriveHead
<1>3. /\ registers'.sector_number = E(arg) /\ registers'.cylinder_low = D(arg)
      /\ registers'.cylinder_high = L(arg) /\ registers'.head = H(arg)
      /\ registers'.lba_mode = TRUE /\ registers'.drive = 0
  BY <1>1, <1>2 DEF Registers
<1>4. RegisterLba' = E(arg) + RegBase * (D(arg) + RegBase * (L(arg) + RegBase * H(arg)))
  BY <1>3 DEF RegisterLba
<1> QED BY <1>1, <1>3, <1>4, Bytes

LEMMA HdLbaHolds ==
  ASSUME HdInv, HdLba
  PROVE  HdInv'
<1>1. IInv'
  BY CardSound DEF HdNext, Routine
<1>2. registers \in Registers /\ arg \in Sectors \cup ProbeLbas
  BY Standing DEF HdInv, AddressKept, HdLba
<1>3. /\ op = "lba" /\ at \in {"sec_num", "cyl_lo", "cyl_hi", "head"}
      /\ moved = 0 /\ moved' = 0 /\ before = None
      /\ at' \in {"cyl_lo", "cyl_hi", "head", "idle"}
      /\ IF at = "head" THEN op' = "none" /\ at' = "idle" /\ arg' = 0
                        ELSE op' = "lba" /\ at' # "idle" /\ arg' = arg
      /\ failed' \in BOOLEAN
      /\ UNCHANGED <<card, mmap, file, panicked, buf, before, dirty>>
  BY DEF HdLba, WriteSectorNumber, WriteCylinderLow, WriteCylinderHigh, WriteDriveHead,
         Goto, Return, HdInv, HdTypeOK, InRoutine, BytesFollow, Answered
<1>4. HdTypeOK'
  BY <1>1, <1>2, <1>3, Addresses, Sizes
  DEF HdInv, HdTypeOK, IInv, TypeOK, Ops, Accesses, Lbas
<1>5. AddressKept'
  <2>1. CASE at = "head"
    BY <1>2, <1>3, <2>1, AddressSent DEF HdLba, AddressKept
  <2>2. CASE at # "head"
    <3>1. CASE at = "sec_num"
      BY <1>2, <1>3, <2>2, <3>1
      DEF HdLba, WriteSectorNumber, Goto, HdInv, AddressKept, Registers
    <3>2. CASE at = "cyl_lo"
      BY <1>2, <1>3, <2>2, <3>2
      DEF HdLba, WriteCylinderLow, Goto, HdInv, AddressKept, Registers
    <3>3. CASE at = "cyl_hi"
      BY <1>2, <1>3, <2>2, <3>3
      DEF HdLba, WriteCylinderHigh, Goto, HdInv, AddressKept, Registers
    <3> QED BY <1>3, <2>2, <3>1, <3>2, <3>3
  <2> QED BY <2>1, <2>2
<1>6. InRoutine' /\ CardAnswers' /\ BytesFollow'
  BY <1>3 DEF HdInv, InRoutine, CardAnswers, BytesFollow, Answered, Moving, Refused
<1>7. AcknowledgedSurvives'
  BY <1>3, NothingWritten DEF HdInv
<1> QED BY <1>1, <1>3, <1>4, <1>5, <1>6, <1>7 DEF HdInv, NoPanic

\* A step that reads the status, or nothing at all, and goes on in the routine
\* leaves the invariant to the place it goes to.
LEMMA GoingOn ==
  ASSUME HdInv, IInv', op # "none", op # "lba",
         UNCHANGED <<registers, mmap, file, panicked, op, arg, moved, buf, failed,
                     before, dirty>>,
         card'[0].state = card[0].state, card'[0].status = card[0].status,
         card'[0].lba = card[0].lba, card'[0].sector_offset = card[0].sector_offset,
         at' \in Accesses, InRoutine', Answered' = Answered,
         op = "features" /\ at' = "command" => registers.feature = "data_width"
  PROVE  HdInv'
<1>1. UNCHANGED RegisterLba /\ UNCHANGED Selected
  BY AddressStays
<1>2. HdTypeOK'
  BY DEF HdInv, HdTypeOK, IInv
<1>3. AddressKept'
  BY <1>1 DEF HdInv, AddressKept, InRoutine
<1>4. Moving' = Moving /\ Refused' = Refused
  BY DEF Moving, Refused
<1>5. CardAnswers'
  BY <1>1, <1>4 DEF HdInv, CardAnswers
<1>6. BytesFollow'
  BY <1>4 DEF HdInv, BytesFollow
<1>7. AcknowledgedSurvives'
  BY NothingWritten DEF HdInv
<1> QED BY <1>2, <1>3, <1>5, <1>6, <1>7 DEF HdInv, NoPanic

\* The card is never busy, so that HdWait reads the status once.
LEMMA HdWaitHolds ==
  ASSUME HdInv,
         \/ HdWait("wait", IF op = "features" THEN "feature" ELSE "command")
         \/ HdWait("check_wait", "check")
         \/ HdWait("data_wait", "data")
  PROVE  HdInv'
<1>1. IInv'
  BY CardSound DEF HdNext, Routine
<1>2. ReadStatus /\ Sel = 0 /\ "BUSY" \notin card[0].status
  BY Standing DEF HdWait, HdInv, CardAnswers
<1>3. /\ \/ at = "wait" /\ at' = IF op = "features" THEN "feature" ELSE "command"
         \/ at = "check_wait" /\ at' = "check"
         \/ at = "data_wait" /\ at' = "data"
      /\ UNCHANGED <<op, arg, moved, buf, failed, before, dirty>>
  BY <1>2 DEF HdWait, Goto
<1>4. /\ UNCHANGED <<registers, mmap, file, panicked>>
      /\ card'[0].state = card[0].state /\ card'[0].status = card[0].status
      /\ card'[0].lba = card[0].lba /\ card'[0].sector_offset = card[0].sector_offset
  BY <1>2, StatusRead
<1>5. op # "none" /\ op # "lba" /\ Answered' = Answered /\ at' \in Accesses
  BY <1>3 DEF HdInv, InRoutine, Answered, Accesses
<1>6. InRoutine'
  BY <1>3, <1>4, <1>5 DEF HdInv, InRoutine, Answered, Moving, Refused
<1>7. op = "features" => at' # "command"
  BY <1>3
<1> QED BY <1>1, <1>3, <1>4, <1>5, <1>6, <1>7, GoingOn

LEMMA HdFeatureHolds ==
  ASSUME HdInv, HdFeature
  PROVE  HdInv'
<1>1. IInv'
  BY CardSound DEF HdNext, Routine
<1>2. registers \in Registers
  BY Standing
<1>3. /\ at = "feature" /\ at' = "command" /\ op = "features"
      /\ registers' = [registers EXCEPT !.feature = "data_width"]
      /\ UNCHANGED <<card, mmap, file, panicked, op, arg, moved, buf, failed, before, dirty>>
  BY DEF HdFeature, WriteFeature, Goto, HdInv, InRoutine
<1>4. /\ registers'.feature = "data_width" /\ registers'.drive = registers.drive
      /\ registers'.lba_mode = registers.lba_mode
      /\ UNCHANGED RegisterLba
  BY <1>2, <1>3 DEF Registers, RegisterLba
<1>5. HdTypeOK'
  BY <1>1, <1>3 DEF HdInv, HdTypeOK, IInv, Accesses
<1>6. AddressKept'
  BY <1>3, <1>4 DEF HdInv, AddressKept
<1>7. InRoutine' /\ CardAnswers' /\ BytesFollow'
  BY <1>3, <1>4
  DEF HdInv, InRoutine, CardAnswers, BytesFollow, Answered, Moving, Refused
<1>8. AcknowledgedSurvives'
  BY <1>3, NothingWritten DEF HdInv
<1> QED BY <1>1, <1>3, <1>5, <1>6, <1>7, <1>8 DEF HdInv, NoPanic

\* Nothing that a routine left behind is looked at once it has returned.
LEMMA Returning ==
  ASSUME HdInv, IInv', Return(FALSE) \/ Return(TRUE), op # "lba", before = None,
         UNCHANGED <<registers, mmap, file, panicked, buf, before, dirty>>,
         card'[0].status = card[0].status
  PROVE  HdInv'
<1>1. UNCHANGED RegisterLba /\ UNCHANGED Selected
  BY AddressStays
<1>2. op' = "none" /\ at' = "idle" /\ arg' = 0 /\ moved' = 0 /\ failed' \in BOOLEAN
  BY DEF Return
<1>3. 0 \in Lbas /\ 0 \in 0 .. SectorSize
  BY Sizes, Standing DEF Lbas
<1>4. HdTypeOK'
  BY <1>2, <1>3 DEF HdInv, HdTypeOK, IInv, Ops, Accesses
<1>5. AddressKept'
  BY <1>1, <1>2 DEF HdInv, AddressKept
<1>6. InRoutine' /\ CardAnswers' /\ BytesFollow'
  BY <1>2 DEF HdInv, InRoutine, CardAnswers, BytesFollow, Answered, Moving, Refused
<1>7. AcknowledgedSurvives'
  BY NothingWritten DEF HdInv
<1> QED BY <1>4, <1>5, <1>6, <1>7 DEF HdInv, NoPanic

LEMMA HdErrHolds ==
  ASSUME HdInv, HdErr
  PROVE  HdInv'
<1>1. IInv'
  BY CardSound DEF HdNext, Routine
<1>2. /\ UNCHANGED <<registers, mmap, file, panicked, buf, before, dirty>>
      /\ card'[0].state = card[0].state /\ card'[0].status = card[0].status
      /\ card'[0].lba = card[0].lba /\ card'[0].sector_offset = card[0].sector_offset
  BY StatusRead DEF HdErr
<1>3. /\ at = "check" /\ Sel = 0 /\ op # "none" /\ op # "lba"
      /\ op \in Ops /\ moved \in {0, SectorSize}
  BY Standing DEF HdErr, HdInv, HdTypeOK, InRoutine
<1>4. CASE ~Refused /\ (op = "features" \/ moved = SectorSize)
  <2>1. Return(FALSE)
    BY <1>3, <1>4 DEF HdErr, Refused
  <2>2. before = None
    BY <1>4, Sizes DEF HdInv, BytesFollow, Moving
  <2> QED BY <1>1, <1>2, <1>3, <2>1, <2>2, Returning
<1>5. CASE Refused \/ (op # "features" /\ moved # SectorSize)
  <2>1. /\ at' = IF Refused THEN "error" ELSE "data_wait"
        /\ UNCHANGED <<op, arg, moved, failed>>
    BY <1>3, <1>5 DEF HdErr, Refused, Goto
  <2>2. ~Refused => op \in {"identify", "read", "write"} /\ moved < SectorSize
    BY <1>3, <1>5, Sizes DEF Ops
  <2>3. Answered' = Answered /\ at' \in Accesses /\ at' # "command"
    BY <1>3, <2>1 DEF Answered, Accesses
  <2>4. InRoutine'
    BY <1>2, <1>3, <2>1, <2>2 DEF HdInv, InRoutine, Answered, Moving, Refused
  <2> QED BY <1>1, <1>2, <1>3, <2>1, <2>3, <2>4, GoingOn
<1> QED BY <1>4, <1>5

LEMMA HdErrCodeHolds ==
  ASSUME HdInv, HdErrCode
  PROVE  HdInv'
<1>1. IInv'
  BY CardSound DEF HdNext, Routine
<1>2. /\ at = "error" /\ Return(TRUE)
      /\ UNCHANGED <<registers, card, mmap, file, panicked, buf, before, dirty>>
  BY DEF HdErrCode, vars
<1>3. op # "lba" /\ before = None
  BY <1>2 DEF HdInv, InRoutine, BytesFollow, Moving
<1> QED BY <1>1, <1>2, <1>3, Returning

(***************************************************************************)
(* A command.                                                              *)
(***************************************************************************)
LEMMA DataIsSomething ==
  ASSUME NEW d \in Data
  PROVE  d # None
<1>1. 0 \in DOMAIN d
  BY Sizes DEF Data, Offsets
<1>2. DOMAIN None = {}
  BY DEF None
<1> QED BY <1>1, <1>2

\* The card after a command, for the commands of the routines.
LEMMA CommandTaken ==
  ASSUME HdInv, NEW c, Command(c)
  PROVE  card'[0] = c /\ UNCHANGED <<registers, mmap, file, panicked>>
BY Standing, Sizes DEF Command, SetCard

LEMMA LatchedCard ==
  ASSUME HdInv
  PROVE  /\ Latched \in Cards
         /\ Latched.lba = RegisterLba /\ "ERR" \notin Latched.status
         /\ "BUSY" \notin Latched.status
<1>1. card[0] \in Cards /\ Sel = 0 /\ RegisterLba \in Lbas /\ "BUSY" \notin card[0].status
  BY Standing DEF HdInv, CardAnswers
<1> QED BY <1>1 DEF Latched, Cards, Errors

\* Every command latches the address, whether it then begins or is refused.
LEMMA CommandBegun ==
  ASSUME HdInv, NEW state \in States,
         NEW c, c \in {Latched, [Latched EXCEPT !.interrupt = TRUE]}
  PROVE  LET b == Begin(c, state) i == [b EXCEPT !.interrupt = TRUE] IN
         /\ b.lba = RegisterLba /\ "ERR" \notin b.status /\ "BUSY" \notin b.status
         /\ b.state = state /\ b.sector_offset = 0
         /\ i.lba = RegisterLba /\ "ERR" \notin i.status /\ "BUSY" \notin i.status
         /\ i.state = state /\ i.sector_offset = 0
BY LatchedCard DEF Begin, Cards

LEMMA CommandRefused ==
  ASSUME HdInv, NEW errors,
         NEW c, c \in {Latched, [Latched EXCEPT !.interrupt = TRUE, !.sector_offset = 0]}
  PROVE  LET f == Fail(c, errors) IN
         f.lba = RegisterLba /\ "ERR" \in f.status /\ "BUSY" \notin f.status
BY LatchedCard DEF Fail, Cards

\* An address the card accepts for a read is a sector: the others begin past the
\* end of the image.
LEMMA ReadAccepted ==
  ASSUME HdInv, op = "read", registers.lba_mode
  PROVE  /\ Selected = RegisterLba
         /\ ImageLen[0] >= SectorStart(Latched) <=> Selected \in Sectors
<1>1. Selected = RegisterLba /\ Selected \in Sectors \cup ProbeLbas
  BY DEF Selected, HdInv, AddressKept
<1>2. Selected \in Nat /\ SectorStart(Latched) = Selected * SectorSize
  BY <1>1, LatchedCard, Standing DEF SectorStart, Lbas
<1>3. ASSUME Selected \in Sectors PROVE ImageLen[0] >= SectorStart(Latched)
  <2>1. 0 \in Offsets
    BY Sizes DEF Offsets
  <2>2. /\ Selected * SectorSize \in Nat
        /\ Selected * SectorSize + 0 \in 0 .. ImageLen[0] - 1
    BY <1>3, <2>1, SectorFits
  <2> QED BY <1>2, <2>2, Sizes
<1>4. ASSUME Selected \in ProbeLbas PROVE ~(ImageLen[0] >= SectorStart(Latched))
  <2>1. Selected * SectorSize > ImageLen[0]
    BY <1>4, ProbeAssumption
  <2>2. Selected * SectorSize \in Nat
    BY <1>2, Sizes, SMT
  <2> QED BY <1>2, <2>1, <2>2, Sizes
<1> QED BY <1>1, <1>3, <1>4

\* What the card answers to the command of each routine.
LEMMA CommandGiven ==
  ASSUME HdInv, HdCommand
  PROVE  /\ UNCHANGED <<registers, mmap, file, panicked>>
         /\ card'[0].lba = RegisterLba /\ "BUSY" \notin card'[0].status
         /\ op \in {"features", "identify"} => ~Refused'
         /\ op = "identify" =>
              card'[0].state = "IdentifyDevice" /\ card'[0].sector_offset = 0
         /\ op = "read" =>
              /\ Refused' <=> Selected \notin Sectors
              /\ ~Refused' =>
                   card'[0].state = "ReadSectors" /\ card'[0].sector_offset = 0
         /\ op = "write" =>
              /\ Refused' <=> Selected = NoSector
              /\ ~Refused' =>
                   card'[0].state = "WriteSectors" /\ card'[0].sector_offset = 0
<1>0. /\ Sel = 0 /\ at = "command" /\ op \in {"features", "identify", "read", "write"}
      /\ NoSector \notin Sectors /\ RegisterLba # NoSector
  BY Addresses, Standing DEF HdCommand
<1>1. CASE op = "features"
  <2>1. registers.feature = "data_width"
    BY <1>0, <1>1 DEF HdInv, CardAnswers
  <2>2. Command(Latched)
    BY <1>1, <2>1 DEF HdCommand, SetFeatures
  <2>3. card'[0] = Latched /\ UNCHANGED <<registers, mmap, file, panicked>>
    BY <2>2, CommandTaken
  <2> QED BY <1>1, <2>3, LatchedCard DEF Refused
<1>2. CASE op = "identify"
  <2>1. Command([Begin(Latched, "IdentifyDevice") EXCEPT !.interrupt = TRUE])
    BY <1>2 DEF HdCommand, Identify
  <2>2. /\ card'[0] = [Begin(Latched, "IdentifyDevice") EXCEPT !.interrupt = TRUE]
        /\ UNCHANGED <<registers, mmap, file, panicked>>
    BY <2>1, CommandTaken
  <2> QED BY <1>2, <2>2, CommandBegun DEF Refused, States
<1>3. CASE op = "read"
  <2>0. ReadSectors
    BY <1>3 DEF HdCommand
  <2>1. CASE ~registers.lba_mode
    <3>1. Command(Fail(Latched, NoLbaMode)) /\ Selected = NoSector
      BY <2>0, <2>1 DEF ReadSectors, Refuse, Selected
    <3>2. card'[0] = Fail(Latched, NoLbaMode) /\ UNCHANGED <<registers, mmap, file, panicked>>
      BY <3>1, CommandTaken
    <3> QED BY <1>0, <1>3, <3>1, <3>2, CommandRefused DEF Refused
  <2>2. CASE registers.lba_mode /\ ImageLen[0] < SectorStart(Latched)
    <3> DEFINE c == [Latched EXCEPT !.interrupt = TRUE, !.sector_offset = 0]
    <3>1. /\ Command(Fail(c, BadLba)) /\ ~(ImageLen[0] >= SectorStart(Latched))
      <4>1. SectorStart(Latched) \in Nat
        BY LatchedCard, Standing, Sizes, SMT DEF SectorStart, Lbas
      <4>2. ~(ImageLen[0] >= SectorStart(Latched))
        BY <2>2, <4>1, Sizes
      <4> QED BY <1>0, <2>0, <2>2, <4>2 DEF ReadSectors, Refuse
    <3>2. card'[0] = Fail(c, BadLba) /\ UNCHANGED <<registers, mmap, file, panicked>>
      BY <3>1, CommandTaken
    <3>3. Selected \notin Sectors
      BY <1>3, <2>2, <3>1, ReadAccepted
    <3> QED BY <1>3, <3>2, <3>3, CommandRefused DEF Refused
  <2>3. CASE registers.lba_mode /\ ~(ImageLen[0] < SectorStart(Latched))
    <3> DEFINE c == [Begin(Latched, "ReadSectors") EXCEPT !.interrupt = TRUE]
    <3>1. Command(c) /\ ImageLen[0] >= SectorStart(Latched)
      BY <1>0, <2>0, <2>3 DEF ReadSectors, Refuse
    <3>2. card'[0] = c /\ UNCHANGED <<registers, mmap, file, panicked>>
      BY <3>1, CommandTaken
    <3>3. Selected \in Sectors
      BY <1>3, <2>3, <3>1, ReadAccepted
    <3> QED BY <1>3, <3>2, <3>3, CommandBegun DEF Refused, States
  <2> QED BY <2>1, <2>2, <2>3
<1>4. CASE op = "write"
  <2>1. CASE ~registers.lba_mode
    <3>1. Command(Fail(Latched, NoLbaMode)) /\ Selected = NoSector
      BY <1>4, <2>1 DEF HdCommand, WriteSectors, Refuse, Selected
    <3>2. card'[0] = Fail(Latched, NoLbaMode) /\ UNCHANGED <<registers, mmap, file, panicked>>
      BY <3>1, CommandTaken
    <3> QED BY <1>4, <3>1, <3>2, CommandRefused DEF Refused
  <2>2. CASE registers.lba_mode
    <3>1. Command(Begin(Latched, "WriteSectors")) /\ Selected # NoSector
      BY <1>0, <1>4, <2>2 DEF HdCommand, WriteSectors, Refuse, Selected
    <3>2. /\ card'[0] = Begin(Latched, "WriteSectors")
          /\ UNCHANGED <<registers, mmap, file, panicked>>
      BY <3>1, CommandTaken
    <3> QED BY <1>4, <3>1, <3>2, CommandBegun DEF Refused, States
  <2> QED BY <2>1, <2>2
<1> QED BY <1>0, <1>1, <1>2, <1>3, <1>4

LEMMA HdCommandHolds ==
  ASSUME HdInv, HdCommand
  PROVE  HdInv'
<1>1. IInv'
  BY CardSound DEF HdNext, Routine
<1>2. /\ op \in {"features", "identify", "read", "write"} /\ Sel = 0
      /\ at = "command" /\ at' = "check_wait" /\ moved = 0 /\ before = None
      /\ UNCHANGED <<op, arg, moved, failed, buf, dirty>>
      /\ UNCHANGED <<registers, mmap, file, panicked>>
  BY Standing, CommandGiven
  DEF HdCommand, Goto, HdInv, InRoutine, BytesFollow, Answered, Moving
<1>3. UNCHANGED RegisterLba /\ UNCHANGED Selected
  BY <1>2, AddressStays
<1>4. Answered' /\ (Moving' <=> op # "features" /\ ~Refused')
  BY <1>2, Sizes DEF Answered, Moving
<1>5. op = "write" /\ ~Refused' =>
        /\ Selected \in Sectors /\ card'[0].lba = Selected
        /\ before' = SectorOf(mmap[0], card'[0].lba) /\ before' \in Data
  <2> SUFFICES ASSUME op = "write", ~Refused'
               PROVE  /\ Selected \in Sectors /\ card'[0].lba = Selected
                      /\ before' = SectorOf(mmap[0], card'[0].lba) /\ before' \in Data
    OBVIOUS
  <2>1. Selected \in Sectors /\ Selected = RegisterLba /\ card'[0].lba = Selected
    BY CommandGiven DEF HdInv, AddressKept, Selected
  <2>2. before' = SectorOf(mmap[0], card'[0].lba)
    BY <1>2, CommandGiven DEF HdCommand, Refused
  <2> QED BY <2>1, <2>2, Standing, SectorData
<1>6. op # "write" \/ Refused' => before' = None
  BY <1>2 DEF HdCommand, Refused
<1>7. HdTypeOK'
  BY <1>1, <1>2, <1>5, <1>6 DEF HdInv, HdTypeOK, IInv, Accesses
<1>8. AddressKept'
  BY <1>2, <1>3 DEF HdInv, AddressKept
<1>9. InRoutine'
  BY <1>2, <1>4 DEF HdInv, InRoutine, Answered
<1>10. CardAnswers'
  <2>1. Selected \in Sectors => Selected = RegisterLba /\ Selected # NoSector
    BY Addresses DEF Selected
  <2> QED BY <1>2, <1>3, <1>4, <2>1, CommandGiven, Sizes DEF CardAnswers
<1>11. BytesFollow'
  <2>1. before' # None <=> op' = "write" /\ Moving'
    BY <1>2, <1>4, <1>5, <1>6, DataIsSomething
  <2>2. \A i \in 0 .. moved' - 1 : FALSE
    BY <1>2
  <2>3. ASSUME op = "write", Moving', NEW i \in Offsets
        PROVE  mmap'[0][card'[0].lba * SectorSize + i]
                 = IF i < moved' THEN buf'[i] ELSE before'[i]
    <3>1. ~(i < moved')
      BY <1>2 DEF Offsets
    <3>2. before'[i] = mmap[0][card'[0].lba * SectorSize + i]
      BY <1>4, <1>5, <2>3 DEF SectorOf
    <3> QED BY <1>2, <3>1, <3>2
  <2> QED BY <1>2, <2>1, <2>2, <2>3 DEF BytesFollow
<1>12. AcknowledgedSurvives'
  BY <1>2 DEF HdInv, AcknowledgedSurvives, SectorOf
<1> QED BY <1>1, <1>2, <1>7, <1>8, <1>9, <1>10, <1>11, <1>12 DEF HdInv, NoPanic

(***************************************************************************)
(* The data port.                                                          *)
(***************************************************************************)

\* At the data port a transfer of the routine's kind is in progress, and the
\* next byte of a sector is one of the image: nothing runs off it.
LEMMA AtData ==
  ASSUME HdInv, at = "data"
  PROVE  /\ Moving /\ Answered /\ ~Refused /\ moved \in Offsets
         /\ op \in {"identify", "read", "write"}
         /\ card[0].state = CASE op = "identify" -> "IdentifyDevice"
                               [] op = "read" -> "ReadSectors"
                               [] op = "write" -> "WriteSectors"
         /\ card[0].sector_offset = moved
         /\ op \in {"read", "write"} =>
              /\ Selected \in Sectors /\ card[0].lba = Selected
              /\ Position(card[0]) = Selected * SectorSize + moved
              /\ Position(card[0]) \in 0 .. ImageLen[0] - 1
<1>1. Moving /\ Answered /\ ~Refused /\ moved < SectorSize
  BY DEF HdInv, InRoutine, Moving
<1>2. moved \in Offsets
  BY <1>1, Standing, Sizes DEF Offsets
<1>3. op \in {"read", "write"} => Selected \in Sectors
  BY <1>1 DEF HdInv, CardAnswers, AddressKept
<1>4. op \in {"read", "write"} => card[0].lba = Selected
  BY <1>1, <1>3 DEF HdInv, CardAnswers
<1>5. card[0].sector_offset = moved
  BY <1>1 DEF HdInv, CardAnswers
<1>6. op \in {"read", "write"} => Position(card[0]) = Selected * SectorSize + moved
  BY <1>4, <1>5 DEF Position, SectorStart
<1> QED BY <1>1, <1>2, <1>3, <1>4, <1>5, <1>6, SectorFits DEF HdInv, CardAnswers, Moving

\* The card after a byte.
LEMMA MovedCard ==
  ASSUME HdInv
  PROVE  /\ Moved \in Cards /\ Moved.sector_offset = card[0].sector_offset + 1
         /\ Moved.state = card[0].state /\ Moved.status = card[0].status
         /\ Moved.lba = card[0].lba
BY Standing DEF Moved, Cards

LEMMA CardSet ==
  ASSUME HdInv, NEW c, SetCard(c)
  PROVE  card'[0] = c
BY Standing, Sizes DEF SetCard

LEMMA HdBufInDoes ==
  ASSUME HdInv, HdBufIn
  PROVE  /\ op \in {"identify", "read"} /\ at = "data"
         /\ UNCHANGED <<registers, mmap, file, panicked, op, arg, failed, before, dirty>>
         /\ moved' = moved + 1
         /\ at' = IF moved + 1 = SectorSize THEN "check_wait" ELSE "data_wait"
         /\ buf' = [buf EXCEPT ![moved] =
                      IF op = "read" THEN mmap[0][card[0].lba * SectorSize + moved]
                                     ELSE InfoByte]
         /\ card'[0].lba = card[0].lba
         /\ card'[0].status \in {card[0].status, card[0].status \ {"DRQ"}}
         /\ moved + 1 # SectorSize =>
              card'[0].sector_offset = moved + 1 /\ card'[0].state = card[0].state
<1>1. /\ at = "data" /\ op \in {"identify", "read"} /\ Sel = 0 /\ ~panicked
      /\ moved' = moved + 1
      /\ at' = IF moved + 1 = SectorSize THEN "check_wait" ELSE "data_wait"
      /\ UNCHANGED <<op, arg, failed, before, dirty>>
  BY Standing DEF HdBufIn, NextByte
<1>2. /\ card[0].sector_offset = moved /\ Moved \in Cards
      /\ Moved.sector_offset = moved + 1
      /\ Moved.state = card[0].state /\ Moved.status = card[0].status
      /\ Moved.lba = card[0].lba
  BY <1>1, AtData, MovedCard
<1>3. CASE op = "identify"
  <2>1. ReadInfo /\ buf' = [buf EXCEPT ![moved] = InfoByte]
    BY <1>1, <1>3, AtData DEF HdBufIn
  <2>2. /\ UNCHANGED <<registers, mmap, file, panicked>>
        /\ card'[0] = IF moved + 1 = SectorSize
                        THEN [Moved EXCEPT !.error = {}, !.status = @ \ {"DRQ"},
                                           !.state = "None"]
                        ELSE Moved
    BY <1>2, <2>1, CardSet DEF ReadInfo
  <2> QED BY <1>1, <1>2, <1>3, <2>1, <2>2 DEF Cards
<1>4. CASE op = "read"
  <2>1. /\ Position(card[0]) = card[0].lba * SectorSize + moved
        /\ ~(Position(card[0]) >= ImageLen[0])
    BY <1>1, <1>4, AtData, Sizes
  <2>2. ReadData /\ buf' = IF panicked' THEN buf ELSE [buf EXCEPT ![moved] = DataIn]
    BY <1>1, <1>4, AtData DEF HdBufIn
  <2>3. /\ UNCHANGED <<registers, mmap, file, panicked>>
        /\ card'[0] = IF moved + 1 = SectorSize
                        THEN [Moved EXCEPT !.status = @ \ {"DRQ"}, !.state = "None"]
                        ELSE Moved
    BY <1>1, <1>2, <2>1, <2>2, CardSet DEF ReadData, DataPanic
  <2>4. DataIn = mmap[0][card[0].lba * SectorSize + moved]
    BY <1>1, <2>1 DEF DataIn
  <2> QED BY <1>1, <1>2, <1>4, <2>2, <2>3, <2>4 DEF Cards
<1> QED BY <1>1, <1>3, <1>4

LEMMA HdBufInHolds ==
  ASSUME HdInv, HdBufIn
  PROVE  HdInv'
<1>1. IInv'
  BY CardSound DEF HdNext, Routine
<1>2. /\ op \in {"identify", "read"} /\ at = "data"
      /\ UNCHANGED <<registers, mmap, file, panicked, op, arg, failed, before, dirty>>
      /\ moved' = moved + 1 /\ moved \in Offsets
      /\ at' = IF moved + 1 = SectorSize THEN "check_wait" ELSE "data_wait"
  BY HdBufInDoes, AtData
<1>3. moved' \in 0 .. SectorSize /\ moved' # 0 /\ (moved' # SectorSize <=> moved' < SectorSize)
  BY <1>2, Sizes DEF Offsets
<1>4. /\ UNCHANGED RegisterLba /\ UNCHANGED Selected
      /\ ~Refused /\ ~Refused' /\ Answered /\ Answered'
  BY <1>2, AddressStays, AtData, HdBufInDoes DEF Refused, Answered
<1>5. buf' \in Data
  <2>1. ASSUME op = "read" PROVE mmap[0][card[0].lba * SectorSize + moved] \in Byte
    <3>1. mmap[0] \in Image(0)
      BY Standing, Sizes DEF Images
    <3>2. card[0].lba * SectorSize + moved \in 0 .. ImageLen[0] - 1
      BY <1>2, <2>1, AtData
    <3> QED BY <3>1, <3>2 DEF Image
  <2> QED BY <1>2, <2>1, HdBufInDoes, Standing, DataAssumption DEF Data
<1>6. HdTypeOK'
  BY <1>1, <1>2, <1>3, <1>5 DEF HdInv, HdTypeOK, IInv, Accesses
<1>7. AddressKept'
  BY <1>2, <1>4 DEF HdInv, AddressKept
<1>8. Moving' <=> moved' # SectorSize
  BY <1>2, <1>3, <1>4 DEF Moving
<1>9. InRoutine'
  BY <1>2, <1>3, <1>4, <1>8 DEF HdInv, InRoutine
<1>10. CardAnswers'
  BY <1>2, <1>3, <1>4, <1>8, AtData, HdBufInDoes DEF HdInv, CardAnswers
<1>11. BytesFollow'
  <2>1. before' = None
    BY <1>2 DEF HdInv, BytesFollow
  <2>2. ASSUME op = "read", NEW i \in 0 .. moved' - 1
        PROVE  buf'[i] = mmap'[0][card'[0].lba * SectorSize + i]
    <3>1. i \in Offsets /\ (i = moved \/ i \in 0 .. moved - 1)
      BY <1>2, <1>3, Sizes DEF Offsets
    <3>2. buf'[i] = IF i = moved THEN mmap[0][card[0].lba * SectorSize + moved] ELSE buf[i]
      BY <2>2, <3>1, HdBufInDoes, Standing DEF Data
    <3>3. i # moved => buf[i] = mmap[0][card[0].lba * SectorSize + i]
      BY <1>4, <2>2, <3>1 DEF HdInv, BytesFollow
    <3> QED BY <1>2, <3>2, <3>3, HdBufInDoes
  <2> QED BY <1>2, <2>1, <2>2 DEF BytesFollow
<1>12. AcknowledgedSurvives'
  BY <1>2, HdBufInDoes, NothingWritten DEF HdInv
<1> QED BY <1>1, <1>2, <1>6, <1>7, <1>9, <1>10, <1>11, <1>12 DEF HdInv, NoPanic

\* A byte of a write: it replaces its own byte of its own sector and leaves the
\* others.
LEMMA ByteReplaced ==
  ASSUME HdInv, op = "write", at = "data",
         mmap' = [mmap EXCEPT ![0][Position(card[0])] = buf[moved]]
  PROVE  /\ \A t \in Sectors, i \in Offsets :
              mmap'[0][t * SectorSize + i]
                = IF t = Selected /\ i = moved THEN buf[moved]
                                              ELSE mmap[0][t * SectorSize + i]
         /\ \A t \in Sectors \ {Selected} : SectorOf(mmap'[0], t) = SectorOf(mmap[0], t)
<1>1. /\ Selected \in Sectors /\ moved \in Offsets
      /\ Position(card[0]) = Selected * SectorSize + moved
  BY AtData
<1>2. mmap[0] \in [0 .. ImageLen[0] - 1 -> Byte] /\ mmap \in Images
  BY Standing, Sizes DEF Images, Image
<1>3. mmap'[0] = [mmap[0] EXCEPT ![Position(card[0])] = buf[moved]]
  BY <1>2, Sizes DEF Images
<1>4. ASSUME NEW t \in Sectors, NEW i \in Offsets
      PROVE  mmap'[0][t * SectorSize + i]
               = IF t = Selected /\ i = moved THEN buf[moved]
                                             ELSE mmap[0][t * SectorSize + i]
  <2>1. t * SectorSize + i \in 0 .. ImageLen[0] - 1
    BY SectorFits
  <2>2. t * SectorSize + i = Position(card[0]) <=> t = Selected /\ i = moved
    BY <1>1, SectorsApart
  <2> QED BY <1>2, <1>3, <2>1, <2>2
<1> QED BY <1>4 DEF SectorOf

LEMMA HdBufOutDoes ==
  ASSUME HdInv, HdBufOut
  PROVE  /\ op = "write" /\ at = "data"
         /\ UNCHANGED <<registers, panicked, op, arg, failed, buf>>
         /\ moved' = moved + 1
         /\ at' = IF moved + 1 = SectorSize THEN "check_wait" ELSE "data_wait"
         /\ mmap' = [mmap EXCEPT ![0][Position(card[0])] = buf[moved]]
         /\ card'[0].lba = card[0].lba /\ "BUSY" \notin card'[0].status
         /\ moved + 1 # SectorSize =>
              /\ card'[0].sector_offset = moved + 1 /\ card'[0].state = card[0].state
              /\ ~Refused'
              /\ UNCHANGED <<file, before, dirty>>
         /\ moved + 1 = SectorSize =>
              /\ before' = None
              /\ \/ ~Refused' /\ file'[0] = mmap'[0] /\ dirty' = {}
                 \/ Refused' /\ file' = file /\ dirty' = dirty \cup {Selected}
<1>1. /\ at = "data" /\ op = "write" /\ Sel = 0 /\ ~panicked
      /\ moved' = moved + 1
      /\ at' = IF moved + 1 = SectorSize THEN "check_wait" ELSE "data_wait"
      /\ UNCHANGED <<op, arg, failed, buf>>
  BY Standing DEF HdBufOut, NextByte
<1>2. /\ card[0].sector_offset = moved /\ Moved \in Cards
      /\ Moved.sector_offset = moved + 1
      /\ Moved.state = card[0].state /\ Moved.status = card[0].status
      /\ Moved.lba = card[0].lba /\ card[0].lba = Selected
      /\ "ERR" \notin card[0].status /\ "BUSY" \notin card[0].status
  BY <1>1, AtData, MovedCard DEF HdInv, CardAnswers, Refused
<1>3. ~(Position(card[0]) >= ImageLen[0])
  BY <1>1, AtData, Sizes
<1>4. WriteData(buf[moved])
  BY <1>1, AtData DEF HdBufOut
<1>5. /\ mmap' = [mmap EXCEPT ![0][Position(card[0])] = buf[moved]]
      /\ UNCHANGED <<registers, panicked>>
  BY <1>1, <1>3, <1>4 DEF WriteData, DataPanic
<1>6. CASE moved + 1 # SectorSize
  <2>1. SetCard(Moved) /\ UNCHANGED <<file, before, dirty>>
    BY <1>1, <1>2, <1>3, <1>4, <1>6 DEF WriteData, DataPanic, HdBufOut
  <2>2. card'[0] = Moved
    BY <2>1, CardSet
  <2> QED BY <1>1, <1>2, <1>5, <1>6, <2>1, <2>2 DEF Refused
<1>7. CASE moved + 1 = SectorSize
  <2> DEFINE f == Fail([Moved EXCEPT !.status = @ \ {"DRQ"}], WriteFault)
  <2>1. PICK ok \in BOOLEAN : Flush(ok) /\ SetCard(IF ok THEN Moved ELSE f)
    BY <1>1, <1>2, <1>3, <1>4, <1>7 DEF WriteData, DataPanic
  <2>2. f.lba = Moved.lba /\ "ERR" \in f.status /\ "BUSY" \notin f.status
    BY <1>2 DEF Fail, Cards
  <2>3. /\ before' = None
        /\ dirty' = IF "ERR" \in card'[0].status THEN dirty \cup {Selected} ELSE {}
    BY <1>1, <1>2, <1>7 DEF HdBufOut
  <2>4. CASE ok
    <3>1. card'[0] = Moved
      BY <2>1, <2>4, CardSet
    <3>2. file'[0] = mmap'[0]
      BY <1>1, <2>1, <2>4, Standing, Sizes DEF Flush, Images
    <3> QED BY <1>1, <1>2, <1>5, <1>7, <2>3, <3>1, <3>2 DEF Refused
  <2>5. CASE ~ok
    <3>1. card'[0] = f /\ file' = file
      BY <2>1, <2>5, CardSet DEF Flush
    <3> HIDE DEF f
    <3> QED BY <1>1, <1>2, <1>5, <1>7, <2>2, <2>3, <3>1 DEF Refused
  <2> QED BY <2>4, <2>5
<1> QED BY <1>6, <1>7

\* The last byte completes the sector.
LEMMA SectorWritten ==
  ASSUME HdInv, HdBufOut, moved + 1 = SectorSize
  PROVE  SectorOf(mmap'[0], Selected) = buf
<1>1. /\ op = "write" /\ at = "data" /\ Moving /\ moved \in Offsets
      /\ Selected \in Sectors /\ card[0].lba = Selected /\ buf \in Data
      /\ mmap' = [mmap EXCEPT ![0][Position(card[0])] = buf[moved]]
  BY HdBufOutDoes, AtData, Standing
<1>2. ASSUME NEW i \in Offsets PROVE mmap'[0][Selected * SectorSize + i] = buf[i]
  <2>1. i = moved \/ i < moved
    BY <1>1, Sizes DEF Offsets
  <2>2. i < moved => mmap[0][Selected * SectorSize + i] = buf[i]
    BY <1>1 DEF HdInv, BytesFollow
  <2> QED BY <1>1, <2>1, <2>2, ByteReplaced
<1> QED BY <1>1, <1>2 DEF SectorOf, Data

LEMMA HdBufOutHolds ==
  ASSUME HdInv, HdBufOut
  PROVE  HdInv'
<1>1. IInv'
  BY CardSound DEF HdNext, Routine
<1>2. /\ op = "write" /\ at = "data" /\ Moving
      /\ UNCHANGED <<registers, panicked, op, arg, failed, buf>>
      /\ moved' = moved + 1 /\ moved \in Offsets
      /\ at' = IF moved + 1 = SectorSize THEN "check_wait" ELSE "data_wait"
      /\ Selected \in Sectors /\ card[0].lba = Selected /\ card'[0].lba = Selected
  BY HdBufOutDoes, AtData
<1>3. moved' \in 0 .. SectorSize /\ moved' # 0 /\ (moved' # SectorSize <=> moved' < SectorSize)
  BY <1>2, Sizes DEF Offsets
<1>4. UNCHANGED RegisterLba /\ UNCHANGED Selected /\ Answered'
  BY <1>2, AddressStays DEF Answered
<1>5. HdTypeOK'
  <2>1. before' \in Data \cup {None} /\ dirty' \subseteq Sectors
    BY <1>2, HdBufOutDoes DEF HdInv, HdTypeOK
  <2> QED BY <1>1, <1>2, <1>3, <2>1 DEF HdInv, HdTypeOK, IInv, Accesses
<1>6. AddressKept'
  BY <1>2, <1>4 DEF HdInv, AddressKept
<1>7. Moving' <=> moved' # SectorSize
  BY <1>2, <1>3, <1>4, HdBufOutDoes DEF Moving
<1>8. InRoutine'
  BY <1>2, <1>3, <1>4, <1>7 DEF HdInv, InRoutine
<1>9. CardAnswers'
  <2>1. Selected # NoSector
    BY <1>2, Addresses
  <2> QED BY <1>2, <1>3, <1>4, <1>7, <2>1, AtData, HdBufOutDoes DEF CardAnswers
<1>10. BytesFollow'
  <2>1. before' # None <=> Moving'
    BY <1>2, <1>7, HdBufOutDoes DEF HdInv, BytesFollow
  <2>2. ASSUME Moving', NEW i \in Offsets
        PROVE  mmap'[0][card'[0].lba * SectorSize + i]
                 = IF i < moved' THEN buf'[i] ELSE before'[i]
    <3>1. before' = before
      BY <1>2, <1>7, <2>2, HdBufOutDoes
    <3>2. i < moved' <=> i < moved \/ i = moved
      BY <1>2 DEF Offsets
    <3>3. mmap[0][Selected * SectorSize + i] = IF i < moved THEN buf[i] ELSE before[i]
      BY <1>2 DEF HdInv, BytesFollow
    <3>4. mmap'[0][Selected * SectorSize + i]
            = IF i = moved THEN buf[moved] ELSE mmap[0][Selected * SectorSize + i]
      BY <1>2, ByteReplaced, HdBufOutDoes
    <3> QED BY <1>2, <3>1, <3>2, <3>3, <3>4
  <2> QED BY <1>2, <2>1, <2>2 DEF BytesFollow
<1>11. AcknowledgedSurvives'
  <2>1. \A t \in Sectors \ {Selected} : SectorOf(mmap'[0], t) = SectorOf(mmap[0], t)
    BY <1>2, ByteReplaced, HdBufOutDoes
  <2>2. CASE moved' # SectorSize
    BY <1>2, <2>1, <2>2, HdBufOutDoes DEF HdInv, AcknowledgedSurvives, BytesFollow
  <2>3. CASE moved' = SectorSize /\ ~Refused'
    BY <1>2, <2>3, HdBufOutDoes DEF AcknowledgedSurvives
  <2>4. CASE moved' = SectorSize /\ Refused'
    BY <1>2, <2>1, <2>4, HdBufOutDoes DEF HdInv, AcknowledgedSurvives
  <2> QED BY <2>2, <2>3, <2>4
<1> QED BY <1>1, <1>2, <1>5, <1>6, <1>8, <1>9, <1>10, <1>11 DEF HdInv, NoPanic

(***************************************************************************)
(* The host.                                                               *)
(***************************************************************************)
LEMMA HdWriteBackHolds ==
  ASSUME HdInv, NEW i \in 0 .. ImageLen[0] - 1, HdWriteBack(i)
  PROVE  HdInv'
<1>1. IInv'
  BY CardSound DEF HdNext, HdHost
<1>2. /\ file' = [file EXCEPT ![0][i] = mmap[0][i]]
      /\ UNCHANGED <<registers, card, mmap, panicked, op, at, arg, moved, buf, failed,
                     before, dirty>>
  BY DEF HdWriteBack, WriteBack, driverVars
<1>3. UNCHANGED RegisterLba /\ UNCHANGED Selected
  BY <1>2, AddressStays
<1>4. HdTypeOK'
  BY <1>1, <1>2 DEF HdInv, HdTypeOK, IInv
<1>5. AddressKept'
  BY <1>2, <1>3 DEF HdInv, AddressKept
<1>6. InRoutine' /\ CardAnswers' /\ BytesFollow'
  BY <1>2, <1>3
  DEF HdInv, InRoutine, CardAnswers, BytesFollow, Answered, Moving, Refused
<1>7. AcknowledgedSurvives'
  <2>1. /\ file'[0] = [file[0] EXCEPT ![i] = mmap[0][i]]
        /\ file[0] \in [0 .. ImageLen[0] - 1 -> Byte]
    BY <1>2, Standing, Sizes DEF Images, Image
  <2>2. ASSUME NEW s \in Sectors, SectorOf(file[0], s) = SectorOf(mmap[0], s)
        PROVE  SectorOf(file'[0], s) = SectorOf(mmap[0], s)
    <3>1. ASSUME NEW k \in Offsets
          PROVE  file'[0][s * SectorSize + k] = mmap[0][s * SectorSize + k]
      <4>1. s * SectorSize + k \in 0 .. ImageLen[0] - 1
        BY SectorFits
      <4>2. SectorOf(file[0], s)[k] = SectorOf(mmap[0], s)[k]
        BY <2>2
      <4>3. file[0][s * SectorSize + k] = mmap[0][s * SectorSize + k]
        BY <4>2 DEF SectorOf
      <4> QED BY <2>1, <4>1, <4>3
    <3> QED BY <3>1 DEF SectorOf
  <2> QED BY <1>2, <2>2 DEF HdInv, AcknowledgedSurvives
<1> QED BY <1>1, <1>2, <1>4, <1>5, <1>6, <1>7 DEF HdInv, NoPanic

\* The emulator is started again, with what is mapped or with what is on the disk.
LEMMA StartedAgain ==
  ASSUME HdInv, HdRestart \/ HdPowerLoss
  PROVE  /\ registers' = NewRegisters /\ card'[0] = NewCard /\ ~panicked'
         /\ ~registers'.lba_mode /\ registers'.drive = 0
         /\ card'[0].status = {"RDY", "DSC"}
         /\ op' = "none" /\ at' = "idle" /\ arg' = 0 /\ moved' = 0 /\ failed' = FALSE
         /\ buf' \in Data /\ before' = None /\ file' = file
         /\ before # None => op = "write" /\ Moving /\ card[0].lba = Selected
                             /\ Selected \in Sectors
<1>1. registers' = NewRegisters /\ card'[0] = NewCard /\ ~panicked' /\ file' = file
  BY Sizes DEF HdRestart, HdPowerLoss, Restart, PowerLoss
<1>2. ~registers'.lba_mode /\ registers'.drive = 0 /\ card'[0].status = {"RDY", "DSC"}
  BY <1>1 DEF NewRegisters, NewCard
<1>3. buf' \in Data
  BY DataAssumption DEF HdRestart, HdPowerLoss, Reboot, ClearBuf, Data
<1>4. before # None => op = "write" /\ Moving
  BY DEF HdInv, BytesFollow
<1>5. op = "write" /\ Moving => Selected \in Sectors
  BY DEF HdInv, CardAnswers, AddressKept, Moving
<1>6. op = "write" /\ Moving => card[0].lba = Selected
  BY <1>5 DEF HdInv, CardAnswers, Moving
<1> QED BY <1>1, <1>2, <1>3, <1>4, <1>5, <1>6 DEF HdRestart, HdPowerLoss, Reboot, Return

LEMMA StartHolds ==
  ASSUME HdInv, HdRestart \/ HdPowerLoss
  PROVE  HdInv'
<1>1. IInv'
  BY CardSound DEF HdNext, HdHost
<1>2. 0 \in Lbas /\ 0 \in 0 .. SectorSize
  BY Sizes, Standing DEF Lbas
<1>3. dirty' \subseteq Sectors
  BY StartedAgain DEF HdRestart, HdPowerLoss, HdInv, HdTypeOK
<1>4. HdTypeOK'
  BY <1>1, <1>2, <1>3, StartedAgain DEF HdTypeOK, IInv, Ops, Accesses
<1>5. AddressKept' /\ InRoutine' /\ CardAnswers' /\ BytesFollow'
  BY StartedAgain
  DEF AddressKept, InRoutine, CardAnswers, BytesFollow, Answered, Moving, Refused
<1>6. AcknowledgedSurvives'
  <2>1. CASE HdRestart
    <3>1. /\ UNCHANGED <<mmap, file>>
          /\ dirty' = IF before = None THEN dirty ELSE dirty \cup {card[0].lba}
      BY <2>1 DEF HdRestart, Restart
    <3> QED BY <3>1, StartedAgain DEF HdInv, AcknowledgedSurvives
  <2>2. CASE HdPowerLoss
    BY <2>2 DEF HdPowerLoss, PowerLoss, AcknowledgedSurvives
  <2> QED BY <2>1, <2>2
<1> QED BY <1>1, <1>4, <1>5, <1>6, StartedAgain DEF HdInv, NoPanic

LEMMA StepHolds == HdInv /\ [HdNext]_hdVars => HdInv'
<1> SUFFICES ASSUME HdInv, [HdNext]_hdVars PROVE HdInv'
  OBVIOUS
<1>1. CASE Caller
  BY <1>1, CallHolds, CallLbaHolds, FillBufHolds DEF Caller
<1>2. CASE Routine
  BY <1>2, HdLbaHolds, HdWaitHolds, HdFeatureHolds, HdCommandHolds, HdErrHolds,
     HdErrCodeHolds, HdBufInHolds, HdBufOutHolds DEF Routine
<1>3. CASE HdHost
  BY <1>3, HdWriteBackHolds, StartHolds DEF HdHost
<1>4. CASE UNCHANGED hdVars
  <2>1. UNCHANGED RegisterLba /\ UNCHANGED Selected /\ IInv'
    BY <1>4, AddressStays, CardSound DEF hdVars
  <2>2. /\ UNCHANGED <<registers, card, mmap, file, panicked>>
        /\ UNCHANGED <<op, at, arg, moved, buf, failed, before, dirty>>
    BY <1>4 DEF hdVars, driverVars
  <2>3. HdTypeOK' /\ AddressKept'
    BY <2>1, <2>2 DEF HdInv, HdTypeOK, IInv, AddressKept
  <2>4. InRoutine' /\ CardAnswers' /\ BytesFollow'
    BY <2>1, <2>2
    DEF HdInv, InRoutine, CardAnswers, BytesFollow, Answered, Moving, Refused
  <2>5. AcknowledgedSurvives'
    BY <2>2, NothingWritten DEF HdInv
  <2> QED BY <2>1, <2>2, <2>3, <2>4, <2>5 DEF HdInv, NoPanic
<1> QED BY <1>1, <1>2, <1>3, <1>4 DEF HdNext

(***************************************************************************)
(* The theorems.                                                           *)
(***************************************************************************)

\* The inductive invariant holds.
THEOREM HdInvariance == HdSpec => []HdInv
BY InitHolds, StepHolds, PTL DEF HdSpec

\* The routines are a guest of the card, so that all that is proved of the card
\* is true of it under them (hello_hd.az8:144-232).
THEOREM GuestOfCard == HdSpec => Spec
<1>1. HdInit => Init
  BY DEF HdInit
<1>2. HdInv /\ [HdNext]_hdVars => [Next]_vars
  BY CardStep
<1> QED BY <1>1, <1>2, HdInvariance, PTL DEF HdSpec, Spec

\* Every variable keeps its type: no routine counts past its sector or stores
\* past its buffer (hello_hd.az8:189-215).
THEOREM HdTypeCorrect == HdSpec => []HdTypeOK
<1>1. HdInv => HdTypeOK
  BY DEF HdInv
<1> QED BY <1>1, HdInvariance, PTL

\* The routines never make the card index past the image or run into a todo!
\* (ata/mod.rs:160-220).
THEOREM NeverPanics == HdSpec => []NoPanic
<1>1. HdInv => NoPanic
  BY DEF HdInv
<1> QED BY <1>1, HdInvariance, PTL

\* A sector reported written is on the host's disk (ata/mod.rs:211-216,
\* hello_hd.az8:168-215).
THEOREM WritesSurvive == HdSpec => []AcknowledgedSurvives
<1>1. HdInv => AcknowledgedSurvives
  BY DEF HdInv
<1> QED BY <1>1, HdInvariance, PTL

\* A write command of the routines changes bytes of its own sector only: they never
\* send the byte after the last, which the card would put in the next sector
\* (hello_hd.az8:203-215, ata/mod.rs:206-218).
THEOREM WritesStayInSector == HdSpec => OneSectorPerWrite
<1> DEFINE Kept(d, i) ==
             mmap'[d][i] # mmap[d][i] =>
               \/ Restart \/ PowerLoss
               \/ i \in Sector(card[d]) \/ i \in Sector(card'[d])
           Change == \A d \in Drives : \A i \in DOMAIN mmap[d] : Kept(d, i)
<1>1. ASSUME HdInv, HdNext PROVE Change
  <2>1. CASE HdBufOut
    <3>1. /\ mmap' = [mmap EXCEPT ![0][Position(card[0])] = buf[moved]]
          /\ Position(card[0]) = card[0].lba * SectorSize + moved
          /\ moved \in Offsets /\ card[0].lba * SectorSize \in Nat
      BY <1>1, <2>1, HdBufOutDoes, AtData, SectorFits
    <3>2. Position(card[0]) \in Sector(card[0])
      BY <3>1, Sizes DEF Sector, SectorStart, Offsets
    <3>3. mmap \in Images
      BY <1>1, Standing
    <3> QED BY <3>1, <3>2, <3>3 DEF Images, Image
  <2>2. CASE HdPowerLoss
    BY <2>2 DEF HdPowerLoss
  <2>3. CASE HdLba \/ HdFeature \/ HdErr \/ HdErrCode
    BY <2>3
    DEF HdLba, HdFeature, HdErr, HdErrCode, WriteSectorNumber, WriteCylinderLow,
        WriteCylinderHigh, WriteDriveHead, WriteFeature, ReadStatus, vars
  <2>4. ASSUME NEW access, NEW next, HdWait(access, next) PROVE Change
    BY <2>4 DEF HdWait, ReadStatus
  <2>5. CASE HdCommand
    BY <1>1, <2>5, CommandGiven
  <2>6. CASE HdBufIn
    BY <1>1, <2>6, HdBufInDoes
  <2>7. CASE Caller
    BY <2>7 DEF Caller, Call, CallLba, FillBuf, vars
  <2>8. CASE HdRestart
    BY <2>8 DEF HdRestart
  <2>9. ASSUME NEW i, HdWriteBack(i) PROVE Change
    BY <2>9 DEF HdWriteBack, WriteBack
  <2> QED
    BY <1>1, <2>1, <2>2, <2>3, <2>4, <2>5, <2>6, <2>7, <2>8, <2>9
    DEF HdNext, Routine, HdHost
<1>2. UNCHANGED hdVars => UNCHANGED vars
  BY DEF hdVars, vars
<1>3. HdInv /\ [HdNext]_hdVars => [Change]_vars
  BY <1>1, <1>2
<1> QED BY <1>3, HdInvariance, PTL DEF HdSpec, OneSectorPerWrite

(***************************************************************************)
(* The refinement of SectorDevice.                                         *)
(***************************************************************************)
LEMMA InitMaps == HdInit => Device!Init
<1> SUFFICES ASSUME HdInit PROVE Device!Init
  OBVIOUS
<1>1. mmap \in Images /\ file = mmap /\ before = None /\ op = "none" /\ ~registers.lba_mode
  BY DEF HdInit, Init, NewRegisters
<1>2. disk = [s \in Sectors |-> SectorOf(mmap[0], s)] /\ stable = disk
  BY <1>1 DEF disk, stable
<1>3. disk \in [Sectors -> Data]
  BY <1>1, <1>2, SectorData
<1>4. selected = NoSector /\ request = Device!Idle
  BY <1>1 DEF selected, Selected, request, Device!Idle
<1>5. buf \in Data
  BY DataAssumption DEF HdInit, ClearBuf, Data
<1> QED BY <1>2, <1>3, <1>4, <1>5 DEF HdInit, Device!Init, Device!Data, Data, Offsets

\* What the device sees nothing of.
LEMMA DiskStays ==
  ASSUME UNCHANGED <<mmap, before>>, before # None => card'[0].lba = card[0].lba
  PROVE  UNCHANGED disk
BY DEF disk, SectorOf

LEMMA StableStays ==
  ASSUME UNCHANGED file
  PROVE  UNCHANGED stable
BY DEF stable, SectorOf

LEMMA SelectionStays ==
  ASSUME UNCHANGED registers, op' = "lba" <=> op = "lba"
  PROVE  UNCHANGED selected
BY AddressStays DEF selected

LEMMA RequestStays ==
  ASSUME UNCHANGED <<op, arg>>,
         op = "write" => /\ moved' = SectorSize <=> moved = SectorSize
                         /\ moved = SectorSize => (Refused' <=> Refused)
  PROVE  UNCHANGED request
<1>1. CASE op # "write" \/ moved # SectorSize
  BY <1>1 DEF request
<1>2. CASE op = "write" /\ moved = SectorSize
  BY <1>2 DEF request, Refused
<1> QED BY <1>1, <1>2

\* A step inside a routine that moves no byte is none of the device.
LEMMA Unseen ==
  ASSUME UNCHANGED <<registers, mmap, file, op, arg, moved, buf, failed, before, dirty>>,
         before # None => card'[0].lba = card[0].lba,
         op = "write" /\ moved = SectorSize => (Refused' <=> Refused)
  PROVE  UNCHANGED Device!vars
BY DiskStays, StableStays, SelectionStays, RequestStays DEF Device!vars

\* The caller's steps: it fills its buffer or starts a request.
LEMMA CallerMaps ==
  ASSUME HdInv, Caller
  PROVE  Device!Next
<1>0. op = "none" /\ moved = 0 /\ SectorSize # 0 /\ request = Device!Idle
  BY Sizes
  DEF Caller, Call, CallLba, FillBuf, HdInv, InRoutine, Answered, request, Device!Idle
<1>1. UNCHANGED <<registers, card, mmap, file, before, dirty, failed, moved>>
  BY DEF Caller, Call, CallLba, FillBuf, vars
<1>2. UNCHANGED disk /\ UNCHANGED stable
  BY <1>1, DiskStays, StableStays
<1>3. ASSUME NEW o \in Calls, Call(o) PROVE Device!Next
  <2>1. op' = o /\ UNCHANGED buf /\ o \in {"features", "identify", "read", "write"}
    BY <1>3, CallsAssumption DEF Call
  <2>2. request' = [op |-> o, sector |-> NoSector, phase |-> "started"]
    BY <1>0, <1>1, <2>1 DEF request
  <2>3. selected' = selected
    BY <1>0, <1>1, <2>1, SelectionStays
  <2>4. Device!Start(o, NoSector)
    BY <1>0, <1>1, <1>2, <2>1, <2>2, <2>3 DEF Device!Start
  <2> QED BY <2>1, <2>4 DEF Device!Next, Device!Requests
<1>4. ASSUME NEW l \in Sectors \cup ProbeLbas, CallLba(l) PROVE Device!Next
  <2>1. op' = "lba" /\ arg' = l /\ UNCHANGED buf
    BY <1>4 DEF CallLba
  <2>2. /\ request' = [op |-> "seek", sector |-> l, phase |-> "started"]
        /\ selected' = NoSector
    BY <2>1 DEF request, selected
  <2>3. Device!Start("seek", l)
    BY <1>0, <1>1, <1>2, <2>1, <2>2 DEF Device!Start
  <2> QED BY <2>3 DEF Device!Next
<1>5. ASSUME NEW data \in Payloads, FillBuf(data) PROVE Device!Next
  <2>1. UNCHANGED <<op, arg>> /\ buf' = data /\ data \in Data
    BY <1>5, DataAssumption DEF FillBuf
  <2>2. UNCHANGED selected /\ UNCHANGED request
    BY <1>0, <1>1, <2>1, SelectionStays, RequestStays
  <2>3. Device!Fill
    BY <1>0, <1>1, <1>2, <2>1, <2>2 DEF Device!Fill, Device!Data, Data, Offsets
  <2> QED BY <2>3 DEF Device!Next
<1> QED BY <1>3, <1>4, <1>5 DEF Caller

\* A routine's return ends the request.
LEMMA Replied ==
  ASSUME op' = "none", UNCHANGED <<registers, mmap, file, buf, before, dirty>>,
         before = None, op # "lba", NEW carry \in BOOLEAN, failed' = carry
  PROVE  Device!Reply(carry) /\ UNCHANGED selected
<1>1. request' = Device!Idle
  BY DEF request, Device!Idle
<1>2. UNCHANGED disk /\ UNCHANGED stable /\ UNCHANGED selected
  BY DiskStays, StableStays, SelectionStays
<1> QED BY <1>1, <1>2 DEF Device!Reply

LEMMA HdLbaMaps ==
  ASSUME HdInv, HdLba
  PROVE  [Device!Next]_Device!vars
<1>1. /\ op = "lba" /\ before = None
      /\ UNCHANGED <<card, mmap, file, buf, before, dirty>>
  BY DEF HdLba, WriteSectorNumber, WriteCylinderLow, WriteCylinderHigh, WriteDriveHead,
         HdInv, BytesFollow
<1>2. UNCHANGED disk /\ UNCHANGED stable
  BY <1>1, DiskStays, StableStays
<1>3. CASE at = "head"
  <2>1. WriteDriveHead(0, TRUE, H(arg)) /\ op' = "none" /\ failed' = FALSE
    BY <1>1, <1>3 DEF HdLba, Return
  <2>2. selected' = arg
    BY <1>1, <1>3, <2>1, AddressSent DEF selected, Selected
  <2>3. request.op = "seek" /\ request.sector = arg
    BY <1>1 DEF request
  <2>4. request' = Device!Idle
    BY <2>1 DEF request, Device!Idle
  <2>5. Device!Finish
    BY <1>1, <1>2, <2>1, <2>2, <2>3, <2>4 DEF Device!Finish, Device!Reply
  <2> QED BY <2>5 DEF Device!Next
<1>4. CASE at # "head"
  <2>1. UNCHANGED <<op, arg, failed>>
    BY <1>1, <1>4 DEF HdLba, Goto
  <2>2. UNCHANGED selected /\ UNCHANGED request
    BY <1>1, <2>1, RequestStays DEF selected
  <2> QED BY <1>1, <1>2, <2>1, <2>2 DEF Device!vars
<1> QED BY <1>3, <1>4

LEMMA HdWaitMaps ==
  ASSUME HdInv, NEW access, NEW next, HdWait(access, next)
  PROVE  UNCHANGED Device!vars
<1>1. /\ UNCHANGED <<registers, mmap, file, op, arg, moved, buf, failed, before, dirty>>
      /\ card'[0].lba = card[0].lba /\ card'[0].status = card[0].status
  BY StatusRead DEF HdWait, Goto
<1> QED BY <1>1, Unseen DEF Refused

LEMMA HdFeatureMaps ==
  ASSUME HdInv, HdFeature
  PROVE  UNCHANGED Device!vars
<1>1. /\ registers' = [registers EXCEPT !.feature = "data_width"] /\ op = "features"
      /\ UNCHANGED <<card, mmap, file, op, arg, moved, buf, failed, before, dirty>>
  BY DEF HdFeature, WriteFeature, Goto, HdInv, InRoutine
<1>2. registers'.lba_mode = registers.lba_mode /\ UNCHANGED RegisterLba
  BY <1>1, Standing DEF Registers, RegisterLba
<1>3. UNCHANGED selected
  BY <1>1, <1>2 DEF selected, Selected
<1>4. UNCHANGED request /\ UNCHANGED disk /\ UNCHANGED stable
  BY <1>1, RequestStays, DiskStays, StableStays
<1> QED BY <1>1, <1>3, <1>4 DEF Device!vars

\* A write command keeps what the disk shows: the old contents of its sector.
LEMMA HdCommandMaps ==
  ASSUME HdInv, HdCommand
  PROVE  UNCHANGED Device!vars
<1>1. /\ UNCHANGED <<registers, mmap, file, op, arg, moved, buf, failed, dirty>>
      /\ at = "command" /\ moved = 0 /\ moved # SectorSize /\ before = None /\ Sel = 0
  BY CommandGiven, Standing, Sizes
  DEF HdCommand, Goto, HdInv, InRoutine, BytesFollow, Answered, Moving
<1>2. before' # None => before' = SectorOf(mmap[0], card'[0].lba)
  BY <1>1 DEF HdCommand
<1>3. ASSUME NEW s \in Sectors
      PROVE  (IF before' # None /\ s = card'[0].lba THEN before' ELSE SectorOf(mmap'[0], s))
               = SectorOf(mmap[0], s)
  BY <1>1, <1>2
<1>4. UNCHANGED disk
  BY <1>1, <1>3 DEF disk
<1>5. UNCHANGED request /\ UNCHANGED selected /\ UNCHANGED stable
  BY <1>1, RequestStays, SelectionStays, StableStays
<1> QED BY <1>1, <1>4, <1>5 DEF Device!vars

\* A read that is done has left the sector in the buffer.
LEMMA ReadDone ==
  ASSUME HdInv, op = "read", Answered, ~Refused, moved = SectorSize
  PROVE  Selected \in Sectors /\ buf = disk[Selected]
<1>1. Selected \in Sectors /\ card[0].lba = Selected /\ before = None /\ buf \in Data
  BY Standing DEF HdInv, CardAnswers, BytesFollow
<1>2. ASSUME NEW i \in Offsets PROVE buf[i] = mmap[0][Selected * SectorSize + i]
  BY <1>1 DEF HdInv, BytesFollow, Offsets
<1>3. buf = SectorOf(mmap[0], Selected)
  BY <1>1, <1>2 DEF SectorOf, Data
<1> QED BY <1>1, <1>3 DEF disk

LEMMA HdErrMaps ==
  ASSUME HdInv, HdErr
  PROVE  [Device!Next]_Device!vars
<1>1. /\ UNCHANGED <<registers, mmap, file, buf, before, dirty>>
      /\ card'[0].lba = card[0].lba /\ card'[0].status = card[0].status
  BY StatusRead DEF HdErr
<1>2. /\ at = "check" /\ Answered /\ Sel = 0
      /\ op \in {"features", "identify", "read", "write"}
      /\ op = "features" => moved = 0
  BY Standing DEF HdErr, Answered, HdInv, HdTypeOK, Ops, InRoutine
<1>3. CASE ~Refused /\ (op = "features" \/ moved = SectorSize)
  <2>1. op' = "none" /\ failed' = FALSE
    BY <1>2, <1>3 DEF HdErr, Refused, Return
  <2>2. before = None
    BY <1>2, <1>3, Sizes DEF HdInv, BytesFollow, Moving
  <2>3. Device!Reply(FALSE) /\ UNCHANGED selected
    BY <1>1, <1>2, <2>1, <2>2, Replied
  <2>4. selected = Selected /\ request.op = op
    BY <1>2 DEF selected, request
  <2>5. CASE op \in {"features", "identify"}
    BY <2>3, <2>4, <2>5 DEF Device!Finish, Device!Next
  <2>6. CASE op = "read"
    <3>1. selected \in Sectors /\ buf = disk[selected]
      BY <1>2, <1>3, <2>4, <2>6, ReadDone
    <3>2. Device!Reply(selected \notin Sectors)
      BY <2>3, <3>1 DEF Device!Reply
    <3> QED BY <2>3, <2>4, <2>6, <3>1, <3>2 DEF Device!Finish, Device!Next
  <2>7. CASE op = "write"
    <3>1. request.phase = "stored"
      BY <1>3, <2>7 DEF request, Refused
    <3>2. Device!Reply(request.phase # "stored")
      BY <2>3, <3>1 DEF Device!Reply
    <3> QED BY <2>3, <2>4, <2>7, <3>1, <3>2 DEF Device!Finish, Device!Next
  <2> QED BY <1>2, <2>5, <2>6, <2>7
<1>4. CASE Refused \/ (op # "features" /\ moved # SectorSize)
  <2>1. UNCHANGED <<op, arg, moved, failed>>
    BY <1>2, <1>4 DEF HdErr, Refused, Goto
  <2> QED BY <1>1, <2>1, Unseen DEF Refused
<1> QED BY <1>3, <1>4

\* What is refused is no sector, and a write that failed was stored and not flushed.
LEMMA HdErrCodeMaps ==
  ASSUME HdInv, HdErrCode
  PROVE  Device!Next
<1>1. /\ at = "error" /\ op' = "none" /\ failed' = TRUE
      /\ UNCHANGED <<registers, card, mmap, file, buf, before, dirty>>
  BY DEF HdErrCode, Return, vars
<1>2. Answered /\ Refused /\ before = None /\ op \in {"read", "write"}
  BY <1>1
  DEF HdInv, HdTypeOK, Ops, InRoutine, CardAnswers, BytesFollow, Moving, Answered
<1>3. Device!Reply(TRUE) /\ UNCHANGED selected
  BY <1>1, <1>2, Replied
<1>4. selected = Selected /\ request.op = op
  BY <1>2 DEF selected, request
<1>5. CASE op = "read"
  <2>1. selected \notin Sectors
    BY <1>2, <1>4, <1>5 DEF HdInv, CardAnswers
  <2>2. Device!Reply(selected \notin Sectors)
    BY <1>3, <2>1 DEF Device!Reply
  <2> QED BY <1>3, <1>4, <1>5, <2>1, <2>2 DEF Device!Finish, Device!Next
<1>6. CASE op = "write"
  <2>1. request.phase = IF moved # SectorSize THEN "started" ELSE "failed"
    BY <1>2, <1>6 DEF request, Refused
  <2>2. selected \in Sectors => moved = SectorSize
    <3>1. moved # SectorSize => moved < SectorSize
      BY Standing, Sizes
    <3>2. NoSector \notin Sectors
      BY Addresses
    <3> QED BY <1>2, <1>4, <1>6, <3>1, <3>2 DEF HdInv, CardAnswers
  <2>3. Device!Reply(request.phase # "stored")
    BY <1>3, <2>1 DEF Device!Reply
  <2> QED BY <1>3, <1>4, <1>6, <2>1, <2>2, <2>3 DEF Device!Finish, Device!Next
<1> QED BY <1>2, <1>5, <1>6

LEMMA HdBufInMaps ==
  ASSUME HdInv, HdBufIn
  PROVE  Device!Next
<1>1. /\ op \in {"identify", "read"}
      /\ UNCHANGED <<registers, mmap, file, op, arg, failed, before, dirty>>
      /\ card'[0].lba = card[0].lba
  BY HdBufInDoes
<1>2. buf' \in Data
  BY HdBufInHolds DEF HdInv, HdTypeOK
<1>3. UNCHANGED disk /\ UNCHANGED stable /\ UNCHANGED selected /\ UNCHANGED request
  BY <1>1, DiskStays, StableStays, SelectionStays, RequestStays
<1>4. request.op \in {"identify", "read"}
  BY <1>1 DEF request
<1> QED BY <1>1, <1>2, <1>3, <1>4
     DEF Device!Next, Device!Receive, Device!Data, Data, Offsets

\* The bytes of a write show with the last one, all together.
LEMMA HdBufOutMaps ==
  ASSUME HdInv, HdBufOut
  PROVE  [Device!Next]_Device!vars
<1>1. /\ op = "write" /\ at = "data" /\ moved # SectorSize /\ moved' = moved + 1
      /\ UNCHANGED <<registers, op, arg, failed, buf>>
      /\ Selected \in Sectors /\ card[0].lba = Selected /\ card'[0].lba = Selected
      /\ before # None
  BY HdBufOutDoes, AtData, Sizes DEF Offsets, HdInv, BytesFollow
<1>2. \A t \in Sectors \ {Selected} : SectorOf(mmap'[0], t) = SectorOf(mmap[0], t)
  BY <1>1, ByteReplaced, HdBufOutDoes
<1>3. UNCHANGED selected /\ selected = Selected
  BY <1>1, SelectionStays DEF selected
<1>4. CASE moved' # SectorSize
  <2>1. UNCHANGED <<file, before, dirty>>
    BY <1>1, <1>4, HdBufOutDoes
  <2>2. ASSUME NEW s \in Sectors
        PROVE  (IF before' # None /\ s = card'[0].lba THEN before' ELSE SectorOf(mmap'[0], s))
                 = IF before # None /\ s = card[0].lba THEN before ELSE SectorOf(mmap[0], s)
    BY <1>1, <1>2, <2>1
  <2>3. UNCHANGED disk
    BY <2>2 DEF disk
  <2>4. UNCHANGED stable /\ UNCHANGED request
    BY <1>1, <1>4, <2>1, StableStays, RequestStays
  <2> QED BY <1>1, <1>3, <2>1, <2>3, <2>4 DEF Device!vars
<1>5. CASE moved' = SectorSize
  <2>1. before' = None /\ SectorOf(mmap'[0], Selected) = buf
    BY <1>1, <1>5, HdBufOutDoes, SectorWritten
  <2>2. disk' = [disk EXCEPT ![Selected] = buf]
    <3>1. disk' = [s \in Sectors |-> SectorOf(mmap'[0], s)]
      BY <2>1 DEF disk
    <3>2. \A s \in Sectors \ {Selected} : disk[s] = SectorOf(mmap[0], s)
      BY <1>1 DEF disk
    <3>3. DOMAIN disk = Sectors
      BY DEF disk
    <3> QED BY <1>1, <1>2, <2>1, <3>1, <3>2, <3>3
  <2>3. Device!Writing(selected)
    BY <1>1, <1>3 DEF Device!Writing, request
  <2>4. CASE ~Refused'
    <3>1. file'[0] = mmap'[0] /\ dirty' = {}
      BY <1>1, <1>5, <2>4, HdBufOutDoes
    <3>2. stable' = disk'
      BY <2>1, <3>1 DEF stable, disk
    <3>3. request' = [request EXCEPT !.phase = "stored"]
      BY <1>1, <1>5, <2>4 DEF request, Refused
    <3>4. Device!Store(TRUE)
      BY <1>1, <1>3, <2>2, <2>3, <3>1, <3>2, <3>3 DEF Device!Store
    <3> QED BY <3>4 DEF Device!Next
  <2>5. CASE Refused'
    <3>1. file' = file /\ dirty' = dirty \cup {Selected}
      BY <1>1, <1>5, <2>5, HdBufOutDoes
    <3>2. UNCHANGED stable
      BY <3>1, StableStays
    <3>3. request' = [request EXCEPT !.phase = "failed"]
      BY <1>1, <1>5, <2>5 DEF request, Refused
    <3>4. Device!Store(FALSE)
      BY <1>1, <1>3, <2>2, <2>3, <3>1, <3>2, <3>3 DEF Device!Store
    <3> QED BY <3>4 DEF Device!Next
  <2> QED BY <2>4, <2>5
<1> QED BY <1>4, <1>5

\* A byte the kernel writes back is that of the sector shown or that of the write
\* in progress; a byte after the last whole sector is none of the device.
LEMMA HdWriteBackMaps ==
  ASSUME HdInv, NEW i \in 0 .. ImageLen[0] - 1, HdWriteBack(i)
  PROVE  [Device!Next]_Device!vars
<1>1. /\ file' = [file EXCEPT ![0][i] = mmap[0][i]]
      /\ UNCHANGED <<registers, card, mmap, op, arg, moved, buf, failed, before, dirty>>
  BY DEF HdWriteBack, WriteBack, driverVars
<1>2. UNCHANGED disk /\ UNCHANGED selected /\ UNCHANGED request
  BY <1>1, DiskStays, SelectionStays, RequestStays DEF Refused
<1>3. /\ file[0] \in [0 .. ImageLen[0] - 1 -> Byte]
      /\ file'[0] = [file[0] EXCEPT ![i] = mmap[0][i]]
  BY <1>1, Standing, Sizes DEF Images, Image
<1>4. ASSUME NEW t \in Sectors, NEW k \in Offsets
      PROVE  file'[0][t * SectorSize + k]
               = IF t * SectorSize + k = i THEN mmap[0][i] ELSE file[0][t * SectorSize + k]
  BY <1>3, SectorFits
<1>5. CASE \E s \in Sectors, k \in Offsets : i = s * SectorSize + k
  <2>1. PICK s \in Sectors, k \in Offsets : i = s * SectorSize + k
    BY <1>5
  <2>2. stable' = [stable EXCEPT ![s][k] = mmap[0][i]]
    <3>1. ASSUME NEW t \in Sectors
          PROVE  SectorOf(file'[0], t)
                   = IF t = s THEN [SectorOf(file[0], s) EXCEPT ![k] = mmap[0][i]]
                                                  ELSE SectorOf(file[0], t)
      <4>1. ASSUME NEW j \in Offsets
            PROVE  file'[0][t * SectorSize + j]
                     = IF t = s /\ j = k THEN mmap[0][i] ELSE file[0][t * SectorSize + j]
        BY <1>4, <2>1, SectorsApart
      <4> QED BY <4>1 DEF SectorOf
    <3> QED BY <3>1 DEF stable
  <2>3. mmap[0][i] \in {disk[s][k]} \cup (IF Device!Writing(s) THEN {buf[k]} ELSE {})
    <3>1. CASE before # None /\ s = card[0].lba
      <4>1. op = "write" /\ Moving /\ moved # SectorSize /\ Selected = s
        BY <3>1, Standing, Sizes DEF HdInv, BytesFollow, CardAnswers, AddressKept, Moving
      <4>2. Device!Writing(s)
        BY <4>1 DEF Device!Writing, request, selected
      <4>3. mmap[0][i] = IF k < moved THEN buf[k] ELSE before[k]
        BY <2>1, <3>1, <4>1 DEF HdInv, BytesFollow
      <4>4. disk[s] = before
        BY <3>1 DEF disk
      <4> QED BY <4>2, <4>3, <4>4
    <3>2. CASE ~(before # None /\ s = card[0].lba)
      BY <2>1, <3>2 DEF disk, SectorOf
    <3> QED BY <3>1, <3>2
  <2>4. Device!Settle(s, k)
    BY <1>1, <1>2, <2>2, <2>3 DEF Device!Settle
  <2> QED BY <2>4 DEF Device!Next, Offsets
<1>6. CASE ~(\E s \in Sectors, k \in Offsets : i = s * SectorSize + k)
  <2>1. ASSUME NEW t \in Sectors PROVE SectorOf(file'[0], t) = SectorOf(file[0], t)
    BY <1>4, <1>6 DEF SectorOf
  <2>2. UNCHANGED stable
    BY <2>1 DEF stable
  <2> QED BY <1>1, <1>2, <2>2 DEF Device!vars
<1> QED BY <1>5, <1>6

\* Starting again gives up the request, and a write in progress leaves its sector
\* with the bytes that had been moved.
LEMMA StartMaps ==
  ASSUME HdInv, HdRestart \/ HdPowerLoss
  PROVE  Device!Next
<1>1. request' = Device!Idle /\ selected' = NoSector
  BY StartedAgain DEF request, Device!Idle, selected, Selected
<1>2. UNCHANGED stable
  BY StartedAgain, StableStays
<1>3. Device!Reboot
  BY <1>1, <1>2, StartedAgain DEF Device!Reboot, Device!Data, Data, Offsets
<1>4. disk' = [s \in Sectors |-> SectorOf(mmap'[0], s)]
  BY StartedAgain DEF disk
<1>5. CASE HdPowerLoss
  <2>1. disk' = stable /\ dirty' = {}
    BY <1>4, <1>5 DEF HdPowerLoss, PowerLoss, stable
  <2> QED BY <1>3, <2>1 DEF Device!PowerLoss, Device!Next
<1>6. CASE HdRestart /\ before = None
  <2>1. disk' = disk /\ dirty' = dirty
    BY <1>4, <1>6 DEF HdRestart, Restart, disk
  <2> QED BY <1>3, <2>1 DEF Device!Restart, Device!Next
<1>7. CASE HdRestart /\ before # None
  <2> DEFINE new == {i \in Offsets : i < moved}
             torn == [i \in Offsets |-> IF i \in new THEN buf[i] ELSE before[i]]
  <2>1. /\ op = "write" /\ Moving /\ moved # SectorSize /\ before \in Data
        /\ card[0].lba = Selected /\ Selected \in Sectors
    <3>1. op = "write" /\ Moving /\ card[0].lba = Selected /\ Selected \in Sectors
      BY <1>7, StartedAgain
    <3>2. moved # SectorSize
      BY <3>1, Standing, Sizes DEF Moving
    <3>3. before \in Data
      BY <1>7 DEF HdInv, HdTypeOK
    <3> QED BY <3>1, <3>2, <3>3
  <2>2. selected = Selected /\ Device!Writing(selected)
    BY <2>1 DEF Device!Writing, request, selected
  <2>3. UNCHANGED mmap /\ dirty' = dirty \cup {selected}
    BY <1>7, <2>1, <2>2 DEF HdRestart, Restart
  <2>4. SectorOf(mmap[0], Selected) = torn
    BY <2>1 DEF HdInv, BytesFollow, SectorOf
  <2>5. /\ disk[selected] = before
        /\ \A s \in Sectors \ {selected} : disk[s] = SectorOf(mmap[0], s)
        /\ DOMAIN disk = Sectors
    BY <1>7, <2>1, <2>2 DEF disk
  <2>6. disk' = [disk EXCEPT ![selected] = torn]
    BY <1>4, <2>1, <2>2, <2>3, <2>4, <2>5
  <2>7. DOMAIN disk[selected] = Offsets
    BY <2>1, <2>5 DEF Data
  <2>8. disk' = [disk EXCEPT ![selected] =
                   [i \in DOMAIN @ |-> IF i \in new THEN buf[i] ELSE @[i]]]
    BY <2>5, <2>6, <2>7
  <2>9. new \in SUBSET (0 .. SectorSize - 1)
    BY DEF Offsets
  <2> HIDE DEF new, torn
  <2>10. Device!Restart
    BY <1>3, <2>1, <2>2, <2>3, <2>8, <2>9 DEF Device!Restart
  <2> QED BY <2>10 DEF Device!Next
<1> QED BY <1>5, <1>6, <1>7

\* Every behaviour of the routines over the card is one of a device whose sectors are
\* read and written whole, whose acknowledged writes survive a power loss and whose
\* failures touch one sector only (hello_hd.az8:144-232, ata/mod.rs:160-355).
THEOREM DeviceImplemented == HdSpec => ImplementsSectorDevice
<1>1. HdInv /\ [HdNext]_hdVars => [Device!Next]_Device!vars
  <2> SUFFICES ASSUME HdInv, [HdNext]_hdVars PROVE [Device!Next]_Device!vars
    OBVIOUS
  <2>1. CASE Caller
    BY <2>1, CallerMaps
  <2>2. CASE Routine
    BY <2>2, HdLbaMaps, HdWaitMaps, HdFeatureMaps, HdCommandMaps, HdErrMaps,
       HdErrCodeMaps, HdBufInMaps, HdBufOutMaps DEF Routine
  <2>3. CASE HdHost
    BY <2>3, HdWriteBackMaps, StartMaps DEF HdHost
  <2>4. CASE UNCHANGED hdVars
    BY <2>4, Unseen DEF hdVars, driverVars, Refused
  <2> QED BY <2>1, <2>2, <2>3, <2>4 DEF HdNext
<1> QED BY <1>1, InitMaps, HdInvariance, PTL DEF HdSpec, ImplementsSectorDevice, Device!Spec
=============================================================================
