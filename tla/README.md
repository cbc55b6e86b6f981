# possum in TLA+

possum (`emu/`, `software/`) is an emulator of a small Z80 machine: a CPU, banked memory, a
Compact Flash disk, a CRT controller, a DMA controller, serial ports to come, and the
guest programs that run on it. This directory holds TLA+ specifications translated from its
source, the TLC configurations that check them, and theorems about them checked by TLAPS.

    tlc -workers 2 -config <run>.cfg <module>.tla     one model-checking run
    tlapm <module>.tla                                the proofs: DiskProofs, DmaProofs, MachineProofs,
                                                      UartProofs, AluProofs, CpuProofs, GuestProofs,
                                                      NumberFacts

`PROJECT.json` maps every definition to the lines it translates and lists the runs, the
deliberate faults ("mutants") that show each property can fail, and the theorems.

## 1. The system

All paths are below `src/`.

| component | source | state | operations |
|---|---|---|---|
| ATA bus and cards | `emu/src/ata/mod.rs`, `bin/possum-emu/mmap.rs` | shared task-file registers; per card the status, error, latched LBA, command state, byte offset; the mapped image | port reads and writes, ten commands, the data port |
| disk routines | `software/hello_hd.az8` | CPU registers, the sector buffer | `HdLba`, `Hd8Bit`, `HdIdent`, `HdRead`, `HdWrite`, and `HdWait`, `HdErr`, `HdBufIn`, `HdBufOut` under them |
| DMA controller | `emu/src/dma/mod.rs` | programmed registers, counters, RR0, the stacks of registers awaited by writes and by reads | `write`, `read`, `tick`, `interrupting` |
| CPU | `emu/src/cpu/mod.rs` | register pairs, `halted`, `iff1`, `iff2`, the delayed enable, the interrupt mode | `step`: fetch, one instruction, interrupt |
| system | `emu/src/sys/mod.rs`, `bus/mod.rs` | bank, RAM, devices | port decoding, bank select, `step` |
| VDC | `emu/src/vdc/mod.rs` | register file, video RAM, update address, raster counters, frame buffer | `read`, `write`, `tick` |
| UART | `emu/src/ser/mod.rs` | registers, FIFOs | `read`, `write`, `tick` (not wired to the system) |
| keyboard | `bin/possum-emu/kb.rs` | bytes not yet read, the time of the next poll | `read`, which polls the host, and `write`, which prints |
| `hello_vdc.az8` | `software/hello_vdc.az8` | `CurPos` | `VdcInit`, `Hello`, the loop on the keys W and Q |
| window, loop | `bin/possum-emu/main.rs` | | steps the system until HALT, shows the frame buffer |

**How they interact.** `main.rs` calls `System::step` in a loop. A step is one CPU instruction,
which reads and writes memory and ports through `CpuView`, then one `vdc.tick` per cycle. A
port access is one synchronous call of `Device::read` or `Device::write` of the device the
port decodes to: devices never call each other, and the only shared state between two of them
is the bus a DMA controller would move bytes over (in its test, RAM). The disk is shared with
the host: the image is a `mmap` of a file, and `flush` may fail.

**What is hard.** The emulator is single-threaded, so the interleavings are those of a guest's
accesses in an order nobody planned, of the guest with the kernel that writes the image back,
with a kill of the emulator and with a power loss, and of the CPU with an interrupt line. The
rest is protocol state (what does this byte mean now?), state left over from the transfer
before, and arithmetic of 8 and 16 bits.

**What makes each component correct.** A card hands out exactly the sector it was asked for,
tells the truth with DRQ and ERR, changes only what the command names, and a write reported
done survives the host. The routines always return and never make the emulator panic. The DMA
controller gives each byte to the register it was meant for, and a transfer ends having moved
exactly the block. The CPU takes an interrupt once, between two instructions, and computes
what the Z80 computes. A bank switch never moves the shadowed page, and
no two cells of the guest share a place in the array. The VDC's raster comes back to its start
whatever the guest does to the registers meanwhile, never paints outside of the frame buffer,
and a picture offered is the one the memory describes. The keyboard and the serial port lose,
double and swap no byte.

## 2. The modules

| module | models | composes |
|---|---|---|
| `Card` | the ATA bus, one or two cards, their images and files, the host | |
| `HdDriver` | the guest's routines, one port access a step, and their caller | extends `Card` |
| `DiskProofs` | theorems about `Card` and `HdDriver` | `HdDriver`, `NumberFacts` |
| `SectorDevice` | abstract: a store of sectors, written atomically and durably | refined by `HdDriver` |
| `Dma` | the DMA controller's programming and reading protocols and its tick | |
| `DmaProofs` | theorems about `Dma` and `DmaCopy` | `DmaCopy`, `NumberFacts` |
| `DmaCopy` | the program of the controller's test, for any block | extends `Dma` |
| `Alu` | the arithmetic of the CPU, as operators | |
| `AluLaws` | what the arithmetic promises, for every two bytes | extends `Alu` |
| `AluProofs` | theorems about bytes and words | `AluLaws`, TLAPS |
| `Instructions` | the records that decoded instructions are, and what their operands may be | extends `Alu` |
| `Cpu` | the CPU: fetch, every instruction, the interrupt | extends `Instructions` |
| `Decode` | the seven tables of opcodes, as one decoder | extends `Instructions` |
| `DecodeLaws` | what the tables promise, for every opcode | extends `AluLaws`, `Decode` |
| `Guests` | guest programs, an interrupt handler, and their promises | extends `Cpu` |
| `GuestAssertions` | what holds at every line of the programs and of the handler | extends `Guests` |
| `CpuProofs` | the types of the CPU, and what one instruction does | `GuestAssertions`, `NumberFacts` |
| `GuestProofs` | theorems about the programs | `CpuProofs` |
| `Memory` | RAM, banks, the page in common | |
| `BankedMemory` | abstract: banks of cells and a page in common | refined by `Memory` |
| `Vdc` | the video chip, as operators on a record | |
| `Machine` | ports, keyboard, the chip's clock, the host | extends `Memory`, `Vdc` |
| `HelloVdc` | `hello_vdc.az8`, or any guest, on the machine | extends `Machine` |
| `MachineProofs` | theorems about the memory, the keyboard and the raster | `HelloVdc`, `NumberFacts` |
| `Uart` | the serial port, a guest, the other end of the line | |
| `UartProofs` | theorems about `Uart` | `Uart`, TLAPS |
| `NumberFacts` | division, and induction over sets of numbers | TLAPS |
| `MCCard`, `MCHdDriver`, `MCDma`, `MCDmaCopy`, `MCCpu`, `MCHelloVdc` | constants of the instances that TLC checks | |

### Card

One action per port access. `registers` is `CardBus.registers`, `card[d]` is `card0` or
`card1` with the fields of `Card`; `mmap[d]` is the image as the emulator sees it and
`file[d]` the bytes that would survive a power loss. The status and error registers are sets
of bit names. The eight handlers that change nothing (reading a task-file register, an access
to a missing drive) are no actions. An access whose index runs off the image, an erase past
the image and the `todo!` of REQUEST SENSE set `panicked`, after which only a restart moves.

The host is three actions: `WriteBack` (the kernel makes a mapped byte durable whenever it
likes), `Restart` (the emulator is killed and started: the mapping's bytes stay) and
`PowerLoss` (only `file` stays). `Flush(ok)` makes everything durable, or fails: the code
maps the failure to ERR with BBK.

Left out: the sector count register and `is_8_bit`, which are written and never used, and the
contents of the device information.

### HdDriver and SectorDevice

The instructions between two port accesses touch only CPU registers and the buffer, so a step
of `HdDriver` is one port access of a routine. `op` is the routine, `at` its next access,
`arg`, `moved`, `buf` and `failed` are what the routine keeps in `DE:HL`, `DE`, `SECTOR_BUF`
and the carry flag. The caller is any guest that calls the routines in any order, with two
limits: it writes only sectors the identification reports, and it never erases (no routine
does). It may read past the end. `before` and `dirty` are history variables.

`SectorDevice` is what a caller may rely on: reads and writes of whole sectors; a write takes
effect at once; a write that reports success makes everything durable; a write that fails or
is cut off leaves its own sector, and no other, in doubt. `HdDriver!Device` is the refinement
mapping: while a write is transferring, the abstract disk still holds the sector's old
contents (`before`), and the last byte is the point where the write takes effect.

### Dma and DmaCopy

A base byte is given decoded, as a record of its bits (`WR0` .. `WR6`), because the code
decodes it by masks alone; the byte that follows goes to the register on top of
`write_order`. A nibble has `Nibble` values, 2, 4, 8 or the real 16, so a word has `Nibble^4`: the masks `0xF0` and
`0x0F` with which the code merges the halves of a 16-bit register are modelled on nibbles
(`WithLow`, `WithHigh`), losing what the code loses. `Tick` is steps 1 to 7 of
`Dma::tick`. A `todo!`, a byte that is no command (`unimplemented!`) and a read with more than eight
registers to be read (`debug_assert!`) set `panicked`; `ReadLimit` keeps the runs below the eight.

`DmaCopy` is the program of `dma/tests.rs` with the block as a parameter: any addresses,
length, direction, modes and spaces, with an optional search, one after another. `Moved[n]`
is the reference: the bus after n bytes have been moved one by one.

### Alu, Cpu and Guests

`Alu` translates the `*_base` functions: each operator takes operands and flags and returns a
result and flags, the flags being the set of the names of the set bits. The undocumented flags
X and Y are left out, and so are the bits they occupy when F is pushed.

A step of `Cpu` is `Cpu::step`: the enable that EI left pending (`Woken`), the fetch
(`Fetched`), one instruction, and `do_irq` (`Finish`). `cpu` holds the fields of the struct
`Cpu`, F apart from A. An instruction is given decoded, as a record of its operation, its
length and its operands; an operand is a register, an immediate, a memory address, or a place
relative to a register pair, which covers the `(hl)`, `(ix+d)` and `(iy+d)` forms. `WellFormed` says which operands an operation has. There is one
action per family of instructions, and every one of the code's functions for instructions
belongs to one, except those that touch R. The conditions PO, PE, P and M have the code's
meaning, and JP (HL) goes where the code goes (section 5).

Code and data are kept apart because no guest of the repository writes over its code, and the
data memory has the addresses that the programs use. A port returns any byte of `Inputs`, and
the interrupt line is raised by the environment: no device that the system connects ever raises
it (`CardBus` never sets its interrupt flag, `Vdc::interrupting` is false). Reading the port
`Acknowledge` lowers it. The machine's loop in `main.rs` ends at HALT, and so do the
programs.

`Guests` assembles listings. Four programs are those of `hello.az8` and `hello_hd.az8`
(printing, hexadecimal digits, the copy of a message, a buffer filled from a port); the others
are there to put every family of instructions to use: block moves in both directions, search,
block input and output, the stack, multiplication, bits, index registers, and a critical
section.

### Instructions and Decode

`Decode` turns a sequence of bytes into the record that `Cpu` executes. Where the code has
seven tables with one line for each of 1792 opcodes, `Decode` reads the fields of an opcode:
its upper two bits, its column and its row. `i` is the pair that stands for HL, so that the two
index tables are the plain one with another `i`; the opcodes they have a line for are
`IndexedOpcodes`, and any other goes back to `Decoded`, as a prefix that does nothing
(`cpu/mod.rs:2802`). `DecodeLaws` says what a prefix does without looking at `i`: it takes the plain
instruction and puts IX or IY, their halves and their indexed byte into its record (`OnIndex`). The slip of 0xFC, a second CALL PE, is in `CallConditions`. Instructions that touch R
are decoded and belong to no action of `Cpu`.

### Memory, Machine and BankedMemory

`Memory` is `read`, `write` and `BankSelect` of `sys/mod.rs`: one array, the number of the bank,
which the guest reads back, its offset, which the accesses use, and addresses below the shadow size
that ignore it. `asked` is a history variable, the byte the guest last wrote to the bank port: the
abstract memory's bank is found from it, so that a wrong bank or the offset of another one shows. `BankedMemory` is what a guest may think: a
function per bank and one page that all share. The refinement mapping leaves out the cells
that the offset puts out of reach, the bottom of every bank but the first.

`Machine` decodes ports (`Device`), and each access is a step: `Load`, `Store`, `In`, `Out`. After
it the chip ticks once for every cycle until the next one (`Clock`), as `System::step` does after each instruction. The keyboard's
`due` stands for the clock that `AsciiKeyboard::read` looks at, and `pending` for the host's
queue. Reading the interrupt controller ends the emulator (`todo!`), as does a print that fails.

### Vdc and HelloVdc

`Vdc` is a record and operators that take the chip before and return the chip after: `Written`,
`ReadBy`, `Ticked`. All pixels of a line are painted at once, at the horizontal blank, as in the
code; `Paint` says which places of the array they are, strays past the line included. A
panic of the code (a subtraction, a product or an index) sets `panicked`; `OverflowChecks` says
whether the build checks arithmetic.

`HelloVdc` is the program, one port access a step: `Boot` is what `VdcInit` and `Hello` send,
computed from the program's tables, `Access` what the loop does. Between two accesses the chip
ticks `SetupCycles` times while the program sets it up, `LoopCycles` later. The other guest of
the module does any accesses to memory, banks and ports except that it does not write to the
chip. What the screen must show (`Message`) is computed from the program's tables, not from the
chip.

### Uart

The handle of `ser/mod.rs` is the host at the other end: `waiting` is what it has sent and the
port has not fetched, a fetch brings any number of bytes up to the size of the buffer, and a byte
written may be lost there. `arrived`, `delivered`, `written`, `sent` are histories.
The FIFO and modem control registers are left out, since nothing but their own read depends on
them.

## 3. The runs

| run | instance | shows |
|---|---|---|
| `card_bus` | two drives behind one register file, images of 3 and 1 bytes, sectors of 2 | a transfer stays in its sector, DRQ and ERR are honest, a guest's access touches only the selected drive |
| `card_spill` | one drive of 5 bytes | **violation**: bytes written after the end of a sector go into the next |
| `card_badlba` | as `card_spill` | **violation**: the sector that begins at the end of the image is accepted |
| `hd_calls` | two sectors, all routines | no panic, every routine returns |
| `hd_durable` | two sectors of any contents, reads and writes | acknowledged writes survive; the routines implement `SectorDevice`; one write changes one sector |
| `dma` | nibbles of one bit, every base byte with every combination of bytes to follow, every command | the stack holds at most four registers, all of one command; a transfer ends |
| `dma_copy` | 648 first blocks and 8 second ones on a bus of 16 addresses | the block is moved exactly, up to a byte searched for, and the interrupt arrives |
| `dma_copy_wide` | a source address of 2 | **violation**: the high nibble of the low byte is lost |
| `alu` | all bytes, with and without carry | the arithmetic is exact by bytes, by words, with sign and in decimal; the shortcuts agree with it; every opcode of every table is an instruction of its own, but for the lines the tables repeat; after 0xDD and 0xFD an opcode is the plain one with IX or IY, a half of it, or the byte it points at, in place of HL, H, L and (HL) |
| `cpu` | eleven programs, two interrupts raised anywhere | each program does what it promises, each interrupt is served once, handlers never nest, all programs halt |
| `machine` | `hello_vdc.az8` on a display of 6 by 6 cells, or any guest on two banks of three cells | the chip is set up without a panic although its raster runs meanwhile, the raster stays inside the signal, pictures keep coming and show the message; keys arrive once and in order, Q halts; memory implements `BankedMemory` |
| `uart` | a fifo of two bytes, three bytes each way | nothing is lost, doubled or swapped on its way through the port in either direction; what is sent is handed to the host, which may fail to take it |

**Bounds, and why they are enough.**

- A sector of two bytes has a first and a last one, which is all the code distinguishes.
  Images of one, three and five bytes end on a sector boundary, inside a sector, or before
  the first one ends. LBA registers have one or two bits; the LBA formula is the code's, with
  the base a parameter, and the theorems hold for every base.
- `hd_calls` has one byte value since panics and control flow do not depend on data;
  `hd_durable` has two, and payloads of equal bytes, so that a torn sector shows. It leaves out
  identification and `Hd8Bit`, which change no sector; both are in `hd_calls`.
- `dma`: words of 16 values and blocks of 16 bytes (a length of zero). `ReadLimit` bounds how
  many registers the guest leaves unread before it asks for more; the code has no such bound
  (see section 5). The instance does not search, and its ports are fixed or count down from the
  default; `dma_copy` has the searches, the modes and the other lengths.
- `dma_copy`: starts are chosen among those the masks let through (section 5), so that blocks
  lie apart, overlap by one in both directions, and wrap around. The second block takes the
  detour described in the code's comments (`dma/mod.rs:267-270`).
- `alu` has no bound for bytes; the 16-bit operations are checked for every first operand with
  four second ones (the same, its opposite, the largest positive word, a full low byte), where
  carries cross the bytes or do not. The opcodes of a table are all compared with one another, with
  the same bytes after them, and every opcode is decoded after both prefixes with every displacement.
- `cpu`: one interrupt can hit every instruction; a second one can hit the handler of the
  first, so that `Raises` = 2 is the least bound for nesting. Blocks of three bytes have
  a first, a middle and a last round. Operands are those at which carries, digits and letters
  change.
- `machine`: the display has the program's registers in their order, with smaller values: cells
  of two by two pixels, two by two of them text, with a border on every side, a message of
  three characters in two rows and a set of two. The real display has lines of 1016 ticks and 264
  lines, and a picture takes more steps than a run can; nothing in the code depends on the size.
  Until register 22 gives the cells their width, a line of the real display has 127 ticks and
  setting a register takes some 117; here they are 6 and, three accesses of `SetupCycles` = 2, 6. The keys are a small W, a text of two capitals, W and Q, a character of two bytes, and an event that is no
  text; three bytes are typed, two events wait, so that a text is still being read when the next
  arrives. Two banks of three cells with one in common have a cell in common, a first and a last
  private one. The selections include one above the number of banks.
- `uart`: bytes sent in both directions are two; three of them with a fifo of two give a burst
  that fills it and leaves one waiting. Line controls are one with the divisor bit, an odd one
  and one of several bits, since the code tests the bit with a product (section 5).

**Fairness.** `HdSpec` assumes weak fairness of the running routine: `main.rs` executes one
instruction after another for ever. `Spec` of `Dma` assumes it of the tick, which the bus calls
for as long as the machine runs, and `CopySpec` of the test's loop, which ticks until the
interrupt; `Spec` of `Cpu` assumes it of the step, which `main.rs` takes again and again
until HALT. `Spec` of `HelloVdc` assumes that the program's next access comes as long as it runs
(main.rs again) and that 16 ms go by while it does, and `Spec` of `Uart` that the bus ticks the port. Fairness
of `HelloVdc` is written out, `[]<>~CanStep \/ []<><<..>>_vdc`, as the definition of WF has it,
because TLC would find `ENABLED` by running the chip; every access moves the raster or panics,
so that a step of the program is a change of `vdc`. Nothing is assumed of the user, who need never
type. Nothing is assumed of the interrupt line. Nothing is assumed of the guest's caller, of the host, or of failures.

**Deadlock** is checked in the card runs. The DMA runs, `cpu`, `machine` and `uart` switch it
off: a `todo!`, or another panic, is the end of the emulator, the copy program ends after its last
block, and a machine that has halted is left.

## 4. The theorems

`DiskProofs` proves about `Card`, for every number of drives, sector size, image length, register width and
set of data bytes:

- `TypeCorrect`, `TransfersStayInSector`, `DataRequestIsHonest`, `FailuresAreReported`:
  `Spec => []P` for the four invariants of `card_bus`;
- `DrivesAreIsolated`: its action property.

`TransferInSector` is not inductive: a card whose offset is in its sector but whose state says
"reading" without DRQ could go wrong at the next command. The inductive invariant `IInv` is the
type invariant together with `SoundCards`: for every card, what its command state, its offset,
its status and its error register say of each other. The proof has one lemma per kind of
change of a card (latching, failing, beginning a transfer, moving a byte), each saying that the
change leads from sound cards to sound ones, then one step per action. The proofs use the named
assumptions on the constants (`DrivesAssumption`, `SizesAssumption`, `ByteAssumption`,
`RegsAssumption`), which TLC evaluates in every run of `Card`.

`DiskProofs` proves about `HdDriver`, for every size of a sector and of the image, and any sequence of calls:

- `HdTypeCorrect`, `NeverPanics`, `WritesSurvive`: `HdSpec => []P` for `HdTypeOK`, `NoPanic` and
  `AcknowledgedSurvives` of the runs `hd_calls` and `hd_durable`;
- `WritesStayInSector`: the action property `OneSectorPerWrite`;
- `GuestOfCard`: `HdSpec => Spec`, so that the theorems about `Card` hold of the routines;
- `DeviceImplemented`: `HdSpec => ImplementsSectorDevice`, the refinement.

None of the three invariants is inductive. That the card never indexes past the image depends on
the latched address being one the routine was called with; that depends on the four registers
holding its parts when the command is given; and that depends on which access of which routine
comes next. `HdInv` has one conjunct for each link: `AddressKept` (what the registers hold at
each access), `InRoutine` (which `at` belongs to which `op`), `CardAnswers` (what state the card
is in at each access, and that the offset of its transfer is the routine's byte count),
`BytesFollow` (what the bytes moved so far have become, in the buffer or on the disk). The proof is one lemma per
access of a routine and per event of the host. For the refinement the same lemmas say what an
access does to the mapped disk: the last byte of a write takes effect there, `before` hides the
bytes until then, and every other access is a stutter; a restart or a power loss is one of the
device. The assumptions are those of the module: sectors the card reports are addressable
with 28 bits (`AddressAssumption`: `HdLba` sends no more), probes are past the end, where the code's
bound finds them (`ProbeAssumption`), and what is on no disk is no sector (`NoSectorAssumption`).

`DmaProofs` proves for every set of bytes the guest may write, with nibbles of up to four bits:

- `TypeCorrect`, `StackBounded`, `OneCommandAwaited`: `Spec => []P` for `DmaTypeOK`,
  `WriteOrderBounded` and `ParametersOfOneCommand` of the run `dma`;
- `BlocksCopied`: `CopySpec => []BlockCopied`, the property of the run `dma_copy`, for blocks of
  any length, place, direction and modes, with a search or without, as many as one likes one
  after another, provided that `LetThrough` and `DetourTaken` hold of them.

The stack's properties are not inductive: the interrupt control byte is itself a following byte
and pushes two more registers of another group, so a stack on which something lay under it would
mix two commands, and grow. `Orderly` adds that the control byte is always the last one awaited.
The proof has lemmas for pushing and popping one register (on sequences, from
`SequenceTheorems`), one step per base byte and one per following byte; it uses only
`HeadersAssumption`.

`BlocksCopied` rests on `CopyInv`: at each step of the test's program, which registers it has
set (`Addresses`, `PortsSet`, `SearchSet`, `InterruptsSet`), what the counters hold
(`CountersSet`), and once it runs, that the bus is `Moved[n]`, the block moved byte by byte as
far as the counters say (`Progress`). `Moved` is a recursive function, which the set form of
induction in `NumberFacts` unfolds (`SetInduction`, `UpTo`, `Recursion`). The two hypotheses
are what the code needs, and without either of them TLC finds a counterexample: an address or
length with a nibble in the upper half of its low byte does not survive the masks
(`dma/mod.rs:635`, the violation run `dma_copy_wide`), and the destination of a second block is
not loaded without the detour (line 267). The blocks of the run `dma_copy` satisfy them. The
theorem covers one case more than the run: a search cannot be switched off for the block after
it (line 434), so a byte that happens to match stops that block, and as the block asked for no
interrupt at a match, none comes (`StoppedSilently` in `Progress`). Such a program waits for
ever; it never reports a block that was not copied. The run's property `CopyEnds` is therefore
about programs that search last.

`MachineProofs` proves about `Memory`, for every size of a bank, of the page in common and every number of
banks:

- `Refinement`: `MemorySpec => ImplementsBankedMemory`, the property of the run `machine`. Its
  core is arithmetic: two addresses in two banks are one cell of the array only if both the
  address and the bank are the same (`Apart`, `CellInArray`), from which each of the four
  actions maps to its abstract one. The bank selected is the one asked for and the offset is where it
  begins by the type invariant. It uses `SizesAssumption`, `ByteAssumption`,
  `RomsAssumption` and `SelectionsAssumption`, and that invariant (`Typed`).

`UartProofs` proves for every fifo, every set of bytes and any number of them:

- `Received`, `Sent`: `Spec => []P` for `ReceivedInOrder` and `SentInOrder` of the run `uart`.
  Both are inductive with the type invariant (`Typed`), which says that the fifos are sequences;
  the lemmas say how moving bytes from one sequence to the end of another keeps their
  concatenation (`MovedOver`, `AppendedBehind`, `CutInTwo`).

`MachineProofs` proves about `HelloVdc`, with either guest:

- `KeysArriveInOrder`: `Spec => []KeysInOrder`, for any events of any length. The invariant adds
  only types (`KeysInv`). The work is in what joining the texts of a queue means: adding a text at its end or
  taking one from its front (`JoinAppended`, `JoinFront`), by induction over the length of the queue.
- `RasterStaysInside`: `Spec => []RasterInside`, for any table, message and pace. The end of a line
  is found by equality, so a signal that shrinks below the raster would let it run away; and
  the program changes the sizes one by one while the raster runs. `RasterInv` says that the signal
  the registers now make is ahead of the raster, even before the chip has computed it (`Ahead`),
  that the register selected is the one the table sets next and later none of the sizes
  (`Selected`), and that each size is the one set last (`Settled`). That a value sent never
  makes the signal smaller then follows from `GrowthAssumption`: the table gives no size
  the value nothing or less than it gave before, as `hello_vdc.az8:140-165` does, which sets each
  once. The lemmas say which access is the k-th (`AccessIs`, from the joining of the table's
  entries), what n ticks leave alone (`ClockKeepsAhead`) and what a write stores (`Sending`).

`AluProofs` proves the five properties of arithmetic of the run `alu` as theorems, and for words more:

- `BytesExact`, `ShortcutsHold`, `RotationsHold`, `DecimalHolds`: `LawsSpec => []P` for
  `ArithmeticExact`, `ShortcutsAgree`, `RotationsUndone` and `DecimalAdjusted`. The run tries every
  case of these; the proofs say why they hold: a byte is split into the parts that an
  instruction treats apart (`InParts` of a rotation, the two digits of DAA), and each flag is
  computed from the parts;
- `WordArithmetic`, and from it `WordsAgree`: `LawsSpec => []WordsAreTwoBytes`: adding or
  subtracting two words, with carry, is doing so with their bytes, low ones first, flags included,
  where the run tries four second operands of each word;
- `WordArithmeticExact`: carry and overflow of a word operation say exactly whether the result is
  that of the numbers, without a sign and with one.

`CpuProofs` proves `CpuTyped`, `Spec => []CpuTypeOK`, for every program and every interrupt, if the
memory has a byte and the program an instruction at each of the 65536 addresses (`Filled`), as in
the machine: every register, pair, flag and cell keeps the range of its Rust type, which the
model, computing with numbers, has to see to itself. The lemmas go from the operators of `Alu` to
operands, to families of instructions, to `Finish`. It uses `CodeAssumption` (instructions have the
operands that their operation uses), `InputsAssumption` and `RaisesAssumption`. Its second part
says what one instruction of each kind that the programs contain does to registers and memory.

`GuestProofs` proves the invariants of the run `cpu` for all eleven programs of `Guests`, for every
two operands of theirs where the run has a few, every set of bytes the ports return, and any number of
interrupts, wherever they come, where the run has two. `Loaded`, the hypothesis, says that the
guests are these programs with two bytes for operands, as they are in the run:

- `PromisesKept`: `Spec => []PromiseKept`: a program that has halted has done what it promises;
- `ServedOnce`: `Spec => []EachServedOnce`: interrupts are served once each, and the count that the
  handler and `critical` share loses nothing. The count is a byte and the acknowledging port must not be the one
  the programs read data from, hence `Countable`;
- `StackKept`, `ModeInTime`, `GuestsTyped`: `StackBounded`, `NoUnimplementedMode`, `CpuTypeOK`.

None of these is inductive: a program halts with its promise kept because of everything it did
before. `GuestInv` (`GuestHolds`) annotates every line of every program, as Floyd did: `HelloAt`,
`HexAt` and so on say what registers, memory and output are whenever the program is at that line;
`GuestAssertions` has them all. An interrupt may come between any two lines, so the invariant
does not say that the assertion holds of the registers and memory that are there, but of some
`u` and `v`: either they are there, or the handler is under way (`Interrupted`) and will give them
back, which `Serving` says line by line of the handler: what is on the stack, what is still in
the registers, and that nothing but the six bytes below the stack and the count differs from `v`
(`Alike`). So the proof about a program never mentions interrupts: `Untouched` says that no
assertion looks at what the handler changes, `TakesInterrupt` that an
interrupt after a step starts the handler on the new `u` and `v`, and one lemma per line of the
handler does the rest, once for all programs. Under each program there is one step per line, from
the assertion of the line to that of the next, by the lemma on its instruction. EI's delay is
what makes it work: RETI has emptied the stack before the next interrupt is taken. The listings
are assembled by a recursive function, which `PlacesFollow` unfolds by the finite induction of
`NumberFacts`.

`NumberFacts` holds the facts about division, products and finite induction that the others cite.

Only model-checked: `EachOpcodeItsOwn` and `PrefixSubstitutes` of `DecodeLaws`, since the decoder
recurses as the code does (a RECURSIVE operator), and TLC compares all 1792 opcodes; `NoPanic` and
`ScreenShowsMessage` of `HelloVdc`, which hold of the program's table and pace and not of others.
Out of TLAPS' reach: the liveness properties (`RoutinesReturn`, `BlockEnds`, `CopyEnds`,
`ProgramHalts`, `QuitHalts`, `FramesKeepComing`, `BytesGoOut`).

## 5. What the checks found

Each of the three violation runs ends in a counterexample, described under "findings" in
`PROJECT.json`: a write command that never ends (`ata/mod.rs:211`), a bound on the LBA that is
one sector too generous (`ata/mod.rs:294`), and halves of 16-bit registers merged with 8-bit masks
(`dma/mod.rs:635`).

Disagreements seen while modelling and not given a run: the destination counter of the DMA
controller is loaded only while TRANSFER_OCCURRED is clear, which nothing ever clears, although
the comment at `dma/mod.rs:267` says that it is loaded at the start of a DMA, so that a second block without
the detour goes on where the first ended (set `Detour` to FALSE in `dma_copy.cfg` and `BlockCopied`
fails); `read_order` exceeds the eight entries
asserted at `dma/mod.rs:368` when a guest begins two read sequences without reading, and the next read
panics; a command
written to a running DMA controller is ignored (`dma/mod.rs:389`) although the comment at
line 516 says control bytes disable it; a search once switched on cannot be switched off, not
even by a reset (`dma/mod.rs:434`); the mask byte is applied to the byte searched for and not
to the data (`dma/mod.rs:331`). In the CPU: the conditions PO, PE, P and M test the opposite of
what they test on a Z80 (`cpu/mod.rs:127-130`); the opcode 0xFC tests PE where M is due
(line 2412); JP (HL), (IX) and (IY) jump to the word in memory at the pair and not to the
pair (line 935); EI executed while interrupts are enabled, with an interrupt right after it,
re-enables them in the handler's first instruction, so that a line still raised is served twice
(line 2095: the programs of `cpu` execute EI with interrupts disabled only); an interrupt taken
at a HALT returns to the HALT (line 595), and the comment at line 2116 that interrupts end
the halt state matters only to an interrupt of the HALT step itself, as `main.rs:76` leaves
at the first HALT. No document of the repository says otherwise of these, so they have no
run.

In the VDC: registers 34 and 35 are read the other way round from how they are written
(`vdc/mod.rs:637`, `729`); register 29 reads with four of its used bits set (line 623); an
ALTERNATE_CHARACTER attribute selects the first character set, although the comment says that the
alternate set follows the first (lines 464-470); attributes are found by the character's number and not by
the cell's place (line 460); the background a cell with an attribute leaves behind is that of the
cells after it (lines 473-486); the right border reaches past the frame buffer into the next line
(line 424), which the next line paints over; the subtraction of registers 34 and 35 fails if they
are set in the other order (line 324), and the update address overflows at 0xFFFF (line 719).
`hello_vdc.az8` sets the registers up while the raster runs, which `NoPanic` shows to be safe at
its pace and in its order only; it sends eight times as many characters as it has, because it
counts bytes (line 83), and its `CurPos` starts at 0 though the cursor stands after the message, so that the first W
moves it back to the second cell. In the UART: the divisor bit is tested with a product of bytes
(`ser/mod.rs:132`), which overflows for every line control above one and takes the bit for set when it is one.

## 6. Not modelled, and the plan

In order of importance:

1. A DMA block continued after a match, and the values read back from the controller while it
   runs.
2. A guest that writes any registers of the VDC: the chip panics for many of them, so that what
   may be said of it is about the orders that a program may keep to.
3. The composition of `Cpu` with `Machine`, bytes in memory instead of decoded programs: the
   state of the two together is out of TLC's reach with programs as long as those of the repository. Until
   then `Decode` is tied to `Cpu` by the records they share.

Left out for good: the window, the texture, the count of frames and argument parsing (`main.rs`),
which are host output; the CPU's register R, WZ, the flags X and Y, and cycle counts, which no
other part of the machine looks at beyond the pace of the raster; the FIFO and modem control
registers of the UART and `interrupting`, a `todo!`; the device information of a card, access mode
and vector of the DMA controller, which are stored and never read.
