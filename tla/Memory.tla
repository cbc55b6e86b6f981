------------------------------- MODULE Memory -------------------------------
(***************************************************************************)
(* The memory of the machine (emu/src/sys/mod.rs): one array for all       *)
(* banks, and the bank select register.  Below BANK_SHADOW_SIZE every      *)
(* address is that of bank 0, so the bottom of the other banks is out of   *)
(* reach of the guest.                                                     *)
(***************************************************************************)
EXTENDS Integers

CONSTANTS
  BANK_SIZE,            \* 0x10000, the reach of an address of the CPU
  BANK_SHADOW_SIZE,     \* 0x400
  BankCount,            \* BANK_MAX + 1, a power of two
  Byte,                 \* the bytes a cell may hold
  Selections,           \* the bytes written to the bank port
  Roms                  \* the files the machine may be loaded with

ASSUME SizesAssumption ==
  /\ BANK_SIZE \in Nat /\ BankCount \in Nat \ {0}
  /\ BANK_SHADOW_SIZE \in 1 .. BANK_SIZE
ASSUME ByteAssumption == 0 \in Byte
ASSUME SelectionsAssumption == Selections \subseteq Nat

VARIABLES
  bank,         \* BankSelect.bank, which the guest reads back
  offset,       \* BankSelect.offset, where the selected bank begins in ram
  ram,          \* System.ram
  bus,          \* the byte the CPU last read from memory
  asked         \* history: the byte the guest last wrote to the bank port

memoryVars == <<bank, offset, ram, bus, asked>>

Addresses == 0 .. BANK_SIZE - 1
Cells == 0 .. BANK_SIZE * BankCount - 1
Banks == 0 .. BankCount - 1

\* A ROM is a function from the first cells to bytes; write_ram() panics when
\* it is longer than the memory.
ASSUME RomsAssumption ==
  \A rom \in Roms : DOMAIN rom \subseteq Cells /\ \A i \in DOMAIN rom : rom[i] \in Byte

\* System::new(), and the write_ram() of main.rs.
MemoryInit ==
  /\ bank = 0 /\ offset = 0
  /\ \E rom \in Roms :
       ram = [i \in Cells |-> IF i \in DOMAIN rom THEN rom[i] ELSE 0]
  /\ bus = 0 /\ asked = 0

-----------------------------------------------------------------------------
\* Where read() and write() find an address.
Cell(a) == IF a < BANK_SHADOW_SIZE THEN a ELSE a + offset

ReadMemory(a) ==
  /\ bus' = ram[Cell(a)]
  /\ UNCHANGED <<bank, offset, ram, asked>>

WriteMemory(a, data) ==
  /\ ram' = [ram EXCEPT ![Cell(a)] = data]
  /\ UNCHANGED <<bank, offset, bus, asked>>

\* Fault: the offset is that of the bank selected before.
SelectLate(data) ==
  /\ bank' = data % BankCount
  /\ offset' = bank * BANK_SIZE
  /\ asked' = data
  /\ UNCHANGED <<ram, bus>>

\* BankSelect::select(): the upper bits of the byte are ignored.
Select(data) ==
  /\ bank' = data % BankCount
  /\ offset' = bank' * BANK_SIZE
  /\ asked' = data
  /\ UNCHANGED <<ram, bus>>

MemoryNext ==
  \/ \E a \in Addresses :
       ReadMemory(a) \/ \E data \in Byte : WriteMemory(a, data)
  \/ \E data \in Selections : Select(data)

MemorySpec == MemoryInit /\ [][MemoryNext]_memoryVars

-----------------------------------------------------------------------------
\* The memory is one of banks with a page in common: no two of the guest's
\* cells are the same cell of the array, none is outside of it, and what was
\* written to a bank is there when it is selected again.  The bank selected is
\* the one the guest asked for, while the accesses look at the offset only
\* (sys/mod.rs:41-82).
Banked == INSTANCE BankedMemory WITH
  Common <- 0 .. BANK_SHADOW_SIZE - 1,
  Private <- BANK_SHADOW_SIZE .. BANK_SIZE - 1,
  selected <- asked % BankCount,
  common <- [a \in 0 .. BANK_SHADOW_SIZE - 1 |-> ram[a]],
  private <- [c \in Banks \X (BANK_SHADOW_SIZE .. BANK_SIZE - 1) |->
                ram[c[2] + c[1] * BANK_SIZE]],
  seen <- bus
ImplementsBankedMemory == Banked!Spec
=============================================================================
