---------------------------- MODULE BankedMemory ----------------------------
(***************************************************************************)
(* What a guest program may rely on when it uses the memory of the         *)
(* machine: banks of cells of its own, one of them selected, and a page    *)
(* at the bottom that is the same in every bank.                           *)
(***************************************************************************)
EXTENDS Integers

CONSTANTS
  BankCount,    \* the number of banks
  Selections,   \* the numbers the guest selects them by
  Common,       \* the addresses of the page all banks share
  Private,      \* the other addresses
  Byte

VARIABLES
  selected,     \* the bank the guest has selected
  common,       \* common[a]: the cell at a, in whatever bank
  private,      \* private[<<b, a>>]: the cell at a of bank b
  seen          \* the byte last read from memory

vars == <<selected, common, private, seen>>

Banks == 0 .. BankCount - 1

Init ==
  /\ selected = 0
  /\ common \in [Common -> Byte]
  /\ private \in [Banks \X Private -> Byte]
  /\ seen \in Byte

\* A number that is no bank's is taken modulo their number.
Switch(data) ==
  /\ selected' = data % BankCount
  /\ UNCHANGED <<common, private, seen>>

Store(a, data) ==
  /\ IF a \in Common
     THEN common' = [common EXCEPT ![a] = data] /\ UNCHANGED private
     ELSE private' = [private EXCEPT ![<<selected, a>>] = data] /\ UNCHANGED common
  /\ UNCHANGED <<selected, seen>>

Load(a) ==
  /\ seen' = IF a \in Common THEN common[a] ELSE private[<<selected, a>>]
  /\ UNCHANGED <<selected, common, private>>

Next ==
  \/ \E data \in Selections : Switch(data)
  \/ \E a \in Common \cup Private :
       Load(a) \/ \E data \in Byte : Store(a, data)

Spec == Init /\ [][Next]_vars
=============================================================================
