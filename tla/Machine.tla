------------------------------ MODULE Machine ------------------------------
(***************************************************************************)
(* The x86-64 machine as far as sylvan can tell its parts apart: code      *)
(* addresses, the byte an instruction starts with, the breakpoint          *)
(* instruction, and the programs a process can execute.  Nothing here is   *)
(* code of the repository; it is what ptrace(2) shows to the code.         *)
(***************************************************************************)
EXTENDS Integers

CONSTANTS
  MaxAddr,   \* the last address of a process's code
  Entry,     \* the address of a program's first instruction
  Byte,      \* the bytes a program can hold, 0xCC apart
  Program,   \* the executables of the system
  Image      \* Image[g][a]: what the loader puts at address a for program g

Addr == 0..MaxAddr

(***************************************************************************)
(* What a cell of memory holds: 0xCC, a byte of the program, or nothing.   *)
(* An unmapped cell is the value -1 that PTRACE_PEEKTEXT returns for it.   *)
(***************************************************************************)
Trap == 204
PeekFailed == -1
Cell == Byte \cup {Trap, PeekFailed}

\* The NULL path of an inferior that has no executable.
NoPath == 0

ASSUME MachineAssumption ==
  /\ MaxAddr \in Nat
  /\ Entry \in Addr
  /\ Byte \subseteq Nat \ {Trap}
  /\ 0 \in Byte
  /\ Program \subseteq Nat \ {NoPath}
  /\ Program # {}
  /\ Image \in [Program -> [Addr -> Byte \cup {PeekFailed}]]

Memory == [Addr -> Cell]

\* The memory of a process on which every PTRACE_PEEKTEXT fails.
NoMemory == [a \in Addr |-> PeekFailed]
=============================================================================
