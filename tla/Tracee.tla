------------------------------- MODULE Tracee -------------------------------
(***************************************************************************)
(* The processes of the system, as ptrace(2), waitpid(2) and kill(2) show  *)
(* them to sylvan.  The module is external: it is what src/ relies on, not *)
(* what src/ implements.  The actions below are steps that processes take  *)
(* by themselves; the requests the debugger makes are in Inferior.tla.     *)
(***************************************************************************)
EXTENDS Machine

CONSTANT Pid

ASSUME TraceeAssumption == Pid \subseteq Nat \ {0}

VARIABLE proc     \* proc[p]: the process with pid p

(***************************************************************************)
(* "free" is a process nobody traces; "stopped", "running" and "stepping"  *)
(* are the states of a tracee (PTRACE_CONT, PTRACE_SINGLESTEP); "zombie"   *)
(* is a dead process nobody has waited for.  why is the cause of the last  *)
(* stop or of the death: "int3" and "fault" are the stops whose si_code is *)
(* SI_KERNEL.                                                              *)
(***************************************************************************)
ProcState == {"none", "free", "stopped", "running", "stepping", "zombie"}
Cause == {"-", "int3", "fault", "step", "signal", "exit", "kill"}

Process == [st : ProcState, prog : Program \cup {NoPath}, mem : Memory,
            rip : Addr, why : Cause]

NoProcess ==
  [st |-> "none", prog |-> NoPath, mem |-> NoMemory, rip |-> 0, why |-> "-"]

Zombie(why) == [NoProcess EXCEPT !.st = "zombie", !.why = why]

\* A process that executes g, at the first instruction.
Loaded(g, st) ==
  [st |-> st, prog |-> g, mem |-> Image[g], rip |-> Entry, why |-> "-"]

Traced == {"stopped", "running", "stepping"}

StoppedAt(p, r, why) ==
  proc' = [proc EXCEPT ![p] = [proc[p] EXCEPT !.st = "stopped", !.rip = r, !.why = why]]

-----------------------------------------------------------------------------
\* The next instruction of p is a breakpoint: nothing else can be executed.
AtTrap(p) == proc[p].mem[proc[p].rip] = Trap

Moving(p) == proc[p].st \in {"running", "stepping"}

\* int3 leaves rip after the one-byte instruction.
TrapHit(p, a) ==
  /\ Moving(p)
  /\ proc[p].mem[a] = Trap
  /\ AtTrap(p) \/ proc[p].st = "stepping" => a = proc[p].rip
  /\ a + 1 \in Addr
  /\ StoppedAt(p, a + 1, "int3")

StepDone(p, r) ==
  /\ proc[p].st = "stepping"
  /\ ~AtTrap(p)
  /\ StoppedAt(p, r, "step")

\* A signal arrives before the instruction at r is executed.
StopBySignal(p, r) ==
  /\ Moving(p)
  /\ AtTrap(p) \/ proc[p].st = "stepping" => r = proc[p].rip
  /\ StoppedAt(p, r, "signal")

\* The instruction at r faults with si_code = SI_KERNEL (a general protection).
StopByFault(p, r) ==
  /\ Moving(p)
  /\ proc[p].mem[r] # Trap
  /\ AtTrap(p) \/ proc[p].st = "stepping" => r = proc[p].rip
  /\ StoppedAt(p, r, "fault")

\* execve replaces the image and raises SIGTRAP at its first instruction.
Exec(p, g) ==
  /\ Moving(p)
  /\ ~AtTrap(p)
  /\ proc' = [proc EXCEPT ![p] = [Loaded(g, "stopped") EXCEPT !.why = "signal"]]

Exit(p) ==
  /\ Moving(p)
  /\ ~AtTrap(p)
  /\ proc' = [proc EXCEPT ![p] = Zombie("exit")]

\* SIGKILL from outside ends a tracee in any state, a stopped one too.
Killed(p) ==
  /\ proc[p].st \in Traced
  /\ proc' = [proc EXCEPT ![p] = Zombie("kill")]

\* Processes that are not traced come and go, and their pids are used again.
Spawn(p, g) ==
  /\ proc[p].st = "none"
  /\ proc' = [proc EXCEPT ![p] = Loaded(g, "free")]

FreeExit(p) ==
  /\ proc[p].st = "free"
  /\ proc' = [proc EXCEPT ![p] = NoProcess]
=============================================================================
