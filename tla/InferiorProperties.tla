------------------------- MODULE InferiorProperties -------------------------
(***************************************************************************)
(* What the inferior library must keep true of its breakpoint table, of    *)
(* its tracee and of every other process.                                  *)
(***************************************************************************)
EXTENDS Inferior

-----------------------------------------------------------------------------
\* The tracee.

(***************************************************************************)
(* inf->pid is a process that is ours to trace or to reap, or it is 0.     *)
(* sylvan_kill and every ptrace request rely on it: a pid kept after the   *)
(* process was reaped may already name somebody else's process.            *)
(***************************************************************************)
PidIsOurs ==
  /\ isactive => inf.pid # 0 /\ Tracee.st \in Traced \cup {"zombie"}
  /\ ~isactive => inf.pid = 0 \/ dbg.at = "crashed"

\* No process but inf->pid is traced: attach, run and destroy always let the
\* old tracee go before they take a new one or forget it.
OneTracee == \A p \in Pid : proc[p].st \in Traced => isactive /\ p = inf.pid

\* At the prompt the tracee stands still, so that the commands that look at its
\* memory and registers can; a call is blocked only while there is a tracee.
QuietAtPrompt ==
  /\ \A p \in Pid : Moving(p) => Waiting
  /\ Waiting => isactive
  /\ dbg.at = "rearm" => Tracee.st # "running" /\ dbg.slot \in Used(table)

\* An attached process is killed by nothing but run, which replaces whatever
\* process there is, and may only die by itself while it is attached to once more:
\* detach, attach and destroy let it live.
AttachedSurvives ==
  [][isactive /\ inf.is_attached /\ Tracee.st = "stopped" /\ proc'[inf.pid].st = "none"
       => \/ RunFails \/ \E p \in Pid : sylvan_run(p) \/ RunReportsError(p) \/ RunAborts(p)
          \/ AttachFindsDead(inf.pid)]_vars

-----------------------------------------------------------------------------
\* Breakpoints.

\* Every 0xCC in a process is in the tracee, in a slot in use that says so:
\* there is always a way to take it out again.
TrapOwned ==
  \A p \in Pid : ~Clean(proc[p].mem) =>
     isactive /\ p = inf.pid /\ proc[p].st \in Traced /\ Owned(table, proc[p].mem)

\* A process that detach or destroy lets go has no 0xCC left in its code: it
\* would die of SIGTRAP, with nobody to catch it.
FreeIsClean == \A p \in Pid : proc[p].st = "free" => Clean(proc[p].mem)

\* No saved byte is 0xCC: removing that breakpoint would leave the trap in.
OgByteIsProgram == DistinctAddrs(table) /\ NoTrapSaved(table)

\* The inductive invariant of the proofs.
IInv ==
  /\ TypeOK
  /\ PidIsOurs
  /\ OneTracee
  /\ QuietAtPrompt
  /\ TrapOwned
  /\ OgByteIsProgram

-----------------------------------------------------------------------------
(***************************************************************************)
(* The following hold as long as no slot is used a second time, nothing    *)
(* but sylvan's breakpoints changes code, and every address can be read.   *)
(***************************************************************************)
StoppedTracee == isactive /\ dbg = Prompt /\ Tracee.st = "stopped"

\* is_enabled_phy is what the process really holds.
PhyIsTrue ==
  StoppedTracee => \A i \in Used(table) :
    table.breakpoints[i].is_enabled_phy <=> Tracee.mem[table.breakpoints[i].addr] = Trap

\* A breakpoint the user has enabled is in the process.
EnabledIsInserted ==
  StoppedTracee => \A i \in Used(table) :
    table.breakpoints[i].is_enabled_log => Tracee.mem[table.breakpoints[i].addr] = Trap

\* But for its breakpoints, sylvan leaves the code of a process as it was loaded.
CodeIntact ==
  \A p \in Pid : proc[p].st \in {"free"} \cup Traced => \A a \in Addr :
    proc[p].mem[a] \in {Trap, Image[proc[p].prog][a]}

-----------------------------------------------------------------------------
\* Liveness.

\* The kernel ends a single step, and a blocked waitpid returns once it has
\* something to report.  Nothing makes a program that was continued ever stop.
Fairness ==
  /\ WF_vars(WaitSteps)
  /\ \A p \in Pid :
       WF_vars((\E r \in Addr : StepDone(p, r) \/ (proc[p].st = "stepping" /\ TrapHit(p, r)))
               /\ UNCHANGED <<inf, table, dbg>>)

FairSpec == Spec /\ Fairness


\* A call that is blocked when its tracee dies comes back to the prompt and has
\* forgotten the process.
DeathNoticed == (Waiting /\ HasDied) ~> (dbg = Prompt /\ inf.pid = 0)

-----------------------------------------------------------------------------
(***************************************************************************)
(* What the documentation says of the library and the code does not do.    *)
(***************************************************************************)

\* breakpoint.c:123 "disables the breakpoint at given addr": a breakpoint that
\* is disabled is not in the process.
DisabledStaysOut ==
  StoppedTracee => \A i \in Used(table) :
    table.breakpoints[i].is_enabled_phy => table.breakpoints[i].is_enabled_log

\* standard_commands.h:11 "Resume execution of the current inferior until the
\* next breakpoint or end": continue does not come back after one instruction.
ContinueGoesOn ==
  [][dbg.cmd = "continue" /\ dbg' = Prompt /\ inf'.pid # 0 => Tracee.why # "step"]_vars

=============================================================================
