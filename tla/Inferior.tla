------------------------------ MODULE Inferior ------------------------------
(***************************************************************************)
(* lib/sylvan/inferior.c: the one inferior of a session, the process it    *)
(* stands for and the ptrace requests the library makes of that process.   *)
(*                                                                         *)
(* Each public function is an action.  A function that blocks in waitpid   *)
(* is cut there: the action up to the wait moves dbg.at away from          *)
(* "prompt", and one of the actions of the section on blocking waits takes *)
(* it back when the tracee has stopped or died.  In between the tracee,    *)
(* and every other process, move by themselves.                            *)
(***************************************************************************)
EXTENDS Breakpoints, Tracee

CONSTANT Ops   \* the calls and the events that this instance considers

VARIABLES
  inf,     \* pid, status, is_attached and realpath of struct sylvan_inferior
  table,   \* its breakpoints and breakpoint_count
  dbg      \* where the call in progress is blocked, if one is

vars == <<proc, inf, table, dbg>>

Status == {"NONE", "TERMINATED", "EXITED", "STOPPED"}

Inferior == [pid : Pid \cup {0}, status : Status, is_attached : BOOLEAN,
             realpath : Program \cup {NoPath}]

(***************************************************************************)
(* "rearm" is the wait inside handle_breakpoint_at_current_addr, "wait"    *)
(* the wait that ends run, continue and stepi; slot is the breakpoint      *)
(* pointer that the former keeps across its wait.  "crashed" is a failed   *)
(* assertion.                                                              *)
(***************************************************************************)
Control == [at : {"prompt", "rearm", "wait", "crashed"},
            cmd : {"-", "run", "continue", "stepinst"}, slot : Slot]

Prompt == [at |-> "prompt", cmd |-> "-", slot |-> 0]
WaitIn(cmd) == [at |-> "wait", cmd |-> cmd, slot |-> 0]
RearmIn(cmd, i) == [at |-> "rearm", cmd |-> cmd, slot |-> i]

FreshInferior ==
  [pid |-> 0, status |-> "NONE", is_attached |-> FALSE, realpath |-> NoPath]

TypeOK ==
  /\ proc \in [Pid -> Process]
  /\ inf \in Inferior
  /\ table \in Table
  /\ dbg \in Control

Init ==
  /\ proc = [p \in Pid |-> NoProcess]
  /\ inf = FreshInferior
  /\ table = EmptyTable
  /\ dbg = Prompt

-----------------------------------------------------------------------------
(***************************************************************************)
(* The state as the code's helpers see it.  A status other than NONE,      *)
(* TERMINATED, EXITED and STOPPED never occurs: nothing asks waitpid for   *)
(* WCONTINUED, so SYLVAN_INFSTATE_RUNNING is never stored.                 *)
(***************************************************************************)
isactive == inf.status = "STOPPED"

Tracee == proc[inf.pid]

\* What PEEKTEXT on inf->pid reads; it fails for a process that is dead.
MemoryOf(q, p) == IF p \in Pid /\ q[p].st = "stopped" THEN q[p].mem ELSE NoMemory

StoreMemory(q, p, m) ==
  IF p \in Pid /\ q[p].st = "stopped" THEN [q EXCEPT ![p] = [q[p] EXCEPT !.mem = m]] ELSE q

AtPrompt(op) == op \in Ops /\ dbg = Prompt

\* waitpid has nothing new to say of a tracee that is stopped; of one that
\* died it says so, once.
HasDied == inf.pid # 0 /\ Tracee.st = "zombie"

DeadInferior_KeepsPid ==   \* fault: inf->pid = 0 is missing
  [inf EXCEPT !.status = IF Tracee.why = "exit" THEN "EXITED" ELSE "TERMINATED"]

DeadInferior ==
  [inf EXCEPT !.pid = 0, !.status = IF Tracee.why = "exit" THEN "EXITED" ELSE "TERMINATED"]

\* sylvan_update_inf_status when it finds the tracee dead.
ReapTracee ==
  /\ inf' = DeadInferior
  /\ proc' = [proc EXCEPT ![inf.pid] = NoProcess]

-----------------------------------------------------------------------------
\* The breakpoint operations, on the tracee's memory if there is a tracee.

Apply(r) ==
  /\ table' = r.table
  /\ proc' = StoreMemory(proc, inf.pid, r.mem)
  /\ UNCHANGED <<inf, dbg>>

BreakpointSet(a) ==
  /\ AtPrompt("set")
  /\ Apply(sylvan_breakpoint_set(table, MemoryOf(proc, inf.pid), isactive, a))

BreakpointUnset(a) ==
  /\ AtPrompt("unset")
  /\ Apply(sylvan_breakpoint_unset(table, MemoryOf(proc, inf.pid), isactive, a))

BreakpointEnable(a) ==
  /\ AtPrompt("enable")
  /\ Apply(sylvan_breakpoint_enable(table, MemoryOf(proc, inf.pid), isactive, a))

BreakpointDisable(a) ==
  /\ AtPrompt("disable")
  /\ Apply(sylvan_breakpoint_disable(table, MemoryOf(proc, inf.pid), isactive, a))

-----------------------------------------------------------------------------
(***************************************************************************)
(* Letting go of the tracee.  Each operator returns the inferior, the      *)
(* table and the processes it leaves, and whether the caller may go on.    *)
(***************************************************************************)
Left(i, t, q, ok) == [inf |-> i, table |-> t, proc |-> q, ok |-> ok]

NoTracee == [inf EXCEPT !.pid = 0, !.status = "NONE", !.is_attached = FALSE]

\* kill(SIGKILL) and the waitpid that reaps the process, whether the signal
\* killed it or it was dead before.
sylvan_kill ==
  IF isactive THEN Left(NoTracee, table, [proc EXCEPT ![inf.pid] = NoProcess], TRUE)
              ELSE Left(inf, table, proc, TRUE)

DetachTracee_KeepsTraps ==   \* fault: no unsetall_phybp before PTRACE_DETACH
  IF HasDied
    THEN Left(DeadInferior, table, [proc EXCEPT ![inf.pid] = NoProcess], TRUE)
    ELSE Left(NoTracee, table,
              [proc EXCEPT ![inf.pid] = [Tracee EXCEPT !.st = "free", !.rip = Entry, !.why = "-"]],
              TRUE)

\* For an attached inferior with a pid.  A failing removal leaves it attached.
DetachTracee ==
  LET r == sylvan_breakpoint_unsetall_phybp(table, Tracee.mem)
      q == StoreMemory(proc, inf.pid, r.mem)
  IN  CASE HasDied -> Left(DeadInferior, table, [proc EXCEPT ![inf.pid] = NoProcess], TRUE)
        [] ~HasDied /\ r.ret # "OK" -> Left(inf, r.table, q, FALSE)
        [] OTHER -> Left(NoTracee, r.table,
                         [q EXCEPT ![inf.pid] = [q[inf.pid] EXCEPT !.st = "free", !.rip = Entry, !.why = "-"]],
                         TRUE)

\* fault: the old tracee is left alone
sylvan_terminate_or_detach_Forgets == Left(inf, table, proc, TRUE)

sylvan_terminate_or_detach_KillsAlways == sylvan_kill   \* fault: is_attached is not looked at

sylvan_terminate_or_detach ==
  IF isactive /\ inf.is_attached THEN DetachTracee ELSE sylvan_kill

sylvan_detach ==
  /\ AtPrompt("detach")
  /\ inf.is_attached /\ inf.pid # 0
  /\ inf' = DetachTracee.inf
  /\ table' = DetachTracee.table
  /\ proc' = DetachTracee.proc
  /\ UNCHANGED dbg

\* sylvan_inferior_destroy and the sylvan_inferior_create that follows it; a
\* failing terminate_or_detach leaves the old inferior in place.
ReplaceInferior ==
  LET d == sylvan_terminate_or_detach
  IN  /\ AtPrompt("destroy")
      /\ inf' = IF d.ok THEN FreshInferior ELSE d.inf
      /\ table' = IF d.ok THEN EmptyTable ELSE d.table
      /\ proc' = d.proc
      /\ UNCHANGED dbg

-----------------------------------------------------------------------------
\* Getting a tracee: attach.

(***************************************************************************)
(* The outcomes of PTRACE_ATTACH and its wait for a process that exists:   *)
(* "denied" (EPERM, or a pid that cannot be traced any more), "died" (the  *)
(* process ends during the attach) and "stopped", at any instruction r.    *)
(* Symbols may be unreadable for lack of a path or of a symbol table, and  *)
(* then the function returns before it looks at the breakpoints.           *)
(***************************************************************************)
AttachDenied(p) ==
  LET d == sylvan_terminate_or_detach
  IN  /\ AtPrompt("attach")
      /\ proc[p].st # "none"
      /\ inf' = d.inf
      /\ table' = d.table
      /\ proc' = d.proc
      /\ UNCHANGED dbg

AttachFindsDead(p) ==
  LET d == sylvan_terminate_or_detach
  IN  /\ AtPrompt("attach")
      /\ proc[p].st # "none" /\ d.ok /\ d.proc[p].st = "free"
      /\ inf' = d.inf
      /\ table' = d.table
      /\ proc' = [d.proc EXCEPT ![p] = NoProcess]
      /\ UNCHANGED dbg

AttachedAt(q, p, r) == [q[p] EXCEPT !.st = "stopped", !.rip = r, !.why = "signal"]

AttachWithoutSymbols(p, r, path) ==
  LET d == sylvan_terminate_or_detach
  IN  /\ AtPrompt("attach") /\ "nosymbols" \in Ops
      /\ proc[p].st # "none" /\ d.ok /\ d.proc[p].st = "free"
      /\ path \in {NoPath, d.proc[p].prog}
      /\ inf' = [d.inf EXCEPT !.pid = p, !.status = "STOPPED", !.is_attached = TRUE,
                              !.realpath = path]
      /\ table' = d.table
      /\ proc' = [d.proc EXCEPT ![p] = AttachedAt(d.proc, p, r)]
      /\ UNCHANGED dbg

sylvan_attach(p, r) ==
  LET d == sylvan_terminate_or_detach
      s == sylvan_breakpoint_setall_phybp(sylvan_breakpoint_reset_phybp(d.table), d.proc[p].mem)
  IN  /\ AtPrompt("attach")
      /\ proc[p].st # "none" /\ d.ok /\ d.proc[p].st = "free"
      /\ inf' = [d.inf EXCEPT !.pid = p, !.status = "STOPPED", !.is_attached = TRUE,
                              !.realpath = d.proc[p].prog]
      /\ table' = s.table
      /\ proc' = [d.proc EXCEPT ![p] = [AttachedAt(d.proc, p, r) EXCEPT !.mem = s.mem]]
      /\ UNCHANGED dbg

-----------------------------------------------------------------------------
\* Getting a tracee: run.

sylvan_set_filepath(g) ==
  /\ AtPrompt("file")
  /\ inf' = [inf EXCEPT !.realpath = g]
  /\ UNCHANGED <<proc, table, dbg>>

\* The old process is gone, whatever it was, and no new one is there: pipe or
\* fork failed, or the child exited before it stopped and was reaped.
RunFails ==
  /\ AtPrompt("run") /\ inf.realpath # NoPath
  /\ inf' = sylvan_kill.inf
  /\ proc' = sylvan_kill.proc
  /\ UNCHANGED <<table, dbg>>

\* The child reported an error through the pipe: handle_parent returns it
\* without waiting for the child.
RunReportsError(p) ==
  /\ AtPrompt("run") /\ "childerror" \in Ops /\ inf.realpath # NoPath
  /\ sylvan_kill.proc[p].st = "none"
  /\ inf' = sylvan_kill.inf
  /\ proc' = [sylvan_kill.proc EXCEPT ![p] = Zombie("exit")]
  /\ UNCHANGED <<table, dbg>>

\* A signal killed the child before it stopped: its pid and TERMINATED are
\* stored, and setall_phybp's assertion that the inferior is active fails.
RunAborts(p) ==
  /\ AtPrompt("run") /\ "killchild" \in Ops /\ inf.realpath # NoPath
  /\ sylvan_kill.proc[p].st = "none"
  /\ inf' = [sylvan_kill.inf EXCEPT !.pid = p, !.status = "TERMINATED", !.is_attached = FALSE]
  /\ proc' = sylvan_kill.proc
  /\ table' = sylvan_breakpoint_reset_phybp(table)
  /\ dbg' = [Prompt EXCEPT !.at = "crashed"]

\* The child stopped at its first instruction: the breakpoints go in and it is
\* continued, unless one of them cannot be inserted.
sylvan_run(p) ==
  LET g == inf.realpath
      s == sylvan_breakpoint_setall_phybp(sylvan_breakpoint_reset_phybp(table), Image[g])
      child == [Loaded(g, "stopped") EXCEPT !.mem = s.mem, !.why = "signal"]
  IN  /\ AtPrompt("run") /\ g # NoPath
      /\ sylvan_kill.proc[p].st = "none"
      /\ inf' = [sylvan_kill.inf EXCEPT !.pid = p, !.status = "STOPPED", !.is_attached = FALSE]
      /\ table' = s.table
      /\ IF s.ret = "OK"
           THEN /\ proc' = [sylvan_kill.proc EXCEPT ![p] = [child EXCEPT !.st = "running", !.why = "-"]]
                /\ dbg' = WaitIn("run")
           ELSE /\ proc' = [sylvan_kill.proc EXCEPT ![p] = child]
                /\ UNCHANGED dbg

-----------------------------------------------------------------------------
\* Moving the tracee: continue and stepi.

\* The slot of a breakpoint that is inserted just before the instruction
\* pointer; there is at most one.
JustHit == {i \in Matches(table, Tracee.rip - 1) : table.breakpoints[i].is_enabled_phy}

\* sylvan_validate_process_state reaps a tracee that died at the prompt.
ResumeFindsDead(cmd) ==
  /\ AtPrompt(cmd)
  /\ HasDied
  /\ ReapTracee
  /\ UNCHANGED <<table, dbg>>

\* handle_breakpoint_at_current_addr up to its wait: rewind rip, take the
\* breakpoint out, execute the instruction under it.
StepOffBreakpoint(cmd) ==
  /\ AtPrompt(cmd)
  /\ inf.pid # 0 /\ isactive /\ ~HasDied
  /\ \E i \in JustHit :
       LET r == sylvan_breakpoint_disable_ptr(table, Tracee.mem, isactive, i)
           rewound == [Tracee EXCEPT !.rip = Tracee.rip - 1, !.mem = r.mem]
       IN  /\ table' = r.table
           /\ IF r.ret = "OK"
                THEN /\ proc' = [proc EXCEPT ![inf.pid] =
                                   [rewound EXCEPT !.st = "stepping", !.why = "-"]]
                     /\ dbg' = RearmIn(cmd, i)
                ELSE /\ proc' = [proc EXCEPT ![inf.pid] = rewound]
                     /\ UNCHANGED dbg
  /\ UNCHANGED inf

Resume(cmd) ==
  /\ proc' = [proc EXCEPT ![inf.pid] =
                [Tracee EXCEPT !.st = IF cmd = "stepinst" THEN "stepping" ELSE "running",
                               !.why = "-"]]
  /\ dbg' = WaitIn(cmd)

ResumeDirectly(cmd) ==
  /\ AtPrompt(cmd)
  /\ inf.pid # 0 /\ isactive /\ ~HasDied
  /\ JustHit = {}
  /\ Resume(cmd)
  /\ UNCHANGED <<inf, table>>

-----------------------------------------------------------------------------
\* Blocking waits: sylvan_update_inf_status(inf, ..., true).

AtSiKernelStop == Tracee.why \in {"int3", "fault"}

\* The code of a stop: OK is the SI_KERNEL stop for which no breakpoint is found.
StopCode ==
  CASE ~AtSiKernelStop -> "PROC_STOPPED"
    [] AtSiKernelStop /\ Matches(table, Tracee.rip - 1) = {} -> "OK"
    [] OTHER -> "BREAKPOINT_HIT"

Waiting == dbg.at \in {"rearm", "wait"}

WaitReturns_NoHang ==     \* fault: the wait does not block
  /\ Waiting
  /\ dbg.at = "rearm" => StopCode # "OK"
  /\ dbg' = Prompt
  /\ UNCHANGED <<proc, inf, table>>


\* Every code ends the call that waits, except for OK in the wait of
\* handle_breakpoint_at_current_addr.
WaitReturns ==
  /\ Waiting
  /\ Tracee.st = "stopped"
  /\ dbg.at = "rearm" => StopCode # "OK"
  /\ dbg' = Prompt
  /\ UNCHANGED <<proc, inf, table>>

WaitFindsDead_ExitOnly ==     \* fault: WIFSIGNALED is not looked at
  /\ Waiting
  /\ HasDied /\ Tracee.why = "exit"
  /\ ReapTracee
  /\ dbg' = Prompt
  /\ UNCHANGED table

WaitFindsDead ==
  /\ Waiting
  /\ HasDied
  /\ ReapTracee
  /\ dbg' = Prompt
  /\ UNCHANGED table

\* After OK the breakpoint goes back in, and continue goes on.
Rearm ==
  LET r == sylvan_breakpoint_enable_ptr(table, Tracee.mem, isactive, dbg.slot)
      p == inf.pid
      goesOn == r.ret = "OK" /\ dbg.cmd = "continue"
  IN  /\ dbg.at = "rearm"
      /\ Tracee.st = "stopped"
      /\ StopCode = "OK"
      /\ table' = r.table
      /\ proc' = [proc EXCEPT ![p] =
                    IF goesOn THEN [Tracee EXCEPT !.mem = r.mem, !.st = "running", !.why = "-"]
                              ELSE [Tracee EXCEPT !.mem = r.mem]]
      /\ dbg' = IF goesOn THEN WaitIn("continue") ELSE Prompt
      /\ UNCHANGED inf

-----------------------------------------------------------------------------
\* Registers and memory.

\* sylvan_get_regs and sylvan_set_regs: both look for the death of the tracee.
RegsFindDead ==
  /\ AtPrompt("regs")
  /\ HasDied
  /\ ReapTracee
  /\ UNCHANGED <<table, dbg>>

sylvan_set_regs(r) ==
  /\ AtPrompt("regs")
  /\ inf.pid # 0 /\ isactive /\ ~HasDied
  /\ proc' = [proc EXCEPT ![inf.pid] = [Tracee EXCEPT !.rip = r]]
  /\ UNCHANGED <<inf, table, dbg>>

\* One byte: the read-modify-write at the end of sylvan_set_memory.  It does
\* not look at the breakpoint table.
sylvan_set_memory(a, b) ==
  /\ AtPrompt("write")
  /\ a # 0
  /\ MemoryOf(proc, inf.pid)[a] # PeekFailed
  /\ proc' = StoreMemory(proc, inf.pid, [Tracee.mem EXCEPT ![a] = b])
  /\ UNCHANGED <<inf, table, dbg>>

-----------------------------------------------------------------------------
\* A breakpoint at the last address would leave no address for the rip after it.
BreakpointAddr == Addr \ {MaxAddr}

BreakpointCalls ==
  \E a \in BreakpointAddr :
    BreakpointSet(a) \/ BreakpointUnset(a) \/ BreakpointEnable(a) \/ BreakpointDisable(a)

ProcessCalls ==
  \/ sylvan_detach
  \/ ReplaceInferior
  \/ \E p \in Pid, r \in Addr :
       sylvan_attach(p, r) \/ \E path \in Program \cup {NoPath} : AttachWithoutSymbols(p, r, path)
  \/ \E p \in Pid : AttachDenied(p) \/ AttachFindsDead(p) \/ RunReportsError(p) \/ RunAborts(p) \/ sylvan_run(p)
  \/ \E g \in Program \cup {NoPath} : sylvan_set_filepath(g)
  \/ RunFails
  \/ \E cmd \in {"continue", "stepinst"} :
       ResumeFindsDead(cmd) \/ StepOffBreakpoint(cmd) \/ ResumeDirectly(cmd)
  \/ RegsFindDead
  \/ \E r \in Addr : sylvan_set_regs(r)
  \/ \E a \in Addr, b \in Byte : sylvan_set_memory(a, b)

WaitSteps == WaitReturns \/ WaitFindsDead \/ Rearm

TraceeSteps ==
  \E p \in Pid :
    \/ \E r \in Addr : StepDone(p, r) \/ TrapHit(p, r)
    \/ \E r \in Addr : "signal" \in Ops /\ StopBySignal(p, r)
    \/ \E r \in Addr : "fault" \in Ops /\ StopByFault(p, r)
    \/ \E g \in Program : "exec" \in Ops /\ Exec(p, g)
    \/ Exit(p)
    \/ "kill" \in Ops /\ Killed(p)
    \/ \E g \in Program : Spawn(p, g)
    \/ FreeExit(p)

Next ==
  \/ BreakpointCalls
  \/ ProcessCalls
  \/ WaitSteps
  \/ TraceeSteps /\ UNCHANGED <<inf, table, dbg>>

Spec == Init /\ [][Next]_vars
=============================================================================
