------------------------------- MODULE Launch -------------------------------
(***************************************************************************)
(* sylvan_run in detail: the two processes of inferior.c:349-508 from fork *)
(* to the first report about the program, and the pipe between them.       *)
(* Inferior.tla takes this handshake as one step; here it is interleaved   *)
(* with itself and with the signals that may reach the child meanwhile.    *)
(*                                                                         *)
(* The child holds the write end of the pipe.  It either writes an error   *)
(* and exits, or closes the pipe and executes the program.  The parent     *)
(* reads until there is an error or the end of the file, and only then     *)
(* waits for the child to stop.                                            *)
(***************************************************************************)
EXTENDS Integers

CONSTANT
  MaxRuns       \* how many run commands are considered

ASSUME LaunchAssumption == MaxRuns \in Nat

VARIABLES
  child,     \* the last child: its position in handle_child and its state
  pipe,      \* whether the child holds the write end, and what it wrote
  parent,    \* the position of sylvan_run and the code it returned
  tracked,   \* inf->pid is the child
  image,     \* what the child executed when the breakpoints went in
  runs

vars == <<child, pipe, parent, tracked, image, runs>>

ChildCode == {"PTRACE_ERROR", "OUT_OF_MEMORY", "INVALID_ARGUMENT"}
Code == ChildCode \cup {"-", "FORK_FAILED", "PROC_CHILD", "PEEKTEXT_FAILED", "PROC_STOPPED", "PROC_DIED"}

NoChild == [pc |-> "forked", st |-> "none", traced |-> FALSE, interrupted |-> FALSE]

ChildState ==
  [pc : {"forked", "traced", "failing", "closed", "program"},
   st : {"running", "stopped", "exited", "killed", "none"},
   traced : BOOLEAN, interrupted : BOOLEAN]
PipeState == [open : BOOLEAN, msg : ChildCode \cup {"-"}]
ParentState == [pc : {"prompt"}, code : Code] \cup [pc : {"read", "wait", "cont", "aborted"}, code : {"-"}]

TypeOK ==
  /\ child \in ChildState /\ pipe \in PipeState /\ parent \in ParentState
  /\ tracked \in BOOLEAN
  /\ image \in {"-", "debugger", "program"}
  /\ runs \in 0..MaxRuns

Init ==
  /\ child = NoChild
  /\ pipe = [open |-> FALSE, msg |-> "-"]
  /\ parent = [pc |-> "prompt", code |-> "-"]
  /\ tracked = FALSE
  /\ image = "-"
  /\ runs = 0

At(pc) == parent.pc = pc
Back(code) == parent' = [pc |-> "prompt", code |-> code]

-----------------------------------------------------------------------------
StartRun_KeepsPid ==     \* fault: sylvan_inferior_kill leaves inf->pid
  /\ At("prompt") /\ runs < MaxRuns
  /\ runs' = runs + 1
  /\ image' = "-"
  /\ UNCHANGED tracked

\* sylvan_run: the old process is killed and reaped, if inf->pid knows it, and a
\* child is forked.
StartRun ==
  /\ At("prompt") /\ runs < MaxRuns
  /\ runs' = runs + 1
  /\ tracked' = FALSE
  /\ image' = "-"

Fork ==
  /\ StartRun
  /\ child' = [NoChild EXCEPT !.st = "running"]
  /\ pipe' = [open |-> TRUE, msg |-> "-"]
  /\ parent' = [pc |-> "read", code |-> "-"]

ForkFails ==
  /\ StartRun
  /\ child' = IF tracked THEN NoChild ELSE child
  /\ Back("FORK_FAILED")
  /\ UNCHANGED pipe

-----------------------------------------------------------------------------
\* handle_child and exit_child.
ChildAt(pc) == child.pc = pc /\ child.st = "running"

TraceMe ==
  /\ ChildAt("forked")
  /\ child' = [child EXCEPT !.pc = "traced", !.traced = TRUE]
  /\ UNCHANGED pipe

\* The message is in the pipe before the child exits.
Report(code) ==
  /\ \/ ChildAt("forked") /\ code = "PTRACE_ERROR"
     \/ ChildAt("traced") /\ code \in {"OUT_OF_MEMORY", "INVALID_ARGUMENT"}
  /\ child' = [child EXCEPT !.pc = "failing"]
  /\ pipe' = [pipe EXCEPT !.msg = code]

ExitReported_GoesOn ==     \* fault: exit_child returns
  /\ ChildAt("failing")
  /\ child' = [child EXCEPT !.pc = "traced"]
  /\ UNCHANGED pipe

ExitReported ==
  /\ ChildAt("failing")
  /\ child' = [child EXCEPT !.st = "exited"]
  /\ pipe' = [pipe EXCEPT !.open = FALSE]

ClosePipe_KeepsOpen ==     \* fault: the program inherits the pipe
  /\ ChildAt("traced")
  /\ child' = [child EXCEPT !.pc = "closed"]
  /\ UNCHANGED pipe

ClosePipe ==
  /\ ChildAt("traced")
  /\ child' = [child EXCEPT !.pc = "closed"]
  /\ pipe' = [pipe EXCEPT !.open = FALSE]

\* The program's first instruction, with the SIGTRAP of a traced execve.
Exec ==
  /\ ChildAt("closed")
  /\ child' = [child EXCEPT !.pc = "program", !.st = "stopped"]
  /\ UNCHANGED pipe

ExecFails ==
  /\ ChildAt("closed")
  /\ child' = [child EXCEPT !.st = "exited"]
  /\ UNCHANGED pipe

\* The program, once it runs, stops or exits, or does neither.
ProgramEnds ==
  /\ ChildAt("program")
  /\ \E st \in {"stopped", "exited"} : child' = [child EXCEPT !.st = st]
  /\ UNCHANGED pipe

ChildSteps ==
  \/ TraceMe
  \/ \E code \in ChildCode : Report(code)
  \/ ExitReported
  \/ ClosePipe
  \/ Exec \/ ExecFails

-----------------------------------------------------------------------------
\* Signals from outside.

\* The terminal's SIGINT: the debugger's handler, which an untraced child has
\* inherited, only sets a flag; a traced child stops.
Interrupt ==
  /\ child.st = "running" /\ child.traced /\ child.pc \in {"traced", "failing", "closed"}
  /\ child' = [child EXCEPT !.st = "stopped", !.interrupted = TRUE]
  /\ UNCHANGED pipe

Kill ==
  /\ child.st \in {"running", "stopped"}
  /\ child' = [child EXCEPT !.st = "killed"]
  /\ pipe' = [pipe EXCEPT !.open = FALSE]

-----------------------------------------------------------------------------
\* handle_parent.

ReadMessage_GoesOn ==     \* fault: the error that was read is not returned
  /\ At("read") /\ pipe.msg # "-"
  /\ parent' = [pc |-> "wait", code |-> pipe.msg]
  /\ UNCHANGED <<child, pipe, tracked, image>>

\* The error is returned at once: nobody waits for the child.
ReadMessage ==
  /\ At("read") /\ pipe.msg # "-"
  /\ Back(pipe.msg)
  /\ UNCHANGED <<child, pipe, tracked, image>>

ReadEnd ==
  /\ At("read") /\ pipe.msg = "-" /\ ~pipe.open
  /\ parent' = [parent EXCEPT !.pc = "wait"]
  /\ UNCHANGED <<child, pipe, tracked, image>>

WaitExited_NotSeen ==     \* fault: an exited child is taken for one that has no status yet
  /\ At("wait") /\ child.st = "exited"
  /\ Back("PROC_CHILD")
  /\ UNCHANGED <<child, pipe, tracked, image>>

WaitExited ==
  /\ At("wait") /\ child.st = "exited"
  /\ child' = NoChild
  /\ Back("PROC_CHILD")
  /\ UNCHANGED <<pipe, tracked, image>>

\* TERMINATED is no status for setall_phybp: its assertion fails.
WaitKilled ==
  /\ At("wait") /\ child.st = "killed"
  /\ child' = NoChild
  /\ tracked' = TRUE
  /\ parent' = [parent EXCEPT !.pc = "aborted"]
  /\ UNCHANGED <<pipe, image>>

Executed == IF child.pc = "program" THEN "program" ELSE "debugger"

WaitStopped_NoWait ==     \* fault: no waitpid before the breakpoints go in
  /\ At("wait") /\ child.st \in {"running", "stopped"}
  /\ tracked' = TRUE
  /\ image' = Executed
  /\ child' = [child EXCEPT !.st = "running"]
  /\ parent' = [parent EXCEPT !.pc = "cont"]
  /\ UNCHANGED pipe

\* Any stop counts as that of the execve.  The breakpoints go in, all or not.
WaitStopped ==
  /\ At("wait") /\ child.st = "stopped"
  /\ tracked' = TRUE
  /\ image' = Executed
  /\ \/ Back("PEEKTEXT_FAILED") /\ UNCHANGED child
     \/ parent' = [parent EXCEPT !.pc = "cont"] /\ child' = [child EXCEPT !.st = "running"]
  /\ UNCHANGED pipe

\* The sylvan_update_inf_status that ends handle_parent.
ContReturns ==
  /\ At("cont")
  /\ \/ /\ child.st = "stopped"
        /\ Back("PROC_STOPPED")
        /\ UNCHANGED <<child, tracked>>
     \/ /\ child.st \in {"exited", "killed"}
        /\ child' = NoChild /\ tracked' = FALSE
        /\ Back("PROC_DIED")
  /\ UNCHANGED <<pipe, image>>

ParentSteps ==
  \/ ReadMessage \/ ReadEnd
  \/ WaitExited \/ WaitKilled \/ WaitStopped
  \/ ContReturns

-----------------------------------------------------------------------------
Next ==
  \/ Fork \/ ForkFails
  \/ (ChildSteps \/ ProgramEnds \/ Interrupt \/ Kill) /\ UNCHANGED <<parent, tracked, image, runs>>
  \/ ParentSteps /\ UNCHANGED runs

Spec == Init /\ [][Next]_vars

\* Running processes go on, and read and waitpid return once they can; nothing
\* makes the program stop or exit.
FairSpec ==
  /\ Spec
  /\ WF_vars(ChildSteps /\ UNCHANGED <<parent, tracked, image, runs>>)
  /\ WF_vars(ParentSteps /\ UNCHANGED runs)

-----------------------------------------------------------------------------
\* A child that exists when run has returned is the process of the inferior, which
\* later commands kill or reap, or has reported its own failure.
Accounted ==
  At("prompt") /\ child.st # "none" => tracked \/ pipe.msg # "-"

\* A tracked child is one that exists and stands still at the prompt.
TrackedChild ==
  tracked /\ At("prompt") => child.st \in {"stopped", "killed"} /\ child.traced

\* Unless SIGINT reaches the child, the breakpoints of a run that has returned are
\* in the program's code, and not in the image of the debugger that execve replaces.
BreakpointsInProgram ==
  At("prompt") /\ tracked /\ ~child.interrupted => image = "program"

\* A child that reported an error does not go on to execute the program.
ReporterStops == pipe.msg # "-" => child.pc \notin {"closed", "program"}

\* Unless SIGINT reaches the child, run gets the program going or fails: it is not
\* blocked for ever in the handshake.
HandshakeEnds == At("read") ~> (~(At("read") \/ At("wait")) \/ child.interrupted)

\* standard_commands.h:26 "Start execution of the program assigned to the current
\* inferior": whatever happens, run starts the program or fails.
RunStartsOrFails == At("read") ~> ~(At("read") \/ At("wait"))
=============================================================================
