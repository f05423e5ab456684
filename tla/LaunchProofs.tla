---------------------------- MODULE LaunchProofs ----------------------------
(***************************************************************************)
(* The safety of the handshake of sylvan_run, for any number of runs.      *)
(* What the parent concludes from the pipe and from one waitpid is right   *)
(* because of where the child can be when it does so: PInv says that.      *)
(***************************************************************************)
EXTENDS Launch, TLAPS

\* A child that reported an error has nothing left to do but exit.
Reporting == pipe.msg # "-" => child.pc = "failing" \/ child.st = "none"

\* Only a traced child stops; it stops at its execve, or because of a SIGINT; and
\* when it has given up the pipe without a word it is traced.
ChildKnown ==
  /\ child.st = "none" => child.pc = "forked"
  /\ child.pc \in {"traced", "closed", "program"} \/ child.st = "stopped" => child.traced
  /\ child.st = "stopped" /\ ~child.interrupted => child.pc = "program"

\* inf->pid is set when the wait for the first stop has returned.
TrackedKnown ==
  /\ At("read") \/ At("wait") => ~tracked
  /\ At("cont") => tracked /\ child.traced /\ child.st # "none"
  /\ At("cont") /\ ~child.interrupted => image = "program"

PInv ==
  /\ TypeOK
  /\ Reporting /\ ChildKnown /\ TrackedKnown
  /\ Accounted /\ TrackedChild /\ BreakpointsInProgram

-----------------------------------------------------------------------------
\* A process that has not been forked, and what changes in one at a time.
LEMMA ChildRecords ==
  /\ NoChild \in ChildState
  /\ \A c \in ChildState :
       /\ \A st \in {"running", "stopped", "exited", "killed"} : [c EXCEPT !.st = st] \in ChildState
       /\ \A pc \in {"traced", "failing", "closed"} : [c EXCEPT !.pc = pc] \in ChildState
       /\ [c EXCEPT !.pc = "traced", !.traced = TRUE] \in ChildState
       /\ [c EXCEPT !.pc = "program", !.st = "stopped"] \in ChildState
       /\ [c EXCEPT !.st = "stopped", !.interrupted = TRUE] \in ChildState
BY DEF ChildState, NoChild

\* The pipe with a message in it, and when nobody can write to it any more.
LEMMA PipeRecords ==
  /\ \A open \in BOOLEAN : [open |-> open, msg |-> "-"] \in PipeState
  /\ \A p \in PipeState :
       /\ \A code \in ChildCode : [p EXCEPT !.msg = code] \in PipeState
       /\ [p EXCEPT !.open = FALSE] \in PipeState
BY DEF PipeState, ChildCode

\* The places of sylvan_run, and the codes that it returns.
LEMMA ParentRecords ==
  /\ \A code \in Code : [pc |-> "prompt", code |-> code] \in ParentState
  /\ [pc |-> "read", code |-> "-"] \in ParentState
  /\ \A p \in ParentState : \A pc \in {"wait", "cont", "aborted"} :
       p.pc # "prompt" => [p EXCEPT !.pc = pc] \in ParentState
BY DEF ParentState

-----------------------------------------------------------------------------
\* Before the first run there is no child.
LEMMA LaunchInit == Init => PInv
<1> SUFFICES ASSUME Init PROVE PInv
  OBVIOUS
<1>1. TypeOK
  <2>1. "-" \in Code
    BY DEF Code
  <2>2. child \in ChildState /\ pipe \in PipeState /\ parent \in ParentState
    BY <2>1, ChildRecords, PipeRecords, ParentRecords, Zenon DEF Init
  <2>3. tracked \in BOOLEAN /\ image \in {"-", "debugger", "program"}
    BY Zenon DEF Init
  <2>4. runs \in 0..MaxRuns
    BY LaunchAssumption DEF Init
  <2> QED BY <2>2, <2>3, <2>4 DEF TypeOK
<1> QED
  BY <1>1 DEF Init, PInv, Reporting, ChildKnown, TrackedKnown, Accounted, TrackedChild,
     BreakpointsInProgram, NoChild, At

\* A new run forgets the child before it, or has reaped it, or lost it to its own
\* report (inferior.c:479-508).
LEMMA ForkGood ==
  ASSUME PInv, Fork \/ ForkFails
  PROVE  PInv'
<1>1. TypeOK'
  <2>1. runs' \in 0..MaxRuns
    BY LaunchAssumption DEF PInv, TypeOK, Fork, ForkFails, StartRun
  <2>2. child' \in ChildState
    BY ChildRecords DEF PInv, TypeOK, Fork, ForkFails
  <2>3. pipe' \in PipeState
    BY PipeRecords DEF PInv, TypeOK, Fork, ForkFails
  <2>4. parent' \in ParentState
    BY ParentRecords DEF Fork, ForkFails, Back, Code
  <2> QED
    BY <2>1, <2>2, <2>3, <2>4 DEF TypeOK, Fork, ForkFails, StartRun
<1>2. CASE Fork
  BY <1>1, <1>2 DEF PInv, Fork, StartRun, Reporting, ChildKnown, TrackedKnown, Accounted,
     TrackedChild, BreakpointsInProgram, NoChild, At
<1>3. CASE ForkFails
  BY <1>1, <1>3 DEF PInv, ForkFails, StartRun, Back, Reporting, ChildKnown, TrackedKnown,
     Accounted, TrackedChild, BreakpointsInProgram, NoChild, At
<1> QED BY <1>2, <1>3

\* A child that goes on, or is stopped or killed, keeps its type.
LEMMA ChildTypes ==
  ASSUME PInv, ChildSteps \/ ProgramEnds \/ Interrupt \/ Kill, UNCHANGED <<parent, tracked, image, runs>>
  PROVE  TypeOK'
<1>1. child' \in ChildState
  BY ChildRecords
  DEF PInv, TypeOK, ChildSteps, TraceMe, Report, ExitReported, ClosePipe, Exec, ExecFails,
      ProgramEnds, Interrupt, Kill
<1>2. pipe' \in PipeState
  BY PipeRecords
  DEF PInv, TypeOK, ChildSteps, TraceMe, Report, ExitReported, ClosePipe, Exec, ExecFails,
      ProgramEnds, Interrupt, Kill
<1> QED BY <1>1, <1>2 DEF PInv, TypeOK

\* So do the variables of handle_parent.
LEMMA ParentTypes ==
  ASSUME PInv, ParentSteps, UNCHANGED runs
  PROVE  TypeOK'
<1>1. child' \in ChildState /\ pipe' \in PipeState
  BY ChildRecords
  DEF PInv, TypeOK, ParentSteps, ReadMessage, ReadEnd, WaitExited, WaitKilled, WaitStopped, ContReturns
<1>2. parent' \in ParentState
  <2>1. pipe.msg \in Code
    BY DEF PInv, TypeOK, PipeState, Code
  <2> QED
    BY <2>1, ParentRecords
    DEF PInv, TypeOK, ParentSteps, ReadMessage, ReadEnd, WaitExited, WaitKilled, WaitStopped,
        ContReturns, Back, Code, At
<1>3. tracked' \in BOOLEAN /\ image' \in {"-", "debugger", "program"}
  BY DEF PInv, TypeOK, ParentSteps, ReadMessage, ReadEnd, WaitExited, WaitKilled, WaitStopped,
     ContReturns, Executed
<1> QED BY <1>1, <1>2, <1>3 DEF PInv, TypeOK

\* What a child does on its own or under a signal keeps the variables of the parent.
\* At the prompt a tracked child stands still.
LEMMA ChildGood ==
  ASSUME PInv, ChildSteps \/ ProgramEnds \/ Interrupt \/ Kill, UNCHANGED <<parent, tracked, image, runs>>
  PROVE  PInv'
<1>0. TypeOK'
  BY ChildTypes
<1> USE <1>0 DEF PInv, TypeOK, Reporting, ChildKnown, TrackedKnown, Accounted, TrackedChild,
            BreakpointsInProgram, At, ChildAt, ChildState, PipeState
<1>1. CASE TraceMe
  BY <1>1 DEF TraceMe
<1>2. CASE \E code \in ChildCode : Report(code)
  BY <1>2 DEF Report, ChildCode
<1>3. CASE ExitReported
  BY <1>3 DEF ExitReported
<1>4. CASE ClosePipe
  BY <1>4 DEF ClosePipe
<1>5. CASE Exec \/ ExecFails
  BY <1>5 DEF Exec, ExecFails
<1>6. CASE ProgramEnds
  BY <1>6 DEF ProgramEnds
<1>7. CASE Interrupt
  BY <1>7 DEF Interrupt
<1>8. CASE Kill
  BY <1>8 DEF Kill
<1> QED BY <1>1, <1>2, <1>3, <1>4, <1>5, <1>6, <1>7, <1>8 DEF ChildSteps

\* handle_parent: an error that is read leaves the child to itself; after the end of
\* the file the first stop makes it the inferior's (inferior.c:412-477).
LEMMA ParentGood ==
  ASSUME PInv, ParentSteps, UNCHANGED runs
  PROVE  PInv'
<1>0. TypeOK'
  BY ParentTypes
<1> USE <1>0 DEF PInv, TypeOK, Reporting, ChildKnown, TrackedKnown, Accounted, TrackedChild,
            BreakpointsInProgram, NoChild, At, Back, ChildState, ParentState
<1>1. CASE ReadMessage
  BY <1>1 DEF ReadMessage
<1>2. CASE ReadEnd
  BY <1>2 DEF ReadEnd
<1>3. CASE WaitExited
  BY <1>3 DEF WaitExited
<1>4. CASE WaitKilled
  BY <1>4 DEF WaitKilled
<1>5. CASE WaitStopped
  BY <1>5 DEF WaitStopped, Executed
<1>6. CASE ContReturns
  <2>1. CASE child.st = "stopped" /\ Back("PROC_STOPPED") /\ UNCHANGED <<child, tracked, pipe, image>>
    BY <1>6, <2>1 DEF ContReturns
  <2>2. CASE child' = NoChild /\ ~tracked' /\ Back("PROC_DIED") /\ UNCHANGED <<pipe, image>>
    BY <1>6, <2>2 DEF ContReturns
  <2> QED BY <1>6, <2>1, <2>2 DEF ContReturns
<1> QED BY <1>1, <1>2, <1>3, <1>4, <1>5, <1>6 DEF ParentSteps

\* The state of the handshake is what PInv says at every moment of every number of
\* runs, whatever the scheduling and whatever signals come.
THEOREM LaunchInductive == Spec => []PInv
<1>1. PInv /\ [Next]_vars => PInv'
  <2> SUFFICES ASSUME PInv, [Next]_vars PROVE PInv'
    OBVIOUS
  <2>1. CASE Fork \/ ForkFails
    BY <2>1, ForkGood
  <2>2. CASE (ChildSteps \/ ProgramEnds \/ Interrupt \/ Kill) /\ UNCHANGED <<parent, tracked, image, runs>>
    BY <2>2, ChildGood
  <2>3. CASE ParentSteps /\ UNCHANGED runs
    BY <2>3, ParentGood
  <2>4. CASE UNCHANGED vars
    BY <2>4 DEF vars, PInv, TypeOK, Reporting, ChildKnown, TrackedKnown, Accounted,
       TrackedChild, BreakpointsInProgram, At
  <2> QED BY <2>1, <2>2, <2>3, <2>4 DEF Next
<1> QED BY <1>1, LaunchInit, PTL DEF Spec

-----------------------------------------------------------------------------
\* The positions of the two processes and what is in the pipe keep their types.
THEOREM LaunchTypes == Spec => []TypeOK
BY LaunchInductive, PTL DEF PInv

\* sylvan_run loses no child but one that reported its own failure (inferior.c:427-440):
\* any other that exists when it returns is the inferior's process.
THEOREM ChildAccounted == Spec => []Accounted
BY LaunchInductive, PTL DEF PInv

\* When the prompt is back, the child that inf->pid names exists, is traced and does not
\* run (inferior.c:442-477).
THEOREM TrackedStandsStill == Spec => []TrackedChild
BY LaunchInductive, PTL DEF PInv

\* Without a SIGINT to the child the breakpoints go into the program and not into the
\* debugger's own image, although any stop is taken for that of the execve
\* (inferior.c:442-471).
THEOREM BreakpointsReachProgram == Spec => []BreakpointsInProgram
BY LaunchInductive, PTL DEF PInv

\* exit_child does not return: a child that wrote an error to the pipe never executes
\* the program (inferior.c:349-410).
THEOREM ReporterNeverExecutes == Spec => []ReporterStops
<1>1. PInv => ReporterStops
  BY DEF PInv, Reporting, ChildKnown, ReporterStops
<1> QED BY <1>1, LaunchInductive, PTL
=============================================================================
