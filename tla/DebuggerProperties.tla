------------------------- MODULE DebuggerProperties -------------------------
(***************************************************************************)
(* What a session with the debugger must keep true, and the abstract       *)
(* session it implements.                                                  *)
(***************************************************************************)
EXTENDS Debugger, InferiorProperties

DTypeOK == TypeOK /\ cli \in Cli

\* When quit succeeds, no process is left stopped under a tracer that is gone and
\* none has a breakpoint in its code.
ExitLeavesNothing ==
  cli.at = "exited" => \A p \in Pid : proc[p].st \notin Traced /\ Clean(proc[p].mem)

\* A program the debugger started does not outlive its inferior: when the inferior
\* has another process or none, that program is dead.
LaunchedDies ==
  [][isactive /\ ~inf.is_attached /\ inf'.pid # inf.pid
       => proc'[inf.pid].st \in {"none", "zombie"}]_dvars

-----------------------------------------------------------------------------
(***************************************************************************)
(* The session implements DebugSession: the slots in use are the user's    *)
(* breakpoints, in whatever order, and the logical flags their state.      *)
(***************************************************************************)
UserBreakpoints ==
  [a \in {table.breakpoints[i].addr : i \in Used(table)} |->
     \E i \in Matches(table, a) : table.breakpoints[i].is_enabled_log]

Session ==
  INSTANCE DebugSession WITH
    Location <- Addr, Target <- Pid,
    bps <- UserBreakpoints,
    target <- IF isactive THEN inf.pid ELSE 0,
    waiting <- Waiting

\* Slots that move, flags that go stale and handlers in two parts are invisible.
ImplementsSession == Session!Spec

-----------------------------------------------------------------------------
\* What the documentation says and the code does not do.

\* command_handler.c:737 "Invalid id use: info breakpoint": an id that is not in
\* the list of breakpoints is refused.
IdNamesBreakpoint ==
  [][\A id \in Ids \ Used(table) : handle_delete_breakpoint(id) => UNCHANGED table]_dvars

=============================================================================
