------------------------------ MODULE Debugger ------------------------------
(***************************************************************************)
(* The debugger as its user sees it: the command handlers of               *)
(* src/command_handler.c, the start and the end of src/debugger_startup.c, *)
(* on top of the inferior library.  A handler that makes two calls that    *)
(* change state, destroy and then file or attach, is cut between them; cli *)
(* remembers the second call.  Every step is one of Inferior.tla, or       *)
(* changes cli alone.                                                      *)
(***************************************************************************)
EXTENDS Inferior

VARIABLE cli    \* what main, the loop or a handler does next

dvars == <<proc, inf, table, dbg, cli>>

Cli == [at : {"args", "argpid", "loop", "file", "attach", "exited", "failed"},
        path : Program \cup {NoPath}, pid : Pid \cup {0}]

CliAt(at) == [at |-> at, path |-> NoPath, pid |-> 0]
Loop == CliAt("loop")

\* handle_command takes the next line.
Idle == cli = Loop

-----------------------------------------------------------------------------
\* debugger_main: the path and the pid of the command line, each optional.

ArgPath ==
  /\ cli = CliAt("args")
  /\ \/ UNCHANGED vars
     \/ \E g \in Program : sylvan_set_filepath(g)
  /\ cli' = CliAt("argpid")

\* sylvan_attach in all its outcomes; a pid that names no process changes nothing.
Attach(p) ==
  \/ AtPrompt("attach") /\ proc[p].st = "none" /\ UNCHANGED vars
  \/ AttachDenied(p)
  \/ AttachFindsDead(p)
  \/ \E r \in Addr :
       sylvan_attach(p, r) \/ \E path \in Program \cup {NoPath} : AttachWithoutSymbols(p, r, path)

ArgPid ==
  /\ cli = CliAt("argpid")
  /\ UNCHANGED vars \/ \E p \in Pid : Attach(p)
  /\ cli' = Loop

-----------------------------------------------------------------------------
\* Breakpoints, by address and by id.

handle_breakpoint_set(a) == Idle /\ BreakpointSet(a) /\ UNCHANGED cli

Delete(a) == BreakpointUnset(a)
Toggle(a) == BreakpointDisable(a) \/ BreakpointEnable(a)

\* -a <address>: 0 is refused.
ByAddress(a) ==
  /\ Idle /\ a # 0
  /\ Delete(a) \/ Toggle(a)
  /\ UNCHANGED cli

\* inf->breakpoints[id].addr; one past the array lies breakpoint_count.
AddrOfId(id) ==
  IF id \in Slot THEN table.breakpoints[id].addr ELSE table.breakpoint_count

\* Not id < breakpoint_count: one id too many is let through.
ValidId(id) == id <= table.breakpoint_count

handle_delete_breakpoint(id) ==
  /\ Idle /\ ValidId(id)
  /\ Delete(AddrOfId(id))
  /\ UNCHANGED cli

toggle_breakpoint(id) ==
  /\ Idle /\ ValidId(id)
  /\ Toggle(AddrOfId(id))
  /\ UNCHANGED cli

-----------------------------------------------------------------------------
\* Programs and processes.

\* Destroy and create; the handler goes on with then, or ends when destroy fails.
Replace(then) ==
  /\ ReplaceInferior
  /\ cli' = IF sylvan_terminate_or_detach.ok THEN then ELSE Loop

\* A path that cannot be resolved or executed leaves the inferior's as it is.
handle_file(g) ==
  /\ Idle
  /\ IF inf.pid # 0
       THEN Replace([at |-> "file", path |-> g, pid |-> 0])
       ELSE sylvan_set_filepath(g) /\ UNCHANGED cli

FileGoesOn ==
  /\ cli.at = "file"
  /\ UNCHANGED vars \/ sylvan_set_filepath(cli.path)
  /\ cli' = Loop

handle_attach(p) ==
  /\ Idle
  /\ IF inf.pid # 0
       THEN Replace([at |-> "attach", path |-> NoPath, pid |-> p])
       ELSE Attach(p) /\ UNCHANGED cli

AttachGoesOn ==
  /\ cli.at = "attach"
  /\ Attach(cli.pid)
  /\ cli' = Loop

handle_add_inferior == Idle /\ Replace(Loop)

handle_run ==
  /\ Idle
  /\ RunFails \/ \E p \in Pid : RunReportsError(p) \/ RunAborts(p) \/ sylvan_run(p)
  /\ UNCHANGED cli

\* continue and stepi.
handle_resume ==
  /\ Idle
  /\ \E cmd \in {"continue", "stepinst"} :
       ResumeFindsDead(cmd) \/ StepOffBreakpoint(cmd) \/ ResumeDirectly(cmd)
  /\ UNCHANGED cli

\* set_reg, info_registers and disassemble -c.
handle_set_reg ==
  /\ Idle
  /\ RegsFindDead \/ \E r \in Addr : sylvan_set_regs(r)
  /\ UNCHANGED cli

handle_write_memory ==
  /\ Idle
  /\ \E a \in Addr, b \in Byte : sylvan_set_memory(a, b)
  /\ UNCHANGED cli

\* fault: main returns without sylvan_inferior_destroy
handle_exit_NoDestroy == Idle /\ AtPrompt("destroy") /\ UNCHANGED vars /\ cli' = CliAt("exited")

\* handle_exit ends the loop; debugger_main destroys the inferior and returns
\* EXIT_SUCCESS or EXIT_FAILURE.
handle_exit ==
  /\ Idle
  /\ ReplaceInferior
  /\ cli' = IF sylvan_terminate_or_detach.ok THEN CliAt("exited") ELSE CliAt("failed")

-----------------------------------------------------------------------------
DInit == Init /\ cli = CliAt("args")

Ids == 0..MAX_BREAKPOINTS

Handlers ==
  \/ \E a \in BreakpointAddr : handle_breakpoint_set(a) \/ ByAddress(a)
  \/ \E id \in Ids : handle_delete_breakpoint(id) \/ toggle_breakpoint(id)
  \/ \E g \in Program : handle_file(g)
  \/ \E p \in Pid : handle_attach(p)
  \/ handle_add_inferior \/ handle_run \/ handle_resume
  \/ handle_set_reg \/ handle_write_memory \/ handle_exit

DNext ==
  \/ ArgPath \/ ArgPid
  \/ Handlers
  \/ FileGoesOn \/ AttachGoesOn
  \/ WaitSteps /\ UNCHANGED cli
  \/ TraceeSteps /\ UNCHANGED <<inf, table, dbg, cli>>

DSpec == DInit /\ [][DNext]_dvars
=============================================================================
