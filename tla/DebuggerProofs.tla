--------------------------- MODULE DebuggerProofs ---------------------------
(***************************************************************************)
(* The safety of a session, for every set of pids, every machine and every *)
(* table size.  The handlers make the library's calls one at a time, each  *)
(* of which keeps IInv (InferiorProofs); what the session adds is what it  *)
(* remembers between two calls, and how it ends.                           *)
(***************************************************************************)
EXTENDS DebuggerProperties, InferiorProofs

DInv ==
  /\ IInv
  /\ cli \in Cli
  /\ cli.at = "file" => cli.path \in Program
  /\ cli.at = "attach" => cli.pid \in Pid
  /\ cli.at = "exited" => ~isactive

-----------------------------------------------------------------------------
\* Steps that change nothing of the library.

\* IInv is about the library's variables alone.
LEMMA StutterGood ==
  ASSUME IInv, UNCHANGED vars
  PROVE  IInv'
BY DEF vars, IInv, TypeOK, PidIsOurs, OneTracee, QuietAtPrompt, TrapOwned, OgByteIsProgram,
       isactive, Tracee, Waiting, Moving

\* Deleting or toggling at an address that has no breakpoint changes nothing
\* (breakpoint.c:111-134, 163-169).
LEMMA NotFoundSteps ==
  ASSUME NEW a, TypeOK, Matches(table, a) = {}, Delete(a) \/ Toggle(a)
  PROVE  UNCHANGED vars
<1>1. StoreMemory(proc, inf.pid, MemoryOf(proc, inf.pid)) = proc
  BY DEF StoreMemory, MemoryOf, TypeOK, Process
<1> QED
  BY <1>1 DEF Delete, Toggle, BreakpointUnset, BreakpointEnable, BreakpointDisable, Apply, Outcome,
       sylvan_breakpoint_unset, sylvan_breakpoint_enable, sylvan_breakpoint_disable, vars

\* The address that an id stands for need not be one, when the id is one too
\* many (command_handler.c:730-737, 857-864): then no breakpoint is found.
LEMMA IdGood ==
  ASSUME IInv, NEW id \in Ids, Delete(AddrOfId(id)) \/ Toggle(AddrOfId(id))
  PROVE  IInv'
<1> DEFINE a == AddrOfId(id)
<1>1. TypeOK
  BY DEF IInv
<1>2. CASE a \in Addr
  BY <1>2, BreakpointCallGood DEF Delete, Toggle
<1>3. CASE a \notin Addr
  <2>1. \A i \in Used(table) : table.breakpoints[i].addr \in Addr
    BY <1>1 DEF TypeOK, Table, Breakpoint, Used
  <2>2. Matches(table, a) = {}
    BY <1>3, <2>1 DEF Matches
  <2> QED BY <1>1, <2>2, NotFoundSteps, StutterGood
<1> QED BY <1>2, <1>3

-----------------------------------------------------------------------------
\* The library's variables.

\* sylvan_attach in all its outcomes, on a pid that may name no process.
LEMMA AttachGood ==
  ASSUME IInv, NEW p \in Pid, Attach(p)
  PROVE  IInv'
<1>1. Entry \in Addr
  BY MoreConstants
<1> QED BY <1>1, AttachCallsGood, StutterGood DEF Attach

\* Every handler keeps what the library promises.
LEMMA HandlersGood ==
  ASSUME IInv, Handlers
  PROVE  IInv'
<1>1. CASE \E a \in BreakpointAddr : handle_breakpoint_set(a) \/ ByAddress(a)
  BY <1>1, BreakpointCallGood DEF BreakpointAddr, handle_breakpoint_set, ByAddress, Delete, Toggle
<1>2. CASE \E id \in Ids : handle_delete_breakpoint(id) \/ toggle_breakpoint(id)
  BY <1>2, IdGood DEF handle_delete_breakpoint, toggle_breakpoint
<1>3. CASE \E g \in Program : handle_file(g)
  BY <1>3, DetachCallsGood, DataCallsGood DEF handle_file, Replace
<1>4. CASE \E p \in Pid : handle_attach(p)
  BY <1>4, DetachCallsGood, AttachGood DEF handle_attach, Replace
<1>5. CASE handle_add_inferior \/ handle_exit
  BY <1>5, DetachCallsGood DEF handle_add_inferior, handle_exit, Replace
<1>6. CASE handle_run
  BY <1>6, RunCallsGood DEF handle_run
<1>7. CASE handle_resume
  BY <1>7, ResumeCallsGood DEF handle_resume
<1>8. CASE handle_set_reg \/ handle_write_memory
  BY <1>8, DataCallsGood DEF handle_set_reg, handle_write_memory
<1> QED BY <1>1, <1>2, <1>3, <1>4, <1>5, <1>6, <1>7, <1>8 DEF Handlers

\* Every step of a session keeps what the library promises.
LEMMA LibraryGood ==
  ASSUME DInv, [DNext]_dvars
  PROVE  IInv'
<1>1. IInv
  BY DEF DInv
<1>2. CASE ArgPath
  BY <1>1, <1>2, StutterGood, DataCallsGood DEF ArgPath
<1>3. CASE ArgPid
  BY <1>1, <1>3, StutterGood, AttachGood DEF ArgPid
<1>4. CASE Handlers
  BY <1>1, <1>4, HandlersGood
<1>5. CASE FileGoesOn
  BY <1>1, <1>5, StutterGood, DataCallsGood DEF FileGoesOn, DInv
<1>6. CASE AttachGoesOn
  BY <1>1, <1>6, AttachGood DEF AttachGoesOn, DInv
<1>7. CASE WaitSteps
  BY <1>1, <1>7, WaitStepsGood
<1>8. CASE TraceeSteps /\ UNCHANGED <<inf, table, dbg>>
  BY <1>1, <1>8, TraceeStepsGood
<1>9. CASE UNCHANGED dvars
  BY <1>1, <1>9, StutterGood DEF dvars, vars
<1> QED BY <1>2, <1>3, <1>4, <1>5, <1>6, <1>7, <1>8, <1>9 DEF DNext

-----------------------------------------------------------------------------
\* What the session remembers.

CliOK(c) ==
  /\ c \in Cli
  /\ c.at = "file" => c.path \in Program
  /\ c.at = "attach" => c.pid \in Pid

\* The places of main and of the loop.
LEMMA Places ==
  /\ \A at \in {"args", "argpid", "loop", "exited", "failed"} :
       CliOK(CliAt(at)) /\ CliAt(at).at = at
  /\ CliOK(Loop) /\ Loop.at = "loop"
BY DEF CliOK, CliAt, Loop, Cli

\* debugger_main ends well only after the inferior was destroyed and created
\* afresh (debugger_startup.c:146-160).
LEMMA ExitGood ==
  ASSUME handle_exit
  PROVE  CliOK(cli') /\ (cli'.at = "exited" => ~isactive')
<1>1. sylvan_terminate_or_detach.ok => inf' = FreshInferior
  BY DEF handle_exit, ReplaceInferior
<1>2. inf' = FreshInferior => ~isactive'
  BY DEF FreshInferior, isactive
<1>3. cli' = IF sylvan_terminate_or_detach.ok THEN CliAt("exited") ELSE CliAt("failed")
  BY DEF handle_exit
<1> QED BY <1>1, <1>2, <1>3, Places

\* The second call of a handler finds the argument that the first one left it.
LEMMA ReplaceGood ==
  ASSUME NEW then, CliOK(then), then.at # "exited", Replace(then)
  PROVE  CliOK(cli') /\ cli'.at # "exited"
BY Places DEF Replace

\* No handler but quit ends the session.
LEMMA HandlersKeepCli ==
  ASSUME DInv, Handlers
  PROVE  CliOK(cli') /\ (cli'.at = "exited" => ~isactive')
<1>1. CliOK(cli) /\ (Idle => cli.at = "loop")
  BY Places DEF DInv, CliOK, Idle
<1>2. CASE \E g \in Program : handle_file(g)
  <2>1. PICK g \in Program : handle_file(g)
    BY <1>2
  <2> DEFINE then == [at |-> "file", path |-> g, pid |-> 0]
  <2>2. CliOK(then) /\ then.at # "exited"
    BY DEF CliOK, Cli
  <2>3. Replace(then) \/ (Idle /\ cli' = cli)
    BY <2>1 DEF handle_file
  <2> HIDE DEF then
  <2> QED BY <1>1, <2>2, <2>3, ReplaceGood
<1>3. CASE \E p \in Pid : handle_attach(p)
  <2>1. PICK p \in Pid : handle_attach(p)
    BY <1>3
  <2> DEFINE then == [at |-> "attach", path |-> NoPath, pid |-> p]
  <2>2. CliOK(then) /\ then.at # "exited"
    BY DEF CliOK, Cli
  <2>3. Replace(then) \/ (Idle /\ cli' = cli)
    BY <2>1 DEF handle_attach
  <2> HIDE DEF then
  <2> QED BY <1>1, <2>2, <2>3, ReplaceGood
<1>4. CASE handle_add_inferior
  BY <1>4, Places, ReplaceGood DEF handle_add_inferior
<1>5. CASE handle_exit
  BY <1>5, ExitGood
<1>6. CASE \/ \E a \in BreakpointAddr : handle_breakpoint_set(a) \/ ByAddress(a)
           \/ \E id \in Ids : handle_delete_breakpoint(id) \/ toggle_breakpoint(id)
           \/ handle_run \/ handle_resume \/ handle_set_reg \/ handle_write_memory
  <2>1. Idle /\ cli' = cli
    BY <1>6 DEF handle_breakpoint_set, ByAddress, handle_delete_breakpoint, toggle_breakpoint,
         handle_run, handle_resume, handle_set_reg, handle_write_memory
  <2> QED BY <1>1, <2>1
<1> QED BY <1>2, <1>3, <1>4, <1>5, <1>6 DEF Handlers

\* A wait that ends gives the session no tracee.
LEMMA WaitKeepsInactive ==
  ASSUME inf \in Inferior, WaitSteps, ~isactive
  PROVE  ~isactive'
<1>1. inf' = inf \/ inf' = DeadInferior
  BY DEF WaitSteps, WaitReturns, WaitFindsDead, Rearm, ReapTracee
<1>2. DeadInferior.status # "STOPPED"
  BY DEF Inferior, DeadInferior
<1> QED BY <1>1, <1>2 DEF isactive

\* The session's own state, at every step.
LEMMA CliGood ==
  ASSUME DInv, [DNext]_dvars
  PROVE  CliOK(cli') /\ (cli'.at = "exited" => ~isactive')
<1>1. CliOK(cli) /\ (cli.at = "exited" => ~isactive) /\ inf \in Inferior
  BY DEF DInv, CliOK, IInv, TypeOK
<1>2. CASE ArgPath \/ ArgPid \/ FileGoesOn \/ AttachGoesOn
  BY <1>2, Places DEF ArgPath, ArgPid, FileGoesOn, AttachGoesOn
<1>3. CASE Handlers
  BY <1>3, HandlersKeepCli
<1>4. CASE WaitSteps /\ UNCHANGED cli
  BY <1>1, <1>4, WaitKeepsInactive
<1>5. CASE UNCHANGED <<inf, cli>>
  BY <1>1, <1>5 DEF isactive
<1> QED BY <1>2, <1>3, <1>4, <1>5 DEF DNext, dvars

-----------------------------------------------------------------------------
\* The theorems.

LEMMA DInitGood == DInit => DInv
<1> SUFFICES ASSUME DInit PROVE DInv
  OBVIOUS
<1>1. IInv
  BY InitGood DEF DInit
<1>2. CliOK(cli) /\ cli.at = "args"
  BY Places DEF DInit
<1> QED BY <1>1, <1>2 DEF DInv, CliOK

\* The invariant of a session is inductive.
LEMMA DStepGood == DInv /\ [DNext]_dvars => DInv'
<1> SUFFICES ASSUME DInv, [DNext]_dvars PROVE DInv'
  OBVIOUS
<1>1. IInv'
  BY LibraryGood
<1>2. CliOK(cli') /\ (cli'.at = "exited" => ~isactive')
  BY CliGood
<1> QED BY <1>1, <1>2 DEF DInv, CliOK

\* A session keeps the library's invariant and its own in every state.
THEOREM SessionInv == DSpec => []DInv
BY DInitGood, DStepGood, PTL DEF DSpec

\* The variables of a session keep their types (command_handler.c,
\* debugger_startup.c:70-161).
THEOREM DTypeCorrect == DSpec => []DTypeOK
<1>1. DInv => DTypeOK
  BY DEF DInv, DTypeOK, IInv
<1> QED BY <1>1, SessionInv, PTL

\* A session that ends with EXIT_SUCCESS leaves nobody traced, and no 0xCC in
\* any process (debugger_startup.c:146-160, inferior.c:169-188, 317-343).
THEOREM QuitLeavesNothing == DSpec => []ExitLeavesNothing
<1>1. DInv => ExitLeavesNothing
  BY DEF DInv, ExitLeavesNothing, IInv, OneTracee, TrapOwned
<1> QED BY <1>1, SessionInv, PTL

-----------------------------------------------------------------------------
(***************************************************************************)
(* What a user of the debugger can rely on, for every set of pids, every   *)
(* machine and every table size: every step of a session is a step of      *)
(* DebugSession or is invisible in it, and no program that the debugger    *)
(* started is left alive.                                                  *)
(*                                                                         *)
(* SameUser says that two tables show the user the same breakpoints, and   *)
(* Logged that they differ in one logical flag; each function of           *)
(* breakpoint.c does one of these, or appends or drops a slot.             *)
(***************************************************************************)

UserOf(t) ==
  [a \in {t.breakpoints[i].addr : i \in Used(t)} |->
     \E i \in Matches(t, a) : t.breakpoints[i].is_enabled_log]

SwitchedIn(f, a, on) == [f EXCEPT ![a] = on]
AddedTo(f, a) == [b \in DOMAIN f \cup {a} |-> IF b = a THEN TRUE ELSE f[b]]
DroppedFrom(f, a) == [b \in DOMAIN f \ {a} |-> f[b]]

\* What one call may do to the user's breakpoint at a.
UserMoves(u, t, a) ==
  \/ UserOf(u) = UserOf(t)
  \/ a \in DOMAIN UserOf(t) /\ \E on \in BOOLEAN : UserOf(u) = SwitchedIn(UserOf(t), a, on)
  \/ a \in DOMAIN UserOf(t) /\ UserOf(u) = DroppedFrom(UserOf(t), a)
  \/ a \in Addr \ DOMAIN UserOf(t) /\ UserOf(u) = AddedTo(UserOf(t), a)

SameUser(u, t) ==
  /\ u.breakpoint_count = t.breakpoint_count
  /\ \A i \in Slot : /\ u.breakpoints[i].addr = t.breakpoints[i].addr
                     /\ u.breakpoints[i].is_enabled_log = t.breakpoints[i].is_enabled_log

Logged(u, t, s, flag) ==
  /\ u.breakpoint_count = t.breakpoint_count
  /\ \A i \in Slot : /\ u.breakpoints[i].addr = t.breakpoints[i].addr
                     /\ u.breakpoints[i].is_enabled_log =
                          IF i = s THEN flag ELSE t.breakpoints[i].is_enabled_log

-----------------------------------------------------------------------------
\* What the functions of breakpoint.c do to what the user sees.

\* Inserting or removing the 0xCC of some slots is invisible to the user (breakpoint.c:35-80).
LEMMA InsertRemoveSame ==
  ASSUME NEW t, t.breakpoints \in [Slot -> Breakpoint], NEW m, NEW S
  PROVE  SameUser(Insert(t, m, S).table, t) /\ SameUser(Remove(t, m, S).table, t)
<1>1. \A i \in Slot : t.breakpoints[i] \in Breakpoint
  OBVIOUS
<1>2. SameUser(Insert(t, m, S).table, t)
  <2> DEFINE todo == {i \in S : ~t.breakpoints[i].is_enabled_phy}
             done == BeforeBlocked(todo, t, m)
             new == [i \in Slot |->
                 IF i \in done
                   THEN [t.breakpoints[i] EXCEPT !.og_byte = m[t.breakpoints[i].addr],
                                                 !.is_enabled_phy = TRUE]
                   ELSE t.breakpoints[i]]
  <2>1. Insert(t, m, S).table = [t EXCEPT !.breakpoints = new]
    BY DEF Insert, Outcome
  <2>2. \A i \in Slot : new[i].addr = t.breakpoints[i].addr
                     /\ new[i].is_enabled_log = t.breakpoints[i].is_enabled_log
    BY <1>1 DEF Breakpoint
  <2> HIDE DEF new
  <2> QED BY <2>1, <2>2 DEF SameUser
<1>3. SameUser(Remove(t, m, S).table, t)
  <2> DEFINE todo == {i \in S : t.breakpoints[i].is_enabled_phy}
             done == BeforeBlocked(todo, t, m)
             new == [i \in Slot |->
                 IF i \in done THEN [t.breakpoints[i] EXCEPT !.is_enabled_phy = FALSE]
                               ELSE t.breakpoints[i]]
  <2>1. Remove(t, m, S).table = [t EXCEPT !.breakpoints = new]
    BY DEF Remove, Outcome
  <2>2. \A i \in Slot : new[i].addr = t.breakpoints[i].addr
                     /\ new[i].is_enabled_log = t.breakpoints[i].is_enabled_log
    BY <1>1 DEF Breakpoint
  <2> HIDE DEF new
  <2> QED BY <2>1, <2>2 DEF SameUser
<1> QED BY <1>2, <1>3

\* Two tables that show the same slots show the same breakpoints.
LEMMA SameUserOf ==
  ASSUME NEW t, NEW u, SameUser(u, t)
  PROVE  UserOf(u) = UserOf(t)
<1>1. Used(u) = Used(t)
  BY DEF SameUser, Used
<1>2. \A i \in Used(t) : u.breakpoints[i].addr = t.breakpoints[i].addr
                      /\ u.breakpoints[i].is_enabled_log = t.breakpoints[i].is_enabled_log
  BY DEF SameUser, Used
<1>3. {u.breakpoints[i].addr : i \in Used(u)} = {t.breakpoints[i].addr : i \in Used(t)}
  BY <1>1, <1>2
<1>4. \A a : Matches(u, a) = Matches(t, a)
  BY <1>1, <1>2 DEF Matches
<1>5. \A a : (\E i \in Matches(u, a) : u.breakpoints[i].is_enabled_log)
               = (\E i \in Matches(t, a) : t.breakpoints[i].is_enabled_log)
  <2>1. \A a : \A i \in Matches(t, a) : u.breakpoints[i].is_enabled_log = t.breakpoints[i].is_enabled_log
    BY <1>2 DEF Matches
  <2> QED BY <1>4, <2>1
<1> QED BY <1>3, <1>5 DEF UserOf

\* Only the addresses of slots in use are breakpoints of the user, and no address has two slots.
LEMMA UserFacts ==
  ASSUME NEW t, DistinctAddrs(t)
  PROVE  /\ DOMAIN UserOf(t) = {t.breakpoints[i].addr : i \in Used(t)}
         /\ \A i \in Used(t) : /\ Matches(t, t.breakpoints[i].addr) = {i}
                               /\ t.breakpoints[i].is_enabled_log \in BOOLEAN =>
                                    UserOf(t)[t.breakpoints[i].addr] = t.breakpoints[i].is_enabled_log
         /\ \A a : a \in DOMAIN UserOf(t) <=> Matches(t, a) # {}
<1>1. DOMAIN UserOf(t) = {t.breakpoints[i].addr : i \in Used(t)}
  BY DEF UserOf
<1>2. \A i \in Used(t) : Matches(t, t.breakpoints[i].addr) = {i}
  BY DEF DistinctAddrs, Matches
<1>3. ASSUME NEW i \in Used(t), t.breakpoints[i].is_enabled_log \in BOOLEAN
      PROVE  UserOf(t)[t.breakpoints[i].addr] = t.breakpoints[i].is_enabled_log
  <2>1. UserOf(t)[t.breakpoints[i].addr] =
          \E j \in Matches(t, t.breakpoints[i].addr) : t.breakpoints[j].is_enabled_log
    BY DEF UserOf
  <2>2. (\E j \in {i} : t.breakpoints[j].is_enabled_log) = t.breakpoints[i].is_enabled_log
    BY <1>3
  <2> QED BY <1>2, <2>1, <2>2
<1>4. \A a : a \in DOMAIN UserOf(t) <=> Matches(t, a) # {}
  BY <1>1 DEF Matches
<1> QED BY <1>1, <1>2, <1>3, <1>4

\* What the user sees of a slot in use is its logical flag.
LEMMA UserAt ==
  ASSUME NEW t, DistinctAddrs(t), NEW i \in Used(t), t.breakpoints[i].is_enabled_log \in BOOLEAN
  PROVE  UserOf(t)[t.breakpoints[i].addr] = t.breakpoints[i].is_enabled_log
BY UserFacts

\* The table of a fresh inferior shows no breakpoint.
LEMMA EmptyUser == UserOf(EmptyTable) = [b \in {} |-> FALSE]
<1>1. Used(EmptyTable) = {}
  BY Constants DEF Used, EmptyTable
<1>2. {EmptyTable.breakpoints[i].addr : i \in Used(EmptyTable)} = {}
  BY <1>1
<1> QED BY <1>2 DEF UserOf

\* Changing the logical flag of a slot in use switches the breakpoint at its address.
LEMMA LoggedUser ==
  ASSUME NEW t \in Table, DistinctAddrs(t), NEW u, NEW s \in Used(t), NEW flag \in BOOLEAN,
         Logged(u, t, s, flag)
  PROVE  /\ t.breakpoints[s].addr \in DOMAIN UserOf(t)
         /\ UserOf(u) = SwitchedIn(UserOf(t), t.breakpoints[s].addr, flag)
<1> DEFINE a == t.breakpoints[s].addr
           D == {t.breakpoints[i].addr : i \in Used(t)}
<1>1. Used(u) = Used(t) /\ s \in Slot
  BY DEF Logged, Used
<1>2. \A i \in Used(t) : /\ u.breakpoints[i].addr = t.breakpoints[i].addr
                         /\ u.breakpoints[i].is_enabled_log =
                              IF i = s THEN flag ELSE t.breakpoints[i].is_enabled_log
                         /\ t.breakpoints[i].is_enabled_log \in BOOLEAN
  BY DEF Logged, Used, Table, Breakpoint
<1>3. DistinctAddrs(u)
  BY <1>1, <1>2 DEF DistinctAddrs
<1>4. DOMAIN UserOf(u) = D /\ DOMAIN UserOf(t) = D /\ a \in D
  <2>1. DOMAIN UserOf(u) = {u.breakpoints[i].addr : i \in Used(u)}
    BY <1>3, UserFacts
  <2>2. DOMAIN UserOf(t) = D
    BY UserFacts
  <2>3. {u.breakpoints[i].addr : i \in Used(u)} = D
    BY <1>1, <1>2
  <2> QED BY <2>1, <2>2, <2>3
<1>5. \A i \in Used(t) :
        /\ UserOf(t)[t.breakpoints[i].addr] = t.breakpoints[i].is_enabled_log
        /\ UserOf(u)[t.breakpoints[i].addr] = u.breakpoints[i].is_enabled_log
  <2>1. \A i \in Used(t) : u.breakpoints[i].is_enabled_log \in BOOLEAN
    BY <1>2
  <2> TAKE i \in Used(t)
  <2>2. UserOf(t)[t.breakpoints[i].addr] = t.breakpoints[i].is_enabled_log
    BY <1>2, UserAt
  <2>3. UserOf(u)[u.breakpoints[i].addr] = u.breakpoints[i].is_enabled_log
    BY <1>1, <1>3, <2>1, UserAt
  <2> QED BY <1>2, <2>2, <2>3
<1>6. \A b \in D : UserOf(u)[b] = IF b = a THEN flag ELSE UserOf(t)[b]
  <2> TAKE b \in D
  <2>1. PICK i \in Used(t) : b = t.breakpoints[i].addr
    OBVIOUS
  <2>2. b = a <=> i = s
    BY <2>1 DEF DistinctAddrs
  <2> QED BY <1>2, <1>5, <2>1, <2>2
<1>7. UserOf(u) = [b \in D |-> UserOf(u)[b]]
  BY <1>4 DEF UserOf
<1>8. [UserOf(t) EXCEPT ![a] = flag] = [b \in D |-> IF b = a THEN flag ELSE UserOf(t)[b]]
  BY <1>4
<1> HIDE DEF D, a
<1>9. UserOf(u) = [UserOf(t) EXCEPT ![a] = flag]
  BY <1>6, <1>7, <1>8
<1> QED BY <1>4, <1>9 DEF a, SwitchedIn

\* A slot appended adds a breakpoint that is enabled (breakpoint.c:139-158).
LEMMA AppendUser ==
  ASSUME NEW t \in Table, DistinctAddrs(t), NEW a \in Addr, Matches(t, a) = {},
         t.breakpoint_count # MAX_BREAKPOINTS
  PROVE  UserOf(Append(t, a)) = AddedTo(UserOf(t), a)
<1> DEFINE n == t.breakpoint_count
           u == Append(t, a)
           D == DOMAIN UserOf(t)
<1>1. n \in Slot /\ n \notin Used(t) /\ Used(u) = Used(t) \cup {n}
  BY Constants DEF Table, Used, Append
<1>2. \A i \in Used(t) : u.breakpoints[i] = t.breakpoints[i]
                      /\ t.breakpoints[i].is_enabled_log \in BOOLEAN
                      /\ t.breakpoints[i].addr # a
  BY <1>1 DEF Append, Table, Used, Breakpoint, Matches
<1>3. u.breakpoints[n].addr = a /\ u.breakpoints[n].is_enabled_log = TRUE
  BY <1>1 DEF Append, Table, Breakpoint
<1> HIDE DEF u, n
<1>4. DistinctAddrs(u)
  BY <1>1, <1>2, <1>3 DEF DistinctAddrs
<1>5. D = {t.breakpoints[i].addr : i \in Used(t)} /\ DOMAIN UserOf(u) = D \cup {a}
  <2>1. D = {t.breakpoints[i].addr : i \in Used(t)}
    BY UserFacts
  <2>2. DOMAIN UserOf(u) = {u.breakpoints[i].addr : i \in Used(u)}
    BY <1>4, UserFacts
  <2> QED BY <1>1, <1>2, <1>3, <2>1, <2>2
<1>6. UserOf(u)[a] = TRUE
  BY <1>1, <1>3, <1>4, UserFacts
<1>7. \A b \in D : b # a /\ UserOf(u)[b] = UserOf(t)[b]
  <2> TAKE b \in D
  <2>1. PICK i \in Used(t) : b = t.breakpoints[i].addr
    BY <1>5
  <2>2. UserOf(t)[b] = t.breakpoints[i].is_enabled_log
    BY <1>2, <2>1, UserFacts
  <2>3. UserOf(u)[b] = u.breakpoints[i].is_enabled_log
    <3>1. i \in Used(u) /\ u.breakpoints[i].addr = b /\ u.breakpoints[i].is_enabled_log \in BOOLEAN
      BY <1>1, <1>2, <2>1
    <3> QED BY <1>4, <3>1, UserAt
  <2> QED BY <1>2, <2>1, <2>2, <2>3
<1>8. UserOf(u) = [b \in D \cup {a} |-> UserOf(u)[b]]
  BY <1>5 DEF UserOf
<1>9. \A b \in D \cup {a} : UserOf(u)[b] = IF b = a THEN TRUE ELSE UserOf(t)[b]
  BY <1>6, <1>7
<1> HIDE DEF D
<1>10. UserOf(u) = [b \in D \cup {a} |-> IF b = a THEN TRUE ELSE UserOf(t)[b]]
  BY <1>8, <1>9
<1> QED BY <1>10 DEF D, u, AddedTo

\* A slot dropped, whose place the last one takes, removes the breakpoint at its
\* address and no other (breakpoint.c:178-190).
LEMMA DropUser ==
  ASSUME NEW t \in Table, DistinctAddrs(t), NEW s \in Used(t)
  PROVE  UserOf(DropSlot(t, s)) = DroppedFrom(UserOf(t), t.breakpoints[s].addr)
<1> DEFINE n == t.breakpoint_count - 1
           u == DropSlot(t, s)
           a == t.breakpoints[s].addr
           D == DOMAIN UserOf(t)
           From(i) == IF i = s THEN n ELSE i
<1>1. n \in Slot /\ n \in Used(t) /\ Used(u) = Used(t) \ {n}
  BY Constants DEF Table, Used, DropSlot
<1>2. \A i \in Used(u) : From(i) \in Used(t) \ {s} /\ u.breakpoints[i] = t.breakpoints[From(i)]
  <2> TAKE i \in Used(u)
  <2>1. i \in Used(t) /\ i # n /\ s \in Slot
    BY <1>1 DEF Used
  <2>2. n # 0
    BY <2>1, Constants DEF Used
  <2>3. u.breakpoints = [t.breakpoints EXCEPT ![s] = t.breakpoints[n]]
    BY <2>2 DEF DropSlot
  <2> HIDE DEF u, n
  <2>4. u.breakpoints[i] = t.breakpoints[From(i)]
    BY <2>1, <2>3 DEF Used, Table
  <2>5. From(i) \in Used(t) \ {s}
    BY <1>1, <2>1
  <2> QED BY <2>4, <2>5
<1>3. \A j \in Used(t) \ {s} : \E i \in Used(u) : From(i) = j
  BY <1>1
<1> HIDE DEF u, n
<1>4. \A i, k \in Used(u) : From(i) = From(k) => i = k
  BY <1>1
<1> HIDE DEF From
<1>5. DistinctAddrs(u)
  BY <1>2, <1>4 DEF DistinctAddrs
<1>6. \A i \in Used(t) : t.breakpoints[i].is_enabled_log \in BOOLEAN
  BY DEF Table, Used, Breakpoint
<1>7. D = {t.breakpoints[i].addr : i \in Used(t)}
      /\ DOMAIN UserOf(u) = {u.breakpoints[i].addr : i \in Used(u)}
  BY <1>5, UserFacts
<1>8. DOMAIN UserOf(u) = D \ {a}
  <2>1. \A b \in DOMAIN UserOf(u) : b \in D \ {a}
    BY <1>2, <1>7 DEF DistinctAddrs
  <2>2. \A b \in D \ {a} : b \in DOMAIN UserOf(u)
    BY <1>2, <1>3, <1>7
  <2> QED BY <2>1, <2>2
<1>9. \A b \in D \ {a} : UserOf(u)[b] = UserOf(t)[b]
  <2> TAKE b \in D \ {a}
  <2>1. PICK i \in Used(u) : b = u.breakpoints[i].addr
    BY <1>7, <1>8
  <2>2. UserOf(u)[b] = u.breakpoints[i].is_enabled_log
    BY <1>2, <1>5, <1>6, <2>1, UserFacts
  <2>3. UserOf(t)[b] = t.breakpoints[From(i)].is_enabled_log
    <3>1. From(i) \in Used(t) /\ u.breakpoints[i] = t.breakpoints[From(i)]
      BY <1>2
    <3>2. t.breakpoints[From(i)].addr = b
      BY <2>1, <3>1
    <3> QED BY <1>6, <3>1, <3>2, UserAt
  <2> QED BY <1>2, <2>1, <2>2, <2>3
<1>10. UserOf(u) = [b \in D \ {a} |-> UserOf(u)[b]]
  BY <1>8 DEF UserOf
<1> HIDE DEF D, a
<1>11. UserOf(u) = [b \in D \ {a} |-> UserOf(t)[b]]
  BY <1>9, <1>10
<1> QED BY <1>11 DEF D, a, u, DroppedFrom
\* sylvan_breakpoint_enable_ptr and disable_ptr switch the breakpoint of the slot,
\* whether its 0xCC goes in or out or not (breakpoint.c:85-96, 112-121).
LEMMA SlotSwitched ==
  ASSUME NEW t \in Table, DistinctAddrs(t), NEW m, NEW active, NEW i \in Used(t),
         NEW a, a = t.breakpoints[i].addr
  PROVE  /\ a \in DOMAIN UserOf(t)
         /\ UserOf(sylvan_breakpoint_enable_ptr(t, m, active, i).table) = SwitchedIn(UserOf(t), a, TRUE)
         /\ UserOf(sylvan_breakpoint_disable_ptr(t, m, active, i).table) = SwitchedIn(UserOf(t), a, FALSE)
<1>1. \A flag \in BOOLEAN : Logged(WithLog(t, i, flag), t, i, flag)
                         /\ WithLog(t, i, flag).breakpoints \in [Slot -> Breakpoint]
  BY DEF WithLog, Logged, Table, Breakpoint, Used
<1>2. \A flag \in BOOLEAN : UserOf(WithLog(t, i, flag)) = SwitchedIn(UserOf(t), a, flag)
  BY <1>1, LoggedUser
<1>3. a \in DOMAIN UserOf(t)
  BY UserFacts
<1>4. \A flag \in BOOLEAN :
        /\ UserOf(Insert(WithLog(t, i, flag), m, {i}).table) = UserOf(WithLog(t, i, flag))
        /\ UserOf(Remove(WithLog(t, i, flag), m, {i}).table) = UserOf(WithLog(t, i, flag))
  BY <1>1, InsertRemoveSame, SameUserOf
<1>5. UserOf(sylvan_breakpoint_enable_ptr(t, m, active, i).table) = UserOf(WithLog(t, i, TRUE))
  BY <1>4 DEF sylvan_breakpoint_enable_ptr, sylvan_breakpoint_create_phybp, Outcome
<1>6. UserOf(sylvan_breakpoint_disable_ptr(t, m, active, i).table) = UserOf(WithLog(t, i, FALSE))
  BY <1>4 DEF sylvan_breakpoint_disable_ptr, sylvan_breakpoint_remove_phybp, Outcome
<1> QED BY <1>2, <1>3, <1>5, <1>6

\* Inserting, removing and resetting the 0xCC of all breakpoints is invisible (breakpoint.c:205-246).
LEMMA AllSame ==
  ASSUME NEW t \in Table, NEW m
  PROVE  /\ UserOf(sylvan_breakpoint_unsetall_phybp(t, m).table) = UserOf(t)
         /\ UserOf(sylvan_breakpoint_reset_phybp(t)) = UserOf(t)
         /\ UserOf(sylvan_breakpoint_setall_phybp(sylvan_breakpoint_reset_phybp(t), m).table) = UserOf(t)
<1> DEFINE u == sylvan_breakpoint_reset_phybp(t)
<1>1. SameUser(u, t) /\ u.breakpoints \in [Slot -> Breakpoint] /\ t.breakpoints \in [Slot -> Breakpoint]
  BY DEF sylvan_breakpoint_reset_phybp, SameUser, Table, Breakpoint
<1> HIDE DEF u
<1>2. /\ UserOf(Remove(t, m, Used(t)).table) = UserOf(t)
      /\ UserOf(Insert(u, m, Used(u)).table) = UserOf(u)
      /\ UserOf(u) = UserOf(t)
  BY <1>1, InsertRemoveSame, SameUserOf
<1> QED BY <1>2 DEF u, sylvan_breakpoint_unsetall_phybp, sylvan_breakpoint_setall_phybp

-----------------------------------------------------------------------------
\* The session's state as DebugSession sees it.

TargetOf(i) == IF ActiveInf(i) THEN i.pid ELSE 0
Blocked(d) == d.at \in {"rearm", "wait"}

\* The refinement mapping, of a state and of the next one.
LEMMA Mapped ==
  /\ UserBreakpoints = UserOf(table) /\ UserBreakpoints' = UserOf(table')
  /\ (IF isactive THEN inf.pid ELSE 0) = TargetOf(inf)
  /\ (IF isactive THEN inf.pid ELSE 0)' = TargetOf(inf')
  /\ Waiting = Blocked(dbg) /\ Waiting' = Blocked(dbg')
  /\ ~Blocked(Prompt)
BY DEF UserBreakpoints, UserOf, TargetOf, isactive, ActiveInf, Waiting, Blocked, Prompt, Matches, Used

\* A step that changes neither the user's breakpoints nor the process nor whether the
\* call waits is invisible.
LEMMA Invisible ==
  ASSUME UserOf(table') = UserOf(table), TargetOf(inf') = TargetOf(inf), Blocked(dbg') = Blocked(dbg)
  PROVE  UNCHANGED Session!vars
BY Mapped DEF Session!vars

\* The calls of breakpoint.h, at the prompt.
LEMMA UserStep ==
  ASSUME TypeOK, ~Blocked(dbg), ~Blocked(dbg'), TargetOf(inf') = TargetOf(inf),
         NEW a, UserMoves(table', table, a)
  PROVE  [Session!Next]_(Session!vars)
<1>1. ~Waiting /\ Waiting' = Waiting
      /\ (IF isactive THEN inf.pid ELSE 0)' = (IF isactive THEN inf.pid ELSE 0)
      /\ Blocked(dbg') = Blocked(dbg)
  <2>1. Blocked(dbg') = Blocked(dbg)
    BY DEF Blocked
  <2> QED BY <2>1, Mapped
<1>2. DOMAIN UserOf(table) \subseteq Addr
  BY DEF TypeOK, Table, Breakpoint, Used, UserOf
<1>3. CASE UserOf(table') = UserOf(table)
  BY <1>1, <1>3, Invisible
<1>4. CASE a \in DOMAIN UserOf(table) /\ \E on \in BOOLEAN : UserOf(table') = SwitchedIn(UserOf(table), a, on)
  <2>1. \E on \in BOOLEAN : Session!Switch(a, on)
    BY <1>1, <1>4, Mapped DEF Session!Switch, Session!Switched, SwitchedIn
  <2> QED BY <1>2, <1>4, <2>1 DEF Session!Next
<1>5. CASE a \in DOMAIN UserOf(table) /\ UserOf(table') = DroppedFrom(UserOf(table), a)
  <2>1. Session!Delete(a)
    BY <1>1, <1>5, Mapped DEF Session!Delete, Session!Without, DroppedFrom
  <2> QED BY <1>2, <1>5, <2>1 DEF Session!Next
<1>6. CASE a \in Addr \ DOMAIN UserOf(table) /\ UserOf(table') = AddedTo(UserOf(table), a)
  <2>1. Session!Set(a)
    BY <1>1, <1>6, Mapped DEF Session!Set, Session!With, AddedTo
  <2> QED BY <1>6, <2>1 DEF Session!Next
<1> QED BY <1>3, <1>4, <1>5, <1>6 DEF UserMoves

\* Losing the process, replacing it or taking one changes no breakpoint.
LEMMA TargetStep ==
  ASSUME TypeOK, ~Blocked(dbg), UserOf(table') = UserOf(table), Blocked(dbg') \in BOOLEAN,
         \/ TargetOf(inf') \in {0, TargetOf(inf)} /\ ~Blocked(dbg')
         \/ TargetOf(inf') \in Pid
  PROVE  [Session!Next]_(Session!vars)
<1>1. CASE TargetOf(inf') = TargetOf(inf) /\ ~Blocked(dbg')
  <2>1. Blocked(dbg') = Blocked(dbg)
    BY <1>1 DEF Blocked
  <2> QED BY <1>1, <2>1, Invisible
<1>2. CASE TargetOf(inf') = 0 /\ ~Blocked(dbg')
  <2>1. Session!Lose
    <3>1. ~Waiting /\ Waiting' = Waiting /\ UserBreakpoints' = UserBreakpoints
      <4>1. Blocked(dbg') = Blocked(dbg)
        BY <1>2 DEF Blocked
      <4> QED BY <4>1, Mapped
    <3>2. (IF isactive THEN inf.pid ELSE 0)' = 0
      BY <1>2, Mapped
    <3> QED BY <3>1, <3>2 DEF Session!Lose, Session!NoTarget
  <2> QED BY <2>1 DEF Session!Next
<1>3. CASE TargetOf(inf') \in Pid
  <2>1. Session!Take(TargetOf(inf'))
    BY Mapped DEF Session!Take
  <2> QED BY <1>3, <2>1 DEF Session!Next
<1> QED BY <1>1, <1>2, <1>3
-----------------------------------------------------------------------------
\* The library's calls.

\* Between two calls no call waits, and a call keeps the table's addresses apart.
LEMMA AtPromptFacts ==
  ASSUME IInv, dbg = Prompt
  PROVE  /\ TypeOK /\ table \in Table /\ TableOK(table) /\ DistinctAddrs(table)
         /\ ~Blocked(dbg)
         /\ Good(table, MemoryOf(proc, inf.pid))
         /\ isactive \in BOOLEAN /\ (~isactive => Clean(MemoryOf(proc, inf.pid)))
<1>1. TypeOK /\ table \in Table /\ TableOK(table) /\ DistinctAddrs(table)
  BY DEF IInv, OgByteIsProgram, TableOK, TypeOK
<1>2. ~Blocked(dbg)
  BY DEF Prompt, Blocked
<1>3. Good(table, MemoryOf(proc, inf.pid)) /\ (~ActiveInf(inf) => Clean(MemoryOf(proc, inf.pid)))
  BY AtPromptInv, PromptGood
<1> QED BY <1>1, <1>2, <1>3 DEF isactive, ActiveInf

\* A new breakpoint is enabled, in the process or not (breakpoint.c:139-158).
LEMMA SetUser ==
  ASSUME NEW t, NEW m, Good(t, m), NEW active, NEW a \in Addr
  PROVE  UserMoves(sylvan_breakpoint_set(t, m, active, a).table, t, a)
<1> DEFINE u == sylvan_breakpoint_set(t, m, active, a).table
           v == Append(t, a)
           n == t.breakpoint_count
<1>1. t \in Table /\ DistinctAddrs(t)
  BY DEF Good, TableOK
<1>2. CASE n = MAX_BREAKPOINTS \/ Matches(t, a) # {}
  BY <1>2 DEF sylvan_breakpoint_set, Outcome, UserMoves
<1>3. CASE n # MAX_BREAKPOINTS /\ Matches(t, a) = {}
  <2>1. UserOf(v) = AddedTo(UserOf(t), a) /\ a \notin DOMAIN UserOf(t)
    BY <1>1, <1>3, AppendUser, UserFacts
  <2>2. v \in Table /\ DistinctAddrs(v) /\ n \in Used(v)
    BY <1>3, AppendGood DEF Good, TableOK
  <2>3. v.breakpoints[n].addr = a
    BY <1>1, <1>3, Constants DEF Append, Table, Breakpoint, Slot
  <2>4. u = v \/ u = sylvan_breakpoint_enable_ptr(v, m, active, n).table
    BY <1>3 DEF sylvan_breakpoint_set, Outcome
  <2> HIDE DEF u, v, n
  <2>5. UserOf(sylvan_breakpoint_enable_ptr(v, m, active, n).table) = SwitchedIn(UserOf(v), a, TRUE)
    BY <2>2, <2>3, SlotSwitched
  <2>6. SwitchedIn(AddedTo(UserOf(t), a), a, TRUE) = AddedTo(UserOf(t), a)
    BY DEF SwitchedIn, AddedTo
  <2>7. UserOf(u) = AddedTo(UserOf(t), a)
    BY <2>1, <2>4, <2>5, <2>6
  <2> QED BY <2>1, <2>7 DEF UserMoves, u
<1> QED BY <1>2, <1>3

\* Removing a breakpoint removes it, or disables it when its 0xCC cannot be taken out
\* (breakpoint.c:163-190).
LEMMA UnsetUser ==
  ASSUME NEW t, NEW m, Good(t, m), NEW active \in BOOLEAN, ~active => Clean(m), NEW a
  PROVE  UserMoves(sylvan_breakpoint_unset(t, m, active, a).table, t, a)
<1> DEFINE u == sylvan_breakpoint_unset(t, m, active, a).table
           i == sylvan_breakpoint_find_by_addr(t, a)
           d == sylvan_breakpoint_disable_ptr(t, m, active, i)
           w == UserOf(t)
<1>1. t \in Table /\ DistinctAddrs(t) /\ TableOK(t)
  BY DEF Good, TableOK
<1>2. CASE Matches(t, a) = {}
  BY <1>2 DEF sylvan_breakpoint_unset, Outcome, UserMoves
<1>3. CASE Matches(t, a) # {}
  <2>1. i \in Used(t) /\ t.breakpoints[i].addr = a
    BY <1>1, <1>3, FindFacts
  <2>2. u = IF d.ret = "OK" THEN DropSlot(d.table, i) ELSE d.table
    BY <1>3 DEF sylvan_breakpoint_unset, Outcome
  <2> HIDE DEF i, u
  <2>3. a \in DOMAIN w /\ UserOf(d.table) = SwitchedIn(w, a, FALSE)
    BY <1>1, <2>1, SlotSwitched
  <2>4. d.table \in Table /\ DistinctAddrs(d.table) /\ i \in Used(d.table) /\ d.table.breakpoints[i].addr = a
    <3>1. /\ Good(d.table, d.mem) /\ d.table.breakpoint_count = t.breakpoint_count
          /\ d.table.breakpoints[i].addr = t.breakpoints[i].addr
      BY <2>1, DisablePtrGood
    <3> QED BY <2>1, <3>1 DEF Good, TableOK, Used
  <2> HIDE DEF d, w
  <2>5. UserOf(DropSlot(d.table, i)) = DroppedFrom(UserOf(d.table), a)
    BY <2>4, DropUser
  <2>6. DroppedFrom(UserOf(d.table), a) = DroppedFrom(w, a)
    BY <2>3 DEF SwitchedIn, DroppedFrom
  <2>7. UserOf(u) = SwitchedIn(w, a, FALSE) \/ UserOf(u) = DroppedFrom(w, a)
    BY <2>2, <2>3, <2>5, <2>6
  <2> QED BY <2>3, <2>7 DEF UserMoves, u, w
<1> QED BY <1>2, <1>3

\* Enabling and disabling by address switch a breakpoint that exists (breakpoint.c:101-134).
LEMMA ToggleUser ==
  ASSUME NEW t, TableOK(t), NEW m, NEW active, NEW a
  PROVE  /\ UserMoves(sylvan_breakpoint_enable(t, m, active, a).table, t, a)
         /\ UserMoves(sylvan_breakpoint_disable(t, m, active, a).table, t, a)
<1> DEFINE i == sylvan_breakpoint_find_by_addr(t, a)
<1>1. CASE Matches(t, a) = {}
  BY <1>1 DEF sylvan_breakpoint_enable, sylvan_breakpoint_disable, Outcome, UserMoves
<1>2. CASE Matches(t, a) # {}
  <2>1. i \in Used(t) /\ t.breakpoints[i].addr = a
    BY <1>2, FindFacts
  <2>2. /\ sylvan_breakpoint_enable(t, m, active, a) = sylvan_breakpoint_enable_ptr(t, m, active, i)
        /\ sylvan_breakpoint_disable(t, m, active, a) = sylvan_breakpoint_disable_ptr(t, m, active, i)
    BY <1>2 DEF sylvan_breakpoint_enable, sylvan_breakpoint_disable
  <2> HIDE DEF i
  <2>3. /\ a \in DOMAIN UserOf(t)
        /\ UserOf(sylvan_breakpoint_enable_ptr(t, m, active, i).table) = SwitchedIn(UserOf(t), a, TRUE)
        /\ UserOf(sylvan_breakpoint_disable_ptr(t, m, active, i).table) = SwitchedIn(UserOf(t), a, FALSE)
    BY <2>1, SlotSwitched DEF TableOK
  <2> QED BY <2>2, <2>3 DEF UserMoves
<1> QED BY <1>1, <1>2

\* A call on breakpoints changes at most one of them, and nothing else the user sees.
LEMMA BreakpointCallStep ==
  ASSUME IInv, NEW a \in Addr,
         BreakpointSet(a) \/ BreakpointUnset(a) \/ BreakpointEnable(a) \/ BreakpointDisable(a)
  PROVE  [Session!Next]_(Session!vars)
<1> DEFINE m == MemoryOf(proc, inf.pid)
<1>1. dbg = Prompt /\ dbg' = dbg /\ inf' = inf
  BY DEF BreakpointSet, BreakpointUnset, BreakpointEnable, BreakpointDisable, AtPrompt, Apply
<1>2. TypeOK /\ ~Blocked(dbg) /\ ~Blocked(dbg') /\ TargetOf(inf') = TargetOf(inf)
  BY <1>1, AtPromptFacts
<1>3. \/ table' = sylvan_breakpoint_set(table, m, isactive, a).table
      \/ table' = sylvan_breakpoint_unset(table, m, isactive, a).table
      \/ table' = sylvan_breakpoint_enable(table, m, isactive, a).table
      \/ table' = sylvan_breakpoint_disable(table, m, isactive, a).table
  BY DEF BreakpointSet, BreakpointUnset, BreakpointEnable, BreakpointDisable, Apply
<1>4. /\ UserMoves(sylvan_breakpoint_set(table, m, isactive, a).table, table, a)
      /\ UserMoves(sylvan_breakpoint_unset(table, m, isactive, a).table, table, a)
      /\ UserMoves(sylvan_breakpoint_enable(table, m, isactive, a).table, table, a)
      /\ UserMoves(sylvan_breakpoint_disable(table, m, isactive, a).table, table, a)
  <2> DEFINE active == isactive
  <2>1. Good(table, m) /\ TableOK(table) /\ active \in BOOLEAN /\ (~active => Clean(m))
    BY <1>1, AtPromptFacts
  <2> HIDE DEF m, active
  <2>2. /\ UserMoves(sylvan_breakpoint_set(table, m, active, a).table, table, a)
        /\ UserMoves(sylvan_breakpoint_enable(table, m, active, a).table, table, a)
        /\ UserMoves(sylvan_breakpoint_disable(table, m, active, a).table, table, a)
    BY <2>1, SetUser, ToggleUser
  <2>3. UserMoves(sylvan_breakpoint_unset(table, m, active, a).table, table, a)
    BY <2>1, UnsetUser
  <2> QED BY <2>2, <2>3 DEF active
<1> HIDE DEF m
<1>5. UserMoves(table', table, a)
  BY <1>3, <1>4
<1> QED BY <1>2, <1>5, UserStep
\* Letting go of the tracee keeps the user's breakpoints; when it fails the inferior
\* keeps its process (inferior.c:169-188, 317-343).
LEMMA LeaveSame ==
  ASSUME IInv, dbg = Prompt
  PROVE  LET d == sylvan_terminate_or_detach
         IN  /\ d.table \in Table
             /\ UserOf(d.table) = UserOf(table)
             /\ d.ok => TargetOf(d.inf) = 0
             /\ ~d.ok => d.inf = inf
<1> DEFINE d == sylvan_terminate_or_detach
           r == sylvan_breakpoint_unsetall_phybp(table, Tracee.mem)
<1>1. PromptInv(d.inf, d.table, d.proc) /\ (d.ok => ~ActiveInf(d.inf))
  BY LeaveGood
<1>2. d.table \in Table
  BY <1>1 DEF PromptInv, TableOK
<1>3. d.table = table \/ d.table = r.table
  BY DEF sylvan_terminate_or_detach, sylvan_kill, DetachTracee, Left
<1>4. UserOf(r.table) = UserOf(table)
  BY AllSame, AtPromptFacts
<1>5. ~d.ok => d.inf = inf
  BY DEF sylvan_terminate_or_detach, sylvan_kill, DetachTracee, Left
<1>6. d.ok => TargetOf(d.inf) = 0
  BY <1>1 DEF TargetOf
<1> HIDE DEF d, r
<1>7. UserOf(d.table) = UserOf(table)
  BY <1>3, <1>4
<1> QED BY <1>2, <1>5, <1>6, <1>7 DEF d

\* sylvan_kill leaves the session without a process.
LEMMA KillSame ==
  ASSUME IInv, dbg = Prompt
  PROVE  TargetOf(sylvan_kill.inf) = 0
BY KillGood DEF TargetOf

\* Destroying the inferior drops its breakpoints and its process; a destroy that fails
\* changes nothing the user sees (command_handler.c:431-450).
LEMMA ReplaceStep ==
  ASSUME IInv, ReplaceInferior
  PROVE  [Session!Next]_(Session!vars)
<1> DEFINE d == sylvan_terminate_or_detach
<1>1. dbg = Prompt /\ dbg' = dbg /\ ~Blocked(dbg) /\ ~Blocked(dbg') /\ TypeOK
  BY AtPromptFacts DEF ReplaceInferior, AtPrompt
<1>2. UserOf(d.table) = UserOf(table) /\ (~d.ok => d.inf = inf)
  BY <1>1, LeaveSame
<1>3. /\ d.ok => inf' = FreshInferior /\ table' = EmptyTable
      /\ ~d.ok => inf' = d.inf /\ table' = d.table
  BY DEF ReplaceInferior
<1> HIDE DEF d
<1>4. CASE d.ok
  <2>1. TargetOf(inf') = 0 /\ UserOf(table') = [b \in {} |-> FALSE]
    BY <1>3, <1>4, FreshRecords, EmptyUser DEF TargetOf
  <2>2. (IF isactive THEN inf.pid ELSE 0)' = 0 /\ UserBreakpoints' = Session!NoBreakpoints
    BY <2>1, Mapped DEF Session!NoBreakpoints
  <2>3. ~Waiting /\ Waiting' = Waiting
    <3>1. Blocked(dbg') = Blocked(dbg)
      BY <1>1
    <3> QED BY <1>1, <3>1, Mapped
  <2>4. Session!NewInferior
    BY <2>2, <2>3 DEF Session!NewInferior, Session!NoTarget
  <2> QED BY <2>4 DEF Session!Next
<1>5. CASE ~d.ok
  <2>1. UserOf(table') = UserOf(table) /\ TargetOf(inf') = TargetOf(inf)
    BY <1>2, <1>3, <1>5
  <2> QED BY <1>1, <2>1, TargetStep DEF Blocked
<1> QED BY <1>4, <1>5

\* attach replaces the process, loses it, or changes nothing the user sees (inferior.c:247-309).
LEMMA AttachStep ==
  ASSUME IInv, NEW p \in Pid, Attach(p)
  PROVE  [Session!Next]_(Session!vars)
<1> DEFINE d == sylvan_terminate_or_detach
           s == sylvan_breakpoint_setall_phybp(sylvan_breakpoint_reset_phybp(d.table), d.proc[p].mem)
<1>1. dbg = Prompt /\ dbg' = dbg
  BY DEF Attach, AttachDenied, AttachFindsDead, sylvan_attach, AttachWithoutSymbols, AtPrompt, vars
<1>2. ~Blocked(dbg) /\ ~Blocked(dbg') /\ TypeOK
  BY <1>1, AtPromptFacts
<1>3. /\ d.table \in Table /\ UserOf(d.table) = UserOf(table)
      /\ d.ok => TargetOf(d.inf) = 0
      /\ ~d.ok => d.inf = inf
  BY <1>1, LeaveSame
<1>4. d.inf \in Inferior
  BY <1>1, LeaveGood DEF PromptInv
<1>5. UserOf(s.table) = UserOf(table)
  <2> HIDE DEF d
  <2> QED BY <1>3, AllSame
<1>6. \/ inf' = inf /\ table' = table
      \/ inf' = d.inf /\ table' = d.table
      \/ /\ table' = d.table \/ table' = s.table
         /\ \E path : inf' = [d.inf EXCEPT !.pid = p, !.status = "STOPPED", !.is_attached = TRUE,
                                           !.realpath = path]
  BY DEF Attach, AttachDenied, AttachFindsDead, sylvan_attach, AttachWithoutSymbols, vars
<1> HIDE DEF d, s
<1>7. UserOf(table') = UserOf(table)
  BY <1>3, <1>5, <1>6
<1>8. TargetOf(inf') \in {0, TargetOf(inf)} \/ TargetOf(inf') \in Pid
  <2>1. CASE inf' = inf \/ inf' = d.inf
    BY <1>3, <2>1
  <2>2. CASE \E path : inf' = [d.inf EXCEPT !.pid = p, !.status = "STOPPED", !.is_attached = TRUE,
                                            !.realpath = path]
    <3>1. inf'.pid = p /\ inf'.status = "STOPPED"
      BY <1>4, <2>2 DEF Inferior
    <3> QED BY <3>1 DEF TargetOf, ActiveInf
  <2> QED BY <1>6, <2>1, <2>2
<1> QED BY <1>2, <1>7, <1>8, TargetStep DEF Blocked

\* run replaces the process or loses it, and then waits or not (inferior.c:412-508).
LEMMA RunStep ==
  ASSUME IInv, \/ RunFails
               \/ \E p \in Pid : RunReportsError(p) \/ RunAborts(p) \/ sylvan_run(p)
  PROVE  [Session!Next]_(Session!vars)
<1>1. dbg = Prompt
  BY DEF RunFails, RunReportsError, RunAborts, sylvan_run, AtPrompt
<1>2. ~Blocked(dbg) /\ TypeOK /\ table \in Table /\ ~Blocked(Prompt) /\ Blocked(dbg') \in BOOLEAN
  BY <1>1, AtPromptFacts DEF Blocked
<1>3. TargetOf(sylvan_kill.inf) = 0 /\ sylvan_kill.inf \in Inferior
  BY <1>1, KillSame, KillGood DEF PromptInv
<1>4. CASE RunFails \/ \E p \in Pid : RunReportsError(p)
  <2>1. inf' = sylvan_kill.inf /\ table' = table /\ dbg' = dbg
    BY <1>4 DEF RunFails, RunReportsError
  <2> QED BY <1>2, <1>3, <2>1, TargetStep
<1>5. CASE \E p \in Pid : RunAborts(p)
  <2>1. PICK p \in Pid : RunAborts(p)
    BY <1>5
  <2>2. inf'.status = "TERMINATED" /\ dbg'.at = "crashed" /\ table' = sylvan_breakpoint_reset_phybp(table)
    BY <1>3, <2>1 DEF RunAborts, Inferior, Prompt
  <2>3. TargetOf(inf') = 0 /\ ~Blocked(dbg')
    BY <2>2 DEF TargetOf, ActiveInf, Blocked
  <2>4. UserOf(table') = UserOf(table)
    BY <1>2, <2>2, AllSame
  <2> QED BY <1>2, <2>3, <2>4, TargetStep
<1>6. CASE \E p \in Pid : sylvan_run(p)
  <2>1. PICK p \in Pid : sylvan_run(p)
    BY <1>6
  <2>2. inf'.pid = p /\ inf'.status = "STOPPED"
    BY <1>3, <2>1 DEF sylvan_run, Inferior
  <2>3. table' = sylvan_breakpoint_setall_phybp(sylvan_breakpoint_reset_phybp(table), Image[inf.realpath]).table
    BY <2>1 DEF sylvan_run
  <2>4. UserOf(table') = UserOf(table)
    BY <1>2, <2>3, AllSame
  <2>5. TargetOf(inf') \in Pid
    BY <2>2 DEF TargetOf, ActiveInf
  <2> QED BY <1>2, <2>4, <2>5, TargetStep
<1> QED BY <1>4, <1>5, <1>6
\* Noticing the death of the process loses it (inferior.c:30-107).
LEMMA ReapLoses ==
  ASSUME IInv, ReapTracee
  PROVE  TargetOf(inf') = 0
BY Forgotten DEF ReapTracee, TargetOf, IInv, TypeOK

\* continue and stepi resume the process, and may switch off the breakpoint it stands on
\* (inferior.c:513-620).
LEMMA ResumeStep ==
  ASSUME IInv, NEW cmd \in {"continue", "stepinst"},
         ResumeFindsDead(cmd) \/ StepOffBreakpoint(cmd) \/ ResumeDirectly(cmd)
  PROVE  [Session!Next]_(Session!vars)
<1>1. dbg = Prompt
  BY DEF ResumeFindsDead, StepOffBreakpoint, ResumeDirectly, AtPrompt
<1>2. /\ ~Blocked(dbg) /\ TypeOK /\ table \in Table /\ DistinctAddrs(table)
      /\ Blocked(dbg') \in BOOLEAN /\ Blocked(WaitIn(cmd)) /\ \A i : Blocked(RearmIn(cmd, i))
  BY <1>1, AtPromptFacts DEF Blocked, WaitIn, RearmIn
<1>3. CASE ResumeFindsDead(cmd)
  <2>1. TargetOf(inf') = 0 /\ table' = table /\ dbg' = dbg
    BY <1>3, ReapLoses DEF ResumeFindsDead
  <2> QED BY <1>2, <2>1, TargetStep
<1>4. CASE StepOffBreakpoint(cmd)
  <2>1. inf' = inf /\ isactive /\ inf.pid # 0
    BY <1>4 DEF StepOffBreakpoint
  <2>2. PICK i \in JustHit :
          /\ table' = sylvan_breakpoint_disable_ptr(table, Tracee.mem, isactive, i).table
          /\ dbg' = RearmIn(cmd, i) \/ dbg' = dbg
    BY <1>4 DEF StepOffBreakpoint
  <2>3. i \in Used(table)
    BY DEF JustHit, Matches
  <2> DEFINE a == table.breakpoints[i].addr
  <2>4. a \in DOMAIN UserOf(table) /\ UserOf(table') = SwitchedIn(UserOf(table), a, FALSE)
    BY <1>2, <2>2, <2>3, SlotSwitched
  <2> HIDE DEF a
  <2>5. TargetOf(inf') = TargetOf(inf) /\ TargetOf(inf) # 0
    BY <2>1 DEF TargetOf, isactive, ActiveInf
  <2>6. CASE dbg' = RearmIn(cmd, i)
    <3>1. ~Waiting /\ Waiting'
      BY <1>2, <2>6, Mapped
    <3>2. UserBreakpoints' \in
            {UserBreakpoints} \cup {Session!Switched(b, FALSE) : b \in DOMAIN UserBreakpoints}
      BY <2>4, Mapped DEF SwitchedIn, Session!Switched
    <3>3. /\ (IF isactive THEN inf.pid ELSE 0)' = (IF isactive THEN inf.pid ELSE 0)
          /\ (IF isactive THEN inf.pid ELSE 0) # 0
      BY <2>5, Mapped
    <3>4. Session!Resume
      BY <3>1, <3>2, <3>3 DEF Session!Resume, Session!NoTarget
    <3> QED BY <3>4 DEF Session!Next
  <2>7. CASE dbg' = dbg
    BY <1>2, <2>4, <2>5, <2>7, UserStep DEF UserMoves
  <2> QED BY <2>2, <2>6, <2>7
<1>5. CASE ResumeDirectly(cmd)
  <2>1. inf' = inf /\ isactive /\ inf.pid # 0 /\ table' = table /\ dbg' = WaitIn(cmd)
    BY <1>5 DEF ResumeDirectly, Resume
  <2>2. TargetOf(inf') = TargetOf(inf) /\ TargetOf(inf) # 0
    BY <2>1 DEF TargetOf, isactive, ActiveInf
  <2>3. ~Waiting /\ Waiting' /\ UserBreakpoints' = UserBreakpoints
    BY <1>2, <2>1, Mapped
  <2>4. /\ (IF isactive THEN inf.pid ELSE 0)' = (IF isactive THEN inf.pid ELSE 0)
        /\ (IF isactive THEN inf.pid ELSE 0) # 0
    BY <2>2, Mapped
  <2>5. Session!Resume
    BY <2>3, <2>4 DEF Session!Resume, Session!NoTarget
  <2> QED BY <2>5 DEF Session!Next
<1> QED BY <1>3, <1>4, <1>5

\* A wait that ends returns, with the process or without it, or puts back the breakpoint
\* that was stepped off (inferior.c:30-107, 527-545).
LEMMA WaitStep ==
  ASSUME IInv, WaitSteps
  PROVE  [Session!Next]_(Session!vars)
<1>1. Waiting /\ table \in Table /\ DistinctAddrs(table) /\ (dbg.at = "rearm" => dbg.slot \in Used(table))
  BY DEF WaitSteps, WaitReturns, WaitFindsDead, Rearm, Waiting, IInv, OgByteIsProgram, TypeOK, QuietAtPrompt
<1>2. CASE WaitReturns \/ WaitFindsDead
  <2>1. table' = table /\ dbg' = Prompt /\ (inf' = inf \/ ReapTracee)
    BY <1>2 DEF WaitReturns, WaitFindsDead
  <2>2. TargetOf(inf') \in {TargetOf(inf), 0}
    BY <2>1, ReapLoses
  <2>3. UserBreakpoints' = UserBreakpoints
    BY <2>1, Mapped
  <2>4. ~Waiting'
    BY <2>1, Mapped
  <2>5. Waiting' = FALSE
    BY <2>4 DEF Waiting
  <2>6. (IF isactive THEN inf.pid ELSE 0)' \in {(IF isactive THEN inf.pid ELSE 0), 0}
    BY <2>2, Mapped
  <2>7. Session!Return
    BY <1>1, <2>3, <2>5, <2>6 DEF Session!Return, Session!NoTarget
  <2> QED BY <2>7 DEF Session!Next
<1>3. CASE Rearm
  <2> DEFINE i == dbg.slot
             a == table.breakpoints[i].addr
  <2>1. table' = sylvan_breakpoint_enable_ptr(table, Tracee.mem, isactive, i).table
        /\ inf' = inf /\ i \in Used(table)
    BY <1>1, <1>3 DEF Rearm
  <2>2. a \in DOMAIN UserOf(table) /\ UserOf(table') = SwitchedIn(UserOf(table), a, TRUE)
    <3>1. table \in Table /\ DistinctAddrs(table) /\ i \in Used(table)
      BY <1>1, <2>1
    <3> HIDE DEF i
    <3>2. /\ a \in DOMAIN UserOf(table)
          /\ UserOf(sylvan_breakpoint_enable_ptr(table, Tracee.mem, isactive, i).table)
               = SwitchedIn(UserOf(table), a, TRUE)
      BY <3>1, SlotSwitched
    <3> QED BY <2>1, <3>2
  <2> HIDE DEF a, i
  <2>3. \E b \in DOMAIN UserBreakpoints : UserBreakpoints' = Session!Switched(b, TRUE)
    BY <2>2, Mapped DEF SwitchedIn, Session!Switched
  <2>4. (IF isactive THEN inf.pid ELSE 0)' = (IF isactive THEN inf.pid ELSE 0)
    BY <2>1, Mapped
  <2>5. Waiting' \in BOOLEAN
    BY DEF Waiting
  <2>6. Session!Rearm
    BY <1>1, <2>3, <2>4, <2>5 DEF Session!Rearm
  <2> QED BY <2>6 DEF Session!Next
<1> QED BY <1>2, <1>3 DEF WaitSteps

\* The executable, the registers and the memory are no part of what DebugSession shows,
\* but for the death that a look at the registers notices.
LEMMA DataStep ==
  ASSUME IInv, \/ \E g \in Program \cup {NoPath} : sylvan_set_filepath(g)
               \/ RegsFindDead
               \/ \E r \in Addr : sylvan_set_regs(r)
               \/ \E a \in Addr, b \in Byte : sylvan_set_memory(a, b)
  PROVE  [Session!Next]_(Session!vars)
<1>1. dbg = Prompt /\ dbg' = dbg /\ table' = table
  BY DEF sylvan_set_filepath, RegsFindDead, sylvan_set_regs, sylvan_set_memory, AtPrompt
<1>2. ~Blocked(dbg) /\ TypeOK
  BY <1>1, AtPromptFacts
<1>3. TargetOf(inf') = TargetOf(inf) \/ TargetOf(inf') = 0
  <2>1. CASE RegsFindDead
    BY <2>1, ReapLoses DEF RegsFindDead
  <2>2. CASE \E g \in Program \cup {NoPath} : sylvan_set_filepath(g)
    BY <2>2 DEF sylvan_set_filepath, IInv, TypeOK, Inferior, TargetOf, ActiveInf
  <2>3. CASE \/ \E r \in Addr : sylvan_set_regs(r)
             \/ \E a \in Addr, b \in Byte : sylvan_set_memory(a, b)
    BY <2>3 DEF sylvan_set_regs, sylvan_set_memory
  <2> QED BY <2>1, <2>2, <2>3
<1> QED BY <1>1, <1>2, <1>3, TargetStep DEF Blocked

-----------------------------------------------------------------------------
\* The session.

\* A step that leaves the inferior, its table and its control alone is invisible.
LEMMA StutterStep ==
  ASSUME UNCHANGED <<inf, table, dbg>>
  PROVE  [Session!Next]_(Session!vars)
BY Invisible

\* Every handler of a command makes one step of DebugSession, or none.
LEMMA HandlerStep ==
  ASSUME IInv, Handlers
  PROVE  [Session!Next]_(Session!vars)
<1>1. CASE \E a \in BreakpointAddr : handle_breakpoint_set(a) \/ ByAddress(a)
  BY <1>1, BreakpointCallStep DEF BreakpointAddr, handle_breakpoint_set, ByAddress, Delete, Toggle
<1>2. CASE \E id \in Ids : handle_delete_breakpoint(id) \/ toggle_breakpoint(id)
  <2>1. PICK id \in Ids : Delete(AddrOfId(id)) \/ Toggle(AddrOfId(id))
    BY <1>2 DEF handle_delete_breakpoint, toggle_breakpoint
  <2> DEFINE a == AddrOfId(id)
  <2>2. CASE BreakpointUnset(a) \/ BreakpointEnable(a) \/ BreakpointDisable(a)
    <3> HIDE DEF a
    <3>1. a \in Addr => [Session!Next]_(Session!vars)
      BY <2>2, BreakpointCallStep
    <3>2. a \notin Addr => [Session!Next]_(Session!vars)
      <4> SUFFICES ASSUME a \notin Addr PROVE [Session!Next]_(Session!vars)
        OBVIOUS
      <4>1. \A i \in Used(table) : table.breakpoints[i].addr \in Addr
        BY DEF IInv, TypeOK, Table, Breakpoint, Used
      <4>2. Matches(table, a) = {} /\ TypeOK
        BY <4>1 DEF Matches, IInv
      <4>3. UNCHANGED vars
        BY <2>2, <4>2, NotFoundSteps DEF Delete, Toggle
      <4> QED BY <4>3, StutterStep DEF vars
    <3> QED BY <3>1, <3>2
  <2> QED BY <2>1, <2>2 DEF Delete, Toggle
<1>3. CASE \E g \in Program : handle_file(g)
  BY <1>3, ReplaceStep, DataStep DEF handle_file, Replace
<1>4. CASE \E p \in Pid : handle_attach(p)
  BY <1>4, ReplaceStep, AttachStep DEF handle_attach, Replace
<1>5. CASE handle_add_inferior \/ handle_exit
  BY <1>5, ReplaceStep DEF handle_add_inferior, handle_exit, Replace
<1>6. CASE handle_run
  BY <1>6, RunStep DEF handle_run
<1>7. CASE handle_resume
  BY <1>7, ResumeStep DEF handle_resume
<1>8. CASE handle_set_reg \/ handle_write_memory
  BY <1>8, DataStep DEF handle_set_reg, handle_write_memory
<1> QED BY <1>1, <1>2, <1>3, <1>4, <1>5, <1>6, <1>7, <1>8 DEF Handlers

\* Every step of a session is a step of DebugSession or is invisible in it.
LEMMA SessionStep ==
  ASSUME DInv, [DNext]_dvars
  PROVE  [Session!Next]_(Session!vars)
<1>1. IInv
  BY DEF DInv
<1>2. CASE ArgPath
  BY <1>1, <1>2, StutterStep, DataStep DEF ArgPath, vars
<1>3. CASE ArgPid
  BY <1>1, <1>3, StutterStep, AttachStep DEF ArgPid, vars
<1>4. CASE Handlers
  BY <1>1, <1>4, HandlerStep
<1>5. CASE FileGoesOn
  BY <1>1, <1>5, StutterStep, DataStep DEF FileGoesOn, DInv, vars
<1>6. CASE AttachGoesOn
  BY <1>1, <1>6, AttachStep DEF AttachGoesOn, DInv
<1>7. CASE WaitSteps
  BY <1>1, <1>7, WaitStep
<1>8. CASE UNCHANGED <<inf, table, dbg>>
  BY <1>8, StutterStep
<1> QED BY <1>2, <1>3, <1>4, <1>5, <1>6, <1>7, <1>8 DEF DNext, dvars

\* A session begins as DebugSession does.
LEMMA SessionInit == DInit => Session!Init
<1> SUFFICES ASSUME DInit PROVE Session!Init
  OBVIOUS
<1>1. inf = FreshInferior /\ table = EmptyTable /\ dbg = Prompt
  BY DEF DInit, Init
<1>2. UserBreakpoints = Session!NoBreakpoints
  BY <1>1, EmptyUser, Mapped DEF Session!NoBreakpoints
<1>3. (IF isactive THEN inf.pid ELSE 0) = 0
  BY <1>1 DEF FreshInferior, isactive
<1>4. Waiting = FALSE
  BY <1>1 DEF Prompt, Waiting
<1> QED BY <1>2, <1>3, <1>4 DEF Session!Init, Session!NoTarget

\* What the user of the debugger sees is a DebugSession: breakpoints outlive every process,
\* a command changes at most one of them, and only the end of the inferior drops them,
\* whatever slots move, insertions fail and processes die (command_handler.c, inferior.c,
\* breakpoint.c).
THEOREM DebuggerImplementsSession == DSpec => ImplementsSession
BY SessionInit, SessionStep, SessionInv, PTL DEF DSpec, ImplementsSession, Session!Spec

-----------------------------------------------------------------------------
\* The program the debugger started dies with its inferior.

\* What the library's calls leave of a started program when inf->pid becomes another one.
LEMMA LaunchedCalls ==
  ASSUME IInv, isactive, ~inf.is_attached, inf'.pid # inf.pid,
         \/ ReplaceInferior
         \/ \E p \in Pid : Attach(p)
         \/ RunFails \/ \E p \in Pid : RunReportsError(p) \/ RunAborts(p) \/ sylvan_run(p)
         \/ ReapTracee
  PROVE  proc'[inf.pid].st \in {"none", "zombie"}
<1> DEFINE P0 == inf.pid
           k == [proc EXCEPT ![P0] = NoProcess]
<1>1. P0 \in Pid /\ proc \in [Pid -> Process] /\ inf \in Inferior
  BY DEF IInv, TypeOK, Inferior, PidIsOurs
<1>2. sylvan_terminate_or_detach = sylvan_kill /\ sylvan_kill = Left(NoTracee, table, k, TRUE)
  BY DEF sylvan_terminate_or_detach, sylvan_kill
<1>3. sylvan_terminate_or_detach.proc = k /\ sylvan_kill.proc = k /\ sylvan_kill.inf = NoTracee
      /\ NoTracee \in Inferior
  BY <1>1, <1>2, Forgotten DEF Left
<1>4. k[P0].st = "none" /\ DOMAIN k = Pid
  BY <1>1 DEF NoProcess
<1> HIDE DEF k
<1>5. CASE ReplaceInferior
  BY <1>3, <1>4, <1>5 DEF ReplaceInferior
<1>6. CASE \E p \in Pid : Attach(p)
  <2>1. PICK p \in Pid : Attach(p)
    BY <1>6
  <2>2. \/ proc' = k \/ inf' = inf
        \/ k[p].st = "free" /\ \E P : proc' = [k EXCEPT ![p] = P]
    BY <1>3, <2>1 DEF Attach, AttachDenied, AttachFindsDead, sylvan_attach, AttachWithoutSymbols, vars
  <2> QED BY <1>1, <1>4, <2>2
<1>7. CASE RunFails \/ \E p \in Pid : RunAborts(p)
  BY <1>3, <1>4, <1>7 DEF RunFails, RunAborts
<1>8. CASE \E p \in Pid : RunReportsError(p)
  <2>1. PICK p \in Pid : proc' = [k EXCEPT ![p] = Zombie("exit")]
    BY <1>3, <1>8 DEF RunReportsError
  <2>2. Zombie("exit").st = "zombie"
    BY ProcessRecords DEF Cause
  <2> QED BY <1>1, <1>4, <2>1, <2>2
<1>9. CASE \E p \in Pid : sylvan_run(p)
  <2>1. PICK p \in Pid : sylvan_run(p)
    BY <1>9
  <2>2. inf'.pid = p
    BY <1>3, <2>1 DEF sylvan_run, Inferior
  <2>3. \E P : proc' = [k EXCEPT ![p] = P]
    BY <1>3, <2>1 DEF sylvan_run
  <2> QED BY <1>1, <1>4, <2>2, <2>3
<1>10. CASE ReapTracee
  BY <1>4, <1>10 DEF ReapTracee, k
<1> QED BY <1>5, <1>6, <1>7, <1>8, <1>9, <1>10

\* Of a session's steps, only these calls give the inferior another process, or none.
LEMMA PidChanges ==
  ASSUME DInv, DNext, inf'.pid # inf.pid
  PROVE  \/ ReplaceInferior
         \/ \E p \in Pid : Attach(p)
         \/ RunFails \/ \E p \in Pid : RunReportsError(p) \/ RunAborts(p) \/ sylvan_run(p)
         \/ ReapTracee
<1>1. inf \in Inferior
  BY DEF DInv, IInv, TypeOK
<1>2. inf' # inf /\ \A g : ~sylvan_set_filepath(g)
  BY <1>1 DEF sylvan_set_filepath, Inferior
<1>3. CASE ArgPath \/ ArgPid
  BY <1>2, <1>3 DEF ArgPath, ArgPid, vars
<1>4. CASE FileGoesOn
  BY <1>2, <1>4 DEF FileGoesOn, vars
<1>5. CASE AttachGoesOn
  BY <1>5 DEF AttachGoesOn, DInv
<1>6. CASE WaitSteps
  BY <1>2, <1>6 DEF WaitSteps, WaitReturns, WaitFindsDead, Rearm
<1>7. CASE Handlers
  <2>1. CASE \/ \E a \in BreakpointAddr : handle_breakpoint_set(a) \/ ByAddress(a)
             \/ \E id \in Ids : handle_delete_breakpoint(id) \/ toggle_breakpoint(id)
             \/ handle_write_memory
    BY <1>2, <2>1 DEF handle_breakpoint_set, ByAddress, handle_delete_breakpoint, toggle_breakpoint, Delete,
         Toggle, BreakpointSet, BreakpointUnset, BreakpointEnable, BreakpointDisable, Apply,
         handle_write_memory, sylvan_set_memory
  <2>2. CASE \E g \in Program : handle_file(g)
    BY <1>2, <2>2 DEF handle_file, Replace
  <2>3. CASE \E p \in Pid : handle_attach(p)
    BY <2>3 DEF handle_attach, Replace
  <2>4. CASE handle_add_inferior \/ handle_exit
    BY <2>4 DEF handle_add_inferior, handle_exit, Replace
  <2>5. CASE handle_run
    BY <2>5 DEF handle_run
  <2>6. CASE handle_resume
    BY <1>2, <2>6 DEF handle_resume, ResumeFindsDead, StepOffBreakpoint, ResumeDirectly
  <2>7. CASE handle_set_reg
    BY <1>2, <2>7 DEF handle_set_reg, RegsFindDead, sylvan_set_regs
  <2> QED BY <1>7, <2>1, <2>2, <2>3, <2>4, <2>5, <2>6, <2>7 DEF Handlers
<1> QED BY <1>2, <1>3, <1>4, <1>5, <1>6, <1>7 DEF DNext

\* A program that run started is dead as soon as the inferior has another process or none:
\* it is killed, or it died and was reaped (inferior.c:134-188, 317-343, 412-508).
THEOREM LaunchedProgramDies == DSpec => LaunchedDies
<1>1. DInv /\ [DNext]_dvars =>
        [isactive /\ ~inf.is_attached /\ inf'.pid # inf.pid
           => proc'[inf.pid].st \in {"none", "zombie"}]_dvars
  <2> SUFFICES ASSUME DInv, DNext, isactive, ~inf.is_attached, inf'.pid # inf.pid
               PROVE  proc'[inf.pid].st \in {"none", "zombie"}
    OBVIOUS
  <2>1. IInv
    BY DEF DInv
  <2> QED BY <2>1, PidChanges, LaunchedCalls
<1> QED BY <1>1, SessionInv, PTL DEF DSpec, LaunchedDies
=============================================================================
