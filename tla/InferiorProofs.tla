--------------------------- MODULE InferiorProofs ---------------------------
(***************************************************************************)
(* The safety of Inferior.tla for every set of pids, every machine and     *)
(* every table size.  IInv is inductive.  A call is followed through its   *)
(* intermediate values with PromptInv, which is IInv between two calls,    *)
(* said of any inferior i, table t and processes q.                        *)
(***************************************************************************)
EXTENDS InferiorProperties, BreakpointsProofs

ActiveInf(i) == i.status = "STOPPED"

PromptInv(i, t, q) ==
  /\ i \in Inferior
  /\ TableOK(t)
  /\ q \in [Pid -> Process]
  /\ ActiveInf(i) => i.pid # 0 /\ q[i.pid].st \in {"stopped", "zombie"}
  /\ ~ActiveInf(i) => i.pid = 0
  /\ \A p \in Pid : q[p].st \in Traced => ActiveInf(i) /\ p = i.pid
  /\ \A p \in Pid : ~Clean(q[p].mem) =>
       ActiveInf(i) /\ p = i.pid /\ q[p].st \in Traced /\ Owned(t, q[p].mem)

-----------------------------------------------------------------------------
\* Constants and records.

\* The constants of Machine and Tracee, as the lemmas below need them.
LEMMA MoreConstants ==
  /\ Pid \subseteq Nat \ {0}
  /\ Program \subseteq Nat \ {0}
  /\ Entry \in Addr
  /\ \A g \in Program : Image[g] \in Memory /\ Clean(Image[g])
  /\ NoMemory \in Memory /\ Clean(NoMemory)
<1>1. \A g \in Program : Image[g] \in [Addr -> Byte \cup {PeekFailed}]
  BY MachineAssumption
<1>2. \A g \in Program : Image[g] \in Memory /\ Clean(Image[g])
  BY <1>1, Constants DEF Memory, Cell, Clean
<1>3. NoMemory \in Memory /\ Clean(NoMemory)
  BY Constants DEF NoMemory, Memory, Cell, Clean
<1> QED BY <1>2, <1>3, MachineAssumption, TraceeAssumption DEF NoPath

\* Every process the actions put into proc is a record of the type Process.
LEMMA ProcessRecords ==
  /\ NoProcess \in Process /\ NoProcess.st = "none" /\ Clean(NoProcess.mem)
  /\ \A why \in Cause : /\ Zombie(why) \in Process /\ Zombie(why).st = "zombie"
                        /\ Clean(Zombie(why).mem)
  /\ \A g \in Program, st \in ProcState :
       /\ Loaded(g, st) \in Process /\ Loaded(g, st).st = st /\ Loaded(g, st).mem = Image[g]
       /\ Clean(Loaded(g, st).mem)
<1>1. 0 \in Addr
  BY Constants DEF Addr
<1>2. NoProcess \in Process /\ NoProcess.st = "none" /\ Clean(NoProcess.mem)
  BY <1>1, MoreConstants DEF NoProcess, Process, ProcState, Cause
<1>3. \A why \in Cause : /\ Zombie(why) \in Process /\ Zombie(why).st = "zombie"
                         /\ Clean(Zombie(why).mem)
  BY <1>1, MoreConstants DEF Zombie, NoProcess, Process, ProcState, Cause
<1>4. \A g \in Program, st \in ProcState :
       /\ Loaded(g, st) \in Process /\ Loaded(g, st).st = st /\ Loaded(g, st).mem = Image[g]
       /\ Clean(Loaded(g, st).mem)
  BY MoreConstants DEF Loaded, Process, Cause
<1> QED BY <1>2, <1>3, <1>4

\* The inferior and the table that sylvan_inferior_create leaves, and the control between calls.
LEMMA FreshRecords ==
  /\ FreshInferior \in Inferior /\ ~ActiveInf(FreshInferior) /\ FreshInferior.pid = 0
  /\ TableOK(EmptyTable)
  /\ Prompt \in Control
<1>1. FreshInferior \in Inferior /\ ~ActiveInf(FreshInferior) /\ FreshInferior.pid = 0
  BY DEF FreshInferior, Inferior, Status, ActiveInf
<1>2. EmptyTable \in Table
  BY Constants, MachineAssumption DEF EmptyTable, Table, Breakpoint, Addr
<1>3. Used(EmptyTable) = {}
  BY Constants DEF Used, EmptyTable
<1>4. NoTrapSaved(EmptyTable)
  BY DEF NoTrapSaved, EmptyTable, Trap
<1>5. Prompt \in Control
  BY Constants DEF Prompt, Control
<1> QED BY <1>1, <1>2, <1>3, <1>4, <1>5 DEF TableOK, DistinctAddrs

-----------------------------------------------------------------------------
\* From IInv to PromptInv and back.

\* The invariant as it reads between two calls: a statement about inf, table and proc alone.
LEMMA ToPrompt ==
  ASSUME IInv, dbg.at # "crashed", isactive => Tracee.st \in {"stopped", "zombie"}
  PROVE  PromptInv(inf, table, proc)
BY DEF IInv, TypeOK, PidIsOurs, OneTracee, TrapOwned, OgByteIsProgram, PromptInv, ActiveInf,
       isactive, TableOK, Tracee

\* Between two calls the inferior has no process, a stopped one or a dead one.
LEMMA AtPromptInv ==
  ASSUME IInv, dbg = Prompt
  PROVE  PromptInv(inf, table, proc) /\ (isactive => inf.pid \in Pid)
<1>1. dbg.at # "crashed" /\ ~Waiting
  BY DEF Prompt, Waiting
<1>2. isactive => inf.pid \in Pid
  BY DEF IInv, TypeOK, Inferior, PidIsOurs
<1>3. isactive => Tracee.st \in {"stopped", "zombie"}
  BY <1>1, <1>2 DEF IInv, PidIsOurs, QuietAtPrompt, Moving, Traced, Tracee
<1> QED BY <1>1, <1>2, <1>3, ToPrompt

\* A call that ends at the prompt, in a state that fits it, keeps the invariant.
LEMMA FromPrompt ==
  ASSUME PromptInv(inf, table, proc)', (dbg = Prompt)'
  PROVE  IInv'
<1>1. TypeOK'
  BY FreshRecords DEF TypeOK, PromptInv, TableOK
<1>2. dbg'.at = "prompt" /\ ~Waiting'
  BY DEF Prompt, Waiting
<1>3. PidIsOurs' /\ OneTracee'
  BY DEF PromptInv, PidIsOurs, OneTracee, ActiveInf, isactive, Tracee, Traced
<1>4. QuietAtPrompt'
  <2>1. \A p \in Pid : ~Moving(p)'
    BY DEF PromptInv, Moving, Traced
  <2> QED BY <1>2, <2>1 DEF QuietAtPrompt
<1>5. TrapOwned' /\ OgByteIsProgram'
  BY DEF PromptInv, TrapOwned, OgByteIsProgram, TableOK, ActiveInf, isactive
<1> QED BY <1>1, <1>3, <1>4, <1>5 DEF IInv

-----------------------------------------------------------------------------
\* Changing the tracee of a state between two calls.

\* The table knows every 0xCC of the memory that PEEKTEXT shows.
LEMMA PromptGood ==
  ASSUME NEW i, NEW t, NEW q, PromptInv(i, t, q)
  PROVE  /\ Good(t, MemoryOf(q, i.pid))
         /\ ~ActiveInf(i) => Clean(MemoryOf(q, i.pid))
<1>1. CASE i.pid \in Pid /\ q[i.pid].st = "stopped"
  <2>1. MemoryOf(q, i.pid) = q[i.pid].mem /\ q[i.pid].mem \in Memory
    BY <1>1 DEF MemoryOf, PromptInv, Process
  <2>2. Owned(t, q[i.pid].mem)
    BY <1>1 DEF PromptInv, Clean, Owned
  <2>3. ActiveInf(i)
    BY <1>1 DEF PromptInv, Traced
  <2> QED BY <2>1, <2>2, <2>3 DEF Good, PromptInv
<1>2. CASE ~(i.pid \in Pid /\ q[i.pid].st = "stopped")
  BY <1>2, MoreConstants DEF MemoryOf, Good, PromptInv, Clean, Owned
<1> QED BY <1>1, <1>2

\* A breakpoint operation stores a table and a memory that agree.
LEMMA StoreGood ==
  ASSUME NEW i, NEW t, NEW q, PromptInv(i, t, q), NEW t2, NEW m2, Good(t2, m2)
  PROVE  PromptInv(i, t2, StoreMemory(q, i.pid, m2))
<1> DEFINE P == [q[i.pid] EXCEPT !.mem = m2]
           z == StoreMemory(q, i.pid, m2)
<1>1. TableOK(t2) /\ m2 \in Memory /\ Owned(t2, m2)
  BY DEF Good
<1>2. CASE i.pid \in Pid /\ q[i.pid].st = "stopped"
  <2>1. q \in [Pid -> Process] /\ q[i.pid] \in Process
    BY <1>2 DEF PromptInv
  <2>2. P \in Process /\ P.st = "stopped" /\ P.mem = m2
    BY <2>1, <1>1, <1>2 DEF Process
  <2>3. z = [q EXCEPT ![i.pid] = P]
    BY <1>2 DEF StoreMemory
  <2> HIDE DEF P, z
  <2>4. /\ z \in [Pid -> Process]
        /\ \A p \in Pid : z[p] = IF p = i.pid THEN P ELSE q[p]
    BY <2>1, <2>2, <2>3
  <2>5. ActiveInf(i)
    BY <1>2 DEF PromptInv, Traced
  <2>6. PromptInv(i, t2, z)
    BY <2>2, <2>4, <2>5, <1>1, <1>2 DEF PromptInv, Traced
  <2> QED BY <2>6 DEF z
<1>3. CASE ~(i.pid \in Pid /\ q[i.pid].st = "stopped")
  <2>1. \A p \in Pid : Clean(q[p].mem)
    BY <1>3 DEF PromptInv, Traced
  <2> QED BY <1>1, <1>3, <2>1 DEF PromptInv, StoreMemory
<1> QED BY <1>2, <1>3

\* The tracee becomes a process that nobody traces, or none.
LEMMA LetGo ==
  ASSUME NEW i, NEW t, NEW q, PromptInv(i, t, q), i.pid \in Pid,
         NEW i2 \in Inferior, ~ActiveInf(i2), i2.pid = 0,
         NEW t2, TableOK(t2),
         NEW P \in Process, P.st \notin Traced, Clean(P.mem)
  PROVE  PromptInv(i2, t2, [q EXCEPT ![i.pid] = P])
<1> DEFINE z == [q EXCEPT ![i.pid] = P]
<1>1. z \in [Pid -> Process] /\ \A p \in Pid : z[p] = IF p = i.pid THEN P ELSE q[p]
  BY DEF PromptInv
<1> HIDE DEF z
<1>2. PromptInv(i2, t2, z)
  BY <1>1 DEF PromptInv
<1> QED BY <1>2 DEF z

\* A stopped process becomes, or stays, the tracee: the inferior had no other.
LEMMA TakeGood ==
  ASSUME NEW i, NEW t, NEW q, PromptInv(i, t, q),
         NEW p \in Pid, ActiveInf(i) => i.pid = p,
         NEW t2, NEW P \in Process, P.st = "stopped", Good(t2, P.mem),
         NEW i2 \in Inferior, i2.pid = p, ActiveInf(i2)
  PROVE  PromptInv(i2, t2, [q EXCEPT ![p] = P])
<1> DEFINE z == [q EXCEPT ![p] = P]
<1>1. z \in [Pid -> Process] /\ \A x \in Pid : z[x] = IF x = p THEN P ELSE q[x]
  BY DEF PromptInv
<1>2. p # 0
  BY MoreConstants
<1> HIDE DEF z
<1>3. PromptInv(i2, t2, z)
  BY <1>1, <1>2 DEF PromptInv, Good, Traced
<1> QED BY <1>3 DEF z

\* The call lets the tracee run or step, and blocks until it stops.
LEMMA BlockGood ==
  ASSUME NEW i, NEW t, NEW q, PromptInv(i, t, q),
         NEW p \in Pid, ActiveInf(i) => i.pid = p,
         NEW P \in Process, P.st \in {"running", "stepping"}, Good(table', P.mem),
         inf' \in Inferior, inf'.pid = p, ActiveInf(inf'),
         proc' = [q EXCEPT ![p] = P],
         dbg' \in Control,
         \/ dbg'.at = "wait"
         \/ dbg'.at = "rearm" /\ P.st = "stepping" /\ dbg'.slot \in Used(table')
  PROVE  IInv'
<1>1. proc' \in [Pid -> Process] /\ \A x \in Pid : proc'[x] = IF x = p THEN P ELSE q[x]
  BY DEF PromptInv
<1>2. p # 0 /\ proc'[inf'.pid] = P /\ P.st \in Traced
  BY <1>1, MoreConstants DEF Traced
<1>3. TypeOK' /\ OgByteIsProgram'
  BY <1>1 DEF TypeOK, OgByteIsProgram, Good, TableOK
<1>4. PidIsOurs'
  BY <1>2 DEF PidIsOurs, isactive, ActiveInf, Tracee
<1>5. OneTracee'
  BY <1>1 DEF PromptInv, OneTracee, isactive, ActiveInf
<1>6. QuietAtPrompt'
  BY <1>1, <1>2 DEF QuietAtPrompt, Waiting, isactive, ActiveInf, Tracee
<1>7. TrapOwned'
  BY <1>1, <1>2 DEF PromptInv, TrapOwned, isactive, ActiveInf, Good
<1> QED BY <1>3, <1>4, <1>5, <1>6, <1>7 DEF IInv

\* A process that is nobody's tracee is replaced by another such process.
LEMMA OtherGood ==
  ASSUME NEW i, NEW t, NEW q, PromptInv(i, t, q), NEW p \in Pid,
         ActiveInf(i) => p # i.pid,
         NEW P \in Process, P.st \notin Traced, Clean(P.mem)
  PROVE  PromptInv(i, t, [q EXCEPT ![p] = P])
<1> DEFINE z == [q EXCEPT ![p] = P]
<1>1. z \in [Pid -> Process] /\ \A x \in Pid : z[x] = IF x = p THEN P ELSE q[x]
  BY DEF PromptInv
<1> HIDE DEF z
<1>2. ActiveInf(i) => i.pid \in Pid
  BY DEF PromptInv, Inferior
<1>3. PromptInv(i, t, z)
  BY <1>1, <1>2 DEF PromptInv
<1> QED BY <1>3 DEF z

-----------------------------------------------------------------------------
\* Letting go of the tracee: inferior.c:134-188 and 317-343.

\* The inferior that forgets its tracee is a legal one.
LEMMA Forgotten ==
  ASSUME inf \in Inferior
  PROVE  /\ NoTracee \in Inferior /\ NoTracee.pid = 0 /\ ~ActiveInf(NoTracee)
         /\ DeadInferior \in Inferior /\ DeadInferior.pid = 0 /\ ~ActiveInf(DeadInferior)
BY DEF NoTracee, DeadInferior, Inferior, Status, ActiveInf

\* sylvan_kill leaves no tracee and keeps the breakpoints.
LEMMA KillGood ==
  ASSUME IInv, dbg = Prompt
  PROVE  /\ PromptInv(sylvan_kill.inf, table, sylvan_kill.proc)
         /\ ~ActiveInf(sylvan_kill.inf)
         /\ sylvan_kill.table = table
<1>1. PromptInv(inf, table, proc) /\ (isactive => inf.pid \in Pid) /\ inf \in Inferior
  BY AtPromptInv DEF PromptInv
<1>2. CASE isactive
  <2>1. PromptInv(NoTracee, table, [proc EXCEPT ![inf.pid] = NoProcess])
    <3>1. NoProcess \in Process /\ NoProcess.st \notin Traced /\ Clean(NoProcess.mem)
      BY ProcessRecords DEF Traced
    <3> QED BY <1>1, <1>2, <3>1, Forgotten, LetGo DEF PromptInv
  <2> QED BY <1>1, <1>2, <2>1, Forgotten DEF sylvan_kill, Left
<1>3. CASE ~isactive
  BY <1>1, <1>3 DEF sylvan_kill, Left, ActiveInf, isactive
<1> QED BY <1>2, <1>3

\* Detaching takes out every breakpoint, or keeps the process.
LEMMA DetachGood ==
  ASSUME IInv, dbg = Prompt, inf.pid # 0
  PROVE  /\ PromptInv(DetachTracee.inf, DetachTracee.table, DetachTracee.proc)
         /\ DetachTracee.ok => ~ActiveInf(DetachTracee.inf)
<1> DEFINE r == sylvan_breakpoint_unsetall_phybp(table, Tracee.mem)
           q == StoreMemory(proc, inf.pid, r.mem)
           P == [q[inf.pid] EXCEPT !.st = "free", !.rip = Entry, !.why = "-"]
<1>1. /\ PromptInv(inf, table, proc) /\ inf \in Inferior /\ inf.pid \in Pid
      /\ ActiveInf(inf) /\ Tracee.st \in {"stopped", "zombie"} /\ TableOK(table)
  BY AtPromptInv DEF PromptInv, Inferior, Tracee
<1>2. CASE HasDied
  <2>1. NoProcess \in Process /\ NoProcess.st \notin Traced /\ Clean(NoProcess.mem)
    BY ProcessRecords DEF Traced
  <2>2. PromptInv(DeadInferior, table, [proc EXCEPT ![inf.pid] = NoProcess])
    BY <1>1, <2>1, Forgotten, LetGo
  <2> QED BY <1>1, <1>2, <2>2, Forgotten DEF DetachTracee, Left
<1>3. CASE ~HasDied
  <2>1. Tracee.st = "stopped"
    BY <1>1, <1>3 DEF HasDied
  <2>2. MemoryOf(proc, inf.pid) = Tracee.mem
    BY <1>1, <2>1 DEF MemoryOf, Tracee
  <2>3. Good(table, Tracee.mem)
    BY <1>1, <2>2, PromptGood
  <2>4. Good(r.table, r.mem)
    BY <2>3, RemoveGood DEF sylvan_breakpoint_unsetall_phybp
  <2>5. r.ret = "OK" => Clean(r.mem)
    BY <2>3, UnsetallCleans
  <2> HIDE DEF r
  <2>6. PromptInv(inf, r.table, q)
    BY <1>1, <2>4, StoreGood
  <2>7. q[inf.pid] \in Process /\ q[inf.pid].mem = r.mem
    <3>1. proc \in [Pid -> Process] /\ r.mem \in Memory
      BY <1>1, <2>4 DEF PromptInv, Good
    <3>2. q = [proc EXCEPT ![inf.pid] = [proc[inf.pid] EXCEPT !.mem = r.mem]]
      BY <1>1, <2>1 DEF StoreMemory, Tracee
    <3> QED BY <1>1, <3>1, <3>2 DEF Process
  <2> HIDE DEF q
  <2>8. P \in Process /\ P.st = "free" /\ P.mem = r.mem
    BY <2>7, MoreConstants DEF Process, ProcState, Cause
  <2> HIDE DEF P
  <2>9. CASE r.ret # "OK"
    <3>1. DetachTracee = Left(inf, r.table, q, FALSE)
      BY <1>3, <2>9 DEF DetachTracee, r, q
    <3> QED BY <2>6, <3>1 DEF Left
  <2>10. CASE r.ret = "OK"
    <3>1. DetachTracee = Left(NoTracee, r.table, [q EXCEPT ![inf.pid] = P], TRUE)
      BY <1>3, <2>10 DEF DetachTracee, r, q, P
    <3>2. PromptInv(NoTracee, r.table, [q EXCEPT ![inf.pid] = P])
      <4>1. P.st \notin Traced /\ Clean(P.mem) /\ TableOK(r.table)
        BY <2>4, <2>5, <2>8, <2>10 DEF Traced, Good
      <4> QED BY <1>1, <2>6, <2>8, <4>1, Forgotten, LetGo
    <3> QED BY <1>1, <3>1, <3>2, Forgotten DEF Left
  <2> QED BY <2>9, <2>10
<1> QED BY <1>2, <1>3

\* Whatever happens to the old tracee, the caller that may go on has none.
LEMMA LeaveGood ==
  ASSUME IInv, dbg = Prompt
  PROVE  LET d == sylvan_terminate_or_detach
         IN  PromptInv(d.inf, d.table, d.proc) /\ (d.ok => ~ActiveInf(d.inf))
<1>1. CASE isactive /\ inf.is_attached
  <2>1. inf.pid # 0
    BY <1>1, AtPromptInv DEF PromptInv, ActiveInf, isactive
  <2> QED BY <1>1, <2>1, DetachGood DEF sylvan_terminate_or_detach
<1>2. CASE ~(isactive /\ inf.is_attached)
  BY <1>2, KillGood DEF sylvan_terminate_or_detach
<1> QED BY <1>1, <1>2

-----------------------------------------------------------------------------
\* One lemma per group of actions: each keeps IInv.

\* The result of a breakpoint operation is stored: set, delete, enable, disable.
LEMMA BreakpointCallGood ==
  ASSUME IInv, NEW a \in Addr,
         BreakpointSet(a) \/ BreakpointUnset(a) \/ BreakpointEnable(a) \/ BreakpointDisable(a)
  PROVE  IInv'
<1> DEFINE m == MemoryOf(proc, inf.pid)
<1>1. dbg = Prompt
  BY DEF BreakpointSet, BreakpointUnset, BreakpointEnable, BreakpointDisable, AtPrompt
<1>2. /\ PromptInv(inf, table, proc) /\ Good(table, m)
      /\ isactive \in BOOLEAN /\ (~isactive => Clean(m))
  BY <1>1, AtPromptInv, PromptGood DEF ActiveInf, isactive
<1>3. ASSUME NEW r, Good(r.table, r.mem), Apply(r)
      PROVE  IInv'
  <2>1. /\ table' = r.table /\ proc' = StoreMemory(proc, inf.pid, r.mem)
        /\ inf' = inf /\ dbg' = Prompt
    BY <1>1, <1>3 DEF Apply
  <2>2. PromptInv(inf', table', proc')
    BY <1>2, <1>3, <2>1, StoreGood
  <2> QED BY <2>1, <2>2, FromPrompt
<1> HIDE DEF m
<1>4. CASE BreakpointSet(a)
  BY <1>2, <1>3, <1>4, SetGood DEF BreakpointSet, m
<1>5. CASE BreakpointUnset(a)
  BY <1>2, <1>3, <1>5, UnsetGood DEF BreakpointUnset, m
<1>6. CASE BreakpointEnable(a)
  BY <1>2, <1>3, <1>6, EnableGood DEF BreakpointEnable, m
<1>7. CASE BreakpointDisable(a)
  BY <1>2, <1>3, <1>7, DisableGood DEF BreakpointDisable, m
<1> QED BY <1>4, <1>5, <1>6, <1>7

\* detach, and destroy with the create that follows it.
LEMMA DetachCallsGood ==
  ASSUME IInv, sylvan_detach \/ ReplaceInferior
  PROVE  IInv'
<1>1. CASE sylvan_detach
  <2>1. dbg = Prompt /\ dbg' = Prompt /\ inf.pid # 0
    BY <1>1 DEF sylvan_detach, AtPrompt
  <2>2. PromptInv(inf', table', proc')
    BY <1>1, <2>1, DetachGood DEF sylvan_detach
  <2> QED BY <2>1, <2>2, FromPrompt
<1>2. CASE ReplaceInferior
  <2> DEFINE d == sylvan_terminate_or_detach
  <2>1. dbg = Prompt /\ dbg' = Prompt
    BY <1>2 DEF ReplaceInferior, AtPrompt
  <2>2. PromptInv(d.inf, d.table, d.proc) /\ (d.ok => ~ActiveInf(d.inf))
    BY <2>1, LeaveGood
  <2>3. /\ inf' = IF d.ok THEN FreshInferior ELSE d.inf
        /\ table' = IF d.ok THEN EmptyTable ELSE d.table
        /\ proc' = d.proc
    BY <1>2 DEF ReplaceInferior
  <2> HIDE DEF d
  <2>4. PromptInv(inf', table', proc')
    <3>1. CASE d.ok
      BY <2>2, <2>3, <3>1, FreshRecords DEF PromptInv
    <3>2. CASE ~d.ok
      BY <2>2, <2>3, <3>2
    <3> QED BY <3>1, <3>2
  <2> QED BY <2>1, <2>4, FromPrompt
<1> QED BY <1>1, <1>2

\* attach, in each of its four outcomes.
LEMMA AttachCallsGood ==
  ASSUME IInv, NEW p \in Pid, NEW r \in Addr,
         \/ AttachDenied(p) \/ AttachFindsDead(p) \/ sylvan_attach(p, r)
         \/ \E path \in Program \cup {NoPath} : AttachWithoutSymbols(p, r, path)
  PROVE  IInv'
<1> DEFINE d == sylvan_terminate_or_detach
           s == sylvan_breakpoint_setall_phybp(sylvan_breakpoint_reset_phybp(d.table), d.proc[p].mem)
<1>1. dbg = Prompt /\ dbg' = Prompt
  BY DEF AttachDenied, AttachFindsDead, sylvan_attach, AttachWithoutSymbols, AtPrompt
<1>2. PromptInv(d.inf, d.table, d.proc) /\ (d.ok => ~ActiveInf(d.inf))
  BY <1>1, LeaveGood
<1> SUFFICES PromptInv(inf', table', proc')
  BY <1>1, FromPrompt
<1>3. CASE AttachDenied(p)
  BY <1>2, <1>3 DEF AttachDenied
<1>4. CASE AttachFindsDead(p)
  <2>1. /\ d.ok
        /\ inf' = d.inf /\ table' = d.table /\ proc' = [d.proc EXCEPT ![p] = NoProcess]
    BY <1>4 DEF AttachFindsDead
  <2> HIDE DEF d
  <2>2. NoProcess \in Process /\ NoProcess.st \notin Traced /\ Clean(NoProcess.mem)
    BY ProcessRecords DEF Traced
  <2> QED BY <1>2, <2>1, <2>2, OtherGood
<1>5. d.proc[p].st = "free" => /\ d.proc[p].mem \in Memory /\ Clean(d.proc[p].mem)
                               /\ d.proc[p] \in Process /\ d.proc[p].prog \in Program \cup {NoPath}
                               /\ TableOK(d.table) /\ d.inf \in Inferior
  <2> HIDE DEF d
  <2> QED BY <1>2 DEF PromptInv, Process, Traced
<1>6. CASE \E path \in Program \cup {NoPath} : AttachWithoutSymbols(p, r, path)
  <2>1. PICK path \in Program \cup {NoPath} : AttachWithoutSymbols(p, r, path)
    BY <1>6
  <2> DEFINE i2 == [d.inf EXCEPT !.pid = p, !.status = "STOPPED", !.is_attached = TRUE,
                                 !.realpath = path]
             P == AttachedAt(d.proc, p, r)
  <2>2. /\ d.ok /\ d.proc[p].st = "free"
        /\ inf' = i2 /\ table' = d.table /\ proc' = [d.proc EXCEPT ![p] = P]
    BY <2>1 DEF AttachWithoutSymbols
  <2> HIDE DEF d
  <2>3. P \in Process /\ P.st = "stopped" /\ P.mem = d.proc[p].mem
    BY <1>5, <2>2 DEF AttachedAt, Process, ProcState, Cause
  <2>4. i2 \in Inferior /\ i2.pid = p /\ ActiveInf(i2)
    BY <1>5, <2>2 DEF Inferior, Status, ActiveInf
  <2> HIDE DEF i2, P
  <2>5. Good(d.table, P.mem)
    BY <1>5, <2>2, <2>3 DEF Good, Owned, Clean
  <2> QED BY <1>2, <2>2, <2>3, <2>4, <2>5, TakeGood
<1>7. CASE sylvan_attach(p, r)
  <2> DEFINE i2 == [d.inf EXCEPT !.pid = p, !.status = "STOPPED", !.is_attached = TRUE,
                                 !.realpath = d.proc[p].prog]
             P == [AttachedAt(d.proc, p, r) EXCEPT !.mem = s.mem]
  <2>1. /\ d.ok /\ d.proc[p].st = "free"
        /\ inf' = i2 /\ table' = s.table /\ proc' = [d.proc EXCEPT ![p] = P]
    BY <1>7 DEF sylvan_attach
  <2> HIDE DEF d
  <2>2. Good(s.table, s.mem)
    BY <1>5, <2>1, ResetAndSetallGood
  <2> HIDE DEF s
  <2>3. P \in Process /\ P.st = "stopped" /\ P.mem = s.mem
    BY <1>5, <2>1, <2>2 DEF AttachedAt, Process, ProcState, Cause, Good
  <2>4. i2 \in Inferior /\ i2.pid = p /\ ActiveInf(i2)
    BY <1>5, <2>1 DEF Inferior, Status, ActiveInf
  <2> HIDE DEF i2, P
  <2> QED BY <1>2, <2>1, <2>2, <2>3, <2>4, TakeGood
<1> QED BY <1>3, <1>4, <1>6, <1>7

\* run: every way it can end, and the run that blocks.
LEMMA RunCallsGood ==
  ASSUME IInv, \/ RunFails
               \/ \E p \in Pid : RunReportsError(p) \/ RunAborts(p) \/ sylvan_run(p)
  PROVE  IInv'
<1> DEFINE k == sylvan_kill
<1>1. dbg = Prompt
  BY DEF RunFails, RunReportsError, RunAborts, sylvan_run, AtPrompt
<1>2. PromptInv(k.inf, table, k.proc) /\ ~ActiveInf(k.inf) /\ k.inf \in Inferior /\ TableOK(table)
  BY <1>1, KillGood DEF PromptInv
<1>3. CASE RunFails
  <2>1. inf' = k.inf /\ table' = table /\ proc' = k.proc /\ dbg' = Prompt
    BY <1>1, <1>3 DEF RunFails
  <2> QED BY <1>2, <2>1, FromPrompt
<1>4. ASSUME NEW p \in Pid, RunReportsError(p)
      PROVE  IInv'
  <2>1. /\ inf' = k.inf /\ table' = table /\ dbg' = Prompt
        /\ proc' = [k.proc EXCEPT ![p] = Zombie("exit")]
    BY <1>1, <1>4 DEF RunReportsError
  <2>2. Zombie("exit") \in Process /\ Zombie("exit").st \notin Traced /\ Clean(Zombie("exit").mem)
    BY ProcessRecords DEF Traced, Cause
  <2> HIDE DEF k
  <2>3. PromptInv(inf', table', proc')
    BY <1>2, <2>1, <2>2, OtherGood
  <2> QED BY <2>1, <2>3, FromPrompt
<1>5. ASSUME NEW p \in Pid, RunAborts(p)
      PROVE  IInv'
  <2> DEFINE i2 == [k.inf EXCEPT !.pid = p, !.status = "TERMINATED", !.is_attached = FALSE]
  <2>1. /\ inf' = i2 /\ proc' = k.proc /\ table' = sylvan_breakpoint_reset_phybp(table)
        /\ dbg' = [Prompt EXCEPT !.at = "crashed"]
    BY <1>5 DEF RunAborts
  <2>2. i2 \in Inferior /\ i2.status = "TERMINATED"
    BY <1>2 DEF Inferior, Status
  <2>3. dbg' \in Control /\ dbg'.at = "crashed"
    BY <2>1, FreshRecords DEF Prompt, Control
  <2>4. TableOK(table')
    BY <1>2, <2>1, MoreConstants, ResetAndSetallGood
  <2> HIDE DEF k, i2
  <2>5. \A x \in Pid : proc'[x].st \notin Traced /\ Clean(proc'[x].mem)
    BY <1>2, <2>1 DEF PromptInv
  <2>6. ~isactive' /\ TypeOK' /\ OgByteIsProgram'
    BY <1>2, <2>1, <2>2, <2>3, <2>4 DEF TypeOK, OgByteIsProgram, TableOK, PromptInv, isactive
  <2>7. PidIsOurs' /\ OneTracee' /\ QuietAtPrompt' /\ TrapOwned'
    BY <2>3, <2>5, <2>6 DEF PidIsOurs, OneTracee, QuietAtPrompt, TrapOwned, Moving, Traced, Waiting
  <2> QED BY <2>6, <2>7 DEF IInv
<1>6. ASSUME NEW p \in Pid, sylvan_run(p)
      PROVE  IInv'
  <2> DEFINE g == inf.realpath
             s == sylvan_breakpoint_setall_phybp(sylvan_breakpoint_reset_phybp(table), Image[g])
             child == [Loaded(g, "stopped") EXCEPT !.mem = s.mem, !.why = "signal"]
             moving == [child EXCEPT !.st = "running", !.why = "-"]
             i2 == [k.inf EXCEPT !.pid = p, !.status = "STOPPED", !.is_attached = FALSE]
  <2>1. g \in Program
    BY <1>6 DEF sylvan_run, IInv, TypeOK, Inferior, NoPath
  <2>2. Good(s.table, s.mem)
    BY <1>2, <2>1, MoreConstants, ResetAndSetallGood
  <2>3. inf' = i2 /\ table' = s.table
    BY <1>6 DEF sylvan_run
  <2>4. s.ret = "OK" => proc' = [k.proc EXCEPT ![p] = moving] /\ dbg' = WaitIn("run")
    BY <1>6 DEF sylvan_run
  <2>5. s.ret # "OK" => proc' = [k.proc EXCEPT ![p] = child] /\ dbg' = Prompt
    BY <1>1, <1>6 DEF sylvan_run
  <2>6. i2 \in Inferior /\ i2.pid = p /\ ActiveInf(i2)
    BY <1>2 DEF Inferior, Status, ActiveInf
  <2> HIDE DEF s, k, i2
  <2>7. Loaded(g, "stopped") \in Process /\ Loaded(g, "stopped").st = "stopped"
    BY <2>1, ProcessRecords DEF ProcState
  <2>8. child \in Process /\ child.st = "stopped" /\ child.mem = s.mem
    BY <2>2, <2>7 DEF Process, Cause, Good
  <2> HIDE DEF child
  <2>9. moving \in Process /\ moving.st = "running" /\ moving.mem = s.mem
    BY <2>8 DEF Process, Cause, ProcState
  <2>10. WaitIn("run") \in Control /\ WaitIn("run").at = "wait"
    BY Constants DEF WaitIn, Control
  <2> HIDE DEF moving
  <2>11. CASE s.ret = "OK"
    BY <1>2, <2>2, <2>3, <2>4, <2>6, <2>9, <2>10, <2>11, BlockGood
  <2>12. CASE s.ret # "OK"
    <3>1. PromptInv(inf', table', proc')
      BY <1>2, <2>2, <2>3, <2>5, <2>6, <2>8, <2>12, TakeGood
    <3> QED BY <2>5, <2>12, <3>1, FromPrompt
  <2> QED BY <2>11, <2>12
<1> QED BY <1>3, <1>4, <1>5, <1>6

\* A stopped or dead tracee that is found dead is reaped; so is one that a call
\* waits for.
LEMMA ReapGood ==
  ASSUME IInv, dbg = Prompt \/ Waiting, HasDied, ReapTracee, table' = table, dbg' = Prompt
  PROVE  IInv'
<1>1. /\ inf \in Inferior /\ inf.pid \in Pid /\ isactive /\ TableOK(table)
      /\ dbg.at # "crashed"
  BY DEF IInv, TypeOK, OgByteIsProgram, TableOK, Inferior, HasDied, Prompt, Waiting, PidIsOurs
<1>2. PromptInv(inf, table, proc)
  BY <1>1, ToPrompt DEF HasDied
<1>3. NoProcess \in Process /\ NoProcess.st \notin Traced /\ Clean(NoProcess.mem)
  BY ProcessRecords DEF Traced
<1>4. PromptInv(inf', table', proc')
  BY <1>1, <1>2, <1>3, Forgotten, LetGo DEF ReapTracee
<1> QED BY <1>4, FromPrompt

\* A tracee that a call resumes or changes from the prompt.
LEMMA StoppedFacts ==
  ASSUME IInv, dbg = Prompt, inf.pid # 0, ~HasDied
  PROVE  /\ PromptInv(inf, table, proc) /\ inf \in Inferior /\ inf.pid \in Pid
         /\ ActiveInf(inf) /\ isactive
         /\ Tracee \in Process /\ Tracee.st = "stopped" /\ Good(table, Tracee.mem)
<1>1. PromptInv(inf, table, proc) /\ inf \in Inferior /\ inf.pid \in Pid /\ ActiveInf(inf)
  BY AtPromptInv DEF PromptInv, Inferior
<1>2. Tracee \in Process /\ Tracee.st = "stopped"
  BY <1>1 DEF PromptInv, HasDied, Tracee
<1>3. MemoryOf(proc, inf.pid) = Tracee.mem
  BY <1>1, <1>2 DEF MemoryOf, Tracee
<1> QED BY <1>1, <1>2, <1>3, PromptGood DEF ActiveInf, isactive

\* continue and stepi: the tracee is dead, is stepped off a breakpoint, or is resumed.
LEMMA ResumeCallsGood ==
  ASSUME IInv, NEW cmd \in {"continue", "stepinst"},
         ResumeFindsDead(cmd) \/ StepOffBreakpoint(cmd) \/ ResumeDirectly(cmd)
  PROVE  IInv'
<1>1. dbg = Prompt
  BY DEF ResumeFindsDead, StepOffBreakpoint, ResumeDirectly, AtPrompt
<1>2. CASE ResumeFindsDead(cmd)
  BY <1>1, <1>2, ReapGood DEF ResumeFindsDead
<1>3. CASE StepOffBreakpoint(cmd)
  <2>1. PICK i \in JustHit :
       LET r == sylvan_breakpoint_disable_ptr(table, Tracee.mem, isactive, i)
           rewound == [Tracee EXCEPT !.rip = Tracee.rip - 1, !.mem = r.mem]
       IN  /\ table' = r.table
           /\ IF r.ret = "OK"
                THEN /\ proc' = [proc EXCEPT ![inf.pid] =
                                   [rewound EXCEPT !.st = "stepping", !.why = "-"]]
                     /\ dbg' = RearmIn(cmd, i)
                ELSE /\ proc' = [proc EXCEPT ![inf.pid] = rewound]
                     /\ UNCHANGED dbg
    BY <1>3 DEF StepOffBreakpoint
  <2> DEFINE r == sylvan_breakpoint_disable_ptr(table, Tracee.mem, isactive, i)
             rewound == [Tracee EXCEPT !.rip = Tracee.rip - 1, !.mem = r.mem]
             moving == [rewound EXCEPT !.st = "stepping", !.why = "-"]
  <2>2. inf' = inf /\ inf.pid # 0 /\ ~HasDied
    BY <1>3 DEF StepOffBreakpoint
  <2>3. /\ PromptInv(inf, table, proc) /\ inf \in Inferior /\ inf.pid \in Pid
        /\ ActiveInf(inf) /\ isactive
        /\ Tracee \in Process /\ Tracee.st = "stopped" /\ Good(table, Tracee.mem)
    BY <1>1, <2>2, StoppedFacts
  <2>4. i \in Used(table) /\ i \in Slot /\ Tracee.rip - 1 \in Addr
    <3>1. i \in Used(table) /\ i \in Slot /\ table.breakpoints[i].addr = Tracee.rip - 1
      BY <2>1 DEF JustHit, Matches, Used
    <3> QED BY <3>1, <2>3 DEF Good, TableOK, Table, Breakpoint
  <2>5. Good(r.table, r.mem) /\ r.table.breakpoint_count = table.breakpoint_count
    <3>1. isactive \in BOOLEAN /\ (~isactive => Clean(Tracee.mem))
      BY <2>3 DEF isactive
    <3>2. i \in Used(table) /\ Good(table, Tracee.mem) /\ isactive \in BOOLEAN
      BY <2>3, <2>4, <3>1
    <3> QED BY <3>1, <3>2, DisablePtrGood
  <2>6. /\ table' = r.table
        /\ r.ret = "OK" => proc' = [proc EXCEPT ![inf.pid] = moving] /\ dbg' = RearmIn(cmd, i)
        /\ r.ret # "OK" => proc' = [proc EXCEPT ![inf.pid] = rewound] /\ dbg' = Prompt
    BY <1>1, <2>1
  <2> HIDE DEF r
  <2>7. rewound \in Process /\ rewound.st = "stopped" /\ rewound.mem = r.mem
    BY <2>3, <2>4, <2>5 DEF Process, Good
  <2> HIDE DEF rewound
  <2>8. moving \in Process /\ moving.st = "stepping" /\ moving.mem = r.mem
    BY <2>7 DEF Process, ProcState, Cause
  <2> HIDE DEF moving
  <2>9. i \in Used(r.table)
    BY <2>4, <2>5 DEF Used
  <2>10. RearmIn(cmd, i) \in Control /\ RearmIn(cmd, i).at = "rearm" /\ RearmIn(cmd, i).slot = i
    BY <2>4 DEF RearmIn, Control
  <2>11. CASE r.ret = "OK"
    BY <2>2, <2>3, <2>5, <2>6, <2>8, <2>9, <2>10, <2>11, BlockGood
  <2>12. CASE r.ret # "OK"
    <3>1. PromptInv(inf', table', proc')
      BY <2>2, <2>3, <2>5, <2>6, <2>7, <2>12, TakeGood
    <3> QED BY <2>6, <2>12, <3>1, FromPrompt
  <2> QED BY <2>11, <2>12
<1>4. CASE ResumeDirectly(cmd)
  <2> DEFINE P == [Tracee EXCEPT !.st = IF cmd = "stepinst" THEN "stepping" ELSE "running",
                                 !.why = "-"]
  <2>1. /\ inf' = inf /\ table' = table /\ inf.pid # 0 /\ ~HasDied
        /\ proc' = [proc EXCEPT ![inf.pid] = P] /\ dbg' = WaitIn(cmd)
    BY <1>4 DEF ResumeDirectly, Resume
  <2>2. /\ PromptInv(inf, table, proc) /\ inf \in Inferior /\ inf.pid \in Pid
        /\ ActiveInf(inf)
        /\ Tracee \in Process /\ Good(table, Tracee.mem)
    BY <1>1, <2>1, StoppedFacts
  <2>3. P \in Process /\ P.st \in {"running", "stepping"} /\ P.mem = Tracee.mem
    BY <2>2 DEF Process, ProcState, Cause
  <2> HIDE DEF P
  <2>4. WaitIn(cmd) \in Control /\ WaitIn(cmd).at = "wait"
    BY Constants DEF WaitIn, Control
  <2> QED BY <2>1, <2>2, <2>3, <2>4, BlockGood
<1> QED BY <1>2, <1>3, <1>4

\* The blocking waits.
LEMMA WaitStepsGood ==
  ASSUME IInv, WaitSteps
  PROVE  IInv'
<1>1. CASE WaitReturns
  <2>1. /\ inf' = inf /\ table' = table /\ proc' = proc /\ dbg' = Prompt
        /\ Tracee.st = "stopped" /\ dbg.at # "crashed"
    BY <1>1 DEF WaitReturns, Waiting
  <2>2. PromptInv(inf, table, proc)
    BY <2>1, ToPrompt
  <2> QED BY <2>1, <2>2, FromPrompt
<1>2. CASE WaitFindsDead
  BY <1>2, ReapGood DEF WaitFindsDead
<1>3. CASE Rearm
  <2> DEFINE r == sylvan_breakpoint_enable_ptr(table, Tracee.mem, isactive, dbg.slot)
             goesOn == r.ret = "OK" /\ dbg.cmd = "continue"
             resumed == [Tracee EXCEPT !.mem = r.mem, !.st = "running", !.why = "-"]
             stays == [Tracee EXCEPT !.mem = r.mem]
  <2>1. /\ dbg.at = "rearm" /\ Tracee.st = "stopped" /\ inf' = inf /\ table' = r.table
        /\ goesOn => proc' = [proc EXCEPT ![inf.pid] = resumed] /\ dbg' = WaitIn("continue")
        /\ ~goesOn => proc' = [proc EXCEPT ![inf.pid] = stays] /\ dbg' = Prompt
    BY <1>3 DEF Rearm
  <2>2. /\ isactive /\ isactive \in BOOLEAN /\ ActiveInf(inf) /\ inf \in Inferior /\ inf.pid \in Pid
        /\ dbg.slot \in Used(table)
    BY <2>1 DEF IInv, TypeOK, Inferior, PidIsOurs, QuietAtPrompt, Waiting, isactive, ActiveInf
  <2>3. PromptInv(inf, table, proc) /\ Tracee \in Process
    BY <2>1, <2>2, ToPrompt DEF PromptInv, Tracee
  <2>4. Good(table, Tracee.mem)
    BY <2>1, <2>2, <2>3, PromptGood DEF MemoryOf, Tracee
  <2>5. Good(r.table, r.mem)
    BY <2>2, <2>4, EnablePtrGood
  <2> HIDE DEF r
  <2>6. stays \in Process /\ stays.st = "stopped" /\ stays.mem = r.mem
    BY <2>1, <2>3, <2>5 DEF Process, Good
  <2>7. resumed \in Process /\ resumed.st = "running" /\ resumed.mem = r.mem
    BY <2>3, <2>5 DEF Process, Good, ProcState, Cause
  <2>8. WaitIn("continue") \in Control /\ WaitIn("continue").at = "wait"
    BY Constants DEF WaitIn, Control
  <2> HIDE DEF stays, resumed, goesOn
  <2>9. CASE goesOn
    BY <2>1, <2>2, <2>3, <2>5, <2>7, <2>8, <2>9, BlockGood
  <2>10. CASE ~goesOn
    <3>1. PromptInv(inf', table', proc')
      BY <2>1, <2>2, <2>3, <2>5, <2>6, <2>10, TakeGood
    <3> QED BY <2>1, <2>10, <3>1, FromPrompt
  <2> QED BY <2>9, <2>10
<1> QED BY <1>1, <1>2, <1>3 DEF WaitSteps

\* The executable of the inferior, the registers and the memory of the tracee.
LEMMA DataCallsGood ==
  ASSUME IInv, \/ \E g \in Program \cup {NoPath} : sylvan_set_filepath(g)
               \/ RegsFindDead
               \/ \E r \in Addr : sylvan_set_regs(r)
               \/ \E a \in Addr, b \in Byte : sylvan_set_memory(a, b)
  PROVE  IInv'
<1>1. dbg = Prompt
  BY DEF sylvan_set_filepath, RegsFindDead, sylvan_set_regs, sylvan_set_memory, AtPrompt
<1>2. PromptInv(inf, table, proc) /\ inf \in Inferior
  BY <1>1, AtPromptInv DEF PromptInv
<1>3. ASSUME NEW g \in Program \cup {NoPath}, sylvan_set_filepath(g)
      PROVE  IInv'
  <2>1. /\ inf' = [inf EXCEPT !.realpath = g] /\ table' = table /\ proc' = proc /\ dbg' = Prompt
    BY <1>1, <1>3 DEF sylvan_set_filepath
  <2>2. inf' \in Inferior /\ inf'.pid = inf.pid /\ inf'.status = inf.status
    BY <1>2, <2>1 DEF Inferior
  <2>3. PromptInv(inf', table', proc')
    BY <1>2, <2>1, <2>2 DEF PromptInv, ActiveInf
  <2> QED BY <2>1, <2>3, FromPrompt
<1>4. CASE RegsFindDead
  BY <1>1, <1>4, ReapGood DEF RegsFindDead
<1>5. ASSUME NEW r \in Addr, sylvan_set_regs(r)
      PROVE  IInv'
  <2> DEFINE P == [Tracee EXCEPT !.rip = r]
  <2>1. /\ inf.pid # 0 /\ ~HasDied
        /\ inf' = inf /\ table' = table /\ dbg' = Prompt /\ proc' = [proc EXCEPT ![inf.pid] = P]
    BY <1>1, <1>5 DEF sylvan_set_regs
  <2>2. /\ inf.pid \in Pid /\ ActiveInf(inf)
        /\ Tracee \in Process /\ Tracee.st = "stopped" /\ Good(table, Tracee.mem)
    BY <1>1, <2>1, StoppedFacts
  <2>3. P \in Process /\ P.st = "stopped" /\ P.mem = Tracee.mem
    BY <2>2 DEF Process
  <2> HIDE DEF P
  <2>4. PromptInv(inf', table', proc')
    BY <1>2, <2>1, <2>2, <2>3, TakeGood
  <2> QED BY <2>1, <2>4, FromPrompt
<1>6. ASSUME NEW a \in Addr, NEW b \in Byte, sylvan_set_memory(a, b)
      PROVE  IInv'
  <2> DEFINE m2 == [Tracee.mem EXCEPT ![a] = b]
  <2>1. /\ inf' = inf /\ table' = table /\ dbg' = Prompt
        /\ proc' = StoreMemory(proc, inf.pid, m2)
        /\ MemoryOf(proc, inf.pid)[a] # PeekFailed
    BY <1>1, <1>6 DEF sylvan_set_memory
  <2>2. inf.pid \in Pid /\ Tracee.st = "stopped" /\ MemoryOf(proc, inf.pid) = Tracee.mem
    BY <2>1 DEF MemoryOf, NoMemory, Tracee
  <2>3. Good(table, Tracee.mem)
    BY <1>2, <2>2, PromptGood
  <2>4. m2 \in Memory /\ \A c \in Addr : m2[c] = Trap => Tracee.mem[c] = Trap
    BY <2>3, Constants DEF Good, Memory, Cell
  <2>5. Good(table, m2)
    BY <2>3, <2>4 DEF Good, Owned
  <2> HIDE DEF m2
  <2>6. PromptInv(inf', table', proc')
    BY <1>2, <2>1, <2>5, StoreGood
  <2> QED BY <2>1, <2>6, FromPrompt
<1> QED BY <1>3, <1>4, <1>5, <1>6

-----------------------------------------------------------------------------
\* What processes do by themselves.

\* The tracee stops or dies.
LEMMA TraceeStepGood ==
  ASSUME IInv, NEW p \in Pid, proc[p].st \in Traced,
         NEW P \in Process, P.st \in {"stopped", "zombie"},
         Clean(P.mem) \/ (P.st = "stopped" /\ P.mem = proc[p].mem),
         proc' = [proc EXCEPT ![p] = P], UNCHANGED <<inf, table, dbg>>
  PROVE  IInv'
<1>1. proc' \in [Pid -> Process] /\ \A x \in Pid : proc'[x] = IF x = p THEN P ELSE proc[x]
  BY DEF IInv, TypeOK
<1>2. isactive /\ p = inf.pid
  BY DEF IInv, OneTracee
<1>3. TypeOK' /\ OgByteIsProgram'
  BY <1>1 DEF IInv, TypeOK, OgByteIsProgram
<1>4. PidIsOurs'
  BY <1>1, <1>2 DEF IInv, PidIsOurs, isactive, Tracee, Traced
<1>5. OneTracee'
  BY <1>1, <1>2 DEF IInv, OneTracee, isactive
<1>6. QuietAtPrompt'
  BY <1>1, <1>2 DEF IInv, QuietAtPrompt, Moving, Waiting, isactive, Tracee, Used
<1>7. TrapOwned'
  BY <1>1, <1>2 DEF IInv, TrapOwned, isactive, Traced
<1> QED BY <1>3, <1>4, <1>5, <1>6, <1>7 DEF IInv

\* A process that nobody traces comes or goes.
LEMMA OtherStepGood ==
  ASSUME IInv, NEW p \in Pid, proc[p].st \in {"none", "free"},
         NEW P \in Process, P.st \in {"none", "free"}, Clean(P.mem),
         proc' = [proc EXCEPT ![p] = P], UNCHANGED <<inf, table, dbg>>
  PROVE  IInv'
<1>1. proc' \in [Pid -> Process] /\ \A x \in Pid : proc'[x] = IF x = p THEN P ELSE proc[x]
  BY DEF IInv, TypeOK
<1>2. isactive => inf.pid \in Pid /\ p # inf.pid
  BY DEF IInv, PidIsOurs, TypeOK, Inferior, Tracee, Traced
<1>3. TypeOK' /\ OgByteIsProgram'
  BY <1>1 DEF IInv, TypeOK, OgByteIsProgram
<1>4. PidIsOurs'
  BY <1>1, <1>2 DEF IInv, PidIsOurs, isactive, Tracee
<1>5. OneTracee'
  BY <1>1, <1>2 DEF IInv, OneTracee, isactive, Traced
<1>6. QuietAtPrompt'
  BY <1>1, <1>2 DEF IInv, QuietAtPrompt, Moving, Waiting, isactive, Tracee, Used
<1>7. TrapOwned'
  BY <1>1, <1>2 DEF IInv, TrapOwned, isactive
<1> QED BY <1>3, <1>4, <1>5, <1>6, <1>7 DEF IInv

\* Every step of Tracee.tla is one of these two.
LEMMA TraceeStepsGood ==
  ASSUME IInv, TraceeSteps, UNCHANGED <<inf, table, dbg>>
  PROVE  IInv'
<1>1. PICK p \in Pid :
    \/ \E r \in Addr : StepDone(p, r) \/ TrapHit(p, r)
    \/ \E r \in Addr : StopBySignal(p, r)
    \/ \E r \in Addr : StopByFault(p, r)
    \/ \E g \in Program : Exec(p, g)
    \/ Exit(p) \/ Killed(p)
    \/ \E g \in Program : Spawn(p, g)
    \/ FreeExit(p)
  BY DEF TraceeSteps
<1>2. proc \in [Pid -> Process] /\ proc[p] \in Process
  BY DEF IInv, TypeOK
<1>3. ASSUME NEW a \in Addr, NEW why \in Cause, StoppedAt(p, a, why), proc[p].st \in Traced
      PROVE  IInv'
  <2> DEFINE P == [proc[p] EXCEPT !.st = "stopped", !.rip = a, !.why = why]
  <2>1. P \in Process /\ P.st = "stopped" /\ P.mem = proc[p].mem
    BY <1>2 DEF Process, ProcState
  <2>2. proc' = [proc EXCEPT ![p] = P]
    BY <1>3 DEF StoppedAt
  <2> HIDE DEF P
  <2> QED BY <1>3, <2>1, <2>2, TraceeStepGood
<1>4. CASE \E r \in Addr : StepDone(p, r)
  BY <1>3, <1>4 DEF StepDone, Traced, Cause
<1>5. CASE \E r \in Addr : TrapHit(p, r)
  BY <1>3, <1>5 DEF TrapHit, Moving, Traced, Cause
<1>6. CASE \E r \in Addr : StopBySignal(p, r)
  BY <1>3, <1>6 DEF StopBySignal, Moving, Traced, Cause
<1>7. CASE \E r \in Addr : StopByFault(p, r)
  BY <1>3, <1>7 DEF StopByFault, Moving, Traced, Cause
<1>8. CASE \E g \in Program : Exec(p, g)
  <2>1. PICK g \in Program : Exec(p, g)
    BY <1>8
  <2> DEFINE P == [Loaded(g, "stopped") EXCEPT !.why = "signal"]
  <2>2. P \in Process /\ P.st = "stopped" /\ Clean(P.mem)
    BY ProcessRecords DEF Process, Cause, ProcState
  <2>3. proc' = [proc EXCEPT ![p] = P] /\ proc[p].st \in Traced
    BY <2>1 DEF Exec, Moving, Traced
  <2> HIDE DEF P
  <2> QED BY <2>2, <2>3, TraceeStepGood
<1>9. ASSUME NEW why \in Cause, proc' = [proc EXCEPT ![p] = Zombie(why)], proc[p].st \in Traced
      PROVE  IInv'
  BY <1>9, ProcessRecords, TraceeStepGood
<1>10. CASE Exit(p)
  BY <1>9, <1>10 DEF Exit, Moving, Traced, Cause
<1>11. CASE Killed(p)
  BY <1>9, <1>11 DEF Killed, Cause
<1>12. CASE \E g \in Program : Spawn(p, g)
  <2>1. PICK g \in Program : Spawn(p, g)
    BY <1>12
  <2>2. proc' = [proc EXCEPT ![p] = Loaded(g, "free")] /\ proc[p].st = "none"
    BY <2>1 DEF Spawn
  <2>3. /\ Loaded(g, "free") \in Process /\ Loaded(g, "free").st = "free"
        /\ Clean(Loaded(g, "free").mem)
    BY ProcessRecords DEF ProcState
  <2> QED BY <2>2, <2>3, OtherStepGood
<1>13. CASE FreeExit(p)
  BY <1>13, ProcessRecords, OtherStepGood DEF FreeExit
<1> QED BY <1>1, <1>4, <1>5, <1>6, <1>7, <1>8, <1>10, <1>11, <1>12, <1>13

-----------------------------------------------------------------------------
\* The theorems.

\* Before the first command there is no process to trace and no breakpoint.
LEMMA InitGood == Init => IInv
<1> SUFFICES ASSUME Init PROVE IInv
  OBVIOUS
<1>1. inf = FreshInferior /\ table = EmptyTable /\ dbg = Prompt /\ proc = [p \in Pid |-> NoProcess]
  BY DEF Init
<1>2. \A p \in Pid : proc[p] = NoProcess
  BY <1>1
<1>3. TypeOK /\ OgByteIsProgram /\ ~isactive /\ inf.pid = 0
  BY <1>1, FreshRecords, ProcessRecords DEF TypeOK, OgByteIsProgram, TableOK, ActiveInf, isactive
<1>4. PidIsOurs /\ OneTracee /\ QuietAtPrompt /\ TrapOwned
  BY <1>1, <1>2, <1>3, ProcessRecords
     DEF PidIsOurs, OneTracee, QuietAtPrompt, TrapOwned, Moving, Traced, Waiting, Prompt
<1> QED BY <1>3, <1>4 DEF IInv

\* Every command, every return from a wait and every step of a process keeps IInv.
LEMMA StepGood == IInv /\ [Next]_vars => IInv'
<1> SUFFICES ASSUME IInv, [Next]_vars PROVE IInv'
  OBVIOUS
<1>1. CASE BreakpointCalls
  BY <1>1, BreakpointCallGood DEF BreakpointCalls, BreakpointAddr
<1>2. CASE ProcessCalls
  <2>1. CASE sylvan_detach \/ ReplaceInferior
    BY <2>1, DetachCallsGood
  <2>2. CASE \E p \in Pid, r \in Addr :
       sylvan_attach(p, r) \/ \E path \in Program \cup {NoPath} : AttachWithoutSymbols(p, r, path)
    BY <2>2, AttachCallsGood
  <2>3. CASE \E p \in Pid : AttachDenied(p) \/ AttachFindsDead(p)
    <3>1. Entry \in Addr
      BY MoreConstants
    <3> QED BY <2>3, <3>1, AttachCallsGood
  <2>4. CASE RunFails \/ \E p \in Pid : RunReportsError(p) \/ RunAborts(p) \/ sylvan_run(p)
    BY <2>4, RunCallsGood
  <2>5. CASE \E cmd \in {"continue", "stepinst"} :
       ResumeFindsDead(cmd) \/ StepOffBreakpoint(cmd) \/ ResumeDirectly(cmd)
    BY <2>5, ResumeCallsGood
  <2>6. CASE \/ \E g \in Program \cup {NoPath} : sylvan_set_filepath(g)
             \/ RegsFindDead
             \/ \E r \in Addr : sylvan_set_regs(r)
             \/ \E a \in Addr, b \in Byte : sylvan_set_memory(a, b)
    BY <2>6, DataCallsGood
  <2> QED BY <1>2, <2>1, <2>2, <2>3, <2>4, <2>5, <2>6 DEF ProcessCalls
<1>3. CASE WaitSteps
  BY <1>3, WaitStepsGood
<1>4. CASE TraceeSteps /\ UNCHANGED <<inf, table, dbg>>
  BY <1>4, TraceeStepsGood
<1>5. CASE UNCHANGED vars
  BY <1>5 DEF vars, IInv, TypeOK, PidIsOurs, OneTracee, QuietAtPrompt, TrapOwned, OgByteIsProgram,
       isactive, Tracee, Waiting, Moving
<1> QED BY <1>1, <1>2, <1>3, <1>4, <1>5 DEF Next

\* The inductive invariant holds of every behaviour of the inferior library.
THEOREM Inductive == Spec => []IInv
BY InitGood, StepGood, PTL DEF Spec

\* The variables keep their types: no slot number, pid or status is out of range.
THEOREM TypeCorrect == Spec => []TypeOK
<1>1. IInv => TypeOK
  BY DEF IInv
<1> QED BY <1>1, Inductive, PTL

\* inf->pid never outlives the process it names (inferior.c:30-107, 134-164, 317-343).
THEOREM PidStaysOurs == Spec => []PidIsOurs
<1>1. IInv => PidIsOurs
  BY DEF IInv
<1> QED BY <1>1, Inductive, PTL

\* No process is traced but inf->pid: attach, run and destroy never forget one
\* (inferior.c:169-188, 256, 490).
THEOREM NoForgottenTracee == Spec => []OneTracee
<1>1. IInv => OneTracee
  BY DEF IInv
<1> QED BY <1>1, Inductive, PTL

\* Between two commands the tracee stands still, and the slot that a step off a
\* breakpoint keeps across its wait is still in use when the wait ends
\* (inferior.c:513-545).
THEOREM StandsStill == Spec => []QuietAtPrompt
<1>1. IInv => QuietAtPrompt
  BY DEF IInv
<1> QED BY <1>1, Inductive, PTL

\* Every 0xCC of the system can be taken out again (breakpoint.c:35-80).
THEOREM NoTrapLost == Spec => []TrapOwned
<1>1. IInv => TrapOwned
  BY DEF IInv
<1> QED BY <1>1, Inductive, PTL

\* A process that was let go has no 0xCC (inferior.c:317-343, breakpoint.c:233-246).
THEOREM FreedIsClean == Spec => []FreeIsClean
<1>1. IInv => FreeIsClean
  BY DEF IInv, TrapOwned, FreeIsClean, Traced
<1> QED BY <1>1, Inductive, PTL

\* No slot saves 0xCC as the program's byte, and no address has two slots
\* (breakpoint.c:44-52, 139-158).
THEOREM SavedBytes == Spec => []OgByteIsProgram
<1>1. IInv => OgByteIsProgram
  BY DEF IInv
<1> QED BY <1>1, Inductive, PTL

-----------------------------------------------------------------------------
\* The attached process survives.

\* Letting go of an attached process that stands still leaves it alive, stopped or free.
LEMMA LeaveKeepsAlive ==
  ASSUME IInv, isactive, inf.is_attached, Tracee.st = "stopped", NEW d,
         d = DetachTracee \/ d = sylvan_terminate_or_detach
  PROVE  /\ inf.pid \in Pid /\ ~HasDied
         /\ DOMAIN d.proc = Pid
         /\ d.proc[inf.pid].st \in {"stopped", "free"}
<1> DEFINE r == sylvan_breakpoint_unsetall_phybp(table, Tracee.mem)
           q == StoreMemory(proc, inf.pid, r.mem)
<1>1. inf.pid \in Pid /\ proc \in [Pid -> Process]
  BY DEF IInv, TypeOK, Inferior, PidIsOurs
<1>2. d = DetachTracee /\ ~HasDied
  BY DEF sylvan_terminate_or_detach, HasDied
<1>3. DOMAIN q = Pid /\ q[inf.pid].st = "stopped" /\ q[inf.pid] = [Tracee EXCEPT !.mem = r.mem]
  BY <1>1 DEF StoreMemory, Tracee, Process
<1>4. \/ d.proc = q
      \/ d.proc = [q EXCEPT ![inf.pid] = [q[inf.pid] EXCEPT !.st = "free", !.rip = Entry, !.why = "-"]]
  BY <1>2 DEF DetachTracee, Left
<1>5. [q[inf.pid] EXCEPT !.st = "free", !.rip = Entry, !.why = "-"].st = "free"
  <2>1. "st" \in DOMAIN q[inf.pid]
    BY <1>1, <1>3 DEF Process, Tracee
  <2> HIDE DEF q
  <2> QED BY <2>1
<1> HIDE DEF q
<1> QED BY <1>1, <1>2, <1>3, <1>4, <1>5

\* Storing memory changes no process's state.
LEMMA StoreKeepsState ==
  ASSUME proc \in [Pid -> Process], NEW p \in Pid, NEW m
  PROVE  StoreMemory(proc, inf.pid, m)[p].st = proc[p].st
BY DEF StoreMemory, Process

\* No call but run, and no step of a process but its own death while it is attached to once
\* more, ends a process that is attached and stands still.
LEMMA SurvivesStep ==
  ASSUME IInv, Next, isactive, inf.is_attached, Tracee.st = "stopped", proc'[inf.pid].st = "none"
  PROVE  \/ RunFails \/ \E p \in Pid : sylvan_run(p) \/ RunReportsError(p) \/ RunAborts(p)
         \/ AttachFindsDead(inf.pid)
<1> DEFINE d == sylvan_terminate_or_detach
           P0 == inf.pid
<1>1. /\ P0 \in Pid /\ ~HasDied /\ DOMAIN d.proc = Pid
      /\ d.proc[P0].st \in {"stopped", "free"}
      /\ DetachTracee.proc[P0].st \in {"stopped", "free"}
  BY LeaveKeepsAlive
<1>2. proc \in [Pid -> Process] /\ Tracee = proc[P0]
  BY DEF IInv, TypeOK, Tracee
<1>3. ~BreakpointCalls /\ \A a \in Addr, b \in Byte : ~sylvan_set_memory(a, b)
  <2> SUFFICES ASSUME BreakpointCalls \/ \E a \in Addr, b \in Byte : sylvan_set_memory(a, b)
               PROVE  FALSE
    OBVIOUS
  <2>1. \E m : proc' = StoreMemory(proc, inf.pid, m)
    BY DEF BreakpointCalls, BreakpointSet, BreakpointUnset, BreakpointEnable, BreakpointDisable, Apply,
       sylvan_set_memory
  <2> QED BY <1>1, <1>2, <2>1, StoreKeepsState
<1>4. ~sylvan_detach /\ ~ReplaceInferior /\ \A p \in Pid : ~AttachDenied(p)
  BY <1>1 DEF sylvan_detach, ReplaceInferior, AttachDenied
<1>5. \A p \in Pid, r \in Addr : ~sylvan_attach(p, r)
                              /\ \A path \in Program \cup {NoPath} : ~AttachWithoutSymbols(p, r, path)
  <2> SUFFICES ASSUME NEW p \in Pid, NEW r \in Addr,
                      sylvan_attach(p, r) \/ \E path \in Program \cup {NoPath} : AttachWithoutSymbols(p, r, path)
               PROVE  FALSE
    OBVIOUS
  <2>1. dbg = Prompt
    BY DEF sylvan_attach, AttachWithoutSymbols, AtPrompt
  <2>2. d.proc[p] \in Process
    BY <2>1, LeaveGood DEF PromptInv
  <2>3. \E P : P.st = "stopped" /\ proc' = [d.proc EXCEPT ![p] = P]
    BY <2>2 DEF sylvan_attach, AttachWithoutSymbols, AttachedAt, Process
  <2> HIDE DEF d
  <2> QED BY <1>1, <2>3
<1>6. \A p \in Pid : AttachFindsDead(p) => p = P0
  <2> SUFFICES ASSUME NEW p \in Pid, AttachFindsDead(p), p # P0 PROVE FALSE
    OBVIOUS
  <2>1. proc' = [d.proc EXCEPT ![p] = NoProcess]
    BY DEF AttachFindsDead
  <2> HIDE DEF d
  <2> QED BY <1>1, <2>1
<1>7. /\ \A g \in Program \cup {NoPath} : ~sylvan_set_filepath(g)
      /\ ~RegsFindDead /\ \A r \in Addr : ~sylvan_set_regs(r)
  BY <1>1, <1>2 DEF sylvan_set_filepath, RegsFindDead, sylvan_set_regs, Process
<1>8. \A cmd \in {"continue", "stepinst"} :
        ~ResumeFindsDead(cmd) /\ ~StepOffBreakpoint(cmd) /\ ~ResumeDirectly(cmd)
  <2> SUFFICES ASSUME NEW cmd \in {"continue", "stepinst"},
                      ResumeFindsDead(cmd) \/ StepOffBreakpoint(cmd) \/ ResumeDirectly(cmd)
               PROVE  FALSE
    OBVIOUS
  <2>1. ~ResumeFindsDead(cmd)
    BY <1>1 DEF ResumeFindsDead
  <2>2. DOMAIN Tracee = {"st", "prog", "mem", "rip", "why"} /\ Tracee.st = "stopped"
    BY <1>1, <1>2 DEF Process
  <2>3. CASE StepOffBreakpoint(cmd)
    <3>1. PICK i \in JustHit :
            LET r == sylvan_breakpoint_disable_ptr(table, Tracee.mem, isactive, i)
                rewound == [Tracee EXCEPT !.rip = Tracee.rip - 1, !.mem = r.mem]
            IN  \/ proc' = [proc EXCEPT ![P0] = [rewound EXCEPT !.st = "stepping", !.why = "-"]]
                \/ proc' = [proc EXCEPT ![P0] = rewound]
      BY <2>3 DEF StepOffBreakpoint
    <3> DEFINE r == sylvan_breakpoint_disable_ptr(table, Tracee.mem, isactive, i)
               rewound == [Tracee EXCEPT !.rip = Tracee.rip - 1, !.mem = r.mem]
    <3>2. rewound.st = "stopped" /\ [rewound EXCEPT !.st = "stepping", !.why = "-"].st = "stepping"
      BY <2>2
    <3> HIDE DEF rewound, r
    <3>3. proc'[P0].st \in {"stopped", "stepping"}
      BY <1>1, <1>2, <3>1, <3>2 DEF rewound, r
    <3> QED BY <3>3
  <2>4. CASE ResumeDirectly(cmd)
    <3>1. proc'[P0].st \in {"stepping", "running"}
      BY <1>1, <1>2, <2>2, <2>4 DEF ResumeDirectly, Resume
    <3> QED BY <3>1
  <2> QED BY <2>1, <2>3, <2>4
<1>9. ~WaitSteps
  BY <1>1, <1>2 DEF WaitSteps, WaitReturns, WaitFindsDead, Rearm, Process
<1>10. ~TraceeSteps
  <2> SUFFICES ASSUME TraceeSteps PROVE FALSE
    OBVIOUS
  <2>1. PICK p \in Pid :
          \/ \E r \in Addr : StepDone(p, r) \/ TrapHit(p, r) \/ StopBySignal(p, r) \/ StopByFault(p, r)
          \/ \E g \in Program : Exec(p, g) \/ Spawn(p, g)
          \/ Exit(p) \/ Killed(p) \/ FreeExit(p)
    BY DEF TraceeSteps
  <2>2. ASSUME NEW P, proc' = [proc EXCEPT ![p] = P], P.st # "none" \/ p # P0
        PROVE  FALSE
    BY <1>1, <1>2, <2>2
  <2>3. ASSUME NEW a, NEW why, StoppedAt(p, a, why)
        PROVE  FALSE
    <3> DEFINE P == [proc[p] EXCEPT !.st = "stopped", !.rip = a, !.why = why]
    <3>1. P.st # "none"
      BY <1>2 DEF Process
    <3>2. proc' = [proc EXCEPT ![p] = P]
      BY <2>3 DEF StoppedAt
    <3> HIDE DEF P
    <3> QED BY <2>2, <3>1, <3>2
  <2>4. CASE \E r \in Addr : StepDone(p, r) \/ TrapHit(p, r) \/ StopBySignal(p, r) \/ StopByFault(p, r)
    BY <2>3, <2>4 DEF StepDone, TrapHit, StopBySignal, StopByFault
  <2>5. CASE \E g \in Program : Exec(p, g) \/ Spawn(p, g)
    <3>1. PICK g \in Program : Exec(p, g) \/ Spawn(p, g)
      BY <2>5
    <3>2. Loaded(g, "free").st = "free" /\ [Loaded(g, "stopped") EXCEPT !.why = "signal"].st = "stopped"
      BY DEF Loaded
    <3> QED BY <2>2, <3>1, <3>2 DEF Exec, Spawn
  <2>6. CASE Exit(p) \/ Killed(p)
    <3>1. Zombie("exit").st = "zombie" /\ Zombie("kill").st = "zombie"
      BY ProcessRecords DEF Cause
    <3> QED BY <2>2, <2>6, <3>1 DEF Exit, Killed
  <2>7. CASE FreeExit(p)
    <3>1. p # P0
      BY <1>2, <2>7 DEF FreeExit
    <3> QED BY <2>2, <2>7, <3>1 DEF FreeExit
  <2> QED BY <2>1, <2>4, <2>5, <2>6, <2>7
<1> HIDE DEF d
<1> QED BY <1>3, <1>4, <1>5, <1>6, <1>7, <1>8, <1>9, <1>10 DEF Next, ProcessCalls

\* Only run, which replaces whatever process there is, ends an attached process that stands
\* still; detach, attach and destroy let it live (inferior.c:169-188, 247-343).
THEOREM AttachedProcessSurvives == Spec => AttachedSurvives
<1>1. IInv /\ [Next]_vars =>
        [isactive /\ inf.is_attached /\ Tracee.st = "stopped" /\ proc'[inf.pid].st = "none"
           => \/ RunFails \/ \E p \in Pid : sylvan_run(p) \/ RunReportsError(p) \/ RunAborts(p)
              \/ AttachFindsDead(inf.pid)]_vars
  BY SurvivesStep
<1> QED BY <1>1, Inductive, PTL DEF Spec, AttachedSurvives
=============================================================================
