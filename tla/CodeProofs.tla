----------------------------- MODULE CodeProofs -----------------------------
(***************************************************************************)
(* The flags of the breakpoints and the code of the processes agree, for   *)
(* every set of pids, every machine and every table size, as long as no    *)
(* slot is used a second time, nothing but sylvan's breakpoints changes    *)
(* code and every address can be read.  IInv says of the flags only that   *)
(* no trap is without one.  Here they are exact: Phys says that the slots  *)
(* whose flag is set, and no others, have their 0xCC in the memory m of    *)
(* program g and have saved its byte.                                      *)
(***************************************************************************)
EXTENDS InferiorProofs

\* breakpoint unset, write_mem, an execve of the tracee and an attach without symbols are
\* left aside, and so are programs with addresses that cannot be read.
Readable == \A g \in Program, a \in Addr : Image[g][a] # PeekFailed
Plain == Readable /\ Ops \cap {"unset", "write", "exec", "nosymbols"} = {}

Unstale(t) == \A i \in Slot \ Used(t) : ~t.breakpoints[i].is_enabled_phy

Phys(t, m, g) ==
  /\ g \in Program
  /\ \A a \in Addr : m[a] \in {Trap, Image[g][a]}
  /\ \A i \in Used(t) : t.breakpoints[i].is_enabled_phy =>
       /\ m[t.breakpoints[i].addr] = Trap
       /\ t.breakpoints[i].og_byte = Image[g][t.breakpoints[i].addr]

LogIn(t) == \A i \in Used(t) : t.breakpoints[i].is_enabled_log => t.breakpoints[i].is_enabled_phy

\* A free process holds its program.
Unpatched(q) ==
  \A p \in Pid : q[p].st = "free" => q[p].prog \in Program /\ q[p].mem = Image[q[p].prog]

\* What holds of any inferior i, table t and processes q between two calls.
Coded(i, t, q) ==
  /\ Unstale(t)
  /\ Unpatched(q)
  /\ ActiveInf(i) /\ q[i.pid].st \in Traced => Phys(t, q[i.pid].mem, q[i.pid].prog) /\ LogIn(t)

CodeInv == IInv /\ Coded(inf, table, proc)

-----------------------------------------------------------------------------
\* What the functions of breakpoint.c do to the flags.

Added(t, m, S) == BeforeBlocked({j \in S : ~t.breakpoints[j].is_enabled_phy}, t, m)

PutIn(b, byte) == [b EXCEPT !.og_byte = byte, !.is_enabled_phy = TRUE]
TakenOut(b) == [b EXCEPT !.is_enabled_phy = FALSE]

\* What Insert and Remove do to a slot (breakpoint.c:35-80).
LEMMA SlotAfter ==
  ASSUME NEW t \in Table, NEW m, NEW S \in SUBSET Used(t)
  PROVE  /\ Used(Insert(t, m, S).table) = Used(t) /\ Used(Remove(t, m, S).table) = Used(t)
         /\ \A i \in Slot :
              Insert(t, m, S).table.breakpoints[i] =
                IF i \in Added(t, m, S) THEN PutIn(t.breakpoints[i], m[t.breakpoints[i].addr])
                                       ELSE t.breakpoints[i]
         /\ \A i \in Slot :
              Remove(t, m, S).table.breakpoints[i] =
                IF i \in Removed(t, m, S) THEN TakenOut(t.breakpoints[i]) ELSE t.breakpoints[i]
BY DEF Insert, Remove, Outcome, Used, Table, Added, Removed, PutIn, TakenOut

\* Slots that are not in use keep their flags.
LEMMA UnstaleKept ==
  ASSUME NEW t \in Table, Unstale(t), NEW m, NEW S \in SUBSET Used(t)
  PROVE  /\ Unstale(Insert(t, m, S).table) /\ Unstale(Remove(t, m, S).table)
         /\ Unstale(sylvan_breakpoint_reset_phybp(t))
         /\ \A i \in Used(t) : \A flag : Unstale(WithLog(t, i, flag))
<1>1. \A todo : \A i \in BeforeBlocked(todo, t, m) : i \in todo
  BY DEF BeforeBlocked
<1>2. Unstale(Insert(t, m, S).table) /\ Unstale(Remove(t, m, S).table)
  <2> DEFINE on == Added(t, m, S)
             off == Removed(t, m, S)
             u == Insert(t, m, S).table
             v == Remove(t, m, S).table
  <2>1. \A i \in on \cup off : i \in Used(t)
    BY <1>1 DEF Added, Removed
  <2>2. Used(u) = Used(t) /\ \A i \in Slot : i \notin on => u.breakpoints[i] = t.breakpoints[i]
    BY SlotAfter
  <2>3. Used(v) = Used(t) /\ \A i \in Slot : i \notin off => v.breakpoints[i] = t.breakpoints[i]
    BY SlotAfter
  <2> HIDE DEF on, off, u, v
  <2>4. Unstale(u) /\ Unstale(v)
    BY <2>1, <2>2, <2>3 DEF Unstale
  <2> QED BY <2>4 DEF u, v
<1>3. Unstale(sylvan_breakpoint_reset_phybp(t))
  BY DEF Unstale, sylvan_breakpoint_reset_phybp, Used, Table
<1>4. \A i \in Used(t) : \A flag : Unstale(WithLog(t, i, flag))
  BY DEF Unstale, WithLog, Used, Table, Breakpoint
<1> QED BY <1>2, <1>3, <1>4

\* In code that can be read nothing stops an insertion or a removal.
LEMMA NothingBlocked ==
  ASSUME Readable, NEW t \in Table, NEW m, NEW g, Phys(t, m, g), NEW todo \in SUBSET Slot
  PROVE  BeforeBlocked(todo, t, m) = todo /\ PeekCode(todo, t, m) = "OK"
<1>1. \A j \in todo : t.breakpoints[j].addr \in Addr
  BY DEF Table, Breakpoint
<1>2. \A a \in Addr : m[a] # PeekFailed
  BY Constants DEF Phys, Readable
<1> QED BY <1>1, <1>2 DEF BeforeBlocked, PeekCode

\* Inserting the slots of S sets their flags, and keeps the flags and the code in agreement.
LEMMA InsertCode ==
  ASSUME Readable, NEW t, NEW m, NEW g, Good(t, m), Phys(t, m, g), NEW S \in SUBSET Used(t)
  PROVE  LET r == Insert(t, m, S)
         IN  /\ Phys(r.table, r.mem, g)
             /\ \A i \in Used(t) :
                  /\ r.table.breakpoints[i].is_enabled_phy <=> t.breakpoints[i].is_enabled_phy \/ i \in S
                  /\ r.table.breakpoints[i].is_enabled_log = t.breakpoints[i].is_enabled_log
<1> DEFINE r == Insert(t, m, S)
           todo == {j \in S : ~t.breakpoints[j].is_enabled_phy}
<1>1. /\ t \in Table /\ DistinctAddrs(t) /\ Owned(t, m) /\ Used(t) \subseteq Slot
      /\ todo \subseteq Used(t)
  BY DEF Good, TableOK, Used
<1>2. BeforeBlocked(todo, t, m) = todo
  BY <1>1, NothingBlocked
<1>3. Used(r.table) = Used(t)
      /\ \A i \in Slot : r.table.breakpoints[i] =
           IF i \in todo THEN PutIn(t.breakpoints[i], m[t.breakpoints[i].addr]) ELSE t.breakpoints[i]
  <2>1. Added(t, m, S) = todo
    BY <1>2 DEF Added
  <2> HIDE DEF todo
  <2> QED BY <1>1, <2>1, SlotAfter
<1>4. \A a \in Addr : r.mem[a] = IF \E i \in todo : t.breakpoints[i].addr = a THEN Trap ELSE m[a]
  BY <1>2 DEF Insert, Outcome
<1> HIDE DEF r
<1>5. \A i \in Used(t) : /\ t.breakpoints[i] \in Breakpoint
                         /\ t.breakpoints[i].addr \in Addr
  BY <1>1 DEF Table, Breakpoint
<1>6. \A i \in Used(t) :
        /\ r.table.breakpoints[i].addr = t.breakpoints[i].addr
        /\ r.table.breakpoints[i].is_enabled_log = t.breakpoints[i].is_enabled_log
        /\ r.table.breakpoints[i].is_enabled_phy <=> t.breakpoints[i].is_enabled_phy \/ i \in S
        /\ r.table.breakpoints[i].og_byte =
             IF i \in todo THEN m[t.breakpoints[i].addr] ELSE t.breakpoints[i].og_byte
  BY <1>1, <1>3, <1>5 DEF Breakpoint, PutIn, TakenOut
<1>7. \A i \in todo : m[t.breakpoints[i].addr] = Image[g][t.breakpoints[i].addr]
  <2> TAKE i \in todo
  <2>1. m[t.breakpoints[i].addr] # Trap
    <3> SUFFICES ASSUME m[t.breakpoints[i].addr] = Trap PROVE FALSE
      OBVIOUS
    <3>1. PICK j \in Used(t) : t.breakpoints[j].addr = t.breakpoints[i].addr /\ t.breakpoints[j].is_enabled_phy
      BY <1>1, <1>5 DEF Owned
    <3> QED BY <1>1, <3>1 DEF DistinctAddrs
  <2> QED BY <1>1, <1>5, <2>1 DEF Phys
<1>8. Phys(r.table, r.mem, g)
  <2>1. g \in Program /\ \A a \in Addr : r.mem[a] \in {Trap, Image[g][a]}
    BY <1>4 DEF Phys
  <2>2. ASSUME NEW i \in Used(t), r.table.breakpoints[i].is_enabled_phy
        PROVE  /\ r.mem[t.breakpoints[i].addr] = Trap
               /\ r.table.breakpoints[i].og_byte = Image[g][t.breakpoints[i].addr]
    <3>1. CASE i \in todo
      BY <1>4, <1>5, <1>6, <1>7, <3>1
    <3>2. CASE i \notin todo
      <4>1. t.breakpoints[i].is_enabled_phy
        BY <1>6, <2>2, <3>2
      <4> QED BY <1>4, <1>5, <1>6, <3>2, <4>1 DEF Phys
    <3> QED BY <3>1, <3>2
  <2> QED BY <1>3, <1>6, <2>1, <2>2 DEF Phys
<1> QED BY <1>6, <1>8 DEF r

\* Removing the slots of S clears their flags and puts the program's bytes back.
LEMMA RemoveCode ==
  ASSUME Readable, NEW t, NEW m, NEW g, Good(t, m), Phys(t, m, g), NEW S \in SUBSET Used(t)
  PROVE  LET r == Remove(t, m, S)
         IN  /\ Phys(r.table, r.mem, g) /\ r.ret = "OK"
             /\ \A i \in Used(t) :
                  /\ r.table.breakpoints[i].is_enabled_phy <=> t.breakpoints[i].is_enabled_phy /\ i \notin S
                  /\ r.table.breakpoints[i].is_enabled_log = t.breakpoints[i].is_enabled_log
<1> DEFINE r == Remove(t, m, S)
           todo == {j \in S : t.breakpoints[j].is_enabled_phy}
           Saved(a) == t.breakpoints[CHOOSE i \in todo : t.breakpoints[i].addr = a].og_byte
<1>1. /\ t \in Table /\ DistinctAddrs(t) /\ Owned(t, m) /\ Used(t) \subseteq Slot
      /\ todo \subseteq Used(t)
  BY DEF Good, TableOK, Used
<1>2. BeforeBlocked(todo, t, m) = todo /\ PeekCode(todo, t, m) = "OK"
  BY <1>1, NothingBlocked
<1>3. Used(r.table) = Used(t)
      /\ \A i \in Slot : r.table.breakpoints[i] =
           IF i \in todo THEN TakenOut(t.breakpoints[i]) ELSE t.breakpoints[i]
  <2>1. Removed(t, m, S) = todo
    BY <1>2 DEF Removed
  <2> HIDE DEF todo
  <2> QED BY <1>1, <2>1, SlotAfter
<1>4. r.ret = "OK"
      /\ \A a \in Addr : r.mem[a] = IF \E i \in todo : t.breakpoints[i].addr = a THEN Saved(a) ELSE m[a]
  BY <1>2 DEF Remove, Outcome
<1> HIDE DEF r
<1>5. \A i \in Used(t) : /\ t.breakpoints[i] \in Breakpoint
                         /\ t.breakpoints[i].addr \in Addr
  BY <1>1 DEF Table, Breakpoint
<1>6. \A i \in Used(t) :
        /\ r.table.breakpoints[i].addr = t.breakpoints[i].addr
        /\ r.table.breakpoints[i].og_byte = t.breakpoints[i].og_byte
        /\ r.table.breakpoints[i].is_enabled_log = t.breakpoints[i].is_enabled_log
        /\ r.table.breakpoints[i].is_enabled_phy <=> t.breakpoints[i].is_enabled_phy /\ i \notin S
  BY <1>1, <1>3, <1>5 DEF Breakpoint, PutIn, TakenOut
<1>7. \A a \in Addr : (\E i \in todo : t.breakpoints[i].addr = a) => Saved(a) = Image[g][a]
  <2> SUFFICES ASSUME NEW a \in Addr, \E i \in todo : t.breakpoints[i].addr = a
               PROVE  Saved(a) = Image[g][a]
    OBVIOUS
  <2> DEFINE c == CHOOSE i \in todo : t.breakpoints[i].addr = a
  <2>1. c \in todo /\ t.breakpoints[c].addr = a
    OBVIOUS
  <2> HIDE DEF c
  <2>2. t.breakpoints[c].og_byte = Image[g][a]
    BY <1>1, <2>1 DEF Phys
  <2> QED BY <2>2 DEF c
<1> HIDE DEF Saved
<1>8. Phys(r.table, r.mem, g)
  <2>1. g \in Program /\ \A a \in Addr : r.mem[a] \in {Trap, Image[g][a]}
    BY <1>4, <1>7 DEF Phys
  <2>2. ASSUME NEW i \in Used(t), r.table.breakpoints[i].is_enabled_phy
        PROVE  /\ r.mem[t.breakpoints[i].addr] = Trap
               /\ r.table.breakpoints[i].og_byte = Image[g][t.breakpoints[i].addr]
    <3>1. t.breakpoints[i].is_enabled_phy /\ i \notin S
      BY <1>6, <2>2
    <3>2. ~\E j \in todo : t.breakpoints[j].addr = t.breakpoints[i].addr
      BY <1>1, <3>1 DEF DistinctAddrs
    <3> QED BY <1>4, <1>5, <1>6, <3>1, <3>2 DEF Phys
  <2> QED BY <1>3, <1>6, <2>1, <2>2 DEF Phys
<1> QED BY <1>4, <1>6, <1>8 DEF r

-----------------------------------------------------------------------------
\* What the operations of breakpoint.h do to the flags and to the code.

Agree(t, m, g) == Phys(t, m, g) /\ LogIn(t)

\* The result r of an operation on table t and memory m.
Keeps(r, t, m, active) ==
  /\ Unstale(r.table)
  /\ \A g \in Program : active /\ Agree(t, m, g) => Agree(r.table, r.mem, g)

\* The logical flag of one slot is set or cleared; everything else stays.
LEMMA WithLogCode ==
  ASSUME NEW t \in Table, NEW i \in Used(t), NEW flag \in BOOLEAN
  PROVE  LET u == WithLog(t, i, flag)
         IN  /\ Used(u) = Used(t)
             /\ \A j \in Slot :
                  /\ u.breakpoints[j].addr = t.breakpoints[j].addr
                  /\ u.breakpoints[j].og_byte = t.breakpoints[j].og_byte
                  /\ u.breakpoints[j].is_enabled_phy = t.breakpoints[j].is_enabled_phy
                  /\ u.breakpoints[j].is_enabled_log = IF j = i THEN flag ELSE t.breakpoints[j].is_enabled_log
             /\ \A m, g : Phys(t, m, g) => Phys(u, m, g)
<1> DEFINE u == WithLog(t, i, flag)
<1>1. i \in Slot /\ Used(t) \subseteq Slot
  BY DEF Used
<1>2. Used(u) = Used(t)
  BY DEF WithLog, Used, Table
<1>3. \A j \in Slot : u.breakpoints[j] =
        IF j = i THEN [t.breakpoints[i] EXCEPT !.is_enabled_log = flag] ELSE t.breakpoints[j]
  BY <1>1 DEF WithLog, Table
<1>4. \A j \in Slot : t.breakpoints[j] \in Breakpoint
  BY DEF Table
<1> HIDE DEF u
<1>5. \A j \in Slot :
        /\ u.breakpoints[j].addr = t.breakpoints[j].addr
        /\ u.breakpoints[j].og_byte = t.breakpoints[j].og_byte
        /\ u.breakpoints[j].is_enabled_phy = t.breakpoints[j].is_enabled_phy
        /\ u.breakpoints[j].is_enabled_log = IF j = i THEN flag ELSE t.breakpoints[j].is_enabled_log
  BY <1>3, <1>4 DEF Breakpoint
<1>6. \A m, g : Phys(t, m, g) => Phys(u, m, g)
  BY <1>1, <1>2, <1>5 DEF Phys
<1> QED BY <1>2, <1>5, <1>6 DEF u

\* The user enables slot i: its 0xCC goes in (breakpoint.c:85-109).
LEMMA EnablePtrCode ==
  ASSUME Readable, NEW t, NEW m, NEW g, Good(t, m), Phys(t, m, g), NEW i \in Used(t),
         \A j \in Used(t) \ {i} : t.breakpoints[j].is_enabled_log => t.breakpoints[j].is_enabled_phy
  PROVE  LET r == Insert(WithLog(t, i, TRUE), m, {i}) IN Agree(r.table, r.mem, g)
<1> DEFINE u == WithLog(t, i, TRUE)
           r == Insert(u, m, {i})
<1>1. t \in Table /\ i \in Slot /\ Used(t) \subseteq Slot
  BY DEF Good, TableOK, Used
<1>2. Good(u, m) /\ Used(u) = Used(t)
  BY <1>1, WithLogGood
<1>3. Phys(u, m, g) /\ \A j \in Slot :
        /\ u.breakpoints[j].is_enabled_phy = t.breakpoints[j].is_enabled_phy
        /\ u.breakpoints[j].is_enabled_log = IF j = i THEN TRUE ELSE t.breakpoints[j].is_enabled_log
  <2> DEFINE flag == TRUE
  <2>1. flag \in BOOLEAN /\ Phys(t, m, g)
    BY DEF Agree
  <2> HIDE DEF flag
  <2>2. Phys(WithLog(t, i, flag), m, g) /\ \A j \in Slot :
        /\ WithLog(t, i, flag).breakpoints[j].is_enabled_phy = t.breakpoints[j].is_enabled_phy
        /\ WithLog(t, i, flag).breakpoints[j].is_enabled_log =
             IF j = i THEN flag ELSE t.breakpoints[j].is_enabled_log
    BY <1>1, <2>1, WithLogCode
  <2> QED BY <2>2 DEF flag, u
<1> HIDE DEF u
<1>4. Used(r.table) = Used(u)
  <2>1. u \in Table /\ {i} \in SUBSET Used(u)
    BY <1>2 DEF Good, TableOK
  <2> QED BY <2>1, SlotAfter
<1>5. /\ Phys(r.table, r.mem, g)
      /\ \A j \in Used(u) :
           /\ r.table.breakpoints[j].is_enabled_phy <=> u.breakpoints[j].is_enabled_phy \/ j \in {i}
           /\ r.table.breakpoints[j].is_enabled_log = u.breakpoints[j].is_enabled_log
  BY <1>2, <1>3, InsertCode
<1> HIDE DEF r
<1>6. LogIn(r.table)
  BY <1>1, <1>2, <1>3, <1>4, <1>5 DEF LogIn
<1> QED BY <1>5, <1>6 DEF Agree, r, u

\* The user disables slot i, or a step off it does: its 0xCC goes out (breakpoint.c:111-134).
LEMMA DisablePtrCode ==
  ASSUME Readable, NEW t, NEW m, NEW g, Good(t, m), Agree(t, m, g), NEW i \in Used(t)
  PROVE  LET r == Remove(WithLog(t, i, FALSE), m, {i})
         IN  Agree(r.table, r.mem, g) /\ r.ret = "OK"
<1> DEFINE u == WithLog(t, i, FALSE)
           r == Remove(u, m, {i})
<1>1. t \in Table /\ i \in Slot /\ Used(t) \subseteq Slot
  BY DEF Good, TableOK, Used
<1>2. Good(u, m) /\ Used(u) = Used(t)
  BY <1>1, WithLogGood
<1>3. Phys(u, m, g) /\ \A j \in Slot :
        /\ u.breakpoints[j].is_enabled_phy = t.breakpoints[j].is_enabled_phy
        /\ u.breakpoints[j].is_enabled_log = IF j = i THEN FALSE ELSE t.breakpoints[j].is_enabled_log
  <2> DEFINE flag == FALSE
  <2>1. flag \in BOOLEAN /\ Phys(t, m, g)
    BY DEF Agree
  <2> HIDE DEF flag
  <2>2. Phys(WithLog(t, i, flag), m, g) /\ \A j \in Slot :
        /\ WithLog(t, i, flag).breakpoints[j].is_enabled_phy = t.breakpoints[j].is_enabled_phy
        /\ WithLog(t, i, flag).breakpoints[j].is_enabled_log =
             IF j = i THEN flag ELSE t.breakpoints[j].is_enabled_log
    BY <1>1, <2>1, WithLogCode
  <2> QED BY <2>2 DEF flag, u
<1> HIDE DEF u
<1>4. Used(r.table) = Used(u)
  <2>1. u \in Table /\ {i} \in SUBSET Used(u)
    BY <1>2 DEF Good, TableOK
  <2> QED BY <2>1, SlotAfter
<1>5. /\ Phys(r.table, r.mem, g) /\ r.ret = "OK"
      /\ \A j \in Used(u) :
           /\ r.table.breakpoints[j].is_enabled_phy <=> u.breakpoints[j].is_enabled_phy /\ j \notin {i}
           /\ r.table.breakpoints[j].is_enabled_log = u.breakpoints[j].is_enabled_log
  BY <1>2, <1>3, RemoveCode
<1> HIDE DEF r
<1>6. LogIn(r.table)
  BY <1>1, <1>2, <1>3, <1>4, <1>5 DEF LogIn, Agree
<1> QED BY <1>5, <1>6 DEF Agree, r, u

\* A slot is enabled or disabled, with a process or without one.
LEMMA PtrCode ==
  ASSUME Readable, NEW t, NEW m, Good(t, m), Unstale(t), NEW active \in BOOLEAN, NEW i \in Used(t)
  PROVE  /\ Keeps(sylvan_breakpoint_enable_ptr(t, m, active, i), t, m, active)
         /\ Keeps(sylvan_breakpoint_disable_ptr(t, m, active, i), t, m, active)
<1> DEFINE on == WithLog(t, i, TRUE)
           off == WithLog(t, i, FALSE)
<1>1. t \in Table /\ i \in Slot
  BY DEF Good, TableOK, Used
<1>2. Unstale(on) /\ Unstale(off)
  BY <1>1, UnstaleKept, {} \in SUBSET Used(t)
<1>3. /\ on \in Table /\ off \in Table /\ Good(on, m) /\ Good(off, m)
      /\ i \in Used(on) /\ i \in Used(off)
  BY <1>1, WithLogGood DEF Good, TableOK
<1>4. Unstale(Insert(on, m, {i}).table) /\ Unstale(Remove(off, m, {i}).table)
  <2> HIDE DEF on, off
  <2>1. {i} \in SUBSET Used(on) /\ {i} \in SUBSET Used(off)
    BY <1>3
  <2> QED BY <1>2, <1>3, <2>1, UnstaleKept
<1>5. ASSUME NEW g \in Program, Agree(t, m, g)
      PROVE  /\ Agree(Insert(on, m, {i}).table, Insert(on, m, {i}).mem, g)
             /\ Agree(Remove(off, m, {i}).table, Remove(off, m, {i}).mem, g)
  <2>1. Phys(t, m, g) /\ \A j \in Used(t) \ {i} : t.breakpoints[j].is_enabled_log => t.breakpoints[j].is_enabled_phy
    BY <1>5 DEF Agree, LogIn
  <2> QED BY <1>5, <2>1, EnablePtrCode, DisablePtrCode
<1>6. CASE active
  <2>1. /\ sylvan_breakpoint_enable_ptr(t, m, active, i) = Insert(on, m, {i})
        /\ sylvan_breakpoint_disable_ptr(t, m, active, i) = Remove(off, m, {i})
    BY <1>6 DEF sylvan_breakpoint_enable_ptr, sylvan_breakpoint_disable_ptr,
         sylvan_breakpoint_create_phybp, sylvan_breakpoint_remove_phybp
  <2> HIDE DEF on, off
  <2> QED BY <1>4, <1>5, <2>1 DEF Keeps
<1>7. CASE ~active
  <2>1. /\ sylvan_breakpoint_enable_ptr(t, m, active, i).table = on
        /\ sylvan_breakpoint_disable_ptr(t, m, active, i).table = off
    BY <1>7 DEF sylvan_breakpoint_enable_ptr, sylvan_breakpoint_disable_ptr, Outcome
  <2> HIDE DEF on, off
  <2> QED BY <1>2, <1>7, <2>1 DEF Keeps
<1> QED BY <1>6, <1>7

\* breakpoint enable and breakpoint disable, by address.
LEMMA EnableDisableCode ==
  ASSUME Readable, NEW t, NEW m, Good(t, m), Unstale(t), NEW active \in BOOLEAN, NEW a
  PROVE  /\ Keeps(sylvan_breakpoint_enable(t, m, active, a), t, m, active)
         /\ Keeps(sylvan_breakpoint_disable(t, m, active, a), t, m, active)
<1>1. CASE Matches(t, a) = {}
  BY <1>1 DEF sylvan_breakpoint_enable, sylvan_breakpoint_disable, Outcome, Keeps
<1>2. CASE Matches(t, a) # {}
  <2> DEFINE i == sylvan_breakpoint_find_by_addr(t, a)
  <2>1. i \in Used(t)
    BY <1>2, FindFacts DEF Good
  <2>2. /\ sylvan_breakpoint_enable(t, m, active, a) = sylvan_breakpoint_enable_ptr(t, m, active, i)
        /\ sylvan_breakpoint_disable(t, m, active, a) = sylvan_breakpoint_disable_ptr(t, m, active, i)
    BY <1>2 DEF sylvan_breakpoint_enable, sylvan_breakpoint_disable
  <2> HIDE DEF i
  <2> QED BY <2>1, <2>2, PtrCode
<1> QED BY <1>1, <1>2

\* The slot that breakpoint set takes holds no flag of an earlier breakpoint.
LEMMA AppendCode ==
  ASSUME NEW t, NEW m, Good(t, m), Unstale(t), NEW a \in Addr,
         t.breakpoint_count # MAX_BREAKPOINTS, Matches(t, a) = {}
  PROVE  LET u == Append(t, a)
             n == t.breakpoint_count
         IN  /\ Unstale(u) /\ Good(u, m) /\ n \in Used(u)
             /\ \A g \in Program : Agree(t, m, g) =>
                  /\ Phys(u, m, g)
                  /\ \A j \in Used(u) \ {n} :
                       u.breakpoints[j].is_enabled_log => u.breakpoints[j].is_enabled_phy
<1> DEFINE u == Append(t, a)
           n == t.breakpoint_count
<1>1. t \in Table /\ n \in Slot /\ n \notin Used(t)
  BY Constants DEF Good, TableOK, Table, Used
<1>2. Good(u, m) /\ n \in Used(u)
  BY AppendGood
<1>3. Used(u) = Used(t) \cup {n}
  <2>1. u.breakpoint_count = n + 1
    BY DEF Append
  <2> QED BY <1>1, <2>1, Constants DEF Used, Table
<1>4. \A j \in Slot : u.breakpoints[j] =
        IF j = n THEN [t.breakpoints[n] EXCEPT !.addr = a, !.is_enabled_log = TRUE] ELSE t.breakpoints[j]
  BY <1>1 DEF Append, Table
<1>5. t.breakpoints[n] \in Breakpoint /\ ~t.breakpoints[n].is_enabled_phy
  BY <1>1 DEF Unstale, Table
<1> HIDE DEF u, n
<1>6. ~u.breakpoints[n].is_enabled_phy
  BY <1>1, <1>4, <1>5 DEF Breakpoint
<1>7. Unstale(u)
  BY <1>1, <1>3, <1>4 DEF Unstale
<1>8. \A j \in Used(t) : j \in Slot /\ j # n
  BY <1>1 DEF Used
<1>9. ASSUME NEW g \in Program, Agree(t, m, g)
      PROVE  /\ Phys(u, m, g)
             /\ \A j \in Used(u) \ {n} :
                  u.breakpoints[j].is_enabled_log => u.breakpoints[j].is_enabled_phy
  <2>1. Phys(u, m, g)
    BY <1>3, <1>4, <1>6, <1>8, <1>9 DEF Agree, Phys
  <2> QED BY <1>3, <1>4, <1>8, <1>9, <2>1 DEF Agree, LogIn
<1> QED BY <1>2, <1>7, <1>9 DEF u, n

\* breakpoint set.
LEMMA SetCode ==
  ASSUME Readable, NEW t, NEW m, Good(t, m), Unstale(t), NEW active \in BOOLEAN, NEW a \in Addr
  PROVE  Keeps(sylvan_breakpoint_set(t, m, active, a), t, m, active)
<1>1. CASE t.breakpoint_count = MAX_BREAKPOINTS \/ Matches(t, a) # {}
  BY <1>1 DEF sylvan_breakpoint_set, Outcome, Keeps
<1>2. CASE t.breakpoint_count # MAX_BREAKPOINTS /\ Matches(t, a) = {}
  <2> DEFINE u == Append(t, a)
             n == t.breakpoint_count
             r == sylvan_breakpoint_set(t, m, active, a)
  <2>1. /\ Unstale(u) /\ Good(u, m) /\ n \in Used(u)
        /\ \A g \in Program : Agree(t, m, g) =>
             /\ Phys(u, m, g)
             /\ \A j \in Used(u) \ {n} : u.breakpoints[j].is_enabled_log => u.breakpoints[j].is_enabled_phy
    BY <1>2, AppendCode
  <2>2. CASE active
    <3>1. r = sylvan_breakpoint_enable_ptr(u, m, active, n)
      BY <1>2, <2>2 DEF sylvan_breakpoint_set
    <3>2. r = Insert(WithLog(u, n, TRUE), m, {n})
      BY <3>1, <2>2 DEF sylvan_breakpoint_enable_ptr, sylvan_breakpoint_create_phybp
    <3> HIDE DEF u, n, r
    <3>3. Unstale(r.table)
      BY <2>1, <3>1, PtrCode DEF Keeps
    <3>4. ASSUME NEW g \in Program, Agree(t, m, g) PROVE Agree(r.table, r.mem, g)
      BY <2>1, <3>2, <3>4, EnablePtrCode
    <3> QED BY <3>3, <3>4 DEF Keeps, r
  <2>3. CASE ~active
    BY <1>2, <2>1, <2>3 DEF sylvan_breakpoint_set, Outcome, Keeps
  <2> QED BY <2>2, <2>3
<1> QED BY <1>1, <1>2

\* run and attach put every breakpoint into the code of program g as it was loaded.
LEMMA ReplantCode ==
  ASSUME Readable, NEW t, TableOK(t), Unstale(t), NEW g \in Program
  PROVE  LET s == sylvan_breakpoint_setall_phybp(sylvan_breakpoint_reset_phybp(t), Image[g])
         IN  Unstale(s.table) /\ Agree(s.table, s.mem, g)
<1> DEFINE u == sylvan_breakpoint_reset_phybp(t)
           m == Image[g]
           s == Insert(u, m, Used(u))
<1>1. t \in Table /\ Used(t) \subseteq Slot
  BY DEF TableOK, Used
<1>2. TableOK(u) /\ Unstale(u) /\ m \in Memory /\ Clean(m)
  BY <1>1, UnstaleKept, {} \in SUBSET Used(t), ResetAndSetallGood, MoreConstants
<1>3. Used(u) = Used(t) /\ Used(u) \in SUBSET Used(u)
  BY <1>1 DEF sylvan_breakpoint_reset_phybp, Used, Table
<1>4. \A i \in Used(t) : ~u.breakpoints[i].is_enabled_phy
  BY <1>1 DEF sylvan_breakpoint_reset_phybp, Table, Breakpoint
<1> HIDE DEF u
<1>5. Good(u, m) /\ Phys(u, m, g)
  BY <1>2, <1>3, <1>4 DEF Good, Owned, Clean, Phys
<1>6. Unstale(s.table)
  BY <1>2, <1>3, UnstaleKept DEF TableOK
<1>7. Used(s.table) = Used(u)
  BY <1>2, <1>3, SlotAfter DEF TableOK
<1>8. /\ Phys(s.table, s.mem, g)
      /\ \A i \in Used(u) : s.table.breakpoints[i].is_enabled_phy
  BY <1>3, <1>5, InsertCode
<1> HIDE DEF s
<1>9. Agree(s.table, s.mem, g)
  BY <1>7, <1>8 DEF Agree, LogIn
<1> QED BY <1>6, <1>9 DEF s, u, sylvan_breakpoint_setall_phybp

\* detach leaves the code as it was loaded.
LEMMA ClearCode ==
  ASSUME Readable, NEW t, NEW m, Good(t, m), Unstale(t), NEW g \in Program, Agree(t, m, g)
  PROVE  LET r == sylvan_breakpoint_unsetall_phybp(t, m)
         IN  Unstale(r.table) /\ r.ret = "OK" /\ r.mem = Image[g]
<1> DEFINE r == sylvan_breakpoint_unsetall_phybp(t, m)
<1>1. t \in Table /\ Used(t) \in SUBSET Used(t)
  BY DEF Good, TableOK
<1>2. Unstale(r.table)
  BY <1>1, UnstaleKept DEF sylvan_breakpoint_unsetall_phybp
<1>3. Phys(r.table, r.mem, g) /\ r.ret = "OK"
  BY <1>1, RemoveCode DEF Agree, sylvan_breakpoint_unsetall_phybp
<1>4. Good(r.table, r.mem) /\ Clean(r.mem)
  BY <1>1, <1>3, RemoveGood, UnsetallCleans DEF sylvan_breakpoint_unsetall_phybp
<1> HIDE DEF r
<1>5. r.mem \in [Addr -> Cell] /\ Image[g] \in [Addr -> Cell]
  BY <1>4, MoreConstants DEF Good, Memory
<1>6. \A a \in Addr : r.mem[a] = Image[g][a]
  BY <1>3, <1>4 DEF Phys, Clean
<1>7. r.mem = Image[g]
  BY <1>5, <1>6
<1> QED BY <1>2, <1>3, <1>7 DEF r

-----------------------------------------------------------------------------
\* One process changes.

AsLoaded(P) == P.st = "free" => P.prog \in Program /\ P.mem = Image[P.prog]

\* Process p becomes P; the inferior is active only if p is its process.
LEMMA ReplaceCoded ==
  ASSUME NEW q \in [Pid -> Process], Unpatched(q), NEW i2, NEW t2, Unstale(t2),
         NEW p \in Pid, NEW P, AsLoaded(P), ActiveInf(i2) => i2.pid = p,
         ActiveInf(i2) /\ P.st \in Traced => Agree(t2, P.mem, P.prog)
  PROVE  Coded(i2, t2, [q EXCEPT ![p] = P])
<1> DEFINE z == [q EXCEPT ![p] = P]
<1>1. \A x \in Pid : z[x] = IF x = p THEN P ELSE q[x]
  OBVIOUS
<1> HIDE DEF z
<1>2. Unpatched(z)
  BY <1>1 DEF Unpatched, AsLoaded
<1>3. ActiveInf(i2) /\ z[i2.pid].st \in Traced => Phys(t2, z[i2.pid].mem, z[i2.pid].prog) /\ LogIn(t2)
  BY <1>1 DEF Agree
<1> QED BY <1>2, <1>3 DEF Coded, z

\* A process that is not the inferior's comes or goes.
LEMMA OtherCoded ==
  ASSUME NEW i, NEW t, NEW q \in [Pid -> Process], Coded(i, t, q), NEW p \in Pid,
         ActiveInf(i) => i.pid \in Pid /\ i.pid # p, NEW P, AsLoaded(P)
  PROVE  Coded(i, t, [q EXCEPT ![p] = P])
<1> DEFINE z == [q EXCEPT ![p] = P]
<1>1. \A x \in Pid : z[x] = IF x = p THEN P ELSE q[x]
  OBVIOUS
<1> HIDE DEF z
<1>2. Coded(i, t, z)
  BY <1>1 DEF Coded, Unpatched, AsLoaded
<1> QED BY <1>2 DEF z

\* A dead process, or none, has no code to agree with; one that was loaded has its program's.
LEMMA LoadedFacts ==
  /\ AsLoaded(NoProcess) /\ NoProcess.st \notin Traced
  /\ \A why \in Cause : AsLoaded(Zombie(why)) /\ Zombie(why).st \notin Traced
  /\ \A g \in Program : AsLoaded(Loaded(g, "free"))
<1>1. \A g \in Program : Loaded(g, "free").prog = g
  BY DEF Loaded
<1> QED BY <1>1, ProcessRecords DEF AsLoaded, Traced, ProcState

-----------------------------------------------------------------------------
\* Letting go of the tracee.

\* sylvan_kill.
LEMMA KillCoded ==
  ASSUME CodeInv, dbg = Prompt
  PROVE  Coded(sylvan_kill.inf, table, sylvan_kill.proc)
<1>1. /\ inf \in Inferior /\ proc \in [Pid -> Process] /\ (isactive => inf.pid \in Pid)
      /\ Unstale(table) /\ Unpatched(proc)
  BY AtPromptInv DEF CodeInv, Coded, PromptInv
<1>2. CASE isactive
  <2>1. Coded(NoTracee, table, [proc EXCEPT ![inf.pid] = NoProcess])
    BY <1>1, <1>2, Forgotten, LoadedFacts, ReplaceCoded
  <2> QED BY <1>2, <2>1 DEF sylvan_kill, Left
<1>3. CASE ~isactive
  BY <1>3 DEF CodeInv, sylvan_kill, Left
<1> QED BY <1>2, <1>3

\* A process that is detached has the code that was loaded.
LEMMA DetachCoded ==
  ASSUME Readable, CodeInv, dbg = Prompt, inf.pid # 0
  PROVE  Coded(DetachTracee.inf, DetachTracee.table, DetachTracee.proc)
<1> DEFINE r == sylvan_breakpoint_unsetall_phybp(table, Tracee.mem)
           q == StoreMemory(proc, inf.pid, r.mem)
           P == [q[inf.pid] EXCEPT !.st = "free", !.rip = Entry, !.why = "-"]
<1>1. /\ inf \in Inferior /\ proc \in [Pid -> Process] /\ inf.pid \in Pid
      /\ Unstale(table) /\ Unpatched(proc) /\ IInv
  BY AtPromptInv DEF CodeInv, Coded, PromptInv, Inferior
<1>2. CASE HasDied
  <2>1. Coded(DeadInferior, table, [proc EXCEPT ![inf.pid] = NoProcess])
    BY <1>1, Forgotten, LoadedFacts, ReplaceCoded
  <2> QED BY <1>2, <2>1 DEF DetachTracee, Left
<1>3. CASE ~HasDied
  <2>1. /\ ActiveInf(inf) /\ Tracee \in Process /\ Tracee.st = "stopped" /\ Good(table, Tracee.mem)
    BY <1>1, <1>3, StoppedFacts
  <2>2. Agree(table, Tracee.mem, Tracee.prog) /\ Tracee.prog \in Program
    BY <2>1 DEF CodeInv, Coded, Agree, Phys, Tracee, Traced
  <2>3. Unstale(r.table) /\ r.ret = "OK" /\ r.mem = Image[Tracee.prog]
    BY <1>1, <2>1, <2>2, ClearCode
  <2>4. DetachTracee = Left(NoTracee, r.table, [q EXCEPT ![inf.pid] = P], TRUE)
    BY <1>3, <2>3 DEF DetachTracee
  <2> HIDE DEF r
  <2>5. q = [proc EXCEPT ![inf.pid] = [Tracee EXCEPT !.mem = r.mem]]
    BY <1>1, <2>1 DEF StoreMemory, Tracee
  <2>6. q[inf.pid] = [Tracee EXCEPT !.mem = r.mem]
    BY <1>1, <2>5
  <2>7. [q EXCEPT ![inf.pid] = P] = [proc EXCEPT ![inf.pid] = P]
    <3> HIDE DEF P, q
    <3> QED BY <1>1, <2>5
  <2>8. P.prog = Tracee.prog /\ P.mem = r.mem /\ P.st = "free"
    BY <2>1, <2>6 DEF Process
  <2> HIDE DEF P, q
  <2>9. Coded(NoTracee, r.table, [proc EXCEPT ![inf.pid] = P])
    BY <1>1, <2>2, <2>3, <2>8, Forgotten, ReplaceCoded DEF AsLoaded
  <2> QED BY <2>4, <2>7, <2>9 DEF Left
<1> QED BY <1>2, <1>3

\* Whatever happens to the old tracee.
LEMMA LeaveCoded ==
  ASSUME Readable, CodeInv, dbg = Prompt
  PROVE  LET d == sylvan_terminate_or_detach IN Coded(d.inf, d.table, d.proc)
<1>1. CASE isactive /\ inf.is_attached
  <2>1. inf.pid # 0
    BY <1>1, AtPromptInv DEF CodeInv, PromptInv, ActiveInf, isactive
  <2> QED BY <1>1, <2>1, DetachCoded DEF sylvan_terminate_or_detach
<1>2. CASE ~(isactive /\ inf.is_attached)
  BY <1>2, KillCoded, KillGood DEF sylvan_terminate_or_detach, CodeInv
<1> QED BY <1>1, <1>2

-----------------------------------------------------------------------------
\* One lemma per group of actions: each keeps the code and the flags in agreement.

CodedNext == Coded(inf', table', proc')

\* breakpoint set, enable and disable, on a live tracee, a dead one and without one.
LEMMA BreakpointCallCoded ==
  ASSUME Readable, CodeInv, NEW a \in Addr,
         BreakpointSet(a) \/ BreakpointEnable(a) \/ BreakpointDisable(a)
  PROVE  CodedNext
<1> DEFINE m == MemoryOf(proc, inf.pid)
<1>1. dbg = Prompt
  BY DEF BreakpointSet, BreakpointEnable, BreakpointDisable, AtPrompt
<1>2. /\ PromptInv(inf, table, proc) /\ Good(table, m) /\ isactive \in BOOLEAN
      /\ Unstale(table) /\ Unpatched(proc) /\ proc \in [Pid -> Process]
  BY <1>1, AtPromptInv, PromptGood DEF CodeInv, Coded, PromptInv, isactive
<1>3. ASSUME NEW r, Keeps(r, table, m, isactive), Apply(r)
      PROVE  CodedNext
  <2>1. table' = r.table /\ proc' = StoreMemory(proc, inf.pid, r.mem) /\ inf' = inf
    BY <1>3 DEF Apply
  <2>2. CASE inf.pid \in Pid /\ proc[inf.pid].st = "stopped"
    <3> DEFINE P == [proc[inf.pid] EXCEPT !.mem = r.mem]
    <3>1. m = proc[inf.pid].mem /\ ActiveInf(inf) /\ isactive
      BY <1>2, <2>2 DEF MemoryOf, PromptInv, Traced, ActiveInf, isactive
    <3>2. Agree(table, m, proc[inf.pid].prog) /\ proc[inf.pid].prog \in Program
      BY <2>2, <3>1 DEF CodeInv, Coded, Agree, Phys, Traced
    <3>3. Agree(r.table, r.mem, proc[inf.pid].prog) /\ Unstale(r.table)
      BY <1>3, <3>1, <3>2 DEF Keeps
    <3>4. P.st = "stopped" /\ P.mem = r.mem /\ P.prog = proc[inf.pid].prog
      BY <1>2, <2>2 DEF Process
    <3>5. proc' = [proc EXCEPT ![inf.pid] = P]
      BY <2>1, <2>2 DEF StoreMemory
    <3>6. AsLoaded(P) /\ Agree(r.table, P.mem, P.prog)
      BY <3>3, <3>4 DEF AsLoaded
    <3> HIDE DEF P, m
    <3>7. Coded(inf, r.table, [proc EXCEPT ![inf.pid] = P])
      BY <1>2, <2>2, <3>3, <3>6, ReplaceCoded
    <3> QED BY <2>1, <3>5, <3>7 DEF CodedNext
  <2>3. CASE ~(inf.pid \in Pid /\ proc[inf.pid].st = "stopped")
    <3>1. proc' = proc /\ Unstale(r.table)
      BY <1>3, <2>1, <2>3 DEF StoreMemory, Keeps
    <3>2. ~(ActiveInf(inf) /\ proc[inf.pid].st \in Traced)
      BY <1>2, <2>3 DEF PromptInv, Inferior, Traced
    <3> QED BY <1>2, <2>1, <3>1, <3>2 DEF CodedNext, Coded
  <2> QED BY <2>2, <2>3
<1> HIDE DEF m
<1>4. CASE BreakpointSet(a)
  BY <1>2, <1>3, <1>4, SetCode DEF BreakpointSet, m
<1>5. CASE BreakpointEnable(a)
  BY <1>2, <1>3, <1>5, EnableDisableCode DEF BreakpointEnable, m
<1>6. CASE BreakpointDisable(a)
  BY <1>2, <1>3, <1>6, EnableDisableCode DEF BreakpointDisable, m
<1> QED BY <1>4, <1>5, <1>6

\* detach, and destroy with the create that follows it.
LEMMA DetachCallsCoded ==
  ASSUME Readable, CodeInv, sylvan_detach \/ ReplaceInferior
  PROVE  CodedNext
<1>1. CASE sylvan_detach
  <2>1. dbg = Prompt /\ inf.pid # 0
    BY <1>1 DEF sylvan_detach, AtPrompt
  <2> QED BY <1>1, <2>1, DetachCoded DEF sylvan_detach, CodedNext
<1>2. CASE ReplaceInferior
  <2> DEFINE d == sylvan_terminate_or_detach
  <2>1. dbg = Prompt
    BY <1>2 DEF ReplaceInferior, AtPrompt
  <2>2. Coded(d.inf, d.table, d.proc)
    BY <2>1, LeaveCoded
  <2>3. /\ inf' = IF d.ok THEN FreshInferior ELSE d.inf
        /\ table' = IF d.ok THEN EmptyTable ELSE d.table
        /\ proc' = d.proc
    BY <1>2 DEF ReplaceInferior
  <2> HIDE DEF d
  <2>4. Unstale(EmptyTable)
    BY DEF Unstale, EmptyTable
  <2> QED BY <2>2, <2>3, <2>4, FreshRecords DEF Coded, CodedNext
<1> QED BY <1>1, <1>2

\* attach: what it finds is a program as it was loaded.
LEMMA AttachCallsCoded ==
  ASSUME Readable, CodeInv, NEW p \in Pid, NEW r \in Addr,
         AttachDenied(p) \/ AttachFindsDead(p) \/ sylvan_attach(p, r)
  PROVE  CodedNext
<1> DEFINE d == sylvan_terminate_or_detach
           s == sylvan_breakpoint_setall_phybp(sylvan_breakpoint_reset_phybp(d.table), d.proc[p].mem)
<1>1. dbg = Prompt /\ IInv
  BY DEF AttachDenied, AttachFindsDead, sylvan_attach, AtPrompt, CodeInv
<1>2. Coded(d.inf, d.table, d.proc)
  BY <1>1, LeaveCoded
<1>3. /\ d.inf \in Inferior /\ TableOK(d.table) /\ d.proc \in [Pid -> Process]
      /\ d.ok => ~ActiveInf(d.inf)
  BY <1>1, LeaveGood DEF PromptInv
<1>4. CASE AttachDenied(p)
  BY <1>2, <1>4 DEF AttachDenied, CodedNext
<1>5. CASE AttachFindsDead(p)
  <2>1. d.ok /\ inf' = d.inf /\ table' = d.table /\ proc' = [d.proc EXCEPT ![p] = NoProcess]
    BY <1>5 DEF AttachFindsDead
  <2> HIDE DEF d
  <2> QED BY <1>2, <1>3, <2>1, LoadedFacts, OtherCoded DEF CodedNext
<1>6. CASE sylvan_attach(p, r)
  <2> DEFINE i2 == [d.inf EXCEPT !.pid = p, !.status = "STOPPED", !.is_attached = TRUE,
                                 !.realpath = d.proc[p].prog]
             P == [AttachedAt(d.proc, p, r) EXCEPT !.mem = s.mem]
             g == d.proc[p].prog
  <2>1. /\ d.proc[p].st = "free"
        /\ inf' = i2 /\ table' = s.table /\ proc' = [d.proc EXCEPT ![p] = P]
    BY <1>6 DEF sylvan_attach
  <2> HIDE DEF d
  <2>2. g \in Program /\ d.proc[p].mem = Image[g] /\ Unpatched(d.proc) /\ Unstale(d.table)
    BY <1>2, <2>1 DEF Coded, Unpatched
  <2>3. Unstale(s.table) /\ Agree(s.table, s.mem, g)
    BY <1>3, <2>2, ReplantCode
  <2> HIDE DEF s
  <2>4. P.st = "stopped" /\ P.mem = s.mem /\ P.prog = g
    BY <1>3 DEF AttachedAt, Process
  <2>5. i2.pid = p
    BY <1>3 DEF Inferior
  <2> HIDE DEF i2, P, g
  <2> QED BY <1>3, <2>1, <2>2, <2>3, <2>4, <2>5, ReplaceCoded DEF CodedNext, AsLoaded
<1> QED BY <1>4, <1>5, <1>6

\* run: every way it can end, and the run that blocks.
LEMMA RunCallsCoded ==
  ASSUME Readable, CodeInv, \/ RunFails
                           \/ \E p \in Pid : RunReportsError(p) \/ RunAborts(p) \/ sylvan_run(p)
  PROVE  CodedNext
<1> DEFINE k == sylvan_kill
<1>1. dbg = Prompt /\ IInv
  BY DEF RunFails, RunReportsError, RunAborts, sylvan_run, AtPrompt, CodeInv
<1>2. Coded(k.inf, table, k.proc) /\ Unstale(table) /\ Unpatched(k.proc)
  BY <1>1, KillCoded DEF Coded
<1>3. /\ k.inf \in Inferior /\ ~ActiveInf(k.inf) /\ k.proc \in [Pid -> Process]
      /\ TableOK(table) /\ table \in Table
  BY <1>1, KillGood DEF PromptInv, TableOK
<1>4. CASE RunFails
  BY <1>2, <1>4 DEF RunFails, CodedNext
<1>5. ASSUME NEW p \in Pid, RunReportsError(p)
      PROVE  CodedNext
  <2>1. inf' = k.inf /\ table' = table /\ proc' = [k.proc EXCEPT ![p] = Zombie("exit")]
    BY <1>5 DEF RunReportsError
  <2>2. AsLoaded(Zombie("exit"))
    BY LoadedFacts DEF Cause
  <2> HIDE DEF k
  <2> QED BY <1>2, <1>3, <2>1, <2>2, OtherCoded DEF CodedNext
<1>6. ASSUME NEW p \in Pid, RunAborts(p)
      PROVE  CodedNext
  <2>1. /\ inf' = [k.inf EXCEPT !.pid = p, !.status = "TERMINATED", !.is_attached = FALSE]
        /\ proc' = k.proc /\ table' = sylvan_breakpoint_reset_phybp(table)
    BY <1>6 DEF RunAborts
  <2> HIDE DEF k
  <2>2. ~ActiveInf(inf')
    BY <1>3, <2>1 DEF ActiveInf, Inferior
  <2>3. Unstale(table')
    BY <1>2, <1>3, <2>1, UnstaleKept, {} \in SUBSET Used(table)
  <2> QED BY <1>2, <2>1, <2>2, <2>3 DEF CodedNext, Coded
<1>7. ASSUME NEW p \in Pid, sylvan_run(p)
      PROVE  CodedNext
  <2> DEFINE g == inf.realpath
             s == sylvan_breakpoint_setall_phybp(sylvan_breakpoint_reset_phybp(table), Image[g])
             child == [Loaded(g, "stopped") EXCEPT !.mem = s.mem, !.why = "signal"]
             moving == [child EXCEPT !.st = "running", !.why = "-"]
             i2 == [k.inf EXCEPT !.pid = p, !.status = "STOPPED", !.is_attached = FALSE]
  <2>1. g \in Program
    BY <1>1, <1>7 DEF sylvan_run, IInv, TypeOK, Inferior, NoPath
  <2>2. Unstale(s.table) /\ Agree(s.table, s.mem, g)
    BY <1>2, <1>3, <2>1, ReplantCode
  <2>3. /\ inf' = i2 /\ table' = s.table
        /\ s.ret = "OK" => proc' = [k.proc EXCEPT ![p] = moving]
        /\ s.ret # "OK" => proc' = [k.proc EXCEPT ![p] = child]
    BY <1>7 DEF sylvan_run
  <2> HIDE DEF s, k
  <2>4. i2.pid = p
    BY <1>3 DEF Inferior
  <2>5. child.prog = g /\ child.mem = s.mem /\ child.st = "stopped"
    BY DEF Loaded
  <2>6. moving.prog = g /\ moving.mem = s.mem /\ moving.st = "running"
    BY DEF Loaded
  <2>7. /\ AsLoaded(child) /\ AsLoaded(moving)
        /\ Agree(s.table, child.mem, child.prog) /\ Agree(s.table, moving.mem, moving.prog)
    BY <2>2, <2>5, <2>6 DEF AsLoaded
  <2> HIDE DEF child, moving, i2, g
  <2>8. /\ Coded(i2, s.table, [k.proc EXCEPT ![p] = child])
        /\ Coded(i2, s.table, [k.proc EXCEPT ![p] = moving])
    BY <1>2, <1>3, <2>2, <2>4, <2>7, ReplaceCoded
  <2> QED BY <2>3, <2>8 DEF CodedNext
<1> QED BY <1>4, <1>5, <1>6, <1>7

\* A dead tracee is reaped.
LEMMA ReapCoded ==
  ASSUME CodeInv, HasDied, ReapTracee, table' = table
  PROVE  CodedNext
<1>1. /\ inf \in Inferior /\ proc \in [Pid -> Process] /\ inf.pid \in Pid
      /\ Unstale(table) /\ Unpatched(proc)
  BY DEF CodeInv, IInv, TypeOK, Inferior, HasDied, Coded
<1>2. inf' = DeadInferior /\ proc' = [proc EXCEPT ![inf.pid] = NoProcess]
  BY DEF ReapTracee
<1> QED BY <1>1, <1>2, Forgotten, LoadedFacts, ReplaceCoded DEF CodedNext

\* What is known of a tracee that is about to be changed.
LEMMA TraceeCode ==
  ASSUME CodeInv, isactive, Tracee.st \in Traced
  PROVE  /\ Agree(table, Tracee.mem, Tracee.prog) /\ Tracee.prog \in Program
         /\ Unstale(table) /\ Unpatched(proc) /\ proc \in [Pid -> Process]
         /\ inf \in Inferior /\ inf.pid \in Pid /\ Tracee \in Process
<1>1. proc \in [Pid -> Process] /\ inf \in Inferior /\ inf.pid \in Pid /\ Tracee \in Process
  BY DEF CodeInv, IInv, TypeOK, PidIsOurs, Inferior, Tracee
<1> QED BY <1>1 DEF CodeInv, Coded, ActiveInf, isactive, Tracee, Agree, Phys

\* The tracee becomes P; the inferior stays.
LEMMA TraceeCoded ==
  ASSUME CodeInv, isactive, Tracee.st \in Traced, inf' = inf,
         NEW P, AsLoaded(P), proc' = [proc EXCEPT ![inf.pid] = P],
         Unstale(table'), P.st \in Traced => Agree(table', P.mem, P.prog)
  PROVE  CodedNext
BY TraceeCode, ReplaceCoded DEF CodedNext

\* continue and stepi: the tracee is dead, is stepped off a breakpoint, or is resumed.
LEMMA ResumeCallsCoded ==
  ASSUME Readable, CodeInv, NEW cmd \in {"continue", "stepinst"},
         ResumeFindsDead(cmd) \/ StepOffBreakpoint(cmd) \/ ResumeDirectly(cmd)
  PROVE  CodedNext
<1>1. dbg = Prompt /\ IInv
  BY DEF ResumeFindsDead, StepOffBreakpoint, ResumeDirectly, AtPrompt, CodeInv
<1>2. CASE ResumeFindsDead(cmd)
  BY <1>2, ReapCoded DEF ResumeFindsDead
<1>3. ASSUME inf.pid # 0, ~HasDied
      PROVE  /\ isactive /\ Tracee.st = "stopped" /\ Tracee.st \in Traced /\ Tracee \in Process
             /\ Good(table, Tracee.mem) /\ Unstale(table)
             /\ Agree(table, Tracee.mem, Tracee.prog) /\ Tracee.prog \in Program
  BY <1>1, <1>3, StoppedFacts, TraceeCode DEF Traced
<1>4. CASE StepOffBreakpoint(cmd)
  <2>1. PICK i \in JustHit :
       LET r == sylvan_breakpoint_disable_ptr(table, Tracee.mem, isactive, i)
           rewound == [Tracee EXCEPT !.rip = Tracee.rip - 1, !.mem = r.mem]
       IN  /\ table' = r.table
           /\ \/ proc' = [proc EXCEPT ![inf.pid] = [rewound EXCEPT !.st = "stepping", !.why = "-"]]
              \/ proc' = [proc EXCEPT ![inf.pid] = rewound]
    BY <1>4 DEF StepOffBreakpoint
  <2> DEFINE r == sylvan_breakpoint_disable_ptr(table, Tracee.mem, isactive, i)
             rewound == [Tracee EXCEPT !.rip = Tracee.rip - 1, !.mem = r.mem]
             moving == [rewound EXCEPT !.st = "stepping", !.why = "-"]
  <2>2. inf' = inf /\ inf.pid # 0 /\ ~HasDied /\ isactive
    BY <1>4 DEF StepOffBreakpoint
  <2>3. i \in Used(table) /\ isactive \in BOOLEAN
    BY <2>1 DEF JustHit, Matches, isactive
  <2>4. Unstale(r.table) /\ Agree(r.table, r.mem, Tracee.prog)
    BY <1>3, <2>2, <2>3, PtrCode DEF Keeps
  <2>5. table' = r.table /\ (proc' = [proc EXCEPT ![inf.pid] = moving] \/ proc' = [proc EXCEPT ![inf.pid] = rewound])
    BY <2>1
  <2> HIDE DEF r
  <2>6. /\ rewound.st = "stopped" /\ rewound.mem = r.mem /\ rewound.prog = Tracee.prog
        /\ moving.st = "stepping" /\ moving.mem = r.mem /\ moving.prog = Tracee.prog
    BY <1>3, <2>2 DEF Process
  <2> HIDE DEF rewound, moving
  <2>7. /\ AsLoaded(rewound) /\ Agree(table', rewound.mem, rewound.prog)
        /\ AsLoaded(moving) /\ Agree(table', moving.mem, moving.prog)
        /\ Unstale(table')
    BY <2>4, <2>5, <2>6 DEF AsLoaded
  <2> QED BY <1>3, <2>2, <2>5, <2>7, TraceeCoded
<1>5. CASE ResumeDirectly(cmd)
  <2> DEFINE P == [Tracee EXCEPT !.st = IF cmd = "stepinst" THEN "stepping" ELSE "running",
                                 !.why = "-"]
  <2>1. /\ inf' = inf /\ table' = table /\ inf.pid # 0 /\ ~HasDied
        /\ proc' = [proc EXCEPT ![inf.pid] = P]
    BY <1>5 DEF ResumeDirectly, Resume
  <2>2. P.st # "free" /\ P.mem = Tracee.mem /\ P.prog = Tracee.prog
    BY <1>3, <2>1 DEF Process
  <2> HIDE DEF P
  <2>3. AsLoaded(P) /\ Agree(table', P.mem, P.prog) /\ Unstale(table')
    BY <1>3, <2>1, <2>2 DEF AsLoaded
  <2> QED BY <1>3, <2>1, <2>3, TraceeCoded
<1> QED BY <1>2, <1>4, <1>5

\* The blocking waits.
LEMMA WaitStepsCoded ==
  ASSUME Readable, CodeInv, WaitSteps
  PROVE  CodedNext
<1>1. CASE WaitReturns
  BY <1>1 DEF WaitReturns, CodeInv, CodedNext
<1>2. CASE WaitFindsDead
  BY <1>2, ReapCoded DEF WaitFindsDead
<1>3. CASE Rearm
  <2> DEFINE r == sylvan_breakpoint_enable_ptr(table, Tracee.mem, isactive, dbg.slot)
             resumed == [Tracee EXCEPT !.mem = r.mem, !.st = "running", !.why = "-"]
             stays == [Tracee EXCEPT !.mem = r.mem]
  <2>1. /\ dbg.at = "rearm" /\ Tracee.st = "stopped" /\ inf' = inf /\ table' = r.table
        /\ proc' = [proc EXCEPT ![inf.pid] = resumed] \/ proc' = [proc EXCEPT ![inf.pid] = stays]
    BY <1>3 DEF Rearm
  <2>2. isactive /\ isactive \in BOOLEAN /\ dbg.slot \in Used(table) /\ IInv
    BY <2>1 DEF CodeInv, IInv, QuietAtPrompt, Waiting, isactive
  <2>3. /\ Agree(table, Tracee.mem, Tracee.prog) /\ Tracee.prog \in Program /\ Unstale(table)
        /\ Tracee.st \in Traced /\ Tracee \in Process
    BY <2>1, <2>2, TraceeCode DEF Traced
  <2>4. Good(table, Tracee.mem)
    <3>1. PromptInv(inf, table, proc) /\ inf.pid \in Pid
      BY <2>1, <2>2, <2>3, ToPrompt, TraceeCode
    <3> QED BY <2>1, <3>1, PromptGood DEF MemoryOf, Tracee
  <2>5. Unstale(r.table) /\ Agree(r.table, r.mem, Tracee.prog)
    BY <2>2, <2>3, <2>4, PtrCode DEF Keeps
  <2> HIDE DEF r
  <2>6. /\ resumed.st = "running" /\ resumed.mem = r.mem /\ resumed.prog = Tracee.prog
        /\ stays.st = "stopped" /\ stays.mem = r.mem /\ stays.prog = Tracee.prog
    BY <2>1, <2>3 DEF Process
  <2> HIDE DEF resumed, stays
  <2>7. /\ AsLoaded(resumed) /\ Agree(table', resumed.mem, resumed.prog)
        /\ AsLoaded(stays) /\ Agree(table', stays.mem, stays.prog)
        /\ Unstale(table')
    BY <2>1, <2>5, <2>6 DEF AsLoaded
  <2> QED BY <2>1, <2>2, <2>3, <2>7, TraceeCoded
<1> QED BY <1>1, <1>2, <1>3 DEF WaitSteps

\* The executable of the inferior and the registers of the tracee.
LEMMA DataCallsCoded ==
  ASSUME Readable, CodeInv, \/ \E g \in Program \cup {NoPath} : sylvan_set_filepath(g)
                           \/ RegsFindDead
                           \/ \E r \in Addr : sylvan_set_regs(r)
  PROVE  CodedNext
<1>1. ASSUME NEW g \in Program \cup {NoPath}, sylvan_set_filepath(g)
      PROVE  CodedNext
  <2>1. inf' = [inf EXCEPT !.realpath = g] /\ table' = table /\ proc' = proc
    BY <1>1 DEF sylvan_set_filepath
  <2>2. inf'.pid = inf.pid /\ inf'.status = inf.status
    BY <2>1 DEF CodeInv, IInv, TypeOK, Inferior
  <2> QED BY <2>1, <2>2 DEF CodeInv, Coded, CodedNext, ActiveInf
<1>2. CASE RegsFindDead
  BY <1>2, ReapCoded DEF RegsFindDead
<1>3. ASSUME NEW r \in Addr, sylvan_set_regs(r)
      PROVE  CodedNext
  <2> DEFINE P == [Tracee EXCEPT !.rip = r]
  <2>1. /\ dbg = Prompt /\ inf.pid # 0 /\ ~HasDied /\ IInv
        /\ inf' = inf /\ table' = table /\ proc' = [proc EXCEPT ![inf.pid] = P]
    BY <1>3 DEF sylvan_set_regs, AtPrompt, CodeInv
  <2>2. isactive /\ Tracee.st \in Traced /\ Tracee.st = "stopped" /\ Tracee \in Process
    BY <2>1, StoppedFacts DEF Traced
  <2>3. P.st = "stopped" /\ P.mem = Tracee.mem /\ P.prog = Tracee.prog
    BY <2>2 DEF Process
  <2> HIDE DEF P
  <2>4. AsLoaded(P) /\ Agree(table', P.mem, P.prog) /\ Unstale(table')
    BY <2>1, <2>2, <2>3, TraceeCode DEF AsLoaded
  <2> QED BY <2>1, <2>2, <2>4, TraceeCoded
<1> QED BY <1>1, <1>2, <1>3

\* Processes stop, die, are started and end, but none executes another program.
LEMMA TraceeStepsCoded ==
  ASSUME CodeInv, TraceeSteps, "exec" \notin Ops, UNCHANGED <<inf, table, dbg>>
  PROVE  CodedNext
<1>1. PICK p \in Pid :
    \/ \E r \in Addr : StepDone(p, r) \/ TrapHit(p, r) \/ StopBySignal(p, r) \/ StopByFault(p, r)
    \/ Exit(p) \/ Killed(p)
    \/ \E g \in Program : Spawn(p, g)
    \/ FreeExit(p)
  BY DEF TraceeSteps
<1>2. /\ proc \in [Pid -> Process] /\ inf' = inf /\ table' = table
      /\ Coded(inf, table, proc) /\ IInv /\ inf \in Inferior
  BY DEF CodeInv, IInv, TypeOK
<1>3. proc[p].st \in Traced =>
        /\ isactive /\ p = inf.pid /\ Tracee = proc[p] /\ Tracee.st \in Traced /\ Unstale(table)
        /\ Agree(table, Tracee.mem, Tracee.prog)
  <2> SUFFICES ASSUME proc[p].st \in Traced
               PROVE  /\ isactive /\ p = inf.pid /\ Tracee = proc[p] /\ Tracee.st \in Traced
                      /\ Unstale(table) /\ Agree(table, Tracee.mem, Tracee.prog)
    OBVIOUS
  <2>1. isactive /\ p = inf.pid /\ Tracee = proc[p] /\ Tracee.st \in Traced
    BY <1>2 DEF IInv, OneTracee, Tracee
  <2> QED BY <2>1, TraceeCode
<1>4. ASSUME NEW a \in Addr, NEW why \in Cause, StoppedAt(p, a, why), proc[p].st \in Traced
      PROVE  CodedNext
  <2> DEFINE P == [proc[p] EXCEPT !.st = "stopped", !.rip = a, !.why = why]
  <2>1. P.st = "stopped" /\ P.mem = proc[p].mem /\ P.prog = proc[p].prog
    BY <1>2 DEF Process
  <2>2. proc' = [proc EXCEPT ![p] = P]
    BY <1>4 DEF StoppedAt
  <2> HIDE DEF P
  <2>3. AsLoaded(P) /\ Agree(table', P.mem, P.prog) /\ Unstale(table')
    BY <1>2, <1>3, <1>4, <2>1 DEF AsLoaded
  <2> QED BY <1>2, <1>3, <1>4, <2>2, <2>3, TraceeCoded
<1>5. CASE \E r \in Addr : StepDone(p, r) \/ TrapHit(p, r) \/ StopBySignal(p, r) \/ StopByFault(p, r)
  BY <1>4, <1>5 DEF StepDone, TrapHit, StopBySignal, StopByFault, Moving, Traced, Cause
<1>6. CASE Exit(p) \/ Killed(p)
  <2>1. PICK why \in Cause : proc' = [proc EXCEPT ![p] = Zombie(why)]
    BY <1>6 DEF Exit, Killed, Cause
  <2>2. proc[p].st \in Traced
    BY <1>6 DEF Exit, Killed, Moving, Traced
  <2> QED BY <1>2, <1>3, <2>1, <2>2, LoadedFacts, TraceeCoded
<1>7. ASSUME proc[p].st \in {"none", "free"}, NEW P, AsLoaded(P), proc' = [proc EXCEPT ![p] = P]
      PROVE  CodedNext
  <2>1. ActiveInf(inf) => inf.pid \in Pid /\ inf.pid # p
    BY <1>2, <1>7 DEF IInv, PidIsOurs, Inferior, Tracee, Traced, ActiveInf, isactive
  <2> QED BY <1>2, <1>7, <2>1, OtherCoded DEF CodedNext
<1>8. CASE \E g \in Program : Spawn(p, g)
  BY <1>7, <1>8, LoadedFacts DEF Spawn
<1>9. CASE FreeExit(p)
  BY <1>7, <1>9, LoadedFacts DEF FreeExit
<1> QED BY <1>1, <1>5, <1>6, <1>8, <1>9

-----------------------------------------------------------------------------
\* The theorems.

\* Before the first command nothing is in use.
LEMMA InitCoded == Init => CodeInv
<1> SUFFICES ASSUME Init PROVE CodeInv
  OBVIOUS
<1>1. inf = FreshInferior /\ table = EmptyTable /\ \A p \in Pid : proc[p] = NoProcess
  BY DEF Init
<1>2. Unstale(table)
  BY <1>1 DEF Unstale, EmptyTable
<1>3. Unpatched(proc) /\ ~ActiveInf(inf)
  BY <1>1, FreshRecords, ProcessRecords DEF Unpatched
<1> QED BY <1>2, <1>3, InitGood DEF CodeInv, Coded

\* Every step keeps the agreement.
LEMMA StepCoded == Plain /\ CodeInv /\ [Next]_vars => CodeInv'
<1> SUFFICES ASSUME Plain, CodeInv, [Next]_vars PROVE CodeInv'
  OBVIOUS
<1>1. Readable /\ \A op \in {"unset", "write", "exec", "nosymbols"} : op \notin Ops
  BY DEF Plain
<1>2. IInv'
  BY StepGood DEF CodeInv
<1> SUFFICES CodedNext
  BY <1>2 DEF CodeInv, CodedNext
<1>3. CASE BreakpointCalls
  BY <1>1, <1>3, BreakpointCallCoded DEF BreakpointCalls, BreakpointAddr, BreakpointUnset, AtPrompt
<1>4. CASE ProcessCalls
  <2>1. CASE sylvan_detach \/ ReplaceInferior
    BY <1>1, <2>1, DetachCallsCoded
  <2>2. CASE \E p \in Pid, r \in Addr :
       sylvan_attach(p, r) \/ \E path \in Program \cup {NoPath} : AttachWithoutSymbols(p, r, path)
    BY <1>1, <2>2, AttachCallsCoded DEF AttachWithoutSymbols
  <2>3. CASE \E p \in Pid : AttachDenied(p) \/ AttachFindsDead(p)
    <3>1. Entry \in Addr
      BY MoreConstants
    <3> QED BY <1>1, <2>3, <3>1, AttachCallsCoded
  <2>4. CASE RunFails \/ \E p \in Pid : RunReportsError(p) \/ RunAborts(p) \/ sylvan_run(p)
    BY <1>1, <2>4, RunCallsCoded
  <2>5. CASE \E cmd \in {"continue", "stepinst"} :
       ResumeFindsDead(cmd) \/ StepOffBreakpoint(cmd) \/ ResumeDirectly(cmd)
    BY <1>1, <2>5, ResumeCallsCoded
  <2>6. CASE \/ \E g \in Program \cup {NoPath} : sylvan_set_filepath(g)
             \/ RegsFindDead
             \/ \E r \in Addr : sylvan_set_regs(r)
    BY <1>1, <2>6, DataCallsCoded
  <2>7. \A a \in Addr, b \in Byte : ~sylvan_set_memory(a, b)
    BY <1>1 DEF sylvan_set_memory, AtPrompt
  <2> QED BY <1>4, <2>1, <2>2, <2>3, <2>4, <2>5, <2>6, <2>7 DEF ProcessCalls
<1>5. CASE WaitSteps
  BY <1>1, <1>5, WaitStepsCoded
<1>6. CASE TraceeSteps /\ UNCHANGED <<inf, table, dbg>>
  BY <1>1, <1>6, TraceeStepsCoded
<1>7. CASE UNCHANGED vars
  BY <1>7 DEF vars, CodeInv, CodedNext
<1> QED BY <1>3, <1>4, <1>5, <1>6, <1>7 DEF Next

\* Between any two calls the flags say what the code holds, in every session without
\* breakpoint unset, write_mem, an execve of the tracee and an attach without symbols.
THEOREM CodeInductive == ASSUME Plain PROVE Spec => []CodeInv
BY InitCoded, StepCoded, PTL DEF Spec

\* is_enabled_phy is what the process really holds (breakpoint.c:35-80, 205-246).
THEOREM FlagsAreTrue == ASSUME Plain PROVE Spec => []PhyIsTrue
<1>1. CodeInv => PhyIsTrue
  <2> SUFFICES ASSUME CodeInv, StoppedTracee, NEW i \in Used(table)
               PROVE  table.breakpoints[i].is_enabled_phy <=> Tracee.mem[table.breakpoints[i].addr] = Trap
    BY DEF PhyIsTrue
  <2>1. Agree(table, Tracee.mem, Tracee.prog)
    BY TraceeCode DEF StoppedTracee, Traced
  <2>2. /\ PromptInv(inf, table, proc) /\ inf.pid \in Pid
        /\ MemoryOf(proc, inf.pid) = Tracee.mem
    BY AtPromptInv DEF CodeInv, StoppedTracee, MemoryOf, Tracee
  <2>3. Good(table, Tracee.mem) /\ table \in Table /\ DistinctAddrs(table) /\ i \in Slot
    BY <2>2, PromptGood DEF Good, TableOK, Used
  <2>4. table.breakpoints[i].addr \in Addr
    BY <2>3 DEF Table, Breakpoint
  <2>5. ASSUME Tracee.mem[table.breakpoints[i].addr] = Trap
        PROVE  table.breakpoints[i].is_enabled_phy
    BY <2>3, <2>4, <2>5 DEF Good, Owned, DistinctAddrs
  <2> QED BY <2>1, <2>5 DEF Agree, Phys
<1> QED BY <1>1, CodeInductive, PTL

\* A breakpoint the user has enabled is in the process whenever the prompt is
\* (breakpoint.c:85-158, 218-231).
THEOREM EnabledAreInserted == ASSUME Plain PROVE Spec => []EnabledIsInserted
<1>1. CodeInv => EnabledIsInserted
  BY TraceeCode DEF EnabledIsInserted, StoppedTracee, Traced, Agree, Phys, LogIn
<1> QED BY <1>1, CodeInductive, PTL

\* But for its breakpoints, sylvan leaves the code of a process as it was loaded.
THEOREM CodeStaysIntact == ASSUME Plain PROVE Spec => []CodeIntact
<1>1. CodeInv => CodeIntact
  <2> SUFFICES ASSUME CodeInv, NEW p \in Pid, proc[p].st \in {"free"} \cup Traced, NEW a \in Addr
               PROVE  proc[p].mem[a] \in {Trap, Image[proc[p].prog][a]}
    BY DEF CodeIntact
  <2>1. CASE proc[p].st = "free"
    BY <2>1 DEF CodeInv, Coded, Unpatched
  <2>2. CASE proc[p].st \in Traced
    <3>1. isactive /\ p = inf.pid
      BY <2>2 DEF CodeInv, IInv, OneTracee
    <3> QED BY <2>2, <3>1, TraceeCode DEF Agree, Phys, Tracee
  <2> QED BY <2>1, <2>2
<1> QED BY <1>1, CodeInductive, PTL
=============================================================================
