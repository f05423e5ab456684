------------------------- MODULE BreakpointsProofs -------------------------
(***************************************************************************)
(* What the functions of breakpoint.c preserve, for every table, every     *)
(* memory and every set of slots.  Good(t, m) says that the table and the  *)
(* memory of the tracee agree well enough for every 0xCC to be taken out   *)
(* again; each function keeps it.                                          *)
(***************************************************************************)
EXTENDS Breakpoints, TLAPS

TableOK(t) == t \in Table /\ DistinctAddrs(t) /\ NoTrapSaved(t)

Good(t, m) == TableOK(t) /\ m \in Memory /\ Owned(t, m)

\* Slots are the natural numbers below MAX_BREAKPOINTS; the constants are
\* numbers that arithmetic can compare.
LEMMA Constants ==
  /\ MAX_BREAKPOINTS \in Nat \ {0}
  /\ Slot = 0..(MAX_BREAKPOINTS - 1)
  /\ MaxAddr \in Nat
  /\ Trap \notin Byte /\ PeekFailed \notin Byte /\ Trap # PeekFailed
BY MachineAssumption, BreakpointsAssumption DEF Slot, Trap, PeekFailed

\* A slot that comes before every slot that cannot be read can be read itself.
LEMMA DoneIsReadable ==
  ASSUME NEW todo \in SUBSET Slot, NEW t, NEW m,
         NEW i \in BeforeBlocked(todo, t, m)
  PROVE  i \in todo /\ m[t.breakpoints[i].addr] # PeekFailed
BY Constants DEF BeforeBlocked, Slot

\* Insert: breakpoint.c:35-55 and 218-231.
LEMMA InsertTable ==
  ASSUME NEW t \in Table, NEW m \in Memory, NEW S \in SUBSET Slot
  PROVE  /\ Insert(t, m, S).table \in Table
         /\ Insert(t, m, S).mem \in Memory
         /\ Used(Insert(t, m, S).table) = Used(t)
         /\ \A i \in Slot : Insert(t, m, S).table.breakpoints[i].addr = t.breakpoints[i].addr
<1> DEFINE todo == {i \in S : ~t.breakpoints[i].is_enabled_phy}
           done == BeforeBlocked(todo, t, m)
           bps == [i \in Slot |->
                 IF i \in done
                   THEN [t.breakpoints[i] EXCEPT !.og_byte = m[t.breakpoints[i].addr],
                                                 !.is_enabled_phy = TRUE]
                   ELSE t.breakpoints[i]]
<1>1. \A i \in Slot : bps[i] \in Breakpoint /\ bps[i].addr = t.breakpoints[i].addr
  <2> TAKE i \in Slot
  <2>1. t.breakpoints[i] \in Breakpoint
    BY DEF Table
  <2>2. CASE i \in done
    <3>1. m[t.breakpoints[i].addr] \in Byte \cup {Trap}
      BY <2>1, <2>2, DoneIsReadable DEF Memory, Cell, Breakpoint
    <3> QED BY <2>1, <2>2, <3>1 DEF Breakpoint
  <2> QED BY <2>1, <2>2
<1>2. Insert(t, m, S).table = [t EXCEPT !.breakpoints = bps]
  BY DEF Insert, Outcome
<1>3. Insert(t, m, S).mem \in Memory
  BY DEF Insert, Outcome, Memory, Cell
<1>4. [t EXCEPT !.breakpoints = bps] \in Table
  BY <1>1 DEF Table
<1>5. Used([t EXCEPT !.breakpoints = bps]) = Used(t)
  BY DEF Used, Table
<1>6. [t EXCEPT !.breakpoints = bps].breakpoints = bps
  BY DEF Table
<1> QED BY <1>1, <1>2, <1>3, <1>4, <1>5, <1>6

\* Insert leaves a table that agrees with the memory it leaves (breakpoint.c:35-55, 218-231).
LEMMA InsertGood ==
  ASSUME NEW t, NEW m, Good(t, m), NEW S \in SUBSET Used(t)
  PROVE  Good(Insert(t, m, S).table, Insert(t, m, S).mem)
<1> DEFINE todo == {i \in S : ~t.breakpoints[i].is_enabled_phy}
           done == BeforeBlocked(todo, t, m)
           r == Insert(t, m, S)
<1>1. t \in Table /\ m \in Memory /\ S \in SUBSET Slot /\ Used(t) \subseteq Slot
  BY DEF Good, TableOK, Used
<1>2. /\ r.table \in Table /\ r.mem \in Memory /\ Used(r.table) = Used(t)
      /\ \A i \in Slot : r.table.breakpoints[i].addr = t.breakpoints[i].addr
  BY <1>1, InsertTable
<1>3. \A i \in Slot : t.breakpoints[i] \in Breakpoint
  BY <1>1 DEF Table
<1>4. \A i \in Slot : /\ r.table.breakpoints[i].og_byte =
                           IF i \in done THEN m[t.breakpoints[i].addr]
                                         ELSE t.breakpoints[i].og_byte
                      /\ r.table.breakpoints[i].is_enabled_phy =
                           IF i \in done THEN TRUE ELSE t.breakpoints[i].is_enabled_phy
  BY <1>1, <1>3 DEF Insert, Outcome, Table, Breakpoint
<1>5. \A a \in Addr : r.mem[a] = IF \E i \in done : t.breakpoints[i].addr = a
                                   THEN Trap ELSE m[a]
  BY DEF Insert, Outcome
<1>6. \A i \in done : /\ i \in Used(t) /\ ~t.breakpoints[i].is_enabled_phy
                       /\ t.breakpoints[i].addr \in Addr
  BY <1>1, <1>3, DoneIsReadable DEF Breakpoint
<1>7. \A i \in done : m[t.breakpoints[i].addr] # Trap
  BY <1>6 DEF Good, TableOK, Owned, DistinctAddrs
<1>8. DistinctAddrs(r.table)
  BY <1>1, <1>2 DEF Good, TableOK, DistinctAddrs
<1>9. NoTrapSaved(r.table)
  BY <1>4, <1>7 DEF Good, TableOK, NoTrapSaved
<1>10. Owned(r.table, r.mem)
  <2> SUFFICES ASSUME NEW a \in Addr, r.mem[a] = Trap
               PROVE  \E i \in Used(r.table) : /\ r.table.breakpoints[i].addr = a
                                               /\ r.table.breakpoints[i].is_enabled_phy
    BY DEF Owned
  <2>1. CASE \E i \in done : t.breakpoints[i].addr = a
    BY <2>1, <1>1, <1>2, <1>4, <1>6
  <2>2. CASE ~\E i \in done : t.breakpoints[i].addr = a
    <3>1. PICK i \in Used(t) : t.breakpoints[i].addr = a /\ t.breakpoints[i].is_enabled_phy
      BY <2>2, <1>5 DEF Good, Owned
    <3> QED BY <3>1, <1>1, <1>2, <1>4
  <2> QED BY <2>1, <2>2
<1> QED BY <1>2, <1>8, <1>9, <1>10 DEF Good, TableOK

-----------------------------------------------------------------------------
\* Remove: breakpoint.c:60-80 and 233-246.
Removed(t, m, S) == BeforeBlocked({i \in S : t.breakpoints[i].is_enabled_phy}, t, m)

IsRemoval(r, t, m, S) ==
  /\ r.table \in Table /\ r.mem \in Memory /\ Used(r.table) = Used(t)
  /\ r.table.breakpoint_count = t.breakpoint_count
  /\ \A i \in Slot :
       /\ r.table.breakpoints[i].addr = t.breakpoints[i].addr
       /\ r.table.breakpoints[i].og_byte = t.breakpoints[i].og_byte
       /\ r.table.breakpoints[i].is_enabled_phy =
            IF i \in Removed(t, m, S) THEN FALSE ELSE t.breakpoints[i].is_enabled_phy
  /\ \A a \in Addr :
       IF \E i \in Removed(t, m, S) : t.breakpoints[i].addr = a
         THEN r.mem[a] # Trap ELSE r.mem[a] = m[a]

\* What Remove does to a slot and to a cell, without its CHOOSE (breakpoint.c:60-80, 233-246).
LEMMA RemoveFacts ==
  ASSUME NEW t, NEW m, Good(t, m), NEW S \in SUBSET Used(t)
  PROVE  IsRemoval(Remove(t, m, S), t, m, S)
<1> DEFINE todo == {i \in S : t.breakpoints[i].is_enabled_phy}
           done == BeforeBlocked(todo, t, m)
           Saved(a) == t.breakpoints[CHOOSE i \in done : t.breakpoints[i].addr = a].og_byte
           bps == [i \in Slot |->
                 IF i \in done THEN [t.breakpoints[i] EXCEPT !.is_enabled_phy = FALSE]
                               ELSE t.breakpoints[i]]
           r == Remove(t, m, S)
<1>1. t \in Table /\ m \in Memory /\ Used(t) \subseteq Slot /\ NoTrapSaved(t)
  BY DEF Good, TableOK, Used
<1>2. \A i \in Slot : t.breakpoints[i] \in Breakpoint
  BY <1>1 DEF Table
<1>3. \A i \in Slot : /\ bps[i] \in Breakpoint
                      /\ bps[i].addr = t.breakpoints[i].addr
                      /\ bps[i].og_byte = t.breakpoints[i].og_byte
                      /\ bps[i].is_enabled_phy =
                           IF i \in done THEN FALSE ELSE t.breakpoints[i].is_enabled_phy
  BY <1>2 DEF Breakpoint
<1>4. r.table = [t EXCEPT !.breakpoints = bps]
  BY DEF Remove, Outcome
<1>5. /\ r.table \in Table /\ r.table.breakpoints = bps
      /\ r.table.breakpoint_count = t.breakpoint_count
  BY <1>1, <1>3, <1>4 DEF Table
<1>6. Used(r.table) = Used(t)
  BY <1>5 DEF Used
<1>7. \A a \in Addr : r.mem[a] = IF \E i \in done : t.breakpoints[i].addr = a
                                   THEN Saved(a) ELSE m[a]
  BY DEF Remove, Outcome
<1>8. \A a \in Addr : (\E i \in done : t.breakpoints[i].addr = a) =>
                         Saved(a) \in Byte
  <2> SUFFICES ASSUME NEW a \in Addr, \E i \in done : t.breakpoints[i].addr = a
               PROVE  Saved(a) \in Byte
    OBVIOUS
  <2>1. (CHOOSE i \in done : t.breakpoints[i].addr = a) \in done
    OBVIOUS
  <2>2. done \subseteq Slot
    BY <1>1 DEF BeforeBlocked
  <2> HIDE DEF done
  <2> QED BY <2>1, <2>2, <1>1, <1>2 DEF Breakpoint, NoTrapSaved
<1>9. r.mem \in Memory
  <2>1. r.mem = [a \in Addr |-> r.mem[a]]
    BY DEF Remove, Outcome
  <2>2. \A a \in Addr : r.mem[a] \in Cell
    BY <1>1, <1>7, <1>8 DEF Memory, Cell
  <2> QED BY <2>1, <2>2 DEF Memory
<1>10. \A a \in Addr : IF \E i \in done : t.breakpoints[i].addr = a
                          THEN r.mem[a] # Trap ELSE r.mem[a] = m[a]
  BY <1>7, <1>8, Constants
<1>11. done = Removed(t, m, S)
  BY DEF Removed
<1> HIDE DEF done, bps, r
<1>12. IsRemoval(r, t, m, S)
  BY <1>3, <1>5, <1>6, <1>9, <1>10, <1>11 DEF IsRemoval
<1> QED BY <1>12 DEF r

\* Remove leaves a table that agrees with the memory it leaves.
LEMMA RemoveGood ==
  ASSUME NEW t, NEW m, Good(t, m), NEW S \in SUBSET Used(t)
  PROVE  Good(Remove(t, m, S).table, Remove(t, m, S).mem)
<1> DEFINE done == Removed(t, m, S)
           r == Remove(t, m, S)
<1>1. IsRemoval(r, t, m, S)
  BY RemoveFacts
<1> HIDE DEF r
<1>2. Used(t) \subseteq Slot
  BY DEF Used
<1>3. DistinctAddrs(r.table) /\ NoTrapSaved(r.table)
  BY <1>1, <1>2 DEF Good, TableOK, DistinctAddrs, NoTrapSaved, IsRemoval
<1>4. Owned(r.table, r.mem)
  <2> SUFFICES ASSUME NEW a \in Addr, r.mem[a] = Trap
               PROVE  \E i \in Used(r.table) : /\ r.table.breakpoints[i].addr = a
                                               /\ r.table.breakpoints[i].is_enabled_phy
    BY DEF Owned
  <2>1. m[a] = Trap /\ ~\E i \in done : t.breakpoints[i].addr = a
    BY <1>1 DEF IsRemoval
  <2>2. PICK i \in Used(t) : t.breakpoints[i].addr = a /\ t.breakpoints[i].is_enabled_phy
    BY <2>1 DEF Good, Owned
  <2> QED BY <2>1, <2>2, <1>1, <1>2 DEF IsRemoval
<1> QED BY <1>1, <1>3, <1>4 DEF Good, TableOK, r, IsRemoval

\* A removal that returns OK leaves no 0xCC behind at the slots of S.
LEMMA RemoveCleans ==
  ASSUME NEW t, NEW m, Good(t, m), NEW S \in SUBSET Used(t), Remove(t, m, S).ret = "OK"
  PROVE  \A i \in S : Remove(t, m, S).mem[t.breakpoints[i].addr] # Trap
<1> DEFINE todo == {i \in S : t.breakpoints[i].is_enabled_phy}
           r == Remove(t, m, S)
<1>1. r.ret = PeekCode(todo, t, m)
  BY DEF Remove, Outcome
<1>2. \A j \in todo : m[t.breakpoints[j].addr] # PeekFailed
  BY <1>1 DEF PeekCode
<1>3. Removed(t, m, S) = todo
  BY <1>2 DEF BeforeBlocked, Removed
<1>4. IsRemoval(r, t, m, S)
  BY RemoveFacts
<1>5. \A i \in S : i \in Used(t) /\ i \in Slot /\ t.breakpoints[i].addr \in Addr
  BY DEF Good, TableOK, Table, Breakpoint, Used
<1>6. \A i \in S : m[t.breakpoints[i].addr] = Trap => i \in todo
  BY <1>5 DEF Good, TableOK, Owned, DistinctAddrs
<1> HIDE DEF todo, r
<1>7. \A i \in S : r.mem[t.breakpoints[i].addr] # Trap
  BY <1>3, <1>4, <1>5, <1>6 DEF IsRemoval
<1> QED BY <1>7 DEF r

\* An unsetall_phybp that returns OK leaves no 0xCC at all (breakpoint.c:233-246).
LEMMA UnsetallCleans ==
  ASSUME NEW t, NEW m, Good(t, m), sylvan_breakpoint_unsetall_phybp(t, m).ret = "OK"
  PROVE  Clean(sylvan_breakpoint_unsetall_phybp(t, m).mem)
<1> DEFINE r == Remove(t, m, Used(t))
<1>1. IsRemoval(r, t, m, Used(t))
  BY RemoveFacts
<1>2. \A i \in Used(t) : r.mem[t.breakpoints[i].addr] # Trap
  BY RemoveCleans DEF sylvan_breakpoint_unsetall_phybp
<1>3. \A a \in Addr : r.mem[a] = Trap => m[a] = Trap
  BY <1>1 DEF IsRemoval
<1>4. \A a \in Addr : m[a] = Trap => \E i \in Used(t) : t.breakpoints[i].addr = a
  BY DEF Good, Owned
<1> HIDE DEF r
<1>5. Clean(r.mem)
  BY <1>2, <1>3, <1>4 DEF Clean
<1> QED BY <1>5 DEF sylvan_breakpoint_unsetall_phybp, r

-----------------------------------------------------------------------------
\* The changes of one slot.

\* The logical flag of a slot has no part in the agreement.
LEMMA WithLogGood ==
  ASSUME NEW t, NEW m, Good(t, m), NEW i \in Slot, NEW flag \in BOOLEAN
  PROVE  /\ Good(WithLog(t, i, flag), m)
         /\ Used(WithLog(t, i, flag)) = Used(t)
         /\ WithLog(t, i, flag).breakpoint_count = t.breakpoint_count
         /\ \A j \in Slot : WithLog(t, i, flag).breakpoints[j].addr = t.breakpoints[j].addr
<1> DEFINE u == WithLog(t, i, flag)
<1>1. t \in Table /\ Used(t) \subseteq Slot
  BY DEF Good, TableOK, Used
<1>2. /\ u \in Table /\ u.breakpoint_count = t.breakpoint_count
      /\ \A j \in Slot :
            /\ u.breakpoints[j].addr = t.breakpoints[j].addr
            /\ u.breakpoints[j].og_byte = t.breakpoints[j].og_byte
            /\ u.breakpoints[j].is_enabled_phy = t.breakpoints[j].is_enabled_phy
  BY <1>1 DEF WithLog, Table, Breakpoint
<1> HIDE DEF u
<1>3. Used(u) = Used(t)
  BY <1>2 DEF Used
<1>4. DistinctAddrs(u) /\ NoTrapSaved(u) /\ Owned(u, m)
  BY <1>1, <1>2, <1>3 DEF Good, TableOK, DistinctAddrs, NoTrapSaved, Owned
<1> QED BY <1>2, <1>3, <1>4 DEF Good, TableOK, u

\* Enabling one slot, with or without a process (breakpoint.c:82-93).
LEMMA EnablePtrGood ==
  ASSUME NEW t, NEW m, Good(t, m), NEW active \in BOOLEAN, NEW i \in Used(t)
  PROVE  Good(sylvan_breakpoint_enable_ptr(t, m, active, i).table,
              sylvan_breakpoint_enable_ptr(t, m, active, i).mem)
<1>1. i \in Slot
  BY DEF Used
<1>2. Good(WithLog(t, i, TRUE), m) /\ {i} \in SUBSET Used(WithLog(t, i, TRUE))
  BY <1>1, WithLogGood
<1>3. Good(Insert(WithLog(t, i, TRUE), m, {i}).table, Insert(WithLog(t, i, TRUE), m, {i}).mem)
  BY <1>2, InsertGood
<1> QED BY <1>2, <1>3 DEF sylvan_breakpoint_enable_ptr, sylvan_breakpoint_create_phybp, Outcome

\* Disabling also answers what is left at the address of the slot.
LEMMA DisablePtrGood ==
  ASSUME NEW t, NEW m, Good(t, m), NEW active \in BOOLEAN, ~active => Clean(m),
         NEW i \in Used(t)
  PROVE  LET r == sylvan_breakpoint_disable_ptr(t, m, active, i)
         IN  /\ Good(r.table, r.mem)
             /\ r.table.breakpoint_count = t.breakpoint_count
             /\ r.table.breakpoints[i].addr = t.breakpoints[i].addr
             /\ r.ret = "OK" => r.mem[t.breakpoints[i].addr] # Trap
<1> DEFINE u == WithLog(t, i, FALSE)
           q == Remove(u, m, {i})
           r == sylvan_breakpoint_disable_ptr(t, m, active, i)
<1>1. i \in Slot /\ t.breakpoints[i].addr \in Addr
  BY DEF Used, Good, TableOK, Table, Breakpoint
<1>2. /\ Good(u, m) /\ {i} \in SUBSET Used(u)
      /\ u.breakpoint_count = t.breakpoint_count
      /\ u.breakpoints[i].addr = t.breakpoints[i].addr
  BY <1>1, WithLogGood
<1> HIDE DEF u
<1>3. Good(q.table, q.mem)
  BY <1>2, RemoveGood
<1>4. IsRemoval(q, u, m, {i})
  BY <1>2, RemoveFacts
<1>5. q.ret = "OK" => q.mem[u.breakpoints[i].addr] # Trap
  BY <1>2, RemoveCleans
<1>6. CASE active
  <2>1. r = q
    BY <1>6 DEF sylvan_breakpoint_disable_ptr, sylvan_breakpoint_remove_phybp, u
  <2> HIDE DEF r, q
  <2>2. q.table.breakpoint_count = t.breakpoint_count /\ q.table.breakpoints[i].addr = t.breakpoints[i].addr
    BY <1>1, <1>2, <1>4 DEF IsRemoval
  <2>3. Good(r.table, r.mem) /\ (r.ret = "OK" => r.mem[t.breakpoints[i].addr] # Trap)
    BY <1>2, <1>3, <1>5, <2>1
  <2> QED BY <2>1, <2>2, <2>3 DEF r
<1>7. CASE ~active
  <2>1. r.table = u /\ r.mem = m
    BY <1>7 DEF sylvan_breakpoint_disable_ptr, Outcome, u
  <2> HIDE DEF r
  <2>2. r.mem[t.breakpoints[i].addr] # Trap
    BY <1>1, <1>7, <2>1 DEF Clean
  <2> QED BY <1>2, <2>1, <2>2 DEF r
<1> QED BY <1>6, <1>7

\* A new slot for an address that no slot has yet: what its last owner left in og_byte and
\* is_enabled_phy does not break the agreement (breakpoint.c:150-152).
LEMMA AppendGood ==
  ASSUME NEW t, NEW m, Good(t, m), NEW a \in Addr,
         t.breakpoint_count # MAX_BREAKPOINTS, Matches(t, a) = {}
  PROVE  Good(Append(t, a), m) /\ t.breakpoint_count \in Used(Append(t, a))
<1> DEFINE n == t.breakpoint_count
           u == Append(t, a)
<1>1. t \in Table /\ n \in 0..MAX_BREAKPOINTS /\ n \in Slot
  BY Constants DEF Good, TableOK, Table
<1>2. \A j \in Slot : t.breakpoints[j] \in Breakpoint
  BY <1>1 DEF Table
<1>3. /\ u \in Table /\ u.breakpoint_count = n + 1
      /\ u.breakpoints[n].addr = a
      /\ u.breakpoints[n].og_byte = t.breakpoints[n].og_byte
      /\ \A j \in Slot \ {n} : u.breakpoints[j] = t.breakpoints[j]
  <2> DEFINE b == [t.breakpoints[n] EXCEPT !.addr = a, !.is_enabled_log = TRUE]
             bps == [t.breakpoints EXCEPT ![n] = b]
  <2>1. b \in Breakpoint /\ b.addr = a /\ b.og_byte = t.breakpoints[n].og_byte
    BY <1>1, <1>2 DEF Breakpoint
  <2>2. u = [breakpoints |-> bps, breakpoint_count |-> n + 1]
    BY DEF Append
  <2>3. n + 1 \in 0..MAX_BREAKPOINTS
    BY <1>1, Constants
  <2> HIDE DEF b
  <2>4. /\ bps \in [Slot -> Breakpoint] /\ bps[n] = b
        /\ \A j \in Slot \ {n} : bps[j] = t.breakpoints[j]
    BY <1>1, <2>1 DEF Table
  <2> HIDE DEF bps, u
  <2> QED BY <2>1, <2>2, <2>3, <2>4 DEF Table
<1> HIDE DEF u
<1>4. Used(t) \subseteq Slot \ {n} /\ Used(u) = Used(t) \cup {n}
  BY <1>1, <1>3, Constants DEF Used
<1>5. \A j \in Used(t) : t.breakpoints[j].addr # a
  BY DEF Matches
<1>6. DistinctAddrs(u)
  BY <1>3, <1>4, <1>5 DEF Good, TableOK, DistinctAddrs
<1>7. NoTrapSaved(u) /\ Owned(u, m)
  BY <1>1, <1>3, <1>4 DEF Good, TableOK, NoTrapSaved, Owned
<1> QED BY <1>3, <1>4, <1>6, <1>7 DEF Good, TableOK, u

\* The last slot takes the place of one that has no 0xCC in the process (breakpoint.c:173-179).
LEMMA DropSlotGood ==
  ASSUME NEW t, NEW m, Good(t, m), NEW i \in Used(t), m[t.breakpoints[i].addr] # Trap
  PROVE  Good(DropSlot(t, i), m)
<1> DEFINE n == t.breakpoint_count - 1
           u == DropSlot(t, i)
<1>1. /\ t \in Table /\ n \in Slot /\ i \in Slot /\ i \leq n
      /\ n \in 0..MAX_BREAKPOINTS /\ Used(t) = 0..n
  BY Constants DEF Good, TableOK, Table, Used
<1>2. /\ u \in Table /\ u.breakpoint_count = n
      /\ \A j \in Slot : u.breakpoints[j] =
            IF j = i THEN t.breakpoints[n] ELSE t.breakpoints[j]
  <2>1. CASE n = 0
    <3>1. i = n
      BY <1>1, <2>1, Constants
    <3> QED BY <1>1, <2>1, <3>1 DEF DropSlot, Table
  <2>2. CASE n # 0
    BY <1>1, <2>2 DEF DropSlot, Table
  <2> QED BY <2>1, <2>2
<1> HIDE DEF u
<1>3. Used(u) = 0..(n - 1) /\ Used(u) \subseteq Used(t) \ {n} /\ n \in Used(t)
  BY <1>1, <1>2, Constants DEF Used
<1>4. DistinctAddrs(u)
  <2> SUFFICES ASSUME NEW j \in Used(u), NEW k \in Used(u),
                      u.breakpoints[j].addr = u.breakpoints[k].addr
               PROVE  j = k
    BY DEF DistinctAddrs
  <2> DEFINE from(x) == IF x = i THEN n ELSE x
  <2>1. from(j) \in Used(t) /\ from(k) \in Used(t) /\ j # n /\ k # n /\ j \in Slot /\ k \in Slot
    BY <1>3 DEF Used
  <2>2. u.breakpoints[j] = t.breakpoints[from(j)] /\ u.breakpoints[k] = t.breakpoints[from(k)]
    BY <1>2, <2>1
  <2>3. from(j) = from(k)
    BY <2>1, <2>2 DEF Good, TableOK, DistinctAddrs
  <2> QED BY <2>1, <2>3
<1>5. NoTrapSaved(u)
  BY <1>1, <1>2 DEF Good, TableOK, NoTrapSaved
<1>6. Owned(u, m)
  <2> SUFFICES ASSUME NEW a \in Addr, m[a] = Trap
               PROVE  \E j \in Used(u) : u.breakpoints[j].addr = a /\ u.breakpoints[j].is_enabled_phy
    BY DEF Owned
  <2>1. PICK j \in Used(t) : t.breakpoints[j].addr = a /\ t.breakpoints[j].is_enabled_phy
    BY DEF Good, Owned
  <2>2. j # i /\ j \in Slot
    BY <2>1, <1>1, Constants
  <2>3. CASE j = n
    <3>1. i \in Used(u)
      BY <1>1, <1>3, <2>2, <2>3, Constants
    <3> QED BY <1>1, <1>2, <2>1, <2>3, <3>1
  <2>4. CASE j # n
    <3>1. j \in Used(u)
      BY <1>1, <1>3, <2>1, <2>4, Constants
    <3> QED BY <1>2, <2>1, <2>2, <3>1
  <2> QED BY <2>3, <2>4
<1> QED BY <1>2, <1>4, <1>5, <1>6 DEF Good, TableOK, u

-----------------------------------------------------------------------------
\* The functions of include/sylvan/breakpoint.h.

\* find_by_addr returns a slot in use with that address, if there is one (breakpoint.c:15-30).
LEMMA FindFacts ==
  ASSUME NEW t, TableOK(t), NEW a, Matches(t, a) # {}
  PROVE  /\ sylvan_breakpoint_find_by_addr(t, a) \in Used(t)
         /\ t.breakpoints[sylvan_breakpoint_find_by_addr(t, a)].addr = a
<1>1. PICK i \in Matches(t, a) : TRUE
  OBVIOUS
<1>2. Matches(t, a) \subseteq Used(t) /\ Matches(t, a) \subseteq Nat
  BY Constants DEF Matches, Used
<1>3. \A j \in Matches(t, a) : j = i
  BY <1>1 DEF Matches, TableOK, DistinctAddrs
<1>4. \A j \in Matches(t, a) : i <= j
  BY <1>1, <1>2, <1>3
<1>5. sylvan_breakpoint_find_by_addr(t, a) \in Matches(t, a)
  BY <1>1, <1>4 DEF sylvan_breakpoint_find_by_addr
<1> QED BY <1>2, <1>5 DEF Matches

\* breakpoint.c:111-120, enable at an address.
THEOREM EnableGood ==
  ASSUME NEW t, NEW m, Good(t, m), NEW active \in BOOLEAN, NEW a \in Addr
  PROVE  Good(sylvan_breakpoint_enable(t, m, active, a).table,
              sylvan_breakpoint_enable(t, m, active, a).mem)
<1>1. CASE Matches(t, a) = {}
  BY <1>1 DEF sylvan_breakpoint_enable, Outcome
<1>2. CASE Matches(t, a) # {}
  BY <1>2, FindFacts, EnablePtrGood DEF sylvan_breakpoint_enable, Good
<1> QED BY <1>1, <1>2

\* breakpoint.c:125-134, disable at an address.
THEOREM DisableGood ==
  ASSUME NEW t, NEW m, Good(t, m), NEW active \in BOOLEAN, ~active => Clean(m), NEW a \in Addr
  PROVE  Good(sylvan_breakpoint_disable(t, m, active, a).table,
              sylvan_breakpoint_disable(t, m, active, a).mem)
<1>1. CASE Matches(t, a) = {}
  BY <1>1 DEF sylvan_breakpoint_disable, Outcome
<1>2. CASE Matches(t, a) # {}
  BY <1>2, FindFacts, DisablePtrGood DEF sylvan_breakpoint_disable, Good
<1> QED BY <1>1, <1>2

\* breakpoint.c:139-158: a new slot at a new address.
THEOREM SetGood ==
  ASSUME NEW t, NEW m, Good(t, m), NEW active \in BOOLEAN, NEW a \in Addr
  PROVE  Good(sylvan_breakpoint_set(t, m, active, a).table,
              sylvan_breakpoint_set(t, m, active, a).mem)
<1>1. CASE t.breakpoint_count = MAX_BREAKPOINTS \/ Matches(t, a) # {}
  BY <1>1 DEF sylvan_breakpoint_set, Outcome
<1>2. CASE t.breakpoint_count # MAX_BREAKPOINTS /\ Matches(t, a) = {}
  <2>1. Good(Append(t, a), m) /\ t.breakpoint_count \in Used(Append(t, a))
    BY <1>2, AppendGood
  <2>2. Good(sylvan_breakpoint_enable_ptr(Append(t, a), m, active, t.breakpoint_count).table,
             sylvan_breakpoint_enable_ptr(Append(t, a), m, active, t.breakpoint_count).mem)
    BY <2>1, EnablePtrGood
  <2> QED BY <1>2, <2>1, <2>2 DEF sylvan_breakpoint_set, Outcome
<1> QED BY <1>1, <1>2

\* breakpoint.c:163-182: out of the process first, then out of the table.
THEOREM UnsetGood ==
  ASSUME NEW t, NEW m, Good(t, m), NEW active \in BOOLEAN, ~active => Clean(m), NEW a \in Addr
  PROVE  Good(sylvan_breakpoint_unset(t, m, active, a).table,
              sylvan_breakpoint_unset(t, m, active, a).mem)
<1>1. CASE Matches(t, a) = {}
  BY <1>1 DEF sylvan_breakpoint_unset, Outcome
<1>2. CASE Matches(t, a) # {}
  <2> DEFINE i == sylvan_breakpoint_find_by_addr(t, a)
             d == sylvan_breakpoint_disable_ptr(t, m, active, i)
  <2>1. i \in Used(t)
    BY <1>2, FindFacts DEF Good
  <2> HIDE DEF i
  <2>2. /\ Good(d.table, d.mem)
        /\ d.table.breakpoint_count = t.breakpoint_count
        /\ d.table.breakpoints[i].addr = t.breakpoints[i].addr
        /\ d.ret = "OK" => d.mem[t.breakpoints[i].addr] # Trap
    BY <2>1, DisablePtrGood
  <2> HIDE DEF d
  <2>3. i \in Used(d.table)
    BY <2>1, <2>2 DEF Used
  <2>4. d.ret = "OK" => Good(DropSlot(d.table, i), d.mem)
    BY <2>2, <2>3, DropSlotGood
  <2>5. sylvan_breakpoint_unset(t, m, active, a) =
          IF d.ret = "OK" THEN Outcome(DropSlot(d.table, i), d.mem, "OK") ELSE d
    BY <1>2 DEF sylvan_breakpoint_unset, i, d
  <2> QED BY <2>2, <2>4, <2>5 DEF Outcome
<1> QED BY <1>1, <1>2

\* breakpoint.c:204-231, on a process that has no 0xCC yet: what run and attach do.
THEOREM ResetAndSetallGood ==
  ASSUME NEW t, TableOK(t), NEW m \in Memory, Clean(m)
  PROVE  /\ TableOK(sylvan_breakpoint_reset_phybp(t))
         /\ LET s == sylvan_breakpoint_setall_phybp(sylvan_breakpoint_reset_phybp(t), m)
            IN  Good(s.table, s.mem)
<1> DEFINE u == sylvan_breakpoint_reset_phybp(t)
<1>1. t \in Table /\ Used(t) \subseteq Slot /\ \A i \in Slot : t.breakpoints[i] \in Breakpoint
  BY DEF TableOK, Used, Table
<1>2. /\ u \in Table /\ u.breakpoint_count = t.breakpoint_count
      /\ \A i \in Slot : /\ u.breakpoints[i].addr = t.breakpoints[i].addr
                          /\ u.breakpoints[i].og_byte = t.breakpoints[i].og_byte
  BY <1>1 DEF sylvan_breakpoint_reset_phybp, Table, Breakpoint
<1> HIDE DEF u
<1>3. TableOK(u) /\ Used(u) = Used(t)
  BY <1>1, <1>2 DEF TableOK, DistinctAddrs, NoTrapSaved, Used
<1>4. Good(u, m)
  BY <1>3 DEF Good, Owned, Clean
<1>5. Good(Insert(u, m, Used(u)).table, Insert(u, m, Used(u)).mem)
  BY <1>4, InsertGood
<1> QED BY <1>3, <1>5 DEF sylvan_breakpoint_setall_phybp, u
=============================================================================
