---------------------------- MODULE Breakpoints ----------------------------
(***************************************************************************)
(* The breakpoint table of lib/sylvan/breakpoint.c.  Every function of the *)
(* file is an operator on the table t and the memory m of the traced       *)
(* process; it returns the new table, the new memory and the code that the *)
(* C function returns.  The file keeps no state of its own: its callers,   *)
(* in Inferior.tla, store the result.                                      *)
(*                                                                         *)
(* A slot has a logical flag (the user wants the breakpoint) and a         *)
(* physical one (the debugger believes its 0xCC is in the process).        *)
(***************************************************************************)
EXTENDS Machine

CONSTANT MAX_BREAKPOINTS

ASSUME BreakpointsAssumption == MAX_BREAKPOINTS \in Nat \ {0}

Slot == 0..(MAX_BREAKPOINTS - 1)

Breakpoint == [addr : Addr,
               og_byte : Byte \cup {Trap},
               is_enabled_log : BOOLEAN,
               is_enabled_phy : BOOLEAN]

Table == [breakpoints : [Slot -> Breakpoint], breakpoint_count : 0..MAX_BREAKPOINTS]

\* The table of a zeroed struct sylvan_inferior.
EmptyTable ==
  [breakpoints |-> [i \in Slot |-> [addr |-> 0, og_byte |-> 0,
                                    is_enabled_log |-> FALSE, is_enabled_phy |-> FALSE]],
   breakpoint_count |-> 0]

Outcome(t, m, code) == [table |-> t, mem |-> m, ret |-> code]

-----------------------------------------------------------------------------
\* Looking up a breakpoint.

Used(t) == {i \in Slot : i < t.breakpoint_count}

Matches(t, a) == {i \in Used(t) : t.breakpoints[i].addr = a}

sylvan_breakpoint_find_by_addr(t, a) ==
  CHOOSE i \in Matches(t, a) : \A j \in Matches(t, a) : i <= j

-----------------------------------------------------------------------------
(***************************************************************************)
(* Inserting and removing the 0xCC of the slots in S, in the order of the  *)
(* slots and up to the first failing PEEKTEXT, as the loops of             *)
(* setall_phybp and unsetall_phybp do.  The slots of S have distinct       *)
(* addresses, so no insertion changes what a later one reads.              *)
(***************************************************************************)
BeforeBlocked(todo, t, m) ==
  {i \in todo : \A j \in todo : m[t.breakpoints[j].addr] = PeekFailed => i < j}

PeekCode(todo, t, m) ==
  IF \E j \in todo : m[t.breakpoints[j].addr] = PeekFailed
    THEN "PTRACE_PEEKTEXT_FAILED" ELSE "OK"

Insert_RereadsPatched(t, m, S) ==     \* fault: the test of is_enabled_phy is missing
  LET done == BeforeBlocked(S, t, m)
  IN  Outcome([t EXCEPT !.breakpoints = [i \in Slot |->
                 IF i \in done
                   THEN [t.breakpoints[i] EXCEPT !.og_byte = m[t.breakpoints[i].addr],
                                                 !.is_enabled_phy = TRUE]
                   ELSE t.breakpoints[i]]],
              [a \in Addr |-> IF \E i \in done : t.breakpoints[i].addr = a
                                THEN Trap ELSE m[a]],
              PeekCode(S, t, m))

Insert(t, m, S) ==
  LET todo == {i \in S : ~t.breakpoints[i].is_enabled_phy}
      done == BeforeBlocked(todo, t, m)
  IN  Outcome([t EXCEPT !.breakpoints = [i \in Slot |->
                 IF i \in done
                   THEN [t.breakpoints[i] EXCEPT !.og_byte = m[t.breakpoints[i].addr],
                                                 !.is_enabled_phy = TRUE]
                   ELSE t.breakpoints[i]]],
              [a \in Addr |-> IF \E i \in done : t.breakpoints[i].addr = a
                                THEN Trap ELSE m[a]],
              PeekCode(todo, t, m))

Remove_KeepsFlag(t, m, S) ==     \* fault: is_enabled_phy = false is missing
  LET todo == {i \in S : t.breakpoints[i].is_enabled_phy}
      done == BeforeBlocked(todo, t, m)
      Saved(a) == t.breakpoints[CHOOSE i \in done : t.breakpoints[i].addr = a].og_byte
  IN  Outcome(t,
              [a \in Addr |-> IF \E i \in done : t.breakpoints[i].addr = a
                                THEN Saved(a) ELSE m[a]],
              PeekCode(todo, t, m))

Remove(t, m, S) ==
  LET todo == {i \in S : t.breakpoints[i].is_enabled_phy}
      done == BeforeBlocked(todo, t, m)
      Saved(a) == t.breakpoints[CHOOSE i \in done : t.breakpoints[i].addr = a].og_byte
  IN  Outcome([t EXCEPT !.breakpoints = [i \in Slot |->
                 IF i \in done THEN [t.breakpoints[i] EXCEPT !.is_enabled_phy = FALSE]
                               ELSE t.breakpoints[i]]],
              [a \in Addr |-> IF \E i \in done : t.breakpoints[i].addr = a
                                THEN Saved(a) ELSE m[a]],
              PeekCode(todo, t, m))

sylvan_breakpoint_create_phybp(t, m, i) == Insert(t, m, {i})
sylvan_breakpoint_remove_phybp(t, m, i) == Remove(t, m, {i})
\* fault: the loop stops one slot early
sylvan_breakpoint_setall_phybp_SkipsLast(t, m) ==
  Insert(t, m, {i \in Used(t) : i + 1 # t.breakpoint_count})

sylvan_breakpoint_setall_phybp(t, m)    == Insert(t, m, Used(t))
sylvan_breakpoint_unsetall_phybp(t, m)  == Remove(t, m, Used(t))

sylvan_breakpoint_reset_phybp_None(t) == t   \* fault: nothing is reset

sylvan_breakpoint_reset_phybp(t) ==
  [t EXCEPT !.breakpoints = [i \in Slot |->
     IF i \in Used(t) THEN [t.breakpoints[i] EXCEPT !.is_enabled_phy = FALSE]
                      ELSE t.breakpoints[i]]]

-----------------------------------------------------------------------------
\* One slot: the logical flag first, then the process if there is one.

WithLog(t, i, flag) ==
  [t EXCEPT !.breakpoints[i] = [t.breakpoints[i] EXCEPT !.is_enabled_log = flag]]

sylvan_breakpoint_enable_ptr(t, m, active, i) ==
  IF active THEN sylvan_breakpoint_create_phybp(WithLog(t, i, TRUE), m, i)
            ELSE Outcome(WithLog(t, i, TRUE), m, "OK")

sylvan_breakpoint_disable_ptr(t, m, active, i) ==
  IF active THEN sylvan_breakpoint_remove_phybp(WithLog(t, i, FALSE), m, i)
            ELSE Outcome(WithLog(t, i, FALSE), m, "OK")

-----------------------------------------------------------------------------
\* The operations of include/sylvan/breakpoint.h.

sylvan_breakpoint_enable(t, m, active, a) ==
  IF Matches(t, a) = {}
    THEN Outcome(t, m, "BREAKPOINT_NOT_FOUND")
    ELSE sylvan_breakpoint_enable_ptr(t, m, active, sylvan_breakpoint_find_by_addr(t, a))

sylvan_breakpoint_disable(t, m, active, a) ==
  IF Matches(t, a) = {}
    THEN Outcome(t, m, "BREAKPOINT_NOT_FOUND")
    ELSE sylvan_breakpoint_disable_ptr(t, m, active, sylvan_breakpoint_find_by_addr(t, a))

Append_CountsTwice(t, a) ==     \* fault: breakpoint_count is incremented twice
  LET n == t.breakpoint_count
  IN  [breakpoints |-> [t.breakpoints EXCEPT ![n] =
                          [t.breakpoints[n] EXCEPT !.addr = a, !.is_enabled_log = TRUE]],
       breakpoint_count |-> n + 2]

\* The slot after the last one in use, given an address; its og_byte and its
\* is_enabled_phy stay what the slot's last owner left there.
Append(t, a) ==
  LET n == t.breakpoint_count
  IN  [breakpoints |-> [t.breakpoints EXCEPT ![n] =
                          [t.breakpoints[n] EXCEPT !.addr = a, !.is_enabled_log = TRUE]],
       breakpoint_count |-> n + 1]

sylvan_breakpoint_set(t, m, active, a) ==
  CASE t.breakpoint_count = MAX_BREAKPOINTS ->
         Outcome(t, m, "BREAKPOINT_LIMIT_REACHED")
    [] t.breakpoint_count # MAX_BREAKPOINTS /\ Matches(t, a) # {} ->
         Outcome(t, m, "BREAKPOINT_ALREADY_EXISTS")
    [] OTHER ->
         IF active
           THEN sylvan_breakpoint_enable_ptr(Append(t, a), m, active, t.breakpoint_count)
           ELSE Outcome(Append(t, a), m, "OK")

DropSlot_LosesLast(t, i) ==     \* fault: the last slot is not moved
  [breakpoints |-> t.breakpoints, breakpoint_count |-> t.breakpoint_count - 1]

\* breakpoints[i] = breakpoints[n - 1]: the last slot in use moves to slot i,
\* and its old place keeps a copy that is no longer in use.
DropSlot(t, i) ==
  LET n == t.breakpoint_count - 1
  IN  [breakpoints |-> IF n = 0 THEN t.breakpoints
                                ELSE [t.breakpoints EXCEPT ![i] = t.breakpoints[n]],
       breakpoint_count |-> n]

sylvan_breakpoint_unset_KeepsTrap(t, m, active, a) ==  \* fault: no disable_ptr first
  IF Matches(t, a) = {}
    THEN Outcome(t, m, "BREAKPOINT_NOT_FOUND")
    ELSE Outcome(DropSlot(t, sylvan_breakpoint_find_by_addr(t, a)), m, "OK")

sylvan_breakpoint_unset(t, m, active, a) ==
  IF Matches(t, a) = {}
    THEN Outcome(t, m, "BREAKPOINT_NOT_FOUND")
    ELSE LET i == sylvan_breakpoint_find_by_addr(t, a)
             d == sylvan_breakpoint_disable_ptr(t, m, active, i)
         IN  IF d.ret = "OK" THEN Outcome(DropSlot(d.table, i), d.mem, "OK") ELSE d

-----------------------------------------------------------------------------
(***************************************************************************)
(* What the table must satisfy for the functions above to make sense.      *)
(***************************************************************************)

\* No two slots in use share an address: otherwise the second would save the
\* 0xCC of the first as the program's own byte.
DistinctAddrs(t) ==
  \A i, j \in Used(t) : t.breakpoints[i].addr = t.breakpoints[j].addr => i = j

\* No slot, in use or left over, holds 0xCC as the program's own byte.
NoTrapSaved(t) == \A i \in Slot : t.breakpoints[i].og_byte # Trap

Clean(m) == \A a \in Addr : m[a] # Trap

\* Every 0xCC in memory m is one that the table knows how to remove.
Owned(t, m) ==
  \A a \in Addr : m[a] = Trap =>
     \E i \in Used(t) : t.breakpoints[i].addr = a /\ t.breakpoints[i].is_enabled_phy
=============================================================================
