---------------------------- MODULE DebugSession ----------------------------
(***************************************************************************)
(* What a user of sylvan can rely on, with no memory, no slots and no      *)
(* ptrace: a set of breakpoints, each enabled or not, at most one target   *)
(* process, and at most one command that waits for it.                     *)
(*                                                                         *)
(* Breakpoints belong to the session.  They outlive every target and are   *)
(* dropped together only with the inferior; one command changes one of     *)
(* them.  Resuming the target may switch the breakpoint it stands on off,  *)
(* and only the same command's return may switch it on again.              *)
(***************************************************************************)
EXTENDS Integers

CONSTANTS
  Location,   \* where breakpoints can be
  Target      \* the processes that can be debugged

NoTarget == 0

VARIABLES
  bps,       \* the user's breakpoints: location -> enabled
  target,    \* the process being debugged
  waiting    \* a command waits for the target

vars == <<bps, target, waiting>>

Switched(a, on) == [bps EXCEPT ![a] = on]
Without(a) == [b \in DOMAIN bps \ {a} |-> bps[b]]
With(a) == [b \in DOMAIN bps \cup {a} |-> IF b = a THEN TRUE ELSE bps[b]]
NoBreakpoints == [b \in {} |-> FALSE]

Init ==
  /\ bps = NoBreakpoints
  /\ target = NoTarget
  /\ waiting = FALSE

-----------------------------------------------------------------------------
Set(a) ==
  /\ ~waiting /\ a \notin DOMAIN bps
  /\ bps' = With(a)
  /\ UNCHANGED <<target, waiting>>

Delete(a) ==
  /\ ~waiting /\ a \in DOMAIN bps
  /\ bps' = Without(a)
  /\ UNCHANGED <<target, waiting>>

Switch(a, on) ==
  /\ ~waiting /\ a \in DOMAIN bps
  /\ bps' = Switched(a, on)
  /\ UNCHANGED <<target, waiting>>

\* The old target, if there is one, is replaced by t, which may be let run at once.
Take(t) ==
  /\ ~waiting
  /\ target' = t
  /\ waiting' \in BOOLEAN
  /\ UNCHANGED bps

Lose ==
  /\ ~waiting
  /\ target' = NoTarget
  /\ UNCHANGED <<bps, waiting>>

NewInferior ==
  /\ ~waiting
  /\ bps' = NoBreakpoints
  /\ target' = NoTarget
  /\ UNCHANGED waiting

-----------------------------------------------------------------------------
Resume ==
  /\ ~waiting /\ target # NoTarget
  /\ waiting' = TRUE
  /\ bps' \in {bps} \cup {Switched(a, FALSE) : a \in DOMAIN bps}
  /\ UNCHANGED target

\* The breakpoint that was stepped off is switched on; continue waits on.
Rearm ==
  /\ waiting
  /\ \E a \in DOMAIN bps : bps' = Switched(a, TRUE)
  /\ waiting' \in BOOLEAN
  /\ UNCHANGED target

Return ==
  /\ waiting
  /\ waiting' = FALSE
  /\ target' \in {target, NoTarget}
  /\ UNCHANGED bps

Next ==
  \/ \E a \in Location :
       Set(a) \/ Delete(a) \/ \E on \in BOOLEAN : Switch(a, on)
  \/ \E t \in Target : Take(t)
  \/ Lose \/ NewInferior \/ Resume \/ Rearm \/ Return

Spec == Init /\ [][Next]_vars
=============================================================================
