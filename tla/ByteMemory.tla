----------------------------- MODULE ByteMemory -----------------------------
(***************************************************************************)
(* What sylvan promises of the memory of the traced process, byte by byte  *)
(* and without words: a write puts its bytes in place one after another    *)
(* and touches no other; it succeeds only when all are in place; a failing *)
(* one leaves a prefix.  Between writes single bytes change, because a     *)
(* breakpoint comes or goes or because the process stores something.       *)
(***************************************************************************)
EXTENDS Integers, Sequences

CONSTANTS Location, Value

VARIABLES
  bytes,     \* bytes[a] is the byte at location a
  job,       \* the write in progress
  answer,    \* "ok" or "failed", the answer to the last command
  shown      \* the bytes that the last read has shown

vars == <<bytes, job, answer, shown>>

NoJob == [busy |-> FALSE, addr |-> 0, data |-> <<>>, done |-> 0]

Init ==
  /\ bytes \in [Location -> Value]
  /\ job = NoJob /\ answer = "ok" /\ shown = <<>>

Begin ==
  /\ ~job.busy
  /\ job' \in [busy : {TRUE}, addr : Location, data : Seq(Value), done : {0}]
  /\ shown' = <<>>
  /\ UNCHANGED <<bytes, answer>>

\* The next k bytes of the write are where they belong.
Placed(k) ==
  [a \in Location |->
     IF a - job.addr \in job.done..(job.done + k - 1)
       THEN job.data[a - job.addr + 1] ELSE bytes[a]]

Advance ==
  /\ job.busy
  /\ \E k \in 1..(Len(job.data) - job.done) :
       bytes' = Placed(k) /\ job' = [job EXCEPT !.done = job.done + k]
  /\ UNCHANGED <<answer, shown>>

Finish ==
  /\ job.busy /\ job.done = Len(job.data)
  /\ job' = NoJob /\ answer' = "ok"
  /\ UNCHANGED <<bytes, shown>>

Fail ==
  /\ job.busy /\ job.done < Len(job.data)
  /\ \E k \in 0..(Len(job.data) - job.done) : bytes' = Placed(k)
  /\ job' = NoJob /\ answer' = "failed"
  /\ UNCHANGED shown

\* One byte, or none.
Patch ==
  /\ ~job.busy
  /\ bytes' \in {bytes} \cup {[bytes EXCEPT ![a] = v] : a \in Location, v \in Value}
  /\ answer' \in {"ok", "failed"}
  /\ shown' = <<>>
  /\ UNCHANGED job

\* Bytes are shown from some location on, in order.
Show ==
  /\ ~job.busy
  /\ shown' \in Seq(Value)
  /\ \E a \in Location : \A i \in DOMAIN shown' :
       a + i - 1 \in Location /\ shown'[i] = bytes[a + i - 1]
  /\ answer' \in {"ok", "failed"}
  /\ UNCHANGED <<bytes, job>>

Next == Begin \/ Advance \/ Finish \/ Fail \/ Patch \/ Show

Spec == Init /\ [][Next]_vars
=============================================================================
