----------------------------- MODULE MCInferior -----------------------------
(***************************************************************************)
(* Small instances of Inferior for TLC.  Two pids: an attach or a run can  *)
(* follow another process, and a pid can be used again.  Two slots: the    *)
(* last one moves into a deleted one.  Two programs whose bytes differ, so *)
(* that a byte saved from one of them shows in the other.                  *)
(***************************************************************************)
EXTENDS InferiorProperties

MCPid == {1, 2}
MCProgram == {1, 2}
MCByte == {0, 1, 2}

\* Address 0 is not mapped, as in every Linux process; program g holds g.
MCImage == [g \in Program |-> [a \in Addr |-> IF a = 0 THEN PeekFailed ELSE g]]

\* The same of programs that hold nothing but 0, for properties that tell only the
\* trap from other bytes.
MCZeroImage == [g \in Program |-> [a \in Addr |-> IF a = 0 THEN PeekFailed ELSE 0]]

\* The program is readable everywhere.
MCReadableImage == [g \in Program |-> [a \in Addr |-> g]]

MCCalls == {"set", "enable", "disable", "detach", "destroy", "attach", "file", "run",
            "continue", "stepinst", "regs"}
MCEvents == {"signal", "fault", "kill"}

MCAllOps == MCCalls \cup MCEvents \cup
  {"unset", "write", "nosymbols", "childerror", "killchild", "exec"}

\* Of the stops, a signal stands for a fault as well.
MCProcessOps == MCAllOps \ {"fault"}

\* A deleted breakpoint's slot is used again.
MCReuseOps == MCCalls \cup {"unset"}

\* No slot is used twice, nothing else changes code, symbols can be read.
MCPlainOps == MCCalls \cup MCEvents
=============================================================================
