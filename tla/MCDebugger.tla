----------------------------- MODULE MCDebugger -----------------------------
(***************************************************************************)
(* Small instances of Debugger for TLC.                                    *)
(***************************************************************************)
EXTENDS DebuggerProperties, MCInferior

MCIdOps == {"set", "unset", "file", "destroy"}
=============================================================================
