--------------------------- MODULE MCCommandLine ---------------------------
(***************************************************************************)
(* Instances of CommandLine for TLC.  run stands for every command beside  *)
(* quit and set_alias, q for every static alias, x for a word that is      *)
(* neither.                                                                *)
(***************************************************************************)
EXTENDS CommandLine

MCCommand == {"run", "quit", "set_alias"}
MCWord == MCCommand \cup {"q", "x"}
MCStaticAlias == [w \in {"q"} |-> [org_cmd |-> "quit", id |-> 1, type |-> "s"]]

\* set_alias in the form that the code understands.
SetAlias(names, orgs) == {<<"set_alias", "run", v, w>> : v \in names, w \in orgs}

\* New aliases, aliases of aliases, aliases that shadow a command or exist already.
MCLine == {<<>>, <<"run">>, <<"x">>, <<"quit">>} \cup SetAlias({"x", "quit", "run", "q"}, {"run", "quit", "q", "x"})
=============================================================================
