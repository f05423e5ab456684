---------------------------- MODULE CommandLine ----------------------------
(***************************************************************************)
(* The prompt of src/user_interface.c and the commands and aliases of      *)
(* src/command_registry.c: lines are read, cancelled by SIGINT, repeated   *)
(* by an empty line, and run the command that their first word names.      *)
(* What a command does to the inferior is in Debugger.tla; here only quit  *)
(* and set_alias change something.                                         *)
(*                                                                         *)
(* An alias shadows a command of the same name, and is followed once: the  *)
(* command of an alias must itself be no alias.                            *)
(***************************************************************************)
EXTENDS FiniteSets, Sequences, Integers

CONSTANTS
  Command,      \* the names in command_hash
  Word,         \* all that the user may type as a word
  Line,         \* the lines the user may type, each by its words; <<>> is blanks
  StaticAlias   \* static_aliases, as a function from the names

Alias == [org_cmd : Word, id : Nat, type : {"s", "u"}]

ASSUME CommandLineAssumption ==
  /\ {"quit", "set_alias"} \subseteq Command
  /\ Command \subseteq Word
  /\ DOMAIN StaticAlias \subseteq Word
  /\ IsFiniteSet(Word)
  /\ Line \subseteq Seq(Word)
  /\ \A w \in DOMAIN StaticAlias : StaticAlias[w] \in Alias /\ StaticAlias[w].type = "s"
  /\ {StaticAlias[w].id : w \in DOMAIN StaticAlias} = 1..Cardinality(DOMAIN StaticAlias)
  /\ \E w \in DOMAIN StaticAlias : StaticAlias[w].org_cmd = "quit"     \* command_alias.h:6

VARIABLES
  ui,            \* where interface_loop is, and the line it has
  interrupted,   \* set by handle_sigint
  history,       \* the last line of readline's history
  alias_table

vars == <<ui, interrupted, history, alias_table>>

Empty == <<"">>         \* "": just the return key, or an interrupted readline
EndOfFile == <<"EOF">>  \* NULL

NoWord == "NULL"
NoCommand == "NULL"

TypeOK ==
  /\ ui \in [at : {"readline", "left", "crashed"}, line : {Empty}]
            \cup [at : {"read"}, line : Line \cup {Empty, EndOfFile}]
            \cup [at : {"handle"}, line : Line \ {<<>>}]
  /\ interrupted \in BOOLEAN
  /\ history \in Line \cup {Empty}
  /\ DOMAIN alias_table \subseteq Word
  /\ \A w \in DOMAIN alias_table : alias_table[w] \in Alias

-----------------------------------------------------------------------------
\* The registry.

lookup_command(w) ==
  LET name == IF w \in DOMAIN alias_table THEN alias_table[w].org_cmd ELSE w
  IN  IF name \in Command THEN name ELSE NoCommand

\* command[i], counted from 0 as in C.
Arg(i) == IF i < Len(ui.line) THEN ui.line[i + 1] ELSE NoWord

With(w, a) == [v \in DOMAIN alias_table \cup {w} |-> IF v = w THEN a ELSE alias_table[v]]

insert_alias_Overwrites(name, org, id) ==     \* fault: the test of existing is missing
  alias_table' =
    IF lookup_command(org) = NoCommand THEN alias_table
    ELSE With(name, [org_cmd |-> org, id |-> id, type |-> "u"])

\* A name that is an alias already, or a command that cannot be found, is refused.
insert_alias(name, org, id) ==
  alias_table' =
    IF name \in DOMAIN alias_table \/ lookup_command(org) = NoCommand THEN alias_table
    ELSE With(name, [org_cmd |-> org, id |-> id, type |-> "u"])

handle_set_alias_CountsOnly ==     \* fault: HASH_COUNT is not incremented
  IF Arg(1) = NoWord \/ Arg(2) = NoWord
    THEN UNCHANGED alias_table
    ELSE insert_alias(Arg(2), Arg(3), Cardinality(DOMAIN alias_table))

\* The command is taken from the third argument, and the first one is not used.
handle_set_alias ==
  IF Arg(1) = NoWord \/ Arg(2) = NoWord
    THEN UNCHANGED alias_table
    ELSE insert_alias(Arg(2), Arg(3), Cardinality(DOMAIN alias_table) + 1)

-----------------------------------------------------------------------------
At(at) == ui.at = at
GoTo(at) == [at |-> at, line |-> Empty]

\* init_commands, before the first prompt.
Init ==
  /\ ui = GoTo("readline")
  /\ interrupted = FALSE
  /\ history = Empty
  /\ alias_table = StaticAlias

\* handle_sigint, while a line is read or a command is run.
Interrupt ==
  /\ ui.at \in {"readline", "read", "handle"}
  /\ interrupted' = TRUE
  /\ UNCHANGED <<ui, history, alias_table>>

\* readline returns a line, the end of the input, or "" from event_hook.
ReadLine(line) ==
  /\ At("readline")
  /\ ui' = [at |-> "read", line |-> line]
  /\ UNCHANGED <<interrupted, history, alias_table>>

EventHook == interrupted /\ ReadLine(Empty)


\* The line is dropped, with all that was typed, and not added to the history.
Cancel ==
  /\ At("read") /\ interrupted
  /\ interrupted' = FALSE
  /\ ui' = GoTo("readline")
  /\ UNCHANGED <<history, alias_table>>

get_command_BlankToo(line) ==     \* fault: line[0] == NULL is not looked at
  /\ At("read") /\ ~interrupted /\ ui.line # EndOfFile
  /\ line = IF ui.line = Empty THEN history ELSE ui.line
  /\ history' = line
  /\ ui' = IF line = Empty THEN GoTo("readline") ELSE [at |-> "handle", line |-> line]
  /\ UNCHANGED <<interrupted, alias_table>>

\* An empty line stands for the last line of the history; a line without a word
\* is not handled.
get_command(line) ==
  /\ At("read") /\ ~interrupted /\ ui.line # EndOfFile
  /\ line = IF ui.line = Empty THEN history ELSE ui.line
  /\ history' = line
  /\ ui' = IF line \in {Empty, <<>>} THEN GoTo("readline") ELSE [at |-> "handle", line |-> line]
  /\ UNCHANGED <<interrupted, alias_table>>

\* input[0] of a NULL input.
get_command_AtEndOfFile ==
  /\ At("read") /\ ~interrupted /\ ui.line = EndOfFile
  /\ ui' = GoTo("crashed")
  /\ UNCHANGED <<interrupted, history, alias_table>>

\* quit leaves the loop, and free_alias_table empties the table.
handle_command ==
  /\ At("handle")
  /\ LET cmd == lookup_command(Arg(0))
     IN  CASE cmd = "quit"      -> ui' = GoTo("left") /\ alias_table' = [w \in {} |-> 0]
           [] cmd = "set_alias" -> ui' = GoTo("readline") /\ handle_set_alias
           [] OTHER             -> ui' = GoTo("readline") /\ UNCHANGED alias_table
  /\ UNCHANGED <<interrupted, history>>

LoopSteps ==
  \/ EventHook
  \/ Cancel
  \/ \E line \in Line \cup {Empty} : get_command(line)
  \/ get_command_AtEndOfFile
  \/ handle_command

Next ==
  \/ Interrupt
  \/ \E line \in Line \cup {Empty, EndOfFile} : ReadLine(line)
  \/ LoopSteps

Spec == Init /\ [][Next]_vars

\* The loop goes on, and readline calls its event hook; nobody has to type.
FairSpec == Spec /\ WF_vars(LoopSteps)

-----------------------------------------------------------------------------
\* An id of info_alias names one alias.
UniqueIds ==
  \A v, w \in DOMAIN alias_table : alias_table[v].id = alias_table[w].id => v = w

\* As long as the loop runs, an alias runs what it ran when it was defined, also
\* when commands are shadowed by later aliases.
AliasKeepsMeaning ==
  [][ui'.at # "left" =>
       \A w \in DOMAIN alias_table : lookup_command(w)' = lookup_command(w)]_vars

\* Whatever aliases are defined, some word still runs quit.
QuitReachable ==
  ~At("left") => \E w \in Word : lookup_command(w) = "quit"

=============================================================================
