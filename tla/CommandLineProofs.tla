-------------------------- MODULE CommandLineProofs --------------------------
(***************************************************************************)
(* The safety of the prompt and of the alias table, for all commands, all  *)
(* lines and all static aliases.  CInv adds to what is claimed of the      *)
(* table how its ids are given, and that no alias is ever lost.            *)
(***************************************************************************)
EXTENDS CommandLine, FiniteSetTheorems, FunctionTheorems, TLAPS

\* The ids that a table of n aliases uses are among the first n numbers.
Numbered ==
  /\ UniqueIds
  /\ \A w \in DOMAIN alias_table : alias_table[w].id \in 1..Cardinality(DOMAIN alias_table)

\* No alias of init_commands goes away while the loop runs.
StaticStays ==
  ~At("left") =>
    \A w \in DOMAIN StaticAlias : w \in DOMAIN alias_table /\ alias_table[w] = StaticAlias[w]

CInv == TypeOK /\ Numbered /\ StaticStays

-----------------------------------------------------------------------------
\* The states of interface_loop.
Ui ==
  [at : {"readline", "left", "crashed"}, line : {Empty}]
    \cup [at : {"read"}, line : Line \cup {Empty, EndOfFile}]
    \cup [at : {"handle"}, line : Line \ {<<>>}]

\* Only a handled line has words of its own, the last line of the history included.
LEMMA Uis ==
  /\ \A at \in {"readline", "left", "crashed"} : GoTo(at) \in Ui
  /\ \A line \in Line \cup {Empty, EndOfFile} : [at |-> "read", line |-> line] \in Ui
  /\ \A line \in Line \ {<<>>} : [at |-> "handle", line |-> line] \in Ui
  /\ \A u \in Ui : u.at = "handle" => u.line \in Line \ {<<>>}
BY DEF Ui, GoTo

\* The ids of command_alias.h are those from 1 up, and there is one alias for each.
LEMMA StaticNumbered ==
  /\ \A w \in DOMAIN StaticAlias : StaticAlias[w].id \in 1..Cardinality(DOMAIN StaticAlias)
  /\ \A v, w \in DOMAIN StaticAlias : StaticAlias[v].id = StaticAlias[w].id => v = w
<1> DEFINE D == DOMAIN StaticAlias
           N == 1..Cardinality(D)
           ids == [w \in D |-> StaticAlias[w].id]
<1>1. IsFiniteSet(D) /\ Cardinality(D) \in Nat
  BY CommandLineAssumption, FS_Subset, FS_CardinalityType
<1>2. Cardinality(N) = Cardinality(D)
  BY <1>1, FS_Interval
<1>3. {StaticAlias[w].id : w \in D} = N
  BY CommandLineAssumption
<1>4. ids \in Surjection(D, N)
  BY <1>3 DEF Surjection
<1>5. ids \in Injection(D, N)
  BY <1>1, <1>2, <1>4, FS_Surjection
<1>6. \A v, w \in D : ids[v] = ids[w] => v = w
  BY <1>5, Fun_InjectionProperties
<1>7. \A w \in D : ids[w] = StaticAlias[w].id
  OBVIOUS
<1>8. \A w \in D : StaticAlias[w].id \in N
  BY <1>3
<1> HIDE DEF ids
<1> QED BY <1>6, <1>7, <1>8

\* After init_commands the aliases are the static ones.
LEMMA CommandLineInit == Init => CInv
<1> SUFFICES ASSUME Init PROVE CInv
  OBVIOUS
<1>1. TypeOK
  BY CommandLineAssumption, Uis DEF Init, TypeOK, Ui
<1>2. Numbered
  BY StaticNumbered DEF Init, Numbered, UniqueIds
<1> QED BY <1>1, <1>2 DEF Init, CInv, StaticStays

-----------------------------------------------------------------------------
\* An alias that insert_alias accepts has a name that is none yet, a command that is
\* known, and an id that is free (command_registry.c).
LEMMA InsertGood ==
  ASSUME CInv, NEW name \in Word, NEW org,
         insert_alias(name, org, Cardinality(DOMAIN alias_table) + 1)
  PROVE  /\ DOMAIN alias_table' \subseteq Word
         /\ \A w \in DOMAIN alias_table' : alias_table'[w] \in Alias
         /\ Numbered'
         /\ \A w \in DOMAIN alias_table : w \in DOMAIN alias_table' /\ alias_table'[w] = alias_table[w]
<1> DEFINE D == DOMAIN alias_table
           id == Cardinality(D) + 1
           new == [org_cmd |-> org, id |-> id, type |-> "u"]
<1>1. D \subseteq Word /\ \A w \in D : alias_table[w] \in Alias
  BY DEF CInv, TypeOK
<1>2. IsFiniteSet(D) /\ Cardinality(D) \in Nat
  BY <1>1, CommandLineAssumption, FS_Subset, FS_CardinalityType
<1>3. CASE name \in D \/ lookup_command(org) = NoCommand
  BY <1>1, <1>3 DEF insert_alias, CInv, Numbered, UniqueIds
<1>4. CASE name \notin D /\ lookup_command(org) # NoCommand
  <2>1. alias_table' = [v \in D \cup {name} |-> IF v = name THEN new ELSE alias_table[v]]
    BY <1>4 DEF insert_alias, With
  <2>2. org \in Word
    BY <1>1, <1>4, CommandLineAssumption DEF lookup_command
  <2>3. new \in Alias
    BY <1>2, <2>2 DEF Alias
  <2>4. Cardinality(D \cup {name}) = id
    BY <1>2, <1>4, FS_AddElement
  <2>5. \A w \in D : alias_table[w].id \in 1..Cardinality(D)
    BY DEF CInv, Numbered
  <2>6. UniqueIds'
    <3> SUFFICES ASSUME NEW v \in D \cup {name}, NEW w \in D \cup {name},
                        alias_table'[v].id = alias_table'[w].id
                 PROVE  v = w
      BY <2>1 DEF UniqueIds
    <3>1. CASE v \in D /\ w \in D
      BY <1>4, <2>1, <3>1 DEF CInv, Numbered, UniqueIds
    <3>2. CASE v = name \/ w = name
      BY <1>2, <1>4, <2>1, <2>5, <3>2
    <3> QED BY <3>1, <3>2
  <2>7. \A w \in DOMAIN alias_table' : alias_table'[w].id \in 1..Cardinality(DOMAIN alias_table')
    BY <1>2, <2>1, <2>4, <2>5
  <2> QED BY <1>1, <1>4, <2>1, <2>3, <2>6, <2>7 DEF Numbered
<1> QED BY <1>3, <1>4

\* set_alias, with its arguments taken from the line.
LEMMA SetAliasGood ==
  ASSUME CInv, At("handle"), handle_set_alias
  PROVE  /\ DOMAIN alias_table' \subseteq Word
         /\ \A w \in DOMAIN alias_table' : alias_table'[w] \in Alias
         /\ Numbered'
         /\ \A w \in DOMAIN alias_table : w \in DOMAIN alias_table' /\ alias_table'[w] = alias_table[w]
<1>1. CASE UNCHANGED alias_table
  BY <1>1 DEF CInv, TypeOK, Numbered, UniqueIds
<1>2. CASE Arg(2) # NoWord /\ insert_alias(Arg(2), Arg(3), Cardinality(DOMAIN alias_table) + 1)
  <2>1. ui.line \in Seq(Word)
    BY Uis, CommandLineAssumption DEF CInv, TypeOK, At, Ui
  <2>2. Arg(2) \in Word
    BY <1>2, <2>1 DEF Arg
  <2> QED BY <1>2, <2>2, InsertGood
<1> QED BY <1>1, <1>2 DEF handle_set_alias

\* Every command but quit leaves all aliases in place; quit leaves the loop and no alias.
LEMMA HandleGood ==
  ASSUME CInv, handle_command
  PROVE  CInv'
<1>1. At("handle") /\ UNCHANGED <<interrupted, history>>
  BY DEF handle_command
<1>2. CASE ui' = GoTo("left") /\ alias_table' = [w \in {} |-> 0]
  BY <1>1, <1>2, Uis DEF CInv, TypeOK, Numbered, UniqueIds, StaticStays, At, GoTo, Ui
<1>3. CASE ui' = GoTo("readline") /\ (handle_set_alias \/ UNCHANGED alias_table)
  <2>1. /\ DOMAIN alias_table' \subseteq Word
        /\ \A w \in DOMAIN alias_table' : alias_table'[w] \in Alias
        /\ Numbered'
        /\ \A w \in DOMAIN alias_table : w \in DOMAIN alias_table' /\ alias_table'[w] = alias_table[w]
    BY <1>1, <1>3, SetAliasGood DEF CInv, TypeOK, Numbered, UniqueIds
  <2>2. ~At("left")
    BY <1>1 DEF At
  <2>3. StaticStays'
    BY <2>1, <2>2 DEF CInv, StaticStays
  <2> QED BY <1>1, <1>3, <2>1, <2>3, Uis DEF CInv, TypeOK, Ui
<1> QED BY <1>2, <1>3 DEF handle_command

\* What happens before a command is handled: lines come and go, the table stays.
LEMMA PromptGood ==
  ASSUME CInv, UNCHANGED alias_table,
         ui' \in Ui, interrupted' \in BOOLEAN, history' \in Line \cup {Empty},
         At("left") => ui' = ui
  PROVE  CInv'
BY DEF CInv, TypeOK, Numbered, UniqueIds, StaticStays, At, Ui

\* Every step of the loop, and SIGINT at any moment.
LEMMA CommandLineStep ==
  ASSUME CInv, [Next]_vars
  PROVE  CInv'
<1>1. ui \in Ui /\ interrupted \in BOOLEAN /\ history \in Line \cup {Empty}
  BY DEF CInv, TypeOK, Ui
<1>2. CASE Interrupt
  BY <1>1, <1>2, PromptGood DEF Interrupt
<1>3. CASE EventHook \/ \E line \in Line \cup {Empty, EndOfFile} : ReadLine(line)
  BY <1>1, <1>3, PromptGood, Uis DEF EventHook, ReadLine, At
<1>4. CASE Cancel \/ get_command_AtEndOfFile
  BY <1>1, <1>4, PromptGood, Uis DEF Cancel, get_command_AtEndOfFile, At
<1>5. CASE \E line \in Line \cup {Empty} : get_command(line)
  BY <1>1, <1>5, PromptGood, Uis DEF get_command, At
<1>6. CASE handle_command
  BY <1>6, HandleGood
<1>7. CASE UNCHANGED vars
  BY <1>1, <1>7, PromptGood DEF vars
<1> QED BY <1>2, <1>3, <1>4, <1>5, <1>6, <1>7 DEF Next, LoopSteps

\* The inductive invariant of the prompt.
THEOREM CommandLineInductive == Spec => []CInv
BY CommandLineInit, CommandLineStep, PTL DEF Spec

-----------------------------------------------------------------------------
\* The line that is handled is one that was typed, now or last time, and has a word;
\* an alias has a name that can be typed (user_interface.c).
THEOREM CommandLineTypes == Spec => []TypeOK
BY CommandLineInductive, PTL DEF CInv

\* The id that info_alias shows names one alias, though it is only the count of the
\* table at the time of insertion, plus one.
THEOREM IdsAreUnique == Spec => []UniqueIds
BY CommandLineInductive, PTL DEF CInv, Numbered

\* quit can be called at every prompt: the alias q cannot be redefined, although the
\* word quit itself can be shadowed.
THEOREM QuitStaysReachable == Spec => []QuitReachable
<1>1. CInv => QuitReachable
  BY CommandLineAssumption DEF CInv, TypeOK, StaticStays, QuitReachable, lookup_command
<1> QED BY <1>1, CommandLineInductive, PTL

\* An alias keeps its command until quit: set_alias refuses a name that is taken.
THEOREM AliasesKeepMeaning == Spec => AliasKeepsMeaning
<1>1. ASSUME CInv, [Next]_vars, ui'.at # "left", NEW w \in DOMAIN alias_table
      PROVE  w \in DOMAIN alias_table' /\ alias_table'[w] = alias_table[w]
  <2>1. CASE UNCHANGED alias_table
    BY <2>1
  <2>2. CASE handle_command
    BY <1>1, <2>2, SetAliasGood DEF handle_command, GoTo
  <2> QED
    BY <1>1, <2>1, <2>2
    DEF Next, LoopSteps, vars, Interrupt, ReadLine, EventHook, Cancel, get_command, get_command_AtEndOfFile
<1>2. ASSUME CInv, [Next]_vars
      PROVE  ui'.at # "left" =>
               \A w \in DOMAIN alias_table : lookup_command(w)' = lookup_command(w)
  BY <1>1, <1>2 DEF lookup_command
<1>3. CInv /\ [Next]_vars => 
        (ui'.at # "left" => \A w \in DOMAIN alias_table : lookup_command(w)' = lookup_command(w))
  BY <1>2
<1> QED BY <1>3, CommandLineInductive, PTL DEF Spec, AliasKeepsMeaning
=============================================================================
