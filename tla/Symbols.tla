------------------------------ MODULE Symbols -------------------------------
(***************************************************************************)
(* The program of an inferior, by name: how a word becomes a path          *)
(* (lib/sylvan/utils.c), how the functions of the program at that path     *)
(* come into two tables, and how a breakpoint finds its address by the     *)
(* name of a function (lib/sylvan/symbol.c).  Files change meanwhile:      *)
(* programs are compiled again while they are debugged.                    *)
(***************************************************************************)
EXTENDS Integers, SequencesExt

CONSTANTS
  Name,       \* names of functions, numbered in the order of strcmp
  Address,
  Path, Word,
  File,       \* the contents that a path may have
  Here,       \* Here[w]: the path of word w from the working directory; Denied when
              \* realpath(3) fails for another reason than ENOENT
  InPATH,     \* InPATH[w]: the paths of w in the directories of PATH, in their order
  NoPath, Denied, NotFound

NoName == 0

(***************************************************************************)
(* A file has a kind: "missing", "data" or "exec".  Its dwarf is a         *)
(* sequence of compilation units, of which some cannot be read; its elf a  *)
(* sequence of sections, or nothing when the file is no ELF.  Only what    *)
(* the loaders look at is kept of an entry: is_function is the tag of a    *)
(* DIE that has a lowpc, or the executable section of a symbol; the entry  *)
(* may have no name.  The segments and the bytes are for the disassembler  *)
(* (Disassembly.tla).                                                      *)
(***************************************************************************)
Entry == [name : Name \cup {NoName}, addr : Address, is_function : BOOLEAN]

IsFile(f) ==
  /\ f.kind \in {"missing", "data", "exec"} /\ f.is_elf \in BOOLEAN
  /\ f.dwarf \in Seq([readable : BOOLEAN, dies : Seq(Entry)])
  /\ f.sections \in Seq([type : STRING, syms : Seq(Entry)])

Missing ==
  [kind |-> "missing", is_elf |-> FALSE, dwarf |-> <<>>, sections |-> <<>>,
   segments |-> <<>>, bytes |-> <<>>]

ASSUME SymbolsAssumption ==
  /\ Name \subseteq Nat \ {NoName}
  /\ Missing \in File /\ \A f \in File : IsFile(f)
  /\ Here \in [Word -> Path \cup {Denied}]
  /\ InPATH \in [Word -> Seq(Path)]
  /\ NoPath \notin Path /\ NoPath \notin File /\ Denied \notin Path /\ NotFound \notin Address

VARIABLES
  disk,       \* the content of each path
  realpath,   \* of struct sylvan_inferior, as are the two tables
  dwarf_table, elf_table,
  code,       \* what the last call returned
  loaded      \* history: what the tables were loaded from, and that it was complete

vars == <<disk, realpath, dwarf_table, elf_table, code, loaded>>

Symbol == [name : Name, addr : Address]

Code == {"OK", "FILE_NOT_FOUND", "SYSTEM_ERROR", "NOT_EXECUTABLE", "ELF_FAILED", "SYMBOL_NOT_FOUND"}

TypeOK ==
  /\ disk \in [Path -> File]
  /\ realpath \in Path \cup {NoPath}
  /\ dwarf_table \in Seq(Symbol) /\ elf_table \in Seq(Symbol)
  /\ code \in Code
  /\ loaded \in [file : File \cup {NoPath}, ok : BOOLEAN]

-----------------------------------------------------------------------------
\* What the loaders take of the entries of a unit or a section.
Functions_NamelessToo(entries) ==     \* fault: name is not looked at
  FlattenSeq([k \in 1..Len(entries) |->
    IF entries[k].is_function
      THEN <<[name |-> entries[k].name, addr |-> entries[k].addr]>>
      ELSE <<>>])

Functions(entries) ==
  FlattenSeq([k \in 1..Len(entries) |->
    IF entries[k].is_function /\ entries[k].name # NoName
      THEN <<[name |-> entries[k].name, addr |-> entries[k].addr]>>
      ELSE <<>>])

\* The units before the first that cannot be read; without DWARF, none.
sylvan_sym_load_dwarf(f) ==
  LET bad == SelectInSeq(f.dwarf, LAMBDA cu : ~cu.readable)
  IN  FlattenSeq([i \in 1..(IF bad = 0 THEN Len(f.dwarf) ELSE bad - 1) |->
        Functions(f.dwarf[i].dies)])

sylvan_sym_load_elf(f) ==
  FlattenSeq([i \in 1..Len(f.sections) |->
    IF f.sections[i].type \in {"SYMTAB", "DYNSYM"} THEN Functions(f.sections[i].syms) ELSE <<>>])

\* qsort by name; which of two entries of one name comes first does not matter.
Insert(t, e) ==
  LET i == SelectInSeq(t, LAMBDA s : s.name > e.name)
  IN  IF i = 0 THEN Append(t, e) ELSE InsertAt(t, i, e)

Sort(t) ==
  LET sorted[n \in 0..Len(t)] == IF n = 0 THEN <<>> ELSE Insert(sorted[n - 1], t[n])
  IN  sorted[Len(t)]

Tables(d, e, c) == [dwarf |-> d, elf |-> e, code |-> c]

sylvan_sym_load_tables_SortsOne(f) ==   \* fault: the ELF table is not sorted
  IF f.is_elf
    THEN Tables(Sort(sylvan_sym_load_dwarf(f)), sylvan_sym_load_elf(f), "OK")
    ELSE Tables(sylvan_sym_load_dwarf(f), <<>>, "ELF_FAILED")

sylvan_sym_load_tables_KeepsElf(f) ==   \* fault: elf_table is not destroyed
  IF f.is_elf
    THEN Tables(Sort(sylvan_sym_load_dwarf(f)), Sort(elf_table \o sylvan_sym_load_elf(f)), "OK")
    ELSE Tables(sylvan_sym_load_dwarf(f), elf_table, "ELF_FAILED")

\* Both tables anew.  When the ELF cannot be read the DWARF table stays unsorted.
sylvan_sym_load_tables(f) ==
  IF f.is_elf
    THEN Tables(Sort(sylvan_sym_load_dwarf(f)), Sort(sylvan_sym_load_elf(f)), "OK")
    ELSE Tables(sylvan_sym_load_dwarf(f), <<>>, "ELF_FAILED")

\* What open and realpath find there.
Content(p) == IF p = NoPath THEN Missing ELSE disk[p]

\* Loads the tables of the new path p.
LoadFrom(p) ==
  LET t == sylvan_sym_load_tables(Content(p))
  IN  /\ realpath' = p
      /\ dwarf_table' = t.dwarf
      /\ elf_table' = t.elf
      /\ code' = t.code
      /\ loaded' = [file |-> IF p = NoPath THEN NoPath ELSE disk[p], ok |-> t.code = "OK"]
      /\ UNCHANGED disk

Fails(c) ==
  /\ code' = c
  /\ UNCHANGED <<disk, realpath, dwarf_table, elf_table, loaded>>

-----------------------------------------------------------------------------
\* Paths.

\* access(full_path, X_OK) over the directories of PATH, in order.
sylvan_find_in_PATH(w) ==
  LET i == SelectInSeq(InPATH[w], LAMBDA p : disk[p].kind = "exec")
  IN  IF i = 0 THEN NoPath ELSE InPATH[w][i]

\* The word as a path, and only if there is no such file as a command.
sylvan_canonical_path(w) ==
  CASE Here[w] = Denied -> NoPath
    [] Here[w] # Denied /\ disk[Here[w]].kind # "missing" -> Here[w]
    [] OTHER -> sylvan_find_in_PATH(w)

-----------------------------------------------------------------------------
\* The calls.

sylvan_set_filepath(w) ==
  LET p == sylvan_canonical_path(w)
  IN  \/ p = NoPath /\ Fails(IF Here[w] = Denied THEN "SYSTEM_ERROR" ELSE "FILE_NOT_FOUND")
      \/ p # NoPath /\ Content(p).kind # "exec" /\ Fails("NOT_EXECUTABLE")
      \/ p # NoPath /\ Content(p).kind = "exec" /\ LoadFrom(p)

\* sylvan_attach to a process of program p; the path of one whose file was
\* deleted, or that may not be read, is unknown.
sylvan_attach(p) == LoadFrom(IF Content(p).kind = "missing" THEN NoPath ELSE p)

\* sylvan_inferior_destroy and sylvan_inferior_create.
ReplaceInferior ==
  /\ realpath' = NoPath
  /\ dwarf_table' = <<>> /\ elf_table' = <<>>
  /\ code' = "OK"
  /\ loaded' = [file |-> NoPath, ok |-> TRUE]
  /\ UNCHANGED disk

(***************************************************************************)
(* What bsearch may return: in a sorted table any entry of that name, and  *)
(* nothing only if there is none; in another it may miss an entry.         *)
(***************************************************************************)
Sorted(t) == \A i, j \in DOMAIN t : i < j => t[i].name <= t[j].name

sym_lookup(t, n) ==
  LET hits == {t[i].addr : i \in {j \in DOMAIN t : t[j].name = n}}
  IN  hits \cup IF hits = {} \/ ~Sorted(t) THEN {NotFound} ELSE {}

sylvan_get_label_addr(n) ==
  LET d == sym_lookup(dwarf_table, n)
  IN  (d \ {NotFound}) \cup IF NotFound \in d THEN sym_lookup(elf_table, n) ELSE {}

\* What sylvan_set_breakpoint_function does with the address is in Inferior.tla.
sylvan_set_breakpoint_function(n) ==
  \E a \in sylvan_get_label_addr(n) :
    Fails(IF a = NotFound THEN "SYMBOL_NOT_FOUND" ELSE "OK")

\* Somebody compiles, removes or installs a program.
Rebuild(p) ==
  /\ \E f \in File : disk' = [disk EXCEPT ![p] = f]
  /\ UNCHANGED <<realpath, dwarf_table, elf_table, code, loaded>>

Init ==
  /\ disk \in [Path -> File]
  /\ realpath = NoPath
  /\ dwarf_table = <<>> /\ elf_table = <<>>
  /\ code = "OK"
  /\ loaded = [file |-> NoPath, ok |-> TRUE]

Next ==
  \/ \E w \in Word : sylvan_set_filepath(w)
  \/ \E p \in Path \cup {NoPath} : sylvan_attach(p)
  \/ ReplaceInferior
  \/ \E n \in Name : sylvan_set_breakpoint_function(n)
  \/ \E p \in Path : Rebuild(p)

Spec == Init /\ [][Next]_vars

-----------------------------------------------------------------------------
(***************************************************************************)
(* The functions of a program, whatever the order of its units, sections   *)
(* and entries: what DWARF tells, and for other names what ELF tells.      *)
(***************************************************************************)
InDwarf(f, n) ==
  {a \in Address : \E i \in DOMAIN f.dwarf :
     /\ \A j \in 1..i : f.dwarf[j].readable
     /\ \E k \in DOMAIN f.dwarf[i].dies :
          f.dwarf[i].dies[k] = [name |-> n, addr |-> a, is_function |-> TRUE]}

InElf(f, n) ==
  {a \in Address : \E i \in DOMAIN f.sections :
     /\ f.sections[i].type \in {"SYMTAB", "DYNSYM"}
     /\ \E k \in DOMAIN f.sections[i].syms :
          f.sections[i].syms[k] = [name |-> n, addr |-> a, is_function |-> TRUE]}

Labels(f, n) ==
  CASE f = NoPath -> {}
    [] f # NoPath /\ InDwarf(f, n) # {} -> InDwarf(f, n)
    [] OTHER -> InElf(f, n)

\* After a file or attach that succeeded, a breakpoint by name is set at a function
\* of that name in that program if it has one, and refused if it has none.
LabelsOfProgram ==
  loaded.ok => \A n \in Name : sylvan_get_label_addr(n) =
                 IF Labels(loaded.file, n) = {} THEN {NotFound} ELSE Labels(loaded.file, n)

\* Even when symbols could not be loaded, a name never means a function of the
\* program that was there before.
NoForeignLabel ==
  \A n \in Name : sylvan_get_label_addr(n) \subseteq Labels(loaded.file, n) \cup {NotFound}
=============================================================================
