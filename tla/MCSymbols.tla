----------------------------- MODULE MCSymbols ------------------------------
(***************************************************************************)
(* Programs that differ in what can be read of them.                       *)
(***************************************************************************)
EXTENDS Disassembly, TLC

MCName == 1..3
MCAddress == 1..6
MCProcAddr == {0, 2, 4, 6, 7, 8, 9}

\* Bytes 1, 2 and 3 start instructions of that length, 9 is ret, 0 starts none.
MCLength == (0 :> 0 @@ 1 :> 1 @@ 2 :> 2 @@ 3 :> 3 @@ 9 :> 1)

Fn(n, a) == [name |-> n, addr |-> a, is_function |-> TRUE]
Object(n, a) == [name |-> n, addr |-> a, is_function |-> FALSE]
Unit(dies) == [readable |-> TRUE, dies |-> dies]
BadUnit(dies) == [readable |-> FALSE, dies |-> dies]
Section(type, syms) == [type |-> type, syms |-> syms]
Seg(load, a, o, filesz, memsz) ==
  [load |-> load, vaddr |-> a, offset |-> o, filesz |-> filesz, memsz |-> memsz]

\* Code at 1 to 6 and, right behind it, one byte of data and .bss at 8 and 9.
Segments == <<Seg(FALSE, 1, 0, 4, 4), Seg(TRUE, 1, 1, 6, 6), Seg(TRUE, 7, 7, 1, 3)>>

Data == [Missing EXCEPT !.kind = "data"]
Script == [Missing EXCEPT !.kind = "exec"]
Binary == [Script EXCEPT !.is_elf = TRUE, !.segments = Segments]

\* DWARF that libdwarf can read in a file that is no ELF, such as a PE.
Foreign == [Script EXCEPT !.dwarf = <<Unit(<<Fn(2, 1), Fn(1, 2)>>)>>]

\* No DWARF, and a table of another type before that of the symbols.
Stripped ==
  [Binary EXCEPT !.sections = <<Section("STRTAB", <<Fn(3, 1)>>),
                                Section("DYNSYM", <<Fn(2, 2), Object(1, 3)>>)>>,
                 !.bytes = <<0, 1, 2, 0, 9, 1, 2, 9, 9>>]

\* The second unit cannot be read; a name of the third is in the ELF alone.  Function 3
\* ends with ret, function 1 runs on to the end of the segment.
Debug ==
  [Binary EXCEPT !.dwarf = <<Unit(<<Fn(3, 1), Object(2, 1), Fn(1, 4)>>),
                             BadUnit(<<Fn(2, 4)>>), Unit(<<Fn(2, 1)>>)>>,
                 !.sections = <<Section("SYMTAB", <<Fn(2, 4), Fn(NoName, 2), Fn(3, 1), Fn(1, 4)>>)>>,
                 !.bytes = <<0, 2, 0, 9, 3, 0, 0, 1, 9>>]

\* Two static functions of one name, and a table that is not in order; the file was cut
\* off in the middle of the code.
Twice ==
  [Binary EXCEPT !.dwarf = <<Unit(<<Fn(2, 3)>>), Unit(<<Fn(NoName, 4), Fn(1, 1), Fn(2, 2)>>)>>,
                 !.sections = <<Section("SYMTAB", <<Fn(2, 3), Fn(1, 1), Fn(2, 2)>>)>>,
                 !.bytes = <<0, 1, 1, 9>>]

MCFile == {Missing, Data, Script, Foreign, Stripped, Debug, Twice}

\* "w1" is a file or a command, "w2" a command only, "w3" cannot be looked at.
MCHere == ("w1" :> "here" @@ "w2" :> "nowhere" @@ "w3" :> Denied)
MCInPATH == ("w1" :> <<"bin">> @@ "w2" :> <<"nowhere", "bin", "here">> @@ "w3" :> <<"bin">>)
=============================================================================
