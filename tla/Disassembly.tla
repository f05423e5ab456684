---------------------------- MODULE Disassembly -----------------------------
(***************************************************************************)
(* The command disassemble (command_handler.c:1156-1239, disassemble.c):   *)
(* it reads the file of the inferior anew, finds a function in it by name, *)
(* turns an address of the process into an offset into the file and        *)
(* decodes the bytes from there.  What an instruction is belongs to the    *)
(* library Zydis; here its first byte tells its length.                    *)
(***************************************************************************)
EXTENDS Symbols

CONSTANTS
  Length,     \* Length[b]: of the instruction that starts with byte b, 0 if none does
  Ret,        \* the first bytes of the instructions whose text starts with "ret"
  Window,     \* what -c decodes from the instruction pointer on, 15 bytes in the code
  SizeMod,    \* size_t counts modulo this; a size from the half on cannot be allocated
  ProcAddr    \* where the process may be

(***************************************************************************)
(* A segment is of type PT_LOAD or not; memsz - filesz addresses at its    *)
(* end are zeroed memory that the file does not have (.bss).  Those that   *)
(* are loaded do not overlap in memory, as linkers lay them out; the       *)
(* file may be shorter than they say.                                      *)
(***************************************************************************)
Segment == [load : BOOLEAN, vaddr : Nat, offset : Nat, filesz : 0..(SizeMod - 1), memsz : Nat]

Disjoint(p, q) == p.vaddr + p.memsz <= q.vaddr \/ q.vaddr + q.memsz <= p.vaddr

IsProgram(f) ==
  /\ f.segments \in Seq(Segment)
  /\ f.bytes \in Seq(DOMAIN Length)
  /\ \A i \in DOMAIN f.segments : f.segments[i].filesz <= f.segments[i].memsz
  /\ \A i, j \in DOMAIN f.segments :
       i # j /\ f.segments[i].load /\ f.segments[j].load => Disjoint(f.segments[i], f.segments[j])

ASSUME DisassemblyAssumption ==
  /\ DOMAIN Length \subseteq Nat /\ \A b \in DOMAIN Length : Length[b] \in 0..Window
  /\ Ret \subseteq DOMAIN Length
  /\ Window \in Nat \ {0} /\ SizeMod \in Nat /\ SizeMod \div 2 > Window
  /\ Address \subseteq Nat /\ ProcAddr \subseteq Nat
  /\ \A f \in File : IsProgram(f)

VARIABLE listing     \* what the last command printed, if it was this one

lvars == <<disk, realpath, dwarf_table, elf_table, code, loaded, listing>>

\* A listing that failed shows no instructions.
NoListing == [name |-> NoName, start |-> 0, ok |-> FALSE, instructions |-> <<>>]

LTypeOK ==
  /\ TypeOK
  /\ listing.name \in Name \cup {NoName} /\ listing.ok \in BOOLEAN
  /\ \A i \in DOMAIN listing.instructions :
       Len(listing.instructions[i].bytes) = Length[listing.instructions[i].bytes[1]]

-----------------------------------------------------------------------------
\* The symbols in the sections of type SHT_SYMTAB, of whatever kind.
Symtab(f) ==
  FlattenSeq([i \in 1..Len(f.sections) |->
    IF f.sections[i].type = "SYMTAB" THEN f.sections[i].syms ELSE <<>>])

get_function_bounds_StrcmpInverted(f, n) ==     \* fault: strcmp() where the code has strcmp() == 0
  LET syms == Symtab(f)
      i == SelectInSeq(syms, LAMBDA e : e.name # n)
  IN  IF i = 0 THEN NotFound ELSE syms[i].addr

\* The first symbol of that name; its size is not used.
get_function_bounds(f, n) ==
  LET syms == Symtab(f)
      i == SelectInSeq(syms, LAMBDA e : e.name = n)
  IN  IF i = 0 THEN NotFound ELSE syms[i].addr

\* The first segment that has the address in memory.
SegmentOf(f, a) ==
  SelectInSeq(f.segments, LAMBDA p : p.load /\ p.vaddr <= a /\ a < p.vaddr + p.memsz)

\* Where the file has that address, and how many bytes the segment has from there on;
\* for an address in .bss that difference wraps.
get_file_offset_from_vaddr(f, a) ==
  LET p == f.segments[SegmentOf(f, a)]
  IN  [file_offset |-> p.offset + (a - p.vaddr),
       max_size |-> (SizeMod + p.filesz - (a - p.vaddr)) % SizeMod]

Clipped_Never(size, max) == IF size = 0 THEN max ELSE size     \* fault: size > max_size is not tested

Clipped(size, max) == IF size > max \/ size = 0 THEN max ELSE size

StopsAt_Never(size, b) == FALSE     \* fault: is_not_func is true of every size

\* A function, which is what has no size yet, is shown up to its first ret.
StopsAt(size, b) == size = 0 /\ b \in Ret

Instruction(a, bs) == [addr |-> a, bytes |-> bs]

(***************************************************************************)
(* The loop over buffer: instructions one after another, until one cannot  *)
(* be decoded from the bytes that are left, or it is the ret of a function.*)
(***************************************************************************)
Decoded(buffer, a, size) ==
  LET n == Len(buffer)
      from[o \in 0..n] ==
        LET len == Length[buffer[o + 1]]
        IN  IF o = n THEN <<>>
            ELSE IF len = 0 \/ o + len > n THEN <<>>
            ELSE <<Instruction(a + o, SubSeq(buffer, o + 1, o + len))>>
                   \o (IF StopsAt(size, buffer[o + 1]) THEN <<>> ELSE from[o + len])
  IN  from[0]

Listing(n, a, is) == [name |-> n, start |-> a, ok |-> TRUE, instructions |-> is]

\* For the size bytes of file f from address a on; n is the name asked for.
disassemble(f, n, a, size) ==
  LET at == get_file_offset_from_vaddr(f, a)
      length == Clipped(size, at.max_size)
      buffer == SubSeq(f.bytes, at.file_offset + 1, at.file_offset + length)
      is == Decoded(buffer, a, size)
  IN  IF ~f.is_elf \/ SegmentOf(f, a) = 0 THEN NoListing
      ELSE IF length >= SizeMod \div 2 \/ at.file_offset + length > Len(f.bytes) THEN NoListing
      ELSE IF length = 0 \/ is # <<>> THEN Listing(n, a, is) ELSE NoListing

-----------------------------------------------------------------------------
\* handle_disassemble, which changes nothing but the screen.

Program == Content(realpath)

disassemble_function(n) ==
  /\ listing' = LET a == get_function_bounds(Program, n)
                IN  IF a = NotFound THEN NoListing ELSE disassemble(Program, n, a, 0)
  /\ UNCHANGED vars

disassemble_current_Short(rip) ==     \* fault: rip + 14
  listing' = disassemble(Program, NoName, rip, Window - 1) /\ UNCHANGED vars

\* -c: the process is at address rip.
disassemble_current(rip) ==
  listing' = disassemble(Program, NoName, rip, Window) /\ UNCHANGED vars

\* -c without a process; one or two addresses: is_func is 1 still, and no function has
\* the first of them for its name.
disassemble_refused == listing' = NoListing /\ UNCHANGED vars

-----------------------------------------------------------------------------
LInit == Init /\ listing = NoListing

LNext ==
  \/ Next /\ listing' = NoListing
  \/ \E n \in Name : disassemble_function(n)
  \/ \E rip \in ProcAddr : disassemble_current(rip)
  \/ disassemble_refused

LSpec == LInit /\ [][LNext]_lvars

-----------------------------------------------------------------------------
(***************************************************************************)
(* What the program at realpath has at an address, from whichever segment. *)
(***************************************************************************)
InSegment(f, i, a) ==
  /\ f.segments[i].load
  /\ a - f.segments[i].vaddr \in 0..(f.segments[i].filesz - 1)

ByteAt(f, i, a) == f.bytes[f.segments[i].offset + (a - f.segments[i].vaddr) + 1]

InFile(f, a) == \E i \in DOMAIN f.segments : InSegment(f, i, a)

HasByte(f, a, b) == \E i \in DOMAIN f.segments : InSegment(f, i, a) /\ ByteAt(f, i, a) = b

\* A whole instruction starts at address a of the segment.
InstructionIn(f, i, a) ==
  /\ InSegment(f, i, a)
  /\ Length[ByteAt(f, i, a)] > 0
  /\ InSegment(f, i, a + Length[ByteAt(f, i, a)] - 1)

HasInstruction(f, a) == \E i \in DOMAIN f.segments : InstructionIn(f, i, a)

\* The file was not cut off.
Whole(f) == \A i \in DOMAIN f.segments : f.segments[i].offset + f.segments[i].filesz <= Len(f.bytes)

After(is, i) == is[i].addr + Len(is[i].bytes)

\* Each instruction of a listing is what the program has at the address beside it, one
\* after another without a gap, unless the listing starts in memory that the file does
\* not have: file offsets and addresses are not mixed up where segments meet.
ListsProgram ==
  LET is == listing.instructions
  IN  InFile(Program, listing.start) =>
        /\ is # <<>> => is[1].addr = listing.start
        /\ \A i \in DOMAIN is :
             /\ i > 1 => is[i].addr = After(is, i - 1)
             /\ \A k \in DOMAIN is[i].bytes : HasByte(Program, is[i].addr + k - 1, is[i].bytes[k])

\* A function is listed up to its first ret, and without one as long as its segment has
\* instructions: the size its symbol states plays no part.
FunctionListed ==
  LET is == listing.instructions
  IN  listing.name # NoName /\ InFile(Program, listing.start) =>
        /\ \A i \in DOMAIN is : i < Len(is) => is[i].bytes[1] \notin Ret
        /\ is # <<>> => \/ is[Len(is)].bytes[1] \in Ret
                        \/ \A i \in DOMAIN Program.segments :
                             InSegment(Program, i, listing.start)
                               => ~InstructionIn(Program, i, After(is, Len(is)))

\* disassemble -c shows the instruction that the process executes next, however long it
\* is and however close to the end of its segment, if the file was not cut off.
CurrentListed ==
  [][Program.is_elf /\ Whole(Program) =>
       \A rip \in ProcAddr :
         HasInstruction(Program, rip) /\ disassemble_current(rip)
           => /\ listing'.instructions # <<>>
              /\ listing'.instructions[1].addr = rip]_lvars

(***************************************************************************)
(* A name that means one function and nothing else, wherever it is defined.*)
(***************************************************************************)
Entries(f, n) ==
  {e \in UNION ({ToSet(f.dwarf[i].dies) : i \in DOMAIN f.dwarf}
                \cup {ToSet(f.sections[i].syms) : i \in DOMAIN f.sections}) : e.name = n}

\* The same name means the same address to breakpoint, which looks it up in sorted
\* tables read when the program was set, and to disassemble, which searches the file,
\* as long as that file has not changed.
BreakAndListAgree ==
  /\ listing.name # NoName
  /\ loaded.ok /\ loaded.file = Program
  /\ \A e, d \in Entries(Program, listing.name) : e = d /\ e.is_function
  => sylvan_get_label_addr(listing.name) = {listing.start}
=============================================================================
