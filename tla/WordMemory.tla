----------------------------- MODULE WordMemory -----------------------------
(***************************************************************************)
(* The memory of the traced process as ptrace shows it: in words.  The     *)
(* commands memory_write and memory_read, the library calls under them     *)
(* (inferior.c:700-771) and the patching of one byte by breakpoint.c are   *)
(* here with their reads and writes of whole words; Inferior.tla has the   *)
(* first byte of each word only.  The debugged process stands still during *)
(* a command, but may be killed between any two requests.                  *)
(***************************************************************************)
EXTENDS Integers, SequencesExt

CONSTANTS
  WordSize,    \* bytes of a word, 8 in the code
  MaxAddr,     \* the last address of the process
  Access,      \* Access[a]: "none", "read" (a shared mapping that ptrace may not write), "write"
  Byte,        \* the values of a byte that the instance tells apart
  Ones,        \* the byte all of whose bits are set
  SignBit,     \* the bytes that make a word negative when they are its last
  BpAddr,      \* where breakpoints can be
  MaxBytes,    \* the size of the buffer of memory_write, 256 in the code
  MaxRows,     \* the rows that memory_read shows at most, 16 in the code
  Line         \* the values that may follow the address of memory_write

Addr == 0..MaxAddr
Trap == 204
Pos == 0..(WordSize - 1)     \* the bytes of a word, the lowest address first
Word == [Pos -> Byte]
AllOnes == [k \in Pos |-> Ones]     \* the long -1

\* A value of memory_write: the bytes it stands for, and the length of what is behind
\* the second quote.
Token ==
  {t \in [kind : {"number", "quoted", "unreadable"}, chars : Seq(Byte), behind : Nat] :
     t.kind = "number" => Len(t.chars) = 1}

ASSUME WordMemoryAssumption ==
  /\ WordSize \in Nat \ {0} /\ MaxAddr \in Nat
  /\ Access \in [Addr -> {"none", "read", "write"}]
  /\ {0, Trap} \subseteq Byte /\ Ones \in Byte /\ Ones # Trap /\ SignBit \subseteq Byte
  /\ BpAddr \subseteq Addr
  /\ MaxBytes \in Nat \ {0} /\ MaxRows \in Nat \ {0}
  /\ Line \subseteq Seq(Token)

VARIABLES
  mem,      \* the bytes in the process
  alive,    \* the process has not been killed
  bp,       \* og_byte and is_enabled_phy of the breakpoint at each address
  job,      \* the sylvan_set_memory in progress
  answer,   \* what the last command told its user
  shown,    \* the rows that the last memory_read printed
  own       \* history: the bytes as the process and the user put them there

vars == <<mem, alive, bp, job, answer, shown, own>>

Job == [busy : BOOLEAN, addr : Addr, data : Seq(Byte), done : Nat]
NoJob == [busy |-> FALSE, addr |-> 0, data |-> <<>>, done |-> 0]

TypeOK ==
  /\ mem \in [Addr -> Byte] /\ own \in [Addr -> Byte]
  /\ alive \in BOOLEAN
  /\ bp \in [BpAddr -> [og_byte : Byte, is_enabled_phy : BOOLEAN]]
  /\ job \in Job /\ job.done <= Len(job.data) /\ Len(job.data) <= MaxBytes
  /\ answer \in {"ok", "failed", "refused"}
  /\ shown \in Seq(Word) /\ Len(shown) <= MaxRows

-----------------------------------------------------------------------------
(***************************************************************************)
(* ptrace.  A request fails when any byte of the word cannot be accessed;  *)
(* a POKE has then written the bytes before the first such byte.           *)
(***************************************************************************)
May(a, how) == alive /\ a \in Addr /\ Access[a] \in how
Readable(a) == \A k \in Pos : May(a + k, {"read", "write"})
Writable(a) == \A k \in Pos : May(a + k, {"write"})

PeekWord(a) == [k \in Pos |-> mem[a + k]]

Poked(a, w) ==
  [x \in Addr |-> IF x - a \in Pos /\ \A y \in a..x : May(y, {"write"})
                    THEN w[x - a] ELSE mem[x]]

-----------------------------------------------------------------------------
(***************************************************************************)
(* A byte that is stored where a breakpoint is inserted replaces the trap, *)
(* and goes when the breakpoint is removed: it is never the process's own. *)
(***************************************************************************)
Inserted(a) == a \in BpAddr /\ bp[a].is_enabled_phy

OwnAfter(m) == [a \in Addr |-> IF mem[a] # m[a] /\ ~Inserted(a) THEN m[a] ELSE own[a]]

\* The end of a command that shows no memory.
Answers(ans) ==
  /\ answer' = ans
  /\ shown' = <<>>
  /\ UNCHANGED alive

Idle == ~job.busy

-----------------------------------------------------------------------------
\* Breakpoints: PEEKTEXT, one byte changed, POKETEXT.  A word that is -1 cannot be
\* told from a failing PEEKTEXT.

PeekTextFails_Negative(a) ==     \* fault: < 0 where the code has == -1
  IF Readable(a) THEN mem[a + WordSize - 1] \in SignBit ELSE TRUE

PeekTextFails(a) == IF Readable(a) THEN PeekWord(a) = AllOnes ELSE TRUE

\* (word & ~0xFF) | byte
WithByte(w, b) == [w EXCEPT ![0] = b]

Patch_FlagFirst(a, b, flagged) ==     \* fault: the slot is changed before the POKE is known to succeed
  /\ mem' = Poked(a, WithByte(PeekWord(a), b))
  /\ bp' = [bp EXCEPT ![a] = flagged]
  /\ Answers(IF Writable(a) THEN "ok" ELSE "failed")
  /\ UNCHANGED <<job, own>>

Patch(a, b, flagged) ==
  /\ mem' = Poked(a, WithByte(PeekWord(a), b))
  /\ IF Writable(a)
       THEN bp' = [bp EXCEPT ![a] = flagged] /\ Answers("ok")
       ELSE UNCHANGED bp /\ Answers("failed")
  /\ UNCHANGED <<job, own>>

Cannot == Answers("failed") /\ UNCHANGED <<mem, bp, job, own>>

sylvan_breakpoint_create_phybp_Refreshes(a) ==     \* fault: is_enabled_phy is not looked at
  /\ Idle
  /\ IF PeekTextFails(a) THEN Cannot
       ELSE Patch(a, Trap, [og_byte |-> mem[a], is_enabled_phy |-> TRUE])

sylvan_breakpoint_create_phybp(a) ==
  /\ Idle /\ ~bp[a].is_enabled_phy
  /\ IF PeekTextFails(a) THEN Cannot
       ELSE Patch(a, Trap, [og_byte |-> mem[a], is_enabled_phy |-> TRUE])

sylvan_breakpoint_remove_phybp(a) ==
  /\ Idle /\ bp[a].is_enabled_phy
  /\ IF PeekTextFails(a) THEN Cannot
       ELSE Patch(a, bp[a].og_byte, [bp[a] EXCEPT !.is_enabled_phy = FALSE])

-----------------------------------------------------------------------------
(***************************************************************************)
(* The values of memory_write, token by token: a number is a byte, a       *)
(* quoted string is its characters up to the second quote, and what is     *)
(* behind that quote counts for the length of the string alone.  A string  *)
(* that is not closed is refused, whatever its length.  The loop ends when *)
(* the buffer is full, whatever follows.                                   *)
(***************************************************************************)
Number(b) == [kind |-> "number", chars |-> <<b>>, behind |-> 0]
Quoted(s, n) == [kind |-> "quoted", chars |-> s, behind |-> n]
Unreadable == [kind |-> "unreadable", chars |-> <<>>, behind |-> 0]

Parsed(bs, ok) == [bytes |-> bs, ok |-> ok]

TooMany(p, t) == t.kind = "quoted" /\ Len(p.bytes) + Len(t.chars) + t.behind > MaxBytes

Take_Unbounded(p, t) ==     \* fault: size < 256 is missing in the condition of the loop
  CASE ~p.ok -> p
    [] p.ok /\ (t.kind = "unreadable" \/ TooMany(p, t)) -> Parsed(p.bytes, FALSE)
    [] OTHER -> Parsed(p.bytes \o t.chars, TRUE)

Take_SkipsUnreadable(p, t) ==     \* fault: a token that cannot be read is passed over
  CASE ~p.ok \/ Len(p.bytes) = MaxBytes -> p
    [] p.ok /\ Len(p.bytes) # MaxBytes /\ TooMany(p, t) -> Parsed(p.bytes, FALSE)
    [] OTHER -> Parsed(p.bytes \o t.chars, TRUE)

Take(p, t) ==
  CASE ~p.ok \/ Len(p.bytes) = MaxBytes -> p
    [] p.ok /\ Len(p.bytes) # MaxBytes /\ (t.kind = "unreadable" \/ TooMany(p, t)) ->
         Parsed(p.bytes, FALSE)
    [] OTHER -> Parsed(p.bytes \o t.chars, TRUE)

Parse(line) ==
  LET parsed[n \in 0..Len(line)] ==
        IF n = 0 THEN Parsed(<<>>, TRUE) ELSE Take(parsed[n - 1], line[n])
  IN  parsed[Len(line)]

\* A line without values, one that cannot be parsed and address 0 are refused.
handle_write_memory(a, line) ==
  /\ Idle
  /\ LET p == Parse(line)
     IN  IF a = 0 \/ line = <<>> \/ ~p.ok
           THEN Answers("refused") /\ UNCHANGED job
           ELSE /\ job' = [busy |-> TRUE, addr |-> a, data |-> p.bytes, done |-> 0]
                /\ shown' = <<>>
                /\ UNCHANGED <<alive, answer>>
  /\ UNCHANGED <<mem, bp, own>>

-----------------------------------------------------------------------------
(***************************************************************************)
(* sylvan_set_memory: whole words as long as there are bytes for one, then *)
(* a word of which the process keeps its last bytes.  One action per POKE. *)
(***************************************************************************)
Here == job.addr + job.done
Remaining == Len(job.data) - job.done

Stop(ans) == job' = NoJob /\ Answers(ans)

\* POKEDATA of word w; n bytes of it are from the command.
PokeData(w, n) ==
  /\ mem' = Poked(Here, w)
  /\ own' = OwnAfter(mem')
  /\ IF Writable(Here)
       THEN job' = [job EXCEPT !.done = job.done + n] /\ UNCHANGED <<alive, answer, shown>>
       ELSE Stop("failed")
  /\ UNCHANGED bp

WriteWord ==
  /\ job.busy /\ Remaining >= WordSize
  /\ PokeData([k \in Pos |-> job.data[job.done + k + 1]], WordSize)

Merged_Zeroes(w) ==     \* fault: the word is not read before it is written
  [k \in Pos |-> IF k < Remaining THEN job.data[job.done + k + 1] ELSE 0]

Merged(w) ==
  [k \in Pos |-> IF k < Remaining THEN job.data[job.done + k + 1] ELSE w[k]]

WriteTail ==
  /\ job.busy /\ Remaining \in 1..(WordSize - 1)
  /\ IF Readable(Here)
       THEN PokeData(Merged(PeekWord(Here)), Remaining)
       ELSE Stop("failed") /\ UNCHANGED <<mem, bp, own>>

WriteReturns ==
  /\ job.busy /\ Remaining = 0
  /\ Stop("ok")
  /\ UNCHANGED <<mem, bp, own>>

-----------------------------------------------------------------------------
\* memory_read shows rows up to the first that cannot be read; as a table, only if
\* all can be read.  errno tells a word that is -1 from an error.
handle_read_memory(a, rows, table) ==
  /\ Idle /\ a # 0
  /\ LET n == IF rows > MaxRows THEN MaxRows ELSE rows
         Row(i) == a + (i - 1) * WordSize
         good == {m \in 0..n : \A i \in 1..m : Readable(Row(i))}
         k == CHOOSE m \in good : \A o \in good : o <= m
     IN  /\ shown' = IF table /\ k < n THEN <<>> ELSE [i \in 1..k |-> PeekWord(Row(i))]
         /\ answer' = IF k < n THEN "failed" ELSE "ok"
  /\ UNCHANGED <<mem, alive, bp, job, own>>

-----------------------------------------------------------------------------
\* External: the process runs between two commands, and somebody kills it.

TraceeStores(a, b) ==
  /\ Idle /\ May(a, {"write"})
  /\ mem' = [mem EXCEPT ![a] = b]
  /\ own' = OwnAfter(mem')
  /\ Answers("ok")
  /\ UNCHANGED <<bp, job>>

Killed ==
  /\ alive' = FALSE
  /\ UNCHANGED <<mem, bp, job, answer, shown, own>>

Init ==
  /\ mem = [a \in Addr |-> 0]     \* the process stores what else there is
  /\ alive = TRUE
  /\ bp = [a \in BpAddr |-> [og_byte |-> 0, is_enabled_phy |-> FALSE]]
  /\ job = NoJob /\ answer = "ok" /\ shown = <<>>
  /\ own = mem

Next ==
  \/ \E a \in BpAddr : sylvan_breakpoint_create_phybp(a) \/ sylvan_breakpoint_remove_phybp(a)
  \/ \E a \in Addr, line \in Line : handle_write_memory(a, line)
  \/ WriteWord \/ WriteTail \/ WriteReturns
  \/ \E a \in Addr, rows \in 1..(MaxRows + 1), table \in BOOLEAN : handle_read_memory(a, rows, table)
  \/ \E a \in Addr, b \in Byte : TraceeStores(a, b)
  \/ Killed

Spec == Init /\ [][Next]_vars

-----------------------------------------------------------------------------
(***************************************************************************)
(* Words are invisible: the commands change bytes as ByteMemory says.      *)
(***************************************************************************)
Bytes ==
  INSTANCE ByteMemory WITH
    Location <- Addr, Value <- Byte,
    bytes <- mem,
    answer <- IF answer = "ok" THEN "ok" ELSE "failed",
    shown <- [i \in 1..(Len(shown) * WordSize) |->
                shown[(i - 1) \div WordSize + 1][(i - 1) % WordSize]]

ImplementsBytes == Bytes!Spec

\* A word that ptrace reads in full and of which it can write the first bytes only.
Straddles(a) ==
  /\ Access[a] = "write"
  /\ \A k \in Pos : a + k \in Addr /\ Access[a + k] # "none"
  /\ \E k \in Pos : Access[a + k] = "read"

\* Whichever breakpoints come and go, of overlapping words too, and whatever is written
\* meanwhile: what a breakpoint saved is the process's own byte, and every byte without
\* a breakpoint is its own.  At the end of what can be written a failing POKE may leave
\* a trap behind (breakpoint.c:48).
OwnBytesKept ==
  \A a \in Addr :
    \/ Straddles(a)
    \/ IF Inserted(a) THEN bp[a].og_byte = own[a] ELSE mem[a] = own[a]

\* A breakpoint that is in place can be removed as long as the process lives: the trap
\* keeps its word from being -1.  Inserting fails for want of access or at the word -1.
FailsForCause ==
  [][\A a \in BpAddr :
       /\ sylvan_breakpoint_create_phybp(a) /\ answer' = "failed"
            => ~Writable(a) \/ \A k \in Pos : mem[a + k] = Ones
       /\ sylvan_breakpoint_remove_phybp(a) /\ answer' = "failed"
            => ~Writable(a) \/ mem[a] # Trap]_vars

\* What a breakpoint operation that fails leaves behind: nothing, as long as the word
\* can be written as it can be read.
FailureHarmless ==
  [][\A a \in BpAddr :
       /\ sylvan_breakpoint_create_phybp(a) \/ sylvan_breakpoint_remove_phybp(a)
       /\ answer' = "failed" /\ ~Straddles(a)
       => UNCHANGED <<mem, bp>>]_vars

\* The write that begins is of the values of the line, in their order, all of them
\* readable, up to the end of the line or of the buffer (command_handler.c:1103-1142).
AcceptedLine ==
  [][job'.busy /\ ~job.busy =>
       \E line \in Line : \E n \in 1..Len(line) :
         /\ \A i \in 1..n : line[i].kind # "unreadable"
         /\ job'.data = FlattenSeq([i \in 1..n |-> line[i].chars])
         /\ n = Len(line) \/ Len(job'.data) = MaxBytes]_vars
=============================================================================
