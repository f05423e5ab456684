-------------------------- MODULE WordMemoryProofs --------------------------
(***************************************************************************)
(* The commands on words of WordMemory, for every word size, every layout  *)
(* of the memory, every set of lines and every size of the buffer: they    *)
(* keep the bytes of the process (WInv), write what was typed, and         *)
(* implement ByteMemory.                                                   *)
(*                                                                         *)
(* First what the loop over the values of a line computes, by induction;   *)
(* then the words; then one lemma for the effect of each command, from     *)
(* which the invariant, the action properties and the refinement follow.   *)
(***************************************************************************)
EXTENDS WordMemory, WellFoundedInduction, TLAPS

-----------------------------------------------------------------------------
(***************************************************************************)
(* Induction over the natural numbers, for sets: the form in which it can  *)
(* be used for what the loops over a line compute.                         *)
(***************************************************************************)

\* A set of numbers that is not empty has a least element.
LEMMA Least ==
  ASSUME NEW T, T \subseteq Nat, T # {}
  PROVE  \E x \in T : \A y \in T : x <= y
<1>1. \E x \in T : \A y \in T : <<y, x>> \notin OpToRel(<, Nat)
  BY WFMin, NatLessThanWellFounded, Zenon
<1>2. PICK x \in T : \A y \in T : <<y, x>> \notin OpToRel(<, Nat)
  BY <1>1, Zenon
<1>3. ASSUME NEW y \in T PROVE ~(y < x)
  BY <1>2, <1>3, Zenon DEF OpToRel
<1> QED BY <1>3

\* One that is bounded has a greatest element.
LEMMA Greatest ==
  ASSUME NEW n \in Nat, NEW T, T \subseteq 0..n, T # {}
  PROVE  \E x \in T : \A y \in T : y <= x
<1> DEFINE D == {n - x : x \in T}
<1>1. D \subseteq Nat /\ D # {}
  <2>1. \A x \in T : n - x \in Nat
    OBVIOUS
  <2>2. PICK x : x \in T
    OBVIOUS
  <2>3. n - x \in D
    BY <2>2
  <2> QED BY <2>1, <2>3
<1>2. PICK d \in D : \A e \in D : d <= e
  BY <1>1, Least
<1>3. PICK x \in T : d = n - x
  BY <1>2
<1>4. ASSUME NEW y \in T PROVE y <= x
  <2>1. n - x <= n - y
    BY <1>2, <1>3
  <2> QED BY <2>1
<1> QED BY <1>4

\* A set with 0 and with the successor of each of its numbers has all numbers.
LEMMA NatInd ==
  ASSUME NEW S, 0 \in S, \A n \in Nat : n \in S => n + 1 \in S
  PROVE  Nat \subseteq S
<1> SUFFICES ASSUME Nat \ S # {} PROVE FALSE
  OBVIOUS
<1>1. PICK x \in Nat \ S : \A y \in Nat \ S : x <= y
  BY Least
<1>2. x # 0 /\ x - 1 \in Nat
  BY <1>1
<1>3. x - 1 \notin S
  BY <1>1, <1>2
<1>4. x - 1 >= x
  BY <1>1, <1>2, <1>3
<1> QED BY <1>1, <1>4

-----------------------------------------------------------------------------
(***************************************************************************)
(* The values of memory_write (command_handler.c:1103-1142).               *)
(***************************************************************************)

\* The states of the loop are a function of the tokens read so far.
LEMMA ParseSteps ==
  ASSUME NEW line, Len(line) \in Nat
  PROVE  \E parsed :
           /\ parsed[0] = Parsed(<<>>, TRUE)
           /\ \A n \in 1..Len(line) : parsed[n] = Take(parsed[n - 1], line[n])
           /\ Parse(line) = parsed[Len(line)]
<1> DEFINE Rec(f, i) == IF i = 0 THEN Parsed(<<>>, TRUE) ELSE Take(f[i - 1], line[i])
           S == {n \in Nat : \E f : f = [i \in 0..n |-> Rec(f, i)]}
<1>1. 0 \in S
  <2> DEFINE f == [i \in 0..0 |-> Parsed(<<>>, TRUE)]
  <2>1. f = [i \in 0..0 |-> Rec(f, i)]
    OBVIOUS
  <2> QED BY <2>1
<1>2. ASSUME NEW n \in Nat, n \in S PROVE n + 1 \in S
  <2>1. PICK f : f = [i \in 0..n |-> Rec(f, i)]
    BY <1>2
  <2> DEFINE g == [i \in 0..(n + 1) |-> IF i = n + 1 THEN Take(f[n], line[n + 1]) ELSE f[i]]
  <2>2. ASSUME NEW i \in 0..(n + 1) PROVE g[i] = Rec(g, i)
    <3>1. CASE i = n + 1
      <4>1. n \in 0..(n + 1) /\ n # n + 1 /\ i - 1 = n /\ i # 0
        BY <3>1
      <4>2. g[i] = Take(f[n], line[n + 1]) /\ g[n] = f[n]
        BY <3>1, <4>1
      <4> QED BY <3>1, <4>1, <4>2
    <3>2. CASE i = 0
      BY <2>1, <3>2
    <3>3. CASE i \in 1..n
      <4>1. i \in 0..n /\ i - 1 \in 0..n /\ i # 0
        BY <3>3
      <4>2. f[i] = Take(f[i - 1], line[i])
        BY <2>1, <4>1
      <4>3. g[i] = f[i] /\ g[i - 1] = f[i - 1]
        BY <4>1
      <4> QED BY <4>1, <4>2, <4>3
    <3>4. i = n + 1 \/ i = 0 \/ i \in 1..n
      OBVIOUS
    <3> HIDE DEF g, Rec
    <3> QED BY <3>1, <3>2, <3>3, <3>4
  <2>3. g = [i \in 0..(n + 1) |-> Rec(g, i)]
    <3>1. \A i \in 0..(n + 1) : Rec(g, i) = IF i = n + 1 THEN Take(f[n], line[n + 1]) ELSE f[i]
      BY <2>2
    <3> HIDE DEF Rec
    <3> QED BY <3>1, Zenon
  <2> HIDE DEF g
  <2> QED BY <2>3
<1>3. Len(line) \in S
  <2> HIDE DEF S
  <2> QED BY <1>1, <1>2, NatInd
<1> DEFINE parsed == CHOOSE f : f = [i \in 0..Len(line) |-> Rec(f, i)]
<1>4. parsed = [i \in 0..Len(line) |-> Rec(parsed, i)]
  BY <1>3
<1>5. Parse(line) = parsed[Len(line)]
  BY DEF Parse
<1> HIDE DEF parsed
<1>6. parsed[0] = Parsed(<<>>, TRUE)
  BY <1>4
<1>7. ASSUME NEW n \in 1..Len(line) PROVE parsed[n] = Take(parsed[n - 1], line[n])
  <2>1. n \in 0..Len(line) /\ n # 0
    OBVIOUS
  <2> QED BY <1>4, <2>1
<1> QED BY <1>5, <1>6, <1>7

ParserState == {p \in [bytes : Seq(Byte), ok : BOOLEAN] : Len(p.bytes) <= MaxBytes}

\* A token that fits is appended, one that does not is refused, and a full buffer
\* takes nothing.
LEMMA TakeTypes ==
  ASSUME NEW p \in ParserState, NEW t \in Token
  PROVE  Take(p, t) \in ParserState
<1>1. /\ p.bytes \in Seq(Byte) /\ Len(p.bytes) <= MaxBytes /\ Len(p.bytes) \in Nat /\ MaxBytes \in Nat
      /\ t.chars \in Seq(Byte) /\ Len(t.chars) \in Nat /\ t.behind \in Nat
      /\ t.kind \in {"number", "quoted", "unreadable"} /\ (t.kind = "number" => Len(t.chars) = 1)
  BY WordMemoryAssumption DEF ParserState, Token
<1>2. \A bs \in Seq(Byte), ok \in BOOLEAN : Len(bs) <= MaxBytes => Parsed(bs, ok) \in ParserState
  BY DEF ParserState, Parsed
<1>3. CASE ~p.ok \/ Len(p.bytes) = MaxBytes
  BY <1>3 DEF Take
<1>4. CASE p.ok /\ Len(p.bytes) # MaxBytes /\ (t.kind = "unreadable" \/ TooMany(p, t))
  BY <1>1, <1>2, <1>4 DEF Take
<1>5. CASE p.ok /\ Len(p.bytes) # MaxBytes /\ t.kind # "unreadable" /\ ~TooMany(p, t)
  <2>1. Len(p.bytes) + Len(t.chars) <= MaxBytes
    <3>1. CASE t.kind = "number"
      <4>1. Len(t.chars) = 1 /\ Len(p.bytes) < MaxBytes
        BY <1>1, <1>5, <3>1
      <4> QED BY <1>1, <4>1
    <3>2. CASE t.kind = "quoted"
      <4>1. ~(Len(p.bytes) + Len(t.chars) + t.behind > MaxBytes)
        BY <1>5, <3>2 DEF TooMany
      <4>2. \A a, b, c, m \in Nat : ~(a + b + c > m) => a + b <= m
        OBVIOUS
      <4>3. /\ Len(p.bytes) \in Nat /\ Len(t.chars) \in Nat
            /\ t.behind \in Nat /\ MaxBytes \in Nat
        BY <1>1
      <4> QED BY <4>1, <4>2, <4>3
    <3> QED BY <1>1, <1>5, <3>1, <3>2
  <2>2. p.bytes \o t.chars \in Seq(Byte) /\ Len(p.bytes \o t.chars) <= MaxBytes
    <3>1. \A a, b \in Seq(Byte) : a \o b \in Seq(Byte) /\ Len(a \o b) = Len(a) + Len(b)
      OBVIOUS
    <3> QED BY <1>1, <2>1, <3>1
  <2>3. Take(p, t) = Parsed(p.bytes \o t.chars, TRUE)
    BY <1>5 DEF Take
  <2> QED BY <1>2, <2>2, <2>3
<1> QED BY <1>3, <1>4, <1>5

\* The bytes of the first k tokens, one after another.
Joined(line, k) == IF k = 0 THEN <<>> ELSE FlattenSeq([i \in 1..k |-> line[i].chars])

\* FlattenSeq joins one sequence after another.
LEMMA FlattenSteps ==
  ASSUME NEW s, NEW k \in Nat \ {0}, Len(s) = k
  PROVE  \E flat :
           /\ flat[1] = s[1]
           /\ \A n \in 2..k : flat[n] = flat[n - 1] \o s[n]
           /\ FlattenSeq(s) = flat[k]
<1> DEFINE Rec(f, i) == IF i = 1 THEN s[i] ELSE f[i - 1] \o s[i]
           S == {n \in Nat : \E f : f = [i \in 1..n |-> Rec(f, i)]}
<1>1. 0 \in S
  <2> DEFINE f == [i \in 1..0 |-> s[i]]
  <2>1. f = [i \in 1..0 |-> Rec(f, i)]
    OBVIOUS
  <2> QED BY <2>1
<1>2. ASSUME NEW n \in Nat, n \in S PROVE n + 1 \in S
  <2>1. PICK f : f = [i \in 1..n |-> Rec(f, i)]
    BY <1>2
  <2> DEFINE g == [i \in 1..(n + 1) |-> IF i = n + 1 THEN Rec(f, i) ELSE f[i]]
  <2>2. ASSUME NEW i \in 1..(n + 1) PROVE g[i] = Rec(g, i)
    <3>1. CASE i = 1
      <4>1. CASE n = 0
        BY <3>1, <4>1
      <4>2. CASE n # 0
        <5>1. 1 \in 1..n /\ 1 # n + 1
          BY <4>2
        <5>2. f[1] = s[1]
          BY <2>1, <5>1
        <5> QED BY <3>1, <5>1, <5>2
      <4> QED BY <4>1, <4>2
    <3>2. CASE i = n + 1 /\ i # 1
      <4>1. n \in 1..(n + 1) /\ n # n + 1 /\ i - 1 = n
        BY <3>2
      <4>2. g[i] = Rec(f, i) /\ g[n] = f[n]
        BY <3>2, <4>1
      <4> HIDE DEF g
      <4> QED BY <3>2, <4>1, <4>2
    <3>3. CASE i \in 2..n
      <4>1. i \in 1..n /\ i - 1 \in 1..n /\ i # 1 /\ i # n + 1 /\ i - 1 # n + 1 /\ i - 1 \in 1..(n + 1)
        BY <3>3
      <4>2. f[i] = f[i - 1] \o s[i]
        BY <2>1, <4>1
      <4>3. g[i] = f[i] /\ g[i - 1] = f[i - 1]
        BY <4>1
      <4> HIDE DEF g
      <4> QED BY <4>1, <4>2, <4>3
    <3>4. i = 1 \/ (i = n + 1 /\ i # 1) \/ i \in 2..n
      OBVIOUS
    <3> HIDE DEF g, Rec
    <3> QED BY <3>1, <3>2, <3>3, <3>4
  <2>3. g = [i \in 1..(n + 1) |-> Rec(g, i)]
    <3>1. \A i \in 1..(n + 1) : Rec(g, i) = IF i = n + 1 THEN Rec(f, i) ELSE f[i]
      BY <2>2
    <3> HIDE DEF Rec
    <3> QED BY <3>1, Zenon
  <2> HIDE DEF g, Rec
  <2> QED BY <2>3
<1>3. k \in S
  <2> HIDE DEF S
  <2> QED BY <1>1, <1>2, NatInd
<1> DEFINE flat == CHOOSE f : f = [i \in 1..k |-> Rec(f, i)]
<1>4. flat = [i \in 1..k |-> Rec(flat, i)]
  BY <1>3
<1>5. FlattenSeq(s) = flat[k]
  BY DEF FlattenSeq
<1> HIDE DEF flat
<1>6. flat[1] = s[1]
  <2>1. 1 \in 1..k
    OBVIOUS
  <2> QED BY <1>4, <2>1
<1>7. ASSUME NEW n \in 2..k PROVE flat[n] = flat[n - 1] \o s[n]
  <2>1. n \in 1..k /\ n # 1
    OBVIOUS
  <2> QED BY <1>4, <2>1
<1> QED BY <1>5, <1>6, <1>7

\* The bytes of one token more are those of the tokens before it, and its own.
LEMMA JoinedStep ==
  ASSUME NEW line, NEW k \in Nat, \A i \in 1..(k + 1) : line[i].chars \in Seq(Byte)
  PROVE  Joined(line, k + 1) = Joined(line, k) \o line[k + 1].chars
<1> DEFINE s == [i \in 1..(k + 1) |-> line[i].chars]
           r == [i \in 1..k |-> line[i].chars]
<1>1. s \in Seq(Seq(Byte)) /\ Len(s) = k + 1
  OBVIOUS
<1>2. r \in Seq(Seq(Byte)) /\ Len(r) = k
  OBVIOUS
<1>3. Joined(line, k + 1) = FlattenSeq(s)
  BY DEF Joined
<1>4. PICK flat :
        /\ flat[1] = s[1]
        /\ \A n \in 2..(k + 1) : flat[n] = flat[n - 1] \o s[n]
        /\ FlattenSeq(s) = flat[k + 1]
  <2> HIDE DEF s
  <2>1. k + 1 \in Nat \ {0}
    OBVIOUS
  <2> QED BY <1>1, <2>1, FlattenSteps
<1>5. CASE k = 0
  <2>1. FlattenSeq(s) = line[1].chars /\ line[1].chars \in Seq(Byte)
    BY <1>4, <1>5
  <2>2. \A x \in Seq(Byte) : <<>> \o x = x
    OBVIOUS
  <2> QED BY <1>3, <1>5, <2>1, <2>2 DEF Joined
<1>6. CASE k # 0
  <2>1. PICK part :
          /\ part[1] = r[1]
          /\ \A n \in 2..k : part[n] = part[n - 1] \o r[n]
          /\ FlattenSeq(r) = part[k]
    <3> HIDE DEF r
    <3>1. k \in Nat \ {0}
      BY <1>6
    <3> QED BY <1>2, <3>1, FlattenSteps
  <2> DEFINE S == {n \in Nat : n + 1 <= k => flat[n + 1] = part[n + 1]}
  <2>2. 0 \in S
    <3>1. s[1] = line[1].chars /\ r[1] = line[1].chars
      BY <1>6
    <3> HIDE DEF s, r
    <3> QED BY <1>4, <2>1, <3>1
  <2>3. ASSUME NEW n \in Nat, n \in S PROVE n + 1 \in S
    <3>1. CASE n + 2 <= k
      <4>1. n + 2 \in 2..k /\ n + 2 \in 2..(k + 1) /\ (n + 2) - 1 = n + 1 /\ n + 1 <= k
        BY <3>1
      <4>2. s[n + 2] = r[n + 2]
        BY <4>1
      <4> HIDE DEF s, r
      <4>3. flat[n + 2] = flat[n + 1] \o s[n + 2] /\ part[n + 2] = part[n + 1] \o r[n + 2]
        BY <1>4, <2>1, <4>1
      <4>4. flat[n + 1] = part[n + 1]
        BY <2>3, <4>1
      <4>5. flat[n + 2] = part[n + 2] /\ (n + 1) + 1 = n + 2
        BY <4>2, <4>3, <4>4
      <4> QED BY <4>5
    <3> QED BY <3>1
  <2>4. k - 1 \in S
    <3> HIDE DEF S
    <3> QED BY <1>6, <2>2, <2>3, NatInd
  <2>5. flat[k] = part[k]
    BY <1>6, <2>4
  <2>6. s[k + 1] = line[k + 1].chars
    OBVIOUS
  <2>7. flat[k + 1] = flat[k] \o s[k + 1]
    <3>1. k + 1 \in 2..(k + 1) /\ (k + 1) - 1 = k
      BY <1>6
    <3> HIDE DEF s
    <3> QED BY <1>4, <3>1
  <2>8. Joined(line, k) = FlattenSeq(r)
    BY <1>6 DEF Joined
  <2> HIDE DEF s, r
  <2> QED BY <1>3, <1>4, <2>1, <2>5, <2>6, <2>7, <2>8
<1> QED BY <1>5, <1>6

\* What n tokens have become: the bytes of the first k of them, all readable, and k
\* is n unless the buffer is full.
Gathered(line, n, p) ==
  p.ok => \E k \in 0..n :
            /\ \A i \in 1..k : line[i].kind # "unreadable"
            /\ p.bytes = Joined(line, k)
            /\ k = n \/ Len(p.bytes) = MaxBytes

\* One token more.
LEMMA GatheredStep ==
  ASSUME NEW line \in Seq(Token), NEW n \in Nat, n + 1 <= Len(line),
         NEW p \in ParserState, Gathered(line, n, p)
  PROVE  Gathered(line, n + 1, Take(p, line[n + 1]))
<1> DEFINE t == line[n + 1]
           q == Take(p, t)
<1> SUFFICES Gathered(line, n + 1, q)
  OBVIOUS
<1>1. Len(line) \in Nat /\ \A i \in 1..Len(line) : line[i] \in Token
  OBVIOUS
<1>2. CASE ~p.ok
  BY <1>2 DEF Take, Gathered
<1>3. CASE p.ok /\ Len(p.bytes) = MaxBytes
  <2>1. q = p
    BY <1>3 DEF Take
  <2>2. PICK k \in 0..n : /\ \A i \in 1..k : line[i].kind # "unreadable"
                          /\ p.bytes = Joined(line, k)
    BY <1>3 DEF Gathered
  <2>3. k \in 0..(n + 1)
    OBVIOUS
  <2> HIDE DEF q
  <2> QED BY <1>3, <2>1, <2>2, <2>3 DEF Gathered
<1>4. CASE p.ok /\ Len(p.bytes) # MaxBytes /\ (t.kind = "unreadable" \/ TooMany(p, t))
  <2>1. ~q.ok
    BY <1>4 DEF Take, Parsed
  <2> HIDE DEF q
  <2> QED BY <2>1 DEF Gathered
<1>5. CASE p.ok /\ Len(p.bytes) # MaxBytes /\ t.kind # "unreadable" /\ ~TooMany(p, t)
  <2>1. q.bytes = p.bytes \o t.chars
    BY <1>5 DEF Take, Parsed
  <2>2. /\ \A i \in 1..n : line[i].kind # "unreadable"
        /\ p.bytes = Joined(line, n)
    BY <1>5 DEF Gathered
  <2>3. \A i \in 1..(n + 1) : line[i].chars \in Seq(Byte)
    BY <1>1 DEF Token
  <2>4. q.bytes = Joined(line, n + 1)
    BY <2>1, <2>2, <2>3, JoinedStep
  <2>5. \A i \in 1..(n + 1) : line[i].kind # "unreadable"
    <3>1. \A i \in 1..(n + 1) : i \in 1..n \/ i = n + 1
      OBVIOUS
    <3> QED BY <1>5, <2>2, <3>1
  <2>6. n + 1 \in 0..(n + 1)
    OBVIOUS
  <2> HIDE DEF q
  <2> QED BY <2>4, <2>5, <2>6 DEF Gathered
<1> QED BY <1>2, <1>3, <1>4, <1>5

\* However long the line, its bytes fit into the buffer, and they are what was typed, up
\* to the end of the line or of the buffer.
LEMMA ParseGathers ==
  ASSUME NEW line \in Seq(Token)
  PROVE  Parse(line) \in ParserState /\ Gathered(line, Len(line), Parse(line))
<1>1. Len(line) \in Nat /\ \A n \in 1..Len(line) : line[n] \in Token
  OBVIOUS
<1>2. PICK parsed :
        /\ parsed[0] = Parsed(<<>>, TRUE)
        /\ \A n \in 1..Len(line) : parsed[n] = Take(parsed[n - 1], line[n])
        /\ Parse(line) = parsed[Len(line)]
  BY <1>1, ParseSteps
<1> DEFINE S == {n \in Nat : n <= Len(line) => parsed[n] \in ParserState /\ Gathered(line, n, parsed[n])}
<1>3. 0 \in S
  <2>1. Parsed(<<>>, TRUE) \in ParserState
    BY WordMemoryAssumption DEF Parsed, ParserState
  <2>2. Gathered(line, 0, Parsed(<<>>, TRUE))
    BY DEF Gathered, Parsed, Joined
  <2> QED BY <1>2, <2>1, <2>2
<1>4. ASSUME NEW n \in Nat, n \in S PROVE n + 1 \in S
  <2>1. CASE n + 1 <= Len(line)
    <3>1. n + 1 \in 1..Len(line) /\ (n + 1) - 1 = n /\ n <= Len(line)
      BY <1>1, <2>1
    <3>2. parsed[n + 1] = Take(parsed[n], line[n + 1])
      BY <1>2, <3>1
    <3>3. parsed[n] \in ParserState /\ Gathered(line, n, parsed[n]) /\ line[n + 1] \in Token
      BY <1>1, <1>4, <3>1
    <3>4. parsed[n + 1] \in ParserState /\ Gathered(line, n + 1, parsed[n + 1])
      BY <2>1, <3>2, <3>3, TakeTypes, GatheredStep
    <3> QED BY <3>4
  <2> QED BY <1>1, <2>1
<1>5. Len(line) \in S
  <2> HIDE DEF S
  <2> QED BY <1>1, <1>3, <1>4, NatInd
<1> QED BY <1>1, <1>2, <1>5

-----------------------------------------------------------------------------
(***************************************************************************)
(* Words.                                                                  *)
(***************************************************************************)

\* Addresses and the bytes of a word.
LEMMA Words ==
  /\ WordSize \in Nat \ {0} /\ 0 \in Pos /\ \A k \in Pos : k \in Nat /\ k < WordSize
  /\ Addr \subseteq Nat /\ 0 \in Addr /\ BpAddr \subseteq Addr
  /\ Trap \in Byte /\ 0 \in Byte
  /\ \A a \in Addr : Access[a] \in {"none", "read", "write"}
BY WordMemoryAssumption DEF Pos, Addr

\* A readable word has its bytes in the memory.
LEMMA PeekTypes ==
  ASSUME mem \in [Addr -> Byte], NEW a, Readable(a)
  PROVE  PeekWord(a) \in Word
BY DEF Readable, May, PeekWord, Word

\* POKE writes bytes of the word and leaves the others as they are.
LEMMA PokedTypes ==
  ASSUME mem \in [Addr -> Byte], NEW a, NEW w \in Word
  PROVE  Poked(a, w) \in [Addr -> Byte]
BY DEF Poked, Word

\* So does the history of what the process owns.
LEMMA OwnTypes ==
  ASSUME own \in [Addr -> Byte], NEW m \in [Addr -> Byte]
  PROVE  OwnAfter(m) \in [Addr -> Byte]
BY DEF OwnAfter

\* PEEKTEXT, a new first byte, POKETEXT: at most the byte at the address changes,
\* although a whole word is written (breakpoint.c:43-49, 68-75).
LEMMA PatchedWord ==
  ASSUME mem \in [Addr -> Byte], NEW a \in Addr, NEW b \in Byte, Readable(a)
  PROVE  Poked(a, WithByte(PeekWord(a), b)) = IF Access[a] = "write" THEN [mem EXCEPT ![a] = b] ELSE mem
<1> DEFINE w == WithByte(PeekWord(a), b)
<1>1. alive
  BY Words DEF Readable, May
<1>2. \A k \in Pos : w[k] = IF k = 0 THEN b ELSE mem[a + k]
  BY DEF WithByte, PeekWord
<1>3. ASSUME NEW x \in Addr
      PROVE  Poked(a, w)[x] = IF x = a /\ Access[a] = "write" THEN b ELSE mem[x]
  <2>1. CASE x = a
    <3>1. x - a = 0 /\ 0 \in Pos /\ a..x = {a}
      BY <2>1, Words
    <3> QED BY <1>1, <1>2, <2>1, <3>1 DEF Poked, May
  <2>2. CASE x # a /\ x - a \in Pos
    <3>1. x - a # 0 /\ a + (x - a) = x
      BY <2>2, Words
    <3> QED BY <1>2, <2>2, <3>1 DEF Poked
  <2>3. CASE x - a \notin Pos
    <3>1. x # a
      BY <2>3, Words
    <3> QED BY <2>3, <3>1 DEF Poked
  <2> QED BY <2>1, <2>2, <2>3
<1>4. Poked(a, w) = [x \in Addr |-> IF x = a /\ Access[a] = "write" THEN b ELSE mem[x]]
  <2>1. \A x \in Addr : Poked(a, w)[x] = IF x - a \in Pos /\ \A y \in a..x : May(y, {"write"})
                                           THEN w[x - a] ELSE mem[x]
    BY DEF Poked
  <2> HIDE DEF w
  <2> QED BY <1>3, <2>1, Zenon DEF Poked
<1> QED BY <1>4

\* Where a POKE fails after PEEK succeeded, it has written nothing, or the word reaches
\* beyond what can be written.
LEMMA PartOfWord ==
  ASSUME NEW a \in Addr, Readable(a)
  PROVE  /\ Writable(a) => Access[a] = "write"
         /\ ~Writable(a) => Access[a] # "write" \/ Straddles(a)
<1>1. alive /\ a + 0 = a
  BY Words DEF Readable, May
<1>2. Writable(a) => Access[a] = "write"
  BY <1>1, Words DEF Writable, May
<1>3. ASSUME ~Writable(a), Access[a] = "write" PROVE Straddles(a)
  <2>1. \A k \in Pos : a + k \in Addr /\ Access[a + k] \in {"read", "write"}
    BY DEF Readable, May
  <2>2. \E k \in Pos : Access[a + k] # "write"
    BY <1>1, <1>3, <2>1 DEF Writable, May
  <2> QED BY <1>3, <2>1, <2>2 DEF Straddles
<1> QED BY <1>2, <1>3

-----------------------------------------------------------------------------
(***************************************************************************)
(* What each command does.                                                 *)
(***************************************************************************)

Slot == [og_byte : Byte, is_enabled_phy : BOOLEAN]

\* No byte changes, or one whose word cannot be written to its end.
LeavesTrap(a) == mem' = mem \/ (Straddles(a) /\ \E b \in Byte : mem' = [mem EXCEPT ![a] = b])

\* Inserting a breakpoint saves the byte that was there, or fails (breakpoint.c:35-55).
LEMMA InsertEffect ==
  ASSUME TypeOK, NEW a \in BpAddr, sylvan_breakpoint_create_phybp(a)
  PROVE  /\ ~Inserted(a) /\ ~job.busy /\ shown' = <<>> /\ UNCHANGED <<alive, job, own>>
         /\ \/ answer' = "failed" /\ bp' = bp /\ LeavesTrap(a)
            \/ /\ answer' = "ok"
               /\ mem' = [mem EXCEPT ![a] = Trap]
               /\ bp' = [bp EXCEPT ![a] = [og_byte |-> mem[a], is_enabled_phy |-> TRUE]]
<1>1. a \in Addr /\ Trap \in Byte /\ mem \in [Addr -> Byte]
  BY Words DEF TypeOK
<1>2. ~Inserted(a) /\ ~job.busy
  BY DEF sylvan_breakpoint_create_phybp, Inserted, Idle
<1>3. CASE Cannot
  BY <1>2, <1>3 DEF Cannot, Answers, LeavesTrap
<1>4. CASE Readable(a) /\ Patch(a, Trap, [og_byte |-> mem[a], is_enabled_phy |-> TRUE])
  <2>1. mem' = IF Access[a] = "write" THEN [mem EXCEPT ![a] = Trap] ELSE mem
    BY <1>1, <1>4, PatchedWord DEF Patch
  <2>2. /\ Writable(a) => Access[a] = "write"
        /\ ~Writable(a) => Access[a] # "write" \/ Straddles(a)
    BY <1>1, <1>4, PartOfWord
  <2>3. CASE Writable(a)
    BY <1>2, <1>4, <2>1, <2>2, <2>3 DEF Patch, Answers
  <2>4. CASE ~Writable(a)
    BY <1>1, <1>2, <1>4, <2>1, <2>2, <2>4 DEF Patch, Answers, LeavesTrap
  <2> QED BY <2>3, <2>4
<1> QED BY <1>3, <1>4 DEF sylvan_breakpoint_create_phybp, PeekTextFails

\* Removing one puts the saved byte back, or fails (breakpoint.c:60-80).
LEMMA RemoveEffect ==
  ASSUME TypeOK, NEW a \in BpAddr, sylvan_breakpoint_remove_phybp(a)
  PROVE  /\ Inserted(a) /\ ~job.busy /\ shown' = <<>> /\ UNCHANGED <<alive, job, own>>
         /\ \/ answer' = "failed" /\ bp' = bp /\ LeavesTrap(a)
            \/ /\ answer' = "ok"
               /\ mem' = [mem EXCEPT ![a] = bp[a].og_byte]
               /\ bp' = [bp EXCEPT ![a] = [bp[a] EXCEPT !.is_enabled_phy = FALSE]]
<1>1. a \in Addr /\ bp[a] \in Slot /\ bp[a].og_byte \in Byte /\ mem \in [Addr -> Byte]
  BY Words DEF TypeOK, Slot
<1>2. Inserted(a) /\ ~job.busy
  BY DEF sylvan_breakpoint_remove_phybp, Inserted, Idle
<1>3. CASE Cannot
  BY <1>2, <1>3 DEF Cannot, Answers, LeavesTrap
<1>4. CASE Readable(a) /\ Patch(a, bp[a].og_byte, [bp[a] EXCEPT !.is_enabled_phy = FALSE])
  <2>1. mem' = IF Access[a] = "write" THEN [mem EXCEPT ![a] = bp[a].og_byte] ELSE mem
    BY <1>1, <1>4, PatchedWord DEF Patch
  <2>2. /\ Writable(a) => Access[a] = "write"
        /\ ~Writable(a) => Access[a] # "write" \/ Straddles(a)
    BY <1>1, <1>4, PartOfWord
  <2>3. CASE Writable(a)
    BY <1>2, <1>4, <2>1, <2>2, <2>3 DEF Patch, Answers
  <2>4. CASE ~Writable(a)
    BY <1>1, <1>2, <1>4, <2>1, <2>2, <2>4 DEF Patch, Answers, LeavesTrap
  <2> QED BY <2>3, <2>4
<1> QED BY <1>3, <1>4 DEF sylvan_breakpoint_remove_phybp, PeekTextFails

\* memory_write is refused or begins with the bytes of the line (command_handler.c:1095-1142).
LEMMA BeginEffect ==
  ASSUME TypeOK, NEW a \in Addr, NEW line \in Line, handle_write_memory(a, line)
  PROVE  /\ ~job.busy /\ UNCHANGED <<mem, alive, bp, own>> /\ shown' = <<>>
         /\ \/ answer' = "refused" /\ UNCHANGED job
            \/ /\ line # <<>> /\ Parse(line).ok
               /\ job' = [busy |-> TRUE, addr |-> a, data |-> Parse(line).bytes, done |-> 0]
               /\ UNCHANGED answer
BY DEF handle_write_memory, Answers, Idle

\* The words that sylvan_set_memory pokes (inferior.c:729-771): all bytes from the command,
\* or the last ones as they were read.
LEMMA PokeEffect ==
  ASSUME TypeOK, WriteWord \/ WriteTail
  PROVE  \/ \E w \in Word, n \in 1..Remaining :
              /\ n <= WordSize
              /\ \A k \in Pos : k < n => w[k] = job.data[job.done + k + 1]
              /\ n < WordSize =>
                   Readable(Here) /\ \A k \in Pos : k >= n => w[k] = mem[Here + k]
              /\ PokeData(w, n)
         \/ Stop("failed") /\ Remaining > 0 /\ UNCHANGED <<mem, bp, own>>
<1>1. /\ job.data \in Seq(Byte) /\ job.done \in Nat /\ Len(job.data) \in Nat
      /\ Remaining = Len(job.data) - job.done /\ Remaining \in Nat
  BY DEF TypeOK, Job, Remaining
<1>2. CASE WriteWord
  <2> DEFINE w == [k \in Pos |-> job.data[job.done + k + 1]]
  <2>1. w \in Word
    <3>1. \A k \in Pos : job.done + k + 1 \in 1..Len(job.data)
      BY <1>1, <1>2, Words DEF WriteWord
    <3> QED BY <1>1, <3>1 DEF Word
  <2>2. WordSize \in 1..Remaining /\ PokeData(w, WordSize)
    BY <1>1, <1>2, Words DEF WriteWord
  <2>3. \A k \in Pos : w[k] = job.data[job.done + k + 1]
    OBVIOUS
  <2> HIDE DEF w
  <2> QED BY <2>1, <2>2, <2>3, Words
<1>3. CASE WriteTail /\ Readable(Here)
  <2> DEFINE w == Merged(PeekWord(Here))
  <2>1. w \in Word
    <3>1. PeekWord(Here) \in Word
      BY <1>3, PeekTypes DEF TypeOK
    <3>2. \A k \in Pos : k < Remaining => job.done + k + 1 \in 1..Len(job.data)
      BY <1>1, Words
    <3> QED BY <1>1, <3>1, <3>2 DEF Word, Merged
  <2>2. Remaining \in 1..Remaining /\ Remaining < WordSize /\ PokeData(w, Remaining)
    BY <1>1, <1>3, Words DEF WriteTail
  <2>3. \A k \in Pos : w[k] = IF k < Remaining THEN job.data[job.done + k + 1] ELSE mem[Here + k]
    BY DEF Merged, PeekWord
  <2>4. \A k \in Pos : k >= Remaining => ~(k < Remaining)
    BY <1>1, Words
  <2> HIDE DEF w
  <2> QED BY <1>3, <2>1, <2>2, <2>3, <2>4, Words
<1>4. CASE WriteTail /\ ~Readable(Here)
  BY <1>1, <1>4, Words DEF WriteTail
<1> QED BY <1>2, <1>3, <1>4

\* The rows that memory_read prints are those before the first that cannot be read, and at
\* most MaxRows of them (command_handler.c:995-1076).
LEMMA ShowEffect ==
  ASSUME TypeOK, NEW a \in Addr, NEW rows \in 1..(MaxRows + 1), NEW t \in BOOLEAN,
         handle_read_memory(a, rows, t)
  PROVE  /\ ~job.busy /\ UNCHANGED <<mem, alive, bp, job, own>> /\ answer' \in {"ok", "failed"}
         /\ \E k \in 0..MaxRows :
              /\ \A i \in 1..k : Readable(a + (i - 1) * WordSize)
              /\ shown' = [i \in 1..k |-> PeekWord(a + (i - 1) * WordSize)]
<1> DEFINE n == IF rows > MaxRows THEN MaxRows ELSE rows
           Row(i) == a + (i - 1) * WordSize
           good == {m \in 0..n : \A i \in 1..m : Readable(Row(i))}
           k == CHOOSE m \in good : \A o \in good : o <= m
<1>1. n \in Nat /\ n <= MaxRows
  BY WordMemoryAssumption
<1>2. 0 \in good /\ good \subseteq 0..n
  <2>1. 0 \in 0..n /\ 1..0 = {}
    BY <1>1
  <2> HIDE DEF n, Row
  <2> QED BY <2>1
<1>3. \E m \in good : \A o \in good : o <= m
  <2> HIDE DEF good, n
  <2> QED BY <1>1, <1>2, Greatest
<1>4. k \in good
  <2> HIDE DEF good
  <2> QED BY <1>3
<1>5. k \in 0..MaxRows /\ \A i \in 1..k : Readable(Row(i))
  <2>1. k \in 0..n /\ \A i \in 1..k : Readable(Row(i))
    <3> HIDE DEF k
    <3> QED BY <1>4
  <2> HIDE DEF k, n
  <2> QED BY <1>1, <2>1, WordMemoryAssumption
<1>6. /\ ~job.busy /\ UNCHANGED <<mem, alive, bp, job, own>>
      /\ shown' = IF t /\ k < n THEN <<>> ELSE [i \in 1..k |-> PeekWord(Row(i))]
      /\ answer' = IF k < n THEN "failed" ELSE "ok"
  BY DEF handle_read_memory, Idle
<1> HIDE DEF k, n
<1>7. CASE t /\ k < n
  <2>1. 0 \in 0..MaxRows /\ 1..0 = {} /\ <<>> = [i \in 1..0 |-> PeekWord(Row(i))]
    BY WordMemoryAssumption
  <2> QED BY <1>6, <1>7, <2>1
<1>8. CASE ~(t /\ k < n)
  BY <1>5, <1>6, <1>8
<1> QED BY <1>7, <1>8

-----------------------------------------------------------------------------
(***************************************************************************)
(* The invariant.  A write that is in progress shows no memory.            *)
(***************************************************************************)
WInv == TypeOK /\ OwnBytesKept /\ (job.busy => shown = <<>>)

\* No write is in progress.
LEMMA NoJobType == NoJob \in Job /\ NoJob.done <= Len(NoJob.data) /\ Len(NoJob.data) <= MaxBytes /\ ~NoJob.busy
BY Words, WordMemoryAssumption DEF NoJob, Job

\* A new process, or one that the debugger has just been attached to: nothing inserted.
LEMMA WordMemoryInit == Init => WInv
<1> SUFFICES ASSUME Init PROVE WInv
  OBVIOUS
<1>1. mem \in [Addr -> Byte] /\ own \in [Addr -> Byte]
  BY Words DEF Init
<1>2. bp \in [BpAddr -> Slot]
  BY Words DEF Init, Slot
<1>3. job \in Job /\ job.done <= Len(job.data) /\ Len(job.data) <= MaxBytes /\ ~job.busy
  BY NoJobType DEF Init
<1>4. shown \in Seq(Word) /\ Len(shown) <= MaxRows
  BY WordMemoryAssumption DEF Init
<1>5. TypeOK
  BY <1>1, <1>2, <1>3, <1>4 DEF Init, TypeOK, Slot
<1>6. OwnBytesKept
  BY DEF Init, OwnBytesKept, Inserted
<1> QED BY <1>3, <1>5, <1>6 DEF WInv

\* A byte that a write or the process itself puts somewhere becomes the process's own,
\* except over an inserted trap.
LEMMA OwnFollows ==
  ASSUME OwnBytesKept, own' = OwnAfter(mem'), bp' = bp
  PROVE  OwnBytesKept'
<1> SUFFICES ASSUME NEW a \in Addr, ~Straddles(a)
             PROVE  IF Inserted(a) THEN bp[a].og_byte = own'[a] ELSE mem'[a] = own'[a]
  BY DEF OwnBytesKept, Inserted, Straddles
<1>1. own'[a] = IF mem[a] # mem'[a] /\ ~Inserted(a) THEN mem'[a] ELSE own[a]
  BY DEF OwnAfter
<1>2. IF Inserted(a) THEN bp[a].og_byte = own[a] ELSE mem[a] = own[a]
  BY DEF OwnBytesKept
<1> QED BY <1>1, <1>2

\* A breakpoint saves a byte of the process, and gives it back.
LEMMA BreakpointGood ==
  ASSUME WInv, NEW a \in BpAddr, sylvan_breakpoint_create_phybp(a) \/ sylvan_breakpoint_remove_phybp(a)
  PROVE  WInv'
<1>1. /\ TypeOK /\ OwnBytesKept /\ a \in Addr
      /\ mem \in [Addr -> Byte] /\ bp \in [BpAddr -> Slot] /\ bp[a] \in Slot /\ mem[a] \in Byte
  BY Words DEF WInv, TypeOK, Slot
<1>2. /\ ~job.busy /\ shown' = <<>> /\ UNCHANGED <<alive, job, own>>
      /\ answer' \in {"ok", "failed"}
  BY <1>1, InsertEffect, RemoveEffect
<1>3. CASE bp' = bp /\ LeavesTrap(a)
  <2>1. mem' \in [Addr -> Byte]
    BY <1>1, <1>3 DEF LeavesTrap
  <2>2. TypeOK'
    BY <1>1, <1>2, <1>3, <2>1, WordMemoryAssumption DEF TypeOK
  <2>3. \A x \in Addr : mem'[x] = mem[x] \/ Straddles(x)
    BY <1>1, <1>3 DEF LeavesTrap
  <2>4. OwnBytesKept'
    BY <1>1, <1>2, <1>3, <2>3 DEF OwnBytesKept, Inserted, Straddles
  <2> QED BY <1>2, <2>2, <2>4 DEF WInv
<1>4. CASE /\ ~Inserted(a)
           /\ mem' = [mem EXCEPT ![a] = Trap]
           /\ bp' = [bp EXCEPT ![a] = [og_byte |-> mem[a], is_enabled_phy |-> TRUE]]
  <2>1. mem' \in [Addr -> Byte] /\ bp' \in [BpAddr -> Slot]
    BY <1>1, <1>4, Words DEF Slot
  <2>2. TypeOK'
    BY <1>1, <1>2, <2>1, WordMemoryAssumption DEF TypeOK, Slot
  <2>3. bp'[a].og_byte = mem[a] /\ bp'[a].is_enabled_phy
    BY <1>1, <1>4
  <2>4. \A x \in Addr : x # a => mem'[x] = mem[x] /\ (x \in BpAddr => bp'[x] = bp[x])
    BY <1>1, <1>4
  <2>5. OwnBytesKept'
    BY <1>1, <1>2, <1>4, <2>3, <2>4 DEF OwnBytesKept, Inserted, Straddles
  <2> QED BY <1>2, <2>2, <2>5 DEF WInv
<1>5. CASE /\ Inserted(a)
           /\ mem' = [mem EXCEPT ![a] = bp[a].og_byte]
           /\ bp' = [bp EXCEPT ![a] = [bp[a] EXCEPT !.is_enabled_phy = FALSE]]
  <2>1. mem' \in [Addr -> Byte] /\ bp' \in [BpAddr -> Slot]
    BY <1>1, <1>5 DEF Slot
  <2>2. TypeOK'
    BY <1>1, <1>2, <2>1, WordMemoryAssumption DEF TypeOK, Slot
  <2>3. mem'[a] = bp[a].og_byte /\ ~bp'[a].is_enabled_phy
    BY <1>1, <1>5 DEF Slot
  <2>4. \A x \in Addr : x # a => mem'[x] = mem[x] /\ (x \in BpAddr => bp'[x] = bp[x])
    BY <1>1, <1>5
  <2>5. OwnBytesKept'
    BY <1>1, <1>2, <1>5, <2>3, <2>4 DEF OwnBytesKept, Inserted, Straddles
  <2> QED BY <1>2, <2>2, <2>5 DEF WInv
<1> QED BY <1>1, <1>3, <1>4, <1>5, InsertEffect, RemoveEffect

\* memory_write, up to its first word.
LEMMA BeginGood ==
  ASSUME WInv, NEW a \in Addr, NEW line \in Line, handle_write_memory(a, line)
  PROVE  WInv'
<1>1. TypeOK /\ OwnBytesKept
  BY DEF WInv
<1>2. ~job.busy /\ UNCHANGED <<mem, alive, bp, own>> /\ shown' = <<>>
  BY <1>1, BeginEffect
<1>3. Parse(line) \in ParserState
  BY ParseGathers, WordMemoryAssumption
<1>4. answer' \in {"ok", "failed", "refused"}
  BY <1>1, BeginEffect DEF TypeOK
<1>5. job' \in Job /\ job'.done <= Len(job'.data) /\ Len(job'.data) <= MaxBytes
  <2>1. CASE UNCHANGED job
    BY <1>1, <2>1 DEF TypeOK
  <2>2. CASE job' = [busy |-> TRUE, addr |-> a, data |-> Parse(line).bytes, done |-> 0]
    BY <1>3, <2>2 DEF Job, ParserState
  <2> QED BY <1>1, <2>1, <2>2, BeginEffect
<1>6. TypeOK'
  BY <1>1, <1>2, <1>4, <1>5, WordMemoryAssumption DEF TypeOK
<1>7. OwnBytesKept'
  BY <1>1, <1>2 DEF OwnBytesKept, Inserted, Straddles
<1> QED BY <1>2, <1>6, <1>7 DEF WInv

\* One POKE of a write, or its end.
LEMMA WriteGood ==
  ASSUME WInv, WriteWord \/ WriteTail \/ WriteReturns
  PROVE  WInv'
<1>1. /\ TypeOK /\ OwnBytesKept /\ job.busy /\ shown = <<>>
      /\ job \in Job /\ job.done \in Nat /\ Len(job.data) \in Nat
      /\ job.done <= Len(job.data) /\ Len(job.data) <= MaxBytes
  BY DEF WInv, TypeOK, Job, WriteWord, WriteTail, WriteReturns
<1>2. CASE (Stop("failed") \/ Stop("ok")) /\ UNCHANGED <<mem, bp, own>>
  <2>1. TypeOK'
    BY <1>1, <1>2, NoJobType, WordMemoryAssumption DEF TypeOK, Stop, Answers
  <2>2. OwnBytesKept'
    BY <1>1, <1>2 DEF OwnBytesKept, Inserted, Straddles
  <2> QED BY <1>2, <2>1, <2>2 DEF WInv, Stop, Answers
<1>3. ASSUME NEW w \in Word, NEW n \in 1..Remaining, PokeData(w, n) PROVE WInv'
  <2>1. mem' \in [Addr -> Byte] /\ own' \in [Addr -> Byte] /\ bp' = bp
    BY <1>1, <1>3, PokedTypes, OwnTypes DEF TypeOK, PokeData
  <2>2. OwnBytesKept'
    BY <1>1, <1>3, <2>1, OwnFollows DEF PokeData
  <2>3. /\ job' \in Job /\ job'.done <= Len(job'.data) /\ Len(job'.data) <= MaxBytes
        /\ shown' = <<>> /\ alive' = alive /\ answer' \in {"ok", "failed", "refused"}
    <3>1. CASE Stop("failed")
      BY <3>1, NoJobType DEF Stop, Answers
    <3>2. CASE job' = [job EXCEPT !.done = job.done + n] /\ UNCHANGED <<alive, answer, shown>>
      <4>1. job.done + n \in Nat /\ job.done + n <= Len(job.data)
        BY <1>1 DEF Remaining
      <4> QED BY <1>1, <3>2, <4>1 DEF Job, TypeOK
    <3> QED BY <1>3, <3>1, <3>2 DEF PokeData
  <2>4. TypeOK'
    BY <1>1, <2>1, <2>3, WordMemoryAssumption DEF TypeOK
  <2> QED BY <2>2, <2>3, <2>4 DEF WInv
<1>4. CASE WriteReturns
  BY <1>2, <1>4 DEF WriteReturns
<1>5. CASE WriteWord \/ WriteTail
  BY <1>1, <1>2, <1>3, <1>5, PokeEffect
<1> QED BY <1>4, <1>5

\* memory_read changes what is shown, and shows whole words.
LEMMA ReadGood ==
  ASSUME WInv, NEW a \in Addr, NEW rows \in 1..(MaxRows + 1), NEW t \in BOOLEAN,
         handle_read_memory(a, rows, t)
  PROVE  WInv'
<1>1. TypeOK /\ OwnBytesKept
  BY DEF WInv
<1>2. /\ ~job.busy /\ UNCHANGED <<mem, alive, bp, job, own>> /\ answer' \in {"ok", "failed"}
  BY <1>1, ShowEffect
<1>3. PICK k \in 0..MaxRows :
        /\ \A i \in 1..k : Readable(a + (i - 1) * WordSize)
        /\ shown' = [i \in 1..k |-> PeekWord(a + (i - 1) * WordSize)]
  BY <1>1, ShowEffect
<1>4. \A i \in 1..k : PeekWord(a + (i - 1) * WordSize) \in Word
  BY <1>1, <1>3, PeekTypes DEF TypeOK
<1>5. k \in Nat /\ k <= MaxRows
  BY WordMemoryAssumption
<1>6. shown' \in Seq(Word) /\ Len(shown') = k
  BY <1>3, <1>4, <1>5
<1>7. TypeOK'
  BY <1>1, <1>2, <1>5, <1>6 DEF TypeOK
<1>8. OwnBytesKept'
  BY <1>1, <1>2 DEF OwnBytesKept, Inserted, Straddles
<1> QED BY <1>2, <1>7, <1>8 DEF WInv

\* What happens to the process between commands, and that it may be killed in one.
LEMMA ProcessGood ==
  ASSUME WInv, Killed \/ \E a \in Addr, b \in Byte : TraceeStores(a, b)
  PROVE  WInv'
<1>1. TypeOK /\ OwnBytesKept
  BY DEF WInv
<1>2. CASE Killed
  <2>1. TypeOK'
    BY <1>1, <1>2 DEF TypeOK, Killed
  <2>2. OwnBytesKept'
    BY <1>1, <1>2 DEF OwnBytesKept, Inserted, Straddles, Killed
  <2> QED BY <1>2, <2>1, <2>2 DEF WInv, Killed
<1>3. ASSUME NEW a \in Addr, NEW b \in Byte, TraceeStores(a, b) PROVE WInv'
  <2>1. mem' \in [Addr -> Byte] /\ own' \in [Addr -> Byte]
    BY <1>1, <1>3, OwnTypes DEF TypeOK, TraceeStores
  <2>2. shown' = <<>> /\ answer' = "ok" /\ UNCHANGED <<alive, bp, job>>
    BY <1>3 DEF TraceeStores, Answers
  <2>3. TypeOK'
    BY <1>1, <2>1, <2>2, WordMemoryAssumption DEF TypeOK
  <2>4. OwnBytesKept'
    BY <1>1, <1>3, OwnFollows DEF TraceeStores
  <2> QED BY <2>2, <2>3, <2>4 DEF WInv
<1> QED BY <1>2, <1>3

\* The invariant of the memory, at every step of every command.
THEOREM WordMemoryInductive == Spec => []WInv
<1>1. WInv /\ [Next]_vars => WInv'
  <2> SUFFICES ASSUME WInv, [Next]_vars PROVE WInv'
    OBVIOUS
  <2>1. CASE \E a \in BpAddr : sylvan_breakpoint_create_phybp(a) \/ sylvan_breakpoint_remove_phybp(a)
    BY <2>1, BreakpointGood
  <2>2. CASE \E a \in Addr, line \in Line : handle_write_memory(a, line)
    BY <2>2, BeginGood
  <2>3. CASE WriteWord \/ WriteTail \/ WriteReturns
    BY <2>3, WriteGood
  <2>4. CASE \E a \in Addr, rows \in 1..(MaxRows + 1), t \in BOOLEAN : handle_read_memory(a, rows, t)
    BY <2>4, ReadGood
  <2>5. CASE Killed \/ \E a \in Addr, b \in Byte : TraceeStores(a, b)
    BY <2>5, ProcessGood
  <2>6. CASE UNCHANGED vars
    BY <2>6 DEF vars, WInv, TypeOK, OwnBytesKept, Inserted, Straddles
  <2> QED BY <2>1, <2>2, <2>3, <2>4, <2>5, <2>6 DEF Next
<1> QED BY <1>1, WordMemoryInit, PTL DEF Spec

-----------------------------------------------------------------------------
\* Commands keep the types of the memory, of the write in progress and of what is shown;
\* in particular the bytes of an accepted line fit the buffer of 256 (command_handler.c:1103-1142).
THEOREM WordMemoryTypes == Spec => []TypeOK
BY WordMemoryInductive, PTL DEF WInv

\* No byte of the process is lost under a breakpoint, however the words that are poked
\* for breakpoints and for writes overlap (breakpoint.c:35-80, inferior.c:729-771).
THEOREM OwnBytesAreKept == Spec => []OwnBytesKept
BY WordMemoryInductive, PTL DEF WInv

\* A breakpoint in place can be removed as long as the process lives and the word can be
\* written: the trap keeps the word from being the -1 of a failing PEEKTEXT
\* (breakpoint.c:43-45, 68-70).
THEOREM FailuresHaveCause == Spec => FailsForCause
<1>1. ASSUME NEW a \in BpAddr, sylvan_breakpoint_create_phybp(a), answer' = "failed", Writable(a)
      PROVE  \A k \in Pos : mem[a + k] = Ones
  <2>1. PeekTextFails(a) /\ Readable(a)
    BY <1>1 DEF sylvan_breakpoint_create_phybp, Patch, Answers, Writable, Readable, May
  <2>2. PeekWord(a) = AllOnes
    BY <2>1 DEF PeekTextFails
  <2> QED BY <2>2 DEF PeekWord, AllOnes
<1>2. ASSUME NEW a \in BpAddr, sylvan_breakpoint_remove_phybp(a), answer' = "failed", Writable(a)
      PROVE  mem[a] # Trap
  <2>1. PeekTextFails(a) /\ Readable(a)
    BY <1>2 DEF sylvan_breakpoint_remove_phybp, Patch, Answers, Writable, Readable, May
  <2>2. PeekWord(a) = AllOnes
    BY <2>1 DEF PeekTextFails
  <2>3. a + 0 = a
    BY Words
  <2> QED BY <2>2, <2>3, Words, WordMemoryAssumption DEF PeekWord, AllOnes
<1>3. [Next]_vars =>
        \A a \in BpAddr :
          /\ sylvan_breakpoint_create_phybp(a) /\ answer' = "failed"
               => ~Writable(a) \/ \A k \in Pos : mem[a + k] = Ones
          /\ sylvan_breakpoint_remove_phybp(a) /\ answer' = "failed"
               => ~Writable(a) \/ mem[a] # Trap
  BY <1>1, <1>2
<1> QED BY <1>3, PTL DEF Spec, FailsForCause

\* A breakpoint operation that fails at a word that can be written as it can be read changes
\* nothing, neither in the process nor in the slot (breakpoint.c:35-80).
THEOREM FailuresAreHarmless == Spec => FailureHarmless
<1>1. ASSUME WInv, NEW a \in BpAddr,
             sylvan_breakpoint_create_phybp(a) \/ sylvan_breakpoint_remove_phybp(a),
             answer' = "failed", ~Straddles(a)
      PROVE  UNCHANGED <<mem, bp>>
  <2>1. TypeOK
    BY <1>1 DEF WInv
  <2>2. bp' = bp /\ LeavesTrap(a)
    BY <1>1, <2>1, InsertEffect, RemoveEffect
  <2> QED BY <1>1, <2>2 DEF LeavesTrap
<1>2. WInv /\ [Next]_vars =>
        \A a \in BpAddr :
          /\ sylvan_breakpoint_create_phybp(a) \/ sylvan_breakpoint_remove_phybp(a)
          /\ answer' = "failed" /\ ~Straddles(a)
          => UNCHANGED <<mem, bp>>
  BY <1>1
<1> QED BY <1>2, WordMemoryInductive, PTL DEF Spec, FailureHarmless

\* What memory_write writes is what was typed: all tokens before the end of the line or of
\* the buffer, in their order, and none that cannot be read (command_handler.c:1103-1142).
THEOREM LinesAreAccepted == Spec => AcceptedLine
<1>1. ASSUME WInv, [Next]_vars, job'.busy, ~job.busy
      PROVE  \E line \in Line : \E n \in 1..Len(line) :
               /\ \A i \in 1..n : line[i].kind # "unreadable"
               /\ job'.data = FlattenSeq([i \in 1..n |-> line[i].chars])
               /\ n = Len(line) \/ Len(job'.data) = MaxBytes
  <2>1. TypeOK
    BY <1>1 DEF WInv
  <2>2. ASSUME UNCHANGED job PROVE FALSE
    BY <1>1, <2>2
  <2>3. \E a \in Addr, line \in Line : handle_write_memory(a, line)
    <3>1. ASSUME NEW a \in BpAddr, sylvan_breakpoint_create_phybp(a) \/ sylvan_breakpoint_remove_phybp(a)
          PROVE  UNCHANGED job
      BY <2>1, <3>1, InsertEffect, RemoveEffect
    <3>2. ~(WriteWord \/ WriteTail \/ WriteReturns)
      BY <1>1 DEF WriteWord, WriteTail, WriteReturns
    <3>3. ASSUME \/ \E a \in Addr, rows \in 1..(MaxRows + 1), t \in BOOLEAN : handle_read_memory(a, rows, t)
                 \/ \E a \in Addr, b \in Byte : TraceeStores(a, b)
                 \/ Killed \/ UNCHANGED vars
          PROVE  UNCHANGED job
      BY <3>3 DEF handle_read_memory, TraceeStores, Killed, vars
    <3> QED BY <1>1, <2>2, <3>1, <3>2, <3>3 DEF Next
  <2>4. PICK a \in Addr, line \in Line : handle_write_memory(a, line)
    BY <2>3
  <2>5. line # <<>> /\ Parse(line).ok /\ job'.data = Parse(line).bytes
    BY <2>1, <2>2, <2>4, BeginEffect
  <2>6. line \in Seq(Token) /\ Len(line) \in Nat /\ Len(line) # 0
    BY <2>5, WordMemoryAssumption
  <2>7. PICK k \in 0..Len(line) :
          /\ \A i \in 1..k : line[i].kind # "unreadable"
          /\ Parse(line).bytes = Joined(line, k)
          /\ k = Len(line) \/ Len(Parse(line).bytes) = MaxBytes
    BY <2>5, <2>6, ParseGathers DEF Gathered
  <2>8. k # 0
    <3>1. k = 0 => Len(Parse(line).bytes) = 0
      BY <2>7 DEF Joined
    <3> QED BY <2>6, <2>7, <3>1, WordMemoryAssumption
  <2>9. k \in 1..Len(line) /\ Joined(line, k) = FlattenSeq([i \in 1..k |-> line[i].chars])
    BY <2>6, <2>8 DEF Joined
  <2> QED BY <2>5, <2>7, <2>9
<1>2. WInv /\ [Next]_vars =>
        (job'.busy /\ ~job.busy =>
           \E line \in Line : \E n \in 1..Len(line) :
             /\ \A i \in 1..n : line[i].kind # "unreadable"
             /\ job'.data = FlattenSeq([i \in 1..n |-> line[i].chars])
             /\ n = Len(line) \/ Len(job'.data) = MaxBytes)
  BY <1>1
<1> QED BY <1>2, WordMemoryInductive, PTL DEF Spec, AcceptedLine

-----------------------------------------------------------------------------
(***************************************************************************)
(* The refinement: to whom sees bytes and not words, every step is one of  *)
(* ByteMemory, or none.                                                    *)
(***************************************************************************)
Told == IF answer = "ok" THEN "ok" ELSE "failed"
ShownBytes ==
  [i \in 1..(Len(shown) * WordSize) |-> shown[(i - 1) \div WordSize + 1][(i - 1) % WordSize]]

\* No words, no bytes.
LEMMA NothingShown ==
  /\ shown = <<>> => ShownBytes = <<>>
  /\ shown' = <<>> => ShownBytes' = <<>>
<1>1. ASSUME NEW s, s = <<>>
      PROVE  [i \in 1..(Len(s) * WordSize) |-> s[(i - 1) \div WordSize + 1][(i - 1) % WordSize]] = <<>>
  <2>1. Len(s) * WordSize = 0
    BY <1>1, WordMemoryAssumption
  <2>2. 1..0 = {}
    OBVIOUS
  <2> QED BY <2>1, <2>2
<1> QED BY <1>1 DEF ShownBytes

\* What a command answers is ok or not.
LEMMA ToldTypes == Told \in {"ok", "failed"} /\ Told' \in {"ok", "failed"}
BY DEF Told

\* The place of a byte in its row.
LEMMA DivMod ==
  ASSUME NEW x \in Nat, NEW w \in Nat \ {0}
  PROVE  x \div w \in Nat /\ x % w \in 0..(w - 1) /\ x = (x \div w) * w + (x % w)
OBVIOUS

\* The byte at place x of n rows is in one of these rows.
LEMMA RowOfByte ==
  ASSUME NEW w \in Nat \ {0}, NEW n \in Nat, NEW x \in Nat, x < n * w
  PROVE  x \div w < n
<1> DEFINE q == x \div w
           d == q - n
<1>1. q \in Nat /\ x >= q * w /\ q * w \in Int
  BY DivMod
<1> HIDE DEF q
<1>2. SUFFICES ASSUME d \in Nat PROVE FALSE
  BY <1>1 DEF q
<1>3. d * w >= 0 /\ d * w \in Int /\ n * w \in Int
  BY <1>2
<1>4. q * w = n * w + d * w
  BY <1>1, <1>2
<1> HIDE DEF d
<1> QED BY <1>1, <1>3, <1>4

\* The first state, of which the process has set the bytes.
LEMMA BytesInit == Init => Bytes!Init
<1> SUFFICES ASSUME Init PROVE Bytes!Init
  OBVIOUS
<1>1. mem \in [Addr -> Byte]
  BY Words DEF Init
<1>2. ShownBytes = <<>> /\ Told = "ok" /\ job = NoJob
  BY NothingShown DEF Init, Told
<1> QED BY <1>1, <1>2 DEF Bytes!Init, Bytes!NoJob, NoJob, ShownBytes, Told

\* A step between two writes that changes one byte at most.
LEMMA PatchSimulated ==
  ASSUME ~job.busy, job' = job, shown' = <<>>,
         mem' = mem \/ \E a \in Addr, b \in Byte : mem' = [mem EXCEPT ![a] = b]
  PROVE  Bytes!Patch
<1>1. ShownBytes' = <<>> /\ Told' \in {"ok", "failed"}
  BY NothingShown, ToldTypes
<1> QED BY <1>1 DEF Bytes!Patch, ShownBytes, Told

\* Inserting and removing a breakpoint.
LEMMA BreakpointSimulated ==
  ASSUME WInv, NEW a \in BpAddr, sylvan_breakpoint_create_phybp(a) \/ sylvan_breakpoint_remove_phybp(a)
  PROVE  Bytes!Patch
<1>1. TypeOK /\ a \in Addr /\ Trap \in Byte /\ bp[a].og_byte \in Byte
  BY Words DEF WInv, TypeOK
<1>2. ~job.busy /\ job' = job /\ shown' = <<>>
  BY <1>1, InsertEffect, RemoveEffect
<1>3. mem' = mem \/ \E b \in Byte : mem' = [mem EXCEPT ![a] = b]
  BY <1>1, InsertEffect, RemoveEffect DEF LeavesTrap
<1> QED BY <1>1, <1>2, <1>3, PatchSimulated

\* A write that begins, or is refused.
LEMMA BeginSimulated ==
  ASSUME WInv, NEW a \in Addr, NEW line \in Line, handle_write_memory(a, line)
  PROVE  Bytes!Begin \/ Bytes!Patch
<1>1. TypeOK
  BY DEF WInv
<1>2. ~job.busy /\ UNCHANGED <<mem, alive, bp, own>> /\ shown' = <<>>
  BY <1>1, BeginEffect
<1>3. CASE UNCHANGED job
  BY <1>2, <1>3, PatchSimulated
<1>4. CASE /\ job' = [busy |-> TRUE, addr |-> a, data |-> Parse(line).bytes, done |-> 0]
           /\ UNCHANGED answer
  <2>1. Parse(line).bytes \in Seq(Byte)
    BY ParseGathers, WordMemoryAssumption DEF ParserState
  <2>2. job' \in [busy : {TRUE}, addr : Addr, data : Seq(Byte), done : {0}]
    BY <1>4, <2>1
  <2>3. ShownBytes' = <<>> /\ Told' = Told
    BY <1>2, <1>4, NothingShown DEF Told
  <2> QED BY <1>2, <2>2, <2>3 DEF Bytes!Begin, ShownBytes, Told
<1> QED BY <1>1, <1>3, <1>4, BeginEffect

\* The bytes that a POKE has written: those of the command, up to the first byte that cannot
\* be written.
LEMMA PokePlaces ==
  ASSUME TypeOK, job.busy, NEW w \in Word, NEW n \in 1..Remaining, n <= WordSize,
         \A k \in Pos : k < n => w[k] = job.data[job.done + k + 1],
         n < WordSize => \A k \in Pos : k >= n => w[k] = mem[Here + k]
  PROVE  \E m \in 0..n : Poked(Here, w) = Bytes!Placed(m) /\ (Writable(Here) => m = n)
<1>1. /\ job.addr \in Nat /\ job.done \in Nat /\ n \in Nat /\ WordSize \in Nat \ {0}
      /\ Here = job.addr + job.done /\ Here \in Nat
  BY Words DEF TypeOK, Job, Here
<1> DEFINE Bad == {k \in 0..n : k = n \/ ~May(Here + k, {"write"})}
<1>2. n \in Bad /\ Bad \subseteq Nat
  BY <1>1
<1>3. PICK m \in Bad : \A k \in Bad : m <= k
  <2> HIDE DEF Bad
  <2> QED BY <1>2, Least
<1>4. /\ m \in 0..n /\ m <= n /\ (m = n \/ ~May(Here + m, {"write"}))
      /\ \A k \in 0..n : k < m => May(Here + k, {"write"})
  <2>1. \A k \in 0..n : k \notin Bad => May(Here + k, {"write"})
    OBVIOUS
  <2>2. \A k \in 0..n : k < m => k \notin Bad
    BY <1>1, <1>3
  <2> QED BY <1>1, <1>3, <2>1, <2>2
<1>5. Writable(Here) => m = n
  <2> SUFFICES ASSUME Writable(Here), m # n PROVE FALSE
    OBVIOUS
  <2>1. m \in Pos /\ ~May(Here + m, {"write"})
    BY <1>1, <1>4 DEF Pos
  <2> QED BY <2>1 DEF Writable
<1>6. ASSUME NEW x \in Addr
      PROVE  (IF x - Here \in Pos /\ \A y \in Here..x : May(y, {"write"}) THEN w[x - Here] ELSE mem[x])
               = IF x - job.addr \in job.done..(job.done + m - 1) THEN job.data[x - job.addr + 1] ELSE mem[x]
  <2>1. x \in Nat
    BY Words
  <2>2. CASE x - Here \in 0..(m - 1)
    <3>1. x - Here \in Pos /\ x - Here < n
      BY <1>1, <1>4, <2>2 DEF Pos
    <3>2. \A y \in Here..x : May(y, {"write"})
      <4> SUFFICES ASSUME NEW y \in Here..x PROVE May(y, {"write"})
        OBVIOUS
      <4>1. y - Here \in 0..n /\ y - Here < m /\ Here + (y - Here) = y
        BY <1>1, <1>4, <2>1, <2>2
      <4> QED BY <1>4, <4>1
    <3>3. w[x - Here] = job.data[job.done + (x - Here) + 1]
      BY <3>1
    <3>4. job.done + (x - Here) + 1 = x - job.addr + 1 /\ x - job.addr \in job.done..(job.done + m - 1)
      BY <1>1, <1>4, <2>1, <2>2
    <3> QED BY <3>1, <3>2, <3>3, <3>4
  <2>3. CASE x - Here \notin 0..(m - 1)
    <3>1. x - job.addr \notin job.done..(job.done + m - 1)
      BY <1>1, <1>4, <2>1, <2>3
    <3>2. ASSUME x - Here \in Pos, \A y \in Here..x : May(y, {"write"})
          PROVE  w[x - Here] = mem[x]
      <4>1. x - Here >= m /\ x - Here < WordSize /\ x - Here \in Nat
        BY <1>1, <1>4, <2>1, <2>3, <3>2 DEF Pos
      <4>2. m = n
        <5>1. Here + m \in Here..x
          BY <1>1, <1>4, <2>1, <4>1
        <5> QED BY <1>4, <3>2, <5>1
      <4>3. n < WordSize /\ x - Here >= n /\ Here + (x - Here) = x
        BY <1>1, <2>1, <4>1, <4>2
      <4> QED BY <3>2, <4>3
    <3> QED BY <3>1, <3>2
  <2> QED BY <2>2, <2>3
<1>7. Poked(Here, w) = Bytes!Placed(m)
  BY <1>6, Zenon DEF Poked, Bytes!Placed
<1> QED BY <1>4, <1>5, <1>7

\* A POKE advances the write or ends it in failure, and the last answer finishes it.
LEMMA WriteSimulated ==
  ASSUME WInv, WriteWord \/ WriteTail \/ WriteReturns
  PROVE  Bytes!Advance \/ Bytes!Finish \/ Bytes!Fail
<1>1. /\ TypeOK /\ job.busy /\ shown = <<>>
      /\ job \in Job /\ job.done \in Nat /\ Len(job.data) \in Nat
      /\ Remaining = Len(job.data) - job.done /\ Remaining \in Nat
  BY DEF WInv, TypeOK, Job, WriteWord, WriteTail, WriteReturns, Remaining
<1>2. \A m \in Nat : Bytes!Placed(m) = [a \in Addr |->
        IF a - job.addr \in job.done..(job.done + m - 1) THEN job.data[a - job.addr + 1] ELSE mem[a]]
  BY DEF Bytes!Placed
<1>3. CASE WriteReturns
  <2>1. ShownBytes = <<>> /\ ShownBytes' = <<>> /\ Told' = "ok"
    BY <1>1, <1>3, NothingShown DEF WriteReturns, Stop, Answers, Told
  <2>2. job.done = Len(job.data)
    BY <1>1, <1>3 DEF WriteReturns
  <2>3. job' = Bytes!NoJob /\ mem' = mem
    BY <1>3 DEF WriteReturns, Stop, NoJob, Bytes!NoJob
  <2> QED BY <1>1, <2>1, <2>2, <2>3 DEF Bytes!Finish, ShownBytes, Told
<1>4. ASSUME Stop("failed"), \E m \in 0..Remaining : mem' = Bytes!Placed(m), Remaining > 0
      PROVE  Bytes!Fail
  <2>1. ShownBytes = <<>> /\ ShownBytes' = <<>> /\ Told' = "failed"
    BY <1>1, <1>4, NothingShown DEF Stop, Answers, Told
  <2>2. job' = Bytes!NoJob /\ job.done < Len(job.data)
    BY <1>1, <1>4 DEF Stop, NoJob, Bytes!NoJob
  <2> QED BY <1>1, <1>4, <2>1, <2>2 DEF Bytes!Fail, ShownBytes, Told
<1>5. CASE Stop("failed") /\ Remaining > 0 /\ UNCHANGED <<mem, bp, own>>
  <2>1. mem = Bytes!Placed(0)
    <3>1. job.done..(job.done + 0 - 1) = {}
      BY <1>1
    <3>2. mem = [a \in Addr |-> mem[a]]
      BY <1>1 DEF TypeOK
    <3> QED BY <1>2, <3>1, <3>2
  <2>2. 0 \in 0..Remaining
    BY <1>1
  <2> QED BY <1>4, <1>5, <2>1, <2>2
<1>6. ASSUME NEW w \in Word, NEW n \in 1..Remaining, n <= WordSize,
             \A k \in Pos : k < n => w[k] = job.data[job.done + k + 1],
             n < WordSize => \A k \in Pos : k >= n => w[k] = mem[Here + k],
             PokeData(w, n)
      PROVE  Bytes!Advance \/ Bytes!Fail
  <2>1. PICK m \in 0..n : Poked(Here, w) = Bytes!Placed(m) /\ (Writable(Here) => m = n)
    BY <1>1, <1>6, PokePlaces
  <2>2. mem' = Bytes!Placed(m)
    BY <1>6, <2>1 DEF PokeData
  <2>3. CASE Writable(Here)
    <3>1. job' = [job EXCEPT !.done = job.done + n] /\ UNCHANGED <<answer, shown>> /\ mem' = Bytes!Placed(n)
      BY <1>6, <2>1, <2>2, <2>3 DEF PokeData
    <3>2. ShownBytes' = ShownBytes /\ Told' = Told
      BY <3>1 DEF ShownBytes, Told
    <3>3. n \in 1..(Len(job.data) - job.done)
      BY <1>1, <1>6
    <3> QED BY <1>1, <3>1, <3>2, <3>3 DEF Bytes!Advance, ShownBytes, Told
  <2>4. CASE ~Writable(Here)
    <3>1. Stop("failed")
      BY <1>6, <2>4 DEF PokeData
    <3>2. m \in 0..Remaining /\ Remaining > 0
      BY <1>1, <1>6
    <3> QED BY <1>4, <2>2, <3>1, <3>2
  <2> QED BY <2>3, <2>4
<1>7. CASE WriteWord \/ WriteTail
  BY <1>1, <1>5, <1>6, <1>7, PokeEffect
<1> QED BY <1>3, <1>7

\* The rows that are printed are the bytes from the address on, in their order.
LEMMA ReadSimulated ==
  ASSUME WInv, NEW a \in Addr, NEW rows \in 1..(MaxRows + 1), NEW t \in BOOLEAN,
         handle_read_memory(a, rows, t)
  PROVE  Bytes!Show
<1>1. TypeOK /\ a \in Nat /\ WordSize \in Nat \ {0} /\ MaxRows \in Nat
  BY Words, WordMemoryAssumption DEF WInv
<1>2. ~job.busy /\ UNCHANGED <<mem, alive, bp, job, own>>
  BY <1>1, ShowEffect
<1>3. PICK k \in 0..MaxRows :
        /\ \A i \in 1..k : Readable(a + (i - 1) * WordSize)
        /\ shown' = [i \in 1..k |-> PeekWord(a + (i - 1) * WordSize)]
  BY <1>1, ShowEffect
<1>4. Len(shown') = k /\ k \in Nat
  BY <1>1, <1>3
<1>5. k * WordSize \in Nat
  BY <1>1, <1>4
<1> DEFINE b == ShownBytes'
<1>6. /\ b = [i \in 1..(k * WordSize) |-> shown'[(i - 1) \div WordSize + 1][(i - 1) % WordSize]]
      /\ DOMAIN b = 1..(k * WordSize)
  BY <1>4 DEF ShownBytes
<1>7. ASSUME NEW i \in 1..(k * WordSize)
      PROVE  a + i - 1 \in Addr /\ b[i] = mem[a + i - 1]
  <2> DEFINE q == (i - 1) \div WordSize
             r == (i - 1) % WordSize
  <2>1. i - 1 \in Nat /\ i - 1 < k * WordSize
    BY <1>5
  <2>2. q \in Nat /\ r \in 0..(WordSize - 1) /\ i - 1 = q * WordSize + r
    BY <1>1, <2>1, DivMod
  <2>3. q < k
    BY <1>1, <1>4, <2>1, RowOfByte
  <2>4. b[i] = shown'[q + 1][r]
    BY <1>6
  <2> HIDE DEF q, r, b
  <2>5. q + 1 \in 1..k /\ (q + 1) - 1 = q /\ r \in Pos
    BY <1>4, <2>2, <2>3 DEF Pos
  <2>6. shown'[q + 1] = PeekWord(a + q * WordSize) /\ Readable(a + q * WordSize)
    BY <1>3, <2>5
  <2>7. b[i] = mem[a + q * WordSize + r] /\ a + q * WordSize + r \in Addr
    BY <2>4, <2>5, <2>6 DEF PeekWord, Readable, May
  <2>8. a + q * WordSize + r = a + i - 1
    <3>1. q * WordSize \in Nat
      BY <1>1, <2>2
    <3> QED BY <1>1, <2>2, <3>1
  <2> QED BY <2>7, <2>8
<1> HIDE DEF b
<1>8. b \in Seq(Byte)
  <2>1. \A i \in 1..(k * WordSize) : b[i] \in Byte
    BY <1>1, <1>7 DEF TypeOK
  <2>2. b = [i \in 1..(k * WordSize) |-> b[i]]
    BY <1>6
  <2> QED BY <1>5, <2>1, <2>2
<1>9. \E l \in Addr : \A i \in DOMAIN b : l + i - 1 \in Addr /\ b[i] = mem[l + i - 1]
  BY <1>6, <1>7
<1>10. Told' \in {"ok", "failed"}
  BY ToldTypes
<1> QED BY <1>2, <1>8, <1>9, <1>10 DEF Bytes!Show, b, ShownBytes, Told

\* Every step of the commands is one of the abstract memory, or cannot be seen in it.
LEMMA BytesStep ==
  ASSUME WInv, [Next]_vars
  PROVE  [Bytes!Next]_(Bytes!vars)
<1>1. CASE \E a \in BpAddr : sylvan_breakpoint_create_phybp(a) \/ sylvan_breakpoint_remove_phybp(a)
  BY <1>1, BreakpointSimulated DEF Bytes!Next
<1>2. CASE \E a \in Addr, line \in Line : handle_write_memory(a, line)
  BY <1>2, BeginSimulated DEF Bytes!Next
<1>3. CASE WriteWord \/ WriteTail \/ WriteReturns
  BY <1>3, WriteSimulated DEF Bytes!Next
<1>4. CASE \E a \in Addr, rows \in 1..(MaxRows + 1), t \in BOOLEAN : handle_read_memory(a, rows, t)
  BY <1>4, ReadSimulated DEF Bytes!Next
<1>5. CASE \E a \in Addr, b \in Byte : TraceeStores(a, b)
  BY <1>5, PatchSimulated DEF TraceeStores, Answers, Idle, Bytes!Next
<1>6. CASE Killed \/ UNCHANGED vars
  <2>1. UNCHANGED <<mem, job, answer, shown>>
    BY <1>6 DEF Killed, vars
  <2> QED BY <2>1 DEF Bytes!vars
<1> QED BY <1>1, <1>2, <1>3, <1>4, <1>5, <1>6 DEF Next

\* The commands on words, with breakpoints in overlapping words, failing requests, tails that
\* are read before they are written and a process that may be killed meanwhile, implement the
\* memory of bytes (inferior.c:710-771, breakpoint.c:35-80).
THEOREM WordsImplementBytes == Spec => ImplementsBytes
BY BytesInit, BytesStep, WordMemoryInductive, PTL DEF Spec, ImplementsBytes, Bytes!Spec
=============================================================================
