---------------------------- MODULE SymbolsProofs ----------------------------
(***************************************************************************)
(* Names and listings, for every set of files, every layout of segments    *)
(* and every instruction set: what a name means after the tables were      *)
(* loaded (Symbols), and what disassemble shows (Disassembly).             *)
(*                                                                         *)
(* First the operators on sequences, by induction; then the loaders, the   *)
(* search and the decoder; then the steps, of which only the loading of    *)
(* tables needs an invariant (SInv).                                       *)
(***************************************************************************)
EXTENDS Disassembly, WellFoundedInduction, TLAPS

-----------------------------------------------------------------------------
(***************************************************************************)
(* Induction over the natural numbers, for sets: the form in which it can  *)
(* be used for what a recursive function computes.                         *)
(***************************************************************************)

\* A set of numbers that is not empty has a least element.
LEMMA Least ==
  ASSUME NEW T, T \subseteq Nat, T # {}
  PROVE  \E x \in T : \A y \in T : x <= y
<1>1. \E x \in T : \A y \in T : <<y, x>> \notin OpToRel(<, Nat)
  BY WFMin, NatLessThanWellFounded, Zenon
<1>2. PICK x \in T : \A y \in T : <<y, x>> \notin OpToRel(<, Nat)
  BY <1>1, Zenon
<1>3. ASSUME NEW y \in T PROVE ~(y < x)
  BY <1>2, <1>3, Zenon DEF OpToRel
<1> QED BY <1>3

\* A set with 0 and with the successor of each of its numbers has all numbers.
LEMMA NatInd ==
  ASSUME NEW S, 0 \in S, \A n \in Nat : n \in S => n + 1 \in S
  PROVE  Nat \subseteq S
<1> SUFFICES ASSUME Nat \ S # {} PROVE FALSE
  OBVIOUS
<1>1. PICK x \in Nat \ S : \A y \in Nat \ S : x <= y
  BY Least
<1>2. x # 0 /\ x - 1 \in Nat
  BY <1>1
<1>3. x - 1 \notin S
  BY <1>1, <1>2
<1>4. x - 1 >= x
  BY <1>1, <1>2, <1>3
<1> QED BY <1>1, <1>4

-----------------------------------------------------------------------------
(***************************************************************************)
(* Operators on sequences.                                                 *)
(***************************************************************************)

\* What SelectInSeq finds: the first of the indices, or 0 if there are none.
LEMMA FirstIndex ==
  ASSUME NEW n \in Nat, NEW I \in SUBSET (1..n), NEW k, k = IF I # {} THEN Min(I) ELSE 0
  PROVE  /\ k \in 0..n
         /\ k = 0 <=> I = {}
         /\ k # 0 => k \in I
         /\ \A i \in 1..n : i < k \/ k = 0 => i \notin I
<1>1. CASE I = {}
  BY <1>1
<1>2. CASE I # {}
  <2>1. \E x \in I : \A y \in I : x <= y
    <3>1. I \subseteq Nat
      OBVIOUS
    <3> QED BY <1>2, <3>1, Least
  <2>2. Min(I) \in I /\ \A y \in I : Min(I) <= y
    BY <2>1 DEF Min
  <2>3. k = Min(I) /\ k \in 1..n
    BY <1>2, <2>2
  <2> QED BY <1>2, <2>2, <2>3
<1> QED BY <1>1, <1>2

\* FlattenSeq joins one sequence after another.
LEMMA FlattenSteps ==
  ASSUME NEW s, NEW k \in Nat \ {0}, Len(s) = k
  PROVE  \E flat :
           /\ flat[1] = s[1]
           /\ \A n \in 2..k : flat[n] = flat[n - 1] \o s[n]
           /\ FlattenSeq(s) = flat[k]
<1> DEFINE Rec(f, i) == IF i = 1 THEN s[i] ELSE f[i - 1] \o s[i]
           S == {n \in Nat : \E f : f = [i \in 1..n |-> Rec(f, i)]}
<1>1. 0 \in S
  <2> DEFINE f == [i \in 1..0 |-> s[i]]
  <2>1. f = [i \in 1..0 |-> Rec(f, i)]
    OBVIOUS
  <2> QED BY <2>1
<1>2. ASSUME NEW n \in Nat, n \in S PROVE n + 1 \in S
  <2>1. PICK f : f = [i \in 1..n |-> Rec(f, i)]
    BY <1>2
  <2> DEFINE g == [i \in 1..(n + 1) |-> IF i = n + 1 THEN Rec(f, i) ELSE f[i]]
  <2>2. ASSUME NEW i \in 1..(n + 1) PROVE g[i] = Rec(g, i)
    <3>1. CASE i = 1
      <4>1. CASE n = 0
        BY <3>1, <4>1
      <4>2. CASE n # 0
        <5>1. 1 \in 1..n /\ 1 # n + 1
          BY <4>2
        <5>2. f[1] = s[1]
          BY <2>1, <5>1
        <5> QED BY <3>1, <5>1, <5>2
      <4> QED BY <4>1, <4>2
    <3>2. CASE i = n + 1 /\ i # 1
      <4>1. n \in 1..(n + 1) /\ n # n + 1 /\ i - 1 = n
        BY <3>2
      <4>2. g[i] = Rec(f, i) /\ g[n] = f[n]
        BY <3>2, <4>1
      <4> HIDE DEF g
      <4> QED BY <3>2, <4>1, <4>2
    <3>3. CASE i \in 2..n
      <4>1. i \in 1..n /\ i - 1 \in 1..n /\ i # 1 /\ i # n + 1 /\ i - 1 # n + 1 /\ i - 1 \in 1..(n + 1)
        BY <3>3
      <4>2. f[i] = f[i - 1] \o s[i]
        BY <2>1, <4>1
      <4>3. g[i] = f[i] /\ g[i - 1] = f[i - 1]
        BY <4>1
      <4> HIDE DEF g
      <4> QED BY <4>1, <4>2, <4>3
    <3>4. i = 1 \/ (i = n + 1 /\ i # 1) \/ i \in 2..n
      OBVIOUS
    <3> HIDE DEF g, Rec
    <3> QED BY <3>1, <3>2, <3>3, <3>4
  <2>3. g = [i \in 1..(n + 1) |-> Rec(g, i)]
    <3>1. \A i \in 1..(n + 1) : Rec(g, i) = IF i = n + 1 THEN Rec(f, i) ELSE f[i]
      BY <2>2
    <3> HIDE DEF Rec
    <3> QED BY <3>1, Zenon
  <2> HIDE DEF g, Rec
  <2> QED BY <2>3
<1>3. k \in S
  <2> HIDE DEF S
  <2> QED BY <1>1, <1>2, NatInd
<1> DEFINE flat == CHOOSE f : f = [i \in 1..k |-> Rec(f, i)]
<1>4. flat = [i \in 1..k |-> Rec(flat, i)]
  BY <1>3
<1>5. FlattenSeq(s) = flat[k]
  BY DEF FlattenSeq
<1> HIDE DEF flat
<1>6. flat[1] = s[1]
  <2>1. 1 \in 1..k
    OBVIOUS
  <2> QED BY <1>4, <2>1
<1>7. ASSUME NEW n \in 2..k PROVE flat[n] = flat[n - 1] \o s[n]
  <2>1. n \in 1..k /\ n # 1
    OBVIOUS
  <2> QED BY <1>4, <2>1
<1> QED BY <1>5, <1>6, <1>7

\* What two sequences have together.
LEMMA JoinHas ==
  ASSUME NEW T, NEW s \in Seq(T), NEW t \in Seq(T), NEW x
  PROVE  x \in ToSet(s \o t) <=> x \in ToSet(s) \/ x \in ToSet(t)
<1>1. /\ Len(s) \in Nat /\ Len(t) \in Nat /\ DOMAIN s = 1..Len(s) /\ DOMAIN t = 1..Len(t)
      /\ DOMAIN (s \o t) = 1..(Len(s) + Len(t))
  OBVIOUS
<1>2. \A i \in 1..(Len(s) + Len(t)) : (s \o t)[i] = IF i <= Len(s) THEN s[i] ELSE t[i - Len(s)]
  OBVIOUS
<1>3. ASSUME NEW i \in 1..Len(s) PROVE i \in 1..(Len(s) + Len(t)) /\ (s \o t)[i] = s[i]
  BY <1>1, <1>2
<1>4. ASSUME NEW i \in 1..Len(t)
      PROVE  i + Len(s) \in 1..(Len(s) + Len(t)) /\ (s \o t)[i + Len(s)] = t[i]
  <2>1. i + Len(s) \in 1..(Len(s) + Len(t)) /\ ~(i + Len(s) <= Len(s)) /\ (i + Len(s)) - Len(s) = i
    BY <1>1
  <2> QED BY <1>2, <2>1
<1>5. ASSUME NEW i \in 1..(Len(s) + Len(t))
      PROVE  \/ i \in 1..Len(s) /\ (s \o t)[i] = s[i]
             \/ i - Len(s) \in 1..Len(t) /\ (s \o t)[i] = t[i - Len(s)]
  BY <1>1, <1>2
<1> DEFINE st == s \o t
<1>6. /\ DOMAIN st = 1..(Len(s) + Len(t))
      /\ \A i \in 1..Len(s) : i \in DOMAIN st /\ st[i] = s[i]
      /\ \A i \in 1..Len(t) : i + Len(s) \in DOMAIN st /\ st[i + Len(s)] = t[i]
      /\ \A i \in DOMAIN st : \/ i \in 1..Len(s) /\ st[i] = s[i]
                              \/ i - Len(s) \in 1..Len(t) /\ st[i] = t[i - Len(s)]
  BY <1>1, <1>3, <1>4, <1>5
<1> HIDE DEF st
<1>7. x \in ToSet(st) <=> x \in ToSet(s) \/ x \in ToSet(t)
  <2>1. ASSUME x \in ToSet(st) PROVE x \in ToSet(s) \/ x \in ToSet(t)
    <3>1. PICK i \in DOMAIN st : x = st[i]
      BY <2>1 DEF ToSet
    <3>2. CASE i \in 1..Len(s) /\ st[i] = s[i]
      BY <1>1, <3>1, <3>2 DEF ToSet
    <3>3. CASE i - Len(s) \in 1..Len(t) /\ st[i] = t[i - Len(s)]
      BY <1>1, <3>1, <3>3 DEF ToSet
    <3> QED BY <1>6, <3>2, <3>3
  <2>2. ASSUME x \in ToSet(s) PROVE x \in ToSet(st)
    BY <1>1, <1>6, <2>2 DEF ToSet
  <2>3. ASSUME x \in ToSet(t) PROVE x \in ToSet(st)
    BY <1>1, <1>6, <2>3 DEF ToSet
  <2> QED BY <2>1, <2>2, <2>3
<1> QED BY <1>7 DEF st

\* Joining sequences joins what they have.
LEMMA FlattenSeqHas ==
  ASSUME NEW T, NEW s \in Seq(Seq(T))
  PROVE  /\ FlattenSeq(s) \in Seq(T)
         /\ \A x : x \in ToSet(FlattenSeq(s)) <=> \E i \in 1..Len(s) : x \in ToSet(s[i])
<1>1. CASE Len(s) = 0
  <2>1. FlattenSeq(s) = s /\ s \in Seq(T)
    <3>1. s = <<>>
      BY <1>1
    <3> QED BY <1>1, <3>1 DEF FlattenSeq
  <2>2. \A x : x \notin ToSet(s)
    <3> SUFFICES ASSUME NEW x, x \in ToSet(s) PROVE FALSE
      OBVIOUS
    <3>1. PICK i \in DOMAIN s : x = s[i]
      BY DEF ToSet
    <3> QED BY <1>1, <3>1
  <2>3. \A i : i \notin 1..Len(s)
    BY <1>1
  <2> QED BY <2>1, <2>2, <2>3, Zenon
<1>2. CASE Len(s) # 0
  <2>1. Len(s) \in Nat \ {0}
    BY <1>2
  <2>2. PICK flat : /\ flat[1] = s[1]
                    /\ \A n \in 2..Len(s) : flat[n] = flat[n - 1] \o s[n]
                    /\ FlattenSeq(s) = flat[Len(s)]
    BY <2>1, FlattenSteps
  <2> DEFINE Has(n) == /\ flat[n] \in Seq(T)
                       /\ \A x : x \in ToSet(flat[n]) <=> \E i \in 1..n : x \in ToSet(s[i])
             S == {n \in Nat : n + 1 <= Len(s) => Has(n + 1)}
  <2>3. Has(1)
    <3>1. s[1] \in Seq(T) /\ 1..1 = {1}
      BY <2>1
    <3> QED BY <2>2, <3>1
  <2>4. 0 \in S
    <3> HIDE DEF Has
    <3> QED BY <2>3
  <2>5. ASSUME NEW n \in Nat, n \in S PROVE n + 1 \in S
    <3> SUFFICES ASSUME n + 2 <= Len(s) PROVE Has(n + 2)
      <4> HIDE DEF Has
      <4> QED OBVIOUS
    <3>1. Has(n + 1)
      <4> HIDE DEF Has
      <4> QED BY <2>1, <2>5
    <3>2. n + 2 \in 2..Len(s) /\ (n + 2) - 1 = n + 1 /\ s[n + 2] \in Seq(T)
      BY <2>1
    <3>3. flat[n + 2] = flat[n + 1] \o s[n + 2]
      BY <2>2, <3>2
    <3>4. flat[n + 2] \in Seq(T)
      BY <3>1, <3>2, <3>3
    <3>5. ASSUME NEW x
          PROVE  x \in ToSet(flat[n + 2]) <=> x \in ToSet(flat[n + 1]) \/ x \in ToSet(s[n + 2])
      BY <3>1, <3>2, <3>3, JoinHas
    <3>6. \A i : i \in 1..(n + 2) <=> i \in 1..(n + 1) \/ i = n + 2
      OBVIOUS
    <3> QED BY <3>1, <3>4, <3>5, <3>6
  <2>6. Nat \subseteq S
    <3> HIDE DEF S
    <3> QED BY <2>4, <2>5, NatInd
  <2>7. Has(Len(s))
    <3>1. Len(s) - 1 \in Nat /\ (Len(s) - 1) + 1 = Len(s) /\ Len(s) <= Len(s)
      BY <2>1
    <3>2. Len(s) - 1 \in S
      <4> HIDE DEF S
      <4> QED BY <2>6, <3>1
    <3> HIDE DEF Has
    <3> QED BY <3>1, <3>2
  <2> QED BY <2>2, <2>7
<1> QED BY <1>1, <1>2

-----------------------------------------------------------------------------
(***************************************************************************)
(* The loaders and the search (symbol.c).                                  *)
(***************************************************************************)

\* The entry of the tables for function n at address a.
Sym(n, a) == [name |-> n, addr |-> a]

\* The tables get the functions that have a name, and nothing else.
LEMMA FunctionsHas ==
  ASSUME NEW entries \in Seq(Entry)
  PROVE  /\ Functions(entries) \in Seq(Symbol)
         /\ \A n \in Name, a \in Address :
              Sym(n, a) \in ToSet(Functions(entries)) <=>
                \E k \in DOMAIN entries : entries[k] = [name |-> n, addr |-> a, is_function |-> TRUE]
<1> DEFINE Taken(k) == IF entries[k].is_function /\ entries[k].name # NoName
                         THEN <<[name |-> entries[k].name, addr |-> entries[k].addr]>>
                         ELSE <<>>
           s == [k \in 1..Len(entries) |-> Taken(k)]
<1>1. \A k \in 1..Len(entries) : entries[k] \in Entry
  OBVIOUS
<1>2. \A k \in 1..Len(entries) : Taken(k) \in Seq(Symbol)
  <2> SUFFICES ASSUME NEW k \in 1..Len(entries) PROVE Taken(k) \in Seq(Symbol)
    OBVIOUS
  <2>1. entries[k].name \in Name \cup {NoName} /\ entries[k].addr \in Address
    BY <1>1 DEF Entry
  <2>2. entries[k].name # NoName => [name |-> entries[k].name, addr |-> entries[k].addr] \in Symbol
    BY <2>1 DEF Symbol
  <2> QED BY <2>2
<1>3. s \in Seq(Seq(Symbol)) /\ Len(s) = Len(entries)
  <2> HIDE DEF Taken
  <2> QED BY <1>2
<1>4. \A k \in 1..Len(entries) : s[k] = Taken(k)
  OBVIOUS
<1>5. Functions(entries) = FlattenSeq(s)
  BY DEF Functions
<1>6. ASSUME NEW n \in Name, NEW a \in Address, NEW k \in 1..Len(entries)
      PROVE  Sym(n, a) \in ToSet(Taken(k)) <=>
               entries[k] = [name |-> n, addr |-> a, is_function |-> TRUE]
  <2>1. n # NoName
    BY SymbolsAssumption
  <2>2. PICK m \in Name \cup {NoName}, b \in Address, is \in BOOLEAN :
          entries[k] = [name |-> m, addr |-> b, is_function |-> is]
    BY <1>1 DEF Entry
  <2>3. CASE is /\ m # NoName
    <3>1. Taken(k) = <<Sym(m, b)>>
      BY <2>2, <2>3 DEF Sym
    <3>2. Sym(n, a) \in ToSet(<<Sym(m, b)>>) <=> Sym(n, a) = Sym(m, b)
      BY DEF ToSet
    <3>3. Sym(n, a) = Sym(m, b) <=> n = m /\ a = b
      BY DEF Sym
    <3>4. entries[k] = [name |-> n, addr |-> a, is_function |-> TRUE] <=> n = m /\ a = b
      <4>1. entries[k] = [name |-> m, addr |-> b, is_function |-> TRUE]
        BY <2>2, <2>3
      <4>2. ASSUME entries[k] = [name |-> n, addr |-> a, is_function |-> TRUE] PROVE n = m /\ a = b
        <5>1. entries[k].name = m /\ entries[k].addr = b
          BY <4>1
        <5>2. entries[k].name = n /\ entries[k].addr = a
          BY <4>2
        <5> QED BY <5>1, <5>2
      <4>3. ASSUME n = m, a = b PROVE entries[k] = [name |-> n, addr |-> a, is_function |-> TRUE]
        BY <4>1, <4>3, Zenon
      <4> QED BY <4>2, <4>3, Zenon
    <3> HIDE DEF Taken
    <3> QED BY <3>1, <3>2, <3>3, <3>4
  <2>4. CASE ~is \/ m = NoName
    <3>1. Taken(k) = <<>>
      BY <2>2, <2>4
    <3>2. Sym(n, a) \notin ToSet(<<>>)
      BY DEF ToSet
    <3> QED BY <2>1, <2>2, <2>4, <3>1, <3>2
  <2> QED BY <2>3, <2>4
<1> HIDE DEF s, Taken
<1>7. \A x : x \in ToSet(FlattenSeq(s)) <=> \E i \in 1..Len(s) : x \in ToSet(s[i])
  BY <1>3, FlattenSeqHas
<1>8. FlattenSeq(s) \in Seq(Symbol)
  BY <1>3, FlattenSeqHas
<1>9. DOMAIN entries = 1..Len(entries)
  OBVIOUS
<1> QED BY <1>3, <1>4, <1>5, <1>6, <1>7, <1>8, <1>9

\* The DWARF table has what DWARF tells of functions, up to the first unit that
\* cannot be read.
LEMMA DwarfHas ==
  ASSUME NEW f, IsFile(f)
  PROVE  /\ sylvan_sym_load_dwarf(f) \in Seq(Symbol)
         /\ \A n \in Name, a \in Address :
              Sym(n, a) \in ToSet(sylvan_sym_load_dwarf(f)) <=> a \in InDwarf(f, n)
<1> DEFINE d == f.dwarf
           I == {i \in 1..Len(d) : ~d[i].readable}
           bad == IF I # {} THEN Min(I) ELSE 0
           m == IF bad = 0 THEN Len(d) ELSE bad - 1
           s == [i \in 1..m |-> Functions(d[i].dies)]
<1>1. d \in Seq([readable : BOOLEAN, dies : Seq(Entry)]) /\ Len(d) \in Nat /\ DOMAIN d = 1..Len(d)
  BY DEF IsFile
<1>2. /\ bad \in 0..Len(d)
      /\ bad = 0 <=> I = {}
      /\ bad # 0 => bad \in I
      /\ \A i \in 1..Len(d) : i < bad \/ bad = 0 => i \notin I
  <2>1. I \in SUBSET (1..Len(d))
    OBVIOUS
  <2> HIDE DEF I
  <2> QED BY <1>1, <2>1, FirstIndex
<1>3. sylvan_sym_load_dwarf(f) = FlattenSeq(s)
  BY DEF sylvan_sym_load_dwarf, SelectInSeq
<1>4. m \in Nat /\ m <= Len(d)
  <2> HIDE DEF bad
  <2> QED BY <1>1, <1>2
<1>5. \A i \in 1..Len(d) : (i <= m) <=> \A j \in 1..i : d[j].readable
  <2> SUFFICES ASSUME NEW i \in 1..Len(d) PROVE (i <= m) <=> \A j \in 1..i : d[j].readable
    OBVIOUS
  <2>1. \A j \in 1..i : j \in 1..Len(d)
    BY <1>1
  <2>2. ASSUME i <= m PROVE \A j \in 1..i : d[j].readable
    <3>1. \A j \in 1..i : j < bad \/ bad = 0
      <4> HIDE DEF bad
      <4> QED BY <1>1, <1>2, <2>2
    <3>2. \A j \in 1..i : j \notin I
      <4> HIDE DEF bad, I
      <4> QED BY <1>2, <2>1, <3>1
    <3> QED BY <2>1, <3>2
  <2>3. ASSUME ~(i <= m) PROVE \E j \in 1..i : ~d[j].readable
    <3>1. bad \in I /\ bad \in 1..i
      <4> HIDE DEF bad, I
      <4> QED BY <1>1, <1>2, <2>3
    <3>2. ~d[bad].readable
      <4> HIDE DEF bad
      <4> QED BY <3>1
    <3> HIDE DEF bad
    <3> QED BY <3>1, <3>2
  <2> HIDE DEF m
  <2> QED BY <2>2, <2>3
<1> HIDE DEF m, bad, I
<1>6. \A i \in 1..Len(d) : d[i].dies \in Seq(Entry)
  <2> DEFINE CU == [readable : BOOLEAN, dies : Seq(Entry)]
  <2>1. d \in Seq(CU)
    BY <1>1
  <2> HIDE DEF d, CU
  <2>2. \A i \in 1..Len(d) : d[i] \in CU
    BY <2>1
  <2>3. \A x \in CU : x.dies \in Seq(Entry)
    BY DEF CU
  <2> QED BY <2>2, <2>3
<1>7. \A i \in 1..m : i \in 1..Len(d) /\ s[i] = Functions(d[i].dies) /\ s[i] \in Seq(Symbol)
  BY <1>1, <1>4, <1>6, FunctionsHas
<1>8. s \in Seq(Seq(Symbol)) /\ Len(s) = m
  BY <1>4, <1>7
<1> HIDE DEF s
<1>9. FlattenSeq(s) \in Seq(Symbol)
  BY <1>8, FlattenSeqHas
<1>10. ASSUME NEW n \in Name, NEW a \in Address
       PROVE  Sym(n, a) \in ToSet(FlattenSeq(s)) <=> a \in InDwarf(f, n)
  <2>1. Sym(n, a) \in ToSet(FlattenSeq(s)) <=> \E i \in 1..m : Sym(n, a) \in ToSet(Functions(d[i].dies))
    <3>1. Sym(n, a) \in ToSet(FlattenSeq(s)) <=> \E i \in 1..Len(s) : Sym(n, a) \in ToSet(s[i])
      BY <1>8, FlattenSeqHas
    <3> QED BY <1>7, <1>8, <3>1
  <2>2. \A i \in 1..Len(d) : Sym(n, a) \in ToSet(Functions(d[i].dies)) <=>
          \E k \in DOMAIN d[i].dies : d[i].dies[k] = [name |-> n, addr |-> a, is_function |-> TRUE]
    BY <1>6, FunctionsHas
  <2>3. a \in InDwarf(f, n) <=>
          \E i \in 1..Len(d) :
            /\ \A j \in 1..i : d[j].readable
            /\ \E k \in DOMAIN d[i].dies : d[i].dies[k] = [name |-> n, addr |-> a, is_function |-> TRUE]
    BY <1>1 DEF InDwarf
  <2>4. \A i : i \in 1..m <=> i \in 1..Len(d) /\ \A j \in 1..i : d[j].readable
    <3>1. \A i : i \in 1..m <=> i \in 1..Len(d) /\ i <= m
      BY <1>1, <1>4
    <3> QED BY <1>5, <3>1
  <2> HIDE DEF d
  <2> QED BY <2>1, <2>2, <2>3, <2>4
<1> QED BY <1>3, <1>9, <1>10

\* The ELF table has the functions in the symbol tables of the file.
LEMMA ElfHas ==
  ASSUME NEW f, IsFile(f)
  PROVE  /\ sylvan_sym_load_elf(f) \in Seq(Symbol)
         /\ \A n \in Name, a \in Address :
              Sym(n, a) \in ToSet(sylvan_sym_load_elf(f)) <=> a \in InElf(f, n)
<1> DEFINE e == f.sections
           Loaded(i) == e[i].type \in {"SYMTAB", "DYNSYM"}
           Part(i) == IF Loaded(i) THEN Functions(e[i].syms) ELSE <<>>
           s == [i \in 1..Len(e) |-> Part(i)]
<1>1. /\ e \in Seq([type : STRING, syms : Seq(Entry)]) /\ Len(e) \in Nat /\ DOMAIN e = 1..Len(e)
  BY DEF IsFile
<1>2. sylvan_sym_load_elf(f) = FlattenSeq(s)
  BY DEF sylvan_sym_load_elf
<1>3. \A i \in 1..Len(e) : e[i].syms \in Seq(Entry)
  <2> DEFINE Section == [type : STRING, syms : Seq(Entry)]
  <2>1. e \in Seq(Section)
    BY <1>1
  <2> HIDE DEF e, Section
  <2>2. \A i \in 1..Len(e) : e[i] \in Section
    BY <2>1
  <2>3. \A x \in Section : x.syms \in Seq(Entry)
    BY DEF Section
  <2> QED BY <2>2, <2>3
<1>4. \A i \in 1..Len(e) : s[i] = Part(i) /\ Part(i) \in Seq(Symbol)
  <2> HIDE DEF Loaded
  <2> QED BY <1>1, <1>3, FunctionsHas
<1>5. s \in Seq(Seq(Symbol)) /\ Len(s) = Len(e)
  <2>1. \A i \in 1..Len(e) : Part(i) \in Seq(Symbol)
    BY <1>4
  <2> HIDE DEF Part, e
  <2> QED BY <1>1, <2>1
<1>6. ASSUME NEW n \in Name, NEW a \in Address, NEW i \in 1..Len(e)
      PROVE  Sym(n, a) \in ToSet(Part(i)) <=>
               /\ Loaded(i)
               /\ \E k \in DOMAIN e[i].syms : e[i].syms[k] = [name |-> n, addr |-> a, is_function |-> TRUE]
  <2>1. Sym(n, a) \in ToSet(Functions(e[i].syms)) <=>
          \E k \in DOMAIN e[i].syms : e[i].syms[k] = [name |-> n, addr |-> a, is_function |-> TRUE]
    BY <1>3, FunctionsHas
  <2>2. Sym(n, a) \notin ToSet(<<>>)
    BY DEF ToSet
  <2> HIDE DEF Loaded
  <2> QED BY <2>1, <2>2
<1> HIDE DEF s, Part
<1>7. FlattenSeq(s) \in Seq(Symbol)
  BY <1>5, FlattenSeqHas
<1>8. ASSUME NEW n \in Name, NEW a \in Address
      PROVE  Sym(n, a) \in ToSet(FlattenSeq(s)) <=> a \in InElf(f, n)
  <2>1. Sym(n, a) \in ToSet(FlattenSeq(s)) <=> \E i \in 1..Len(e) : Sym(n, a) \in ToSet(Part(i))
    <3>1. Sym(n, a) \in ToSet(FlattenSeq(s)) <=> \E i \in 1..Len(s) : Sym(n, a) \in ToSet(s[i])
      BY <1>5, FlattenSeqHas
    <3> QED BY <1>4, <1>5, <3>1
  <2>2. a \in InElf(f, n) <=>
          \E i \in 1..Len(e) :
            /\ Loaded(i)
            /\ \E k \in DOMAIN e[i].syms : e[i].syms[k] = [name |-> n, addr |-> a, is_function |-> TRUE]
    BY <1>1 DEF InElf
  <2> HIDE DEF e, Loaded
  <2> QED BY <1>6, <2>1, <2>2
<1> QED BY <1>2, <1>7, <1>8

\* An entry that is put before the first one with a greater name.
LEMMA InsertSorted ==
  ASSUME NEW t \in Seq(Symbol), Sorted(t), NEW e \in Symbol
  PROVE  /\ Insert(t, e) \in Seq(Symbol)
         /\ Sorted(Insert(t, e))
         /\ \A x : x \in ToSet(Insert(t, e)) <=> x \in ToSet(t) \/ x = e
<1> DEFINE n == Len(t)
           I == {j \in 1..n : t[j].name > e.name}
           i == IF I # {} THEN Min(I) ELSE 0
           at == IF i = 0 THEN n + 1 ELSE i
           r == Insert(t, e)
<1>1. n \in Nat /\ DOMAIN t = 1..n /\ \A j \in 1..n : t[j] \in Symbol
  OBVIOUS
<1>2. \A s \in Symbol : s.name \in Nat
  BY SymbolsAssumption DEF Symbol
<1>3. /\ i \in 0..n
      /\ i = 0 <=> I = {}
      /\ i # 0 => i \in I
      /\ \A j \in 1..n : j < i \/ i = 0 => j \notin I
  <2>1. I \in SUBSET (1..n)
    OBVIOUS
  <2> HIDE DEF I, n
  <2> QED BY <1>1, <2>1, FirstIndex
<1>4. r = IF i = 0 THEN Append(t, e) ELSE InsertAt(t, i, e)
  BY DEF Insert, SelectInSeq
<1> HIDE DEF i
<1>5. at \in 1..(n + 1)
  BY <1>1, <1>3
<1>6. /\ r \in Seq(Symbol) /\ Len(r) = n + 1
      /\ \A j \in 1..(n + 1) : r[j] = IF j < at THEN t[j] ELSE IF j = at THEN e ELSE t[j - 1]
  <2>1. CASE i = 0
    BY <1>4, <2>1
  <2>2. CASE i # 0
    <3> DEFINE a == SubSeq(t, 1, i - 1)
               b == SubSeq(t, i, n)
    <3>1. i \in 1..n /\ at = i
      BY <1>1, <1>3, <2>2
    <3>2. /\ a \in Seq(Symbol) /\ Len(a) = i - 1 /\ \A j \in 1..(i - 1) : a[j] = t[j]
      BY <1>1, <3>1
    <3>3. /\ b \in Seq(Symbol) /\ Len(b) = (n - i) + 1 /\ \A j \in 1..((n - i) + 1) : b[j] = t[(i + j) - 1]
      BY <1>1, <3>1
    <3>4. r = a \o <<e>> \o b
      BY <1>4, <2>2 DEF InsertAt
    <3> HIDE DEF a, b, r
    <3> DEFINE ae == a \o <<e>>
    <3>5. /\ ae \in Seq(Symbol) /\ Len(ae) = i
          /\ \A j \in 1..i : ae[j] = IF j < i THEN t[j] ELSE e
      BY <3>1, <3>2
    <3>6. r = ae \o b
      BY <3>4
    <3> HIDE DEF ae
    <3>7. r \in Seq(Symbol) /\ Len(r) = n + 1
      <4>1. r \in Seq(Symbol) /\ Len(r) = Len(ae) + Len(b)
        BY <3>3, <3>5, <3>6
      <4> HIDE DEF n
      <4> QED BY <1>1, <3>1, <3>3, <3>5, <4>1
    <3>8. ASSUME NEW j \in 1..(n + 1)
          PROVE  r[j] = IF j < at THEN t[j] ELSE IF j = at THEN e ELSE t[j - 1]
      <4>1. CASE j <= i
        <5>1. j \in 1..i
          BY <1>1, <3>1, <4>1
        <5>2. r[j] = ae[j]
          BY <3>3, <3>5, <3>6, <5>1
        <5> QED BY <3>1, <3>5, <5>1, <5>2
      <4>2. CASE j > i
        <5>1. j - i \in 1..((n - i) + 1) /\ (i + (j - i)) - 1 = j - 1
          BY <1>1, <3>1, <4>2
        <5>2. r[j] = b[j - i]
          BY <3>1, <3>3, <3>5, <3>6, <4>2, <5>1
        <5> QED BY <3>1, <3>3, <4>2, <5>1, <5>2
      <4> QED BY <1>1, <3>1, <4>1, <4>2
    <3> QED BY <3>7, <3>8
  <2> QED BY <2>1, <2>2
<1> HIDE DEF r
<1>7. \A j \in 1..n : j < at <=> ~(t[j].name > e.name)
  <2> SUFFICES ASSUME NEW j \in 1..n PROVE j < at <=> ~(t[j].name > e.name)
    OBVIOUS
  <2>1. CASE j < at
    <3>1. j \notin I
      BY <1>1, <1>3, <2>1
    <3> QED BY <2>1, <3>1
  <2>2. CASE ~(j < at)
    <3>1. i # 0 /\ at = i /\ i \in 1..n /\ i <= j /\ t[i].name > e.name
      BY <1>1, <1>3, <2>2
    <3>2. t[i].name <= t[j].name
      <4>1. CASE i = j
        BY <1>1, <1>2, <4>1
      <4>2. CASE i < j
        BY <1>1, <3>1, <4>2 DEF Sorted
      <4> QED BY <3>1, <4>1, <4>2
    <3>3. t[i].name \in Nat /\ t[j].name \in Nat /\ e.name \in Nat
      BY <1>1, <1>2, <3>1
    <3> QED BY <2>2, <3>1, <3>2, <3>3
  <2> QED BY <2>1, <2>2
<1> HIDE DEF at
<1>8. Sorted(r)
  <2> SUFFICES ASSUME NEW j \in 1..(n + 1), NEW k \in 1..(n + 1), j < k
               PROVE  r[j].name <= r[k].name
    <3>1. DOMAIN r = 1..(n + 1)
      BY <1>6
    <3> QED BY <3>1 DEF Sorted
  <2>1. \A p, q \in 1..n : t[p].name \in Nat /\ e.name \in Nat /\ (p <= q => t[p].name <= t[q].name)
    <3>1. \A p \in 1..n : t[p].name \in Nat
      BY <1>1, <1>2
    <3>2. \A p, q \in 1..n : p < q => t[p].name <= t[q].name
      BY <1>1 DEF Sorted
    <3>3. e.name \in Nat
      BY <1>2
    <3>4. \A p, q \in 1..n : p <= q => p < q \/ p = q
      BY <1>1
    <3> QED BY <3>1, <3>2, <3>3, <3>4
  <2>2. CASE k < at
    <3>1. j \in 1..n /\ k \in 1..n /\ j < at
      BY <1>1, <1>5, <2>2
    <3> QED BY <1>6, <2>1, <2>2, <3>1
  <2>3. CASE k = at
    <3>1. j \in 1..n /\ j < at
      BY <1>1, <1>5, <2>3
    <3>2. r[j] = t[j] /\ r[k] = e
      BY <1>5, <1>6, <2>3, <3>1
    <3>3. ~(t[j].name > e.name)
      BY <1>7, <3>1
    <3> QED BY <2>1, <3>1, <3>2, <3>3
  <2>4. CASE k > at
    <3>1. k - 1 \in 1..n /\ k - 1 >= at /\ r[k] = t[k - 1]
      BY <1>1, <1>5, <1>6, <2>4
    <3>2. CASE j < at
      <4>1. j \in 1..n /\ j <= k - 1 /\ r[j] = t[j]
        BY <1>1, <1>5, <1>6, <3>1, <3>2
      <4> QED BY <2>1, <3>1, <4>1
    <3>3. CASE j = at
      <4>1. r[j] = e /\ t[k - 1].name > e.name
        BY <1>1, <1>5, <1>6, <1>7, <3>1, <3>3
      <4> QED BY <2>1, <3>1, <4>1
    <3>4. CASE j > at
      <4>1. j - 1 \in 1..n /\ j - 1 <= k - 1 /\ r[j] = t[j - 1]
        BY <1>1, <1>5, <1>6, <3>1, <3>4
      <4> QED BY <2>1, <3>1, <4>1
    <3> QED BY <1>5, <3>2, <3>3, <3>4
  <2> QED BY <1>5, <2>2, <2>3, <2>4
<1>9. ASSUME NEW x PROVE x \in ToSet(r) <=> x \in ToSet(t) \/ x = e
  <2>0. DOMAIN r = 1..(n + 1)
    BY <1>6
  <2>1. ASSUME x \in ToSet(r) PROVE x \in ToSet(t) \/ x = e
    <3>1. PICK j \in 1..(n + 1) : x = r[j]
      BY <2>0, <2>1 DEF ToSet
    <3>2. \/ j \in 1..n /\ x = t[j]
          \/ x = e
          \/ j - 1 \in 1..n /\ x = t[j - 1]
      BY <1>1, <1>5, <1>6, <3>1
    <3> QED BY <1>1, <3>2 DEF ToSet
  <2>2. ASSUME x \in ToSet(t) PROVE x \in ToSet(r)
    <3>1. PICK j \in 1..n : x = t[j]
      BY <1>1, <2>2 DEF ToSet
    <3>2. \E k \in 1..(n + 1) : x = r[k]
      <4>1. CASE j < at
        <5>1. j \in 1..(n + 1) /\ r[j] = t[j]
          BY <1>1, <1>6, <4>1
        <5> QED BY <3>1, <5>1
      <4>2. CASE ~(j < at)
        <5>1. j + 1 \in 1..(n + 1) /\ ~(j + 1 < at) /\ j + 1 # at /\ (j + 1) - 1 = j
          BY <1>1, <1>5, <4>2
        <5>2. r[j + 1] = t[j]
          BY <1>6, <5>1
        <5> QED BY <3>1, <5>1, <5>2
      <4> QED BY <4>1, <4>2
    <3> QED BY <2>0, <3>2 DEF ToSet
  <2>3. e \in ToSet(r)
    <3>1. at \in DOMAIN r /\ r[at] = e
      BY <1>5, <1>6, <2>0
    <3> QED BY <3>1 DEF ToSet
  <2> QED BY <2>1, <2>2, <2>3
<1> QED BY <1>6, <1>8, <1>9 DEF r

\* The states of the sort are a function of the entries put in so far.
LEMMA SortSteps ==
  ASSUME NEW t, Len(t) \in Nat
  PROVE  \E sorted :
           /\ sorted[0] = <<>>
           /\ \A n \in 1..Len(t) : sorted[n] = Insert(sorted[n - 1], t[n])
           /\ Sort(t) = sorted[Len(t)]
<1> DEFINE Rec(f, i) == IF i = 0 THEN <<>> ELSE Insert(f[i - 1], t[i])
           S == {n \in Nat : \E f : f = [i \in 0..n |-> Rec(f, i)]}
<1>1. 0 \in S
  <2> DEFINE f == [i \in 0..0 |-> <<>>]
  <2>1. f = [i \in 0..0 |-> Rec(f, i)]
    <3>1. \A i \in 0..0 : i = 0
      OBVIOUS
    <3> QED BY <3>1
  <2> QED BY <2>1
<1>2. ASSUME NEW n \in Nat, n \in S PROVE n + 1 \in S
  <2>1. PICK f : f = [i \in 0..n |-> Rec(f, i)]
    BY <1>2
  <2> DEFINE g == [i \in 0..(n + 1) |-> IF i = n + 1 THEN Rec(f, i) ELSE f[i]]
  <2>2. ASSUME NEW i \in 0..(n + 1) PROVE g[i] = Rec(g, i)
    <3>1. CASE i = 0
      <4>1. i \in 0..n /\ i # n + 1
        BY <3>1
      <4>2. f[i] = Rec(f, i)
        <5> HIDE DEF Rec
        <5> QED BY <2>1, <4>1
      <4>3. g[i] = f[i]
        BY <4>1
      <4> HIDE DEF g
      <4> QED BY <3>1, <4>2, <4>3
    <3>2. CASE i = n + 1
      <4>1. n \in 0..(n + 1) /\ n # n + 1 /\ i - 1 = n /\ i # 0
        BY <3>2
      <4>2. g[i] = Rec(f, i) /\ g[n] = f[n]
        BY <3>2, <4>1
      <4> HIDE DEF g
      <4> QED BY <3>2, <4>1, <4>2
    <3>3. CASE i \in 1..n
      <4>1. i \in 0..n /\ i - 1 \in 0..(n + 1) /\ i # 0 /\ i # n + 1 /\ i - 1 # n + 1
        BY <3>3
      <4>2. f[i] = Rec(f, i)
        <5> HIDE DEF Rec
        <5> QED BY <2>1, <4>1
      <4>3. g[i] = f[i] /\ g[i - 1] = f[i - 1]
        BY <4>1
      <4> HIDE DEF g
      <4> QED BY <4>1, <4>2, <4>3
    <3>4. i = 0 \/ i = n + 1 \/ i \in 1..n
      OBVIOUS
    <3> HIDE DEF g, Rec
    <3> QED BY <3>1, <3>2, <3>3, <3>4
  <2>3. g = [i \in 0..(n + 1) |-> Rec(g, i)]
    <3>1. \A i \in 0..(n + 1) : Rec(g, i) = IF i = n + 1 THEN Rec(f, i) ELSE f[i]
      BY <2>2
    <3> HIDE DEF Rec
    <3> QED BY <3>1, Zenon
  <2> HIDE DEF g, Rec
  <2> QED BY <2>3
<1>3. Len(t) \in S
  <2> HIDE DEF S
  <2> QED BY <1>1, <1>2, NatInd
<1> DEFINE sorted == CHOOSE f : f = [i \in 0..Len(t) |-> Rec(f, i)]
<1>4. sorted = [i \in 0..Len(t) |-> Rec(sorted, i)]
  BY <1>3
<1>5. Sort(t) = sorted[Len(t)]
  BY DEF Sort
<1> HIDE DEF sorted
<1>6. sorted[0] = <<>>
  BY <1>4
<1>7. ASSUME NEW n \in 1..Len(t) PROVE sorted[n] = Insert(sorted[n - 1], t[n])
  <2>1. n \in 0..Len(t) /\ n # 0
    OBVIOUS
  <2> QED BY <1>4, <2>1
<1> QED BY <1>5, <1>6, <1>7

\* Sorting a table changes the order of its entries only.
LEMMA SortSorts ==
  ASSUME NEW t \in Seq(Symbol)
  PROVE  /\ Sort(t) \in Seq(Symbol)
         /\ Sorted(Sort(t))
         /\ \A x : x \in ToSet(Sort(t)) <=> x \in ToSet(t)
<1>1. Len(t) \in Nat /\ DOMAIN t = 1..Len(t) /\ \A j \in 1..Len(t) : t[j] \in Symbol
  OBVIOUS
<1>2. PICK sorted : /\ sorted[0] = <<>>
                    /\ \A n \in 1..Len(t) : sorted[n] = Insert(sorted[n - 1], t[n])
                    /\ Sort(t) = sorted[Len(t)]
  BY <1>1, SortSteps
<1> DEFINE OK(n) == /\ sorted[n] \in Seq(Symbol)
                    /\ Sorted(sorted[n])
                    /\ \A x : x \in ToSet(sorted[n]) <=> \E i \in 1..n : x = t[i]
           S == {n \in Nat : n <= Len(t) => OK(n)}
<1>3. 0 \in S
  <2>1. sorted[0] \in Seq(Symbol) /\ Sorted(sorted[0])
    BY <1>2 DEF Sorted
  <2>2. \A x : x \notin ToSet(<<>>)
    BY DEF ToSet
  <2>3. \A i : i \notin 1..0
    OBVIOUS
  <2> QED BY <1>2, <2>1, <2>2, <2>3
<1>4. ASSUME NEW n \in Nat, n \in S PROVE n + 1 \in S
  <2> SUFFICES ASSUME n + 1 <= Len(t) PROVE OK(n + 1)
    <3> HIDE DEF OK
    <3> QED OBVIOUS
  <2>1. OK(n)
    <3> HIDE DEF OK
    <3> QED BY <1>1, <1>4
  <2>2. n + 1 \in 1..Len(t) /\ (n + 1) - 1 = n
    BY <1>1
  <2>3. sorted[n + 1] = Insert(sorted[n], t[n + 1]) /\ t[n + 1] \in Symbol
    BY <1>1, <1>2, <2>2
  <2>4. /\ sorted[n + 1] \in Seq(Symbol)
        /\ Sorted(sorted[n + 1])
        /\ \A x : x \in ToSet(sorted[n + 1]) <=> x \in ToSet(sorted[n]) \/ x = t[n + 1]
    BY <2>1, <2>3, InsertSorted
  <2>5. \A i : i \in 1..(n + 1) <=> i \in 1..n \/ i = n + 1
    OBVIOUS
  <2> QED BY <2>1, <2>4, <2>5
<1>5. OK(Len(t))
  <2>1. Len(t) \in S
    <3> HIDE DEF S
    <3> QED BY <1>1, <1>3, <1>4, NatInd
  <2> HIDE DEF OK
  <2> QED BY <1>1, <2>1
<1>6. \A x : x \in ToSet(t) <=> \E i \in 1..Len(t) : x = t[i]
  BY <1>1 DEF ToSet
<1> QED BY <1>2, <1>5, <1>6

\* What the tables of a file have: the names of its functions, and two sorted tables
\* when it is an ELF.
LEMMA TablesHave ==
  ASSUME NEW f, IsFile(f), NEW t, t = sylvan_sym_load_tables(f)
  PROVE  /\ t.dwarf \in Seq(Symbol) /\ t.elf \in Seq(Symbol)
         /\ \A n \in Name, a \in Address : Sym(n, a) \in ToSet(t.dwarf) <=> a \in InDwarf(f, n)
         /\ f.is_elf =>
              /\ t.code = "OK" /\ Sorted(t.dwarf) /\ Sorted(t.elf)
              /\ \A n \in Name, a \in Address : Sym(n, a) \in ToSet(t.elf) <=> a \in InElf(f, n)
         /\ ~f.is_elf => t.code = "ELF_FAILED" /\ t.elf = <<>>
<1> DEFINE d == sylvan_sym_load_dwarf(f)
           e == sylvan_sym_load_elf(f)
<1>1. /\ d \in Seq(Symbol)
      /\ \A n \in Name, a \in Address : Sym(n, a) \in ToSet(d) <=> a \in InDwarf(f, n)
  BY DwarfHas
<1>2. /\ e \in Seq(Symbol)
      /\ \A n \in Name, a \in Address : Sym(n, a) \in ToSet(e) <=> a \in InElf(f, n)
  BY ElfHas
<1>3. /\ t.dwarf = IF f.is_elf THEN Sort(d) ELSE d
      /\ t.elf = IF f.is_elf THEN Sort(e) ELSE <<>>
      /\ t.code = IF f.is_elf THEN "OK" ELSE "ELF_FAILED"
  BY DEF sylvan_sym_load_tables, Tables
<1> HIDE DEF d, e
<1>4. /\ Sort(d) \in Seq(Symbol) /\ Sorted(Sort(d))
      /\ \A x : x \in ToSet(Sort(d)) <=> x \in ToSet(d)
  BY <1>1, SortSorts
<1>5. /\ Sort(e) \in Seq(Symbol) /\ Sorted(Sort(e))
      /\ \A x : x \in ToSet(Sort(e)) <=> x \in ToSet(e)
  BY <1>2, SortSorts
<1>6. CASE f.is_elf
  <2>1. t.dwarf = Sort(d) /\ t.elf = Sort(e) /\ t.code = "OK"
    BY <1>3, <1>6
  <2> QED BY <1>1, <1>2, <1>4, <1>5, <1>6, <2>1
<1>7. CASE ~f.is_elf
  <2>1. t.dwarf = d /\ t.elf = <<>> /\ t.code = "ELF_FAILED"
    BY <1>3, <1>7
  <2>2. <<>> \in Seq(Symbol)
    OBVIOUS
  <2> QED BY <1>1, <1>7, <2>1, <2>2
<1> QED BY <1>6, <1>7

\* The addresses that the name n has in a table.
Hits(t, n) == {a \in Address : Sym(n, a) \in ToSet(t)}

\* A search in a table returns one of them, and misses none in a sorted one.
LEMMA LookupFinds ==
  ASSUME NEW t \in Seq(Symbol), NEW n \in Name
  PROVE  /\ sym_lookup(t, n) \subseteq Hits(t, n) \cup {NotFound}
         /\ Hits(t, n) = {} => sym_lookup(t, n) = {NotFound}
         /\ Sorted(t) /\ Hits(t, n) # {} => sym_lookup(t, n) = Hits(t, n)
<1> DEFINE hits == {t[i].addr : i \in {j \in DOMAIN t : t[j].name = n}}
<1>1. \A i \in DOMAIN t : t[i] \in Symbol
  OBVIOUS
<1>2. \A i \in DOMAIN t, a \in Address : t[i] = Sym(n, a) <=> t[i].name = n /\ t[i].addr = a
  BY <1>1 DEF Symbol, Sym
<1>3. hits = Hits(t, n)
  <2>1. ASSUME NEW a \in hits PROVE a \in Hits(t, n)
    <3>1. PICK i \in DOMAIN t : t[i].name = n /\ a = t[i].addr
      OBVIOUS
    <3>2. a \in Address
      BY <1>1, <3>1 DEF Symbol
    <3>3. t[i] = Sym(n, a)
      BY <1>2, <3>1, <3>2
    <3> QED BY <3>2, <3>3 DEF Hits, ToSet
  <2>2. ASSUME NEW a \in Hits(t, n) PROVE a \in hits
    <3>1. PICK i \in DOMAIN t : t[i] = Sym(n, a)
      BY DEF Hits, ToSet
    <3>2. t[i].name = n /\ t[i].addr = a
      BY <3>1 DEF Sym
    <3> QED BY <3>2
  <2> QED BY <2>1, <2>2
<1>4. sym_lookup(t, n) = hits \cup IF hits = {} \/ ~Sorted(t) THEN {NotFound} ELSE {}
  BY DEF sym_lookup
<1> HIDE DEF hits
<1> QED BY <1>3, <1>4

-----------------------------------------------------------------------------
(***************************************************************************)
(* The inductive invariant of Symbols: the tables are those of the file    *)
(* that they were loaded from, and complete if the call said so.           *)
(***************************************************************************)
FileLoaded == IF loaded.file = NoPath THEN Missing ELSE loaded.file

TablesOf(f) ==
  /\ dwarf_table = sylvan_sym_load_tables(f).dwarf
  /\ elf_table = sylvan_sym_load_tables(f).elf

SInv ==
  /\ TypeOK
  /\ TablesOf(FileLoaded)
  /\ loaded.ok => loaded.file = NoPath \/ FileLoaded.is_elf

\* Files are what the assumption says, and nothing can be read where there is none.
LEMMA Files ==
  /\ \A f \in File : IsFile(f)
  /\ Missing \in File /\ IsFile(Missing) /\ NoPath \notin File /\ NoPath \notin Path
  /\ ~Missing.is_elf
  /\ sylvan_sym_load_tables(Missing).dwarf = <<>> /\ sylvan_sym_load_tables(Missing).elf = <<>>
<1>1. \A f \in File : IsFile(f)
  BY SymbolsAssumption
<1>2. Missing \in File /\ NoPath \notin File /\ NoPath \notin Path
  BY SymbolsAssumption
<1>3. ~Missing.is_elf /\ Missing.dwarf = <<>>
  BY DEF Missing
<1>4. sylvan_sym_load_dwarf(Missing) = <<>>
  <2> DEFINE m == IF SelectInSeq(Missing.dwarf, LAMBDA cu : ~cu.readable) = 0
                    THEN Len(Missing.dwarf)
                    ELSE SelectInSeq(Missing.dwarf, LAMBDA cu : ~cu.readable) - 1
  <2>1. SelectInSeq(Missing.dwarf, LAMBDA cu : ~cu.readable) = 0
    BY <1>3 DEF SelectInSeq
  <2>2. m = 0
    BY <1>3, <2>1
  <2>3. sylvan_sym_load_dwarf(Missing) = FlattenSeq([i \in 1..m |-> Functions(Missing.dwarf[i].dies)])
    BY DEF sylvan_sym_load_dwarf
  <2> HIDE DEF m
  <2>4. [i \in 1..m |-> Functions(Missing.dwarf[i].dies)] = <<>>
    BY <2>2
  <2>5. FlattenSeq(<<>>) = <<>>
    BY DEF FlattenSeq
  <2> QED BY <2>3, <2>4, <2>5
<1>5. sylvan_sym_load_tables(Missing) = Tables(<<>>, <<>>, "ELF_FAILED")
  BY <1>3, <1>4 DEF sylvan_sym_load_tables
<1> QED BY <1>1, <1>2, <1>3, <1>5 DEF Tables

\* At the start there are no tables.
LEMMA SInit == Init => SInv
<1> SUFFICES ASSUME Init PROVE SInv
  OBVIOUS
<1>1. loaded.file = NoPath /\ FileLoaded = Missing
  BY DEF Init, FileLoaded
<1>2. TablesOf(FileLoaded)
  BY <1>1, Files DEF Init, TablesOf
<1>3. TypeOK
  BY DEF Init, TypeOK, Code
<1> QED BY <1>1, <1>2, <1>3 DEF SInv

\* Loading the tables of a path: inferior.c:299 and 675-682.
LEMMA LoadKeeps ==
  ASSUME SInv, NEW p \in Path \cup {NoPath}, LoadFrom(p)
  PROVE  SInv'
<1> DEFINE f == Content(p)
           t == sylvan_sym_load_tables(f)
<1>1. f \in File /\ IsFile(f)
  BY Files DEF Content, SInv, TypeOK
<1>2. /\ realpath' = p /\ dwarf_table' = t.dwarf /\ elf_table' = t.elf /\ code' = t.code
      /\ loaded' = [file |-> IF p = NoPath THEN NoPath ELSE disk[p], ok |-> t.code = "OK"]
      /\ disk' = disk
  BY DEF LoadFrom
<1>3. FileLoaded' = f
  <2>1. CASE p = NoPath
    BY <1>2, <2>1 DEF FileLoaded, Content
  <2>2. CASE p # NoPath
    BY <1>1, <1>2, <2>2, Files DEF FileLoaded, Content
  <2> QED BY <2>1, <2>2
<1>4. /\ t.dwarf \in Seq(Symbol) /\ t.elf \in Seq(Symbol)
      /\ f.is_elf \in BOOLEAN
      /\ f.is_elf => t.code = "OK"
      /\ ~f.is_elf => t.code = "ELF_FAILED"
  BY <1>1, TablesHave DEF IsFile
<1>5. t.code \in Code /\ (t.code = "OK" => f.is_elf)
  BY <1>4 DEF Code
<1>6. loaded'.file \in File \cup {NoPath} /\ loaded'.ok = (t.code = "OK")
  BY <1>1, <1>2 DEF Content
<1>7. TypeOK'
  <2>1. loaded' \in [file : File \cup {NoPath}, ok : BOOLEAN]
    BY <1>2, <1>6
  <2> HIDE DEF t, f
  <2> QED BY <1>2, <1>4, <1>5, <2>1 DEF TypeOK, SInv
<1>8. TablesOf(FileLoaded)'
  <2>1. dwarf_table' = sylvan_sym_load_tables(FileLoaded').dwarf
    BY <1>2, <1>3
  <2>2. elf_table' = sylvan_sym_load_tables(FileLoaded').elf
    BY <1>2, <1>3
  <2> QED BY <2>1, <2>2 DEF TablesOf
<1>9. loaded'.ok => FileLoaded'.is_elf
  BY <1>3, <1>5, <1>6
<1> QED BY <1>7, <1>8, <1>9 DEF SInv

\* A call that fails, or that only looks something up, changes the code it returns.
LEMMA FailKeeps ==
  ASSUME SInv, NEW c \in Code, Fails(c)
  PROVE  SInv'
<1>1. TypeOK'
  BY DEF Fails, SInv, TypeOK
<1>2. FileLoaded' = FileLoaded
  BY DEF Fails, FileLoaded
<1> QED BY <1>1, <1>2 DEF Fails, SInv, TablesOf

\* No step gives the inferior tables of another file.
LEMMA SNext == SInv /\ [Next]_vars => SInv'
<1> SUFFICES ASSUME SInv, [Next]_vars PROVE SInv'
  OBVIOUS
<1>1. ASSUME NEW w \in Word, sylvan_set_filepath(w) PROVE SInv'
  <2> DEFINE p == sylvan_canonical_path(w)
  <2>1. p \in Path \cup {NoPath}
    <3>1. Here[w] \in Path \cup {Denied} /\ InPATH[w] \in Seq(Path)
      BY SymbolsAssumption
    <3>2. sylvan_find_in_PATH(w) \in Path \cup {NoPath}
      <4> DEFINE I == {i \in 1..Len(InPATH[w]) : disk[InPATH[w][i]].kind = "exec"}
                 k == IF I # {} THEN Min(I) ELSE 0
      <4>1. k # 0 => k \in 1..Len(InPATH[w])
        <5>1. I \in SUBSET (1..Len(InPATH[w])) /\ Len(InPATH[w]) \in Nat
          BY <3>1
        <5> HIDE DEF I
        <5> QED BY <5>1, FirstIndex
      <4>2. sylvan_find_in_PATH(w) = IF k = 0 THEN NoPath ELSE InPATH[w][k]
        BY DEF sylvan_find_in_PATH, SelectInSeq
      <4> HIDE DEF k
      <4> QED BY <3>1, <4>1, <4>2
    <3> QED BY <3>1, <3>2 DEF sylvan_canonical_path
  <2> HIDE DEF p
  <2>2. CASE \E c \in Code : Fails(c)
    BY <2>2, FailKeeps
  <2>3. CASE LoadFrom(p)
    BY <2>1, <2>3, LoadKeeps
  <2>4. (\E c \in Code : Fails(c)) \/ LoadFrom(p)
    <3>1. /\ "SYSTEM_ERROR" \in Code /\ "FILE_NOT_FOUND" \in Code /\ "NOT_EXECUTABLE" \in Code
      BY DEF Code
    <3> QED BY <1>1, <3>1 DEF sylvan_set_filepath, p
  <2> QED BY <2>2, <2>3, <2>4
<1>2. ASSUME NEW p \in Path \cup {NoPath}, sylvan_attach(p) PROVE SInv'
  <2> DEFINE q == IF Content(p).kind = "missing" THEN NoPath ELSE p
  <2>1. q \in Path \cup {NoPath} /\ LoadFrom(q)
    BY <1>2 DEF sylvan_attach
  <2> HIDE DEF q
  <2> QED BY <2>1, LoadKeeps
<1>3. ASSUME ReplaceInferior PROVE SInv'
  <2>1. loaded'.file = NoPath /\ FileLoaded' = Missing
    BY <1>3 DEF ReplaceInferior, FileLoaded
  <2>2. TypeOK'
    BY <1>3 DEF ReplaceInferior, SInv, TypeOK, Code
  <2>3. dwarf_table' = <<>> /\ elf_table' = <<>>
    BY <1>3 DEF ReplaceInferior
  <2>4. TablesOf(FileLoaded)'
    BY <2>1, <2>3, Files DEF TablesOf
  <2> QED BY <2>1, <2>2, <2>4 DEF SInv
<1>4. ASSUME NEW n \in Name, sylvan_set_breakpoint_function(n) PROVE SInv'
  <2>1. \E c \in Code : Fails(c)
    BY <1>4 DEF sylvan_set_breakpoint_function, Code
  <2> QED BY <2>1, FailKeeps
<1>5. ASSUME NEW p \in Path, Rebuild(p) PROVE SInv'
  <2>1. TypeOK'
    BY <1>5 DEF Rebuild, SInv, TypeOK
  <2>2. FileLoaded' = FileLoaded
    BY <1>5 DEF Rebuild, FileLoaded
  <2> QED BY <1>5, <2>1, <2>2 DEF Rebuild, SInv, TablesOf
<1>6. ASSUME UNCHANGED vars PROVE SInv'
  <2>1. TypeOK'
    BY <1>6 DEF vars, SInv, TypeOK
  <2>2. FileLoaded' = FileLoaded
    BY <1>6 DEF vars, FileLoaded
  <2> QED BY <1>6, <2>1, <2>2 DEF vars, SInv, TablesOf
<1> QED BY <1>1, <1>2, <1>3, <1>4, <1>5, <1>6 DEF Next

\* What the name of a function means.
LEMMA LabelsMean ==
  ASSUME SInv, NEW n \in Name
  PROVE  /\ sylvan_get_label_addr(n) \subseteq Labels(loaded.file, n) \cup {NotFound}
         /\ loaded.ok => sylvan_get_label_addr(n) =
                           IF Labels(loaded.file, n) = {} THEN {NotFound} ELSE Labels(loaded.file, n)
<1> DEFINE f == FileLoaded
           d == sym_lookup(dwarf_table, n)
           e == sym_lookup(elf_table, n)
<1>1. f \in File /\ IsFile(f) /\ f.is_elf \in BOOLEAN
  BY Files DEF FileLoaded, SInv, TypeOK, IsFile
<1>2. /\ dwarf_table \in Seq(Symbol) /\ elf_table \in Seq(Symbol)
      /\ \A a \in Address : Sym(n, a) \in ToSet(dwarf_table) <=> a \in InDwarf(f, n)
      /\ f.is_elf =>
           /\ Sorted(dwarf_table) /\ Sorted(elf_table)
           /\ \A a \in Address : Sym(n, a) \in ToSet(elf_table) <=> a \in InElf(f, n)
      /\ ~f.is_elf => elf_table = <<>>
  <2> DEFINE t == sylvan_sym_load_tables(f)
  <2>1. dwarf_table = t.dwarf /\ elf_table = t.elf
    BY DEF SInv, TablesOf
  <2>2. TypeOK
    BY DEF SInv
  <2> HIDE DEF f
  <2>3. /\ t.dwarf \in Seq(Symbol) /\ t.elf \in Seq(Symbol)
        /\ \A m \in Name, a \in Address : Sym(m, a) \in ToSet(t.dwarf) <=> a \in InDwarf(f, m)
        /\ f.is_elf =>
             /\ t.code = "OK" /\ Sorted(t.dwarf) /\ Sorted(t.elf)
             /\ \A m \in Name, a \in Address : Sym(m, a) \in ToSet(t.elf) <=> a \in InElf(f, m)
        /\ ~f.is_elf => t.code = "ELF_FAILED" /\ t.elf = <<>>
    BY <1>1, TablesHave
  <2> HIDE DEF t
  <2> QED BY <2>1, <2>3
<1>3. Hits(dwarf_table, n) = InDwarf(f, n)
  <2>1. InDwarf(f, n) \subseteq Address
    BY DEF InDwarf
  <2> QED BY <1>2, <2>1 DEF Hits
<1>4. f.is_elf => Hits(elf_table, n) = InElf(f, n)
  <2>1. InElf(f, n) \subseteq Address
    BY DEF InElf
  <2> QED BY <1>2, <2>1 DEF Hits
<1>5. ~f.is_elf => Hits(elf_table, n) = {}
  BY <1>2 DEF Hits, ToSet
<1>6. /\ d \subseteq InDwarf(f, n) \cup {NotFound}
      /\ InDwarf(f, n) = {} => d = {NotFound}
      /\ f.is_elf /\ InDwarf(f, n) # {} => d = InDwarf(f, n)
  BY <1>2, <1>3, LookupFinds
<1>7. /\ f.is_elf /\ InElf(f, n) = {} => e = {NotFound}
      /\ f.is_elf /\ InElf(f, n) # {} => e = InElf(f, n)
      /\ ~f.is_elf => e = {NotFound}
  BY <1>2, <1>4, <1>5, LookupFinds
<1>8. sylvan_get_label_addr(n) = (d \ {NotFound}) \cup IF NotFound \in d THEN e ELSE {}
  BY DEF sylvan_get_label_addr
<1>9. NotFound \notin InDwarf(f, n) /\ NotFound \notin InElf(f, n)
  BY SymbolsAssumption DEF InDwarf, InElf
<1> HIDE DEF d, e
<1>10. CASE loaded.file = NoPath
  <2>1. f = Missing /\ Labels(loaded.file, n) = {}
    BY <1>10 DEF FileLoaded, Labels
  <2>2. InDwarf(f, n) = {}
    BY <2>1 DEF InDwarf, Missing
  <2>3. sylvan_get_label_addr(n) = {NotFound}
    BY <1>6, <1>7, <1>8, <2>1, <2>2, Files
  <2> QED BY <2>1, <2>3
<1>11. CASE loaded.file # NoPath
  <2>1. f = loaded.file /\ (loaded.ok => f.is_elf)
    BY <1>11 DEF FileLoaded, SInv
  <2>2. Labels(loaded.file, n) = IF InDwarf(f, n) # {} THEN InDwarf(f, n) ELSE InElf(f, n)
    BY <1>11, <2>1 DEF Labels
  <2>3. CASE f.is_elf
    <3>1. sylvan_get_label_addr(n) =
            IF Labels(loaded.file, n) = {} THEN {NotFound} ELSE Labels(loaded.file, n)
      <4>1. CASE InDwarf(f, n) = {}
        BY <1>6, <1>7, <1>8, <1>9, <2>2, <2>3, <4>1
      <4>2. CASE InDwarf(f, n) # {}
        BY <1>6, <1>8, <1>9, <2>2, <2>3, <4>2
      <4> QED BY <4>1, <4>2
    <3> QED BY <3>1
  <2>4. CASE ~f.is_elf
    <3>1. sylvan_get_label_addr(n) \subseteq InDwarf(f, n) \cup {NotFound}
      BY <1>6, <1>7, <1>8, <2>4
    <3>2. InDwarf(f, n) \subseteq Labels(loaded.file, n)
      BY <2>2
    <3> QED BY <2>1, <2>4, <3>1, <3>2
  <2> QED BY <2>3, <2>4
<1> QED BY <1>10, <1>11

-----------------------------------------------------------------------------
(***************************************************************************)
(* The decoder (disassemble.c:211-282).                                    *)
(***************************************************************************)

\* How long the instruction at offset o is, whether the buffer has all of it, and the
\* instruction that is shown, when the buffer starts at address a.
LengthAt(buffer, o) == Length[buffer[o + 1]]

Fits(buffer, o) == o < Len(buffer) /\ LengthAt(buffer, o) # 0 /\ o + LengthAt(buffer, o) <= Len(buffer)

InstructionAt(buffer, a, o) ==
  Instruction(a + o, SubSeq(buffer, o + 1, o + LengthAt(buffer, o)))

\* The bytes of a buffer start instructions of some length.
LEMMA Lengths ==
  ASSUME NEW buffer \in Seq(DOMAIN Length), NEW o \in 0..Len(buffer)
  PROVE  /\ Len(buffer) \in Nat
         /\ o < Len(buffer) => buffer[o + 1] \in DOMAIN Length /\ LengthAt(buffer, o) \in 0..Window
         /\ Fits(buffer, o) => /\ LengthAt(buffer, o) \in Nat \ {0}
                               /\ o + LengthAt(buffer, o) \in (o + 1)..Len(buffer)
<1>1. Len(buffer) \in Nat /\ o \in Nat /\ Window \in Nat
  BY DisassemblyAssumption
<1>2. ASSUME o < Len(buffer)
      PROVE  buffer[o + 1] \in DOMAIN Length /\ LengthAt(buffer, o) \in 0..Window
  <2>1. o + 1 \in 1..Len(buffer)
    BY <1>1, <1>2
  <2>2. buffer[o + 1] \in DOMAIN Length
    BY <2>1
  <2> QED BY <2>2, DisassemblyAssumption DEF LengthAt
<1>3. ASSUME Fits(buffer, o)
      PROVE  /\ LengthAt(buffer, o) \in Nat \ {0}
             /\ o + LengthAt(buffer, o) \in (o + 1)..Len(buffer)
  BY <1>1, <1>2, <1>3 DEF Fits
<1> QED BY <1>1, <1>2, <1>3

\* The loop, from each offset on.
LEMMA DecodedSteps ==
  ASSUME NEW buffer \in Seq(DOMAIN Length), NEW a, NEW size
  PROVE  \E from :
           /\ \A o \in 0..Len(buffer) :
                from[o] = IF Fits(buffer, o)
                            THEN <<InstructionAt(buffer, a, o)>>
                                   \o (IF StopsAt(size, buffer[o + 1]) THEN <<>>
                                       ELSE from[o + LengthAt(buffer, o)])
                            ELSE <<>>
           /\ Decoded(buffer, a, size) = from[0]
<1> DEFINE n == Len(buffer)
           Orig(f, o) ==
             LET len == Length[buffer[o + 1]]
             IN  IF o = n THEN <<>>
                 ELSE IF len = 0 \/ o + len > n THEN <<>>
                 ELSE <<Instruction(a + o, SubSeq(buffer, o + 1, o + len))>>
                        \o (IF StopsAt(size, buffer[o + 1]) THEN <<>> ELSE f[o + len])
           Rest(f, o) == IF StopsAt(size, buffer[o + 1]) THEN <<>> ELSE f[o + LengthAt(buffer, o)]
           Rec(f, o) == IF Fits(buffer, o) THEN <<InstructionAt(buffer, a, o)>> \o Rest(f, o) ELSE <<>>
           S == {m \in Nat : m <= n => \E f : f = [o \in (n - m)..n |-> Rec(f, o)]}
<1>1. n \in Nat
  OBVIOUS
<1>2. ASSUME NEW f, NEW o \in 0..n PROVE Orig(f, o) = Rec(f, o)
  <2>1. CASE o = n
    BY <1>1, <2>1 DEF Fits
  <2>2. CASE o # n
    <3>1. o < n /\ LengthAt(buffer, o) \in 0..Window /\ Window \in Nat
      BY <1>1, <2>2, Lengths, DisassemblyAssumption
    <3>2. Fits(buffer, o) <=> ~(LengthAt(buffer, o) = 0 \/ o + LengthAt(buffer, o) > n)
      BY <1>1, <3>1 DEF Fits
    <3> QED BY <2>2, <3>2 DEF LengthAt, InstructionAt
  <2> QED BY <2>1, <2>2
<1> HIDE DEF Orig
<1>3. 0 \in S
  <2> DEFINE f == [o \in n..n |-> <<>>]
  <2>1. \A o \in n..n : o = n /\ ~Fits(buffer, o)
    BY <1>1 DEF Fits
  <2>2. f = [o \in n..n |-> Rec(f, o)]
    <3>1. \A o \in n..n : Rec(f, o) = <<>>
      <4> HIDE DEF f
      <4> QED BY <2>1
    <3> HIDE DEF Rec
    <3> QED BY <3>1, Zenon
  <2>3. n - 0 = n
    BY <1>1
  <2> HIDE DEF f, Rec
  <2> QED BY <2>2, <2>3
<1>4. ASSUME NEW m \in Nat, m \in S PROVE m + 1 \in S
  <2> SUFFICES ASSUME m + 1 <= n PROVE \E g : g = [o \in (n - (m + 1))..n |-> Rec(g, o)]
    <3> HIDE DEF Rec
    <3> QED OBVIOUS
  <2>1. PICK f : f = [o \in (n - m)..n |-> Rec(f, o)]
    <3> HIDE DEF Rec
    <3> QED BY <1>1, <1>4
  <2> DEFINE k == n - (m + 1)
             g == [o \in k..n |-> IF o = k THEN Rec(f, o) ELSE f[o]]
  <2>2. k \in Nat /\ k < n /\ n - m = k + 1
    BY <1>1
  <2>3. \A o \in (k + 1)..n : o \in k..n /\ o # k /\ o \in 0..n
    <3> HIDE DEF k, n
    <3> QED BY <1>1, <2>2
  <2>4. \A o \in (k + 1)..n : g[o] = f[o] /\ f[o] = Rec(f, o)
    <3>1. \A o \in (k + 1)..n : f[o] = Rec(f, o)
      <4> HIDE DEF Rec, k
      <4> QED BY <2>1, <2>2
    <3>2. \A o \in (k + 1)..n : g[o] = f[o]
      <4> HIDE DEF Rec, k
      <4> QED BY <2>3
    <3> QED BY <3>1, <3>2
  <2>5. g[k] = Rec(f, k)
    <3>1. k \in k..n
      BY <1>1, <2>2
    <3> HIDE DEF Rec, k
    <3> QED BY <3>1
  <2> HIDE DEF g
  <2>6. ASSUME NEW o \in k..n PROVE Rec(g, o) = Rec(f, o)
    <3>1. CASE ~Fits(buffer, o)
      BY <3>1
    <3>2. CASE Fits(buffer, o)
      <4>1. o \in 0..Len(buffer)
        BY <1>1, <2>2
      <4>2. o + LengthAt(buffer, o) \in (o + 1)..n
        BY <3>2, <4>1, Lengths
      <4>3. o + LengthAt(buffer, o) \in (k + 1)..n
        BY <1>1, <2>2, <4>2
      <4>4. g[o + LengthAt(buffer, o)] = f[o + LengthAt(buffer, o)]
        BY <2>4, <4>3
      <4>5. Rest(g, o) = Rest(f, o)
        BY <4>4
      <4> HIDE DEF Rest
      <4> QED BY <4>5
    <3> QED BY <3>1, <3>2
  <2>7. g = [o \in k..n |-> Rec(g, o)]
    <3>1. \A o \in k..n : Rec(g, o) = g[o]
      <4>1. \A o \in k..n : o = k \/ o \in (k + 1)..n
        <5> HIDE DEF k, n
        <5> QED BY <1>1, <2>2
      <4> HIDE DEF Rec, k
      <4> QED BY <2>4, <2>5, <2>6, <4>1
    <3>2. g = [o \in k..n |-> g[o]]
      BY DEF g
    <3> HIDE DEF Rec, k
    <3> QED BY <3>1, <3>2, Zenon
  <2> HIDE DEF Rec
  <2> QED BY <2>7
<1>5. n \in S
  <2> HIDE DEF S
  <2> QED BY <1>1, <1>3, <1>4, NatInd
<1>6. \E f : f = [o \in 0..n |-> Orig(f, o)]
  <2>1. PICK f : f = [o \in (n - n)..n |-> Rec(f, o)]
    <3> HIDE DEF Rec
    <3> QED BY <1>1, <1>5
  <2>2. n - n = 0
    BY <1>1
  <2>3. [o \in 0..n |-> Rec(f, o)] = [o \in 0..n |-> Orig(f, o)]
    <3> HIDE DEF Rec
    <3> QED BY <1>2
  <2> HIDE DEF Rec
  <2> QED BY <2>1, <2>2, <2>3
<1> DEFINE from == CHOOSE f : f = [o \in 0..n |-> Orig(f, o)]
<1>7. from = [o \in 0..n |-> Orig(from, o)]
  BY <1>6
<1>8. Decoded(buffer, a, size) = from[0]
  BY DEF Decoded, Orig
<1> HIDE DEF from
<1>9. \A o \in 0..n : from[o] = Rec(from, o)
  <2> HIDE DEF Rec
  <2> QED BY <1>2, <1>7
<1> QED BY <1>8, <1>9

Shown == [addr : Nat, bytes : Seq(DOMAIN Length)]

\* What the loop shows from offset o on: instructions of the buffer one after another,
\* up to one that it stops at or up to what is not an instruction.
Shows(is, buffer, a, size, o) ==
  /\ is \in Seq(Shown)
  /\ is # <<>> <=> Fits(buffer, o)
  /\ is # <<>> => is[1].addr = a + o
  /\ \A i \in DOMAIN is : \E p \in 0..(Len(buffer) - 1) :
       /\ Fits(buffer, p) /\ is[i] = InstructionAt(buffer, a, p)
       /\ i < Len(is) => /\ is[i + 1].addr = a + p + LengthAt(buffer, p)
                         /\ ~StopsAt(size, buffer[p + 1])
       /\ i = Len(is) => StopsAt(size, buffer[p + 1]) \/ ~Fits(buffer, p + LengthAt(buffer, p))

\* One instruction, and then those that follow it unless the loop stops there.
LEMMA ShowsStep ==
  ASSUME NEW buffer \in Seq(DOMAIN Length), NEW a \in Nat, NEW size, NEW o \in 0..Len(buffer),
         Fits(buffer, o), NEW rest,
         IF StopsAt(size, buffer[o + 1])
           THEN rest = <<>>
           ELSE Shows(rest, buffer, a, size, o + LengthAt(buffer, o))
  PROVE  Shows(<<InstructionAt(buffer, a, o)>> \o rest, buffer, a, size, o)
<1> DEFINE n == Len(buffer)
           first == InstructionAt(buffer, a, o)
           is == <<first>> \o rest
           next == o + LengthAt(buffer, o)
<1>1. n \in Nat /\ o \in 0..(n - 1) /\ LengthAt(buffer, o) \in Nat \ {0} /\ next \in (o + 1)..n
  BY Lengths DEF Fits
<1>2. first \in Shown /\ first.addr = a + o
  <2>1. SubSeq(buffer, o + 1, next) \in Seq(DOMAIN Length)
    BY <1>1
  <2> QED BY <1>1, <2>1 DEF Shown, InstructionAt, Instruction
<1>3. rest \in Seq(Shown)
  <2>1. <<>> \in Seq(Shown)
    OBVIOUS
  <2> QED BY <2>1 DEF Shows
<1> HIDE DEF first
<1>4. /\ is \in Seq(Shown) /\ Len(rest) \in Nat /\ Len(is) = Len(rest) + 1
      /\ DOMAIN is = 1..(Len(rest) + 1) /\ DOMAIN rest = 1..Len(rest)
  BY <1>2, <1>3
<1>5. /\ is[1] = first
      /\ \A i \in 1..Len(rest) : is[i + 1] = rest[i]
  BY <1>2, <1>3
<1> HIDE DEF is
<1>6. is # <<>> /\ is[1].addr = a + o
  BY <1>2, <1>4, <1>5
<1>7. ASSUME NEW i \in DOMAIN is
      PROVE  \E p \in 0..(n - 1) :
               /\ Fits(buffer, p) /\ is[i] = InstructionAt(buffer, a, p)
               /\ i < Len(is) => /\ is[i + 1].addr = a + p + LengthAt(buffer, p)
                                 /\ ~StopsAt(size, buffer[p + 1])
               /\ i = Len(is) => StopsAt(size, buffer[p + 1]) \/ ~Fits(buffer, p + LengthAt(buffer, p))
  <2>1. CASE i = 1
    <3>1. is[i] = InstructionAt(buffer, a, o)
      BY <1>5, <2>1 DEF first
    <3>2. ASSUME i < Len(is)
          PROVE  is[i + 1].addr = a + o + LengthAt(buffer, o) /\ ~StopsAt(size, buffer[o + 1])
      <4>1. Len(rest) # 0 /\ 1 \in 1..Len(rest) /\ rest # <<>>
        BY <1>3, <1>4, <2>1, <3>2
      <4>2. ~StopsAt(size, buffer[o + 1])
        BY <4>1
      <4>3. rest[1].addr = a + next
        BY <4>1, <4>2 DEF Shows
      <4>4. is[i + 1] = rest[1]
        BY <1>5, <2>1, <4>1
      <4>5. a + next = a + o + LengthAt(buffer, o)
        BY <1>1
      <4> QED BY <4>2, <4>3, <4>4, <4>5
    <3>3. ASSUME i = Len(is), ~StopsAt(size, buffer[o + 1])
          PROVE  ~Fits(buffer, o + LengthAt(buffer, o))
      <4>1. rest = <<>>
        BY <1>3, <1>4, <2>1, <3>3
      <4> QED BY <3>3, <4>1 DEF Shows
    <3> QED BY <1>1, <3>1, <3>2, <3>3
  <2>2. CASE i # 1
    <3> DEFINE j == i - 1
    <3>1. j \in DOMAIN rest /\ i = j + 1 /\ rest # <<>> /\ j \in 1..Len(rest)
      BY <1>3, <1>4, <2>2
    <3>2. Shows(rest, buffer, a, size, next)
      BY <3>1
    <3> HIDE DEF j
    <3>3. PICK p \in 0..(n - 1) :
            /\ Fits(buffer, p) /\ rest[j] = InstructionAt(buffer, a, p)
            /\ j < Len(rest) => /\ rest[j + 1].addr = a + p + LengthAt(buffer, p)
                                /\ ~StopsAt(size, buffer[p + 1])
            /\ j = Len(rest) => StopsAt(size, buffer[p + 1]) \/ ~Fits(buffer, p + LengthAt(buffer, p))
      BY <3>1, <3>2 DEF Shows
    <3>4. is[i] = rest[j] /\ (j < Len(rest) => is[i + 1] = rest[j + 1])
      BY <1>4, <1>5, <3>1
    <3>5. (i < Len(is) <=> j < Len(rest)) /\ (i = Len(is) <=> j = Len(rest))
      BY <1>4, <3>1
    <3> QED BY <3>3, <3>4, <3>5
  <2> QED BY <2>1, <2>2
<1> QED BY <1>4, <1>6, <1>7 DEF Shows, is, first

\* The whole listing of a buffer.
LEMMA DecodedShows ==
  ASSUME NEW buffer \in Seq(DOMAIN Length), NEW a \in Nat, NEW size
  PROVE  Shows(Decoded(buffer, a, size), buffer, a, size, 0)
<1> DEFINE n == Len(buffer)
           Rest(f, o) == IF StopsAt(size, buffer[o + 1]) THEN <<>> ELSE f[o + LengthAt(buffer, o)]
<1>1. PICK from :
        /\ \A o \in 0..n : from[o] = IF Fits(buffer, o)
                                       THEN <<InstructionAt(buffer, a, o)>> \o Rest(from, o)
                                       ELSE <<>>
        /\ Decoded(buffer, a, size) = from[0]
  BY DecodedSteps
<1> DEFINE S == {m \in Nat : \A o \in 0..n : n - o <= m => Shows(from[o], buffer, a, size, o)}
<1>2. n \in Nat
  OBVIOUS
<1>3. ASSUME NEW o \in 0..n, ~Fits(buffer, o) PROVE Shows(from[o], buffer, a, size, o)
  <2>1. from[o] = <<>>
    BY <1>1, <1>3
  <2>2. <<>> \in Seq(Shown) /\ \A i : i \notin DOMAIN <<>>
    OBVIOUS
  <2> QED BY <1>3, <2>1, <2>2 DEF Shows
<1>4. 0 \in S
  <2>1. \A o \in 0..n : n - o <= 0 => ~Fits(buffer, o)
    BY <1>2 DEF Fits
  <2> QED BY <1>3, <2>1
<1>5. ASSUME NEW m \in Nat, m \in S PROVE m + 1 \in S
  <2> SUFFICES ASSUME NEW o \in 0..n, n - o <= m + 1, Fits(buffer, o)
               PROVE  Shows(from[o], buffer, a, size, o)
    BY <1>3
  <2> DEFINE next == o + LengthAt(buffer, o)
             rest == Rest(from, o)
  <2>1. next \in (o + 1)..n
    BY Lengths
  <2>2. next \in 0..n /\ n - next <= m
    BY <1>2, <2>1
  <2>3. Shows(from[next], buffer, a, size, next)
    <3> HIDE DEF next
    <3> QED BY <1>5, <2>2
  <2>4. IF StopsAt(size, buffer[o + 1])
          THEN rest = <<>>
          ELSE Shows(rest, buffer, a, size, o + LengthAt(buffer, o))
    BY <2>3
  <2>5. from[o] = <<InstructionAt(buffer, a, o)>> \o rest
    <3> HIDE DEF Rest
    <3> QED BY <1>1
  <2> HIDE DEF rest, Rest
  <2> QED BY <2>4, <2>5, ShowsStep
<1>6. Shows(from[0], buffer, a, size, 0)
  <2>1. n \in S
    <3> HIDE DEF S
    <3> QED BY <1>2, <1>4, <1>5, NatInd
  <2>2. 0 \in 0..n /\ n - 0 <= n
    BY <1>2
  <2> QED BY <2>1, <2>2
<1> QED BY <1>1, <1>6

-----------------------------------------------------------------------------
(***************************************************************************)
(* Addresses and file offsets (disassemble.c:32-75 and 161-207).           *)
(***************************************************************************)

\* What disassemble reads: how many bytes, from where, and those.
BufferLength(f, a, size) == Clipped(size, get_file_offset_from_vaddr(f, a).max_size)

BufferOffset(f, a) == get_file_offset_from_vaddr(f, a).file_offset

Buffer(f, a, size) ==
  SubSeq(f.bytes, BufferOffset(f, a) + 1, BufferOffset(f, a) + BufferLength(f, a, size))

Refused(f, a, size) ==
  \/ ~f.is_elf \/ SegmentOf(f, a) = 0
  \/ BufferLength(f, a, size) >= SizeMod \div 2
  \/ BufferOffset(f, a) + BufferLength(f, a, size) > Len(f.bytes)

\* The parts of the handler, by name.
LEMMA DisassembleIs ==
  ASSUME NEW f, NEW n, NEW a, NEW size
  PROVE  LET is == Decoded(Buffer(f, a, size), a, size)
         IN  disassemble(f, n, a, size) =
               IF Refused(f, a, size) \/ (BufferLength(f, a, size) # 0 /\ is = <<>>)
                 THEN NoListing
                 ELSE Listing(n, a, is)
BY DEF disassemble, Buffer, BufferLength, BufferOffset, Refused

\* The constants as numbers, and the segments of a file.
LEMMA Segments ==
  ASSUME NEW f \in File
  PROVE  /\ f.segments \in Seq(Segment) /\ Len(f.segments) \in Nat
         /\ DOMAIN f.segments = 1..Len(f.segments)
         /\ \A i \in DOMAIN f.segments :
              /\ f.segments[i].load \in BOOLEAN /\ f.segments[i].vaddr \in Nat
              /\ f.segments[i].offset \in Nat /\ f.segments[i].memsz \in Nat
              /\ f.segments[i].filesz \in 0..(SizeMod - 1)
              /\ f.segments[i].filesz <= f.segments[i].memsz
         /\ f.bytes \in Seq(DOMAIN Length) /\ Len(f.bytes) \in Nat
         /\ SizeMod \in Nat \ {0} /\ Window \in Nat \ {0} /\ SizeMod \div 2 > Window
<1> DEFINE g == f.segments
<1>1. IsProgram(f)
  BY DisassemblyAssumption
<1>2. g \in Seq(Segment) /\ f.bytes \in Seq(DOMAIN Length)
  BY <1>1 DEF IsProgram
<1>3. \A i \in DOMAIN g : g[i].filesz <= g[i].memsz
  BY <1>1 DEF IsProgram
<1> HIDE DEF g
<1>4. Len(g) \in Nat /\ DOMAIN g = 1..Len(g) /\ \A i \in DOMAIN g : g[i] \in Segment
  BY <1>2
<1>5. \A p \in Segment : /\ p.load \in BOOLEAN /\ p.vaddr \in Nat /\ p.offset \in Nat /\ p.memsz \in Nat
                         /\ p.filesz \in 0..(SizeMod - 1)
  BY DEF Segment
<1>6. SizeMod \in Nat \ {0} /\ Window \in Nat \ {0} /\ SizeMod \div 2 > Window
  BY DisassemblyAssumption
<1>7. Len(f.bytes) \in Nat
  BY <1>2
<1> QED BY <1>2, <1>3, <1>4, <1>5, <1>6, <1>7 DEF g

\* SegmentOf finds a loaded segment that has the address in memory, if there is one.
LEMMA SegmentIs ==
  ASSUME NEW f \in File, NEW a \in Nat
  PROVE  /\ SegmentOf(f, a) # 0 =>
              /\ SegmentOf(f, a) \in DOMAIN f.segments
              /\ f.segments[SegmentOf(f, a)].load
              /\ f.segments[SegmentOf(f, a)].vaddr <= a
              /\ a < f.segments[SegmentOf(f, a)].vaddr + f.segments[SegmentOf(f, a)].memsz
         /\ \A i \in DOMAIN f.segments : InSegment(f, i, a) => SegmentOf(f, a) = i
<1> DEFINE g == f.segments
           I == {i \in 1..Len(g) : g[i].load /\ g[i].vaddr <= a /\ a < g[i].vaddr + g[i].memsz}
           k == IF I # {} THEN Min(I) ELSE 0
<1>1. SegmentOf(f, a) = k
  BY DEF SegmentOf, SelectInSeq
<1>2. Len(g) \in Nat /\ DOMAIN g = 1..Len(g)
  BY Segments
<1>3. k \in 0..Len(g) /\ (k = 0 <=> I = {}) /\ (k # 0 => k \in I)
  <2>1. I \in SUBSET (1..Len(g))
    OBVIOUS
  <2> HIDE DEF I, g
  <2> QED BY <1>2, <2>1, FirstIndex
<1> HIDE DEF k
<1>4. k # 0 => k \in DOMAIN g /\ g[k].load /\ g[k].vaddr <= a /\ a < g[k].vaddr + g[k].memsz
  BY <1>2, <1>3
<1>5. ASSUME NEW i \in DOMAIN g, InSegment(f, i, a) PROVE k = i
  <2>1. g[i].load /\ g[i].vaddr <= a /\ a < g[i].vaddr + g[i].memsz
    <3>1. g[i].vaddr \in Nat /\ g[i].filesz \in Nat /\ g[i].memsz \in Nat /\ g[i].filesz <= g[i].memsz
      BY Segments
    <3>2. g[i].load /\ a - g[i].vaddr \in 0..(g[i].filesz - 1)
      BY <1>5 DEF InSegment
    <3> HIDE DEF g
    <3> QED BY <3>1, <3>2
  <2>2. i \in I /\ k # 0
    BY <1>2, <1>3, <2>1
  <2>3. ASSUME k # i PROVE FALSE
    <3>1. Disjoint(g[k], g[i])
      BY <1>4, <2>1, <2>2, <2>3, DisassemblyAssumption DEF IsProgram
    <3>2. g[k].vaddr \in Nat /\ g[k].memsz \in Nat /\ g[i].vaddr \in Nat /\ g[i].memsz \in Nat
      BY <1>4, <2>2, Segments
    <3> QED BY <1>4, <2>1, <2>2, <3>1, <3>2 DEF Disjoint
  <2> QED BY <2>3
<1> QED BY <1>1, <1>4, <1>5

\* What is read is read from the file, and no more than was asked for.
LEMMA BufferTypes ==
  ASSUME NEW f \in File, NEW a \in Nat, NEW size \in {0, Window}, SegmentOf(f, a) # 0
  PROVE  /\ BufferOffset(f, a) \in Nat /\ BufferLength(f, a, size) \in Nat
         /\ size = Window => BufferLength(f, a, size) <= Window
         /\ BufferOffset(f, a) + BufferLength(f, a, size) <= Len(f.bytes) =>
              /\ Buffer(f, a, size) \in Seq(DOMAIN Length)
              /\ Len(Buffer(f, a, size)) = BufferLength(f, a, size)
              /\ \A o \in 1..BufferLength(f, a, size) :
                   Buffer(f, a, size)[o] = f.bytes[BufferOffset(f, a) + o]
<1> DEFINE p == f.segments[SegmentOf(f, a)]
           fo == BufferOffset(f, a)
           len == BufferLength(f, a, size)
           max == (SizeMod + p.filesz - (a - p.vaddr)) % SizeMod
<1>1. /\ p.vaddr \in Nat /\ p.offset \in Nat /\ p.filesz \in Nat /\ p.vaddr <= a
      /\ SizeMod \in Nat \ {0} /\ Window \in Nat \ {0}
  BY Segments, SegmentIs
<1>2. fo = p.offset + (a - p.vaddr) /\ len = Clipped(size, max)
  BY DEF BufferOffset, BufferLength, get_file_offset_from_vaddr
<1>3. max \in 0..(SizeMod - 1)
  <2>1. SizeMod + p.filesz - (a - p.vaddr) \in Int
    BY <1>1
  <2> QED BY <1>1, <2>1
<1> HIDE DEF p, max
<1>4. fo \in Nat /\ len \in Nat /\ (size = Window => len <= Window)
  BY <1>1, <1>2, <1>3 DEF Clipped
<1>5. f.bytes \in Seq(DOMAIN Length) /\ Len(f.bytes) \in Nat
  BY Segments
<1>6. ASSUME fo + len <= Len(f.bytes)
      PROVE  /\ Buffer(f, a, size) \in Seq(DOMAIN Length)
             /\ Len(Buffer(f, a, size)) = len
             /\ \A o \in 1..len : Buffer(f, a, size)[o] = f.bytes[fo + o]
  <2> DEFINE b == f.bytes
  <2>1. Buffer(f, a, size) = SubSeq(b, fo + 1, fo + len)
    BY DEF Buffer
  <2>2. b \in Seq(DOMAIN Length) /\ Len(b) \in Nat /\ fo + len <= Len(b)
    BY <1>5, <1>6
  <2> HIDE DEF fo, len, b
  <2>3. /\ SubSeq(b, fo + 1, fo + len) \in Seq(DOMAIN Length)
        /\ Len(SubSeq(b, fo + 1, fo + len)) = len
        /\ \A o \in 1..len : SubSeq(b, fo + 1, fo + len)[o] = b[fo + o]
    BY <1>4, <2>2
  <2> QED BY <2>1, <2>3 DEF b
<1> QED BY <1>4, <1>6

\* From an address that the file has, the bytes that are read are those of the segment.
LEMMA BufferIsSegment ==
  ASSUME NEW f \in File, NEW a \in Nat, NEW size \in {0, Window},
         NEW i \in DOMAIN f.segments, InSegment(f, i, a)
  PROVE  LET p == f.segments[i]
             left == p.filesz - (a - p.vaddr)
         IN  /\ SegmentOf(f, a) = i /\ left \in Nat \ {0}
             /\ BufferLength(f, a, size) = IF size = 0 \/ size > left THEN left ELSE size
             /\ BufferLength(f, a, size) \in 1..left
             /\ BufferOffset(f, a) + left = p.offset + p.filesz
             /\ \A o \in 0..(left - 1) :
                  /\ InSegment(f, i, a + o)
                  /\ ByteAt(f, i, a + o) = f.bytes[BufferOffset(f, a) + (o + 1)]
             /\ \A o \in Nat : InSegment(f, i, a + o) => o < left
<1> DEFINE p == f.segments[i]
           left == p.filesz - (a - p.vaddr)
<1>1. SegmentOf(f, a) = i
  BY SegmentIs
<1>2. /\ p.load /\ p.vaddr \in Nat /\ p.offset \in Nat /\ p.filesz \in 0..(SizeMod - 1)
      /\ SizeMod \in Nat \ {0} /\ Window \in Nat \ {0}
  BY Segments DEF InSegment
<1>3. a - p.vaddr \in 0..(p.filesz - 1)
  BY DEF InSegment
<1>4. /\ BufferOffset(f, a) = p.offset + (a - p.vaddr)
      /\ BufferLength(f, a, size) = Clipped(size, (SizeMod + p.filesz - (a - p.vaddr)) % SizeMod)
  BY <1>1 DEF BufferOffset, BufferLength, get_file_offset_from_vaddr
<1>5. \A b \in Int : InSegment(f, i, b) <=> b - p.vaddr \in 0..(p.filesz - 1)
  BY <1>2 DEF InSegment
<1>6. \A b \in Int : ByteAt(f, i, b) = f.bytes[p.offset + (b - p.vaddr) + 1]
  BY DEF ByteAt
<1> HIDE DEF p
<1>7. left \in 1..(SizeMod - 1)
  BY <1>2, <1>3
<1>8. (SizeMod + p.filesz - (a - p.vaddr)) % SizeMod = left
  <2>1. SizeMod + p.filesz - (a - p.vaddr) = SizeMod + left
    BY <1>2, <1>3
  <2>2. \A x \in 0..(SizeMod - 1) : (SizeMod + x) % SizeMod = x
    BY <1>2
  <2>3. left \in 0..(SizeMod - 1)
    BY <1>2, <1>7
  <2> HIDE DEF left
  <2> QED BY <2>1, <2>2, <2>3
<1>9. /\ BufferLength(f, a, size) = IF size = 0 \/ size > left THEN left ELSE size
      /\ BufferLength(f, a, size) \in 1..left
  <2> HIDE DEF left
  <2> QED BY <1>2, <1>4, <1>7, <1>8 DEF Clipped
<1>10. BufferOffset(f, a) + left = p.offset + p.filesz
  BY <1>2, <1>3, <1>4
<1>11. ASSUME NEW o \in 0..(left - 1)
       PROVE  /\ InSegment(f, i, a + o)
              /\ ByteAt(f, i, a + o) = f.bytes[BufferOffset(f, a) + (o + 1)]
  <2>1. a + o \in Int /\ (a + o) - p.vaddr \in 0..(p.filesz - 1)
    BY <1>2, <1>3, <1>7
  <2>2. p.offset + ((a + o) - p.vaddr) + 1 = BufferOffset(f, a) + (o + 1)
    <3>1. o \in Int /\ p.offset \in Int /\ p.vaddr \in Int
      BY <1>2, <1>7
    <3>2. BufferOffset(f, a) = p.offset + (a - p.vaddr)
      BY <1>4
    <3> QED BY <3>1, <3>2
  <2> QED BY <1>5, <1>6, <2>1, <2>2
<1>12. ASSUME NEW o \in Nat, InSegment(f, i, a + o) PROVE o < left
  <2>1. (a + o) - p.vaddr \in 0..(p.filesz - 1)
    BY <1>5, <1>12
  <2> QED BY <1>2, <1>3, <2>1
<1> QED BY <1>1, <1>7, <1>9, <1>10, <1>11, <1>12 DEF p

\* A listing that is not refused shows what Decoded finds in the buffer.
LEMMA DisassembleShows ==
  ASSUME NEW f \in File, NEW n, NEW a \in Nat, NEW size \in {0, Window},
         NEW l, l = disassemble(f, n, a, size), l # NoListing
  PROVE  /\ SegmentOf(f, a) # 0
         /\ BufferOffset(f, a) + BufferLength(f, a, size) <= Len(f.bytes)
         /\ l.name = n /\ l.start = a /\ l.ok
         /\ Shows(l.instructions, Buffer(f, a, size), a, size, 0)
<1> DEFINE is == Decoded(Buffer(f, a, size), a, size)
<1>1. ~Refused(f, a, size) /\ l = Listing(n, a, is)
  BY DisassembleIs
<1>2. SegmentOf(f, a) # 0
  BY <1>1 DEF Refused
<1>3. BufferOffset(f, a) \in Nat /\ BufferLength(f, a, size) \in Nat /\ Len(f.bytes) \in Nat
  BY <1>2, BufferTypes, Segments
<1>4. BufferOffset(f, a) + BufferLength(f, a, size) <= Len(f.bytes)
  BY <1>1, <1>3 DEF Refused
<1>5. Buffer(f, a, size) \in Seq(DOMAIN Length)
  BY <1>2, <1>4, BufferTypes
<1>6. Shows(is, Buffer(f, a, size), a, size, 0)
  BY <1>5, DecodedShows
<1> HIDE DEF is
<1>7. l.name = n /\ l.start = a /\ l.ok /\ l.instructions = is
  BY <1>1 DEF Listing
<1> QED BY <1>2, <1>4, <1>6, <1>7

-----------------------------------------------------------------------------
(***************************************************************************)
(* What a listing says of a program: the properties of Disassembly, of a   *)
(* file and a listing of it.                                               *)
(***************************************************************************)
Types(l) ==
  /\ l.name \in Name \cup {NoName} /\ l.ok \in BOOLEAN
  /\ \A i \in DOMAIN l.instructions :
       Len(l.instructions[i].bytes) = Length[l.instructions[i].bytes[1]]

Lists(f, l) ==
  LET is == l.instructions
  IN  InFile(f, l.start) =>
        /\ is # <<>> => is[1].addr = l.start
        /\ \A i \in DOMAIN is :
             /\ i > 1 => is[i].addr = After(is, i - 1)
             /\ \A k \in DOMAIN is[i].bytes : HasByte(f, is[i].addr + k - 1, is[i].bytes[k])

UpToRet(f, l) ==
  LET is == l.instructions
  IN  l.name # NoName /\ InFile(f, l.start) =>
        /\ \A i \in DOMAIN is : i < Len(is) => is[i].bytes[1] \notin Ret
        /\ is # <<>> => \/ is[Len(is)].bytes[1] \in Ret
                        \/ \A i \in DOMAIN f.segments :
                             InSegment(f, i, l.start) => ~InstructionIn(f, i, After(is, Len(is)))

\* A listing that failed.
LEMMA NothingListed ==
  ASSUME NEW f
  PROVE  Types(NoListing) /\ Lists(f, NoListing) /\ UpToRet(f, NoListing) /\ NoListing.name = NoName
<1>1. /\ NoListing.name = NoName /\ NoListing.ok = FALSE /\ NoListing.instructions = <<>>
  BY DEF NoListing
<1>2. \A i : i \notin DOMAIN <<>>
  OBVIOUS
<1> QED BY <1>1, <1>2 DEF Types, Lists, UpToRet

\* What is shown at offset p: the bytes of the buffer from there on.
IsInstruction(ins, buffer, a, p) ==
  /\ LengthAt(buffer, p) \in Nat \ {0} /\ p + LengthAt(buffer, p) \in 1..Len(buffer)
  /\ ins.addr = a + p
  /\ ins.bytes \in Seq(DOMAIN Length) /\ Len(ins.bytes) = LengthAt(buffer, p)
  /\ \A k \in 1..LengthAt(buffer, p) : p + k \in 1..Len(buffer) /\ ins.bytes[k] = buffer[p + k]

\* An instruction that fits into the buffer is that.
LEMMA InstructionBytes ==
  ASSUME NEW buffer \in Seq(DOMAIN Length), NEW a \in Nat, NEW p \in 0..(Len(buffer) - 1),
         Fits(buffer, p)
  PROVE  IsInstruction(InstructionAt(buffer, a, p), buffer, a, p)
<1> DEFINE ins == InstructionAt(buffer, a, p)
<1> DEFINE len == LengthAt(buffer, p)
<1>1. p \in 0..Len(buffer) /\ p \in Nat /\ Len(buffer) \in Nat
  OBVIOUS
<1>2. len \in Nat \ {0} /\ p + len \in (p + 1)..Len(buffer)
  BY <1>1, Lengths
<1>3. ins.addr = a + p /\ ins.bytes = SubSeq(buffer, p + 1, p + len)
  BY DEF InstructionAt, Instruction
<1> HIDE DEF len, ins
<1>4. /\ SubSeq(buffer, p + 1, p + len) \in Seq(DOMAIN Length)
      /\ Len(SubSeq(buffer, p + 1, p + len)) = len
      /\ \A k \in 1..len : SubSeq(buffer, p + 1, p + len)[k] = buffer[p + k]
  BY <1>1, <1>2
<1>5. \A k \in 1..len : p + k \in 1..Len(buffer)
  BY <1>1, <1>2
<1>6. p + len \in 1..Len(buffer)
  BY <1>1, <1>2
<1>7. IsInstruction(ins, buffer, a, p)
  BY <1>2, <1>3, <1>4, <1>5, <1>6 DEF IsInstruction, len
<1> QED BY <1>7 DEF ins

\* A listing shows whole instructions.
LEMMA ListingTypes ==
  ASSUME NEW f \in File, NEW n \in Name \cup {NoName}, NEW a \in Nat, NEW size \in {0, Window},
         NEW l, l = disassemble(f, n, a, size), l # NoListing
  PROVE  Types(l)
<1> DEFINE is == l.instructions
           buffer == Buffer(f, a, size)
<1>1. /\ SegmentOf(f, a) # 0
      /\ BufferOffset(f, a) + BufferLength(f, a, size) <= Len(f.bytes)
      /\ l.name = n /\ l.ok
      /\ Shows(is, buffer, a, size, 0)
  BY DisassembleShows
<1>2. buffer \in Seq(DOMAIN Length)
  BY <1>1, BufferTypes
<1>3. l.ok = TRUE
  <2>1. l = Listing(n, a, Decoded(Buffer(f, a, size), a, size))
    BY DisassembleIs
  <2> QED BY <2>1 DEF Listing
<1> HIDE DEF is, buffer
<1>4. ASSUME NEW i \in DOMAIN is PROVE Len(is[i].bytes) = Length[is[i].bytes[1]]
  <2>1. PICK p \in 0..(Len(buffer) - 1) : Fits(buffer, p) /\ is[i] = InstructionAt(buffer, a, p)
    BY <1>1 DEF Shows
  <2> DEFINE len == LengthAt(buffer, p)
  <2>2. IsInstruction(is[i], buffer, a, p)
    BY <1>2, <2>1, InstructionBytes
  <2>3. 1 \in 1..len
    BY <2>2 DEF IsInstruction
  <2>4. is[i].bytes[1] = buffer[p + 1] /\ Len(is[i].bytes) = len
    BY <2>2, <2>3 DEF IsInstruction
  <2> QED BY <2>4 DEF LengthAt
<1> QED BY <1>1, <1>3, <1>4 DEF Types, is

\* A listing shows the program's bytes at their addresses, without a gap.
LEMMA ListingLists ==
  ASSUME NEW f \in File, NEW n \in Name \cup {NoName}, NEW a \in Nat, NEW size \in {0, Window},
         NEW l, l = disassemble(f, n, a, size), l # NoListing
  PROVE  Lists(f, l)
<1> DEFINE is == l.instructions
           buffer == Buffer(f, a, size)
           n0 == Len(buffer)
<1>1. /\ SegmentOf(f, a) # 0
      /\ BufferOffset(f, a) + BufferLength(f, a, size) <= Len(f.bytes)
      /\ l.start = a
      /\ Shows(is, buffer, a, size, 0)
  BY DisassembleShows
<1>2. /\ buffer \in Seq(DOMAIN Length) /\ n0 = BufferLength(f, a, size) /\ n0 \in Nat
      /\ \A o \in 1..n0 : buffer[o] = f.bytes[BufferOffset(f, a) + o]
  BY <1>1, BufferTypes
<1> SUFFICES ASSUME InFile(f, a)
             PROVE  /\ is # <<>> => is[1].addr = a
                    /\ \A i \in DOMAIN is :
                         /\ i > 1 => is[i].addr = After(is, i - 1)
                         /\ \A k \in DOMAIN is[i].bytes : HasByte(f, is[i].addr + k - 1, is[i].bytes[k])
  BY <1>1 DEF Lists
<1>3. PICK s \in DOMAIN f.segments : InSegment(f, s, a)
  BY DEF InFile
<1> DEFINE left == f.segments[s].filesz - (a - f.segments[s].vaddr)
<1>4. /\ left \in Nat \ {0} /\ n0 <= left
      /\ \A o \in 0..(left - 1) :
           /\ InSegment(f, s, a + o)
           /\ ByteAt(f, s, a + o) = f.bytes[BufferOffset(f, a) + (o + 1)]
  <2>1. /\ left \in Nat \ {0} /\ BufferLength(f, a, size) \in 1..left
        /\ \A o \in 0..(left - 1) :
             /\ InSegment(f, s, a + o)
             /\ ByteAt(f, s, a + o) = f.bytes[BufferOffset(f, a) + (o + 1)]
    BY <1>3, BufferIsSegment
  <2> HIDE DEF left, n0
  <2> QED BY <1>2, <2>1
<1> HIDE DEF is, buffer, left
<1>5. ASSUME NEW o \in 1..n0 PROVE HasByte(f, a + (o - 1), buffer[o])
  <2>1. o - 1 \in 0..(left - 1) /\ (o - 1) + 1 = o
    BY <1>2, <1>4
  <2>2. InSegment(f, s, a + (o - 1)) /\ ByteAt(f, s, a + (o - 1)) = buffer[o]
    BY <1>2, <1>4, <2>1
  <2> QED BY <2>2 DEF HasByte
<1>6. is # <<>> => is[1].addr = a
  BY <1>1 DEF Shows
<1>7. is \in Seq(Shown) /\ Len(is) \in Nat /\ DOMAIN is = 1..Len(is)
  BY <1>1 DEF Shows
<1>8. ASSUME NEW i \in DOMAIN is, i > 1 PROVE is[i].addr = After(is, i - 1)
  <2>1. i - 1 \in DOMAIN is /\ i - 1 < Len(is) /\ (i - 1) + 1 = i
    BY <1>7, <1>8
  <2> DEFINE j == i - 1
  <2>2. PICK p \in 0..(n0 - 1) :
          /\ Fits(buffer, p) /\ is[j] = InstructionAt(buffer, a, p)
          /\ j < Len(is) => is[j + 1].addr = a + p + LengthAt(buffer, p)
    BY <1>1, <2>1 DEF Shows
  <2>3. IsInstruction(is[j], buffer, a, p)
    BY <1>2, <2>2, InstructionBytes
  <2>4. is[j].addr = a + p /\ Len(is[j].bytes) = LengthAt(buffer, p)
    BY <2>3 DEF IsInstruction
  <2> QED BY <2>1, <2>2, <2>4 DEF After
<1>9. ASSUME NEW i \in DOMAIN is, NEW k \in DOMAIN is[i].bytes
      PROVE  HasByte(f, is[i].addr + k - 1, is[i].bytes[k])
  <2>1. PICK p \in 0..(n0 - 1) : Fits(buffer, p) /\ is[i] = InstructionAt(buffer, a, p)
    BY <1>1 DEF Shows
  <2> DEFINE len == LengthAt(buffer, p)
  <2>2. IsInstruction(is[i], buffer, a, p)
    BY <1>2, <2>1, InstructionBytes
  <2>3. k \in 1..len /\ p + k \in 1..n0 /\ is[i].bytes[k] = buffer[p + k] /\ is[i].addr = a + p
    <3>1. k \in 1..Len(is[i].bytes) /\ Len(is[i].bytes) = len
      BY <2>2 DEF IsInstruction
    <3> QED BY <2>2, <3>1 DEF IsInstruction
  <2> HIDE DEF len
  <2>4. a + ((p + k) - 1) = is[i].addr + k - 1
    BY <2>3
  <2> QED BY <1>5, <2>3, <2>4
<1> QED BY <1>6, <1>8, <1>9

\* A function is listed up to its ret, or as far as its segment has instructions.
LEMMA ListingUpToRet ==
  ASSUME NEW f \in File, NEW n \in Name \cup {NoName}, NEW a \in Nat, NEW size \in {0, Window},
         n # NoName => size = 0,
         NEW l, l = disassemble(f, n, a, size), l # NoListing
  PROVE  UpToRet(f, l)
<1> DEFINE is == l.instructions
           buffer == Buffer(f, a, size)
           n0 == Len(buffer)
<1>1. /\ SegmentOf(f, a) # 0
      /\ BufferOffset(f, a) + BufferLength(f, a, size) <= Len(f.bytes)
      /\ l.name = n /\ l.start = a
      /\ Shows(is, buffer, a, size, 0)
  BY DisassembleShows
<1>2. /\ buffer \in Seq(DOMAIN Length) /\ n0 = BufferLength(f, a, size) /\ n0 \in Nat
      /\ \A o \in 1..n0 : buffer[o] = f.bytes[BufferOffset(f, a) + o]
  BY <1>1, BufferTypes
<1> SUFFICES ASSUME n # NoName
             PROVE  /\ \A i \in DOMAIN is : i < Len(is) => is[i].bytes[1] \notin Ret
                    /\ is # <<>> => \/ is[Len(is)].bytes[1] \in Ret
                                    \/ \A s \in DOMAIN f.segments :
                                         InSegment(f, s, a) => ~InstructionIn(f, s, After(is, Len(is)))
  BY <1>1 DEF UpToRet
<1>3. size = 0
  OBVIOUS
<1> HIDE DEF is, buffer
<1>4. is \in Seq(Shown) /\ Len(is) \in Nat /\ DOMAIN is = 1..Len(is)
  BY <1>1 DEF Shows
<1>5. ASSUME NEW i \in DOMAIN is
      PROVE  \E p \in 0..(n0 - 1) :
               /\ Fits(buffer, p)
               /\ is[i].bytes[1] = buffer[p + 1]
               /\ LengthAt(buffer, p) \in Nat \ {0} /\ p + LengthAt(buffer, p) \in 1..n0
               /\ After(is, i) = a + (p + LengthAt(buffer, p))
               /\ i < Len(is) => buffer[p + 1] \notin Ret
               /\ i = Len(is) => buffer[p + 1] \in Ret \/ ~Fits(buffer, p + LengthAt(buffer, p))
  <2>1. PICK p \in 0..(n0 - 1) :
          /\ Fits(buffer, p) /\ is[i] = InstructionAt(buffer, a, p)
          /\ i < Len(is) => ~StopsAt(size, buffer[p + 1])
          /\ i = Len(is) => StopsAt(size, buffer[p + 1]) \/ ~Fits(buffer, p + LengthAt(buffer, p))
    BY <1>1 DEF Shows
  <2> DEFINE len == LengthAt(buffer, p)
  <2>2. IsInstruction(is[i], buffer, a, p)
    BY <1>2, <2>1, InstructionBytes
  <2>3. StopsAt(size, buffer[p + 1]) <=> buffer[p + 1] \in Ret
    BY <1>3 DEF StopsAt
  <2>4. /\ len \in Nat \ {0} /\ p + len \in 1..n0
        /\ is[i].addr = a + p /\ Len(is[i].bytes) = len
    BY <2>2 DEF IsInstruction
  <2>5. is[i].bytes[1] = buffer[p + 1]
    <3>1. 1 \in 1..len
      BY <2>4
    <3> QED BY <2>2, <3>1 DEF IsInstruction
  <2>6. After(is, i) = a + (p + len)
    <3> HIDE DEF len
    <3> QED BY <2>4 DEF After
  <2> QED BY <2>1, <2>3, <2>4, <2>5, <2>6
<1>6. ASSUME NEW i \in DOMAIN is, i < Len(is) PROVE is[i].bytes[1] \notin Ret
  BY <1>5, <1>6
<1>7. ASSUME is # <<>>, is[Len(is)].bytes[1] \notin Ret,
             NEW s \in DOMAIN f.segments, InSegment(f, s, a)
      PROVE  ~InstructionIn(f, s, After(is, Len(is)))
  <2>1. Len(is) \in DOMAIN is
    BY <1>4, <1>7
  <2>2. PICK q \in 1..n0 : After(is, Len(is)) = a + q /\ ~Fits(buffer, q)
    <3>1. PICK p \in 0..(n0 - 1) :
            /\ is[Len(is)].bytes[1] = buffer[p + 1]
            /\ p + LengthAt(buffer, p) \in 1..n0
            /\ After(is, Len(is)) = a + (p + LengthAt(buffer, p))
            /\ buffer[p + 1] \in Ret \/ ~Fits(buffer, p + LengthAt(buffer, p))
      BY <1>5, <2>1
    <3> QED BY <1>7, <3>1
  <2> DEFINE left == f.segments[s].filesz - (a - f.segments[s].vaddr)
  <2>3. /\ left \in Nat \ {0} /\ n0 = left
        /\ \A o \in 0..(left - 1) : ByteAt(f, s, a + o) = f.bytes[BufferOffset(f, a) + (o + 1)]
        /\ \A o \in Nat : InSegment(f, s, a + o) => o < left
    BY <1>2, <1>3, <1>7, BufferIsSegment
  <2> HIDE DEF left, n0
  <2> SUFFICES ASSUME InstructionIn(f, s, a + q) PROVE FALSE
    BY <2>2
  <2> DEFINE len == Length[ByteAt(f, s, a + q)]
  <2>4. q \in Nat /\ InSegment(f, s, a + q) /\ len > 0 /\ InSegment(f, s, a + q + len - 1)
    BY <1>2 DEF InstructionIn
  <2>5. q < left /\ q \in 0..(left - 1) /\ q + 1 \in 1..n0
    BY <2>3, <2>4
  <2>6. ByteAt(f, s, a + q) = buffer[q + 1]
    BY <1>2, <2>3, <2>5
  <2>7. len = LengthAt(buffer, q) /\ len \in Nat
    <3>1. q \in 0..Len(buffer) /\ q < Len(buffer)
      BY <1>2, <2>3, <2>5 DEF n0
    <3>2. LengthAt(buffer, q) \in 0..Window /\ Window \in Nat
      BY <1>2, <3>1, Lengths, DisassemblyAssumption
    <3> QED BY <2>6, <3>2 DEF LengthAt
  <2> HIDE DEF len
  <2>8. q + (len - 1) \in Nat /\ a + q + len - 1 = a + (q + (len - 1))
    BY <2>4, <2>7
  <2>9. q + (len - 1) < left
    BY <2>3, <2>4, <2>8
  <2>10. q < n0 /\ len # 0 /\ q + len <= n0
    BY <2>3, <2>4, <2>5, <2>7, <2>9
  <2> QED BY <2>2, <2>7, <2>10 DEF Fits, n0
<1> QED BY <1>6, <1>7

\* disassemble -c of an instruction that the file has, whole or nearly so.
LEMMA CurrentShown ==
  ASSUME NEW f \in File, f.is_elf, Whole(f), NEW rip \in Nat, HasInstruction(f, rip),
         NEW l, l = disassemble(f, NoName, rip, Window)
  PROVE  l.instructions # <<>> /\ l.instructions[1].addr = rip
<1> DEFINE buffer == Buffer(f, rip, Window)
           n0 == BufferLength(f, rip, Window)
<1>1. PICK s \in DOMAIN f.segments : InstructionIn(f, s, rip)
  BY DEF HasInstruction
<1> DEFINE p == f.segments[s]
           left == p.filesz - (rip - p.vaddr)
           len == Length[ByteAt(f, s, rip)]
<1>2. InSegment(f, s, rip) /\ len > 0 /\ InSegment(f, s, rip + len - 1)
  BY <1>1 DEF InstructionIn
<1>3. Window \in {0, Window} /\ Window \in Nat \ {0} /\ SizeMod \div 2 > Window /\ SizeMod \in Nat
  BY Segments
<1>4. /\ SegmentOf(f, rip) = s /\ left \in Nat \ {0}
      /\ n0 = IF Window = 0 \/ Window > left THEN left ELSE Window
      /\ n0 \in 1..left
      /\ BufferOffset(f, rip) + left = p.offset + p.filesz
      /\ \A o \in 0..(left - 1) : ByteAt(f, s, rip + o) = f.bytes[BufferOffset(f, rip) + (o + 1)]
      /\ \A o \in Nat : InSegment(f, s, rip + o) => o < left
  BY <1>2, <1>3, BufferIsSegment
<1>5. SegmentOf(f, rip) # 0
  BY <1>4, Segments
<1>6. BufferOffset(f, rip) \in Nat
  BY <1>3, <1>5, BufferTypes
<1>7. p.offset + p.filesz <= Len(f.bytes) /\ Len(f.bytes) \in Nat
  BY Segments DEF Whole
<1> HIDE DEF left, n0, p
<1>8. BufferOffset(f, rip) + n0 <= Len(f.bytes)
  <2>1. p.offset + p.filesz \in Nat
    BY <1>4, <1>6
  <2> QED BY <1>4, <1>6, <1>7, <2>1
<1>9. /\ buffer \in Seq(DOMAIN Length) /\ Len(buffer) = n0
      /\ \A o \in 1..n0 : buffer[o] = f.bytes[BufferOffset(f, rip) + o]
  BY <1>3, <1>5, <1>8, BufferTypes DEF n0
<1> HIDE DEF buffer
<1>10. buffer[1] = ByteAt(f, s, rip)
  <2>1. 1 \in 1..n0 /\ 0 \in 0..(left - 1) /\ rip + 0 = rip /\ 0 + 1 = 1
    BY <1>4
  <2> QED BY <1>4, <1>9, <2>1
<1>11. Fits(buffer, 0)
  <2>1. n0 \in Nat /\ 0 < Len(buffer) /\ 0 \in 0..Len(buffer)
    BY <1>4, <1>9
  <2>2. LengthAt(buffer, 0) = len
    BY <1>10 DEF LengthAt
  <2>3. len \in 0..Window
    BY <1>9, <2>1, <2>2, Lengths
  <2> HIDE DEF len
  <2>4. len - 1 \in Nat /\ rip + len - 1 = rip + (len - 1)
    BY <1>2, <1>3, <2>3
  <2>5. len - 1 < left
    BY <1>2, <1>4, <2>4
  <2>6. len <= n0
    BY <1>3, <1>4, <2>3, <2>5
  <2> QED BY <1>2, <1>9, <2>1, <2>2, <2>3, <2>6 DEF Fits
<1>12. Shows(Decoded(buffer, rip, Window), buffer, rip, Window, 0)
  BY <1>9, DecodedShows
<1>13. /\ Decoded(buffer, rip, Window) # <<>>
       /\ Decoded(buffer, rip, Window)[1].addr = rip
  <2>1. rip + 0 = rip
    OBVIOUS
  <2> QED BY <1>11, <1>12, <2>1 DEF Shows
<1>14. ~Refused(f, rip, Window)
  <2>1. n0 <= Window
    BY <1>3, <1>4
  <2>2. n0 \in Nat
    BY <1>4
  <2> QED BY <1>3, <1>5, <1>6, <1>7, <1>8, <2>1, <2>2 DEF Refused, n0
<1>15. l = Listing(NoName, rip, Decoded(buffer, rip, Window))
  BY <1>13, <1>14, DisassembleIs DEF buffer
<1> QED BY <1>13, <1>15 DEF Listing

\* The address that disassemble finds for a name is that of a symbol in the file.
LEMMA BoundsAreEntry ==
  ASSUME NEW f \in File, NEW n \in Name, get_function_bounds(f, n) # NotFound
  PROVE  \E i \in DOMAIN f.sections :
           /\ f.sections[i].type = "SYMTAB" /\ f.sections[i].syms \in Seq(Entry)
           /\ \E k \in DOMAIN f.sections[i].syms :
                /\ f.sections[i].syms[k].name = n
                /\ f.sections[i].syms[k].addr = get_function_bounds(f, n)
<1> DEFINE g == f.sections
           Part(i) == IF g[i].type = "SYMTAB" THEN g[i].syms ELSE <<>>
           s == [i \in 1..Len(g) |-> Part(i)]
           syms == Symtab(f)
           I == {i \in 1..Len(syms) : syms[i].name = n}
           j == IF I # {} THEN Min(I) ELSE 0
<1>1. g \in Seq([type : STRING, syms : Seq(Entry)])
  BY Files DEF IsFile
<1>2. Len(g) \in Nat /\ DOMAIN g = 1..Len(g) /\ \A i \in 1..Len(g) : g[i].syms \in Seq(Entry)
  <2> DEFINE Section == [type : STRING, syms : Seq(Entry)]
  <2>1. g \in Seq(Section)
    BY <1>1
  <2> HIDE DEF g, Section
  <2>2. Len(g) \in Nat /\ DOMAIN g = 1..Len(g) /\ \A i \in 1..Len(g) : g[i] \in Section
    BY <2>1
  <2>3. \A x \in Section : x.syms \in Seq(Entry)
    BY DEF Section
  <2> QED BY <2>2, <2>3
<1>3. syms = FlattenSeq(s)
  BY DEF Symtab
<1> HIDE DEF g
<1>4. \A i \in 1..Len(g) : Part(i) \in Seq(Entry)
  BY <1>2
<1>5. s \in Seq(Seq(Entry)) /\ Len(s) = Len(g) /\ \A i \in 1..Len(g) : s[i] = Part(i)
  <2> HIDE DEF Part
  <2> QED BY <1>2, <1>4
<1> HIDE DEF s
<1>6. syms \in Seq(Entry) /\ \A x : x \in ToSet(syms) <=> \E i \in 1..Len(s) : x \in ToSet(s[i])
  BY <1>3, <1>5, FlattenSeqHas
<1> HIDE DEF syms
<1>7. Len(syms) \in Nat /\ DOMAIN syms = 1..Len(syms)
  BY <1>6
<1>8. get_function_bounds(f, n) = IF j = 0 THEN NotFound ELSE syms[j].addr
  BY DEF get_function_bounds, SelectInSeq, syms
<1>9. j # 0 => j \in I
  <2>1. I \in SUBSET (1..Len(syms))
    OBVIOUS
  <2> HIDE DEF I
  <2> QED BY <1>7, <2>1, FirstIndex
<1> HIDE DEF j
<1>10. j \in 1..Len(syms) /\ syms[j].name = n /\ syms[j].addr = get_function_bounds(f, n)
  BY <1>8, <1>9
<1>11. PICK i \in 1..Len(g) : syms[j] \in ToSet(Part(i))
  <2>1. syms[j] \in ToSet(syms)
    BY <1>7, <1>10 DEF ToSet
  <2> HIDE DEF Part
  <2> QED BY <1>5, <1>6, <2>1
<1>12. g[i].type = "SYMTAB"
  <2>1. \A x : x \notin ToSet(<<>>)
    BY DEF ToSet
  <2> QED BY <1>11, <2>1
<1>13. PICK k \in DOMAIN g[i].syms : g[i].syms[k] = syms[j]
  <2>1. syms[j] \in ToSet(g[i].syms)
    BY <1>11, <1>12
  <2> QED BY <2>1 DEF ToSet
<1> QED BY <1>2, <1>10, <1>12, <1>13 DEF g

\* A name that means one function is the same to breakpoint and to disassemble.
LEMMA NameAgrees ==
  ASSUME SInv, NEW n \in Name, NEW a, a = get_function_bounds(Program, n), a # NotFound,
         loaded.ok, loaded.file = Program,
         \A e, d \in Entries(Program, n) : e = d /\ e.is_function
  PROVE  sylvan_get_label_addr(n) = {a}
<1> DEFINE f == Program
           one == [name |-> n, addr |-> a, is_function |-> TRUE]
<1>1. f \in File
  BY Files DEF Program, Content, SInv, TypeOK
<1>2. IsFile(f) /\ f # NoPath
  BY <1>1, Files
<1>3. PICK i \in DOMAIN f.sections :
        /\ f.sections[i].type = "SYMTAB" /\ f.sections[i].syms \in Seq(Entry)
        /\ \E k \in DOMAIN f.sections[i].syms :
             f.sections[i].syms[k].name = n /\ f.sections[i].syms[k].addr = a
  BY <1>1, BoundsAreEntry
<1>4. PICK k \in DOMAIN f.sections[i].syms :
        f.sections[i].syms[k].name = n /\ f.sections[i].syms[k].addr = a
  BY <1>3
<1> DEFINE e0 == f.sections[i].syms[k]
<1>5. e0 \in Entry
  BY <1>3, <1>4
<1> HIDE DEF f
<1>6. \A j \in DOMAIN f.sections : \A m \in DOMAIN f.sections[j].syms :
        f.sections[j].syms[m].name = n => f.sections[j].syms[m] \in Entries(f, n)
  <2> TAKE j \in DOMAIN f.sections
  <2> TAKE m \in DOMAIN f.sections[j].syms
  <2>1. f.sections[j].syms[m] \in ToSet(f.sections[j].syms)
    BY DEF ToSet
  <2>2. ToSet(f.sections[j].syms) \in {ToSet(f.sections[i0].syms) : i0 \in DOMAIN f.sections}
    OBVIOUS
  <2> QED BY <2>1, <2>2 DEF Entries
<1>7. \A j \in DOMAIN f.dwarf : \A m \in DOMAIN f.dwarf[j].dies :
        f.dwarf[j].dies[m].name = n => f.dwarf[j].dies[m] \in Entries(f, n)
  <2> TAKE j \in DOMAIN f.dwarf
  <2> TAKE m \in DOMAIN f.dwarf[j].dies
  <2>1. f.dwarf[j].dies[m] \in ToSet(f.dwarf[j].dies)
    BY DEF ToSet
  <2>2. ToSet(f.dwarf[j].dies) \in {ToSet(f.dwarf[i0].dies) : i0 \in DOMAIN f.dwarf}
    OBVIOUS
  <2> QED BY <2>1, <2>2 DEF Entries
<1>8. e0 \in Entries(f, n)
  BY <1>4, <1>6
<1>9. \A e \in Entries(f, n) : e = e0 /\ e.is_function
  BY <1>8 DEF f
<1>10. e0 = one
  <2> HIDE DEF e0
  <2>1. e0.is_function /\ e0.is_function \in BOOLEAN /\ e0.name = n /\ e0.addr = a
    BY <1>4, <1>5, <1>8, <1>9 DEF Entry, e0
  <2>2. e0 = [name |-> e0.name, addr |-> e0.addr, is_function |-> e0.is_function]
    BY <1>5 DEF Entry
  <2>3. e0.is_function = TRUE
    BY <2>1
  <2> QED BY <2>1, <2>2, <2>3
<1>11. a \in Address
  BY <1>4, <1>5 DEF Entry
<1>12. a \in InElf(f, n)
  BY <1>3, <1>4, <1>10, <1>11 DEF InElf
<1>13. ASSUME NEW b \in InElf(f, n) PROVE b = a
  <2>1. PICK j \in DOMAIN f.sections : \E m \in DOMAIN f.sections[j].syms :
          f.sections[j].syms[m] = [name |-> n, addr |-> b, is_function |-> TRUE]
    BY DEF InElf
  <2>2. PICK m \in DOMAIN f.sections[j].syms :
          f.sections[j].syms[m] = [name |-> n, addr |-> b, is_function |-> TRUE]
    BY <2>1
  <2>3. f.sections[j].syms[m].name = n /\ f.sections[j].syms[m].addr = b
    BY <2>2
  <2>4. f.sections[j].syms[m] = e0
    BY <1>6, <1>9, <2>3
  <2> QED BY <1>4, <2>3, <2>4
<1>14. ASSUME NEW b \in InDwarf(f, n) PROVE b = a
  <2>1. PICK j \in DOMAIN f.dwarf : \E m \in DOMAIN f.dwarf[j].dies :
          f.dwarf[j].dies[m] = [name |-> n, addr |-> b, is_function |-> TRUE]
    BY DEF InDwarf
  <2>2. PICK m \in DOMAIN f.dwarf[j].dies :
          f.dwarf[j].dies[m] = [name |-> n, addr |-> b, is_function |-> TRUE]
    BY <2>1
  <2>3. f.dwarf[j].dies[m].name = n /\ f.dwarf[j].dies[m].addr = b
    BY <2>2
  <2>4. f.dwarf[j].dies[m] = e0
    BY <1>7, <1>9, <2>3
  <2> QED BY <1>4, <2>3, <2>4
<1>15. Labels(f, n) = {a}
  BY <1>2, <1>12, <1>13, <1>14 DEF Labels
<1>16. loaded.file = f
  BY DEF f
<1>17. sylvan_get_label_addr(n) =
         IF Labels(loaded.file, n) = {} THEN {NotFound} ELSE Labels(loaded.file, n)
  BY LabelsMean
<1> QED BY <1>15, <1>16, <1>17

-----------------------------------------------------------------------------
(***************************************************************************)
(* The inductive invariant of Disassembly.  A listing is a matter of the   *)
(* step that makes it; only the tables are older.                          *)
(***************************************************************************)
LInv ==
  /\ SInv
  /\ LTypeOK
  /\ ListsProgram
  /\ FunctionListed
  /\ BreakAndListAgree

\* A step after which there is no listing.
LEMMA ClearedKeeps ==
  ASSUME SInv', listing' = NoListing
  PROVE  LInv'
<1>1. Types(NoListing) /\ Lists(Program', NoListing) /\ UpToRet(Program', NoListing)
      /\ NoListing.name = NoName
  BY NothingListed
<1>2. LTypeOK'
  BY <1>1 DEF LTypeOK, Types, SInv
<1>3. ListsProgram'
  BY <1>1 DEF ListsProgram, Lists
<1>4. FunctionListed'
  BY <1>1 DEF FunctionListed, UpToRet
<1>5. BreakAndListAgree'
  BY <1>1 DEF BreakAndListAgree
<1> QED BY <1>2, <1>3, <1>4, <1>5 DEF LInv

\* Nothing that the two commands look at changes while they list.
LEMMA UnchangedVars ==
  ASSUME UNCHANGED vars
  PROVE  /\ SInv => SInv'
         /\ Program' = Program
         /\ loaded' = loaded
         /\ \A n : sylvan_get_label_addr(n)' = sylvan_get_label_addr(n)
<1>1. SInv => SInv'
  BY SNext
<1> QED BY <1>1 DEF vars, Program, Content, sylvan_get_label_addr

\* A step that lists something.
LEMMA ListedKeeps ==
  ASSUME SInv, UNCHANGED vars, NEW n \in Name \cup {NoName}, NEW a \in Nat, NEW size \in {0, Window},
         n # NoName => size = 0 /\ a = get_function_bounds(Program, n) /\ a # NotFound,
         listing' = disassemble(Program, n, a, size)
  PROVE  LInv'
<1>1. SInv' /\ Program' = Program /\ loaded' = loaded
  BY UnchangedVars
<1>2. CASE listing' = NoListing
  BY <1>1, <1>2, ClearedKeeps
<1>3. CASE listing' # NoListing
  <2> DEFINE f == Program
             l == listing'
  <2>1. f \in File
    BY Files DEF Program, Content, SInv, TypeOK
  <2>2. l = disassemble(f, n, a, size) /\ l # NoListing
    BY <1>3
  <2> HIDE DEF f, l
  <2>3. Types(l) /\ Lists(f, l) /\ UpToRet(f, l)
    BY <2>1, <2>2, ListingTypes, ListingLists, ListingUpToRet
  <2>4. l.name = n /\ l.start = a
    BY <2>1, <2>2, DisassembleShows
  <2>5. LTypeOK'
    BY <1>1, <2>3 DEF LTypeOK, Types, SInv, l
  <2>6. ListsProgram'
    BY <1>1, <2>3 DEF ListsProgram, Lists, l, f
  <2>7. FunctionListed'
    BY <1>1, <2>3 DEF FunctionListed, UpToRet, l, f
  <2>8. BreakAndListAgree'
    <3> SUFFICES ASSUME n # NoName, loaded.ok, loaded.file = Program,
                        \A e, d \in Entries(Program, n) : e = d /\ e.is_function
                 PROVE  sylvan_get_label_addr(n)' = {a}
      BY <1>1, <2>4 DEF BreakAndListAgree, l
    <3>1. sylvan_get_label_addr(n) = {a}
      BY NameAgrees
    <3> QED BY <3>1, UnchangedVars
  <2> QED BY <1>1, <2>5, <2>6, <2>7, <2>8 DEF LInv
<1> QED BY <1>2, <1>3

\* No step of the debugger or of the file system breaks the invariant.
LEMMA LNextKeeps == LInv /\ [LNext]_lvars => LInv'
<1> SUFFICES ASSUME LInv, [LNext]_lvars PROVE LInv'
  OBVIOUS
<1>1. SInv
  BY DEF LInv
<1>2. CASE Next /\ listing' = NoListing
  BY <1>1, <1>2, SNext, ClearedKeeps
<1>3. ASSUME NEW n \in Name, disassemble_function(n) PROVE LInv'
  <2> DEFINE a == get_function_bounds(Program, n)
  <2>1. UNCHANGED vars /\ SInv'
    BY <1>1, <1>3, UnchangedVars DEF disassemble_function
  <2>2. listing' = IF a = NotFound THEN NoListing ELSE disassemble(Program, n, a, 0)
    BY <1>3 DEF disassemble_function
  <2>3. CASE a = NotFound
    BY <2>1, <2>2, <2>3, ClearedKeeps
  <2>4. CASE a # NotFound
    <3>1. Program \in File
      BY <1>1, Files DEF Program, Content, SInv, TypeOK
    <3>2. a \in Nat
      <4>1. PICK i \in DOMAIN Program.sections :
              /\ Program.sections[i].syms \in Seq(Entry)
              /\ \E k \in DOMAIN Program.sections[i].syms : Program.sections[i].syms[k].addr = a
        BY <2>4, <3>1, BoundsAreEntry
      <4>2. PICK k \in DOMAIN Program.sections[i].syms : Program.sections[i].syms[k].addr = a
        BY <4>1
      <4>3. Program.sections[i].syms[k] \in Entry
        BY <4>1
      <4>4. a \in Address
        BY <4>2, <4>3 DEF Entry
      <4> QED BY <4>4, DisassemblyAssumption
    <3>3. listing' = disassemble(Program, n, a, 0) /\ 0 \in {0, Window}
      BY <2>2, <2>4
    <3> QED BY <1>1, <2>1, <2>4, <3>2, <3>3, ListedKeeps
  <2> QED BY <2>3, <2>4
<1>4. ASSUME NEW rip \in ProcAddr, disassemble_current(rip) PROVE LInv'
  <2>1. UNCHANGED vars /\ listing' = disassemble(Program, NoName, rip, Window)
    BY <1>4 DEF disassemble_current
  <2>2. rip \in Nat /\ Window \in {0, Window} /\ NoName \in Name \cup {NoName}
    BY DisassemblyAssumption
  <2> QED BY <1>1, <2>1, <2>2, ListedKeeps
<1>5. CASE disassemble_refused
  <2>1. UNCHANGED vars /\ listing' = NoListing
    BY <1>5 DEF disassemble_refused
  <2> QED BY <1>1, <2>1, UnchangedVars, ClearedKeeps
<1>6. CASE UNCHANGED lvars
  <2>1. UNCHANGED vars /\ listing' = listing
    BY <1>6 DEF lvars, vars
  <2>2. SInv' /\ Program' = Program /\ loaded' = loaded
        /\ sylvan_get_label_addr(listing.name)' = sylvan_get_label_addr(listing.name)
    BY <1>1, <2>1, UnchangedVars
  <2>3. LTypeOK'
    BY <2>1, <2>2 DEF LInv, LTypeOK, SInv
  <2>4. ListsProgram'
    BY <2>1, <2>2 DEF LInv, ListsProgram
  <2>5. FunctionListed'
    BY <2>1, <2>2 DEF LInv, FunctionListed
  <2>6. BreakAndListAgree'
    BY <2>1, <2>2 DEF LInv, BreakAndListAgree
  <2> QED BY <2>2, <2>3, <2>4, <2>5, <2>6 DEF LInv
<1> QED BY <1>2, <1>3, <1>4, <1>5, <1>6 DEF LNext

\* Tables and listings are as LInv says in every state, whatever programs replace one
\* another on disk and in the inferior (symbol.c, disassemble.c).
THEOREM SymbolsInductive == LSpec => []LInv
<1>1. LInit => LInv
  <2> SUFFICES ASSUME LInit PROVE LInv
    OBVIOUS
  <2>1. SInv /\ listing = NoListing
    BY SInit DEF LInit
  <2>2. Types(NoListing) /\ Lists(Program, NoListing) /\ UpToRet(Program, NoListing)
        /\ NoListing.name = NoName
    BY NothingListed
  <2>3. LTypeOK
    BY <2>1, <2>2 DEF LTypeOK, Types, SInv
  <2>4. ListsProgram
    BY <2>1, <2>2 DEF ListsProgram, Lists
  <2>5. FunctionListed
    BY <2>1, <2>2 DEF FunctionListed, UpToRet
  <2>6. BreakAndListAgree
    BY <2>1, <2>2 DEF BreakAndListAgree
  <2> QED BY <2>1, <2>3, <2>4, <2>5, <2>6 DEF LInv
<1> QED BY <1>1, LNextKeeps, PTL DEF LSpec

\* The tables hold named functions, and a listing whole instructions (symbol.c:224,
\* disassemble.c:235-244).
THEOREM SymbolsTypes == LSpec => []LTypeOK
<1>1. LInv => LTypeOK
  BY DEF LInv
<1> QED BY <1>1, SymbolsInductive, PTL

\* After a file or attach that succeeded a name means the functions of that name in that
\* program, whatever the order of its units and entries, and NotFound if there are none:
\* both tables are sorted before bsearch is used (symbol.c:267-268).
THEOREM NamesMeanFunctions == LSpec => []LabelsOfProgram
<1>1. LInv => LabelsOfProgram
  BY LabelsMean DEF LInv, LabelsOfProgram
<1> QED BY <1>1, SymbolsInductive, PTL

\* A name never means a function of the program that was there before, not even when
\* loading failed half-way (symbol.c:257-265).
THEOREM NamesAreNotForeign == LSpec => []NoForeignLabel
<1>1. LInv => NoForeignLabel
  BY LabelsMean DEF LInv, NoForeignLabel
<1> QED BY <1>1, SymbolsInductive, PTL

\* A listing shows what the program has at the addresses beside it, wherever segments
\* meet and whatever bytes follow in the file (disassemble.c:51-61, 179-182).
THEOREM ListingsShowProgram == LSpec => []ListsProgram
<1>1. LInv => ListsProgram
  BY DEF LInv
<1> QED BY <1>1, SymbolsInductive, PTL

\* A function is listed up to its ret or the end of what can be decoded, although its
\* size is not used (disassemble.c:162-182, 273-276).
THEOREM FunctionsAreListed == LSpec => []FunctionListed
<1>1. LInv => FunctionListed
  BY DEF LInv
<1> QED BY <1>1, SymbolsInductive, PTL

\* breakpoint and disassemble find the same function by an unambiguous name, although one
\* searches the tables and the other the file (symbol.c:239-251, disassemble.c:80-151).
THEOREM BreakpointMatchesListing == LSpec => []BreakAndListAgree
<1>1. LInv => BreakAndListAgree
  BY DEF LInv
<1> QED BY <1>1, SymbolsInductive, PTL

\* disassemble -c shows the next instruction, however close to the end of its segment it
\* is (command_handler.c:1175-1187, disassemble.c:179-182).
THEOREM CurrentIsListed == LSpec => CurrentListed
<1> DEFINE A == Program.is_elf /\ Whole(Program) =>
                  \A rip \in ProcAddr :
                    HasInstruction(Program, rip) /\ disassemble_current(rip)
                      => /\ listing'.instructions # <<>>
                         /\ listing'.instructions[1].addr = rip
<1>1. LInv /\ [LNext]_lvars => [A]_lvars
  <2> SUFFICES ASSUME LInv, Program.is_elf, Whole(Program), NEW rip \in ProcAddr,
                      HasInstruction(Program, rip), disassemble_current(rip)
               PROVE  /\ listing'.instructions # <<>>
                      /\ listing'.instructions[1].addr = rip
    OBVIOUS
  <2>1. Program \in File
    BY Files DEF LInv, Program, Content, SInv, TypeOK
  <2>2. rip \in Nat
    BY DisassemblyAssumption
  <2>3. listing' = disassemble(Program, NoName, rip, Window)
    BY DEF disassemble_current
  <2> QED BY <2>1, <2>2, <2>3, CurrentShown
<1> QED BY <1>1, SymbolsInductive, PTL DEF LSpec, CurrentListed
=============================================================================
