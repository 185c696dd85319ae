-------------------------- MODULE AcpSessionsProofs --------------------------
(***************************************************************************)
(* The saved sessions, for every value of the constants: what a completed  *)
(* save wrote is what a load reads, and the records and the transcript of  *)
(* a session stay in the order the records were made, whatever saves fail  *)
(* and wherever the server dies.                                           *)
(*                                                                         *)
(* A mark is a record with a replay sequence, as a record, a line or a     *)
(* transcript item states it.  Marks agree when sequences follow the order *)
(* of the records.  The inductive invariant keeps the marks of the files   *)
(* within those of the session being saved, and these within those of the  *)
(* host that holds the session open: however many half-written files lie   *)
(* over one another, they are pieces of sessions that agree.  A session    *)
(* from before there were sequences is left out: its sequences are made up *)
(* by a load, and a second load after failed saves may make up others.     *)
(***************************************************************************)
EXTENDS AcpSessionsProperties, FiniteSetTheorems, SequenceTheorems, NaturalsInduction, TLAPS

\* The place of a record among the records of a finite set, from the first on: every
\* place is taken, in the order of the records.
LEMMA Places ==
    ASSUME NEW S \in SUBSET Nat, IsFiniteSet(S)
    PROVE  LET n == Cardinality(S)
               place(r) == Cardinality({q \in S : q <= r})
           IN  /\ n \in Nat
               /\ \A r \in S : place(r) \in 1..n
               /\ \A r, q \in S : r < q => place(r) < place(q)
               /\ \A k \in 1..n : \E r \in S : place(r) = k
  <1> DEFINE n == Cardinality(S)
             upTo(r) == {q \in S : q <= r}
             place(r) == Cardinality(upTo(r))
             f == [r \in S |-> place(r)]
  <1>1. n \in Nat
    BY FS_CardinalityType
  <1>2. \A r \in S : upTo(r) \in SUBSET S /\ r \in upTo(r)
    <2>1. \A r \in Nat : r <= r
      OBVIOUS
    <2>2. \A r \in S : r \in {q \in S : q <= r}
      BY <2>1
    <2> QED BY <2>2
  <1>3. \A r \in S : \A q \in S : r < q => upTo(r) \in SUBSET upTo(q) /\ q \notin upTo(r)
    <2>1. \A x, r, q \in Nat : r < q => (x <= r => x <= q) /\ ~(q <= r)
      OBVIOUS
    <2> QED BY <2>1
  <1> HIDE DEF upTo
  <1>4. ASSUME NEW r \in S PROVE IsFiniteSet(upTo(r)) /\ place(r) \in 1..n
    <2>1. IsFiniteSet(upTo(r)) /\ place(r) <= n
      BY <1>2, FS_Subset
    <2>2. place(r) \in Nat /\ place(r) # 0
      BY <1>2, <2>1, FS_CardinalityType, FS_EmptySet
    <2> HIDE DEF place
    <2> QED BY <1>1, <2>1, <2>2
  <1>5. ASSUME NEW r \in S, NEW q \in S, r < q PROVE place(r) < place(q)
    <2>1. /\ upTo(r) \in SUBSET upTo(q) /\ upTo(r) # upTo(q)
          /\ IsFiniteSet(upTo(q))
      BY <1>2, <1>3, <1>4, <1>5
    <2>2. place(r) <= place(q) /\ place(r) # place(q)
      BY <2>1, FS_Subset
    <2>3. place(r) \in Nat /\ place(q) \in Nat
      BY <1>4, <1>1
    <2> HIDE DEF place
    <2> QED BY <2>2, <2>3
  <1> HIDE DEF place, n
  <1>6. f \in [S -> 1..n] /\ \A r \in S : f[r] = place(r)
    BY <1>4
  <1>7. ASSUME NEW r \in S, NEW q \in S, f[r] = f[q] PROVE r = q
    <2>1. r \in Nat /\ q \in Nat /\ place(r) = place(q) /\ place(r) \in Nat
      BY <1>1, <1>4, <1>6, <1>7
    <2>2. ~(r < q) /\ ~(q < r)
      BY <1>5, <2>1
    <2> QED BY <2>1, <2>2
  <1> HIDE DEF f
  <1>8. f \in Injection(S, 1..n)
    BY <1>6, <1>7 DEF Injection, IsInjective
  <1>9. IsFiniteSet(1..n) /\ Cardinality(1..n) = n
    BY <1>1, FS_Interval
  <1>10. f \in Surjection(S, 1..n)
    BY <1>8, <1>9, FS_Injection DEF n
  <1>11. \A k \in 1..n : \E r \in S : f[r] = k
    BY <1>10 DEF Surjection
  <1>12. /\ \A r \in S : place(r) \in 1..n
         /\ \A r, q \in S : r < q => place(r) < place(q)
         /\ \A k \in 1..n : \E r \in S : place(r) = k
    BY <1>4, <1>5, <1>6, <1>11
  <1> QED BY <1>1, <1>12 DEF place, n, upTo

\* The largest of a finite set of numbers.
LEMMA LargestOf ==
    ASSUME NEW S \in SUBSET Nat, IsFiniteSet(S), S # {}
    PROVE  Max(S) \in S /\ \A y \in S : y <= Max(S)
  <1> DEFINE n == Cardinality(S)
  <1>1. n \in 1..n
    <2>1. n \in Nat /\ n # 0
      BY FS_CardinalityType, FS_EmptySet
    <2> HIDE DEF n
    <2> QED BY <2>1
  <1>2. PICK x \in S : Cardinality({q \in S : q <= x}) = n
    BY <1>1, Places
  <1>3. {q \in S : q <= x} = S
    BY <1>2, FS_Subset
  <1>4. \A y \in S : y <= x
    BY <1>3
  <1>5. \A y \in S : x >= y
    BY <1>4
  <1>6. Max(S) \in S /\ \A y \in S : Max(S) >= y
    BY <1>5 DEF Max
  <1> QED BY <1>6

Rising(items) == \A i, j \in DOMAIN items : i < j => items[i].seq < items[j].seq

\* Sorting leaves a sorted transcript as it is.
LEMMA SortedStays ==
    ASSUME NEW X, NEW items \in Seq(X), \A i \in DOMAIN items : items[i].seq \in Nat, Rising(items)
    PROVE  SortedItems(items) = items
  <1> DEFINE n == Len(items)
             place(i) == Cardinality({j \in DOMAIN items :
                                        \/ items[j].seq < items[i].seq
                                        \/ items[j].seq = items[i].seq /\ j <= i})
  <1>1. n \in Nat /\ DOMAIN items = 1..n
    OBVIOUS
  <1>2. ASSUME NEW i \in 1..n PROVE place(i) = i
    <2>1. ASSUME NEW j \in 1..n
          PROVE (items[j].seq < items[i].seq \/ (items[j].seq = items[i].seq /\ j <= i)) <=> j <= i
      <3>1. items[i].seq \in Nat /\ items[j].seq \in Nat
        BY <1>1
      <3>2. (j < i => items[j].seq < items[i].seq) /\ (i < j => items[i].seq < items[j].seq)
        BY <1>1 DEF Rising
      <3>3. j < i \/ j = i \/ i < j
        BY <1>1
      <3> DEFINE a == items[i].seq
                 b == items[j].seq
      <3> HIDE DEF a, b
      <3>4. a \in Nat /\ b \in Nat /\ (j < i => b < a) /\ (i < j => a < b) /\ (i = j => a = b)
        BY <3>1, <3>2 DEF a, b
      <3>5. (b < a \/ (b = a /\ j <= i)) <=> j <= i
        BY <1>1, <3>3, <3>4
      <3> QED BY <3>5 DEF a, b
    <2>2. {j \in DOMAIN items : items[j].seq < items[i].seq \/ (items[j].seq = items[i].seq /\ j <= i)}
            = 1..i
      <3>1. \A j \in 1..i : j \in 1..n /\ j <= i
        BY <1>1
      <3>2. \A j \in 1..n : j <= i => j \in 1..i
        BY <1>1
      <3> QED BY <1>1, <2>1, <3>1, <3>2
    <2>3. Cardinality(1..i) = i
      BY <1>1, FS_Interval
    <2> QED BY <2>2, <2>3, Zenon
  <1>3. SortedItems(items) = [k \in DOMAIN items |-> items[CHOOSE i \in DOMAIN items : place(i) = k]]
    BY DEF SortedItems
  <1> HIDE DEF place
  <1>4. \A k \in 1..n : (CHOOSE i \in 1..n : place(i) = k) = k
    BY <1>2
  <1>5. SortedItems(items) = [k \in 1..n |-> items[k]]
    BY <1>1, <1>3, <1>4
  <1> QED BY <1>1, <1>5

\* The items of some records: one of each, in the order the records were made.
LEMMA ItemsInOrder ==
    ASSUME NEW c, NEW S \in SUBSET Nat, IsFiniteSet(S)
    PROVE  LET l == ItemsOf(c, S)
               n == Cardinality(S)
           IN  /\ n \in Nat /\ DOMAIN l = 1..n
               /\ \A k \in 1..n : l[k].rec \in S /\ l[k] = ItemOf(c, l[k].rec)
               /\ \A r \in S : \E k \in 1..n : l[k] = ItemOf(c, r)
               /\ \A i, j \in 1..n : i < j => l[i].rec < l[j].rec
               /\ S = {} => n = 0
  <1> DEFINE n == Cardinality(S)
             place(r) == Cardinality({q \in S : q <= r})
             at(k) == CHOOSE r \in S : place(r) = k
             l == ItemsOf(c, S)
  <1>1. /\ n \in Nat
        /\ \A r \in S : place(r) \in 1..n
        /\ \A r, q \in S : r < q => place(r) < place(q)
        /\ \A k \in 1..n : \E r \in S : place(r) = k
    BY Places
  <1>2. l = [k \in 1..n |-> ItemOf(c, at(k))]
    BY DEF ItemsOf
  <1>3. S = {} => n = 0
    BY FS_EmptySet
  <1> HIDE DEF place, n, l
  <1>4. \A k \in 1..n : at(k) \in S /\ place(at(k)) = k
    BY <1>1
  <1>5. \A r \in S : at(place(r)) = r
    <2>1. ASSUME NEW r \in S PROVE at(place(r)) = r
      <3> DEFINE q == at(place(r))
      <3>1. q \in S /\ place(q) = place(r)
        BY <1>1, <1>4
      <3> HIDE DEF q
      <3>2. ~(q < r) /\ ~(r < q)
        <4>1. place(q) \in Nat /\ place(r) \in Nat
          BY <1>1, <3>1
        <4>2. (q < r => place(q) < place(r)) /\ (r < q => place(r) < place(q))
          BY <1>1, <3>1
        <4> QED BY <3>1, <4>1, <4>2
      <3>3. q \in Nat /\ r \in Nat
        BY <3>1
      <3>4. q = r
        BY <3>2, <3>3
      <3> QED BY <3>4 DEF q
    <2> QED BY <2>1
  <1> HIDE DEF at
  <1>6. \A k \in 1..n : l[k] = ItemOf(c, at(k)) /\ l[k].rec = at(k)
    BY <1>2 DEF ItemOf
  <1>7. \A i, j \in 1..n : i < j => at(i) < at(j)
    <2>1. ASSUME NEW i \in 1..n, NEW j \in 1..n, i < j PROVE at(i) < at(j)
      <3>1. at(i) \in Nat /\ at(j) \in Nat /\ place(at(i)) = i /\ place(at(j)) = j
            /\ at(i) \in S /\ at(j) \in S
        BY <1>4, <2>1
      <3>2. at(i) # at(j)
        BY <2>1, <3>1
      <3>3. ~(at(j) < at(i))
        <4>1. at(j) < at(i) => place(at(j)) < place(at(i))
          BY <1>1, <3>1
        <4> QED BY <1>1, <2>1, <3>1, <4>1
      <3> QED BY <3>1, <3>2, <3>3
    <2> QED BY <2>1
  <1>8. /\ DOMAIN l = 1..n
        /\ \A k \in 1..n : l[k].rec \in S /\ l[k] = ItemOf(c, l[k].rec)
        /\ \A i, j \in 1..n : i < j => l[i].rec < l[j].rec
    BY <1>2, <1>4, <1>6, <1>7
  <1>9. \A r \in S : \E k \in 1..n : l[k] = ItemOf(c, r)
    BY <1>1, <1>5, <1>6
  <1> QED BY <1>1, <1>3, <1>8, <1>9 DEF l, n

-----------------------------------------------------------------------------
(* Sessions in memory.                                                     *)

\* A line of a file, and the item of a session that is not from before there were
\* sequences.
Line == [rec : Rec, seq : Nat \ {0}, version : Nat]

\* The lines of a file, one by one.
LEMMA LinesAre ==
    ASSUME NEW lines \in Seq(Line)
    PROVE  /\ Len(lines) \in Nat /\ DOMAIN lines = 1..Len(lines)
           /\ \A i \in DOMAIN lines : /\ lines[i] \in Line /\ lines[i].rec \in Rec
                                     /\ lines[i].seq \in Nat /\ lines[i].seq # 0
                                     /\ lines[i].version \in Nat
  <1>1. \A i \in DOMAIN lines : lines[i] \in Line
    OBVIOUS
  <1>2. \A x \in Line : x.rec \in Rec /\ x.seq \in Nat /\ x.seq # 0 /\ x.version \in Nat
    BY DEF Line
  <1> QED BY <1>1, <1>2

\* A function on 1..n is a sequence.
LEMMA SeqFrom ==
    ASSUME NEW X, NEW n \in Nat, NEW l, l = [k \in 1..n |-> l[k]],
           \A k \in 1..n : l[k] \in X
    PROVE  l \in Seq(X) /\ Len(l) = n
  OBVIOUS

IsSession(c) ==
    /\ c \in [recs : SUBSET Rec, seq : [Rec -> Nat], version : [Rec -> Nat],
              items : Seq(Line), next : Nat \ {0}, exact : BOOLEAN]
    /\ IsFiniteSet(c.recs)
    /\ \A r \in c.recs : c.seq[r] # 0
    /\ \A r \in Rec \ c.recs : c.seq[r] = 0 /\ c.version[r] = 0

\* Which record has which sequence, by the records and by the items of a session.
LineMarks(lines) == {<<lines[i].rec, lines[i].seq>> : i \in DOMAIN lines}
RecMarks(recs, seq) == {<<r, seq[r]>> : r \in recs}
Marks(c) == RecMarks(c.recs, c.seq) \cup LineMarks(c.items)

\* Sequences follow the order of the records, and no record has two.
Agree(A) == \A x, y \in A : (x[1] < y[1] => x[2] < y[2]) /\ (x[1] = y[1] => x[2] = y[2])

Sound(c) ==
    /\ IsSession(c) /\ Rising(c.items) /\ Agree(Marks(c))
    /\ \A m \in Marks(c) : m[2] < c.next

\* What is written: the next sequence is right and the transcript is not missing.
Canonical(c) == Sound(c) /\ c.next = NextSequence(c) /\ ~NeedsSynthesis(c)

\* Where a mark of a session comes from.
LEMMA MarkOf ==
    ASSUME NEW c
    PROVE  /\ \A r \in c.recs : <<r, c.seq[r]>> \in Marks(c)
           /\ \A i \in DOMAIN c.items : <<c.items[i].rec, c.items[i].seq>> \in Marks(c)
           /\ \A m \in Marks(c) : \/ \E r \in c.recs : m = <<r, c.seq[r]>>
                                  \/ \E i \in DOMAIN c.items : m = <<c.items[i].rec, c.items[i].seq>>
  BY DEF Marks, RecMarks, LineMarks

\* The next sequence is above all, and the marks alone decide it.
LEMMA NextAbove ==
    ASSUME NEW c, IsSession(c)
    PROVE  /\ Marks(c) \subseteq Rec \X (Nat \ {0})
           /\ NextSequence(c) \in Nat \ {0}
           /\ \A m \in Marks(c) : m[2] < NextSequence(c)
           /\ Sequences(c) = {m[2] : m \in Marks(c)}
  <1> DEFINE n == Len(c.items)
             byRec == {c.seq[r] : r \in c.recs}
             byItem == {c.items[i].seq : i \in DOMAIN c.items}
             f == [r \in c.recs |-> c.seq[r]]
             g == [i \in 1..n |-> c.items[i].seq]
  <1>1. n \in Nat /\ DOMAIN c.items = 1..n /\ \A i \in 1..n : c.items[i] \in Line
    BY DEF IsSession
  <1>2. \A r \in c.recs : r \in Rec /\ c.seq[r] \in Nat \ {0}
    BY DEF IsSession
  <1>3. \A i \in 1..n : c.items[i].rec \in Rec /\ c.items[i].seq \in Nat \ {0}
    BY <1>1 DEF Line
  <1>4. Marks(c) \subseteq Rec \X (Nat \ {0})
    BY <1>1, <1>2, <1>3, MarkOf
  <1>5. Sequences(c) = {m[2] : m \in Marks(c)}
    <2>1. Sequences(c) = byRec \cup byItem
      BY DEF Sequences
    <2>2. \A m \in Marks(c) : m[2] \in byRec \cup byItem
      BY MarkOf
    <2>3. ASSUME NEW x \in byRec \cup byItem PROVE \E m \in Marks(c) : x = m[2]
      <3>1. CASE x \in byRec
        <4>1. PICK r \in c.recs : x = c.seq[r]
          BY <3>1
        <4>2. <<r, c.seq[r]>> \in Marks(c) /\ <<r, c.seq[r]>>[2] = x
          BY <4>1, MarkOf
        <4> QED BY <4>2
      <3>2. CASE x \in byItem
        <4>1. PICK i \in DOMAIN c.items : x = c.items[i].seq
          BY <3>2
        <4>2. <<c.items[i].rec, c.items[i].seq>> \in Marks(c) /\ <<c.items[i].rec, c.items[i].seq>>[2] = x
          BY <4>1, MarkOf
        <4> QED BY <4>2
      <3> QED BY <3>1, <3>2
    <2> HIDE DEF byRec, byItem
    <2> QED BY <2>1, <2>2, <2>3
  <1>6. IsFiniteSet(byRec)
    <2>1. f \in Surjection(c.recs, byRec)
      BY DEF Surjection
    <2> QED BY <2>1, FS_Surjection DEF IsSession
  <1>7. IsFiniteSet(byItem)
    <2>1. g \in Surjection(1..n, byItem)
      BY <1>1 DEF Surjection
    <2> QED BY <1>1, <2>1, FS_Surjection, FS_Interval
  <1>8. Sequences(c) \in SUBSET Nat /\ IsFiniteSet(Sequences(c)) /\ 0 \notin Sequences(c)
    <2>1. Sequences(c) = byRec \cup byItem
      BY DEF Sequences
    <2>2. byRec \subseteq Nat \ {0} /\ byItem \subseteq Nat \ {0}
      BY <1>1, <1>2, <1>3
    <2>3. IsFiniteSet(byRec \cup byItem)
      BY <1>6, <1>7, FS_Union
    <2> HIDE DEF byRec, byItem
    <2> QED BY <2>1, <2>2, <2>3
  <1>9. NextSequence(c) \in Nat \ {0} /\ \A x \in Sequences(c) : x < NextSequence(c)
    <2> DEFINE S == Sequences(c)
    <2>1. S \ {0} = S /\ S \in SUBSET Nat /\ IsFiniteSet(S)
      BY <1>8
    <2>2. NextSequence(c) = IF S = {} THEN 1 ELSE Max(S) + 1
      BY <2>1 DEF NextSequence, FirstReplaySequence
    <2> HIDE DEF S
    <2>3. CASE S = {}
      BY <2>2, <2>3 DEF S
    <2>4. CASE S # {}
      <3>1. Max(S) \in S /\ \A y \in S : y <= Max(S)
        BY <2>1, <2>4, LargestOf
      <3>2. Max(S) \in Nat /\ S \subseteq Nat
        BY <2>1, <3>1
      <3>3. \A a, b \in Nat : a <= b => a < b + 1 /\ b + 1 \in Nat \ {0}
        OBVIOUS
      <3> QED BY <2>2, <2>4, <3>1, <3>2, <3>3 DEF S
    <2> QED BY <2>3, <2>4
  <1>10. \A m \in Marks(c) : m[2] \in Sequences(c)
    BY <1>5
  <1> QED BY <1>4, <1>5, <1>9, <1>10

\* Sessions with the same marks go on with the same sequence.
LEMMA NextByMarks ==
    ASSUME NEW c, IsSession(c), NEW d, IsSession(d), Marks(c) = Marks(d)
    PROVE  NextSequence(c) = NextSequence(d)
  <1>1. Sequences(c) = Sequences(d)
    BY NextAbove
  <1> QED BY <1>1 DEF NextSequence

\* Normalising a session that is in order sets the next sequence, and that alone.
LEMMA NormalizedIs ==
    ASSUME NEW c, IsSession(c), Rising(c.items), Agree(Marks(c))
    PROVE  LET n == Normalized(c)
           IN  /\ n = [c EXCEPT !.next = NextSequence(c)]
               /\ Sound(n) /\ n.next = NextSequence(n) /\ Marks(n) = Marks(c)
               /\ n.recs = c.recs /\ n.seq = c.seq /\ n.version = c.version
               /\ n.items = c.items /\ n.exact = c.exact
               /\ NeedsSynthesis(n) <=> NeedsSynthesis(c)
  <1> DEFINE n == Normalized(c)
             next == NextSequence(c)
  <1>1. ~IsLegacy(c)
    BY DEF IsLegacy, IsSession
  <1>2. SortedItems(c.items) = c.items
    <2>1. c.items \in Seq(Line)
      BY DEF IsSession
    <2>2. \A i \in DOMAIN c.items : c.items[i].seq \in Nat
      BY <2>1, LinesAre
    <2> QED BY <2>1, <2>2, SortedStays
  <1>3. next \in Nat \ {0} /\ \A m \in Marks(c) : m[2] < next
    BY NextAbove
  <1>4. n = [[c EXCEPT !.items = SortedItems(@)] EXCEPT !.next = next]
    BY <1>1 DEF Normalized
  <1> HIDE DEF n, next
  <1>5. /\ n = [c EXCEPT !.next = next]
        /\ n.recs = c.recs /\ n.seq = c.seq /\ n.version = c.version
        /\ n.items = c.items /\ n.exact = c.exact /\ n.next = next
        /\ n \in [recs : SUBSET Rec, seq : [Rec -> Nat], version : [Rec -> Nat],
                  items : Seq(Line), next : Nat \ {0}, exact : BOOLEAN]
    BY <1>2, <1>3, <1>4 DEF IsSession
  <1>6. Marks(n) = Marks(c) /\ (NeedsSynthesis(n) <=> NeedsSynthesis(c))
    BY <1>5 DEF Marks, NeedsSynthesis
  <1>7. IsSession(n)
    BY <1>5 DEF IsSession
  <1>8. next = NextSequence(n)
    BY <1>6, <1>7, NextByMarks DEF next
  <1>9. Sound(n)
    BY <1>3, <1>5, <1>6, <1>7 DEF Sound
  <1> QED BY <1>5, <1>6, <1>8, <1>9 DEF n, next

\* A transcript made from the records lists them all, in order.
LEMMA SynthesizedIs ==
    ASSUME NEW c, IsSession(c), c.items = <<>>, Agree(Marks(c))
    PROVE  LET d == Synthesized(c)
           IN  /\ IsSession(d) /\ Rising(d.items) /\ Marks(d) = Marks(c)
               /\ d.recs = c.recs /\ d.seq = c.seq /\ d.version = c.version /\ d.exact = FALSE
               /\ IsComplete(d) /\ ~NeedsSynthesis(d)
  <1> DEFINE d == Synthesized(c)
             l == ItemsOf(c, c.recs)
             n == Cardinality(c.recs)
  <1>1. c.recs \in SUBSET Nat /\ IsFiniteSet(c.recs)
    BY SessionStoreAssumption DEF IsSession
  <1>2. /\ n \in Nat /\ DOMAIN l = 1..n
        /\ \A k \in 1..n : l[k].rec \in c.recs /\ l[k] = ItemOf(c, l[k].rec)
        /\ \A r \in c.recs : \E k \in 1..n : l[k] = ItemOf(c, r)
        /\ \A i, j \in 1..n : i < j => l[i].rec < l[j].rec
    BY <1>1, ItemsInOrder
  <1>3. \A r \in c.recs : /\ ItemOf(c, r) \in Line /\ ItemOf(c, r).rec = r
                          /\ ItemOf(c, r).seq = c.seq[r]
    BY DEF ItemOf, Line, IsSession
  <1>4. l = [k \in 1..n |-> ItemOf(c, CHOOSE r \in c.recs :
                                         Cardinality({q \in c.recs : q <= r}) = k)]
    BY DEF ItemsOf
  <1> HIDE DEF l, n
  <1>5. l \in Seq(Line)
    <2>1. \A k \in 1..n : l[k] \in Line
      BY <1>2, <1>3
    <2>2. l = [k \in 1..n |-> l[k]]
      BY <1>4
    <2> QED BY <1>2, <2>1, <2>2, SeqFrom
  <1>6. \A k \in 1..n : l[k].seq = c.seq[l[k].rec]
    BY <1>2, <1>3
  <1>7. Rising(l)
    <2> SUFFICES ASSUME NEW i \in 1..n, NEW j \in 1..n, i < j PROVE l[i].seq < l[j].seq
      BY <1>2 DEF Rising
    <2> DEFINE x == <<l[i].rec, l[i].seq>>
               y == <<l[j].rec, l[j].seq>>
    <2>1. x \in Marks(c) /\ y \in Marks(c)
      BY <1>2, <1>6, MarkOf
    <2>2. l[i].rec < l[j].rec
      BY <1>2
    <2> QED BY <2>1, <2>2 DEF Agree
  <1>8. \A i \in DOMAIN l : l[i].seq \in Nat
    BY <1>5, LinesAre
  <1>9. SortedItems(l) = l
    BY <1>5, <1>7, <1>8, SortedStays
  <1>10. d = [[c EXCEPT !.items = l] EXCEPT !.exact = FALSE]
    BY <1>9 DEF Synthesized, l
  <1> HIDE DEF d
  <1>11. /\ d.recs = c.recs /\ d.seq = c.seq /\ d.version = c.version /\ d.items = l
         /\ d.exact = FALSE
         /\ d \in [recs : SUBSET Rec, seq : [Rec -> Nat], version : [Rec -> Nat],
                   items : Seq(Line), next : Nat \ {0}, exact : BOOLEAN]
    BY <1>5, <1>10 DEF IsSession
  <1>12. IsSession(d)
    BY <1>11 DEF IsSession
  <1>13. LineMarks(l) = RecMarks(c.recs, c.seq)
    <2>1. \A k \in DOMAIN l : <<l[k].rec, l[k].seq>> \in RecMarks(c.recs, c.seq)
      BY <1>2, <1>6 DEF RecMarks
    <2>2. ASSUME NEW r \in c.recs PROVE <<r, c.seq[r]>> \in LineMarks(l)
      <3>1. PICK k \in 1..n : l[k] = ItemOf(c, r)
        BY <1>2
      <3>2. l[k].rec = r /\ l[k].seq = c.seq[r]
        BY <1>3, <3>1
      <3> QED BY <1>2, <3>2 DEF LineMarks
    <2>3. LineMarks(l) \subseteq RecMarks(c.recs, c.seq)
      BY <2>1 DEF LineMarks
    <2>4. RecMarks(c.recs, c.seq) \subseteq LineMarks(l)
      BY <2>2 DEF RecMarks
    <2> QED BY <2>3, <2>4
  <1>14. Marks(d) = Marks(c)
    <2>1. LineMarks(c.items) = {}
      BY DEF LineMarks
    <2>2. Marks(c) = RecMarks(c.recs, c.seq) /\ Marks(d) = RecMarks(c.recs, c.seq)
      BY <1>11, <1>13, <2>1 DEF Marks
    <2> QED BY <2>2
  <1>15. IsComplete(d)
    <2>1. \A r : ItemOf(d, r) = ItemOf(c, r)
      BY <1>11 DEF ItemOf
    <2> QED BY <1>2, <1>11, <2>1 DEF IsComplete
  <1>16. ~NeedsSynthesis(d)
    BY <1>2, <1>11 DEF NeedsSynthesis
  <1> QED BY <1>7, <1>11, <1>12, <1>14, <1>15, <1>16 DEF d

\* What a save writes is in order, with the sequences of the session it was given.
LEMMA PreparedIs ==
    ASSUME NEW c, Sound(c)
    PROVE  LET p == Prepared(c)
           IN  Canonical(p) /\ Marks(p) = Marks(c) /\ (IsComplete(c) => IsComplete(p))
  <1> DEFINE n == Normalized(c)
             d == Synthesized(n)
             p == Prepared(c)
  <1>1. IsSession(c) /\ Rising(c.items) /\ Agree(Marks(c))
    BY DEF Sound
  <1>2. /\ Sound(n) /\ n.next = NextSequence(n) /\ Marks(n) = Marks(c)
        /\ n.recs = c.recs /\ n.seq = c.seq /\ n.version = c.version /\ n.items = c.items
    BY <1>1, NormalizedIs
  <1>3. p = IF NeedsSynthesis(n) THEN Normalized(d) ELSE n
    BY DEF Prepared
  <1>4. ASSUME NeedsSynthesis(n)
        PROVE  LET q == Normalized(d) IN Canonical(q) /\ Marks(q) = Marks(c) /\ IsComplete(q)
    <2> DEFINE q == Normalized(d)
    <2>1. IsSession(n) /\ n.items = <<>> /\ Agree(Marks(n))
      BY <1>2, <1>4 DEF Sound, NeedsSynthesis
    <2> HIDE DEF n
    <2>2. /\ IsSession(d) /\ Rising(d.items) /\ Marks(d) = Marks(n)
          /\ IsComplete(d) /\ ~NeedsSynthesis(d)
      BY <2>1, SynthesizedIs
    <2> HIDE DEF d
    <2>3. Agree(Marks(d))
      BY <2>1, <2>2
    <2>4. /\ Sound(q) /\ q.next = NextSequence(q) /\ Marks(q) = Marks(d)
          /\ q.recs = d.recs /\ q.seq = d.seq /\ q.version = d.version /\ q.items = d.items
          /\ ~NeedsSynthesis(q)
      BY <2>2, <2>3, NormalizedIs
    <2> HIDE DEF q
    <2>5. IsComplete(q)
      BY <2>2, <2>4 DEF IsComplete, ItemOf
    <2> QED BY <1>2, <2>2, <2>4, <2>5 DEF Canonical, q
  <1>5. ASSUME ~NeedsSynthesis(n)
        PROVE  Canonical(n) /\ Marks(n) = Marks(c) /\ (IsComplete(c) => IsComplete(n))
    <2> HIDE DEF n
    <2>1. IsComplete(c) => IsComplete(n)
      BY <1>2 DEF IsComplete, ItemOf
    <2> QED BY <1>2, <1>5, <2>1 DEF Canonical
  <1> HIDE DEF n, d
  <1> QED BY <1>3, <1>4, <1>5

-----------------------------------------------------------------------------
(* A record is made or changed.                                            *)

\* A set of numbers has a least one.
LEMMA LeastOf ==
    ASSUME NEW S, S \subseteq Nat, S # {}
    PROVE  \E x \in S : \A y \in S : ~(y < x)
  <1> DEFINE less == OpToRel(<, Nat)
  <1>1. \A y, x \in Nat : <<y, x>> \in less <=> y < x
    BY DEF OpToRel
  <1>2. IsWellFoundedOn(less, Nat)
    BY NatLessThanWellFounded
  <1> HIDE DEF less
  <1>3. PICK x \in S : \A y \in S : ~(<<y, x>> \in less)
    BY <1>2, WFMin
  <1>4. \A y \in S : ~(y < x)
    BY <1>1, <1>3, Zenon
  <1> QED
    BY <1>3, <1>4

\* The items up to a sequence are the first ones.
LEMMA FirstItems ==
    ASSUME NEW items \in Seq(Line), Rising(items), NEW s \in Nat
    PROVE  \E m \in 0..Len(items) :
               /\ Cardinality({i \in DOMAIN items : items[i].seq <= s}) = m
               /\ \A i \in DOMAIN items : items[i].seq <= s <=> i <= m
  <1> DEFINE n == Len(items)
             Beyond == {i \in 1..n + 1 : i \in 1..n => ~(items[i].seq <= s)}
  <1>1. n \in Nat /\ DOMAIN items = 1..n /\ \A i \in 1..n : items[i].seq \in Nat
    BY LinesAre
  <1>2. n + 1 \in Beyond /\ Beyond \subseteq Nat
    BY <1>1
  <1>3. PICK b \in Beyond : \A y \in Beyond : ~(y < b)
    <2> HIDE DEF Beyond
    <2> QED BY <1>2, LeastOf
  <1>4. b \in 1..n + 1 /\ (b \in 1..n => ~(items[b].seq <= s))
    BY <1>3
  <1> DEFINE m == b - 1
  <1>5. m \in 0..n /\ m \in Nat /\ b = m + 1
    BY <1>1, <1>4
  <1>6. ASSUME NEW i \in 1..n PROVE items[i].seq <= s <=> i <= m
    <2>1. CASE i < b
      <3>1. i \notin Beyond
        BY <1>3, <2>1
      <3>2. items[i].seq <= s
        BY <1>1, <3>1
      <3> HIDE DEF m
      <3> QED BY <1>1, <1>5, <2>1, <3>2
    <2>2. CASE i = b
      <3>1. ~(items[i].seq <= s)
        BY <1>4, <2>2
      <3> HIDE DEF m
      <3> QED BY <1>1, <1>5, <2>2, <3>1
    <2>3. CASE b < i
      <3>1. b \in 1..n
        BY <1>1, <1>4, <2>3
      <3>2. items[b].seq < items[i].seq /\ ~(items[b].seq <= s)
        BY <1>1, <1>4, <2>3, <3>1 DEF Rising
      <3>3. items[b].seq \in Nat /\ items[i].seq \in Nat
        BY <1>1, <3>1
      <3>4. ~(items[i].seq <= s)
        BY <3>2, <3>3
      <3> HIDE DEF m
      <3> QED BY <1>1, <1>5, <2>3, <3>4
    <2> QED BY <1>1, <1>4, <2>1, <2>2, <2>3
  <1> HIDE DEF m
  <1>7. {i \in DOMAIN items : items[i].seq <= s} = 1..m
    <2>1. \A i \in 1..m : i \in 1..n /\ i <= m
      BY <1>1, <1>5
    <2>2. \A i \in 1..n : i <= m => i \in 1..m
      BY <1>1, <1>5
    <2> QED BY <1>1, <1>6, <2>1, <2>2
  <1>8. Cardinality(1..m) = m
    BY <1>5, FS_Interval
  <1> QED BY <1>1, <1>5, <1>6, <1>7, <1>8

\* An item of a new sequence is put in where its sequence belongs.
LEMMA InsertedIs ==
    ASSUME NEW items \in Seq(Line), Rising(items), NEW item \in Line,
           \A i \in DOMAIN items : items[i].seq # item.seq
    PROVE  LET v == InsertItem(items, item)
           IN  /\ v \in Seq(Line) /\ Rising(v)
               /\ \A k \in DOMAIN v : v[k] = item \/ \E i \in DOMAIN items : v[k] = items[i]
               /\ \A i \in DOMAIN items : \E k \in DOMAIN v : v[k] = items[i]
               /\ \E k \in DOMAIN v : v[k] = item
  <1> DEFINE n == Len(items)
             v == InsertItem(items, item)
             low(m) == SubSeq(items, 1, m)
             high(m) == SubSeq(items, m + 1, n)
  <1>1. n \in Nat /\ DOMAIN items = 1..n /\ item.seq \in Nat
        /\ \A i \in 1..n : items[i] \in Line /\ items[i].seq \in Nat
    BY LinesAre DEF Line
  <1>2. PICK m \in 0..n : /\ Cardinality({i \in DOMAIN items : items[i].seq <= item.seq}) = m
                          /\ \A i \in DOMAIN items : items[i].seq <= item.seq <=> i <= m
    BY <1>1, FirstItems
  <1>3. v = (low(m) \o <<item>>) \o high(m)
    BY <1>2 DEF InsertItem
  <1>4. m \in Nat /\ m <= n
    BY <1>1, <1>2
  <1>5. low(m) \in Seq(Line) /\ Len(low(m)) = m /\ \A k \in 1..m : low(m)[k] = items[k]
    BY <1>1, <1>4, SubSeqProperties
  <1>6. high(m) \in Seq(Line) /\ Len(high(m)) = n - m
        /\ \A k \in 1..n - m : high(m)[k] = items[m + k]
    <2>1. /\ m + 1 \in Int /\ n \in Int /\ n - (m + 1) + 1 = n - m
          /\ IF m + 1 <= n THEN n - (m + 1) + 1 = n - m ELSE 0 = n - m
          /\ \A i \in m + 1..n : i \in 1..n
          /\ \A k \in 1..n - m : (m + 1) + k - 1 = m + k
      BY <1>1, <1>4
    <2>2. \A i \in m + 1..n : items[i] \in Line
      BY <1>1, <2>1
    <2>3. /\ high(m) \in Seq(Line)
          /\ Len(high(m)) = IF m + 1 <= n THEN n - (m + 1) + 1 ELSE 0
          /\ \A k \in 1..n - (m + 1) + 1 : high(m)[k] = items[(m + 1) + k - 1]
      <3> DEFINE from == m + 1
      <3>1. from \in Int /\ n \in Int /\ \A i \in from..n : items[i] \in Line
        BY <2>1, <2>2
      <3> HIDE DEF from
      <3>2. /\ SubSeq(items, from, n) \in Seq(Line)
            /\ Len(SubSeq(items, from, n)) = IF from <= n THEN n - from + 1 ELSE 0
            /\ \A k \in 1..n - from + 1 : SubSeq(items, from, n)[k] = items[from + k - 1]
        BY <3>1, SubSeqProperties
      <3> QED BY <3>2 DEF from
    <2> HIDE DEF high
    <2> QED BY <2>1, <2>3
  <1> DEFINE a == low(m) \o <<item>>
             h == high(m)
  <1>7. a \in Seq(Line) /\ Len(a) = m + 1 /\ (\A k \in 1..m : a[k] = items[k]) /\ a[m + 1] = item
    <2>1. <<item>> \in Seq(Line) /\ Len(<<item>>) = 1 /\ <<item>>[1] = item
      OBVIOUS
    <2> DEFINE b == low(m)
               w == <<item>>
    <2>2. b \in Seq(Line) /\ w \in Seq(Line) /\ Len(b) = m /\ Len(w) = 1 /\ w[1] = item
          /\ \A k \in 1..m : b[k] = items[k]
      BY <1>5, <2>1
    <2> HIDE DEF b, w
    <2>3. /\ b \o w \in Seq(Line) /\ Len(b \o w) = m + 1
          /\ \A k \in 1..m + 1 : (b \o w)[k] = IF k <= m THEN b[k] ELSE w[k - m]
      <3>1. /\ b \o w \in Seq(Line) /\ Len(b \o w) = Len(b) + Len(w)
            /\ \A k \in 1..Len(b) + Len(w) : (b \o w)[k] = IF k <= Len(b) THEN b[k] ELSE w[k - Len(b)]
        <4>1. b \in Seq(Line) /\ w \in Seq(Line)
          BY <2>2
        <4> QED BY ONLY <4>1, ConcatProperties
      <3> QED BY <2>2, <3>1
    <2>4. \A k \in 1..m : k \in 1..m + 1 /\ k <= m
      BY <1>4
    <2>5. m + 1 \in 1..m + 1 /\ ~(m + 1 <= m) /\ (m + 1) - m = 1
      BY <1>4
    <2> QED BY <2>2, <2>3, <2>4, <2>5 DEF b, w
  <1>8. h \in Seq(Line) /\ Len(h) = n - m /\ \A k \in 1..n - m : h[k] = items[m + k]
    BY <1>6
  <1>9. v = a \o h
    BY <1>3
  <1> HIDE DEF a, h, v, low, high
  <1>10. /\ v \in Seq(Line) /\ Len(v) = n + 1
         /\ \A k \in 1..n + 1 : v[k] = IF k <= m + 1 THEN a[k] ELSE h[k - (m + 1)]
    <2>1. /\ a \o h \in Seq(Line) /\ Len(a \o h) = Len(a) + Len(h)
          /\ \A k \in 1..Len(a) + Len(h) : (a \o h)[k] = IF k <= Len(a) THEN a[k] ELSE h[k - Len(a)]
      <3>1. a \in Seq(Line) /\ h \in Seq(Line)
        BY <1>7, <1>8
      <3> QED BY ONLY <3>1, ConcatProperties
    <2>2. Len(a) + Len(h) = n + 1
      BY <1>1, <1>4, <1>7, <1>8
    <2> QED BY <1>7, <1>9, <2>1, <2>2
  <1>11. DOMAIN v = 1..n + 1
    BY <1>10
  <1>12. \A k \in 1..n + 1 : /\ k <= m => k \in 1..n /\ v[k] = items[k]
                             /\ k = m + 1 => v[k] = item
                             /\ k > m + 1 => k - 1 \in 1..n /\ v[k] = items[k - 1]
    <2> SUFFICES ASSUME NEW k \in 1..n + 1
                 PROVE  /\ k <= m => k \in 1..n /\ v[k] = items[k]
                        /\ k = m + 1 => v[k] = item
                        /\ k > m + 1 => k - 1 \in 1..n /\ v[k] = items[k - 1]
      OBVIOUS
    <2>1. CASE k <= m
      <3>1. k \in 1..m /\ k <= m + 1 /\ k \in 1..n /\ ~(k = m + 1) /\ ~(k > m + 1)
        BY <1>1, <1>4, <2>1
      <3> QED BY <1>7, <1>10, <3>1
    <2>2. CASE k = m + 1
      <3>1. k <= m + 1 /\ ~(k <= m) /\ ~(k > m + 1)
        BY <1>4, <2>2
      <3> QED BY <1>7, <1>10, <2>2, <3>1
    <2>3. CASE k > m + 1
      <3>1. /\ ~(k <= m + 1) /\ ~(k <= m) /\ ~(k = m + 1) /\ k - 1 \in 1..n
            /\ k - (m + 1) \in 1..n - m /\ m + (k - (m + 1)) = k - 1
        BY <1>1, <1>4, <2>3
      <3>2. v[k] = h[k - (m + 1)] /\ h[k - (m + 1)] = items[m + (k - (m + 1))]
        BY <1>8, <1>10, <3>1
      <3> QED BY <3>1, <3>2
    <2>4. k <= m \/ k = m + 1 \/ k > m + 1
      BY <1>1, <1>4
    <2> QED BY <2>1, <2>2, <2>3, <2>4
  <1>13. \A k \in 1..n + 1 : k <= m \/ k = m + 1 \/ k > m + 1
    BY <1>1, <1>4
  <1>14. \A k \in DOMAIN v : v[k] = item \/ \E i \in DOMAIN items : v[k] = items[i]
    BY <1>1, <1>11, <1>12, <1>13
  <1>15. \E k \in DOMAIN v : v[k] = item
    <2>1. m + 1 \in 1..n + 1
      BY <1>1, <1>4
    <2> QED BY <1>11, <1>12, <2>1
  <1>16. ASSUME NEW i \in 1..n PROVE \E k \in DOMAIN v : v[k] = items[i]
    <2>1. CASE i <= m
      <3>1. i \in 1..n + 1
        BY <1>1
      <3> QED BY <1>11, <1>12, <2>1, <3>1
    <2>2. CASE ~(i <= m)
      <3>1. i + 1 \in 1..n + 1 /\ i + 1 > m + 1 /\ (i + 1) - 1 = i
        BY <1>1, <1>4, <2>2
      <3>2. v[i + 1] = items[(i + 1) - 1]
        BY <1>12, <3>1
      <3> QED BY <1>11, <3>1, <3>2
    <2> QED BY <2>1, <2>2
  <1>17. Rising(v)
    <2> SUFFICES ASSUME NEW j \in 1..n + 1, NEW k \in 1..n + 1, j < k PROVE v[j].seq < v[k].seq
      BY <1>11 DEF Rising
    <2>1. \A i \in 1..n : (i <= m => items[i].seq < item.seq) /\ (~(i <= m) => item.seq < items[i].seq)
      <3> SUFFICES ASSUME NEW i \in 1..n
                   PROVE  (i <= m => items[i].seq < item.seq) /\ (~(i <= m) => item.seq < items[i].seq)
        OBVIOUS
      <3> DEFINE x == items[i].seq
                 y == item.seq
      <3>1. x \in Nat /\ y \in Nat /\ x # y /\ (x <= y <=> i <= m)
        BY <1>1, <1>2
      <3> HIDE DEF x, y
      <3>2. (i <= m => x < y) /\ (~(i <= m) => y < x)
        BY <3>1
      <3> QED BY <3>2 DEF x, y
    <2>2. \A i, l \in 1..n : i < l => items[i].seq < items[l].seq
      BY <1>1 DEF Rising
    <2>3. CASE k <= m
      <3>1. j <= m
        BY <1>4, <2>3
      <3> QED BY <1>12, <2>2, <2>3, <3>1
    <2>4. CASE k = m + 1
      <3>1. j <= m
        BY <1>4, <2>4
      <3> QED BY <1>12, <2>1, <2>4, <3>1
    <2>5. CASE k > m + 1
      <3>1. k - 1 \in 1..n /\ v[k] = items[k - 1] /\ ~(k - 1 <= m)
        BY <1>4, <1>12, <2>5
      <3>2. CASE j <= m
        <4>1. j \in 1..n /\ v[j] = items[j] /\ j < k - 1
          BY <1>4, <1>12, <2>5, <3>2
        <4> QED BY <2>2, <3>1, <4>1
      <3>3. CASE j = m + 1
        BY <1>12, <2>1, <3>1, <3>3
      <3>4. CASE j > m + 1
        <4>1. j - 1 \in 1..n /\ v[j] = items[j - 1] /\ j - 1 < k - 1
          BY <1>12, <3>4
        <4> QED BY <2>2, <3>1, <4>1
      <3> QED BY <1>13, <3>2, <3>3, <3>4
    <2> QED BY <1>13, <2>3, <2>4, <2>5
  <1> QED BY <1>1, <1>10, <1>14, <1>15, <1>16, <1>17 DEF v

\* The item of a record takes the place of the one there was, or is put in.
LEMMA UpsertedIs ==
    ASSUME NEW items \in Seq(Line), Rising(items), NEW item \in Line,
           \A i \in DOMAIN items : items[i].seq = item.seq <=> items[i].rec = item.rec
    PROVE  LET v == UpsertItem(items, item)
           IN  /\ v \in Seq(Line) /\ Rising(v)
               /\ \A k \in DOMAIN v : v[k] = item \/ \E i \in DOMAIN items : v[k] = items[i]
               /\ \A i \in DOMAIN items : items[i].rec # item.rec => \E k \in DOMAIN v : v[k] = items[i]
               /\ \E k \in DOMAIN v : v[k] = item
  <1> DEFINE at == {i \in DOMAIN items : items[i].rec = item.rec}
             i == CHOOSE j \in at : TRUE
             v == UpsertItem(items, item)
  <1>1. CASE at = {}
    <2>1. v = InsertItem(items, item)
      BY <1>1 DEF UpsertItem
    <2>2. \A k \in DOMAIN items : items[k].seq # item.seq
      BY <1>1
    <2> HIDE DEF v
    <2> QED BY <2>1, <2>2, InsertedIs DEF v
  <1>2. CASE at # {}
    <2>1. i \in at
      BY <1>2
    <2>2. v = [items EXCEPT ![i] = item]
      BY <1>2, <2>1 DEF UpsertItem
    <2>3. i \in DOMAIN items /\ items[i].rec = item.rec /\ items[i].seq = item.seq
      BY <2>1
    <2> HIDE DEF v, i, at
    <2>4. /\ v \in Seq(Line) /\ DOMAIN v = DOMAIN items /\ v[i] = item
          /\ \A k \in DOMAIN items : k # i => v[k] = items[k]
      BY <2>2, <2>3
    <2>5. \A k \in DOMAIN v : v[k].seq = items[k].seq
      BY <2>3, <2>4
    <2>6. Rising(v)
      BY <2>4, <2>5 DEF Rising
    <2> QED BY <2>3, <2>4, <2>6 DEF v
  <1> QED BY <1>1, <1>2

\* The marks of a transcript an item is put into.
LEMMA UpsertedMarks ==
    ASSUME NEW items \in Seq(Line), Rising(items), NEW item \in Line,
           \A i \in DOMAIN items : items[i].seq = item.seq <=> items[i].rec = item.rec
    PROVE  LineMarks(UpsertItem(items, item)) = LineMarks(items) \cup {<<item.rec, item.seq>>}
  <1> DEFINE v == UpsertItem(items, item)
             new == <<item.rec, item.seq>>
  <1>1. /\ \A k \in DOMAIN v : v[k] = item \/ \E i \in DOMAIN items : v[k] = items[i]
        /\ \A i \in DOMAIN items : items[i].rec # item.rec => \E k \in DOMAIN v : v[k] = items[i]
        /\ \E k \in DOMAIN v : v[k] = item
    BY UpsertedIs
  <1> HIDE DEF v
  <1>2. LineMarks(v) \subseteq LineMarks(items) \cup {new}
    <2> SUFFICES ASSUME NEW k \in DOMAIN v
                 PROVE  <<v[k].rec, v[k].seq>> \in LineMarks(items) \cup {new}
      BY DEF LineMarks
    <2>1. CASE v[k] = item
      BY <2>1
    <2>2. CASE \E i \in DOMAIN items : v[k] = items[i]
      BY <2>2 DEF LineMarks
    <2> QED BY <1>1, <2>1, <2>2
  <1>3. new \in LineMarks(v)
    BY <1>1 DEF LineMarks
  <1>4. LineMarks(items) \subseteq LineMarks(v)
    <2> SUFFICES ASSUME NEW i \in DOMAIN items
                 PROVE  <<items[i].rec, items[i].seq>> \in LineMarks(v)
      BY DEF LineMarks
    <2>1. CASE items[i].rec = item.rec
      BY <1>3, <2>1
    <2>2. CASE items[i].rec # item.rec
      BY <1>1, <2>2 DEF LineMarks
    <2> QED BY <2>1, <2>2
  <1> QED BY <1>2, <1>3, <1>4 DEF v

\* A transcript is complete with an item for each record.
LEMMA UpsertedCompletes ==
    ASSUME NEW c, IsSession(c), Rising(c.items), IsComplete(c),
           NEW r, NEW d, NEW item \in Line, item = ItemOf(d, r), d.recs = c.recs \cup {r},
           d.items = UpsertItem(c.items, item),
           \A i \in DOMAIN c.items : c.items[i].seq = item.seq <=> c.items[i].rec = item.rec,
           \A q \in c.recs : q # r => ItemOf(d, q) = ItemOf(c, q)
    PROVE  IsComplete(d)
  <1> DEFINE v == UpsertItem(c.items, item)
  <1>1. c.items \in Seq(Line)
    BY DEF IsSession
  <1>2. /\ \A i \in DOMAIN c.items : c.items[i].rec # item.rec => \E k \in DOMAIN v : v[k] = c.items[i]
        /\ \E k \in DOMAIN v : v[k] = item
    BY <1>1, UpsertedIs
  <1> HIDE DEF v
  <1>3. d.items = v
    BY DEF v
  <1>4. ASSUME NEW q \in d.recs PROVE \E k \in DOMAIN d.items : d.items[k] = ItemOf(d, q)
    <2>1. CASE q = r
      BY <1>2, <1>3, <2>1
    <2>2. CASE q # r
      <3>1. q \in c.recs /\ ItemOf(d, q) = ItemOf(c, q)
        BY <2>2
      <3>2. PICK i \in DOMAIN c.items : c.items[i] = ItemOf(c, q)
        BY <3>1 DEF IsComplete
      <3>3. c.items[i].rec = q /\ item.rec = r
        BY <3>2 DEF ItemOf
      <3> QED BY <1>2, <1>3, <2>2, <3>1, <3>2, <3>3
    <2> QED BY <2>1, <2>2
  <1> QED BY <1>4 DEF IsComplete

\* A record that is made takes a place behind all.
LEMMA AddedIs ==
    ASSUME NEW c, Sound(c), NEW r \in Rec, \A q \in c.recs : q < r,
           \A i \in DOMAIN c.items : c.items[i].rec < r
    PROVE  LET d == AddRecord(c, r)
           IN  Sound(d) /\ Marks(c) \subseteq Marks(d) /\ (IsComplete(c) => IsComplete(d))
  <1> DEFINE s == c.next
             base == [c EXCEPT !.recs = @ \cup {r}, !.seq[r] = s, !.version[r] = 0, !.next = s + 1]
             item == ItemOf(base, r)
             d == AddRecord(c, r)
             new == <<r, s>>
  <1>1. IsSession(c) /\ Rising(c.items) /\ Agree(Marks(c)) /\ \A m \in Marks(c) : m[2] < s
    BY DEF Sound
  <1>2. s \in Nat \ {0} /\ s + 1 \in Nat \ {0} /\ r \in Nat /\ ~(r < r)
    BY <1>1, SessionStoreAssumption DEF IsSession
  <1>3. d = [base EXCEPT !.items = UpsertItem(@, item)]
    <2>1. (IF c.next < FirstReplaySequence THEN FirstReplaySequence ELSE c.next) = s
      BY <1>2 DEF FirstReplaySequence
    <2> HIDE DEF s
    <2> QED BY <2>1 DEF AddRecord
  <1>4. /\ base \in [recs : SUBSET Rec, seq : [Rec -> Nat], version : [Rec -> Nat],
                     items : Seq(Line), next : Nat \ {0}, exact : BOOLEAN]
        /\ base.recs = c.recs \cup {r} /\ base.items = c.items /\ base.next = s + 1
        /\ base.seq[r] = s /\ base.version[r] = 0
        /\ \A q \in Rec : q # r => base.seq[q] = c.seq[q] /\ base.version[q] = c.version[q]
    BY <1>1, <1>2 DEF IsSession
  <1> HIDE DEF base, s
  <1>5. item = [rec |-> r, seq |-> s, version |-> 0] /\ item \in Line /\ item.rec = r /\ item.seq = s
    BY <1>2, <1>4 DEF ItemOf, Line
  <1> HIDE DEF item
  <1>6. c.items \in Seq(Line) /\ c.recs \subseteq Rec /\ r \notin c.recs
    BY <1>1, <1>2 DEF IsSession
  <1>7. \A i \in DOMAIN c.items : c.items[i].seq = item.seq <=> c.items[i].rec = item.rec
    <2> SUFFICES ASSUME NEW i \in DOMAIN c.items
                 PROVE  c.items[i].seq # s /\ c.items[i].rec # r
      BY <1>5
    <2>1. <<c.items[i].rec, c.items[i].seq>> \in Marks(c)
      BY MarkOf
    <2>2. c.items[i].seq < s /\ c.items[i].rec < r
      BY <1>1, <2>1
    <2>3. c.items[i].seq \in Nat
      BY <1>6, LinesAre
    <2> QED BY <1>2, <2>2, <2>3
  <1> DEFINE v == UpsertItem(c.items, item)
  <1>8. v \in Seq(Line) /\ Rising(v)
    BY <1>1, <1>5, <1>6, <1>7, UpsertedIs
  <1>9. LineMarks(v) = LineMarks(c.items) \cup {new}
    BY <1>1, <1>5, <1>6, <1>7, UpsertedMarks
  <1> HIDE DEF v, d
  <1>10. /\ d \in [recs : SUBSET Rec, seq : [Rec -> Nat], version : [Rec -> Nat],
                   items : Seq(Line), next : Nat \ {0}, exact : BOOLEAN]
         /\ d.recs = c.recs \cup {r} /\ d.items = v /\ d.next = s + 1
         /\ d.seq = base.seq /\ d.version = base.version
    BY <1>3, <1>4, <1>8 DEF v
  <1>11. IsSession(d)
    <2>1. IsFiniteSet(d.recs)
      BY <1>1, <1>10, FS_AddElement DEF IsSession
    <2>2. \A q \in d.recs : d.seq[q] # 0
      BY <1>1, <1>2, <1>4, <1>6, <1>10 DEF IsSession
    <2>3. \A q \in Rec \ d.recs : d.seq[q] = 0 /\ d.version[q] = 0
      BY <1>1, <1>4, <1>10 DEF IsSession
    <2> QED BY <1>10, <2>1, <2>2, <2>3 DEF IsSession
  <1>12. Marks(d) = Marks(c) \cup {new}
    <2>1. \A q \in c.recs : d.seq[q] = c.seq[q]
      BY <1>4, <1>6, <1>10
    <2>2. RecMarks(d.recs, d.seq) = RecMarks(c.recs, c.seq) \cup {new}
      BY <1>4, <1>10, <2>1 DEF RecMarks
    <2> QED BY <1>9, <1>10, <2>2 DEF Marks
  <1>13. ASSUME NEW m \in Marks(c) PROVE m[1] < r /\ m[2] < s /\ m[1] \in Nat /\ m[2] \in Nat
    <2>1. m[1] \in Rec /\ m[2] \in Nat
      BY <1>1, NextAbove
    <2>2. m[1] < r
      <3>1. CASE \E q \in c.recs : m = <<q, c.seq[q]>>
        BY <3>1
      <3>2. CASE \E i \in DOMAIN c.items : m = <<c.items[i].rec, c.items[i].seq>>
        BY <3>2
      <3> QED BY <3>1, <3>2, MarkOf
    <2> QED BY <1>1, <2>1, <2>2, SessionStoreAssumption
  <1>14. Agree(Marks(d))
    <2> SUFFICES ASSUME NEW x \in Marks(d), NEW y \in Marks(d)
                 PROVE  (x[1] < y[1] => x[2] < y[2]) /\ (x[1] = y[1] => x[2] = y[2])
      BY DEF Agree
    <2>1. CASE x \in Marks(c) /\ y \in Marks(c)
      BY <1>1, <2>1 DEF Agree
    <2>2. CASE x = new /\ y = new
      BY <1>2, <2>2
    <2>3. CASE x \in Marks(c) /\ y = new
      <3>1. x[1] < r /\ x[2] < s /\ x[1] \in Nat /\ y[1] = r /\ y[2] = s
        BY <1>13, <2>3
      <3> QED BY <1>2, <3>1
    <2>4. CASE x = new /\ y \in Marks(c)
      <3>1. y[1] < r /\ y[1] \in Nat /\ x[1] = r
        BY <1>13, <2>4
      <3>2. ~(x[1] < y[1]) /\ x[1] # y[1]
        BY <1>2, <3>1
      <3> QED BY <3>2
    <2> QED BY <1>12, <2>1, <2>2, <2>3, <2>4
  <1>15. \A m \in Marks(d) : m[2] < d.next
    <2>1. \A m \in Marks(c) : m[2] < s + 1
      BY <1>2, <1>13
    <2>2. new[2] < s + 1
      BY <1>2
    <2> QED BY <1>10, <1>12, <2>1, <2>2
  <1>16. ASSUME IsComplete(c) PROVE IsComplete(d)
    <2>1. item = ItemOf(d, r)
      BY <1>10 DEF item, ItemOf
    <2>2. \A q \in c.recs : q # r => ItemOf(d, q) = ItemOf(c, q)
      BY <1>4, <1>6, <1>10 DEF ItemOf
    <2>3. d.recs = c.recs \cup {r} /\ d.items = UpsertItem(c.items, item)
      BY <1>10 DEF v
    <2> QED BY <1>1, <1>5, <1>7, <1>16, <2>1, <2>2, <2>3, UpsertedCompletes
  <1>17. Sound(d)
    BY <1>8, <1>10, <1>11, <1>14, <1>15 DEF Sound
  <1> QED BY <1>12, <1>16, <1>17 DEF d

\* A record that changes keeps its place.
LEMMA ChangedIs ==
    ASSUME NEW c, Sound(c), NEW r \in c.recs
    PROVE  LET d == ChangeRecord(c, r)
           IN  Sound(d) /\ Marks(d) = Marks(c) /\ (IsComplete(c) => IsComplete(d))
  <1> DEFINE base == [c EXCEPT !.version[r] = @ + 1]
             item == ItemOf(base, r)
             d == ChangeRecord(c, r)
             mark == <<r, c.seq[r]>>
  <1>1. IsSession(c) /\ Rising(c.items) /\ Agree(Marks(c)) /\ \A m \in Marks(c) : m[2] < c.next
    BY DEF Sound
  <1>2. /\ c.items \in Seq(Line) /\ c.recs \subseteq Rec /\ r \in Rec /\ r \in Nat
        /\ c.seq[r] \in Nat \ {0} /\ c.version[r] + 1 \in Nat
    BY <1>1, SessionStoreAssumption DEF IsSession
  <1>3. d = [base EXCEPT !.items = UpsertItem(@, item)]
    BY DEF ChangeRecord
  <1>4. /\ base \in [recs : SUBSET Rec, seq : [Rec -> Nat], version : [Rec -> Nat],
                     items : Seq(Line), next : Nat \ {0}, exact : BOOLEAN]
        /\ base.recs = c.recs /\ base.items = c.items /\ base.next = c.next /\ base.seq = c.seq
        /\ base.version[r] \in Nat
        /\ \A q \in Rec : q # r => base.version[q] = c.version[q]
    BY <1>1, <1>2 DEF IsSession
  <1> HIDE DEF base
  <1>5. item \in Line /\ item.rec = r /\ item.seq = c.seq[r]
    BY <1>2, <1>4 DEF ItemOf, Line
  <1> HIDE DEF item
  <1>6. mark \in Marks(c)
    BY MarkOf
  <1>7. \A i \in DOMAIN c.items : c.items[i].seq = item.seq <=> c.items[i].rec = item.rec
    <2> SUFFICES ASSUME NEW i \in DOMAIN c.items
                 PROVE  c.items[i].seq = c.seq[r] <=> c.items[i].rec = r
      BY <1>5
    <2> DEFINE x == c.items[i].rec
               y == c.items[i].seq
    <2>1. <<x, y>> \in Marks(c) /\ x \in Nat /\ y \in Nat
      BY <1>2, LinesAre, MarkOf, SessionStoreAssumption
    <2> HIDE DEF x, y
    <2>2. /\ (x < r => y < c.seq[r]) /\ (x = r => y = c.seq[r]) /\ (r < x => c.seq[r] < y)
      BY <1>1, <1>6, <2>1 DEF Agree
    <2>3. y = c.seq[r] <=> x = r
      BY <1>2, <2>1, <2>2
    <2> QED BY <2>3 DEF x, y
  <1> DEFINE v == UpsertItem(c.items, item)
  <1>8. v \in Seq(Line) /\ Rising(v)
    BY <1>1, <1>2, <1>5, <1>7, UpsertedIs
  <1>9. LineMarks(v) = LineMarks(c.items) \cup {mark}
    BY <1>1, <1>2, <1>5, <1>7, UpsertedMarks
  <1> HIDE DEF v, d
  <1>10. /\ d \in [recs : SUBSET Rec, seq : [Rec -> Nat], version : [Rec -> Nat],
                   items : Seq(Line), next : Nat \ {0}, exact : BOOLEAN]
         /\ d.recs = c.recs /\ d.items = v /\ d.next = c.next
         /\ d.seq = c.seq /\ d.version = base.version
    BY <1>3, <1>4, <1>8 DEF v
  <1>11. IsSession(d)
    BY <1>1, <1>2, <1>4, <1>10 DEF IsSession
  <1>12. Marks(d) = Marks(c)
    <2>1. Marks(d) = RecMarks(c.recs, c.seq) \cup (LineMarks(c.items) \cup {mark})
      BY <1>9, <1>10 DEF Marks
    <2> QED BY <1>6, <2>1 DEF Marks
  <1>13. ASSUME IsComplete(c) PROVE IsComplete(d)
    <2>1. item = ItemOf(d, r)
      BY <1>4, <1>10 DEF item, ItemOf
    <2>2. \A q \in c.recs : q # r => ItemOf(d, q) = ItemOf(c, q)
      BY <1>2, <1>4, <1>10 DEF ItemOf
    <2>3. d.recs = c.recs \cup {r} /\ d.items = UpsertItem(c.items, item)
      BY <1>10 DEF v
    <2> QED BY <1>1, <1>5, <1>7, <1>13, <2>1, <2>2, <2>3, UpsertedCompletes
  <1>14. Sound(d)
    BY <1>1, <1>8, <1>10, <1>11, <1>12 DEF Sound
  <1> QED BY <1>12, <1>13, <1>14 DEF d

\* What a sound session shows.
LEMMA SoundIsOrdered == ASSUME NEW c, Sound(c) PROVE IsOrdered(c)
  <1>1. IsSession(c) /\ Rising(c.items) /\ Agree(Marks(c)) /\ (\A m \in Marks(c) : m[2] < c.next)
        /\ c.next \in Nat
    BY DEF Sound, IsSession
  <1>2. \A q, r \in c.recs : q < r => c.seq[q] < c.seq[r]
    <2> SUFFICES ASSUME NEW q \in c.recs, NEW r \in c.recs, q < r PROVE c.seq[q] < c.seq[r]
      OBVIOUS
    <2>1. <<q, c.seq[q]>> \in Marks(c) /\ <<r, c.seq[r]>> \in Marks(c)
      BY MarkOf
    <2> QED BY <1>1, <2>1 DEF Agree
  <1>3. ASSUME NEW r \in c.recs PROVE c.seq[r] \in FirstReplaySequence..c.next - 1
    <2>1. <<r, c.seq[r]>> \in Marks(c)
      BY MarkOf
    <2>2. c.seq[r] < c.next
      BY <1>1, <2>1
    <2>3. c.seq[r] \in Nat \ {0}
      BY <1>1 DEF IsSession
    <2> QED BY <1>1, <2>2, <2>3 DEF FirstReplaySequence
  <1>4. ASSUME NEW i \in DOMAIN c.items
        PROVE  c.items[i].seq < c.next /\ (c.items[i].rec \in c.recs => c.items[i].seq = c.seq[c.items[i].rec])
    <2>1. <<c.items[i].rec, c.items[i].seq>> \in Marks(c)
      BY MarkOf
    <2>2. c.items[i].seq < c.next
      BY <1>1, <2>1
    <2>3. ASSUME c.items[i].rec \in c.recs PROVE c.items[i].seq = c.seq[c.items[i].rec]
      <3>1. <<c.items[i].rec, c.seq[c.items[i].rec]>> \in Marks(c)
        BY <2>3, MarkOf
      <3> QED BY <1>1, <2>1, <3>1 DEF Agree
    <2> QED BY <2>2, <2>3
  <1> QED BY <1>1, <1>2, <1>3, <1>4 DEF IsOrdered, Rising

-----------------------------------------------------------------------------
(* The files of a session.                                                 *)

IsLines(f) == f \in [exists : BOOLEAN, torn : BOOLEAN, lines : Seq(Line)]

IsMeta(m) ==
    /\ m \in [state : {"missing", "torn", "whole"}, recs : SUBSET MetaRec, seq : [Rec -> Nat],
              version : [Rec -> Nat], exact : BOOLEAN, format : {LegacyFormat, CanonicalFormat}]
    /\ IsFiniteSet(m.recs)
    /\ \A r \in m.recs : m.seq[r] # 0
    /\ \A r \in Rec \ m.recs : m.seq[r] = 0 /\ m.version[r] = 0
    /\ m.state = "whole" <=> m.format = CanonicalFormat
    /\ m.state # "whole" => m.recs = {}

FileMarks(f) ==
    (RecMarks(f.meta.recs, f.meta.seq) \cup LineMarks(f.turns.lines)) \cup LineMarks(f.items.lines)

Shape(f) == f = [meta |-> f.meta, turns |-> f.turns, items |-> f.items]

\* The files of a session that no earlier version wrote, whatever stopped their saves.
SoundFiles(f) ==
    /\ Shape(f)
    /\ IsMeta(f.meta) /\ IsLines(f.turns) /\ IsLines(f.items)
    /\ \A i \in DOMAIN f.turns.lines : f.turns.lines[i].rec \in TurnRec
    /\ Rising(f.items.lines) /\ (~f.items.exists => f.items.lines = <<>>)
    /\ f.meta.state = "missing" => FileMarks(f) = {}
    /\ Agree(FileMarks(f))

\* The files a completed save leaves.
FilesOf(c) == [meta |-> MetaOf(c),
               turns |-> [exists |-> TRUE, torn |-> FALSE, lines |-> TurnLines(c)],
               items |-> [exists |-> TRUE, torn |-> FALSE, lines |-> c.items]]

\* Where the marks of files come from.
LEMMA FileMark ==
    ASSUME NEW f
    PROVE  /\ \A r \in f.meta.recs : <<r, f.meta.seq[r]>> \in FileMarks(f)
           /\ \A i \in DOMAIN f.turns.lines :
                <<f.turns.lines[i].rec, f.turns.lines[i].seq>> \in FileMarks(f)
           /\ LineMarks(f.turns.lines) \subseteq FileMarks(f)
           /\ LineMarks(f.items.lines) \subseteq FileMarks(f)
  BY DEF FileMarks, RecMarks, LineMarks

\* What is read from files before it is normalised.
Read(f) ==
    LET lines == f.turns.lines
        turns == {lines[i].rec : i \in DOMAIN lines}
    IN  [recs |-> f.meta.recs \cup turns,
         seq |-> [r \in Rec |-> IF r \in turns THEN LineOf(lines, r).seq ELSE f.meta.seq[r]],
         version |-> [r \in Rec |-> IF r \in turns THEN LineOf(lines, r).version
                                    ELSE f.meta.version[r]],
         items |-> IF HasExactItems(f) THEN f.items.lines ELSE <<>>,
         next |-> FirstReplaySequence,
         exact |-> HasExactItems(f) /\ f.meta.exact]

\* load() normalises what it reads.
LEMMA LoadedReads ==
    ASSUME NEW f
    PROVE  Loaded(f) = LET whole == Normalized(Read(f))
                       IN  IF ~ HasExactItems(f) \/ NeedsSynthesis(whole)
                           THEN Normalized(Synthesized(whole)) ELSE whole
  BY DEF Loaded, Read

\* The line of a record that has one.
LEMMA LineIs ==
    ASSUME NEW lines, NEW i \in DOMAIN lines
    PROVE  \E j \in DOMAIN lines : LineOf(lines, lines[i].rec) = lines[j] /\ lines[j].rec = lines[i].rec
  <1> DEFINE r == lines[i].rec
             j == CHOOSE k \in DOMAIN lines : lines[k].rec = r
  <1>1. j \in DOMAIN lines /\ lines[j].rec = r
    OBVIOUS
  <1>2. LineOf(lines, r) = lines[j]
    BY DEF LineOf
  <1> QED BY <1>1, <1>2

\* Whole files hold a session: its marks are those of the files.
LEMMA ReadIs ==
    ASSUME NEW f, SoundFiles(f), f.meta.state = "whole"
    PROVE  LET c == Read(f)
           IN  IsSession(c) /\ Rising(c.items) /\ Agree(Marks(c)) /\ Marks(c) = FileMarks(f)
               /\ (HasExactItems(f) <=> f.items.exists)
  <1> DEFINE c == Read(f)
             lines == f.turns.lines
             n == Len(lines)
             turns == {lines[i].rec : i \in DOMAIN lines}
             seq == [r \in Rec |-> IF r \in turns THEN LineOf(lines, r).seq ELSE f.meta.seq[r]]
             version == [r \in Rec |-> IF r \in turns THEN LineOf(lines, r).version
                                       ELSE f.meta.version[r]]
             g == [i \in 1..n |-> lines[i].rec]
  <1>1. IsMeta(f.meta) /\ IsLines(f.turns) /\ IsLines(f.items) /\ Rising(f.items.lines)
        /\ (\A i \in DOMAIN lines : lines[i].rec \in TurnRec) /\ Agree(FileMarks(f))
        /\ (~f.items.exists => f.items.lines = <<>>)
    BY DEF SoundFiles
  <1>2. lines \in Seq(Line) /\ f.items.lines \in Seq(Line)
    BY <1>1 DEF IsLines
  <1>3. HasExactItems(f) <=> f.items.exists
    BY <1>1 DEF IsMeta, HasExactItems, CanonicalFormat
  <1>4. c.items = f.items.lines /\ c.recs = f.meta.recs \cup turns /\ c.seq = seq
        /\ c.version = version /\ c.next = 1 /\ c.exact = (HasExactItems(f) /\ f.meta.exact)
    <2>1. (IF HasExactItems(f) THEN f.items.lines ELSE <<>>) = f.items.lines
      BY <1>1, <1>3
    <2> QED BY <2>1 DEF Read, FirstReplaySequence
  <1>5. /\ n \in Nat /\ DOMAIN lines = 1..n
        /\ \A i \in 1..n : lines[i].rec \in Rec /\ lines[i].seq \in Nat /\ lines[i].seq # 0
                           /\ lines[i].version \in Nat
    BY <1>2, LinesAre
  <1> HIDE DEF c, lines, seq, version
  <1>6. turns \subseteq Rec /\ turns \subseteq TurnRec /\ \A r \in turns : \E i \in 1..n : lines[i].rec = r
    BY <1>1, <1>5
  <1>7. IsFiniteSet(turns)
    <2>1. g \in Surjection(1..n, turns)
      BY <1>5 DEF Surjection
    <2> HIDE DEF g, turns
    <2> QED BY <1>5, <2>1, FS_Surjection, FS_Interval
  <1> HIDE DEF turns
  <1>8. ASSUME NEW r \in turns
        PROVE  \E j \in 1..n : /\ LineOf(lines, r) = lines[j] /\ lines[j].rec = r
                               /\ seq[r] = lines[j].seq /\ version[r] = lines[j].version
    <2>1. PICK i \in 1..n : lines[i].rec = r
      BY <1>6
    <2>2. PICK j \in 1..n : LineOf(lines, r) = lines[j] /\ lines[j].rec = r
      <3>1. i \in DOMAIN lines
        BY <1>5
      <3>2. \E j \in DOMAIN lines : LineOf(lines, lines[i].rec) = lines[j] /\ lines[j].rec = lines[i].rec
        BY <3>1, LineIs
      <3> QED BY <1>5, <2>1, <3>2
    <2>3. seq[r] = LineOf(lines, r).seq /\ version[r] = LineOf(lines, r).version
      BY <1>6 DEF seq, version
    <2> QED BY <2>2, <2>3
  <1>9. \A r \in Rec \ turns : seq[r] = f.meta.seq[r] /\ version[r] = f.meta.version[r]
    BY DEF seq, version
  <1>10. ASSUME NEW r \in Rec PROVE seq[r] \in Nat /\ version[r] \in Nat
    <2>1. CASE r \in turns
      BY <1>5, <1>8, <2>1
    <2>2. CASE r \notin turns
      <3>1. f.meta.seq \in [Rec -> Nat] /\ f.meta.version \in [Rec -> Nat]
        BY <1>1 DEF IsMeta
      <3> QED BY <1>9, <2>2, <3>1
    <2> QED BY <2>1, <2>2
  <1>11. seq \in [Rec -> Nat] /\ version \in [Rec -> Nat]
    <2>1. seq = [r \in Rec |-> seq[r]] /\ version = [r \in Rec |-> version[r]]
      BY DEF seq, version
    <2> QED BY <1>10, <2>1
  <1>12. f.meta.recs \subseteq Rec /\ IsFiniteSet(f.meta.recs) /\ f.meta.recs \cap turns = {}
         /\ f.meta.exact \in BOOLEAN
    BY <1>1, <1>6, SessionStoreAssumption DEF IsMeta, Rec
  <1>13. IsSession(c)
    <2>1. IsFiniteSet(c.recs) /\ c.recs \subseteq Rec
      <3>1. IsFiniteSet(f.meta.recs \cup turns)
        BY <1>7, <1>12, FS_Union
      <3> QED BY <1>4, <1>6, <1>12, <3>1
    <2>2. \A r \in c.recs : c.seq[r] # 0
      <3>1. \A r \in turns : seq[r] # 0
        BY <1>5, <1>8
      <3>2. \A r \in f.meta.recs : seq[r] # 0
        BY <1>1, <1>9, <1>12 DEF IsMeta
      <3> QED BY <1>4, <3>1, <3>2
    <2>3. \A r \in Rec \ c.recs : c.seq[r] = 0 /\ c.version[r] = 0
      BY <1>1, <1>4, <1>9 DEF IsMeta
    <2>4. c.exact \in BOOLEAN
      BY <1>3, <1>4, <1>12
    <2>5. c \in [recs : SUBSET Rec, seq : [Rec -> Nat], version : [Rec -> Nat],
                 items : Seq(Line), next : Nat \ {0}, exact : BOOLEAN]
      <3>1. c.items \in Seq(Line) /\ c.next \in Nat \ {0} /\ c.seq \in [Rec -> Nat]
            /\ c.version \in [Rec -> Nat] /\ c.recs \in SUBSET Rec
        BY <1>2, <1>4, <1>11, <2>1
      <3>2. c = [recs |-> c.recs, seq |-> c.seq, version |-> c.version, items |-> c.items,
                 next |-> c.next, exact |-> c.exact]
        BY DEF c, Read
      <3> QED BY <2>4, <3>1, <3>2
    <2> QED BY <2>1, <2>2, <2>3, <2>5 DEF IsSession
  <1>14. Marks(c) = FileMarks(f)
    <2>1. \A r \in f.meta.recs : seq[r] = f.meta.seq[r]
      BY <1>9, <1>12
    <2>2. ASSUME NEW i \in 1..n PROVE lines[i].rec \in turns /\ seq[lines[i].rec] = lines[i].seq
      <3>1. lines[i].rec \in turns
        BY <1>5 DEF turns
      <3>2. PICK j \in 1..n : lines[j].rec = lines[i].rec /\ seq[lines[i].rec] = lines[j].seq
        BY <1>8, <3>1
      <3>3. <<lines[i].rec, lines[i].seq>> \in FileMarks(f) /\ <<lines[j].rec, lines[j].seq>> \in FileMarks(f)
        BY <1>5, FileMark DEF lines
      <3>4. lines[i].seq = lines[j].seq
        BY <1>1, <3>2, <3>3 DEF Agree
      <3> QED BY <3>1, <3>2, <3>4
    <2>3. LineMarks(lines) = RecMarks(turns, seq)
      <3>1. LineMarks(lines) \subseteq RecMarks(turns, seq)
        BY <1>5, <2>2 DEF LineMarks, RecMarks
      <3>2. ASSUME NEW r \in turns PROVE <<r, seq[r]>> \in LineMarks(lines)
        BY <1>5, <1>8 DEF LineMarks
      <3>3. RecMarks(turns, seq) \subseteq LineMarks(lines)
        BY <3>2 DEF RecMarks
      <3> QED BY <3>1, <3>3
    <2>4. RecMarks(f.meta.recs \cup turns, seq) = RecMarks(f.meta.recs, f.meta.seq) \cup RecMarks(turns, seq)
      BY <2>1 DEF RecMarks
    <2> QED BY <1>4, <2>3, <2>4 DEF Marks, FileMarks, lines
  <1> QED BY <1>1, <1>3, <1>4, <1>13, <1>14 DEF c

\* A load gives a session in order with the marks of the files.
LEMMA LoadedIs ==
    ASSUME NEW f, SoundFiles(f), f.meta.state = "whole"
    PROVE  Sound(Loaded(f)) /\ Marks(Loaded(f)) = FileMarks(f)
  <1> DEFINE c == Read(f)
             n == Normalized(c)
             d == Synthesized(n)
  <1>1. IsSession(c) /\ Rising(c.items) /\ Agree(Marks(c)) /\ Marks(c) = FileMarks(f)
        /\ (HasExactItems(f) <=> f.items.exists)
    BY ReadIs
  <1>2. Loaded(f) = IF ~ HasExactItems(f) \/ NeedsSynthesis(n) THEN Normalized(d) ELSE n
    BY LoadedReads
  <1>3. ~HasExactItems(f) => c.items = <<>>
    BY DEF Read
  <1> HIDE DEF c
  <1>4. Sound(n) /\ Marks(n) = Marks(c) /\ n.items = c.items
    BY <1>1, NormalizedIs
  <1>5. ASSUME ~ HasExactItems(f) \/ NeedsSynthesis(n)
        PROVE  Sound(Normalized(d)) /\ Marks(Normalized(d)) = Marks(n)
    <2>1. IsSession(n) /\ n.items = <<>> /\ Agree(Marks(n))
      BY <1>3, <1>4, <1>5 DEF Sound, NeedsSynthesis
    <2> HIDE DEF n
    <2>2. IsSession(d) /\ Rising(d.items) /\ Marks(d) = Marks(n)
      BY <2>1, SynthesizedIs
    <2>3. Agree(Marks(d))
      BY <2>1, <2>2
    <2> HIDE DEF d
    <2> QED BY <2>2, <2>3, NormalizedIs
  <1> HIDE DEF n, d
  <1> QED BY <1>1, <1>2, <1>4, <1>5

\* A load reads back what a completed save wrote.
LEMMA LoadedBack ==
    ASSUME NEW c, Canonical(c)
    PROVE  Loadable(FilesOf(c)) /\ Loaded(FilesOf(c)) = c
  <1> DEFINE f == FilesOf(c)
             lines == TurnLines(c)
             turns == {lines[i].rec : i \in DOMAIN lines}
             S == c.recs \cap TurnRec
             n == Cardinality(S)
             r0 == Read(f)
  <1>1. IsSession(c) /\ Rising(c.items) /\ Agree(Marks(c))
    BY DEF Canonical, Sound
  <1>2. f.meta = MetaOf(c) /\ f.turns.lines = lines /\ f.items.lines = c.items /\ f.items.exists
        /\ f.turns.torn = FALSE /\ f.items.torn = FALSE
    BY DEF FilesOf
  <1>3. /\ f.meta.state = "whole" /\ f.meta.format = CanonicalFormat /\ f.meta.exact = c.exact
        /\ f.meta.recs = c.recs \cap MetaRec
        /\ f.meta.seq = [r \in Rec |-> IF r \in MetaRec THEN c.seq[r] ELSE 0]
        /\ f.meta.version = [r \in Rec |-> IF r \in MetaRec THEN c.version[r] ELSE 0]
    BY <1>2 DEF MetaOf
  <1> HIDE DEF f
  <1>4. HasExactItems(f) /\ Loadable(f)
    BY <1>2, <1>3 DEF HasExactItems, Loadable, CanonicalFormat
  <1>5. S \in SUBSET Nat /\ IsFiniteSet(S)
    <2>1. c.recs \subseteq Nat /\ IsFiniteSet(c.recs)
      BY <1>1, SessionStoreAssumption DEF IsSession
    <2> QED BY <2>1, FS_Subset
  <1>6. lines = ItemsOf(c, S)
    BY DEF TurnLines
  <1> HIDE DEF lines
  <1>7. /\ n \in Nat /\ DOMAIN lines = 1..n
        /\ \A k \in 1..n : lines[k].rec \in S /\ lines[k] = ItemOf(c, lines[k].rec)
        /\ \A r \in S : \E k \in 1..n : lines[k] = ItemOf(c, r)
    BY <1>5, <1>6, ItemsInOrder
  <1> HIDE DEF n
  <1>8. turns = S
    <2>1. \A r : ItemOf(c, r).rec = r
      BY DEF ItemOf
    <2>2. \A r \in S : \E k \in 1..n : lines[k].rec = r
      BY <1>7, <2>1
    <2> HIDE DEF S
    <2> QED BY <1>7, <2>2
  <1>9. ASSUME NEW r \in S PROVE LineOf(lines, r).seq = c.seq[r] /\ LineOf(lines, r).version = c.version[r]
    <2>1. PICK i \in DOMAIN lines : lines[i].rec = r
      <3>1. ItemOf(c, r).rec = r
        BY DEF ItemOf
      <3> QED BY <1>7, <1>9, <3>1
    <2>2. PICK j \in DOMAIN lines : LineOf(lines, r) = lines[j] /\ lines[j].rec = r
      BY <2>1, LineIs
    <2>3. lines[j] = ItemOf(c, r)
      BY <1>7, <2>2
    <2> QED BY <2>2, <2>3 DEF ItemOf
  <1> DEFINE seq == [r \in Rec |-> IF r \in turns THEN LineOf(lines, r).seq ELSE f.meta.seq[r]]
             version == [r \in Rec |-> IF r \in turns THEN LineOf(lines, r).version
                                       ELSE f.meta.version[r]]
  <1>10. /\ r0.recs = f.meta.recs \cup turns /\ r0.items = c.items
         /\ r0.seq = seq /\ r0.version = version /\ r0.exact = (HasExactItems(f) /\ f.meta.exact)
         /\ r0.next = FirstReplaySequence
         /\ r0 = [recs |-> r0.recs, seq |-> r0.seq, version |-> r0.version, items |-> r0.items,
                  next |-> r0.next, exact |-> r0.exact]
    BY <1>2, <1>4 DEF Read
  <1> HIDE DEF r0, turns
  <1>11. c.recs \subseteq Rec /\ c.seq \in [Rec -> Nat] /\ c.version \in [Rec -> Nat]
         /\ (\A r \in Rec \ c.recs : c.seq[r] = 0 /\ c.version[r] = 0) /\ c.exact \in BOOLEAN
    BY <1>1 DEF IsSession
  <1>12. \A r \in Rec : r \in S \/ r \in MetaRec \/ (r \in TurnRec /\ r \notin c.recs)
    BY DEF Rec
  <1>13. \A r \in Rec : seq[r] = c.seq[r] /\ version[r] = c.version[r]
    <2> SUFFICES ASSUME NEW r \in Rec PROVE seq[r] = c.seq[r] /\ version[r] = c.version[r]
      OBVIOUS
    <2>1. CASE r \in S
      BY <1>8, <1>9, <2>1
    <2>2. CASE r \in MetaRec
      <3>1. r \notin S
        BY <2>2, SessionStoreAssumption
      <3> QED BY <1>3, <1>8, <2>2, <3>1
    <2>3. CASE r \in TurnRec /\ r \notin c.recs
      <3>1. r \notin S /\ r \notin MetaRec
        BY <2>3, SessionStoreAssumption
      <3> QED BY <1>3, <1>8, <1>11, <2>3, <3>1
    <2> QED BY <1>12, <2>1, <2>2, <2>3
  <1>14. seq = c.seq /\ version = c.version
    BY <1>11, <1>13
  <1>15. r0.recs = c.recs /\ r0.exact = c.exact
    <2>1. f.meta.recs \cup turns = c.recs
      BY <1>3, <1>8, <1>11 DEF Rec
    <2>2. (HasExactItems(f) /\ f.meta.exact) = c.exact
      BY <1>3, <1>4, <1>11
    <2> QED BY <1>10, <2>1, <2>2
  <1> HIDE DEF seq, version
  <1>16. r0 = [c EXCEPT !.next = FirstReplaySequence]
    BY <1>1, <1>10, <1>14, <1>15 DEF IsSession
  <1>17. IsSession(r0) /\ Marks(r0) = Marks(c)
    <2>1. r0.recs = c.recs /\ r0.seq = c.seq /\ r0.version = c.version /\ r0.items = c.items
      BY <1>10, <1>14, <1>15
    <2>2. r0 \in [recs : SUBSET Rec, seq : [Rec -> Nat], version : [Rec -> Nat],
                  items : Seq(Line), next : Nat \ {0}, exact : BOOLEAN]
      <3>1. c \in [recs : SUBSET Rec, seq : [Rec -> Nat], version : [Rec -> Nat],
                   items : Seq(Line), next : Nat \ {0}, exact : BOOLEAN]
        BY <1>1 DEF IsSession
      <3>2. FirstReplaySequence \in Nat \ {0}
        BY DEF FirstReplaySequence
      <3> QED BY <1>16, <3>1, <3>2
    <2> QED BY <1>1, <2>1, <2>2 DEF IsSession, Marks
  <1>18. NextSequence(r0) = c.next
    BY <1>1, <1>17, NextByMarks DEF Canonical
  <1>19. Normalized(r0) = [r0 EXCEPT !.next = NextSequence(r0)]
         /\ (NeedsSynthesis(Normalized(r0)) <=> NeedsSynthesis(r0))
    BY <1>1, <1>10, <1>17, NormalizedIs
  <1>20. Normalized(r0) = c
    <2>1. Normalized(r0) = [[c EXCEPT !.next = FirstReplaySequence] EXCEPT !.next = c.next]
      BY <1>16, <1>18, <1>19
    <2>2. c \in [recs : SUBSET Rec, seq : [Rec -> Nat], version : [Rec -> Nat],
                 items : Seq(Line), next : Nat \ {0}, exact : BOOLEAN]
      BY <1>1 DEF IsSession
    <2> QED BY <2>1, <2>2
  <1>21. Loaded(f) = c
    BY <1>4, <1>20, LoadedReads DEF Canonical, r0
  <1> QED BY <1>4, <1>21 DEF f

-----------------------------------------------------------------------------
(* The invariant.  Nothing is said of the legacy session but its shape.    *)

Modern == Session \ {LegacySession}

\* A save is being written, or was and its caller is not back yet.
Writing == save.at \in {"meta", "turns", "items", "latest"} \/ (save.at = "done" /\ save.n # 0)

\* No save of the session is under way, and the last one came through.
AtRest(s) == s \notin torn /\ (save.s = s => ~Writing)

ShapeInv ==
    /\ DOMAIN disk = Session /\ DOMAIN mem = Session /\ DOMAIN saved = Session
    /\ \A s \in Session : Shape(disk[s])
    /\ open \subseteq Session /\ busy \subseteq open
    /\ save = [at |-> save.at, s |-> save.s, n |-> save.n, c |-> save.c, mem |-> save.mem,
               then |-> save.then]
    /\ save.at \in {"idle", "meta", "turns", "items", "latest", "done"}
    /\ save.at = "idle" => save.s = NoId
    /\ save.at # "idle" => save.s \in Session /\ disk[save.s].meta.state # "missing"
    /\ save.at \in {"turns", "items"} => save.n \in Nat
    /\ latest \in Session => disk[latest].meta.state # "missing"

FilesInv == \A s \in Modern : SoundFiles(disk[s])

\* A session in memory has all that its files have: no new record comes before them.
MemoryInv ==
    \A s \in Modern :
        /\ Sound(mem[s])
        /\ s \in open => FileMarks(disk[s]) \subseteq Marks(mem[s])
        /\ s \in open \ scarred => IsComplete(mem[s])

\* So has what is being saved, and whoever holds the session open has that.
SaveInv ==
    save.at # "idle" /\ save.s \in Modern =>
        /\ Sound(save.mem)
        /\ FileMarks(disk[save.s]) \subseteq Marks(save.mem)
        /\ save.s \in open => Marks(save.mem) \subseteq Marks(mem[save.s])
        /\ save.s \notin scarred => IsComplete(save.mem)
        /\ Writing => /\ Canonical(save.c) /\ Marks(save.c) = Marks(save.mem)
                      /\ save.s \notin scarred => IsComplete(save.c)

Whole(lines) == [exists |-> TRUE, torn |-> FALSE, lines |-> lines]

\* How far a save is.
ProgressInv ==
    Writing /\ save.s \in Modern =>
        /\ save.at = "meta" => disk[save.s].meta.state = "torn"
        /\ save.at # "meta" => disk[save.s].meta = MetaOf(save.c)
        /\ save.at = "turns" => save.n <= Len(TurnLines(save.c))
        /\ save.at \notin {"meta", "turns"} => disk[save.s].turns = Whole(TurnLines(save.c))
        /\ save.at = "items" => save.n <= Len(save.c.items)
        /\ save.at \in {"latest", "done"} => disk[save.s].items = Whole(save.c.items)

SavedInv ==
    \A s \in Modern :
        /\ Canonical(saved[s])
        /\ s \notin scarred => IsComplete(saved[s])
        /\ AtRest(s) /\ disk[s].meta.state = "whole" => disk[s] = FilesOf(saved[s])

IInv == ShapeInv /\ FilesInv /\ MemoryInv /\ SaveInv /\ ProgressInv /\ SavedInv

-----------------------------------------------------------------------------
(* What one write leaves in the files.                                     *)

\* Fewer marks agree no less.
LEMMA AgreeSub ==
    ASSUME NEW A, NEW B, A \subseteq B, Agree(B)
    PROVE  Agree(A)
  BY DEF Agree

\* A new session has no record, and is written as it is.
LEMMA NewIs == Canonical(NewSession) /\ Marks(NewSession) = {} /\ IsComplete(NewSession)
  <1> DEFINE c == NewSession
  <1>1. /\ c.recs = {} /\ c.items = <<>> /\ c.next = FirstReplaySequence /\ c.exact = TRUE
        /\ c.seq = [r \in Rec |-> 0] /\ c.version = [r \in Rec |-> 0]
        /\ c = [recs |-> c.recs, seq |-> c.seq, version |-> c.version, items |-> c.items,
                next |-> c.next, exact |-> c.exact]
    BY DEF NewSession
  <1> HIDE DEF c
  <1>2. <<>> \in Seq(Line) /\ DOMAIN c.items = {} /\ Rising(c.items)
    BY <1>1 DEF Rising
  <1>3. IsSession(c)
    <2>1. IsFiniteSet(c.recs)
      BY <1>1, FS_EmptySet
    <2>2. FirstReplaySequence \in Nat \ {0}
      BY DEF FirstReplaySequence
    <2>3. c.seq \in [Rec -> Nat] /\ c.version \in [Rec -> Nat]
      BY <1>1
    <2>4. c.recs \in SUBSET Rec /\ c.items \in Seq(Line) /\ c.next \in Nat \ {0} /\ c.exact \in BOOLEAN
      BY <1>1, <1>2, <2>2
    <2>5. c \in [recs : SUBSET Rec, seq : [Rec -> Nat], version : [Rec -> Nat],
                 items : Seq(Line), next : Nat \ {0}, exact : BOOLEAN]
      BY <1>1, <2>3, <2>4
    <2>6. \A r \in Rec : c.seq[r] = 0 /\ c.version[r] = 0
      BY <1>1
    <2> QED BY <1>1, <2>1, <2>5, <2>6 DEF IsSession
  <1>4. Marks(c) = {}
    BY <1>1, <1>2, MarkOf
  <1>5. Agree(Marks(c)) /\ \A m \in Marks(c) : m[2] < c.next
    BY <1>4 DEF Agree
  <1>6. c.next = NextSequence(c)
    <2>1. Sequences(c) = {}
      BY <1>1, <1>2 DEF Sequences
    <2> QED BY <1>1, <2>1 DEF NextSequence
  <1>7. ~NeedsSynthesis(c) /\ IsComplete(c)
    BY <1>1 DEF NeedsSynthesis, IsComplete
  <1> QED BY <1>2, <1>3, <1>4, <1>5, <1>6, <1>7 DEF Canonical, Sound, c

\* The metadata of a file that was just truncated.
Cut == [Missing EXCEPT !.state = "torn"]

\* No metadata, and that of a file just truncated, hold no record.
LEMMA BareMeta ==
    ASSUME NEW m, m \in {Missing, Cut}
    PROVE  /\ IsMeta(m) /\ m.recs = {}
           /\ m.state = IF m = Cut THEN "torn" ELSE "missing"
  <1>1. /\ m.recs = {} /\ m.seq = [r \in Rec |-> 0] /\ m.version = [r \in Rec |-> 0]
        /\ m.exact = FALSE /\ m.format = LegacyFormat /\ m.state \in {"missing", "torn"}
        /\ m = [state |-> m.state, recs |-> m.recs, seq |-> m.seq, version |-> m.version,
                exact |-> m.exact, format |-> m.format]
    BY DEF Missing, Cut
  <1>2. m.state = IF m = Cut THEN "torn" ELSE "missing"
    <2>1. Cut.state = "torn"
      BY DEF Missing, Cut
    <2>2. Missing.state = "missing"
      BY DEF Missing
    <2> QED BY <2>1, <2>2
  <1>3. IsFiniteSet(m.recs)
    BY <1>1, FS_EmptySet
  <1>4. \A r \in Rec : m.seq[r] = 0 /\ m.version[r] = 0
    BY <1>1
  <1>5. m.seq \in [Rec -> Nat] /\ m.version \in [Rec -> Nat]
    BY <1>1
  <1>6. m.recs \in SUBSET MetaRec /\ m.state \in {"missing", "torn", "whole"} /\ m.exact \in BOOLEAN
        /\ m.format \in {LegacyFormat, CanonicalFormat}
    BY <1>1
  <1>7. m \in [state : {"missing", "torn", "whole"}, recs : SUBSET MetaRec, seq : [Rec -> Nat],
               version : [Rec -> Nat], exact : BOOLEAN, format : {LegacyFormat, CanonicalFormat}]
    BY <1>1, <1>5, <1>6
  <1>8. m.state # "whole" /\ m.format # CanonicalFormat
    BY <1>1 DEF LegacyFormat, CanonicalFormat
  <1> QED BY <1>1, <1>2, <1>3, <1>4, <1>7, <1>8 DEF IsMeta

\* No files are the files of a session with nothing in it.
LEMMA NoFilesAre == SoundFiles(NoFiles) /\ NoFiles.meta.state = "missing"
  <1> DEFINE f == NoFiles
  <1>1. f.meta = Missing /\ f.turns = NoLines /\ f.items = NoLines /\ Shape(f)
    BY DEF NoFiles, Shape
  <1> HIDE DEF f
  <1>2. NoLines.lines = <<>> /\ IsLines(NoLines)
    BY DEF NoLines, IsLines
  <1>3. IsMeta(f.meta) /\ f.meta.recs = {}
    BY <1>1, BareMeta
  <1>4. f.meta.state = "missing"
    BY <1>1 DEF Missing
  <1>5. FileMarks(f) = {}
    BY <1>1, <1>2, <1>3 DEF FileMarks, RecMarks, LineMarks
  <1>6. Agree(FileMarks(f)) /\ Rising(f.items.lines)
    BY <1>1, <1>2, <1>5 DEF Agree, Rising
  <1> QED BY <1>1, <1>2, <1>3, <1>4, <1>5, <1>6 DEF SoundFiles, f

\* Truncating session.json takes marks away.
LEMMA CutIs ==
    ASSUME NEW f, SoundFiles(f)
    PROVE  LET g == [f EXCEPT !.meta = Cut]
           IN  SoundFiles(g) /\ FileMarks(g) \subseteq FileMarks(f)
  <1> DEFINE g == [f EXCEPT !.meta = Cut]
  <1>1. Shape(f)
    BY DEF SoundFiles
  <1>2. g.meta = Cut /\ g.turns = f.turns /\ g.items = f.items /\ Shape(g)
    BY <1>1 DEF Shape
  <1> HIDE DEF g
  <1>3. IsMeta(g.meta) /\ g.meta.recs = {} /\ g.meta.state = "torn"
    BY <1>2, BareMeta
  <1>4. FileMarks(g) \subseteq FileMarks(f)
    BY <1>2, <1>3 DEF FileMarks, RecMarks
  <1>5. Agree(FileMarks(g))
    BY <1>4, AgreeSub DEF SoundFiles
  <1> QED BY <1>2, <1>3, <1>4, <1>5 DEF SoundFiles, g

\* What session.json takes of a session.
LEMMA MetaOfIs ==
    ASSUME NEW c, IsSession(c)
    PROVE  LET m == MetaOf(c)
           IN  IsMeta(m) /\ m.state = "whole" /\ RecMarks(m.recs, m.seq) \subseteq Marks(c)
  <1> DEFINE m == MetaOf(c)
  <1>1. /\ m.state = "whole" /\ m.recs = c.recs \cap MetaRec
        /\ m.seq = [r \in Rec |-> IF r \in MetaRec THEN c.seq[r] ELSE 0]
        /\ m.version = [r \in Rec |-> IF r \in MetaRec THEN c.version[r] ELSE 0]
        /\ m.exact = c.exact /\ m.format = CanonicalFormat
        /\ m = [state |-> m.state, recs |-> m.recs, seq |-> m.seq, version |-> m.version,
                exact |-> m.exact, format |-> m.format]
    BY DEF MetaOf
  <1> HIDE DEF m
  <1>2. /\ c.recs \subseteq Rec /\ IsFiniteSet(c.recs) /\ c.seq \in [Rec -> Nat]
        /\ c.version \in [Rec -> Nat] /\ c.exact \in BOOLEAN
        /\ (\A r \in c.recs : c.seq[r] # 0)
        /\ \A r \in Rec \ c.recs : c.seq[r] = 0 /\ c.version[r] = 0
    BY DEF IsSession
  <1>3. m.seq \in [Rec -> Nat] /\ m.version \in [Rec -> Nat]
    BY <1>1, <1>2
  <1>4. \A r \in m.recs : r \in c.recs /\ m.seq[r] = c.seq[r]
    BY <1>1, <1>2
  <1>5. \A r \in Rec \ m.recs : m.seq[r] = 0 /\ m.version[r] = 0
    BY <1>1, <1>2
  <1>6. IsFiniteSet(m.recs)
    BY <1>1, <1>2, FS_Subset
  <1>7. m.recs \in SUBSET MetaRec /\ m.state \in {"missing", "torn", "whole"} /\ m.exact \in BOOLEAN
        /\ m.format \in {LegacyFormat, CanonicalFormat}
    BY <1>1, <1>2
  <1>8. m \in [state : {"missing", "torn", "whole"}, recs : SUBSET MetaRec, seq : [Rec -> Nat],
               version : [Rec -> Nat], exact : BOOLEAN, format : {LegacyFormat, CanonicalFormat}]
    BY <1>1, <1>3, <1>7
  <1>9. IsMeta(m)
    BY <1>1, <1>2, <1>4, <1>5, <1>6, <1>8 DEF IsMeta
  <1>10. RecMarks(m.recs, m.seq) \subseteq Marks(c)
    BY <1>4, MarkOf DEF RecMarks
  <1> QED BY <1>1, <1>9, <1>10 DEF m

\* session.json written: the files hold nothing the session has not.
LEMMA MetaWritten ==
    ASSUME NEW f, SoundFiles(f), NEW c, Sound(c), FileMarks(f) \subseteq Marks(c)
    PROVE  LET g == [f EXCEPT !.meta = MetaOf(c)]
           IN  SoundFiles(g) /\ FileMarks(g) \subseteq Marks(c) /\ g.meta = MetaOf(c)
               /\ g.turns = f.turns /\ g.items = f.items /\ g.meta.state = "whole"
  <1> DEFINE g == [f EXCEPT !.meta = MetaOf(c)]
  <1>1. Shape(f)
    BY DEF SoundFiles
  <1>2. g.meta = MetaOf(c) /\ g.turns = f.turns /\ g.items = f.items /\ Shape(g)
    BY <1>1 DEF Shape
  <1> HIDE DEF g
  <1>3. IsMeta(g.meta) /\ g.meta.state = "whole" /\ RecMarks(g.meta.recs, g.meta.seq) \subseteq Marks(c)
    BY <1>2, MetaOfIs DEF Sound
  <1>4. FileMarks(g) \subseteq Marks(c)
    <2>1. LineMarks(f.turns.lines) \subseteq Marks(c) /\ LineMarks(f.items.lines) \subseteq Marks(c)
      BY FileMark
    <2> QED BY <1>2, <1>3, <2>1 DEF FileMarks
  <1>5. Agree(FileMarks(g))
    BY <1>4, AgreeSub DEF Sound
  <1> QED BY <1>2, <1>3, <1>4, <1>5 DEF SoundFiles, g

\* The beginning of a file that is written line by line.
LEMMA Beginning ==
    ASSUME NEW l \in Seq(Line), NEW n \in Nat, n <= Len(l)
    PROVE  LET b == SubSeq(l, 1, n)
           IN  /\ b \in Seq(Line) /\ DOMAIN b \subseteq DOMAIN l /\ \A i \in DOMAIN b : b[i] = l[i]
               /\ LineMarks(b) \subseteq LineMarks(l) /\ (Rising(l) => Rising(b))
               /\ n = Len(l) => b = l
  <1> DEFINE b == SubSeq(l, 1, n)
  <1>1. b \in Seq(Line) /\ Len(b) = n /\ \A i \in 1..n : b[i] = l[i]
    OBVIOUS
  <1>2. DOMAIN b = 1..n /\ DOMAIN l = 1..Len(l) /\ Len(l) \in Nat
    BY <1>1
  <1>3. n = Len(l) => b = l
    BY <1>1, <1>2
  <1> HIDE DEF b
  <1>4. DOMAIN b \subseteq DOMAIN l /\ \A i \in DOMAIN b : b[i] = l[i]
    BY <1>1, <1>2
  <1>5. LineMarks(b) \subseteq LineMarks(l) /\ (Rising(l) => Rising(b))
    BY <1>4 DEF LineMarks, Rising
  <1> QED BY <1>1, <1>3, <1>4, <1>5 DEF b

\* The turns a save writes.
LEMMA TurnsAre ==
    ASSUME NEW c, IsSession(c)
    PROVE  LET l == TurnLines(c)
           IN  l \in Seq(Line) /\ (\A i \in DOMAIN l : l[i].rec \in TurnRec) /\ LineMarks(l) \subseteq Marks(c)
  <1> DEFINE S == c.recs \cap TurnRec
             l == TurnLines(c)
             n == Cardinality(S)
  <1>1. S \in SUBSET Nat /\ IsFiniteSet(S)
    <2>1. c.recs \subseteq Nat /\ IsFiniteSet(c.recs)
      BY SessionStoreAssumption DEF IsSession
    <2> QED BY <2>1, FS_Subset
  <1>2. l = ItemsOf(c, S)
    BY DEF TurnLines
  <1> HIDE DEF l
  <1>3. /\ n \in Nat /\ DOMAIN l = 1..n
        /\ \A k \in 1..n : l[k].rec \in S /\ l[k] = ItemOf(c, l[k].rec)
    BY <1>1, <1>2, ItemsInOrder
  <1>4. l = [k \in 1..n |-> l[k]]
    BY <1>2 DEF ItemsOf
  <1> HIDE DEF n
  <1>5. \A r \in S : ItemOf(c, r) \in Line /\ ItemOf(c, r).seq = c.seq[r]
    BY DEF ItemOf, Line, IsSession
  <1>6. \A k \in 1..n : l[k] \in Line /\ l[k].seq = c.seq[l[k].rec]
    BY <1>3, <1>5
  <1>7. l \in Seq(Line)
    BY <1>3, <1>4, <1>6, SeqFrom
  <1>8. LineMarks(l) \subseteq Marks(c)
    BY <1>3, <1>6, MarkOf DEF LineMarks
  <1> QED BY <1>3, <1>7, <1>8 DEF l

\* Lines of turns.jsonl written, likewise.
LEMMA TurnsWritten ==
    ASSUME NEW f, SoundFiles(f), f.meta.state # "missing", NEW A, Agree(A),
           FileMarks(f) \subseteq A,
           NEW t, IsLines(t), \A i \in DOMAIN t.lines : t.lines[i].rec \in TurnRec,
           LineMarks(t.lines) \subseteq A
    PROVE  LET g == [f EXCEPT !.turns = t]
           IN  SoundFiles(g) /\ FileMarks(g) \subseteq A /\ g.turns = t
               /\ g.meta = f.meta /\ g.items = f.items
  <1> DEFINE g == [f EXCEPT !.turns = t]
  <1>1. Shape(f)
    BY DEF SoundFiles
  <1>2. g.meta = f.meta /\ g.turns = t /\ g.items = f.items /\ Shape(g)
    BY <1>1 DEF Shape
  <1> HIDE DEF g
  <1>3. FileMarks(g) \subseteq A
    BY <1>2 DEF FileMarks
  <1>4. Agree(FileMarks(g))
    BY <1>3, AgreeSub
  <1> QED BY <1>2, <1>3, <1>4 DEF SoundFiles, g

\* Lines of transcript_items.jsonl written, likewise.
LEMMA ItemsWritten ==
    ASSUME NEW f, SoundFiles(f), f.meta.state # "missing", NEW A, Agree(A),
           FileMarks(f) \subseteq A,
           NEW t, IsLines(t), Rising(t.lines), ~t.exists => t.lines = <<>>,
           LineMarks(t.lines) \subseteq A
    PROVE  LET g == [f EXCEPT !.items = t]
           IN  SoundFiles(g) /\ FileMarks(g) \subseteq A /\ g.items = t
               /\ g.meta = f.meta /\ g.turns = f.turns
  <1> DEFINE g == [f EXCEPT !.items = t]
  <1>1. Shape(f)
    BY DEF SoundFiles
  <1>2. g.meta = f.meta /\ g.items = t /\ g.turns = f.turns /\ Shape(g)
    BY <1>1 DEF Shape
  <1> HIDE DEF g
  <1>3. FileMarks(g) \subseteq A
    BY <1>2 DEF FileMarks
  <1>4. Agree(FileMarks(g))
    BY <1>3, AgreeSub
  <1> QED BY <1>2, <1>3, <1>4 DEF SoundFiles, g

\* A line may be cut in two: the lines before it stay.
LEMMA LineCut ==
    ASSUME NEW l, IsLines(l)
    PROVE  LET t == [l EXCEPT !.torn = TRUE]
           IN  IsLines(t) /\ t.lines = l.lines /\ t.exists = l.exists
  BY DEF IsLines

-----------------------------------------------------------------------------
(* The steps.                                                              *)

\* No save is in progress.
LEMMA AtIdle ==
    ASSUME IInv, SaveIdle
    PROVE  save.s = NoId /\ NoId \notin Session /\ ~Writing /\ \A s \in Session : AtRest(s) <=> s \notin torn
  <1>1. save.at = "idle" /\ save.s = NoId
    BY DEF IInv, ShapeInv, SaveIdle
  <1>2. NoId \notin Session
    BY SessionStoreAssumption
  <1>3. ~Writing
    BY <1>1 DEF Writing
  <1> QED BY <1>1, <1>2, <1>3 DEF AtRest

\* A save of a session that has all that its files have begins.
LEMMA SaveBegins ==
    ASSUME IInv, SaveIdle, NEW s \in Session, NEW c, NEW then, BeginSave(s, c, then),
           latest' = latest, saved' = saved, torn' = torn, scarred \subseteq scarred',
           busy' \subseteq open', open' \subseteq Session, DOMAIN mem' = Session,
           \A t \in Modern : /\ Sound(mem'[t])
                             /\ t \in open' => FileMarks(disk[t]) \subseteq Marks(mem'[t])
                             /\ t \in open' \ scarred' => IsComplete(mem'[t]),
           s \in Modern => /\ Sound(c) /\ FileMarks(disk[s]) \subseteq Marks(c)
                           /\ s \in open' => Marks(c) \subseteq Marks(mem'[s])
                           /\ s \notin scarred' => IsComplete(c)
    PROVE  IInv'
  <1> DEFINE g == [disk[s] EXCEPT !.meta = Cut]
  <1>1. /\ save' = [at |-> "meta", s |-> s, n |-> 0, c |-> Prepared(c), mem |-> c, then |-> then]
        /\ disk' = [disk EXCEPT ![s].meta = Cut]
    BY DEF BeginSave, Cut
  <1>2. DOMAIN disk = Session /\ Shape(disk[s])
    BY DEF IInv, ShapeInv
  <1>3. /\ DOMAIN disk' = Session /\ disk'[s] = g
        /\ \A t \in Session : t # s => disk'[t] = disk[t]
    BY <1>1, <1>2
  <1>4. /\ save'.at = "meta" /\ save'.s = s /\ save'.n = 0 /\ save'.c = Prepared(c) /\ save'.mem = c
        /\ save' = [at |-> save'.at, s |-> save'.s, n |-> save'.n, c |-> save'.c,
                    mem |-> save'.mem, then |-> save'.then]
    BY <1>1
  <1>5. Shape(g) /\ g.meta = Cut
    BY <1>2 DEF Shape
  <1> HIDE DEF g
  <1>6. Cut.state = "torn"
    BY BareMeta, <1>5 DEF Missing, Cut
  <1>7. Writing'
    BY <1>4 DEF Writing
  <1>8. ShapeInv'
    <2>1. \A t \in Session : Shape(disk'[t])
      BY <1>3, <1>5 DEF IInv, ShapeInv
    <2>2. latest' \in Session => disk'[latest'].meta.state # "missing"
      <3>1. latest' \in Session => disk[latest'].meta.state # "missing"
        BY DEF IInv, ShapeInv
      <3> QED BY <1>3, <1>5, <1>6, <3>1
    <2>3. DOMAIN saved' = Session
      BY DEF IInv, ShapeInv
    <2> QED BY <1>3, <1>4, <1>5, <1>6, <2>1, <2>2, <2>3 DEF ShapeInv
  <1>9. s \in Modern => SoundFiles(g) /\ FileMarks(g) \subseteq FileMarks(disk[s])
    BY CutIs DEF g, IInv, FilesInv
  <1>10. Modern \subseteq Session
    BY DEF Modern
  <1>11. FilesInv'
    BY <1>3, <1>9, <1>10 DEF IInv, FilesInv
  <1>12. MemoryInv'
    <2> SUFFICES ASSUME NEW t \in Modern
                 PROVE /\ Sound(mem'[t])
                       /\ t \in open' => FileMarks(disk'[t]) \subseteq Marks(mem'[t])
                       /\ t \in open' \ scarred' => IsComplete(mem'[t])
      BY DEF MemoryInv
    <2>1. FileMarks(disk'[t]) \subseteq FileMarks(disk[t])
      BY <1>3, <1>9, <1>10
    <2> QED BY <2>1
  <1>13. SaveInv'
    <2> SUFFICES ASSUME s \in Modern
                 PROVE /\ Sound(c) /\ FileMarks(g) \subseteq Marks(c)
                       /\ s \in open' => Marks(c) \subseteq Marks(mem'[s])
                       /\ s \notin scarred' => IsComplete(c)
                       /\ Canonical(Prepared(c)) /\ Marks(Prepared(c)) = Marks(c)
                       /\ s \notin scarred' => IsComplete(Prepared(c))
      BY <1>3, <1>4 DEF SaveInv
    <2>1. Sound(c) /\ FileMarks(disk[s]) \subseteq Marks(c)
      OBVIOUS
    <2>2. Canonical(Prepared(c)) /\ Marks(Prepared(c)) = Marks(c)
          /\ (IsComplete(c) => IsComplete(Prepared(c)))
      BY <2>1, PreparedIs
    <2> QED BY <1>9, <2>1, <2>2
  <1>14. ProgressInv'
    BY <1>3, <1>4, <1>5, <1>6 DEF ProgressInv
  <1>15. SavedInv'
    <2> SUFFICES ASSUME NEW t \in Modern
                 PROVE /\ Canonical(saved'[t])
                       /\ t \notin scarred' => IsComplete(saved'[t])
                       /\ AtRest(t)' /\ disk'[t].meta.state = "whole" => disk'[t] = FilesOf(saved'[t])
      BY DEF SavedInv
    <2>1. /\ Canonical(saved[t])
          /\ t \notin scarred => IsComplete(saved[t])
          /\ AtRest(t) /\ disk[t].meta.state = "whole" => disk[t] = FilesOf(saved[t])
      BY DEF IInv, SavedInv
    <2>2. CASE t = s
      BY <1>3, <1>5, <1>6, <2>1, <2>2
    <2>3. CASE t # s
      <3>1. AtRest(t)' => t \notin torn
        BY DEF AtRest
      <3>2. AtRest(t)' => AtRest(t)
        BY <3>1, AtIdle, <1>10
      <3> QED BY <1>3, <1>10, <2>1, <2>3, <3>2
    <2> QED BY <2>2, <2>3
  <1> QED BY <1>8, <1>11, <1>12, <1>13, <1>14, <1>15 DEF IInv

\* Steps between saves: the hosts may change, the files do not.
LEMMA HostsChange ==
    ASSUME IInv, SaveIdle, UNCHANGED <<disk, latest, save, saved, torn, scarred>>,
           busy' \subseteq open', open' \subseteq Session, DOMAIN mem' = Session,
           \A t \in Modern : /\ Sound(mem'[t])
                             /\ t \in open' => FileMarks(disk[t]) \subseteq Marks(mem'[t])
                             /\ t \in open' \ scarred => IsComplete(mem'[t])
    PROVE  IInv'
  <1>1. disk' = disk /\ latest' = latest /\ save' = save /\ saved' = saved /\ torn' = torn
        /\ scarred' = scarred
    OBVIOUS
  <1>2. save.at = "idle" /\ save'.at = "idle"
    BY <1>1 DEF SaveIdle
  <1>3. ShapeInv'
    <2>1. ShapeInv
      BY DEF IInv
    <2> QED BY <1>1, <2>1 DEF ShapeInv
  <1>4. FilesInv'
    BY <1>1 DEF IInv, FilesInv, Modern
  <1>5. MemoryInv'
    BY <1>1 DEF MemoryInv
  <1>6. SaveInv'
    BY <1>2 DEF SaveInv
  <1>7. ProgressInv'
    BY <1>2 DEF ProgressInv, Writing
  <1>8. SavedInv'
    <2>1. SavedInv
      BY DEF IInv
    <2>2. \A t : AtRest(t)' <=> AtRest(t)
      BY <1>1 DEF AtRest, Writing
    <2> QED BY <1>1, <2>1, <2>2 DEF SavedInv
  <1> QED BY <1>3, <1>4, <1>5, <1>6, <1>7, <1>8 DEF IInv

\* A save goes on: one file of its session may change.
LEMMA SaveGoesOn ==
    ASSUME IInv, save.at \in {"meta", "turns", "items", "latest"},
           NEW f, Shape(f), f.meta.state # "missing", DOMAIN disk' = Session,
           disk'[save.s] = f, \A t \in Session : t # save.s => disk'[t] = disk[t],
           NEW at, at \in {"turns", "items", "latest", "done"}, NEW n, n \in Nat,
           save' = [[save EXCEPT !.at = at] EXCEPT !.n = n], at = "done" => n # 0,
           latest' \in {latest, Torn, save.s},
           UNCHANGED <<open, mem, busy, saved, torn, scarred>>,
           save.s \in Modern =>
             /\ SoundFiles(f) /\ FileMarks(f) \subseteq Marks(save.mem)
             /\ f.meta = MetaOf(save.c)
             /\ at = "turns" => n <= Len(TurnLines(save.c))
             /\ at # "turns" => f.turns = Whole(TurnLines(save.c))
             /\ at = "items" => n <= Len(save.c.items)
             /\ at \in {"latest", "done"} => f.items = Whole(save.c.items)
    PROVE  IInv'
  <1> DEFINE s == save.s
  <1>1. ShapeInv
    BY DEF IInv
  <1>2. s \in Session /\ DOMAIN disk = Session
    BY <1>1 DEF ShapeInv
  <1>3. DOMAIN disk' = Session /\ disk'[s] = f /\ \A t \in Session : t # s => disk'[t] = disk[t]
    OBVIOUS
  <1>4. /\ save'.at = at /\ save'.s = s /\ save'.n = n /\ save'.c = save.c /\ save'.mem = save.mem
        /\ save' = [at |-> save'.at, s |-> save'.s, n |-> save'.n, c |-> save'.c,
                    mem |-> save'.mem, then |-> save'.then]
    <2>1. save = [at |-> save.at, s |-> save.s, n |-> save.n, c |-> save.c, mem |-> save.mem,
                  then |-> save.then]
      BY <1>1 DEF ShapeInv
    <2> QED BY <2>1
  <1>5. Writing /\ Writing'
    BY <1>4 DEF Writing
  <1>6. open' = open /\ mem' = mem /\ busy' = busy /\ saved' = saved /\ torn' = torn /\ scarred' = scarred
    OBVIOUS
  <1>7. ShapeInv'
    <2>1. \A t \in Session : Shape(disk'[t])
      BY <1>1, <1>3 DEF ShapeInv
    <2>2. latest' \in Session => disk'[latest'].meta.state # "missing"
      <3>1. latest \in Session => disk[latest].meta.state # "missing"
        BY <1>1 DEF ShapeInv
      <3>2. Torn \notin Session
        BY SessionStoreAssumption
      <3> QED BY <1>3, <3>1, <3>2
    <2>3. DOMAIN mem' = Session /\ DOMAIN saved' = Session /\ open' \subseteq Session /\ busy' \subseteq open'
      BY <1>1, <1>6 DEF ShapeInv
    <2> QED BY <1>2, <1>3, <1>4, <2>1, <2>2, <2>3 DEF ShapeInv
  <1> HIDE DEF s
  <1>8. Modern \subseteq Session
    BY DEF Modern
  <1>9. s \in Modern => /\ Sound(save.mem) /\ Canonical(save.c) /\ Marks(save.c) = Marks(save.mem)
                        /\ s \in open => Marks(save.mem) \subseteq Marks(mem[s])
                        /\ s \notin scarred => IsComplete(save.mem) /\ IsComplete(save.c)
    BY <1>5 DEF s, IInv, SaveInv
  <1>10. FilesInv'
    BY <1>3, <1>8 DEF s, IInv, FilesInv
  <1>11. MemoryInv'
    <2> SUFFICES ASSUME NEW t \in Modern
                 PROVE /\ Sound(mem[t])
                       /\ t \in open => FileMarks(disk'[t]) \subseteq Marks(mem[t])
                       /\ t \in open \ scarred => IsComplete(mem[t])
      BY <1>6 DEF MemoryInv
    <2>1. /\ Sound(mem[t])
          /\ t \in open => FileMarks(disk[t]) \subseteq Marks(mem[t])
          /\ t \in open \ scarred => IsComplete(mem[t])
      BY DEF IInv, MemoryInv
    <2>2. CASE t = s
      <3>1. FileMarks(disk'[t]) \subseteq Marks(save.mem)
        BY <1>3, <2>2 DEF s
      <3>2. s \in open => Marks(save.mem) \subseteq Marks(mem[s])
        BY <1>9, <2>2
      <3> QED BY <2>1, <2>2, <3>1, <3>2
    <2>3. CASE t # s
      BY <1>3, <1>8, <2>1, <2>3
    <2> QED BY <2>2, <2>3
  <1>12. SaveInv'
    <2> SUFFICES ASSUME s \in Modern
                 PROVE /\ Sound(save.mem) /\ FileMarks(f) \subseteq Marks(save.mem)
                       /\ s \in open => Marks(save.mem) \subseteq Marks(mem[s])
                       /\ s \notin scarred => IsComplete(save.mem)
                       /\ Canonical(save.c) /\ Marks(save.c) = Marks(save.mem)
                       /\ s \notin scarred => IsComplete(save.c)
      BY <1>3, <1>4, <1>6 DEF SaveInv
    <2> QED BY <1>9 DEF s
  <1>13. ProgressInv'
    BY <1>3, <1>4 DEF ProgressInv, s
  <1>14. SavedInv'
    <2> SUFFICES ASSUME NEW t \in Modern
                 PROVE /\ Canonical(saved[t])
                       /\ t \notin scarred => IsComplete(saved[t])
                       /\ AtRest(t)' /\ disk'[t].meta.state = "whole" => disk'[t] = FilesOf(saved[t])
      BY <1>6 DEF SavedInv
    <2>1. /\ Canonical(saved[t])
          /\ t \notin scarred => IsComplete(saved[t])
          /\ AtRest(t) /\ disk[t].meta.state = "whole" => disk[t] = FilesOf(saved[t])
      BY DEF IInv, SavedInv
    <2>2. AtRest(t)' => t # s
      BY <1>4, <1>5 DEF AtRest
    <2>3. AtRest(t)' => AtRest(t)
      BY <1>6, <2>2 DEF AtRest, s
    <2> QED BY <1>3, <1>8, <2>1, <2>2, <2>3
  <1> QED BY <1>7, <1>10, <1>11, <1>12, <1>13, <1>14 DEF IInv

\* What is known of a save in progress.
LEMMA InSave ==
    ASSUME IInv, save.at \in {"meta", "turns", "items", "latest"}
    PROVE  LET f == disk[save.s]
               c == save.c
           IN  /\ save.s \in Session /\ DOMAIN disk = Session /\ Shape(f) /\ f.meta.state # "missing"
               /\ save.at \in {"turns", "items"} => save.n \in Nat
               /\ save.s \in Modern =>
                    /\ SoundFiles(f) /\ FileMarks(f) \subseteq Marks(c)
                    /\ Canonical(c) /\ Marks(c) = Marks(save.mem) /\ Sound(c) /\ IsSession(c)
                    /\ save.at # "meta" => f.meta = MetaOf(c)
                    /\ save.at = "turns" => save.n <= Len(TurnLines(c))
                    /\ save.at \in {"items", "latest"} => f.turns = Whole(TurnLines(c))
                    /\ save.at = "items" => save.n <= Len(c.items)
                    /\ save.at = "latest" => f.items = Whole(c.items)
  <1>1. Writing
    BY DEF Writing
  <1>2. /\ save.s \in Session /\ DOMAIN disk = Session /\ Shape(disk[save.s])
        /\ disk[save.s].meta.state # "missing" /\ (save.at \in {"turns", "items"} => save.n \in Nat)
    BY DEF IInv, ShapeInv
  <1>3. ASSUME save.s \in Modern
        PROVE  /\ Canonical(save.c) /\ Marks(save.c) = Marks(save.mem)
               /\ FileMarks(disk[save.s]) \subseteq Marks(save.mem)
    BY <1>1, <1>3 DEF IInv, SaveInv
  <1>4. save.s \in Modern => SoundFiles(disk[save.s])
    BY DEF IInv, FilesInv
  <1>5. ASSUME save.s \in Modern
        PROVE /\ save.at # "meta" => disk[save.s].meta = MetaOf(save.c)
              /\ save.at = "turns" => save.n <= Len(TurnLines(save.c))
              /\ save.at \in {"items", "latest"} => disk[save.s].turns = Whole(TurnLines(save.c))
              /\ save.at = "items" => save.n <= Len(save.c.items)
              /\ save.at = "latest" => disk[save.s].items = Whole(save.c.items)
    BY <1>1, <1>5 DEF IInv, ProgressInv
  <1>6. Canonical(save.c) => Sound(save.c) /\ IsSession(save.c)
    BY DEF Canonical, Sound
  <1> QED BY <1>2, <1>3, <1>4, <1>5, <1>6

\* The metadata is written.
LEMMA WriteMetaKeeps ==
    ASSUME IInv, WriteMeta, UNCHANGED <<serverVars, faults, work, saved, torn, scarred>>
    PROVE  IInv'
  <1> DEFINE d == disk[save.s]
             f == [d EXCEPT !.meta = MetaOf(save.c)]
  <1>1. save.at = "meta"
    BY DEF WriteMeta
  <1>2. /\ save.s \in Session /\ DOMAIN disk = Session /\ Shape(d)
        /\ save.s \in Modern =>
             /\ SoundFiles(d) /\ FileMarks(d) \subseteq Marks(save.c)
             /\ Marks(save.c) = Marks(save.mem) /\ Sound(save.c)
    BY <1>1, InSave
  <1>3. /\ DOMAIN disk' = Session /\ disk'[save.s] = f
        /\ \A u \in Session : u # save.s => disk'[u] = disk[u]
    BY <1>2 DEF WriteMeta
  <1>4. f.meta = MetaOf(save.c) /\ Shape(f)
    BY <1>2 DEF Shape
  <1>5. f.meta.state # "missing"
    BY <1>4 DEF MetaOf
  <1>6. save.s \in Modern => SoundFiles(f) /\ FileMarks(f) \subseteq Marks(save.mem)
    BY <1>2, MetaWritten
  <1>7. ASSUME save.s \in Modern PROVE 0 <= Len(TurnLines(save.c))
    <2>1. TurnLines(save.c) \in Seq(Line)
      BY <1>2, <1>7, TurnsAre DEF Sound
    <2> QED BY <2>1
  <1>8. save' = [[save EXCEPT !.at = "turns"] EXCEPT !.n = 0]
    BY DEF WriteMeta
  <1>9. latest' = latest /\ UNCHANGED <<open, mem, busy, saved, torn, scarred>>
    BY DEF WriteMeta, serverVars
  <1> HIDE DEF f, d
  <1> QED BY <1>1, <1>3, <1>4, <1>5, <1>6, <1>7, <1>8, <1>9, SaveGoesOn

\* A line is written, or a file is complete and the next one comes.
LEMMA WriteLineKeeps ==
    ASSUME IInv, WriteLine, UNCHANGED <<serverVars, faults, work, saved, torn, scarred>>
    PROVE  IInv'
  <1> DEFINE d == disk[save.s]
             l == LinesOf(save.at)
             t == [exists |-> TRUE, torn |-> FALSE, lines |-> SubSeq(l, 1, save.n)]
             next == IF save.at = "turns" THEN "items" ELSE "latest"
  <1>1. save.at \in {"turns", "items"}
    BY DEF WriteLine
  <1>2. /\ save.s \in Session /\ DOMAIN disk = Session /\ Shape(d) /\ save.n \in Nat
        /\ d.meta.state # "missing"
        /\ save.s \in Modern =>
             /\ SoundFiles(d) /\ FileMarks(d) \subseteq Marks(save.c)
             /\ Marks(save.c) = Marks(save.mem) /\ Sound(save.c) /\ IsSession(save.c)
             /\ d.meta = MetaOf(save.c)
             /\ save.at = "turns" => save.n <= Len(TurnLines(save.c))
             /\ save.at = "items" => d.turns = Whole(TurnLines(save.c)) /\ save.n <= Len(save.c.items)
    BY <1>1, InSave
  <1>3. disk' = [disk EXCEPT ![save.s] = [d EXCEPT ![save.at] = t]]
    BY <1>2 DEF WriteLine
  <1>4. \/ save.n < Len(l) /\ save' = [save EXCEPT !.n = @ + 1]
        \/ ~(save.n < Len(l)) /\ save' = [save EXCEPT !.at = next, !.n = 0]
    BY DEF WriteLine
  <1>5. save = [at |-> save.at, s |-> save.s, n |-> save.n, c |-> save.c, mem |-> save.mem,
                then |-> save.then]
    BY DEF IInv, ShapeInv
  <1>6. latest' = latest /\ UNCHANGED <<open, mem, busy, saved, torn, scarred>>
    BY DEF WriteLine, serverVars
  <1>7. \/ save.n < Len(l) /\ save' = [[save EXCEPT !.at = save.at] EXCEPT !.n = save.n + 1]
        \/ ~(save.n < Len(l)) /\ save' = [[save EXCEPT !.at = next] EXCEPT !.n = 0]
    BY <1>4, <1>5
  <1>8. l = IF save.at = "turns" THEN TurnLines(save.c) ELSE save.c.items
    BY DEF LinesOf
  <1>9. ASSUME save.s \in Modern
        PROVE  /\ l \in Seq(Line) /\ save.n <= Len(l) /\ LineMarks(l) \subseteq Marks(save.c)
               /\ save.at = "turns" => \A i \in DOMAIN l : l[i].rec \in TurnRec
               /\ save.at = "items" => Rising(l)
    <2>1. CASE save.at = "turns"
      <3>1. l = TurnLines(save.c) /\ save.n <= Len(l)
        BY <1>2, <1>8, <1>9, <2>1
      <3> HIDE DEF l
      <3> QED BY <1>2, <1>9, <2>1, <3>1, TurnsAre
    <2>2. CASE save.at = "items"
      <3>1. l = save.c.items /\ save.n <= Len(l)
        BY <1>2, <1>8, <1>9, <2>2
      <3> HIDE DEF l
      <3>2. l \in Seq(Line) /\ Rising(l) /\ LineMarks(l) \subseteq Marks(save.c)
        BY <1>2, <1>9, <3>1 DEF Sound, IsSession, Marks
      <3> QED BY <2>2, <3>1, <3>2
    <2> QED BY <1>1, <2>1, <2>2
  <1> HIDE DEF l
  <1>10. t.exists = TRUE /\ t.torn = FALSE /\ t.lines = SubSeq(l, 1, save.n)
         /\ t = Whole(SubSeq(l, 1, save.n))
    BY DEF Whole
  <1>11. ASSUME save.s \in Modern
         PROVE  /\ IsLines(t) /\ LineMarks(t.lines) \subseteq Marks(save.c)
                /\ save.at = "turns" => \A i \in DOMAIN t.lines : t.lines[i].rec \in TurnRec
                /\ save.at = "items" => Rising(t.lines)
                /\ ~(save.n < Len(l)) => t = Whole(l)
    <2> DEFINE b == SubSeq(l, 1, save.n)
    <2>1. /\ b \in Seq(Line) /\ DOMAIN b \subseteq DOMAIN l /\ \A i \in DOMAIN b : b[i] = l[i]
          /\ LineMarks(b) \subseteq LineMarks(l) /\ (Rising(l) => Rising(b))
          /\ save.n = Len(l) => b = l
      BY <1>2, <1>9, <1>11, Beginning
    <2>2. ~(save.n < Len(l)) => save.n = Len(l)
      BY <1>2, <1>9, <1>11
    <2> HIDE DEF b
    <2>3. t.lines = b /\ t = Whole(b)
      BY <1>10 DEF b
    <2>4. IsLines(t)
      BY <2>1, <2>3 DEF IsLines, Whole
    <2> QED BY <1>9, <1>11, <2>1, <2>2, <2>3, <2>4
  <1> HIDE DEF t
  <1>12. ASSUME save.s \in Modern PROVE Len(l) \in Nat /\ Agree(Marks(save.c))
    BY <1>2, <1>9, <1>12 DEF Sound
  <1>13. ASSUME save.s \in Modern
         PROVE  Len(save.c.items) \in Nat
    BY <1>2, <1>13 DEF IsSession
  <1>14. CASE save.at = "turns"
    <2> DEFINE f == [d EXCEPT !.turns = t]
    <2>1. /\ DOMAIN disk' = Session /\ disk'[save.s] = f
          /\ \A u \in Session : u # save.s => disk'[u] = disk[u]
      BY <1>2, <1>3, <1>14 DEF Shape
    <2>2. f.meta = d.meta /\ f.turns = t /\ Shape(f)
      BY <1>2 DEF Shape
    <2>3. save.s \in Modern => SoundFiles(f) /\ FileMarks(f) \subseteq Marks(save.mem)
      BY <1>2, <1>11, <1>12, <1>14, TurnsWritten
    <2>4. f.meta.state # "missing" /\ (save.s \in Modern => f.meta = MetaOf(save.c))
      BY <1>2, <2>2
    <2> HIDE DEF f, d
    <2>5. CASE save.n < Len(l) /\ save' = [[save EXCEPT !.at = "turns"] EXCEPT !.n = save.n + 1]
      <3>1. save.n + 1 \in Nat
        BY <1>2
      <3>2. save.s \in Modern => save.n + 1 <= Len(TurnLines(save.c))
        BY <1>2, <1>8, <1>12, <1>14, <2>5
      <3> QED BY <1>1, <1>6, <2>1, <2>2, <2>3, <2>4, <2>5, <3>1, <3>2, SaveGoesOn
    <2>6. CASE ~(save.n < Len(l)) /\ save' = [[save EXCEPT !.at = "items"] EXCEPT !.n = 0]
      <3>1. save.s \in Modern => f.turns = Whole(TurnLines(save.c)) /\ 0 <= Len(save.c.items)
        BY <1>8, <1>11, <1>13, <1>14, <2>2, <2>6
      <3> QED BY <1>1, <1>6, <2>1, <2>2, <2>3, <2>4, <2>6, <3>1, SaveGoesOn
    <2> QED BY <1>7, <1>14, <2>5, <2>6
  <1>15. CASE save.at = "items"
    <2> DEFINE f == [d EXCEPT !.items = t]
    <2>1. /\ DOMAIN disk' = Session /\ disk'[save.s] = f
          /\ \A u \in Session : u # save.s => disk'[u] = disk[u]
      BY <1>2, <1>3, <1>15 DEF Shape
    <2>2. f.meta = d.meta /\ f.turns = d.turns /\ f.items = t /\ Shape(f)
      BY <1>2 DEF Shape
    <2>3. save.s \in Modern => SoundFiles(f) /\ FileMarks(f) \subseteq Marks(save.mem)
      <3>1. ~t.exists => t.lines = <<>>
        BY <1>10
      <3> QED BY <1>2, <1>11, <1>12, <1>15, <3>1, ItemsWritten
    <2>4. f.meta.state # "missing"
          /\ (save.s \in Modern => f.meta = MetaOf(save.c) /\ f.turns = Whole(TurnLines(save.c)))
      BY <1>2, <1>15, <2>2
    <2> HIDE DEF f, d
    <2>5. CASE save.n < Len(l) /\ save' = [[save EXCEPT !.at = "items"] EXCEPT !.n = save.n + 1]
      <3>1. save.n + 1 \in Nat
        BY <1>2
      <3>2. save.s \in Modern => save.n + 1 <= Len(save.c.items)
        BY <1>2, <1>8, <1>13, <1>15, <2>5
      <3> QED BY <1>1, <1>6, <2>1, <2>2, <2>3, <2>4, <2>5, <3>1, <3>2, SaveGoesOn
    <2>6. CASE ~(save.n < Len(l)) /\ save' = [[save EXCEPT !.at = "latest"] EXCEPT !.n = 0]
      <3>1. save.s \in Modern => f.items = Whole(save.c.items)
        BY <1>8, <1>11, <1>15, <2>2, <2>6
      <3> QED BY <1>1, <1>6, <2>1, <2>2, <2>3, <2>4, <2>6, <3>1, SaveGoesOn
    <2> QED BY <1>7, <1>15, <2>5, <2>6
  <1> QED BY <1>1, <1>14, <1>15

\* The latest pointer is truncated and written.
LEMMA LatestKeeps ==
    ASSUME IInv, TruncateLatest \/ WriteLatest,
           UNCHANGED <<serverVars, faults, work, saved, torn, scarred>>
    PROVE  IInv'
  <1> DEFINE f == disk[save.s]
  <1>1. save.at = "latest"
    BY DEF TruncateLatest, WriteLatest
  <1>2. /\ save.s \in Session /\ DOMAIN disk = Session /\ Shape(f) /\ f.meta.state # "missing"
        /\ save.s \in Modern =>
             /\ SoundFiles(f) /\ FileMarks(f) \subseteq Marks(save.mem)
             /\ f.meta = MetaOf(save.c) /\ f.turns = Whole(TurnLines(save.c))
             /\ f.items = Whole(save.c.items)
    BY <1>1, InSave
  <1>3. disk' = disk /\ UNCHANGED <<open, mem, busy, saved, torn, scarred>>
    BY DEF TruncateLatest, WriteLatest, serverVars
  <1>4. DOMAIN disk' = Session /\ disk'[save.s] = f
        /\ \A u \in Session : u # save.s => disk'[u] = disk[u]
    BY <1>2, <1>3
  <1>5. save = [at |-> save.at, s |-> save.s, n |-> save.n, c |-> save.c, mem |-> save.mem,
                then |-> save.then]
    BY DEF IInv, ShapeInv
  <1> HIDE DEF f
  <1>6. CASE TruncateLatest
    <2>1. save' = [[save EXCEPT !.at = "latest"] EXCEPT !.n = 1] /\ latest' = Torn
      BY <1>1, <1>5, <1>6 DEF TruncateLatest
    <2> QED BY <1>1, <1>2, <1>3, <1>4, <2>1, SaveGoesOn
  <1>7. CASE WriteLatest
    <2>1. save' = [[save EXCEPT !.at = "done"] EXCEPT !.n = 1] /\ latest' = save.s
      BY <1>1, <1>5, <1>7 DEF WriteLatest
    <2>2. 1 \in Nat /\ 1 # 0
      OBVIOUS
    <2> QED BY <1>1, <1>2, <1>3, <1>4, <2>1, <2>2, SaveGoesOn
  <1> QED BY <1>6, <1>7

\* Idle is the record it is.
LEMMA IdleIs ==
    /\ Idle.at = "idle" /\ Idle.s = NoId
    /\ Idle = [at |-> Idle.at, s |-> Idle.s, n |-> Idle.n, c |-> Idle.c, mem |-> Idle.mem,
               then |-> Idle.then]
  BY DEF Idle

\* What a failure leaves in the files: what was there, or that with a line cut in two.
LEMMA FilesStay ==
    ASSUME IInv, Interrupt
    PROVE  /\ save.s \in Session /\ DOMAIN disk' = Session
           /\ \A t \in Session : t # save.s => disk'[t] = disk[t]
           /\ Shape(disk'[save.s]) /\ disk'[save.s].meta = disk[save.s].meta
           /\ save.s \in Modern =>
                /\ SoundFiles(disk'[save.s])
                /\ FileMarks(disk'[save.s]) \subseteq FileMarks(disk[save.s])
  <1> DEFINE f == disk[save.s]
  <1>1. save.at \in {"meta", "turns", "items", "latest"}
    BY DEF Interrupt, IInv, ShapeInv
  <1>2. /\ save.s \in Session /\ DOMAIN disk = Session /\ Shape(f) /\ f.meta.state # "missing"
        /\ save.s \in Modern => SoundFiles(f)
    BY <1>1, InSave
  <1>3. CASE UNCHANGED disk
    BY <1>2, <1>3
  <1>4. ASSUME save.at \in {"turns", "items"}, disk' = [disk EXCEPT ![save.s][save.at].torn = TRUE]
        PROVE  /\ DOMAIN disk' = Session
               /\ \A t \in Session : t # save.s => disk'[t] = disk[t]
               /\ Shape(disk'[save.s]) /\ disk'[save.s].meta = disk[save.s].meta
               /\ save.s \in Modern =>
                    /\ SoundFiles(disk'[save.s])
                    /\ FileMarks(disk'[save.s]) \subseteq FileMarks(disk[save.s])
    <2>1. ASSUME save.s \in Modern
          PROVE  /\ IsLines(f.turns) /\ IsLines(f.items) /\ Agree(FileMarks(f))
                 /\ LineMarks(f.turns.lines) \subseteq FileMarks(f)
                 /\ LineMarks(f.items.lines) \subseteq FileMarks(f)
                 /\ \A i \in DOMAIN f.turns.lines : f.turns.lines[i].rec \in TurnRec
                 /\ Rising(f.items.lines) /\ (~f.items.exists => f.items.lines = <<>>)
      BY <1>2, <2>1, FileMark DEF SoundFiles
    <2>2. CASE save.at = "turns"
      <3> DEFINE t == [f.turns EXCEPT !.torn = TRUE]
                 g == [f EXCEPT !.turns = t]
      <3>1. /\ DOMAIN disk' = Session /\ disk'[save.s] = g
            /\ \A u \in Session : u # save.s => disk'[u] = disk[u]
        BY <1>2, <1>4, <2>2 DEF Shape
      <3>2. Shape(g) /\ g.meta = f.meta
        <4> HIDE DEF t
        <4> QED BY <1>2 DEF Shape
      <3>3. ASSUME save.s \in Modern PROVE SoundFiles(g) /\ FileMarks(g) \subseteq FileMarks(f)
        <4>1. IsLines(t) /\ t.lines = f.turns.lines
          BY <2>1, <3>3, LineCut
        <4> HIDE DEF t, f
        <4> QED BY <1>2, <2>1, <3>3, <4>1, TurnsWritten
      <3> HIDE DEF g
      <3> QED BY <3>1, <3>2, <3>3
    <2>3. CASE save.at = "items"
      <3> DEFINE t == [f.items EXCEPT !.torn = TRUE]
                 g == [f EXCEPT !.items = t]
      <3>1. /\ DOMAIN disk' = Session /\ disk'[save.s] = g
            /\ \A u \in Session : u # save.s => disk'[u] = disk[u]
        BY <1>2, <1>4, <2>3 DEF Shape
      <3>2. Shape(g) /\ g.meta = f.meta
        <4> HIDE DEF t
        <4> QED BY <1>2 DEF Shape
      <3>3. ASSUME save.s \in Modern PROVE SoundFiles(g) /\ FileMarks(g) \subseteq FileMarks(f)
        <4>1. IsLines(t) /\ t.lines = f.items.lines /\ t.exists = f.items.exists
          BY <2>1, <3>3, LineCut
        <4> HIDE DEF t, f
        <4>2. Rising(t.lines) /\ LineMarks(t.lines) \subseteq FileMarks(f)
              /\ (~t.exists => t.lines = <<>>)
          BY <2>1, <3>3, <4>1
        <4> QED BY <1>2, <2>1, <3>3, <4>1, <4>2, ItemsWritten
      <3> HIDE DEF g
      <3> QED BY <3>1, <3>2, <3>3
    <2> QED BY <1>4, <2>2, <2>3
  <1> QED BY <1>2, <1>3, <1>4 DEF Interrupt

\* A save that fails, or dies with the process, leaves files that hold nothing new.
LEMMA InterruptKeeps ==
    ASSUME IInv, Interrupt, torn' = torn \cup {save.s}, saved' = saved, scarred' = scarred,
           open' \subseteq open, busy' \subseteq open', DOMAIN mem' = Session,
           \A t \in Modern : Sound(mem'[t]) /\ (t \in open' => mem'[t] = mem[t])
    PROVE  IInv'
  <1>1. /\ save.s \in Session /\ DOMAIN disk' = Session
        /\ \A t \in Session : t # save.s => disk'[t] = disk[t]
        /\ Shape(disk'[save.s]) /\ disk'[save.s].meta = disk[save.s].meta
        /\ save.s \in Modern =>
             /\ SoundFiles(disk'[save.s])
             /\ FileMarks(disk'[save.s]) \subseteq FileMarks(disk[save.s])
    BY FilesStay
  <1>2. save' = Idle /\ save'.at = "idle" /\ save'.s = NoId
    BY IdleIs DEF Interrupt
  <1>3. Modern \subseteq Session /\ NoId \notin Session /\ Torn \notin Session
    BY SessionStoreAssumption DEF Modern
  <1>4. ShapeInv'
    <2>1. ShapeInv
      BY DEF IInv
    <2>2. \A t \in Session : Shape(disk'[t])
      BY <1>1, <2>1 DEF ShapeInv
    <2>3. latest' \in Session => disk'[latest'].meta.state # "missing"
      <3>1. latest \in Session => disk[latest].meta.state # "missing"
        BY <2>1 DEF ShapeInv
      <3>2. latest' \in Session => latest' = latest
        BY <1>3 DEF Interrupt
      <3> QED BY <1>1, <3>1, <3>2
    <2>4. DOMAIN saved' = Session /\ open' \subseteq Session
      BY <2>1 DEF ShapeInv
    <2>5. save' = [at |-> save'.at, s |-> save'.s, n |-> save'.n, c |-> save'.c, mem |-> save'.mem,
                   then |-> save'.then]
      BY <1>2, IdleIs
    <2> QED BY <1>1, <1>2, <2>2, <2>3, <2>4, <2>5 DEF ShapeInv
  <1>5. FilesInv'
    BY <1>1, <1>3 DEF IInv, FilesInv
  <1>6. MemoryInv'
    <2> SUFFICES ASSUME NEW t \in Modern
                 PROVE /\ Sound(mem'[t])
                       /\ t \in open' => FileMarks(disk'[t]) \subseteq Marks(mem'[t])
                       /\ t \in open' \ scarred => IsComplete(mem'[t])
      BY DEF MemoryInv
    <2>1. FileMarks(disk'[t]) \subseteq FileMarks(disk[t])
      BY <1>1, <1>3
    <2>2. /\ t \in open => FileMarks(disk[t]) \subseteq Marks(mem[t])
          /\ t \in open \ scarred => IsComplete(mem[t])
      BY DEF IInv, MemoryInv
    <2> QED BY <2>1, <2>2
  <1>7. SaveInv' /\ ProgressInv'
    BY <1>2 DEF SaveInv, ProgressInv, Writing
  <1>8. SavedInv'
    <2> SUFFICES ASSUME NEW t \in Modern
                 PROVE /\ Canonical(saved[t])
                       /\ t \notin scarred => IsComplete(saved[t])
                       /\ AtRest(t)' /\ disk'[t].meta.state = "whole" => disk'[t] = FilesOf(saved[t])
      BY DEF SavedInv
    <2>1. /\ Canonical(saved[t])
          /\ t \notin scarred => IsComplete(saved[t])
          /\ AtRest(t) /\ disk[t].meta.state = "whole" => disk[t] = FilesOf(saved[t])
      BY DEF IInv, SavedInv
    <2>2. AtRest(t)' => t # save.s /\ AtRest(t)
      BY DEF AtRest
    <2> QED BY <1>1, <1>3, <2>1, <2>2
  <1> QED BY <1>4, <1>5, <1>6, <1>7, <1>8 DEF IInv

\* A write fails.
LEMMA WriteFailsKeeps == ASSUME IInv, WriteFails PROVE IInv'
  <1>1. /\ Interrupt /\ torn' = torn \cup {save.s} /\ saved' = saved /\ scarred' = scarred
        /\ open' = open /\ mem' = mem /\ busy' = busy \ {save.s}
    BY DEF WriteFails
  <1>2. open \subseteq Session /\ busy \subseteq open /\ DOMAIN mem = Session
    BY DEF IInv, ShapeInv
  <1>3. \A t \in Modern : Sound(mem'[t]) /\ (t \in open' => mem'[t] = mem[t])
    BY <1>1 DEF IInv, MemoryInv
  <1>4. open' \subseteq open /\ busy' \subseteq open' /\ DOMAIN mem' = Session
    BY <1>1, <1>2
  <1> QED BY <1>1, <1>3, <1>4, InterruptKeeps

\* The server dies, within a save or between two.
LEMMA CrashKeeps == ASSUME IInv, Crash PROVE IInv'
  <1>1. /\ saved' = saved /\ scarred' = scarred /\ open' = {} /\ busy' = {}
        /\ mem' = [s \in Session |-> NewSession]
    BY DEF Crash
  <1>2. DOMAIN mem' = Session /\ \A t \in Modern : mem'[t] = NewSession /\ Sound(mem'[t])
    BY <1>1, NewIs DEF Canonical, Modern
  <1>3. CASE SaveIdle /\ UNCHANGED <<disk, latest, save, torn>>
    BY <1>1, <1>2, <1>3, HostsChange
  <1>4. CASE Interrupt /\ torn' = torn \cup {save.s}
    BY <1>1, <1>2, <1>4, InterruptKeeps
  <1> QED BY <1>3, <1>4 DEF Crash

\* A completed save left the files a load reads it back from.
LEMMA DoneKeeps == ASSUME IInv, Done PROVE IInv'
  <1> DEFINE s == save.s
  <1>1. /\ save.at = "done" /\ disk' = disk /\ latest' = latest /\ busy' = busy /\ save' = Idle
        /\ scarred' = scarred
    BY DEF Done
  <1>2. ShapeInv
    BY DEF IInv
  <1>3. s \in Session /\ DOMAIN mem = Session /\ DOMAIN saved = Session /\ Shape(disk[s])
    BY <1>1, <1>2 DEF ShapeInv
  <1>4. /\ open \subseteq open' /\ open' \subseteq open \cup {s} /\ DOMAIN mem' = Session
        /\ \A t \in Session : t # s => mem'[t] = mem[t]
        /\ (mem'[s] = mem[s] /\ open' = open) \/ mem'[s] = save.mem
    BY <1>3 DEF Done
  <1>5. /\ DOMAIN saved' = Session
        /\ \A t \in Session : t # s => saved'[t] = saved[t] /\ (t \in torn' <=> t \in torn)
        /\ save.n # 0 => saved'[s] = save.c
        /\ save.n = 0 => saved' = saved /\ torn' = torn
    BY <1>3 DEF Done
  <1>6. save'.at = "idle" /\ save'.s = NoId
    BY <1>1, IdleIs
  <1>7. Modern \subseteq Session /\ NoId \notin Session
    BY SessionStoreAssumption DEF Modern
  <1> HIDE DEF s
  <1>8. ShapeInv'
    <2>1. busy' \subseteq open' /\ open' \subseteq Session
      BY <1>1, <1>2, <1>3, <1>4 DEF ShapeInv
    <2>2. save' = [at |-> save'.at, s |-> save'.s, n |-> save'.n, c |-> save'.c, mem |-> save'.mem,
                   then |-> save'.then]
      BY <1>1, IdleIs
    <2>3. latest' \in Session => disk'[latest'].meta.state # "missing"
      BY <1>1, <1>2 DEF ShapeInv
    <2> QED BY <1>1, <1>2, <1>4, <1>5, <1>6, <2>1, <2>2, <2>3 DEF ShapeInv
  <1>9. FilesInv'
    BY <1>1 DEF IInv, FilesInv
  <1>10. ASSUME s \in Modern
         PROVE  /\ Sound(save.mem) /\ FileMarks(disk[s]) \subseteq Marks(save.mem)
                /\ s \notin scarred => IsComplete(save.mem)
    BY <1>1, <1>10 DEF s, IInv, SaveInv
  <1>11. MemoryInv'
    <2> SUFFICES ASSUME NEW t \in Modern
                 PROVE /\ Sound(mem'[t])
                       /\ t \in open' => FileMarks(disk[t]) \subseteq Marks(mem'[t])
                       /\ t \in open' \ scarred => IsComplete(mem'[t])
      BY <1>1 DEF MemoryInv
    <2>1. /\ Sound(mem[t])
          /\ t \in open => FileMarks(disk[t]) \subseteq Marks(mem[t])
          /\ t \in open \ scarred => IsComplete(mem[t])
      BY DEF IInv, MemoryInv
    <2>2. CASE t # s
      BY <1>4, <1>7, <2>1, <2>2
    <2>3. CASE t = s /\ mem'[s] = mem[s] /\ open' = open
      BY <2>1, <2>3
    <2>4. CASE t = s /\ mem'[s] = save.mem
      BY <1>10, <2>4
    <2> QED BY <1>4, <2>2, <2>3, <2>4
  <1>12. SaveInv' /\ ProgressInv'
    BY <1>6 DEF SaveInv, ProgressInv, Writing
  <1>13. ASSUME s \in Modern, save.n # 0
         PROVE  /\ Canonical(save.c) /\ (s \notin scarred => IsComplete(save.c))
                /\ disk[s] = FilesOf(save.c)
    <2>1. Writing
      BY <1>1, <1>13 DEF Writing
    <2>2. Canonical(save.c) /\ (s \notin scarred => IsComplete(save.c))
      BY <1>1, <1>13, <2>1 DEF s, IInv, SaveInv
    <2>3. /\ disk[s].meta = MetaOf(save.c) /\ disk[s].turns = Whole(TurnLines(save.c))
          /\ disk[s].items = Whole(save.c.items)
      BY <1>1, <1>13, <2>1 DEF s, IInv, ProgressInv
    <2>4. disk[s] = [meta |-> disk[s].meta, turns |-> disk[s].turns, items |-> disk[s].items]
      BY <1>3 DEF Shape
    <2>5. disk[s] = FilesOf(save.c)
      BY <2>3, <2>4 DEF FilesOf, Whole
    <2> QED BY <2>2, <2>5
  <1>14. SavedInv'
    <2> SUFFICES ASSUME NEW t \in Modern
                 PROVE /\ Canonical(saved'[t])
                       /\ t \notin scarred => IsComplete(saved'[t])
                       /\ AtRest(t)' /\ disk[t].meta.state = "whole" => disk[t] = FilesOf(saved'[t])
      BY <1>1 DEF SavedInv
    <2>1. /\ Canonical(saved[t])
          /\ t \notin scarred => IsComplete(saved[t])
          /\ AtRest(t) /\ disk[t].meta.state = "whole" => disk[t] = FilesOf(saved[t])
      BY DEF IInv, SavedInv
    <2>2. CASE t # s
      <3>1. AtRest(t)' => AtRest(t)
        BY <1>5, <1>7, <2>2 DEF AtRest, s
      <3> QED BY <1>5, <1>7, <2>1, <2>2, <3>1
    <2>3. CASE t = s /\ save.n # 0
      BY <1>5, <1>13, <2>3
    <2>4. CASE save.n = 0
      <3>1. ~Writing
        BY <1>1, <2>4 DEF Writing
      <3>2. AtRest(t)' => AtRest(t)
        BY <1>5, <2>4, <3>1 DEF AtRest
      <3> QED BY <1>5, <2>1, <2>4, <3>2
    <2> QED BY <2>2, <2>3, <2>4
  <1> QED BY <1>8, <1>9, <1>11, <1>12, <1>14 DEF IInv

\* What a load reads: all that the files have, and all of what was saved unless they
\* are a failed save's.
LEMMA LoadGives ==
    ASSUME IInv, SaveIdle, NEW s \in Modern, Loadable(disk[s])
    PROVE  LET c == Loaded(disk[s])
           IN  /\ Sound(c) /\ Marks(c) = FileMarks(disk[s])
               /\ s \in open => Marks(c) \subseteq Marks(mem[s])
               /\ s \notin torn /\ s \notin scarred => IsComplete(c)
  <1>1. disk[s].meta.state = "whole" /\ SoundFiles(disk[s])
    BY DEF Loadable, IInv, FilesInv
  <1>2. Sound(Loaded(disk[s])) /\ Marks(Loaded(disk[s])) = FileMarks(disk[s])
    BY <1>1, LoadedIs
  <1>3. s \in open => FileMarks(disk[s]) \subseteq Marks(mem[s])
    BY DEF IInv, MemoryInv
  <1>4. ASSUME s \notin torn, s \notin scarred PROVE IsComplete(Loaded(disk[s]))
    <2>1. AtRest(s)
      BY <1>4, AtIdle DEF Modern
    <2>2. Canonical(saved[s]) /\ IsComplete(saved[s]) /\ disk[s] = FilesOf(saved[s])
      BY <1>1, <1>4, <2>1 DEF IInv, SavedInv
    <2> QED BY <2>2, LoadedBack
  <1> QED BY <1>2, <1>3, <1>4

\* A session is read, and recovery saves it or not.
LEMMA LoadKeeps ==
    ASSUME IInv, SaveIdle, NEW s \in Session, NEW then, LoadAnd(s, then), Unchanged,
           UNCHANGED serverVars
    PROVE  IInv'
  <1> DEFINE c == Loaded(disk[s])
  <1>1. /\ Loadable(disk[s]) /\ scarred \subseteq scarred'
        /\ s \notin scarred' => s \notin torn /\ s \notin scarred
        /\ \A t : t # s => (t \in scarred' <=> t \in scarred)
    BY DEF LoadAnd, Scar
  <1>2. /\ saved' = saved /\ torn' = torn /\ open' = open /\ mem' = mem /\ busy' = busy
    BY DEF Unchanged, Settled, serverVars
  <1>3. ShapeInv
    BY DEF IInv
  <1>4. open' \subseteq Session /\ busy' \subseteq open' /\ DOMAIN mem' = Session /\ DOMAIN saved' = Session
    BY <1>2, <1>3 DEF ShapeInv
  <1>5. ASSUME NEW t \in Modern
        PROVE  /\ Sound(mem'[t])
               /\ t \in open' => FileMarks(disk[t]) \subseteq Marks(mem'[t])
               /\ t \in open' \ scarred' => IsComplete(mem'[t])
    BY <1>1, <1>2 DEF IInv, MemoryInv
  <1>6. ASSUME s \in Modern
        PROVE  /\ Sound(c) /\ FileMarks(disk[s]) \subseteq Marks(c)
               /\ s \in open' => Marks(c) \subseteq Marks(mem'[s])
               /\ s \notin scarred' => IsComplete(c)
    BY <1>1, <1>2, <1>6, LoadGives
  <1> HIDE DEF c
  <1>7. CASE BeginSave(s, c, then) /\ latest' = latest
    BY <1>1, <1>2, <1>4, <1>5, <1>6, <1>7, SaveBegins
  <1>8. ASSUME save' = [Idle EXCEPT !.at = "done", !.s = s, !.mem = c, !.then = then],
               disk' = disk, latest' = latest
        PROVE  IInv'
    <2>1. /\ save'.at = "done" /\ save'.s = s /\ save'.n = 0 /\ save'.mem = c
          /\ save' = [at |-> save'.at, s |-> save'.s, n |-> save'.n, c |-> save'.c,
                      mem |-> save'.mem, then |-> save'.then]
      BY <1>8 DEF Idle
    <2>2. ~Writing'
      BY <2>1 DEF Writing
    <2>3. disk[s].meta.state # "missing"
      BY <1>1 DEF Loadable
    <2>4. ShapeInv'
      <3>1. latest' \in Session => disk'[latest'].meta.state # "missing"
        BY <1>3, <1>8 DEF ShapeInv
      <3> QED BY <1>3, <1>4, <1>8, <2>1, <2>3, <3>1 DEF ShapeInv
    <2>5. FilesInv'
      BY <1>8 DEF IInv, FilesInv
    <2>6. MemoryInv'
      BY <1>5, <1>8 DEF MemoryInv
    <2>7. SaveInv'
      BY <1>6, <1>8, <2>1, <2>2 DEF SaveInv
    <2>8. ProgressInv'
      BY <2>2 DEF ProgressInv
    <2>9. SavedInv'
      <3> SUFFICES ASSUME NEW t \in Modern
                   PROVE /\ Canonical(saved[t])
                         /\ t \notin scarred' => IsComplete(saved[t])
                         /\ AtRest(t)' /\ disk[t].meta.state = "whole" => disk[t] = FilesOf(saved[t])
        BY <1>2, <1>8 DEF SavedInv
      <3>1. /\ Canonical(saved[t])
            /\ t \notin scarred => IsComplete(saved[t])
            /\ AtRest(t) /\ disk[t].meta.state = "whole" => disk[t] = FilesOf(saved[t])
        BY DEF IInv, SavedInv
      <3>2. AtRest(t)' => AtRest(t)
        <4>1. AtRest(t)' => t \notin torn
          BY <1>2 DEF AtRest
        <4> QED BY <4>1, AtIdle DEF Modern
      <3> QED BY <1>1, <3>1, <3>2
    <2> QED BY <2>4, <2>5, <2>6, <2>7, <2>8, <2>9 DEF IInv
  <1> QED BY <1>7, <1>8 DEF LoadAnd, c

\* A session is created.
LEMMA CreateKeeps ==
    ASSUME IInv, SaveIdle, NEW s \in Session, NEW then, Create(s, then), Unchanged,
           UNCHANGED serverVars
    PROVE  IInv'
  <1>1. /\ disk[s].meta.state = "missing" /\ s \notin open /\ BeginSave(s, NewSession, then)
        /\ latest' = latest /\ scarred' = scarred
    BY DEF Create, Fresh
  <1>2. /\ saved' = saved /\ torn' = torn /\ open' = open /\ mem' = mem /\ busy' = busy
    BY DEF Unchanged, Settled, serverVars
  <1>3. open' \subseteq Session /\ busy' \subseteq open' /\ DOMAIN mem' = Session
    BY <1>2 DEF IInv, ShapeInv
  <1>4. ASSUME NEW t \in Modern
        PROVE  /\ Sound(mem'[t])
               /\ t \in open' => FileMarks(disk[t]) \subseteq Marks(mem'[t])
               /\ t \in open' \ scarred' => IsComplete(mem'[t])
    BY <1>1, <1>2 DEF IInv, MemoryInv
  <1>5. ASSUME s \in Modern
        PROVE  /\ Sound(NewSession) /\ FileMarks(disk[s]) \subseteq Marks(NewSession)
               /\ IsComplete(NewSession)
    <2>1. FileMarks(disk[s]) = {}
      BY <1>1, <1>5 DEF IInv, FilesInv, SoundFiles
    <2> QED BY <2>1, NewIs DEF Canonical
  <1> QED BY <1>1, <1>2, <1>3, <1>4, <1>5, SaveBegins

\* The server starts.
LEMMA StartupKeeps == ASSUME IInv, Startup PROVE IInv'
  <1>1. SaveIdle /\ Unchanged /\ UNCHANGED serverVars
    BY DEF Startup
  <1>2. CASE LatestIsThere
    BY <1>1, <1>2, LoadKeeps DEF Startup, LatestIsThere
  <1>3. CASE ~LatestIsThere
    BY <1>1, <1>3, CreateKeeps DEF Startup
  <1> QED BY <1>2, <1>3

\* The turn makes a record: it comes after all that the files have.
LEMMA RecordKeeps == ASSUME IInv, NEW s \in Session, Record(s) PROVE IInv'
  <1>1. PICK r \in Rec :
            /\ \A q \in mem[s].recs : q < r
            /\ \A i \in DOMAIN mem[s].items : mem[s].items[i].rec < r
            /\ mem' = [mem EXCEPT ![s] = AddRecord(mem[s], r)]
            /\ BeginSave(s, AddRecord(mem[s], r), "nothing")
    BY DEF Record
  <1> DEFINE c == AddRecord(mem[s], r)
  <1>2. /\ SaveIdle /\ s \in busy /\ latest' = latest /\ saved' = saved /\ torn' = torn
        /\ scarred' = scarred /\ open' = open /\ busy' = busy
    BY DEF Record, Settled
  <1>3. open' \subseteq Session /\ busy' \subseteq open' /\ DOMAIN mem = Session /\ s \in open
    BY <1>2 DEF IInv, ShapeInv
  <1>4. DOMAIN mem' = Session /\ mem'[s] = c /\ \A t \in Session : t # s => mem'[t] = mem[t]
    BY <1>1, <1>3
  <1>5. \A t \in Modern : /\ Sound(mem[t])
                          /\ t \in open => FileMarks(disk[t]) \subseteq Marks(mem[t])
                          /\ t \in open \ scarred => IsComplete(mem[t])
    BY DEF IInv, MemoryInv
  <1>6. s \in Modern => /\ Sound(c) /\ Marks(mem[s]) \subseteq Marks(c)
                        /\ IsComplete(mem[s]) => IsComplete(c)
    BY <1>1, <1>5, AddedIs
  <1> HIDE DEF c
  <1>7. s \in Modern => /\ Sound(c) /\ FileMarks(disk[s]) \subseteq Marks(c)
                        /\ s \notin scarred => IsComplete(c)
    BY <1>3, <1>5, <1>6
  <1>8. Modern \subseteq Session
    BY DEF Modern
  <1>9. ASSUME NEW t \in Modern
        PROVE  /\ Sound(mem'[t])
               /\ t \in open' => FileMarks(disk[t]) \subseteq Marks(mem'[t])
               /\ t \in open' \ scarred' => IsComplete(mem'[t])
    <2>1. CASE t = s
      BY <1>2, <1>4, <1>7, <2>1
    <2>2. CASE t # s
      BY <1>2, <1>4, <1>5, <1>8, <2>2
    <2> QED BY <2>1, <2>2
  <1>10. BeginSave(s, c, "nothing")
    BY <1>1 DEF c
  <1> QED BY <1>2, <1>3, <1>4, <1>7, <1>9, <1>10, SaveBegins

\* The turn changes a record, and saves it or not yet.
LEMMA ChangeKeeps == ASSUME IInv, NEW s \in Session, Change(s) PROVE IInv'
  <1>1. PICK r \in mem[s].recs :
            /\ mem' = [mem EXCEPT ![s] = ChangeRecord(mem[s], r)]
            /\ \/ BeginSave(s, ChangeRecord(mem[s], r), "nothing")
               \/ UNCHANGED <<disk, save>>
    BY DEF Change
  <1> DEFINE c == ChangeRecord(mem[s], r)
  <1>2. /\ SaveIdle /\ s \in busy /\ latest' = latest /\ saved' = saved /\ torn' = torn
        /\ scarred' = scarred /\ open' = open /\ busy' = busy
    BY DEF Change, Settled
  <1>3. open' \subseteq Session /\ busy' \subseteq open' /\ DOMAIN mem = Session /\ s \in open
    BY <1>2 DEF IInv, ShapeInv
  <1>4. DOMAIN mem' = Session /\ mem'[s] = c /\ \A t \in Session : t # s => mem'[t] = mem[t]
    BY <1>1, <1>3
  <1>5. \A t \in Modern : /\ Sound(mem[t])
                          /\ t \in open => FileMarks(disk[t]) \subseteq Marks(mem[t])
                          /\ t \in open \ scarred => IsComplete(mem[t])
    BY DEF IInv, MemoryInv
  <1>6. s \in Modern => /\ Sound(c) /\ Marks(c) = Marks(mem[s])
                        /\ IsComplete(mem[s]) => IsComplete(c)
    BY <1>1, <1>5, ChangedIs
  <1> HIDE DEF c
  <1>7. s \in Modern => /\ Sound(c) /\ FileMarks(disk[s]) \subseteq Marks(c)
                        /\ s \notin scarred => IsComplete(c)
    BY <1>3, <1>5, <1>6
  <1>8. Modern \subseteq Session
    BY DEF Modern
  <1>9. ASSUME NEW t \in Modern
        PROVE  /\ Sound(mem'[t])
               /\ t \in open' => FileMarks(disk[t]) \subseteq Marks(mem'[t])
               /\ t \in open' \ scarred' => IsComplete(mem'[t])
    <2>1. CASE t = s
      BY <1>2, <1>4, <1>7, <2>1
    <2>2. CASE t # s
      BY <1>2, <1>4, <1>5, <1>8, <2>2
    <2> QED BY <2>1, <2>2
  <1>10. CASE BeginSave(s, c, "nothing")
    BY <1>2, <1>3, <1>4, <1>7, <1>9, <1>10, SaveBegins
  <1>11. CASE UNCHANGED <<disk, save>>
    BY <1>2, <1>3, <1>4, <1>9, <1>11, HostsChange
  <1> QED BY <1>1, <1>10, <1>11 DEF c

\* A closed session has no host; the other requests leave the hosts alone.
LEMMA RequestsKeep ==
    ASSUME IInv,
           \/ Initialize \/ Authenticate
           \/ \E s \in Session : SessionClose(s) \/ Prompt(s) \/ PromptDone(s)
    PROVE  IInv'
  <1>1. /\ SaveIdle /\ UNCHANGED <<disk, latest, save, saved, torn, scarred>>
    BY DEF Initialize, Authenticate, SessionClose, Prompt, PromptDone, Unchanged, Settled
  <1>2. open \subseteq Session /\ busy \subseteq open /\ DOMAIN mem = Session
    BY DEF IInv, ShapeInv
  <1>3. /\ open' \subseteq Session /\ busy' \subseteq open' /\ open' \subseteq open
        /\ DOMAIN mem' = Session
        /\ \A t \in Session : mem'[t] = mem[t] \/ (t \notin open' /\ mem'[t] = NewSession)
    <2>1. CASE Initialize \/ Authenticate
      BY <1>2, <2>1 DEF Initialize, Authenticate
    <2>2. ASSUME NEW s \in Session, Prompt(s) \/ PromptDone(s)
          PROVE  /\ open' = open /\ busy' \subseteq open' /\ mem' = mem
      BY <1>2, <2>2 DEF Prompt, PromptDone
    <2>3. ASSUME NEW s \in Session, SessionClose(s)
          PROVE  /\ open' \subseteq Session /\ busy' \subseteq open' /\ open' \subseteq open
                 /\ DOMAIN mem' = Session
                 /\ \A t \in Session : mem'[t] = mem[t] \/ (t \notin open' /\ mem'[t] = NewSession)
      BY <1>2, <2>3 DEF SessionClose, Undisturbed
    <2> QED BY <1>2, <2>1, <2>2, <2>3
  <1>4. ASSUME NEW t \in Modern
        PROVE  /\ Sound(mem'[t])
               /\ t \in open' => FileMarks(disk[t]) \subseteq Marks(mem'[t])
               /\ t \in open' \ scarred => IsComplete(mem'[t])
    <2>1. /\ Sound(mem[t])
          /\ t \in open => FileMarks(disk[t]) \subseteq Marks(mem[t])
          /\ t \in open \ scarred => IsComplete(mem[t])
      BY DEF IInv, MemoryInv
    <2>2. t \in Session /\ Sound(NewSession)
      BY NewIs DEF Canonical, Modern
    <2> QED BY <1>3, <2>1, <2>2
  <1> QED BY <1>1, <1>3, <1>4, HostsChange

-----------------------------------------------------------------------------
(* The theorems.                                                           *)

\* The invariant holds when nothing has run,
LEMMA InitKeeps == ASSUME Init PROVE IInv
  <1>1. /\ save = Idle /\ open = {} /\ busy = {} /\ latest = LegacySession
        /\ disk = [s \in Session |-> IF s = LegacySession THEN LegacyFiles ELSE NoFiles]
        /\ mem = [s \in Session |-> NewSession] /\ saved = [s \in Session |-> NewSession]
    BY DEF Init
  <1>2. save.at = "idle" /\ save.s = NoId
    BY <1>1, IdleIs
  <1>3. Modern \subseteq Session /\ LegacySession \notin Modern
    BY DEF Modern
  <1>4. \A s \in Modern : /\ disk[s] = NoFiles /\ mem[s] = NewSession /\ saved[s] = NewSession
    BY <1>1, <1>3
  <1>5. SoundFiles(NoFiles) /\ NoFiles.meta.state = "missing"
    BY NoFilesAre
  <1>6. Canonical(NewSession) /\ Sound(NewSession) /\ IsComplete(NewSession)
    BY NewIs DEF Canonical
  <1>7. LegacyFiles.meta.state = "whole" /\ Shape(LegacyFiles)
    BY DEF LegacyFiles, Missing, Shape
  <1>8. ShapeInv
    <2>1. Shape(NoFiles)
      BY DEF NoFiles, Shape
    <2>2. \A s \in Session : Shape(disk[s])
      BY <1>1, <1>7, <2>1
    <2>3. latest \in Session => disk[latest].meta.state # "missing"
      <3>1. latest \in Session => disk[latest] = LegacyFiles
        BY <1>1
      <3> QED BY <1>7, <3>1
    <2>4. save = [at |-> save.at, s |-> save.s, n |-> save.n, c |-> save.c, mem |-> save.mem,
                  then |-> save.then]
      BY <1>1, IdleIs
    <2>5. DOMAIN disk = Session /\ DOMAIN mem = Session /\ DOMAIN saved = Session
      BY <1>1
    <2> QED BY <1>1, <1>2, <2>2, <2>3, <2>4, <2>5 DEF ShapeInv
  <1>9. FilesInv
    BY <1>4, <1>5 DEF FilesInv
  <1>10. MemoryInv
    BY <1>1, <1>4, <1>6 DEF MemoryInv
  <1>11. SaveInv /\ ProgressInv
    BY <1>2 DEF SaveInv, ProgressInv, Writing
  <1>12. SavedInv
    BY <1>4, <1>5, <1>6 DEF SavedInv
  <1> QED BY <1>8, <1>9, <1>10, <1>11, <1>12 DEF IInv

\* and every step keeps it.
LEMMA NextKeeps == ASSUME IInv, [Next]_vars PROVE IInv'
  <1>1. CASE Startup
    BY <1>1, StartupKeeps
  <1>2. CASE SessionNew
    BY <1>2, CreateKeeps DEF SessionNew
  <1>3. ASSUME NEW s \in Session, SessionLoad(s) PROVE IInv'
    BY <1>3, LoadKeeps DEF SessionLoad
  <1>4. ASSUME NEW s \in Session, Record(s) PROVE IInv'
    BY <1>4, RecordKeeps
  <1>5. ASSUME NEW s \in Session, Change(s) PROVE IInv'
    BY <1>5, ChangeKeeps
  <1>6. CASE Write
    <2>1. UNCHANGED <<serverVars, faults, work, saved, torn, scarred>>
      BY <1>6 DEF Write
    <2> QED BY <1>6, <2>1, WriteMetaKeeps, WriteLineKeeps, LatestKeeps DEF Write, SaveStep
  <1>7. CASE Done
    BY <1>7, DoneKeeps
  <1>8. CASE WriteFails
    BY <1>8, WriteFailsKeeps
  <1>9. CASE Crash
    BY <1>9, CrashKeeps
  <1>10. CASE Initialize \/ Authenticate
              \/ \E s \in Session : SessionClose(s) \/ Prompt(s) \/ PromptDone(s)
    BY <1>10, RequestsKeep
  <1>11. CASE UNCHANGED vars
    <2>1. UNCHANGED <<disk, latest, save, open, mem, busy, saved, torn, scarred>>
      BY <1>11 DEF vars
    <2>2. \A t : AtRest(t)' <=> AtRest(t)
      BY <2>1 DEF AtRest, Writing
    <2>3. Writing' <=> Writing
      BY <2>1 DEF Writing
    <2>4. ShapeInv' /\ FilesInv'
      BY <2>1 DEF IInv, ShapeInv, FilesInv
    <2>5. MemoryInv' /\ SavedInv'
      BY <2>1, <2>2 DEF IInv, MemoryInv, SavedInv
    <2>6. SaveInv'
      BY <2>1, <2>3 DEF IInv, SaveInv
    <2>7. ProgressInv'
      BY <2>1, <2>3 DEF IInv, ProgressInv
    <2> QED BY <2>4, <2>5, <2>6, <2>7 DEF IInv
  <1> QED BY <1>1, <1>2, <1>3, <1>4, <1>5, <1>6, <1>7, <1>8, <1>9, <1>10, <1>11 DEF Next

\* The inductive invariant.
THEOREM SessionsInvariant == Spec => []IInv
  <1>1. Init => IInv
    BY InitKeeps
  <1>2. IInv /\ [Next]_vars => IInv'
    BY NextKeeps
  <1> QED BY <1>1, <1>2, PTL DEF Spec

\* A session that no earlier version saved is read back as it was saved, lists its
\* records in the order they were made, and unless it was read from the files of a
\* failed save it lists them all: whatever saves fail and wherever the server dies.
\* The latest pointer names a session that is there.
Kept ==
    /\ \A s \in Session \ {LegacySession} :
        /\ ReadsBack(s)
        /\ s \in open => IsOrdered(mem[s])
        /\ s \in open \ scarred => IsComplete(mem[s])
    /\ latest \in Session => disk[latest].meta.state # "missing"

\* What the sessions are promised follows from the invariant.
LEMMA InvariantGives == ASSUME IInv PROVE Kept /\ open \subseteq Session
  <1>1. ASSUME NEW s \in Modern PROVE ReadsBack(s)
    <2> SUFFICES ASSUME Untouched(s), disk[s].meta.format = CanonicalFormat
                 PROVE  Loadable(disk[s]) /\ Loaded(disk[s]) = saved[s]
      BY DEF ReadsBack
    <2>1. AtRest(s)
      BY DEF Untouched, AtRest, SaveIdle, Writing
    <2>2. disk[s].meta.state = "whole"
      BY DEF IInv, FilesInv, SoundFiles, IsMeta
    <2>3. Canonical(saved[s]) /\ disk[s] = FilesOf(saved[s])
      BY <2>1, <2>2 DEF IInv, SavedInv
    <2> QED BY <2>3, LoadedBack
  <1>2. ASSUME NEW s \in Modern
        PROVE  (s \in open => IsOrdered(mem[s])) /\ (s \in open \ scarred => IsComplete(mem[s]))
    BY SoundIsOrdered DEF IInv, MemoryInv
  <1>3. latest \in Session => disk[latest].meta.state # "missing"
    BY DEF IInv, ShapeInv
  <1>4. open \subseteq Session
    BY DEF IInv, ShapeInv
  <1> QED BY <1>1, <1>2, <1>3, <1>4 DEF Kept, Modern

\* The promise holds in every state of every behaviour.
THEOREM SessionsAreKept == Spec => []Kept
  <1>1. IInv => Kept
    BY InvariantGives
  <1> QED BY <1>1, SessionsInvariant, PTL

\* Where no session is from before there were sequences, a load reads what the last
\* completed save wrote.
THEOREM RoundTripKept == ASSUME LegacySession = NoId PROVE Spec => []RoundTrip
  <1>1. Kept => RoundTrip
    <2>1. Session \ {LegacySession} = Session
      BY SessionStoreAssumption
    <2> QED BY <2>1 DEF Kept, RoundTrip
  <1> QED BY <1>1, SessionsAreKept, PTL

\* Only the session from before there were sequences may be out of order.
THEOREM OrderKept == Spec => [](LegacySession \notin open => TranscriptIsOrdered)
  <1>1. IInv => (LegacySession \notin open => TranscriptIsOrdered)
    BY InvariantGives DEF Kept, TranscriptIsOrdered
  <1> QED BY <1>1, SessionsInvariant, PTL

\* Only the session from before there were sequences may have a transcript that lacks
\* a record, besides those read from the files of a failed save.
THEOREM TranscriptKept ==
    Spec => [](LegacySession \notin open \ scarred => TranscriptIsComplete)
  <1>1. IInv => (LegacySession \notin open \ scarred => TranscriptIsComplete)
    BY InvariantGives DEF Kept, TranscriptIsComplete
  <1> QED BY <1>1, SessionsInvariant, PTL
=============================================================================
