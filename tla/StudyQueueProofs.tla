-------------------------- MODULE StudyQueueProofs --------------------------
(***************************************************************************)
(* Proofs about the study queue, for any cards, any order of answers, of   *)
(* their undo and redo, and of what happens beside the reviewer.  Counts   *)
(* and entries are only ever moved along, and an undo trusts that the      *)
(* queue is as its answer left it.  So the invariant keeps the history of  *)
(* the queue at hand: a moment for now (0), one before every answer that   *)
(* can still be taken back (1, 2, ...), one after every answer that can be *)
(* given again (-1, -2, ...).  Each step made on this queue leads from one *)
(* moment to the next; steps made on another queue lead nowhere, and they  *)
(* are told apart by the time of build, which no step left over shares     *)
(* with a queue just built.  Every moment is sound: no card twice, each    *)
(* entry of its card as it was then, every learner of the day kept.        *)
(* Beside it, the learning cards stand in line: in order, the card that is *)
(* shown in front, so that what is popped and pushed back at the front, or *)
(* put in and taken out again, leaves the queue as it was.                 *)
(***************************************************************************)
EXTENDS StudyQueue, FiniteSetTheorems, SequenceTheorems, WellFoundedInduction, TLAPS

-----------------------------------------------------------------------------
(* Sequences                                                               *)

\* A set of one index has it as its least.
LEMMA MinOfOne == ASSUME NEW i \in Int PROVE Min({i}) = i
BY DEF Min

\* InsertAt(s, p, e) moves what stands from p on one place back.
LEMMA InsertedAt ==
    ASSUME NEW S, NEW s \in Seq(S), NEW e \in S, NEW p \in Int, 1 <= p, p <= Len(s) + 1
    PROVE  /\ InsertAt(s, p, e) \in Seq(S) /\ Len(InsertAt(s, p, e)) = Len(s) + 1
           /\ \A i \in 1..(Len(s) + 1) : (i < p => InsertAt(s, p, e)[i] = s[i]) /\ (i = p => InsertAt(s, p, e)[i] = e) /\ (i > p => InsertAt(s, p, e)[i] = s[i - 1])
<1> DEFINE r == InsertAt(s, p, e)
<1> DEFINE a == SubSeq(s, 1, p - 1)
           b == <<e>>
           c == SubSeq(s, p, Len(s))
<1>1. Len(s) \in Nat /\ p \in Int
  OBVIOUS
<1>2. a \in Seq(S) /\ Len(a) = p - 1 /\ \A i \in 1..(p - 1) : a[i] = s[i]
  OBVIOUS
<1>3. b \in Seq(S) /\ Len(b) = 1 /\ b[1] = e
  OBVIOUS
<1>4. c \in Seq(S) /\ Len(c) = Len(s) - p + 1 /\ \A i \in 1..(Len(s) - p + 1) : c[i] = s[p + i - 1]
  OBVIOUS
<1>5. r = (a \o b) \o c
  BY DEF InsertAt
<1> HIDE DEF a, b, c
<1>6. /\ a \o b \in Seq(S) /\ Len(a \o b) = p
      /\ \A i \in 1..p : (a \o b)[i] = IF i < p THEN s[i] ELSE e
  <2>1. a \o b \in Seq(S) /\ Len(a \o b) = p
    <3>1. a \o b \in Seq(S) /\ Len(a \o b) = Len(a) + Len(b)
      BY <1>2, <1>3, ConcatProperties
    <3> QED
      BY <1>1, <1>2, <1>3, <3>1
  <2>2. ASSUME NEW i \in 1..p PROVE (a \o b)[i] = IF i < p THEN s[i] ELSE e
    <3>1. (a \o b)[i] = IF i <= Len(a) THEN a[i] ELSE b[i - Len(a)]
      <4>1. i \in 1..(Len(a) + Len(b))
        BY <1>1, <1>2, <1>3
      <4> QED
        BY <1>2, <1>3, <4>1, ConcatProperties
    <3> QED
      BY <1>1, <1>2, <1>3, <3>1
  <2> QED
    BY <2>1, <2>2
<1> DEFINE d == a \o b
<1> HIDE DEF d
<1>7. r = d \o c /\ d \in Seq(S) /\ Len(d) = p /\ \A i \in 1..p : d[i] = IF i < p THEN s[i] ELSE e
  BY <1>5, <1>6 DEF d
<1>8. r \in Seq(S) /\ Len(r) = Len(s) + 1
  BY <1>1, <1>4, <1>7, ConcatProperties
<1>9. ASSUME NEW i \in 1..(Len(s) + 1)
      PROVE  (i < p => r[i] = s[i]) /\ (i = p => r[i] = e) /\ (i > p => r[i] = s[i - 1])
  <2>1. CASE i <= p
    BY <1>1, <1>4, <1>7, <2>1, ConcatProperties
  <2>2. CASE i > p
    <3>1. r[i] = c[i - p] /\ i - p \in 1..(Len(s) - p + 1)
      BY <1>1, <1>4, <1>7, <2>2, ConcatProperties
    <3> QED
      BY <1>1, <1>4, <2>2, <3>1
  <2> QED
    BY <1>1, <2>1, <2>2
<1> QED
  BY <1>8, <1>9

LEMMA InsertedRange ==
    ASSUME NEW S, NEW s \in Seq(S), NEW e \in S, NEW p \in 1..(Len(s) + 1)
    PROVE  Range(InsertAt(s, p, e)) = Range(s) \cup {e}
<1> DEFINE r == InsertAt(s, p, e)
<1>1. /\ r \in Seq(S) /\ Len(r) = Len(s) + 1 /\ DOMAIN r = 1..(Len(s) + 1)
      /\ DOMAIN s = 1..Len(s) /\ Len(s) \in Nat
      /\ \A i \in 1..(Len(s) + 1) : (i < p => r[i] = s[i]) /\ (i = p => r[i] = e) /\ (i > p => r[i] = s[i - 1])
  <2>1. p \in Int /\ 1 <= p /\ p <= Len(s) + 1
    OBVIOUS
  <2>2. r = InsertAt(s, p, e)
    OBVIOUS
  <2> HIDE DEF r
  <2>3. /\ r \in Seq(S) /\ Len(r) = Len(s) + 1
        /\ \A i \in 1..(Len(s) + 1) : (i < p => r[i] = s[i]) /\ (i = p => r[i] = e) /\ (i > p => r[i] = s[i - 1])
    <3>1. /\ InsertAt(s, p, e) \in Seq(S) /\ Len(InsertAt(s, p, e)) = Len(s) + 1
          /\ \A i \in 1..(Len(s) + 1) : /\ i < p => InsertAt(s, p, e)[i] = s[i]
                                        /\ i = p => InsertAt(s, p, e)[i] = e
                                        /\ i > p => InsertAt(s, p, e)[i] = s[i - 1]
      BY <2>1, InsertedAt
    <3> QED
      BY <2>2, <3>1
  <2>4. Len(s) \in Nat /\ DOMAIN s = 1..Len(s)
    OBVIOUS
  <2>5. DOMAIN r = 1..(Len(s) + 1)
    <3>1. r \in Seq(S) /\ Len(r) = Len(s) + 1
      BY <2>3
    <3> QED
      BY <3>1
  <2>6. 1 <= p => p \in Nat
    BY <2>1
  <2> QED
    BY <2>1, <2>3, <2>4, <2>5, <2>6
<1> HIDE DEF r
<1>2. ASSUME NEW i \in DOMAIN r PROVE r[i] \in Range(s) \cup {e}
  BY <1>1 DEF Range
<1>3. e = r[p] /\ p \in DOMAIN r
  BY <1>1
<1>4. ASSUME NEW i \in DOMAIN s PROVE \E j \in DOMAIN r : r[j] = s[i]
  <2>1. CASE i < p
    BY <1>1, <2>1
  <2>2. CASE i >= p
    <3>1. i + 1 \in DOMAIN r /\ r[i + 1] = s[i]
      BY <1>1, <2>2
    <3> QED
      BY <3>1
  <2> QED
    BY <1>1, <2>1, <2>2
<1>5. \A i \in DOMAIN s : s[i] \in Range(r)
  BY <1>4 DEF Range
<1>6. e \in Range(r)
  BY <1>3 DEF Range
<1> QED
  BY <1>2, <1>5, <1>6 DEF r, Range

\* RemoveAt(s, p) moves what stands behind p one place forward.
LEMMA RemovedAt ==
    ASSUME NEW S, NEW s \in Seq(S), NEW p \in 1..Len(s)
    PROVE  /\ RemoveAt(s, p) \in Seq(S) /\ Len(RemoveAt(s, p)) = Len(s) - 1
           /\ \A i \in 1..(Len(s) - 1) : RemoveAt(s, p)[i] = IF i < p THEN s[i] ELSE s[i + 1]
<1> DEFINE r == RemoveAt(s, p)
<1> DEFINE a == SubSeq(s, 1, p - 1)
           c == SubSeq(s, p + 1, Len(s))
<1>1. Len(s) \in Nat /\ p \in Int
  OBVIOUS
<1>2. a \in Seq(S) /\ Len(a) = p - 1 /\ \A i \in 1..(p - 1) : a[i] = s[i]
  OBVIOUS
<1>3. c \in Seq(S) /\ Len(c) = Len(s) - p /\ \A i \in 1..(Len(s) - p) : c[i] = s[p + i]
  OBVIOUS
<1>4. r = a \o c
  BY DEF RemoveAt
<1> HIDE DEF a, c
<1>5. r \in Seq(S) /\ Len(r) = Len(s) - 1
  BY <1>1, <1>2, <1>3, <1>4
<1>6. ASSUME NEW i \in 1..(Len(s) - 1) PROVE r[i] = IF i < p THEN s[i] ELSE s[i + 1]
  <2>1. CASE i < p
    BY <1>1, <1>2, <1>3, <1>4, <2>1, ConcatProperties
  <2>2. CASE i >= p
    <3>1. r[i] = c[i - p + 1] /\ i - p + 1 \in 1..(Len(s) - p)
      BY <1>1, <1>2, <1>3, <1>4, <2>2, ConcatProperties
    <3> QED
      BY <1>1, <1>3, <2>2, <3>1
  <2> QED
    BY <1>1, <2>1, <2>2
<1> QED
  BY <1>5, <1>6

\* No two entries of one card
Distinct(s) == \A i, j \in DOMAIN s : s[i].id = s[j].id => i = j

LEMMA RemovedRange ==
    ASSUME NEW S, NEW s \in Seq(S), NEW p \in 1..Len(s), Distinct(s)
    PROVE  Range(RemoveAt(s, p)) = Range(s) \ {s[p]} /\ Distinct(RemoveAt(s, p))
<1> DEFINE r == RemoveAt(s, p)
<1>1. /\ r \in Seq(S) /\ Len(r) = Len(s) - 1 /\ DOMAIN r = 1..(Len(s) - 1)
      /\ DOMAIN s = 1..Len(s) /\ Len(s) \in Nat /\ p \in Nat
      /\ \A i \in 1..(Len(s) - 1) : r[i] = IF i < p THEN s[i] ELSE s[i + 1]
  <2>1. /\ r \in Seq(S) /\ Len(r) = Len(s) - 1
        /\ \A i \in 1..(Len(s) - 1) : r[i] = IF i < p THEN s[i] ELSE s[i + 1]
    BY RemovedAt
  <2> QED
    BY <2>1
<1> DEFINE to(i) == IF i < p THEN i ELSE i + 1
<1> HIDE DEF r
<1>2. \A i \in DOMAIN r : to(i) \in DOMAIN s /\ to(i) # p /\ r[i] = s[to(i)]
  BY <1>1
<1>3. \A i, j \in DOMAIN r : to(i) = to(j) => i = j
  BY <1>1
<1>4. \A k \in DOMAIN s \ {p} : \E i \in DOMAIN r : k = to(i)
  <2> TAKE k \in DOMAIN s \ {p}
  <2>1. CASE k < p
    <3>1. k \in DOMAIN r /\ k = to(k)
      BY <1>1, <2>1
    <3> QED
      BY <3>1
  <2>2. CASE k > p
    <3>1. k - 1 \in DOMAIN r /\ k = to(k - 1)
      BY <1>1, <2>2
    <3> QED
      BY <3>1
  <2> QED
    BY <1>1, <2>1, <2>2
<1>5. \A k \in DOMAIN s \ {p} : s[k] # s[p]
  BY <1>1 DEF Distinct
<1> HIDE DEF to
<1>6. Distinct(r)
  BY <1>2, <1>3 DEF Distinct
<1>7. p \in DOMAIN s
  BY <1>1
<1>8. Range(r) \subseteq Range(s) \ {s[p]}
  <2> SUFFICES ASSUME NEW i \in DOMAIN r PROVE r[i] \in Range(s) \ {s[p]}
    BY DEF Range
  <2> QED
    BY <1>2, <1>5, <1>7 DEF Range
<1>9. Range(s) \ {s[p]} \subseteq Range(r)
  <2> SUFFICES ASSUME NEW k \in DOMAIN s, s[k] # s[p] PROVE s[k] \in Range(r)
    BY DEF Range
  <2>1. k # p
    OBVIOUS
  <2> QED
    BY <1>2, <1>4, <2>1 DEF Range
<1> QED
  BY <1>6, <1>8, <1>9 DEF r

LEMMA InsertedDistinct ==
    ASSUME NEW S, NEW s \in Seq(S), NEW e \in S, NEW p \in 1..(Len(s) + 1),
           Distinct(s), \A f \in Range(s) : f.id # e.id
    PROVE  Distinct(InsertAt(s, p, e))
<1> DEFINE r == InsertAt(s, p, e)
<1>1. /\ r \in Seq(S) /\ Len(r) = Len(s) + 1 /\ DOMAIN r = 1..(Len(s) + 1)
      /\ DOMAIN s = 1..Len(s) /\ Len(s) \in Nat /\ p \in Nat
      /\ \A i \in 1..(Len(s) + 1) : (i < p => r[i] = s[i]) /\ (i = p => r[i] = e) /\ (i > p => r[i] = s[i - 1])
  <2>1. p \in Int /\ 1 <= p /\ p <= Len(s) + 1
    OBVIOUS
  <2>2. r = InsertAt(s, p, e)
    OBVIOUS
  <2> HIDE DEF r
  <2>3. /\ r \in Seq(S) /\ Len(r) = Len(s) + 1
        /\ \A i \in 1..(Len(s) + 1) : (i < p => r[i] = s[i]) /\ (i = p => r[i] = e) /\ (i > p => r[i] = s[i - 1])
    <3>1. /\ InsertAt(s, p, e) \in Seq(S) /\ Len(InsertAt(s, p, e)) = Len(s) + 1
          /\ \A i \in 1..(Len(s) + 1) : /\ i < p => InsertAt(s, p, e)[i] = s[i]
                                        /\ i = p => InsertAt(s, p, e)[i] = e
                                        /\ i > p => InsertAt(s, p, e)[i] = s[i - 1]
      BY <2>1, InsertedAt
    <3> QED
      BY <2>2, <3>1
  <2>4. Len(s) \in Nat /\ DOMAIN s = 1..Len(s)
    OBVIOUS
  <2>5. DOMAIN r = 1..(Len(s) + 1)
    <3>1. r \in Seq(S) /\ Len(r) = Len(s) + 1
      BY <2>3
    <3> QED
      BY <3>1
  <2>6. 1 <= p => p \in Nat
    BY <2>1
  <2> QED
    BY <2>1, <2>3, <2>4, <2>5, <2>6
<1> DEFINE from(i) == IF i < p THEN i ELSE i - 1
<1> HIDE DEF r
<1>2. \A i \in DOMAIN r : i # p => from(i) \in DOMAIN s /\ r[i] = s[from(i)]
  BY <1>1
<1>3. \A i, j \in DOMAIN r : i # p /\ j # p /\ from(i) = from(j) => i = j
  BY <1>1
<1>4. r[p] = e /\ \A k \in DOMAIN s : s[k].id # e.id
  BY <1>1 DEF Range
<1> HIDE DEF from
<1> QED
  BY <1>2, <1>3, <1>4 DEF r, Distinct

\* An entry put in front, and one taken from there
LEMMA ConsFacts ==
    ASSUME NEW S, NEW s \in Seq(S), NEW e \in S
    PROVE  /\ (<<e>> \o s) \in Seq(S) /\ Len((<<e>> \o s)) = Len(s) + 1 /\ (<<e>> \o s) # <<>> /\ Head((<<e>> \o s)) = e /\ Tail((<<e>> \o s)) = s
           /\ (<<e>> \o s)[1] = e /\ \A i \in 1..Len(s) : (<<e>> \o s)[i + 1] = s[i]
           /\ Range((<<e>> \o s)) = Range(s) \cup {e}
<1> DEFINE r == <<e>> \o s
<1>1. Len(s) \in Nat /\ DOMAIN s = 1..Len(s)
  OBVIOUS
<1>2. /\ r \in Seq(S) /\ Len(r) = Len(s) + 1 /\ r # <<>> /\ Head(r) = e /\ Tail(r) = s
      /\ r[1] = e /\ \A i \in 1..Len(s) : r[i + 1] = s[i]
  OBVIOUS
<1> HIDE DEF r
<1>3. DOMAIN r = 1..(Len(s) + 1) /\ \A i \in DOMAIN r : i = 1 \/ i - 1 \in DOMAIN s
  BY <1>1, <1>2
<1>4. \A i \in DOMAIN r : i # 1 => r[i] = s[i - 1]
  BY <1>1, <1>2, <1>3
<1>5. \A i \in DOMAIN s : i + 1 \in DOMAIN r /\ r[i + 1] = s[i]
  BY <1>1, <1>2, <1>3
<1>6. 1 \in DOMAIN r
  BY <1>1, <1>3
<1>7. Range(r) = Range(s) \cup {e}
  <2>1. ASSUME NEW i \in DOMAIN r PROVE r[i] \in Range(s) \cup {e}
    BY <1>2, <1>3, <1>4 DEF Range
  <2>2. ASSUME NEW i \in DOMAIN s PROVE s[i] \in Range(r)
    BY <1>5 DEF Range
  <2>3. e \in Range(r)
    BY <1>2, <1>6 DEF Range
  <2> QED
    BY <2>1, <2>2, <2>3 DEF Range
<1> QED
  BY <1>2, <1>7 DEF r

LEMMA HeadTail ==
    ASSUME NEW S, NEW s \in Seq(S), s # <<>>
    PROVE  /\ s = <<Head(s)>> \o Tail(s) /\ Head(s) \in S /\ Tail(s) \in Seq(S)
           /\ Len(Tail(s)) = Len(s) - 1 /\ 1 \in DOMAIN s /\ Head(s) = s[1]
           /\ \A i \in 1..(Len(s) - 1) : Tail(s)[i] = s[i + 1]
OBVIOUS

LEMMA ConsDistinct ==
    ASSUME NEW S, NEW s \in Seq(S), NEW e \in S
    PROVE  Distinct(<<e>> \o s) <=> (Distinct(s) /\ \A f \in Range(s) : f.id # e.id)
<1> DEFINE r == <<e>> \o s
<1>1. /\ DOMAIN s = 1..Len(s) /\ DOMAIN r = 1..(Len(s) + 1) /\ Len(s) \in Nat
      /\ r[1] = e /\ \A i \in DOMAIN s : i + 1 \in DOMAIN r /\ r[i + 1] = s[i]
      /\ 1 \in DOMAIN r
      /\ \A i \in DOMAIN r : i # 1 => i - 1 \in DOMAIN s /\ r[i] = s[i - 1]
  OBVIOUS
<1> HIDE DEF r
<1>2. ASSUME Distinct(r) PROVE Distinct(s)
  <2> SUFFICES ASSUME NEW i \in DOMAIN s, NEW j \in DOMAIN s, s[i].id = s[j].id PROVE i = j
    BY DEF Distinct
  <2>1. r[i + 1].id = r[j + 1].id /\ i + 1 \in DOMAIN r /\ j + 1 \in DOMAIN r
    BY <1>1
  <2>2. i + 1 = j + 1
    BY <1>2, <2>1 DEF Distinct
  <2> QED
    BY <1>1, <2>2
<1>3. ASSUME Distinct(r), NEW i \in DOMAIN s PROVE s[i].id # e.id
  <2>1. i + 1 # 1
    BY <1>1
  <2> QED
    BY <1>1, <1>3, <2>1 DEF Distinct
<1>4. ASSUME Distinct(s), \A i \in DOMAIN s : s[i].id # e.id PROVE Distinct(r)
  <2> SUFFICES ASSUME NEW i \in DOMAIN r, NEW j \in DOMAIN r, r[i].id = r[j].id PROVE i = j
    BY DEF Distinct
  <2>1. CASE i = 1 \/ j = 1
    BY <1>1, <1>4, <2>1
  <2>2. CASE i # 1 /\ j # 1
    <3>1. i - 1 = j - 1
      BY <1>1, <1>4, <2>2 DEF Distinct
    <3> QED
      BY <1>1, <3>1
  <2> QED
    BY <2>1, <2>2
<1>5. (\A f \in Range(s) : f.id # e.id) <=> \A i \in DOMAIN s : s[i].id # e.id
  BY DEF Range
<1> QED
  BY <1>2, <1>3, <1>4, <1>5 DEF r

\* As many places as entries
LEMMA PlacesAreEntries ==
    ASSUME NEW S, NEW s \in Seq(S), Distinct(s), NEW P
    PROVE  /\ IsFiniteSet(Range(s) \cap P)
           /\ Cardinality({i \in DOMAIN s : s[i] \in P}) = Cardinality(Range(s) \cap P)
<1> DEFINE A == {i \in DOMAIN s : s[i] \in P}
           B == Range(s) \cap P
           f == [i \in A |-> s[i]]
<1>1. IsFiniteSet(A)
  <2>1. IsFiniteSet(1..Len(s)) /\ A \subseteq 1..Len(s)
    <3>1. Len(s) \in Nat /\ DOMAIN s = 1..Len(s)
      OBVIOUS
    <3> QED
      BY <3>1, FS_Interval
  <2> QED
    BY <2>1, FS_Subset
<1>2. f \in Bijection(A, B)
  <2>1. f \in [A -> B]
    BY DEF Range
  <2>2. \A i, j \in A : f[i] = f[j] => i = j
    BY DEF Distinct
  <2>3. \A b \in B : \E i \in A : f[i] = b
    BY DEF Range
  <2> HIDE DEF f, A, B
  <2> QED
    BY <2>1, <2>2, <2>3 DEF Bijection, Injection, Surjection, IsInjective
<1> HIDE DEF f, A, B
<1>3. ExistsBijection(A, B)
  BY <1>2 DEF ExistsBijection
<1> QED
  BY <1>1, <1>3, FS_Bijection DEF A, B

-----------------------------------------------------------------------------
(* Counting                                                                *)

\* How many main entries are of a kind
KindCount(main, kind) == Cardinality({e \in Range(main) : e.kind = kind})
DueCount(learn, t)    == Cardinality({e \in learn : e.due <= t})

\* The counts of a queue of these entries, learning cards until t counted
Tally(main, learn, t) ==
    [new |-> KindCount(main, "New"), review |-> KindCount(main, "Review"),
     learning |-> KindCount(main, "InterdayLearning") + DueCount(learn, t)]

LEMMA RangeFinite ==
    ASSUME NEW S, NEW s \in Seq(S)
    PROVE  IsFiniteSet(Range(s)) /\ Range(s) \subseteq S
<1>1. IsFiniteSet(1..Len(s)) /\ DOMAIN s = 1..Len(s) /\ s \in [1..Len(s) -> S]
  <2>1. Len(s) \in Nat /\ DOMAIN s = 1..Len(s) /\ s \in [1..Len(s) -> S]
    OBVIOUS
  <2> QED
    BY <2>1, FS_Interval
<1>2. s \in Surjection(1..Len(s), Range(s))
  BY <1>1 DEF Range, Surjection
<1> QED
  BY <1>1, <1>2, FS_Surjection DEF Range

LEMMA KindCountIs ==
    ASSUME NEW S, NEW s \in Seq(S), Distinct(s), NEW kind
    PROVE  CountKind(s, kind) = KindCount(s, kind) /\ KindCount(s, kind) \in Nat
<1> DEFINE P == {e \in Range(s) : e.kind = kind}
<1>1. {i \in DOMAIN s : s[i].kind = kind} = {i \in DOMAIN s : s[i] \in P}
  BY DEF Range
<1>2. {e \in Range(s) : e.kind = kind} = Range(s) \cap P
  OBVIOUS
<1> HIDE DEF P
<1>3. IsFiniteSet(Range(s) \cap P)
  BY PlacesAreEntries
<1>4. Cardinality({i \in DOMAIN s : s[i] \in P}) = Cardinality(Range(s) \cap P)
  BY PlacesAreEntries
<1> QED
  BY <1>1, <1>2, <1>3, <1>4, FS_CardinalityType DEF CountKind, KindCount

LEMMA DueCountIs ==
    ASSUME NEW S, NEW s \in Seq(S), Distinct(s), NEW t
    PROVE  /\ Cardinality({i \in DOMAIN s : s[i].due <= t}) = DueCount(Range(s), t)
           /\ DueCount(Range(s), t) \in Nat
<1> DEFINE P == {e \in Range(s) : e.due <= t}
<1>1. {i \in DOMAIN s : s[i].due <= t} = {i \in DOMAIN s : s[i] \in P}
  BY DEF Range
<1>2. {e \in Range(s) : e.due <= t} = Range(s) \cap P
  OBVIOUS
<1> HIDE DEF P
<1>3. IsFiniteSet(Range(s) \cap P)
  BY PlacesAreEntries
<1>4. Cardinality({i \in DOMAIN s : s[i] \in P}) = Cardinality(Range(s) \cap P)
  BY PlacesAreEntries
<1> QED
  BY <1>1, <1>2, <1>3, <1>4, FS_CardinalityType DEF DueCount

LEMMA DueBetween ==
    ASSUME NEW s \in Seq(LearningEntry), Distinct(s), NEW t \in Int, NEW v \in Int, t <= v
    PROVE  DueCount(Range(s), v) = DueCount(Range(s), t)
                + Cardinality({i \in DOMAIN s : t < s[i].due /\ s[i].due <= v})
<1> DEFINE P == {e \in Range(s) : t < e.due /\ e.due <= v}
           A == {e \in Range(s) : e.due <= t}
<1>1. {i \in DOMAIN s : t < s[i].due /\ s[i].due <= v} = {i \in DOMAIN s : s[i] \in P}
  BY DEF Range
<1>2. Range(s) \cap P = P
  OBVIOUS
<1>3. IsFiniteSet(Range(s)) /\ \A e \in Range(s) : e.due \in Nat
  <2>1. IsFiniteSet(Range(s)) /\ Range(s) \subseteq LearningEntry
    BY RangeFinite
  <2> QED
    BY <2>1 DEF LearningEntry
<1>4. {e \in Range(s) : e.due <= v} = A \cup P /\ A \cap P = {}
  BY <1>3
<1>5. A \subseteq Range(s) /\ P \subseteq Range(s)
  OBVIOUS
<1>6. DueCount(Range(s), t) = Cardinality(A)
  BY DEF DueCount
<1> HIDE DEF P, A
<1>7. Cardinality({i \in DOMAIN s : s[i] \in P}) = Cardinality(P)
  BY <1>2, PlacesAreEntries
<1>8. IsFiniteSet(A) /\ IsFiniteSet(P)
  BY <1>3, <1>5, FS_Subset
<1>9. Cardinality(A \cup P) = Cardinality(A) + Cardinality(P) - Cardinality(A \cap P)
  BY <1>8, FS_Union
<1>10. Cardinality(A) \in Nat /\ Cardinality(P) \in Nat /\ Cardinality(A \cap P) = 0
  BY <1>4, <1>8, FS_CardinalityType, FS_EmptySet
<1>11. DueCount(Range(s), v) = Cardinality(A \cup P)
  BY <1>4 DEF DueCount
<1>12. Cardinality({i \in DOMAIN s : t < s[i].due /\ s[i].due <= v}) = Cardinality(P)
  BY <1>1, <1>7
<1> QED
  BY <1>6, <1>9, <1>10, <1>11, <1>12

LEMMA KindCountCons ==
    ASSUME NEW S, NEW s \in Seq(S), NEW e \in S, \A f \in Range(s) : f.id # e.id, NEW kind
    PROVE  /\ KindCount(<<e>> \o s, kind) = KindCount(s, kind) + One(e.kind = kind)
           /\ KindCount(s, kind) \in Nat
<1> DEFINE A == {f \in Range(s) : f.kind = kind}
<1>1. Range(<<e>> \o s) = Range(s) \cup {e}
  BY ConsFacts
<1>2. IsFiniteSet(A) /\ e \notin A
  <2>1. IsFiniteSet(Range(s))
    BY RangeFinite
  <2> QED
    BY <2>1, FS_Subset
<1>3. {f \in Range(<<e>> \o s) : f.kind = kind} = IF e.kind = kind THEN A \cup {e} ELSE A
  BY <1>1
<1>4. KindCount(s, kind) = Cardinality(A)
  BY DEF KindCount
<1> HIDE DEF A
<1>5. Cardinality(A) \in Nat /\ Cardinality(A \cup {e}) = Cardinality(A) + 1
  BY <1>2, FS_AddElement, FS_CardinalityType
<1>6. KindCount(<<e>> \o s, kind) = Cardinality(IF e.kind = kind THEN A \cup {e} ELSE A)
  BY <1>3 DEF KindCount
<1>7. CASE e.kind = kind
  BY <1>4, <1>5, <1>6, <1>7 DEF One
<1>8. CASE e.kind # kind
  BY <1>4, <1>5, <1>6, <1>8 DEF One
<1> QED
  BY <1>7, <1>8

LEMMA DueCountAdd ==
    ASSUME NEW L, IsFiniteSet(L), NEW e, e \notin L, NEW t
    PROVE  DueCount(L \cup {e}, t) = DueCount(L, t) + One(e.due <= t) /\ DueCount(L, t) \in Nat
<1> DEFINE A == {f \in L : f.due <= t}
<1>1. IsFiniteSet(A) /\ e \notin A
  BY FS_Subset
<1>2. {f \in L \cup {e} : f.due <= t} = IF e.due <= t THEN A \cup {e} ELSE A
  OBVIOUS
<1>3. DueCount(L, t) = Cardinality(A)
  BY DEF DueCount
<1> HIDE DEF A
<1>4. Cardinality(A) \in Nat /\ Cardinality(A \cup {e}) = Cardinality(A) + 1
  BY <1>1, FS_AddElement, FS_CardinalityType
<1>5. DueCount(L \cup {e}, t) = Cardinality(IF e.due <= t THEN A \cup {e} ELSE A)
  BY <1>2 DEF DueCount
<1>6. CASE e.due <= t
  BY <1>3, <1>4, <1>5, <1>6 DEF One
<1>7. CASE ~(e.due <= t)
  BY <1>3, <1>4, <1>5, <1>7 DEF One
<1> QED
  BY <1>6, <1>7

LEMMA DueCountRemove ==
    ASSUME NEW L, IsFiniteSet(L), NEW e \in L, NEW t
    PROVE  /\ DueCount(L, t) = DueCount(L \ {e}, t) + One(e.due <= t)
           /\ DueCount(L, t) \in Nat /\ DueCount(L \ {e}, t) \in Nat
<1>1. IsFiniteSet(L \ {e}) /\ e \notin L \ {e} /\ (L \ {e}) \cup {e} = L
  BY FS_Subset
<1> DEFINE M == L \ {e}
<1>2. DueCount(M \cup {e}, t) = DueCount(M, t) + One(e.due <= t) /\ DueCount(M, t) \in Nat
  <2> HIDE DEF M
  <2>1. IsFiniteSet(M) /\ e \notin M
    BY <1>1 DEF M
  <2> QED
    BY <2>1, DueCountAdd
<1> QED
  BY <1>1, <1>2 DEF One

-----------------------------------------------------------------------------
(* The queue                                                               *)

\* Every card is queued at most once.
Orderly(main, learn) ==
    /\ Distinct(main)
    /\ \A e, f \in learn : e.id = f.id => e = f
    /\ \A e \in Range(main), f \in learn : e.id # f.id

\* What a list of learning cards gives
LEMMA OnlyPlace ==
    ASSUME NEW s, Distinct(s), NEW i \in DOMAIN s, DOMAIN s \subseteq Int
    PROVE  {k \in DOMAIN s : s[k].id = s[i].id} = {i} /\ Min({k \in DOMAIN s : s[k].id = s[i].id}) = i
<1>1. {k \in DOMAIN s : s[k].id = s[i].id} = {i}
  BY DEF Distinct
<1> QED
  BY <1>1, MinOfOne

LEMMA QueueFields ==
    ASSUME NEW q \in CardQueues
    PROVE  /\ q.main \in Seq(MainEntry) /\ q.learning \in Seq(LearningEntry)
           /\ q.counts \in Counts /\ q.cutoff \in Time /\ q.day \in Nat /\ q.build \in Builds
           /\ q = [main |-> q.main, learning |-> q.learning, counts |-> q.counts,
                   cutoff |-> q.cutoff, day |-> q.day, build |-> q.build]
           /\ q.counts = [new |-> q.counts.new, learning |-> q.counts.learning, review |-> q.counts.review]
           /\ q.counts.new \in Int /\ q.counts.review \in Int /\ q.counts.learning \in Nat
BY DEF CardQueues, Counts

LEMMA EntryFacts ==
    /\ \A e \in MainEntry : e.id \in Cards /\ e.kind \in MainKind /\ e.kind # "Learning" /\ e \in Entry
    /\ \A e \in LearningEntry : e.id \in Cards /\ e.kind = "Learning" /\ e.due \in Nat /\ e \in Entry
                                /\ e.tried \in BOOLEAN
    /\ \A e \in Entry : e.mtime \in Time /\ e.id \in Cards /\ (e.kind = "Learning" <=> e \in LearningEntry)
                        /\ (e.kind # "Learning" <=> e \in MainEntry) /\ e # NoEntry
BY NullAssumption DEF Entry, MainEntry, LearningEntry, MainKind

LEMMA LessType == \A n \in Nat : Less(n) \in Nat
BY DEF Less

\* The counts with one learning card less, and with n more
LearningLess(c) == [c EXCEPT !.learning = Less(@)]

\* remove_intraday_learning_card() takes one entry out.
LEMMA RemoveLearningFacts ==
    ASSUME NEW q \in CardQueues, Distinct(q.learning), NEW e \in Range(q.learning)
    PROVE  LET r == RemoveLearning(q, e.id) IN
           /\ r \in CardQueues /\ r.main = q.main /\ Range(r.learning) = Range(q.learning) \ {e}
           /\ Distinct(r.learning) /\ r.cutoff = q.cutoff /\ r.day = q.day /\ r.build = q.build
           /\ e.due <= Ahead(q) => r.counts = LearningLess(q.counts)
           /\ ~(e.due <= Ahead(q)) => r.counts = q.counts
<1> DEFINE s == q.learning
<1>1. s \in Seq(LearningEntry) /\ DOMAIN s = 1..Len(s) /\ Len(s) \in Nat
  <2>1. s \in Seq(LearningEntry)
    BY QueueFields
  <2> HIDE DEF s
  <2> QED
    BY <2>1
<1>2. PICK i \in DOMAIN s : s[i] = e
  BY DEF Range
<1>3. {k \in DOMAIN s : s[k].id = e.id} = {i} /\ Min({k \in DOMAIN s : s[k].id = e.id}) = i
  <2>1. Distinct(s) /\ DOMAIN s \subseteq Int
    BY <1>1
  <2> HIDE DEF s
  <2> QED
    BY <1>2, <2>1, OnlyPlace
<1> DEFINE l == RemoveAt(s, i)
           c == [q.counts EXCEPT !.learning = IF e.due <= Ahead(q) THEN Less(@) ELSE @]
           r == [q EXCEPT !.learning = l, !.counts = c]
<1>4. l \in Seq(LearningEntry) /\ Range(l) = Range(s) \ {e} /\ Distinct(l)
  <2> HIDE DEF s, l
  <2>1. i \in 1..Len(s) /\ Distinct(s)
    BY <1>1, <1>2 DEF s
  <2>2. RemoveAt(s, i) \in Seq(LearningEntry)
    BY <1>1, <2>1, RemovedAt
  <2>3. Range(RemoveAt(s, i)) = Range(s) \ {s[i]} /\ Distinct(RemoveAt(s, i))
    BY <1>1, <2>1, RemovedRange
  <2> QED
    BY <1>2, <2>2, <2>3 DEF l
<1>5. c \in Counts
  BY QueueFields, LessType DEF Counts
<1>6. RemoveLearning(q, e.id) = r
  BY <1>2, <1>3 DEF RemoveLearning
<1>7. /\ e.due <= Ahead(q) => c = LearningLess(q.counts)
      /\ ~(e.due <= Ahead(q)) => c = q.counts
  BY QueueFields DEF LearningLess
<1> HIDE DEF l, c
<1>8. r \in CardQueues /\ r.main = q.main /\ r.learning = l /\ r.counts = c
      /\ r.cutoff = q.cutoff /\ r.day = q.day /\ r.build = q.build
  BY <1>4, <1>5 DEF CardQueues
<1> HIDE DEF r
<1> QED
  BY <1>4, <1>6, <1>7, <1>8

\* The parts of a queue that patching keeps
SameBuilding(r, q) == r.cutoff = q.cutoff /\ r.day = q.day /\ r.build = q.build

Kinds == {"New", "Review", "InterdayLearning", "Learning"}

LEMMA CountsWithoutType ==
    ASSUME NEW c \in Counts, NEW e, e.kind \in Kinds
    PROVE  CountsWithout(c, e) \in Counts
BY LessType DEF CountsWithout, Counts, Kinds

LEMMA CountsWithType ==
    ASSUME NEW c \in Counts, NEW e, e.kind \in Kinds
    PROVE  CountsWith(c, e) \in Counts
BY DEF CountsWith, Counts, Kinds

\* A queue with other entries and counts
LEMMA PatchedLearning ==
    ASSUME NEW q \in CardQueues, NEW l \in Seq(LearningEntry), NEW c \in Counts
    PROVE  LET r == [q EXCEPT !.learning = l, !.counts = c] IN
           /\ r \in CardQueues /\ r.main = q.main /\ r.learning = l /\ r.counts = c
           /\ SameBuilding(r, q)
BY DEF CardQueues, SameBuilding

LEMMA PatchedMain ==
    ASSUME NEW q \in CardQueues, NEW m \in Seq(MainEntry), NEW c \in Counts
    PROVE  LET r == [q EXCEPT !.main = m, !.counts = c] IN
           /\ r \in CardQueues /\ r.main = m /\ r.learning = q.learning /\ r.counts = c
           /\ SameBuilding(r, q)
BY DEF CardQueues, SameBuilding

LearningMore(c, n) == [c EXCEPT !.learning = @ + n]

LEMMA CountsAdd ==
    ASSUME NEW c \in Counts, NEW n \in Nat
    PROVE  LearningMore(c, n) \in Counts
BY DEF Counts, LearningMore

\* pop_entry() takes the entry of a card, if it can.
LEMMA PoppedLearning ==
    ASSUME NEW q \in CardQueues, Distinct(q.learning), NEW e \in Range(q.learning)
    PROVE  LET pop == Popped(q, e.id) IN
           /\ pop.entry = e
           /\ pop.rest \in CardQueues /\ pop.rest.main = q.main
           /\ Range(pop.rest.learning) = Range(q.learning) \ {e}
           /\ Distinct(pop.rest.learning) /\ SameBuilding(pop.rest, q)
           /\ pop.rest.counts = CountsWithout(q.counts, e)
<1> DEFINE s == q.learning
<1>1. s \in Seq(LearningEntry) /\ DOMAIN s = 1..Len(s) /\ Len(s) \in Nat
  <2>1. s \in Seq(LearningEntry)
    BY QueueFields
  <2> HIDE DEF s
  <2> QED
    BY <2>1
<1>2. PICK i \in DOMAIN s : s[i] = e
  BY DEF Range
<1>3. {k \in DOMAIN s : s[k].id = e.id} = {i} /\ Min({k \in DOMAIN s : s[k].id = e.id}) = i
  <2>1. Distinct(s) /\ DOMAIN s \subseteq Int
    BY <1>1
  <2> HIDE DEF s
  <2> QED
    BY <1>2, <2>1, OnlyPlace
<1> DEFINE l == RemoveAt(s, i)
           c == CountsWithout(q.counts, e)
           r == [q EXCEPT !.learning = l, !.counts = c]
<1>4. l \in Seq(LearningEntry) /\ Range(l) = Range(s) \ {e} /\ Distinct(l)
  <2> HIDE DEF s, l
  <2>1. i \in 1..Len(s) /\ Distinct(s)
    BY <1>1, <1>2 DEF s
  <2>2. RemoveAt(s, i) \in Seq(LearningEntry)
    BY <1>1, <2>1, RemovedAt
  <2>3. Range(RemoveAt(s, i)) = Range(s) \ {s[i]} /\ Distinct(RemoveAt(s, i))
    BY <1>1, <2>1, RemovedRange
  <2> QED
    BY <1>2, <2>2, <2>3 DEF l
<1>5. c \in Counts
  <2>1. e \in LearningEntry
    BY <1>1, <1>2
  <2>2. e.kind \in Kinds
    BY <2>1, EntryFacts DEF Kinds
  <2> QED
    BY <2>2, QueueFields, CountsWithoutType
<1>6. Popped(q, e.id) = [entry |-> e, rest |-> r]
  BY <1>2, <1>3 DEF Popped
<1> HIDE DEF l, c
<1>7. /\ r \in CardQueues /\ r.main = q.main /\ r.learning = l /\ r.counts = c /\ SameBuilding(r, q)
  BY <1>4, <1>5, PatchedLearning
<1> HIDE DEF r
<1> QED
  BY <1>4, <1>6, <1>7 DEF c

LEMMA PoppedMain ==
    ASSUME NEW q \in CardQueues, q.main # <<>>, \A f \in Range(q.learning) : f.id # Head(q.main).id
    PROVE  LET pop == Popped(q, Head(q.main).id) IN
           /\ pop.entry = Head(q.main) /\ pop.entry \in MainEntry
           /\ pop.rest \in CardQueues /\ q.main = <<pop.entry>> \o pop.rest.main
           /\ pop.rest.learning = q.learning /\ SameBuilding(pop.rest, q)
           /\ pop.rest.counts = CountsWithout(q.counts, pop.entry)
<1> DEFINE e == Head(q.main)
           c == CountsWithout(q.counts, e)
           m == Tail(q.main)
           r == [q EXCEPT !.main = m, !.counts = c]
<1>1. q.main = <<e>> \o m /\ e \in MainEntry /\ m \in Seq(MainEntry)
  <2>1. q.main \in Seq(MainEntry)
    BY QueueFields
  <2> QED
    BY <2>1, HeadTail
<1>2. {i \in DOMAIN q.learning : q.learning[i].id = e.id} = {}
  BY DEF Range
<1>3. c \in Counts
  <2>1. e.kind \in Kinds
    BY <1>1, EntryFacts DEF Kinds, MainKind
  <2> QED
    BY <2>1, QueueFields, CountsWithoutType
<1>4. Popped(q, e.id) = [entry |-> e, rest |-> r]
  BY <1>2 DEF Popped
<1> HIDE DEF c, m
<1>5. /\ r \in CardQueues /\ r.main = m /\ r.learning = q.learning /\ r.counts = c /\ SameBuilding(r, q)
  BY <1>1, <1>3, PatchedMain
<1> HIDE DEF r
<1> QED
  BY <1>1, <1>4, <1>5 DEF c

\* insert_intraday_learning_card() adds an entry.
LEMMA InsertLearningFacts ==
    ASSUME NEW q \in CardQueues, Distinct(q.learning), NEW e \in LearningEntry,
           \A f \in Range(q.learning) : f.id # e.id, NEW p \in Int, 1 <= p, p <= Len(q.learning) + 1
    PROVE  LET r == InsertLearning(q, e, p) IN
           /\ r \in CardQueues /\ r.main = q.main /\ Range(r.learning) = Range(q.learning) \cup {e}
           /\ Distinct(r.learning) /\ SameBuilding(r, q)
           /\ e.due <= Ahead(q) => r.counts = LearningMore(q.counts, 1)
           /\ ~(e.due <= Ahead(q)) => r.counts = q.counts
<1> DEFINE s == q.learning
           l == InsertAt(s, p, e)
           c == LearningMore(q.counts, One(e.due <= Ahead(q)))
           r == [q EXCEPT !.learning = l, !.counts = c]
<1>1. l \in Seq(LearningEntry) /\ Range(l) = Range(s) \cup {e} /\ Distinct(l)
  <2>1. s \in Seq(LearningEntry) /\ Distinct(s) /\ 1 <= p /\ p <= Len(s) + 1
    BY QueueFields
  <2>2. Len(s) \in Nat
    <3> HIDE DEF s
    <3> QED
      BY <2>1
  <2>3. p \in 1..(Len(s) + 1) /\ \A f \in Range(s) : f.id # e.id
    BY <2>1, <2>2
  <2> HIDE DEF s, l
  <2>4. InsertAt(s, p, e) \in Seq(LearningEntry)
    BY <2>1, InsertedAt
  <2>5. Range(InsertAt(s, p, e)) = Range(s) \cup {e}
    BY <2>1, <2>3, InsertedRange
  <2>6. Distinct(InsertAt(s, p, e))
    BY <2>1, <2>3, InsertedDistinct
  <2> QED
    BY <2>4, <2>5, <2>6 DEF l
<1>2. c \in Counts
  <2>1. q.counts \in Counts /\ One(e.due <= Ahead(q)) \in Nat
    BY QueueFields DEF One
  <2> QED
    BY <2>1, CountsAdd
<1>3. InsertLearning(q, e, p) = r
  BY DEF InsertLearning, LearningMore
<1>4. /\ e.due <= Ahead(q) => c = LearningMore(q.counts, 1)
      /\ ~(e.due <= Ahead(q)) => c = q.counts
  <2>1. q.counts \in Counts
    BY QueueFields
  <2>2. CASE e.due <= Ahead(q)
    BY <2>2 DEF LearningMore, One
  <2>3. CASE ~(e.due <= Ahead(q))
    BY <2>1, <2>3 DEF LearningMore, One, Counts
  <2> QED
    BY <2>2, <2>3
<1> HIDE DEF l, c
<1>5. /\ r \in CardQueues /\ r.main = q.main /\ r.learning = l /\ r.counts = c /\ SameBuilding(r, q)
  BY <1>1, <1>2, PatchedLearning
<1> HIDE DEF r
<1> QED
  BY <1>1, <1>3, <1>5, <1>4

\* push_undo_entry() puts an entry in front.
LEMMA PushLearning ==
    ASSUME NEW q \in CardQueues, Distinct(q.learning), NEW e \in LearningEntry,
           \A f \in Range(q.learning) : f.id # e.id
    PROVE  LET r == Push(q, e) IN
           /\ r \in CardQueues /\ r.main = q.main /\ Range(r.learning) = Range(q.learning) \cup {e}
           /\ Distinct(r.learning) /\ SameBuilding(r, q) /\ r.counts = CountsWith(q.counts, e)
<1> DEFINE s == q.learning
           l == <<e>> \o s
           c == CountsWith(q.counts, e)
           r == [q EXCEPT !.learning = l, !.counts = c]
<1>1. l \in Seq(LearningEntry) /\ Range(l) = Range(s) \cup {e} /\ Distinct(l)
  <2>1. s \in Seq(LearningEntry) /\ Distinct(s) /\ \A f \in Range(s) : f.id # e.id
    BY QueueFields
  <2> HIDE DEF s
  <2> QED
    BY <2>1, ConsFacts, ConsDistinct
<1>2. c \in Counts /\ e.kind = "Learning"
  <2>1. e.kind = "Learning" /\ e.kind \in Kinds
    BY EntryFacts DEF Kinds
  <2> QED
    BY <2>1, QueueFields, CountsWithType
<1>3. Push(q, e) = r
  BY <1>2 DEF Push
<1> HIDE DEF l, c
<1>4. /\ r \in CardQueues /\ r.main = q.main /\ r.learning = l /\ r.counts = c /\ SameBuilding(r, q)
  BY <1>1, <1>2, PatchedLearning
<1> HIDE DEF r
<1> QED
  BY <1>1, <1>3, <1>4 DEF c

LEMMA PushMain ==
    ASSUME NEW q \in CardQueues, NEW e \in MainEntry
    PROVE  LET r == Push(q, e) IN
           /\ r \in CardQueues /\ r.main = <<e>> \o q.main /\ r.learning = q.learning
           /\ SameBuilding(r, q) /\ r.counts = CountsWith(q.counts, e)
<1> DEFINE m == <<e>> \o q.main
           c == CountsWith(q.counts, e)
           r == [q EXCEPT !.main = m, !.counts = c]
<1>1. m \in Seq(MainEntry)
  <2>1. q.main \in Seq(MainEntry)
    BY QueueFields
  <2> QED
    BY <2>1, ConsFacts
<1>2. c \in Counts /\ e.kind # "Learning"
  <2>1. e.kind # "Learning" /\ e.kind \in Kinds
    BY EntryFacts DEF Kinds, MainKind
  <2> QED
    BY <2>1, QueueFields, CountsWithType
<1>3. Push(q, e) = r
  BY <1>2 DEF Push
<1> HIDE DEF m, c
<1>4. /\ r \in CardQueues /\ r.main = m /\ r.learning = q.learning /\ r.counts = c /\ SameBuilding(r, q)
  BY <1>1, <1>2, PatchedMain
<1> HIDE DEF r
<1> QED
  BY <1>3, <1>4 DEF m, c

\* update_learning_cutoff_and_count() counts the cards newly due, and no card twice.
LEMMA BumpFacts ==
    ASSUME NEW q \in CardQueues, Distinct(q.main), Distinct(q.learning), NEW now \in Time, q.cutoff <= now
    PROVE  LET r == Bump(q, now) IN
           /\ r \in CardQueues /\ r.main = q.main /\ r.learning = q.learning
           /\ r.cutoff = now /\ r.day = q.day /\ r.build = q.build
           /\ q.counts = Tally(q.main, Range(q.learning), Ahead(q)) =>
                r.counts = Tally(q.main, Range(q.learning), Ahead(r))
<1> DEFINE n == Cardinality({i \in DOMAIN q.learning :
                    Ahead(q) < q.learning[i].due /\ q.learning[i].due <= now + LearnAhead})
           c == LearningMore(q.counts, n)
<1>1. q.cutoff \in Nat /\ now \in Nat /\ LearnAhead \in Nat /\ q.learning \in Seq(LearningEntry)
      /\ q.main \in Seq(MainEntry)
  <2>1. q.cutoff \in Time /\ q.learning \in Seq(LearningEntry) /\ q.main \in Seq(MainEntry)
    BY QueueFields
  <2> QED
    BY <2>1, QueueAssumption DEF Time
<1>2. DueCount(Range(q.learning), now + LearnAhead) = DueCount(Range(q.learning), Ahead(q)) + n
  <2>1. Ahead(q) \in Int /\ now + LearnAhead \in Int /\ Ahead(q) <= now + LearnAhead
    BY <1>1 DEF Ahead
  <2> QED
    BY <1>1, <2>1, DueBetween
<1>3. n \in Nat
  <2>1. {i \in DOMAIN q.learning : Ahead(q) < q.learning[i].due /\ q.learning[i].due <= now + LearnAhead}
          \in SUBSET (1..Len(q.learning))
    BY <1>1
  <2>2. IsFiniteSet(1..Len(q.learning))
    <3>1. Len(q.learning) \in Nat
      BY <1>1
    <3> QED
      BY <3>1, FS_Interval
  <2> QED
    BY <2>1, <2>2, FS_Subset, FS_CardinalityType
<1>4. Bump(q, now) = [q EXCEPT !.cutoff = now, !.counts = c]
  BY DEF Bump, LearningMore
<1> HIDE DEF n
<1>5. c \in Counts
  BY <1>3, QueueFields, CountsAdd
<1>6. ASSUME q.counts = Tally(q.main, Range(q.learning), Ahead(q))
      PROVE  c = Tally(q.main, Range(q.learning), now + LearnAhead)
  <2>1. KindCount(q.main, "InterdayLearning") \in Nat /\ DueCount(Range(q.learning), Ahead(q)) \in Nat
    BY <1>1, KindCountIs, DueCountIs
  <2> QED
    BY <1>2, <1>3, <1>6, <2>1 DEF Tally, LearningMore
<1> HIDE DEF c
<1> DEFINE r == [q EXCEPT !.cutoff = now, !.counts = c]
<1>7. /\ r \in CardQueues /\ r.main = q.main /\ r.learning = q.learning /\ r.counts = c
      /\ r.cutoff = now /\ r.day = q.day /\ r.build = q.build
  BY <1>5 DEF CardQueues
<1> HIDE DEF r
<1> QED
  BY <1>4, <1>6, <1>7 DEF Ahead, r

\* How the tally moves with the entries
LEMMA TallyType ==
    ASSUME NEW m \in Seq(MainEntry), Distinct(m), NEW L, IsFiniteSet(L), NEW t
    PROVE  Tally(m, L, t) \in Counts
<1>1. DueCount(L, t) \in Nat
  <2>1. IsFiniteSet({e \in L : e.due <= t})
    BY FS_Subset
  <2> QED
    BY <2>1, FS_CardinalityType DEF DueCount
<1>2. /\ KindCount(m, "New") \in Nat /\ KindCount(m, "Review") \in Nat
      /\ KindCount(m, "InterdayLearning") \in Nat
  BY KindCountIs
<1> QED
  BY <1>1, <1>2 DEF Tally, Counts

LEMMA TallyRemove ==
    ASSUME NEW m \in Seq(MainEntry), Distinct(m), NEW L, IsFiniteSet(L), NEW e \in L, NEW t
    PROVE  /\ e.due <= t => Tally(m, L \ {e}, t) = LearningLess(Tally(m, L, t))
           /\ ~(e.due <= t) => Tally(m, L \ {e}, t) = Tally(m, L, t)
<1>1. KindCount(m, "InterdayLearning") \in Nat
  BY KindCountIs
<1>2. /\ DueCount(L, t) = DueCount(L \ {e}, t) + One(e.due <= t)
      /\ DueCount(L, t) \in Nat /\ DueCount(L \ {e}, t) \in Nat
  BY DueCountRemove
<1>3. CASE e.due <= t
  BY <1>1, <1>2, <1>3 DEF One, Less, Tally, LearningLess
<1>4. CASE ~(e.due <= t)
  BY <1>1, <1>2, <1>4 DEF One, Tally
<1> QED
  BY <1>3, <1>4

LEMMA TallyAdd ==
    ASSUME NEW m \in Seq(MainEntry), Distinct(m), NEW L, IsFiniteSet(L), NEW e, e \notin L, NEW t
    PROVE  /\ e.due <= t => Tally(m, L \cup {e}, t) = LearningMore(Tally(m, L, t), 1)
           /\ ~(e.due <= t) => Tally(m, L \cup {e}, t) = Tally(m, L, t)
<1>1. KindCount(m, "InterdayLearning") \in Nat
  BY KindCountIs
<1>2. DueCount(L \cup {e}, t) = DueCount(L, t) + One(e.due <= t) /\ DueCount(L, t) \in Nat
  BY DueCountAdd
<1> QED
  BY <1>1, <1>2 DEF One, Tally, LearningMore

LEMMA TallyPush ==
    ASSUME NEW m \in Seq(MainEntry), Distinct(m), NEW L, IsFiniteSet(L), NEW t,
           NEW e \in LearningEntry, e \notin L, e.due <= t
    PROVE  Tally(m, L \cup {e}, t) = CountsWith(Tally(m, L, t), e)
<1>1. Tally(m, L \cup {e}, t) = LearningMore(Tally(m, L, t), 1)
  BY TallyAdd
<1>2. e.kind = "Learning"
  BY EntryFacts
<1> QED
  BY <1>1, <1>2 DEF CountsWith, LearningMore

LEMMA TallyCons ==
    ASSUME NEW m \in Seq(MainEntry), Distinct(m), NEW L, IsFiniteSet(L), NEW t,
           NEW e \in MainEntry, \A f \in Range(m) : f.id # e.id
    PROVE  Tally(<<e>> \o m, L, t) = CountsWith(Tally(m, L, t), e)
<1>1. DueCount(L, t) \in Nat
  <2>1. IsFiniteSet({f \in L : f.due <= t})
    BY FS_Subset
  <2> QED
    BY <2>1, FS_CardinalityType DEF DueCount
<1>2. \A k \in MainKind : /\ KindCount(<<e>> \o m, k) = KindCount(m, k) + One(e.kind = k)
                           /\ KindCount(m, k) \in Nat
  BY KindCountCons
<1>3. e.kind \in MainKind
  BY EntryFacts
<1>4. CASE e.kind = "New"
  BY <1>1, <1>2, <1>4 DEF Tally, CountsWith, One, MainKind
<1>5. CASE e.kind = "Review"
  BY <1>1, <1>2, <1>5 DEF Tally, CountsWith, One, MainKind
<1>6. CASE e.kind = "InterdayLearning"
  BY <1>1, <1>2, <1>6 DEF Tally, CountsWith, One, MainKind
<1> QED
  BY <1>3, <1>4, <1>5, <1>6 DEF MainKind

LEMMA WithAndWithout ==
    ASSUME NEW c \in Counts, NEW e, e.kind \in Kinds
    PROVE  CountsWithout(CountsWith(c, e), e) = c
<1>1. \A n \in Nat : Less(n + 1) = n
  BY DEF Less
<1> QED
  BY <1>1 DEF CountsWith, CountsWithout, Counts, Kinds

-----------------------------------------------------------------------------
(* One answer, and the queue before and after it                           *)

\* What is queued, and of what cards: a state the queue has been in or will be again
Moment == [main : Seq(MainEntry), learn : SUBSET LearningEntry, cards : [Cards -> CardRecord]]

\* Queue q is in moment m.
Holds(q, m) == q.main = m.main /\ Range(q.learning) = m.learn

\* The answer with update u leads from moment m0 to moment m1.
Linked(m0, u, m1) ==
    /\ u.entry.kind = "Learning"  => u.entry \in m0.learn /\ m1.main = m0.main
    /\ u.entry.kind # "Learning"  => m0.main = <<u.entry>> \o m1.main
    /\ u.requeue = NoEntry => m1.learn = m0.learn \ {u.entry}
    /\ u.requeue # NoEntry => /\ m1.learn = (m0.learn \ {u.entry}) \cup {u.requeue}
                              /\ u.requeue.id = u.entry.id

\* What an answer keeps of the counts after it
Counted1(u, m1) ==
    /\ u.snapshot.learning = Tally(m1.main, m1.learn, u.snapshot.cutoff + LearnAhead).learning
    /\ u.entry.kind = "Learning" => u.entry.due <= u.snapshot.cutoff + LearnAhead

LEMMA UpdateFields ==
    ASSUME NEW u \in QueueUpdate
    PROVE  /\ u.entry \in Entry /\ u.requeue \in LearningEntry \cup {NoEntry} /\ u.build \in Builds
           /\ u.snapshot \in CutoffSnapshot /\ u.snapshot.learning \in Nat /\ u.snapshot.cutoff \in Time
BY DEF QueueUpdate, CutoffSnapshot

LEMMA RestoreFacts ==
    ASSUME NEW q \in CardQueues, NEW s \in CutoffSnapshot
    PROVE  LET r == Restore(q, s) IN
           /\ r \in CardQueues /\ r.main = q.main /\ r.learning = q.learning
           /\ r.cutoff = s.cutoff /\ r.day = q.day /\ r.build = q.build
           /\ r.counts = [q.counts EXCEPT !.learning = s.learning]
<1>1. s.learning \in Nat /\ s.cutoff \in Time
  BY DEF CutoffSnapshot
<1>2. [q.counts EXCEPT !.learning = s.learning] \in Counts
  <2>1. q.counts \in Counts
    BY QueueFields
  <2> QED
    BY <1>1, <2>1 DEF Counts
<1> QED
  BY <1>1, <1>2 DEF Restore, CardQueues

\* The counts of new cards and of reviews do not depend on the cutoff.
LEMMA TallyAt ==
    ASSUME NEW m, NEW L, NEW t, NEW v, NEW n, n = Tally(m, L, v).learning
    PROVE  [Tally(m, L, t) EXCEPT !.learning = n] = Tally(m, L, v)
BY DEF Tally

\* Taking the answer back leads back.
LEMMA UndoneFacts ==
    ASSUME NEW q \in CardQueues, Distinct(q.learning), NEW u \in QueueUpdate,
           NEW m0, m0.main \in Seq(MainEntry), m0.learn \subseteq LearningEntry, Orderly(m0.main, m0.learn),
           NEW m1, Linked(m0, u, m1), Holds(q, m1)
    PROVE  LET r == Undone(q, u) IN
           /\ r \in CardQueues /\ Holds(r, m0) /\ Distinct(r.learning)
           /\ r.cutoff = u.snapshot.cutoff /\ r.day = q.day /\ r.build = q.build
           /\ (Counted1(u, m1) /\ \E t : q.counts = Tally(q.main, Range(q.learning), t)) =>
                r.counts = Tally(r.main, Range(r.learning), Ahead(r))
<1> DEFINE e    == u.entry
           t    == u.snapshot.cutoff + LearnAhead
           back == Restore(q, u.snapshot)
           mid  == IF u.requeue = NoEntry THEN back ELSE RemoveLearning(back, u.requeue.id)
           rest == m0.learn \ {e}
           Fine == Counted1(u, m1) /\ \E v : q.counts = Tally(q.main, Range(q.learning), v)
<1>1. e \in Entry /\ u.requeue \in LearningEntry \cup {NoEntry} /\ u.snapshot \in CutoffSnapshot
  BY UpdateFields
<1>2. /\ back \in CardQueues /\ back.main = m1.main /\ Range(back.learning) = m1.learn
      /\ Distinct(back.learning)
      /\ back.cutoff = u.snapshot.cutoff /\ back.day = q.day /\ back.build = q.build
      /\ back.counts = [q.counts EXCEPT !.learning = u.snapshot.learning]
  BY <1>1, RestoreFacts DEF Holds
<1>3. \A f \in rest : f.id # e.id
  <2>1. CASE e.kind = "Learning"
    BY <2>1 DEF Linked, Orderly
  <2>2. CASE e.kind # "Learning"
    <3>1. m1.main \in Seq(MainEntry)
      BY <1>2, QueueFields
    <3>2. m0.main = <<e>> \o m1.main
      BY <2>2 DEF Linked
    <3>3. e \in Range(m0.main)
      <4>1. e \in MainEntry
        BY <1>1, <2>2, EntryFacts
      <4> HIDE DEF e
      <4> QED
        BY <3>1, <3>2, <4>1, ConsFacts
    <3> QED
      BY <3>3 DEF Orderly
  <2> QED
    BY <2>1, <2>2
<1>4. /\ mid \in CardQueues /\ mid.main = m1.main /\ Range(mid.learning) = rest
      /\ Distinct(mid.learning)
      /\ mid.cutoff = u.snapshot.cutoff /\ mid.day = q.day /\ mid.build = q.build
      /\ Fine => mid.counts = Tally(m1.main, rest, t)
  <2>1. Distinct(m1.main) /\ m1.main \in Seq(MainEntry) /\ IsFiniteSet(m1.learn)
    <3>1. m1.main \in Seq(MainEntry) /\ back.learning \in Seq(LearningEntry)
      BY <1>2, QueueFields
    <3>2. IsFiniteSet(m1.learn)
      BY <1>2, <3>1, RangeFinite
    <3>3. CASE e.kind = "Learning"
      BY <3>1, <3>2, <3>3 DEF Linked, Orderly
    <3>4. CASE e.kind # "Learning"
      <4>1. m0.main = <<e>> \o m1.main /\ e \in MainEntry /\ Distinct(m0.main)
        BY <1>1, <3>4, EntryFacts DEF Linked, Orderly
      <4> HIDE DEF e
      <4> QED
        BY <3>1, <3>2, <4>1, ConsDistinct
    <3> QED
      BY <3>3, <3>4
  <2>2. Fine => back.counts = Tally(m1.main, m1.learn, t)
    <3> SUFFICES ASSUME Fine PROVE back.counts = Tally(m1.main, m1.learn, t)
      OBVIOUS
    <3>1. PICK v : q.counts = Tally(m1.main, m1.learn, v)
      BY DEF Holds
    <3>2. u.snapshot.learning = Tally(m1.main, m1.learn, t).learning
      BY DEF Counted1
    <3> HIDE DEF t, back
    <3> QED
      BY <1>2, <3>1, <3>2, TallyAt
  <2>3. CASE u.requeue = NoEntry
    <3>1. m1.learn = rest
      BY <2>3 DEF Linked
    <3> HIDE DEF back, rest, Fine, t
    <3> QED
      BY <1>2, <2>2, <2>3, <3>1
  <2>4. CASE u.requeue # NoEntry
    <3>1. /\ m1.learn = rest \cup {u.requeue} /\ u.requeue.id = e.id
          /\ u.requeue \in Range(back.learning)
      BY <1>2, <2>4 DEF Linked
    <3>2. u.requeue \notin rest
      BY <1>3, <3>1
    <3>3. m1.learn \ {u.requeue} = rest
      BY <3>1, <3>2
    <3> HIDE DEF back, rest, Fine
    <3> DEFINE rq == u.requeue
    <3>4. mid = RemoveLearning(back, rq.id) /\ rq \in Range(back.learning) /\ rq \in m1.learn
      BY <2>4, <3>1
    <3> HIDE DEF mid, t, rq
    <3>5. back \in CardQueues /\ Distinct(back.learning) /\ rq \in Range(back.learning)
      BY <1>2, <3>4
    <3>6. /\ mid \in CardQueues /\ mid.main = back.main /\ Range(mid.learning) = Range(back.learning) \ {rq}
          /\ Distinct(mid.learning)
          /\ mid.cutoff = back.cutoff /\ mid.day = back.day /\ mid.build = back.build
          /\ rq.due <= Ahead(back) => mid.counts = LearningLess(back.counts)
          /\ ~(rq.due <= Ahead(back)) => mid.counts = back.counts
      BY <3>4, <3>5, RemoveLearningFacts
    <3>7. Ahead(back) = t
      BY <1>2 DEF Ahead, t
    <3>8. ASSUME Fine PROVE mid.counts = Tally(m1.main, rest, t)
      <4> DEFINE M == m1.main
                 L == m1.learn
      <4>1. M \in Seq(MainEntry) /\ Distinct(M) /\ IsFiniteSet(L) /\ rq \in L
        BY <2>1, <3>4
      <4> HIDE DEF M, L
      <4>2. /\ rq.due <= t => Tally(M, L \ {rq}, t) = LearningLess(Tally(M, L, t))
            /\ ~(rq.due <= t) => Tally(M, L \ {rq}, t) = Tally(M, L, t)
        BY <4>1, TallyRemove
      <4> QED
        BY <2>2, <3>3, <3>6, <3>7, <3>8, <4>2 DEF rq, M, L
    <3> QED
      BY <1>2, <3>3, <3>6, <3>8 DEF rq
  <2> QED
    BY <2>3, <2>4
<1>5. Undone(q, u) = Push(mid, e)
  BY DEF Undone
<1> HIDE DEF back, mid
<1>6. mid.main \in Seq(MainEntry) /\ mid.learning \in Seq(LearningEntry)
  BY <1>4, QueueFields
<1>7. IsFiniteSet(rest)
  <2>1. IsFiniteSet(Range(mid.learning))
    BY <1>6, RangeFinite
  <2> QED
    BY <1>4, <2>1
<1>8. CASE e.kind = "Learning"
  <2>1. e \in LearningEntry /\ m0.learn = rest \cup {e} /\ m0.main = m1.main /\ e \notin rest
    BY <1>1, <1>8, EntryFacts DEF Linked
  <2>2. Distinct(m0.main)
    BY DEF Orderly
  <2>3. Fine => e.due <= t
    BY <1>8 DEF Counted1
  <2> HIDE DEF e, rest, t, Fine
  <2> DEFINE r == Push(mid, e)
  <2>4. /\ r \in CardQueues /\ r.main = mid.main /\ Range(r.learning) = Range(mid.learning) \cup {e}
        /\ Distinct(r.learning) /\ SameBuilding(r, mid) /\ r.counts = CountsWith(mid.counts, e)
    BY <1>3, <1>4, <2>1, PushLearning
  <2> HIDE DEF r
  <2>5. ASSUME Fine PROVE r.counts = Tally(m0.main, m0.learn, t)
    <3>1. Tally(m1.main, rest \cup {e}, t) = CountsWith(Tally(m1.main, rest, t), e)
      BY <1>4, <1>6, <1>7, <2>1, <2>2, <2>3, <2>5, TallyPush
    <3> QED
      BY <1>4, <2>1, <2>4, <2>5, <3>1
  <2>6. r.main = m0.main /\ Range(r.learning) = m0.learn
    BY <1>4, <2>1, <2>4
  <2>7. Ahead(r) = t
    BY <1>4, <2>4 DEF Ahead, SameBuilding, t
  <2> QED
    BY <1>4, <1>5, <2>4, <2>5, <2>6, <2>7 DEF r, Holds, SameBuilding, Fine
<1>9. CASE e.kind # "Learning"
  <2>1. e \in MainEntry /\ m0.main = <<e>> \o m1.main
    BY <1>1, <1>9, EntryFacts DEF Linked
  <2>2. m0.learn = rest
    BY <1>9, EntryFacts
  <2>3. Distinct(m0.main)
    BY DEF Orderly
  <2> HIDE DEF e, rest, t, Fine
  <2> DEFINE r == Push(mid, e)
  <2>4. /\ r \in CardQueues /\ r.main = <<e>> \o mid.main /\ r.learning = mid.learning
        /\ SameBuilding(r, mid) /\ r.counts = CountsWith(mid.counts, e)
    BY <1>4, <2>1, PushMain
  <2> HIDE DEF r
  <2>5. Distinct(m1.main) /\ \A f \in Range(m1.main) : f.id # e.id
    BY <1>4, <1>6, <2>1, <2>3, ConsDistinct
  <2>6. ASSUME Fine PROVE r.counts = Tally(m0.main, m0.learn, t)
    <3>1. Tally(<<e>> \o m1.main, rest, t) = CountsWith(Tally(m1.main, rest, t), e)
      BY <1>4, <1>6, <1>7, <2>1, <2>5, TallyCons
    <3> QED
      BY <1>4, <2>1, <2>2, <2>4, <2>6, <3>1
  <2>7. r.main = m0.main /\ Range(r.learning) = m0.learn
    BY <1>4, <2>1, <2>2, <2>4
  <2>8. Ahead(r) = t
    BY <1>4, <2>4 DEF Ahead, SameBuilding, t
  <2> QED
    BY <1>4, <1>5, <2>4, <2>6, <2>7, <2>8 DEF r, Holds, SameBuilding, Fine
<1> QED
  BY <1>8, <1>9

\* The entry popped, and what is left
LEMMA PoppedFacts ==
    ASSUME NEW q \in CardQueues, Distinct(q.learning), Orderly(q.main, Range(q.learning)),
           NEW id, CanPop(q, id)
    PROVE  LET pop == Popped(q, id) IN
           /\ pop.entry \in Entry /\ pop.entry.id = id
           /\ pop.rest \in CardQueues /\ SameBuilding(pop.rest, q) /\ Distinct(pop.rest.learning)
           /\ pop.entry.kind = "Learning" => pop.entry \in Range(q.learning) /\ pop.rest.main = q.main
           /\ pop.entry.kind # "Learning" => q.main = <<pop.entry>> \o pop.rest.main
           /\ Range(pop.rest.learning) = Range(q.learning) \ {pop.entry}
           /\ Distinct(pop.rest.main)
           /\ \A f \in Range(pop.rest.main) \cup Range(pop.rest.learning) : f.id # id
           /\ Range(pop.rest.main) \subseteq Range(q.main)
           /\ pop.rest.counts = CountsWithout(q.counts, pop.entry)
<1> DEFINE pop  == Popped(q, id)
           e    == pop.entry
           rest == pop.rest
<1>1. q.main \in Seq(MainEntry) /\ q.learning \in Seq(LearningEntry)
  BY QueueFields
<1>2. CASE \E i \in DOMAIN q.learning : q.learning[i].id = id
  <2>1. PICK x \in Range(q.learning) : x.id = id
    BY <1>2 DEF Range
  <2>2. /\ e = x /\ rest \in CardQueues /\ rest.main = q.main
        /\ Range(rest.learning) = Range(q.learning) \ {x}
        /\ Distinct(rest.learning) /\ SameBuilding(rest, q)
        /\ rest.counts = CountsWithout(q.counts, x)
    BY <2>1, PoppedLearning
  <2>3. x \in LearningEntry /\ x \in Entry /\ x.kind = "Learning"
    <3>1. x \in LearningEntry
      BY <1>1, RangeFinite
    <3> QED
      BY <3>1, EntryFacts
  <2>4. \A f \in Range(q.main) : f.id # id
    BY <2>1 DEF Orderly
  <2>5. \A f \in Range(q.learning) \ {x} : f.id # id
    BY <2>1 DEF Orderly
  <2>6. Distinct(q.main)
    BY DEF Orderly
  <2> HIDE DEF pop
  <2> QED
    BY <2>1, <2>2, <2>3, <2>4, <2>5, <2>6 DEF pop
<1>3. CASE \A i \in DOMAIN q.learning : q.learning[i].id # id
  <2>1. q.main # <<>> /\ Head(q.main).id = id
    BY <1>3 DEF CanPop
  <2>2. \A f \in Range(q.learning) : f.id # Head(q.main).id
    BY <1>3, <2>1 DEF Range
  <2>3. /\ e = Head(q.main) /\ e \in MainEntry
        /\ rest \in CardQueues /\ q.main = <<e>> \o rest.main
        /\ rest.learning = q.learning /\ SameBuilding(rest, q)
        /\ rest.counts = CountsWithout(q.counts, e)
    BY <2>1, <2>2, PoppedMain
  <2>4. e \in Entry /\ e.kind # "Learning"
    BY <2>3, EntryFacts
  <2>5. rest.main \in Seq(MainEntry)
    BY <2>3, QueueFields
  <2>6. Distinct(q.main)
    BY DEF Orderly
  <2> HIDE DEF pop
  <2>7. Distinct(rest.main) /\ \A f \in Range(rest.main) : f.id # e.id
    <3> DEFINE m == rest.main
               x == e
    <3>1. q.main = <<x>> \o m /\ x \in MainEntry /\ m \in Seq(MainEntry)
      BY <2>3, <2>5
    <3> HIDE DEF m, x
    <3>2. Distinct(m) /\ \A f \in Range(m) : f.id # x.id
      BY <2>6, <3>1, ConsDistinct
    <3> QED
      BY <3>2 DEF m, x
  <2>8. Range(rest.main) \subseteq Range(q.main)
    <3> DEFINE m == rest.main
               x == e
    <3>1. q.main = <<x>> \o m /\ x \in MainEntry /\ m \in Seq(MainEntry)
      BY <2>3, <2>5
    <3> HIDE DEF m, x
    <3>2. Range(m) \subseteq Range(q.main)
      BY <3>1, ConsFacts
    <3> QED
      BY <3>2 DEF m
  <2>9. e \notin Range(q.learning)
    BY <2>2, <2>3
  <2>10. Range(q.learning) = Range(q.learning) \ {e}
    BY <2>9
  <2>11. e.id = id
    BY <2>1, <2>3
  <2> QED
    BY <2>2, <2>3, <2>4, <2>6, <2>7, <2>8, <2>10, <2>11 DEF pop
<1> QED
  BY <1>2, <1>3

\* pop_entry() keeps the counts right, for a learning card that has been counted.
LEMMA PoppedTally ==
    ASSUME NEW q \in CardQueues, Distinct(q.learning), Orderly(q.main, Range(q.learning)),
           NEW id, CanPop(q, id), NEW t, q.counts = Tally(q.main, Range(q.learning), t),
           Popped(q, id).entry.kind = "Learning" => Popped(q, id).entry.due <= t
    PROVE  LET rest == Popped(q, id).rest IN rest.counts = Tally(rest.main, Range(rest.learning), t)
<1> DEFINE pop  == Popped(q, id)
           e    == pop.entry
           rest == pop.rest
           m    == rest.main
           l    == Range(rest.learning)
<1>1. /\ e \in Entry /\ e.id = id /\ rest \in CardQueues
      /\ e.kind = "Learning" => e \in Range(q.learning) /\ m = q.main
      /\ e.kind # "Learning" => q.main = <<e>> \o m
      /\ l = Range(q.learning) \ {e} /\ Distinct(m)
      /\ \A f \in Range(m) \cup l : f.id # e.id
      /\ rest.counts = CountsWithout(q.counts, e)
  BY PoppedFacts
<1>2. m \in Seq(MainEntry) /\ IsFiniteSet(l)
  <2> HIDE DEF pop
  <2>1. rest.main \in Seq(MainEntry) /\ rest.learning \in Seq(LearningEntry)
    BY <1>1, QueueFields
  <2> QED
    BY <2>1, RangeFinite
<1>3. e.kind = "Learning" => e.due <= t
  OBVIOUS
<1> HIDE DEF pop, e, m, l
<1>4. Tally(m, l, t) \in Counts
  BY <1>1, <1>2, TallyType
<1>5. Tally(q.main, Range(q.learning), t) = CountsWith(Tally(m, l, t), e)
  <2>1. CASE e.kind = "Learning"
    <3>1. e \in LearningEntry /\ e \notin l /\ Range(q.learning) = l \cup {e} /\ e.due <= t
      BY <1>1, <1>3, <2>1, EntryFacts
    <3>2. Tally(m, l \cup {e}, t) = CountsWith(Tally(m, l, t), e)
      BY <1>1, <1>2, <3>1, TallyPush
    <3> QED
      BY <1>1, <2>1, <3>1, <3>2
  <2>2. CASE e.kind # "Learning"
    <3>1. e \in MainEntry /\ e \notin Range(q.learning)
      <4>1. q.learning \in Seq(LearningEntry)
        BY QueueFields
      <4>2. Range(q.learning) \subseteq LearningEntry
        BY <4>1, RangeFinite
      <4> QED
        BY <1>1, <2>2, <4>2, EntryFacts
    <3>2. l = Range(q.learning)
      BY <1>1, <3>1
    <3>3. Tally(<<e>> \o m, l, t) = CountsWith(Tally(m, l, t), e)
      BY <1>1, <1>2, <3>1, TallyCons
    <3> QED
      BY <1>1, <2>2, <3>2, <3>3
  <2> QED
    BY <2>1, <2>2
<1>6. e.kind \in Kinds
  BY <1>1, EntryFacts DEF Entry, Kinds, MainKind
<1>7. CountsWithout(q.counts, e) = Tally(m, l, t)
  BY <1>4, <1>5, <1>6, WithAndWithout
<1> QED
  BY <1>1, <1>7 DEF e, m, l, pop

\* What pop_entry() leaves of the counts of new cards and reviews
LEMMA PoppedRest ==
    ASSUME NEW q \in CardQueues, Distinct(q.learning), Orderly(q.main, Range(q.learning)),
           NEW id, CanPop(q, id), NEW t, q.counts = Tally(q.main, Range(q.learning), t)
    PROVE  LET rest == Popped(q, id).rest IN
           \A L, v : rest.counts.new = Tally(rest.main, L, v).new /\ rest.counts.review = Tally(rest.main, L, v).review
<1> DEFINE pop  == Popped(q, id)
           e    == pop.entry
           rest == pop.rest
           m    == rest.main
<1>1. /\ e \in Entry /\ e.id = id /\ rest \in CardQueues
      /\ e.kind = "Learning" => m = q.main
      /\ e.kind # "Learning" => q.main = <<e>> \o m
      /\ Distinct(m) /\ \A f \in Range(m) : f.id # e.id
      /\ rest.counts = CountsWithout(q.counts, e)
  BY PoppedFacts
<1>2. m \in Seq(MainEntry)
  <2> HIDE DEF pop
  <2> QED
    BY <1>1, QueueFields
<1> HIDE DEF pop, e, m
<1>3. rest.counts.new = KindCount(m, "New") /\ rest.counts.review = KindCount(m, "Review")
  <2>1. CASE e.kind = "Learning"
    BY <1>1, <2>1 DEF CountsWithout, Tally
  <2>2. CASE e.kind # "Learning"
    <3>1. e \in MainEntry /\ e.kind \in MainKind
      BY <1>1, <2>2, EntryFacts
    <3>2. \A k \in MainKind : /\ KindCount(<<e>> \o m, k) = KindCount(m, k) + One(e.kind = k)
                               /\ KindCount(m, k) \in Nat
      BY <1>1, <1>2, <3>1, KindCountCons
    <3>3. /\ KindCount(q.main, "New") = KindCount(m, "New") + One(e.kind = "New")
          /\ KindCount(q.main, "Review") = KindCount(m, "Review") + One(e.kind = "Review")
          /\ KindCount(m, "New") \in Nat /\ KindCount(m, "Review") \in Nat
      BY <1>1, <2>2, <3>2 DEF MainKind
    <3>4. CASE e.kind = "New"
      BY <1>1, <3>3, <3>4 DEF CountsWithout, Tally, One
    <3>5. CASE e.kind = "Review"
      BY <1>1, <3>3, <3>5 DEF CountsWithout, Tally, One
    <3>6. CASE e.kind = "InterdayLearning"
      BY <1>1, <3>3, <3>6 DEF CountsWithout, Tally, One
    <3> QED
      BY <3>1, <3>4, <3>5, <3>6 DEF MainKind
  <2> QED
    BY <2>1, <2>2
<1> QED
  BY <1>3 DEF Tally, m, pop

LEMMA PositionsFit ==
    ASSUME NEW s \in Seq(LearningEntry), NEW e, NEW p \in InsertPositions(s, e)
    PROVE  p \in Int /\ 1 <= p /\ p <= Len(s) + 1
<1>1. Len(s) \in Nat
  OBVIOUS
<1> QED
  BY <1>1 DEF InsertPositions

\* Redoing the answer leads forth again.
LEMMA RedoneFacts ==
    ASSUME NEW q \in CardQueues, Distinct(q.learning), Orderly(q.main, Range(q.learning)),
           NEW u \in QueueUpdate, NEW m0, Holds(q, m0), NEW m1, m1.main \in Seq(MainEntry), Linked(m0, u, m1),
           NEW p \in RedoPositions(q, u)
    PROVE  LET r == Redone(q, u, p) IN
           /\ CanPop(q, u.entry.id)
           /\ r \in CardQueues /\ Holds(r, m1) /\ Distinct(r.learning)
           /\ r.cutoff = u.snapshot.cutoff /\ r.day = q.day /\ r.build = q.build
           /\ (Counted1(u, m1) /\ \E t : q.counts = Tally(q.main, Range(q.learning), t)) =>
                r.counts = Tally(r.main, Range(r.learning), Ahead(r))
<1> DEFINE e    == u.entry
           id   == e.id
           pop  == Popped(q, id)
           rest == pop.rest
           mid  == IF u.requeue = NoEntry THEN rest ELSE InsertLearning(rest, u.requeue, p)
           t    == u.snapshot.cutoff + LearnAhead
           Fine == Counted1(u, m1) /\ \E v : q.counts = Tally(q.main, Range(q.learning), v)
<1>1. /\ e \in Entry /\ u.requeue \in LearningEntry \cup {NoEntry} /\ u.snapshot \in CutoffSnapshot
      /\ q.main \in Seq(MainEntry) /\ q.learning \in Seq(LearningEntry)
  BY UpdateFields, QueueFields
<1>2. /\ e.kind = "Learning" => e \in Range(q.learning) /\ m1.main = q.main
      /\ e.kind # "Learning" => q.main = <<e>> \o m1.main
  BY DEF Linked, Holds
<1>3. CanPop(q, id) /\ (e.kind # "Learning" => Head(q.main) = e /\ \A f \in Range(q.learning) : f.id # id)
      /\ (e.kind # "Learning" => m1.main = Tail(q.main))
  <2>1. CASE e.kind = "Learning"
    BY <1>2, <2>1 DEF CanPop, Range
  <2>2. CASE e.kind # "Learning"
    <3>1. q.main = <<e>> \o m1.main /\ e \in MainEntry
      BY <1>1, <1>2, <2>2, EntryFacts
    <3>2. q.main # <<>> /\ Head(q.main) = e /\ e \in Range(q.main) /\ Tail(q.main) = m1.main
      <4> DEFINE m == m1.main
      <4>1. q.main = <<e>> \o m /\ e \in MainEntry /\ m \in Seq(MainEntry)
        BY <3>1
      <4> HIDE DEF m, e
      <4>2. q.main # <<>> /\ Head(q.main) = e /\ e \in Range(q.main) /\ Tail(q.main) = m
        BY <4>1, ConsFacts
      <4> QED
        BY <4>2 DEF m
    <3> QED
      BY <2>2, <3>2 DEF CanPop, Orderly
  <2> QED
    BY <2>1, <2>2
<1>4. /\ pop.entry \in Entry /\ pop.entry.id = id
      /\ rest \in CardQueues /\ SameBuilding(rest, q) /\ Distinct(rest.learning)
      /\ pop.entry.kind = "Learning" => pop.entry \in Range(q.learning) /\ rest.main = q.main
      /\ pop.entry.kind # "Learning" => q.main = <<pop.entry>> \o rest.main
      /\ Range(rest.learning) = Range(q.learning) \ {pop.entry}
      /\ Distinct(rest.main)
      /\ \A f \in Range(rest.main) \cup Range(rest.learning) : f.id # id
  <2> HIDE DEF id
  <2> QED
    BY <1>3, PoppedFacts
<1>5. rest.main \in Seq(MainEntry) /\ rest.learning \in Seq(LearningEntry)
  <2> HIDE DEF pop
  <2> QED
    BY <1>4, QueueFields
<1>6. pop.entry = e /\ rest.main = m1.main
  <2>1. CASE pop.entry.kind = "Learning"
    <3>1. e.kind = "Learning"
      BY <1>3, <1>4, <2>1
    <3>2. pop.entry = e
      BY <1>2, <1>4, <2>1, <3>1 DEF Orderly
    <3> QED
      BY <1>2, <1>4, <2>1, <3>1, <3>2
  <2>2. CASE pop.entry.kind # "Learning"
    <3>1. pop.entry \in MainEntry
      BY <1>4, <2>2, EntryFacts
    <3>2. Head(q.main) = pop.entry /\ Tail(q.main) = rest.main /\ pop.entry \in Range(q.main)
      <4> DEFINE m == rest.main
                 x == pop.entry
      <4>1. q.main = <<x>> \o m /\ x \in MainEntry /\ m \in Seq(MainEntry)
        BY <1>4, <1>5, <2>2, <3>1
      <4> HIDE DEF m, x
      <4>2. Head(q.main) = x /\ Tail(q.main) = m /\ x \in Range(q.main)
        BY <4>1, ConsFacts
      <4> QED
        BY <4>2 DEF m, x
    <3>3. e.kind # "Learning"
      BY <1>2, <1>4, <3>2 DEF Orderly
    <3> QED
      BY <1>3, <3>2, <3>3
  <2> QED
    BY <2>1, <2>2
<1>7. Range(rest.learning) = m0.learn \ {e}
  BY <1>4, <1>6 DEF Holds
<1> HIDE DEF pop
<1>8. /\ mid \in CardQueues /\ mid.main = m1.main /\ Range(mid.learning) = m1.learn
      /\ Distinct(mid.learning) /\ SameBuilding(mid, q)
      /\ mid.counts.new = rest.counts.new /\ mid.counts.review = rest.counts.review
  <2>1. CASE u.requeue = NoEntry
    BY <1>4, <1>6, <1>7, <2>1 DEF Linked
  <2>2. CASE u.requeue # NoEntry
    <3> DEFINE rq == u.requeue
    <3>1. rq \in LearningEntry /\ rq.id = id /\ m1.learn = (m0.learn \ {e}) \cup {rq}
      BY <1>1, <2>2 DEF Linked
    <3>2. p \in Int /\ 1 <= p /\ p <= Len(rest.learning) + 1
      <4>1. p \in InsertPositions(rest.learning, rq)
        BY <2>2 DEF RedoPositions, pop
      <4> HIDE DEF rest, rq
      <4> QED
        BY <1>5, <4>1, PositionsFit
    <3>3. \A f \in Range(rest.learning) : f.id # rq.id
      BY <1>4, <3>1
    <3>4. mid = InsertLearning(rest, rq, p)
      BY <2>2
    <3> HIDE DEF rest, rq, mid
    <3>5. /\ mid \in CardQueues /\ mid.main = rest.main /\ Range(mid.learning) = Range(rest.learning) \cup {rq}
          /\ Distinct(mid.learning) /\ SameBuilding(mid, rest)
          /\ rq.due <= Ahead(rest) => mid.counts = LearningMore(rest.counts, 1)
          /\ ~(rq.due <= Ahead(rest)) => mid.counts = rest.counts
      <4> DEFINE ins == InsertLearning(rest, rq, p)
      <4>1. rest \in CardQueues /\ Distinct(rest.learning) /\ rq \in LearningEntry
        BY <1>4, <3>1
      <4>2. /\ ins \in CardQueues /\ ins.main = rest.main /\ Range(ins.learning) = Range(rest.learning) \cup {rq}
            /\ Distinct(ins.learning) /\ SameBuilding(ins, rest)
            /\ rq.due <= Ahead(rest) => ins.counts = LearningMore(rest.counts, 1)
            /\ ~(rq.due <= Ahead(rest)) => ins.counts = rest.counts
        BY <3>2, <3>3, <4>1, InsertLearningFacts
      <4> HIDE DEF ins
      <4>3. mid = ins
        BY <3>4 DEF ins
      <4> QED
        BY <4>2, <4>3
    <3>6. mid.counts.new = rest.counts.new /\ mid.counts.review = rest.counts.review
      BY <1>4, <3>5, QueueFields DEF LearningMore
    <3> QED
      BY <1>4, <1>6, <1>7, <3>1, <3>5, <3>6 DEF SameBuilding
  <2> QED
    BY <2>1, <2>2
<1>9. Redone(q, u, p) = Restore(mid, u.snapshot)
  BY DEF Redone, pop
<1> DEFINE r == Restore(mid, u.snapshot)
<1> HIDE DEF mid
<1>10. /\ r \in CardQueues /\ r.main = mid.main /\ r.learning = mid.learning
      /\ r.cutoff = u.snapshot.cutoff /\ r.day = mid.day /\ r.build = mid.build
      /\ r.counts = [mid.counts EXCEPT !.learning = u.snapshot.learning]
  BY <1>1, <1>8, RestoreFacts
<1> HIDE DEF r
<1>11. ASSUME Fine PROVE r.counts = Tally(m1.main, m1.learn, t)
  <2>1. PICK v : q.counts = Tally(q.main, Range(q.learning), v)
    BY <1>11
  <2>2. \A L, w : rest.counts.new = Tally(rest.main, L, w).new /\ rest.counts.review = Tally(rest.main, L, w).review
    <3> HIDE DEF id
    <3> QED
      BY <1>3, <2>1, PoppedRest DEF pop
  <2>3. /\ mid.counts.new = Tally(m1.main, m1.learn, t).new
        /\ mid.counts.review = Tally(m1.main, m1.learn, t).review
    BY <1>6, <1>8, <2>2
  <2>4. u.snapshot.learning = Tally(m1.main, m1.learn, t).learning
    BY <1>11 DEF Counted1
  <2>5. mid.counts = [new |-> mid.counts.new, learning |-> mid.counts.learning, review |-> mid.counts.review]
    BY <1>8, QueueFields
  <2>6. r.counts = [new |-> mid.counts.new, learning |-> u.snapshot.learning, review |-> mid.counts.review]
    BY <1>10, <2>5
  <2> HIDE DEF t
  <2> QED
    BY <2>3, <2>4, <2>6 DEF Tally
<1>12. Ahead(r) = t
  BY <1>10 DEF Ahead
<1> HIDE DEF Fine, t
<1>13. r.main = m1.main /\ Range(r.learning) = m1.learn /\ Distinct(r.learning)
  BY <1>8, <1>10
<1>14. Fine => r.counts = Tally(r.main, Range(r.learning), Ahead(r))
  BY <1>11, <1>12, <1>13
<1> QED
  BY <1>3, <1>8, <1>9, <1>10, <1>13, <1>14 DEF r, Holds, SameBuilding, Fine

\* The entry put back is of the card answered, not due before the card is.
LEMMA RequeueFacts ==
    ASSUME NEW q \in CardQueues, NEW id \in Cards, NEW c \in CardRecord
    PROVE  LET r == RequeueEntry(q, LearningEntryOf(id, c)) IN
           r \in LearningEntry /\ r.id = id /\ r.mtime = c.mtime /\ c.due <= r.due /\ r.tried = c.tried
<1> DEFINE e == LearningEntryOf(id, c)
           h == Head(q.learning)
<1>1. c.due \in Nat /\ c.tried \in BOOLEAN /\ c.mtime \in Time
  BY DEF CardRecord
<1>2. e \in LearningEntry /\ e.id = id /\ e.mtime = c.mtime /\ e.due = c.due /\ e.tried = c.tried
  BY <1>1 DEF LearningEntryOf, LearningEntry
<1> HIDE DEF e
<1>3. CASE /\ e.due <= Ahead(q) /\ q.main = <<>> /\ q.learning # <<>>
           /\ h.due >= e.due /\ h.due + 1 < Ahead(q)
  <2>1. q.learning \in Seq(LearningEntry) /\ q.learning # <<>>
    BY <1>3, QueueFields
  <2>2. h \in LearningEntry
    <3> DEFINE s == q.learning
    <3> HIDE DEF s
    <3>1. Head(s) \in LearningEntry
      BY <2>1, HeadTail DEF s
    <3> QED
      BY <3>1 DEF s
  <2>3. h.due \in Nat
    BY <2>2, EntryFacts
  <2>4. RequeueEntry(q, e) = [e EXCEPT !.due = h.due + 1]
    BY <1>3 DEF RequeueEntry
  <2> HIDE DEF h
  <2>5. h.due + 1 \in Nat /\ e.due <= h.due + 1
    BY <1>1, <1>2, <1>3, <2>3
  <2> QED
    BY <1>2, <2>4, <2>5 DEF e, LearningEntry
<1>4. CASE ~(/\ e.due <= Ahead(q) /\ q.main = <<>> /\ q.learning # <<>>
             /\ h.due >= e.due /\ h.due + 1 < Ahead(q))
  <2>1. RequeueEntry(q, e) = e
    BY <1>4 DEF RequeueEntry
  <2> QED
    BY <1>1, <1>2, <2>1 DEF e
<1> QED
  BY <1>3, <1>4

\* The queue r that an answer leaves, with the update u, of the queue q in moment m0
Patched(q, id, c, finished, r, u, m0) ==
    /\ r \in CardQueues /\ Distinct(r.learning) /\ Orderly(r.main, Range(r.learning))
    /\ r.cutoff = clock /\ r.day = q.day /\ r.build = q.build
    /\ u \in QueueUpdate /\ u.build = q.build /\ u.snapshot.cutoff = q.cutoff /\ u.entry.id = id
    /\ \A m1 : m1.main = r.main /\ m1.learn = Range(r.learning) => Linked(m0, u, m1)
    /\ Range(r.main) \subseteq Range(q.main)
    /\ ~GoesBack(c, finished) =>
         \A f \in Range(r.learning) : f.id # id /\ f \in Range(q.learning)
    /\ GoesBack(c, finished) =>
         \E e \in Range(r.learning) : /\ e.id = id /\ e.mtime = c.mtime /\ c.due <= e.due
                                      /\ \A f \in Range(r.learning) \ {e} : f.id # id /\ f \in Range(q.learning)
    /\ \A f \in Range(r.main) : f.id # id
    /\ \A f \in Range(q.learning) : f.id # id => f \in Range(r.learning)
    /\ (q.counts = Tally(q.main, Range(q.learning), Ahead(q)) /\ (u.entry.kind = "Learning" => u.entry.due <= Ahead(q))) =>
         /\ r.counts = Tally(r.main, Range(r.learning), Ahead(r))
         /\ \A m1 : m1.main = r.main /\ m1.learn = Range(r.learning) => Counted1(u, m1)

\* The moment after an answer
LEMMA AnsweredFacts ==
    ASSUME clock \in Time, NEW q \in CardQueues, Distinct(q.learning), Orderly(q.main, Range(q.learning)),
           q.cutoff <= clock, NEW id \in Cards, CanPop(q, id), NEW c \in CardRecord, NEW finished,
           NEW p \in AnswerPositions(q, id, c, finished),
           NEW m0, Holds(q, m0)
    PROVE  LET a == Answered(q, id, c, finished, p)
               r == a.queues
               u == a.update
           IN  Patched(q, id, c, finished, r, u, m0)
<1> DEFINE pop   == Popped(q, id)
           e     == pop.entry
           rest  == pop.rest
           again == RequeueEntry(rest, LearningEntryOf(id, c))
           goes  == GoesBack(c, finished)
           mid   == IF goes THEN InsertLearning(rest, again, p) ELSE rest
           Back  == IF goes THEN {again} ELSE {}
           Fine  == q.counts = Tally(q.main, Range(q.learning), Ahead(q)) /\ (e.kind = "Learning" => e.due <= Ahead(q))
<1>1. /\ e \in Entry /\ e.id = id
      /\ rest \in CardQueues /\ SameBuilding(rest, q) /\ Distinct(rest.learning)
      /\ e.kind = "Learning" => e \in Range(q.learning) /\ rest.main = q.main
      /\ e.kind # "Learning" => q.main = <<e>> \o rest.main
      /\ Range(rest.learning) = Range(q.learning) \ {e}
      /\ Distinct(rest.main)
      /\ \A f \in Range(rest.main) \cup Range(rest.learning) : f.id # id
      /\ Range(rest.main) \subseteq Range(q.main)
  BY PoppedFacts
<1>2. Fine => rest.counts = Tally(rest.main, Range(rest.learning), Ahead(q))
  BY PoppedTally
<1>3. p \in (IF goes THEN InsertPositions(rest.learning, again) ELSE {1})
  BY DEF AnswerPositions
<1> HIDE DEF pop
<1>4. rest.main \in Seq(MainEntry) /\ rest.learning \in Seq(LearningEntry)
  BY <1>1, QueueFields
<1>5. again \in LearningEntry /\ again.id = id /\ again.mtime = c.mtime /\ c.due <= again.due /\ again # NoEntry
  <2>1. again \in LearningEntry /\ again.id = id /\ again.mtime = c.mtime /\ c.due <= again.due
    <3> HIDE DEF rest
    <3> QED
      BY <1>1, RequeueFacts
  <2> HIDE DEF again
  <2> QED
    BY <2>1, EntryFacts
<1> HIDE DEF again, goes
<1>6. IsFiniteSet(Range(rest.learning)) /\ again \notin Range(rest.learning)
  <2> HIDE DEF rest
  <2> QED
    BY <1>1, <1>4, <1>5, RangeFinite
<1>7. /\ mid \in CardQueues /\ mid.main = rest.main /\ Range(mid.learning) = Range(rest.learning) \cup Back
      /\ Distinct(mid.learning) /\ SameBuilding(mid, q)
      /\ Fine => mid.counts = Tally(rest.main, Range(rest.learning) \cup Back, Ahead(q))
  <2>1. CASE goes
    <3> DEFINE ins == InsertLearning(rest, again, p)
    <3>1. Ahead(rest) = Ahead(q)
      BY <1>1 DEF SameBuilding, Ahead
    <3>2. /\ rest \in CardQueues /\ Distinct(rest.learning) /\ again \in LearningEntry
          /\ \A f \in Range(rest.learning) : f.id # again.id
      BY <1>1, <1>5
    <3>3. p \in Int /\ 1 <= p /\ p <= Len(rest.learning) + 1
      <4>1. p \in InsertPositions(rest.learning, again)
        BY <1>3, <2>1
      <4> DEFINE s == rest.learning
      <4>2. s \in Seq(LearningEntry) /\ p \in InsertPositions(s, again)
        BY <1>4, <4>1
      <4> HIDE DEF s
      <4>3. p \in Int /\ 1 <= p /\ p <= Len(s) + 1
        BY <4>2, PositionsFit
      <4> QED
        BY <4>3 DEF s
    <3> HIDE DEF rest
    <3>4. /\ ins \in CardQueues /\ ins.main = rest.main /\ Range(ins.learning) = Range(rest.learning) \cup {again}
          /\ Distinct(ins.learning) /\ SameBuilding(ins, rest)
          /\ again.due <= Ahead(rest) => ins.counts = LearningMore(rest.counts, 1)
          /\ ~(again.due <= Ahead(rest)) => ins.counts = rest.counts
      BY <3>2, <3>3, InsertLearningFacts
    <3> HIDE DEF ins
    <3>5. mid = ins /\ Back = {again}
      BY <2>1 DEF ins
    <3>6. ASSUME Fine PROVE ins.counts = Tally(rest.main, Range(rest.learning) \cup {again}, Ahead(q))
      <4> DEFINE M == rest.main
                 L == Range(rest.learning)
                 t == Ahead(q)
      <4>1. M \in Seq(MainEntry) /\ Distinct(M) /\ IsFiniteSet(L) /\ again \notin L /\ rest.counts = Tally(M, L, t)
        BY <1>1, <1>2, <1>4, <1>6, <3>6
      <4> HIDE DEF M, L, t
      <4>2. /\ again.due <= t => Tally(M, L \cup {again}, t) = LearningMore(Tally(M, L, t), 1)
            /\ ~(again.due <= t) => Tally(M, L \cup {again}, t) = Tally(M, L, t)
        BY <4>1, TallyAdd
      <4> QED
        BY <3>1, <3>4, <4>1, <4>2 DEF M, L, t
    <3> HIDE DEF mid, Back, Fine
    <3> QED
      BY <1>1, <3>4, <3>5, <3>6 DEF SameBuilding
  <2>2. CASE ~goes
    <3>1. mid = rest /\ Back = {}
      BY <2>2
    <3> HIDE DEF mid, Back, Fine
    <3> QED
      BY <1>1, <1>2, <3>1
  <2> QED
    BY <2>1, <2>2
<1> DEFINE r == Bump(mid, clock)
           u == [entry |-> e, requeue |-> IF goes THEN again ELSE NoEntry, build |-> q.build, snapshot |-> Snapshot(mid)]
<1>8. Answered(q, id, c, finished, p) = [queues |-> r, update |-> u]
  BY DEF Answered, pop, goes, again
<1> HIDE DEF mid
<1>9. mid.cutoff = q.cutoff /\ mid.day = q.day /\ mid.build = q.build /\ Distinct(mid.main)
  BY <1>1, <1>7 DEF SameBuilding
<1>10. /\ r \in CardQueues /\ r.main = mid.main /\ r.learning = mid.learning
       /\ r.cutoff = clock /\ r.day = mid.day /\ r.build = mid.build
       /\ mid.counts = Tally(mid.main, Range(mid.learning), Ahead(mid)) =>
            r.counts = Tally(mid.main, Range(mid.learning), Ahead(r))
  BY <1>7, <1>9, BumpFacts
<1>11. u \in QueueUpdate /\ u.build = q.build /\ u.snapshot.cutoff = q.cutoff /\ u.entry = e
       /\ u.snapshot.learning = mid.counts.learning /\ (goes => u.requeue = again) /\ (~goes => u.requeue = NoEntry)
  <2>1. mid.counts.learning \in Nat /\ mid.cutoff \in Time /\ q.build \in Builds
    BY <1>7, QueueFields
  <2>2. Snapshot(mid) = [learning |-> mid.counts.learning, cutoff |-> mid.cutoff]
    BY DEF Snapshot
  <2>3. (IF goes THEN again ELSE NoEntry) \in LearningEntry \cup {NoEntry}
    BY <1>5
  <2> HIDE DEF e
  <2> QED
    BY <1>1, <1>9, <2>1, <2>2, <2>3 DEF QueueUpdate, CutoffSnapshot
<1> HIDE DEF r, u
<1>12. Range(r.learning) = (Range(q.learning) \ {e}) \cup Back /\ r.main = rest.main
  BY <1>1, <1>7, <1>10
<1>13. ASSUME NEW m1, m1.main = r.main, m1.learn = Range(r.learning) PROVE Linked(m0, u, m1)
  BY <1>1, <1>5, <1>11, <1>12, <1>13 DEF Linked, Holds
<1>14. Orderly(r.main, Range(r.learning))
  <2>1. \A f \in Range(r.learning) : f \in Range(q.learning) \/ f = again
    BY <1>12
  <2> QED
    BY <1>1, <1>5, <1>12, <2>1 DEF Orderly
<1>15. ASSUME Fine
       PROVE  /\ r.counts = Tally(r.main, Range(r.learning), Ahead(r))
              /\ \A m1 : m1.main = r.main /\ m1.learn = Range(r.learning) => Counted1(u, m1)
  <2>1. mid.counts = Tally(mid.main, Range(mid.learning), Ahead(mid)) /\ Ahead(mid) = Ahead(q)
    BY <1>7, <1>9, <1>15 DEF Ahead
  <2>2. r.counts = Tally(r.main, Range(r.learning), Ahead(r))
    BY <1>10, <2>1
  <2>3. u.snapshot.learning = Tally(r.main, Range(r.learning), q.cutoff + LearnAhead).learning
    BY <1>10, <1>11, <2>1 DEF Ahead
  <2>4. e.kind = "Learning" => e.due <= q.cutoff + LearnAhead
    BY <1>15 DEF Ahead
  <2> QED
    BY <1>11, <2>2, <2>3, <2>4 DEF Counted1
<1>16. /\ r \in CardQueues /\ Distinct(r.learning)
       /\ r.cutoff = clock /\ r.day = q.day /\ r.build = q.build
  BY <1>7, <1>9, <1>10
<1>17. /\ Range(r.main) \subseteq Range(q.main)
       /\ ~goes => \A f \in Range(r.learning) : f.id # id /\ f \in Range(q.learning)
       /\ \A f \in Range(r.main) : f.id # id
       /\ \A f \in Range(q.learning) : f.id # id => f \in Range(r.learning)
  BY <1>1, <1>12
<1>18. ASSUME goes
       PROVE  /\ again \in Range(r.learning) /\ again.id = id /\ again.mtime = c.mtime /\ c.due <= again.due
              /\ \A f \in Range(r.learning) \ {again} : f.id # id /\ f \in Range(q.learning)
  BY <1>1, <1>5, <1>12, <1>18
<1>19. u.entry = e /\ e.id = id
  BY <1>1, <1>11
<1> HIDE DEF e, rest, Back, Fine
<1>20. goes => \E x \in Range(r.learning) : /\ x.id = id /\ x.mtime = c.mtime /\ c.due <= x.due
                                             /\ \A f \in Range(r.learning) \ {x} : f.id # id /\ f \in Range(q.learning)
  BY <1>18
<1> QED
  BY <1>8, <1>11, <1>13, <1>14, <1>15, <1>16, <1>17, <1>19, <1>20 DEF goes, Fine, Patched

LEMMA Numbers ==
    /\ LearnAhead \in Nat /\ DayLength \in Nat /\ DayLength > 0 /\ MaxTime \in Nat /\ MaxSteps \in Nat
    /\ Time = 0..MaxTime /\ \A t \in Time : t \in Nat
<1>1. LearnAhead \in Nat /\ DayLength \in Nat \ {0} /\ MaxTime \in Nat /\ MaxSteps \in Nat
  BY QueueAssumption
<1> QED
  BY <1>1 DEF Time

\* A set of places has a least one.
LEMMA MinOfPlaces ==
    ASSUME NEW A \in SUBSET Nat, A # {}
    PROVE  Min(A) \in A
<1> DEFINE R == OpToRel(<, Nat)
<1>1. A \subseteq Nat
  OBVIOUS
<1>2. IsWellFoundedOn(R, Nat)
  BY NatLessThanWellFounded
<1>3. PICK m \in A : \A k \in A : <<k, m>> \notin R
  <2> HIDE DEF R
  <2> QED
    BY <1>2, WFMin
<1>4. \A k \in A : m <= k
  <2> SUFFICES ASSUME NEW k \in A, k < m PROVE FALSE
    BY <1>1
  <2>1. <<k, m>> \in R
    BY <1>1 DEF OpToRel
  <2> QED
    BY <1>3, <2>1
<1> QED
  BY <1>4 DEF Min

\* counts() moves the cutoff, if anything.
LEMMA CountedFacts ==
    ASSUME clock \in Time, NEW q \in CardQueues, Distinct(q.main), Distinct(q.learning), q.cutoff <= clock
    PROVE  LET r == Counted(q) IN
           /\ r \in CardQueues /\ r.main = q.main /\ r.learning = q.learning
           /\ r.cutoff \in Time /\ q.cutoff <= r.cutoff /\ r.cutoff <= clock /\ r.day = q.day /\ r.build = q.build
           /\ q.counts = Tally(q.main, Range(q.learning), Ahead(q)) =>
                r.counts = Tally(r.main, Range(r.learning), Ahead(r))
<1>1. q.cutoff \in Time /\ clock \in Int /\ q.cutoff \in Int
  <2>1. q.cutoff \in Time
    BY QueueFields
  <2>2. \A t \in Time : t \in Nat
    BY Numbers
  <2> QED
    BY <2>1, <2>2
<1>2. CASE Counted(q) = q
  BY <1>1, <1>2
<1>3. CASE Counted(q) = Bump(q, clock)
  <2>1. LET r == Bump(q, clock) IN
        /\ r \in CardQueues /\ r.main = q.main /\ r.learning = q.learning
        /\ r.cutoff = clock /\ r.day = q.day /\ r.build = q.build
        /\ q.counts = Tally(q.main, Range(q.learning), Ahead(q)) =>
             r.counts = Tally(q.main, Range(q.learning), Ahead(r))
    BY BumpFacts
  <2> QED
    BY <1>1, <1>3, <2>1
<1> QED
  BY <1>2, <1>3 DEF Counted

\* The card at the top can be popped; a learning card there is due by the learn-ahead time.
LEMMA TopEntryFacts ==
    ASSUME NEW q \in CardQueues, TopEntry(q) # NoEntry
    PROVE  LET top == TopEntry(q) IN
           /\ CanPop(q, top.id)
           /\ \/ top \in Range(q.main)
              \/ top \in Range(q.learning) /\ top.due <= Ahead(q)
<1> DEFINE dueBy(t) == {i \in DOMAIN q.learning : q.learning[i].due <= t}
           top == TopEntry(q)
<1>1. q.main \in Seq(MainEntry) /\ q.learning \in Seq(LearningEntry) /\ q.cutoff \in Nat /\ LearnAhead \in Nat
  BY QueueFields, Numbers
<1>2. \A t : dueBy(t) \in SUBSET Nat
  BY <1>1
<1>3. \A i \in DOMAIN q.learning : q.learning[i].due \in Nat
  BY <1>1, EntryFacts
<1>4. \A i \in DOMAIN q.learning : CanPop(q, q.learning[i].id) /\ q.learning[i] \in Range(q.learning)
  BY DEF CanPop, Range
<1>5. CASE dueBy(q.cutoff) # {}
  <2>1. top = q.learning[Min(dueBy(q.cutoff))]
    BY <1>5 DEF TopEntry
  <2>2. Min(dueBy(q.cutoff)) \in dueBy(q.cutoff)
    BY <1>2, <1>5, MinOfPlaces
  <2> QED
    <3> DEFINE i == Min(dueBy(q.cutoff))
    <3>1. i \in DOMAIN q.learning /\ q.learning[i].due <= q.cutoff
      BY <2>2
    <3> HIDE DEF i
    <3>2. q.learning[i].due \in Nat
      BY <1>3, <3>1
    <3>3. q.learning[i].due <= Ahead(q)
      BY <1>1, <3>1, <3>2 DEF Ahead
    <3> QED
      BY <1>4, <2>1, <3>1, <3>3 DEF i
<1>6. CASE dueBy(q.cutoff) = {} /\ q.main # <<>>
  <2>1. top = Head(q.main)
    BY <1>6 DEF TopEntry
  <2>2. Head(q.main) \in Range(q.main)
    BY <1>1, <1>6, HeadTail DEF Range
  <2> QED
    BY <1>6, <2>1, <2>2 DEF CanPop
<1>7. CASE dueBy(q.cutoff) = {} /\ q.main = <<>> /\ dueBy(Ahead(q)) # {}
  <2>1. top = q.learning[Min(dueBy(Ahead(q)))]
    BY <1>7 DEF TopEntry
  <2>2. Min(dueBy(Ahead(q))) \in dueBy(Ahead(q))
    BY <1>2, <1>7, MinOfPlaces
  <2> QED
    BY <1>4, <2>1, <2>2
<1> QED
  BY <1>5, <1>6, <1>7 DEF TopEntry

\* The days follow the clock.
LEMMA DayGrows ==
    ASSUME NEW t \in Nat, NEW v \in Nat, t <= v
    PROVE  t \div DayLength \in Nat /\ t \div DayLength <= v \div DayLength
<1> DEFINE d == DayLength
           a == t \div d
           b == v \div d
<1>1. d \in Nat /\ d > 0
  BY Numbers
<1> HIDE DEF d
<1>2. a \in Nat /\ b \in Nat /\ d * a <= t /\ v < d * b + d
  BY <1>1
<1> HIDE DEF a, b
<1> SUFFICES ASSUME b + 1 <= a PROVE FALSE
  BY <1>2 DEF a, b, d
<1>3. d * (b + 1) <= d * a
  BY <1>1, <1>2
<1>4. d * (b + 1) = d * b + d
  BY <1>1, <1>2
<1> QED
  BY <1>1, <1>2, <1>3, <1>4

LEMMA NextDayGrows ==
    ASSUME NEW a \in Nat, NEW b \in Nat, a <= b
    PROVE  (a + 1) * DayLength <= (b + 1) * DayLength
BY QueueAssumption

-----------------------------------------------------------------------------
(* A queue just built                                                      *)

\* The build time of the queue (n = 0), of an undo step, or of a redo step
BuildAt(n) ==
    IF n = 0 THEN queues.build
    ELSE IF n <= Len(undoSteps) THEN undoSteps[n].update.build
    ELSE redoSteps[n - Len(undoSteps)].update.build

\* There is always a build time that nothing has: there are more than steps.
LEMMA NewBuildIsNew ==
    ASSUME NEW S, undoSteps \in Seq(S), redoSteps \in Seq(S), Len(undoSteps) + Len(redoSteps) <= MaxSteps
    PROVE  NewBuild \in Builds /\ NewBuild \notin UsedBuilds
<1> DEFINE lu == Len(undoSteps)
           lr == Len(redoSteps)
           N  == 0..MaxSteps
           g  == [b \in Builds |-> CHOOSE n \in N : BuildAt(n) = b]
<1>1. /\ lu \in Nat /\ lr \in Nat /\ DOMAIN undoSteps = 1..lu /\ DOMAIN redoSteps = 1..lr
      /\ MaxSteps \in Nat
  BY Numbers
<1> SUFFICES ASSUME \A b \in Builds : b \in UsedBuilds PROVE FALSE
  BY DEF NewBuild
<1>2. \A b \in UsedBuilds : \E n \in N : BuildAt(n) = b
  <2> TAKE b \in UsedBuilds
  <2>1. CASE b = queues.build
    BY <1>1, <2>1 DEF BuildAt
  <2>2. CASE \E s \in Range(undoSteps) : b = s.update.build
    <3>1. PICK i \in 1..lu : b = undoSteps[i].update.build
      BY <1>1, <2>2 DEF Range
    <3>2. BuildAt(i) = b /\ i \in N
      BY <1>1, <3>1 DEF BuildAt
    <3> QED
      BY <3>2
  <2>3. CASE \E s \in Range(redoSteps) : b = s.update.build
    <3>1. PICK i \in 1..lr : b = redoSteps[i].update.build
      BY <1>1, <2>3 DEF Range
    <3>2. BuildAt(lu + i) = b /\ lu + i \in N
      BY <1>1, <3>1 DEF BuildAt
    <3> QED
      BY <3>2
  <2> QED
    BY <2>1, <2>2, <2>3 DEF UsedBuilds
<1>3. \A b \in Builds : g[b] \in N /\ BuildAt(g[b]) = b
  BY <1>2
<1>4. g \in [Builds -> N]
  BY <1>3
<1>5. IsFiniteSet(N) /\ Cardinality(N) = MaxSteps + 1
  BY <1>1, FS_Interval
<1>6. IsFiniteSet(Builds) /\ Cardinality(N) < Cardinality(Builds)
  <2>1. IsFiniteSet(Builds) /\ Cardinality(Builds) > MaxSteps + 1
    BY QueueAssumption
  <2>2. Cardinality(Builds) \in Nat
    BY <2>1, FS_CardinalityType
  <2> HIDE DEF N
  <2> QED
    BY <1>1, <1>5, <2>1, <2>2
<1> HIDE DEF g, N
<1>7. \E b, c \in Builds : b # c /\ g[b] = g[c]
  BY <1>4, <1>5, <1>6, FS_PigeonHole
<1> QED
  BY <1>3, <1>7

\* An ordering of a set of cards names each of them once.
LEMMA Ordering ==
    ASSUME NEW S \in SUBSET Cards, NEW m \in SetToSeqs(S)
    PROVE  /\ m \in Seq(S) /\ DOMAIN m = 1..Len(m) /\ Len(m) \in Nat
           /\ \A i, j \in DOMAIN m : m[i] = m[j] => i = j
           /\ \A x \in S : \E i \in DOMAIN m : m[i] = x
<1> DEFINE n == Cardinality(S)
           D == 1..n
<1>1. IsFiniteSet(S) /\ n \in Nat
  <2>1. IsFiniteSet(Cards)
    BY QueueAssumption
  <2> QED
    BY <2>1, FS_Subset, FS_CardinalityType
<1>2. m \in [D -> S] /\ \A i, j \in D : i # j => m[i] # m[j]
  BY DEF SetToSeqs
<1>3. Cardinality(D) = n
  BY <1>1, FS_Interval
<1>4. m \in Injection(D, S)
  BY <1>2 DEF Injection, IsInjective
<1>5. m \in Surjection(D, S)
  <2> HIDE DEF D, n
  <2> QED
    BY <1>1, <1>3, <1>4, FS_Injection DEF n
<1>6. \A x \in S : \E i \in D : m[i] = x
  BY <1>5 DEF Surjection
<1>7. m \in Seq(S) /\ Len(m) = n
  BY <1>1, <1>2
<1> QED
  BY <1>1, <1>2, <1>6, <1>7

-----------------------------------------------------------------------------
(* What is true of a moment                                                *)

\* Every entry is of its card as it is.
Fresh(m) ==
    /\ \A e \in Range(m.main) :
          /\ m.cards[e.id].at = "deck" /\ m.cards[e.id].mtime = e.mtime
          /\ m.cards[e.id].queue # "Learn" /\ e.kind = MainEntryOf(e.id, m.cards[e.id]).kind
    /\ \A e \in m.learn :
          /\ m.cards[e.id].at = "deck" /\ m.cards[e.id].mtime = e.mtime
          /\ m.cards[e.id].queue = "Learn" /\ m.cards[e.id].due <= e.due

\* The learning cards of that day are among the entries.
KeptOn(m, day) ==
    \A id \in Cards :
        m.cards[id].at = "deck" /\ m.cards[id].queue = "Learn" /\ m.cards[id].due < (day + 1) * DayLength
            => \E e \in m.learn : e.id = id

\* The moment of a queue and its cards
MomentOf(q, cs) == [main |-> q.main, learn |-> Range(q.learning), cards |-> cs]

LEMMA MomentFields ==
    ASSUME NEW q, NEW cs
    PROVE  /\ MomentOf(q, cs).main = q.main /\ MomentOf(q, cs).learn = Range(q.learning)
           /\ MomentOf(q, cs).cards = cs /\ Holds(q, MomentOf(q, cs))
BY DEF MomentOf, Holds

LEMMA EntriesOfCards ==
    ASSUME NEW id \in Cards, NEW c \in CardRecord
    PROVE  /\ MainEntryOf(id, c).id = id /\ MainEntryOf(id, c).mtime = c.mtime
           /\ c.queue # "Learn" => MainEntryOf(id, c) \in MainEntry
           /\ LearningEntryOf(id, c) \in LearningEntry /\ LearningEntryOf(id, c).id = id
           /\ LearningEntryOf(id, c).mtime = c.mtime /\ LearningEntryOf(id, c).due = c.due
           /\ LearningEntryOf(id, c).tried = c.tried
BY DEF CardRecord, MainEntryOf, LearningEntryOf, MainEntry, LearningEntry, MainKind

LEMMA MainOf ==
    ASSUME NEW cs \in [Cards -> CardRecord], NEW S \in SUBSET Cards, \A id \in S : cs[id].queue # "Learn",
           NEW m \in SetToSeqs(S)
    PROVE  LET s == [i \in DOMAIN m |-> MainEntryOf(m[i], cs[m[i]])] IN
           /\ s \in Seq(MainEntry) /\ Distinct(s)
           /\ \A e \in Range(s) : e.id \in S /\ e = MainEntryOf(e.id, cs[e.id])
           /\ Len(s) = Len(m) /\ \A i \in DOMAIN m : s[i].id = m[i]
<1> DEFINE s == [i \in DOMAIN m |-> MainEntryOf(m[i], cs[m[i]])]
<1>1. /\ m \in Seq(S) /\ DOMAIN m = 1..Len(m) /\ Len(m) \in Nat
      /\ \A i, j \in DOMAIN m : m[i] = m[j] => i = j
  BY Ordering
<1>2. \A i \in DOMAIN m : m[i] \in S /\ m[i] \in Cards /\ cs[m[i]] \in CardRecord /\ cs[m[i]].queue # "Learn"
  BY <1>1
<1>3. \A i \in DOMAIN m : s[i] \in MainEntry /\ s[i].id = m[i] /\ s[i] = MainEntryOf(m[i], cs[m[i]])
  BY <1>2, EntriesOfCards
<1>4. s \in Seq(MainEntry) /\ Len(s) = Len(m) /\ DOMAIN s = DOMAIN m
  BY <1>1, <1>3
<1> HIDE DEF s
<1>5. Distinct(s)
  BY <1>1, <1>3, <1>4 DEF Distinct
<1>6. \A e \in Range(s) : e.id \in S /\ e = MainEntryOf(e.id, cs[e.id])
  BY <1>2, <1>3, <1>4 DEF Range
<1> QED
  BY <1>3, <1>4, <1>5, <1>6 DEF s

LEMMA LearningOf ==
    ASSUME NEW cs \in [Cards -> CardRecord], NEW S \in SUBSET Cards, NEW m \in SetToSeqs(S)
    PROVE  LET s == [i \in DOMAIN m |-> LearningEntryOf(m[i], cs[m[i]])] IN
           /\ s \in Seq(LearningEntry) /\ Distinct(s)
           /\ \A e \in Range(s) : e.id \in S /\ e.mtime = cs[e.id].mtime /\ e.due = cs[e.id].due
                                /\ e.tried = cs[e.id].tried
           /\ \A id \in S : \E i \in DOMAIN s : s[i].id = id
<1> DEFINE s == [i \in DOMAIN m |-> LearningEntryOf(m[i], cs[m[i]])]
<1>1. /\ m \in Seq(S) /\ DOMAIN m = 1..Len(m) /\ Len(m) \in Nat
      /\ \A i, j \in DOMAIN m : m[i] = m[j] => i = j
      /\ \A x \in S : \E i \in DOMAIN m : m[i] = x
  BY Ordering
<1>2. \A i \in DOMAIN m : m[i] \in S /\ m[i] \in Cards /\ cs[m[i]] \in CardRecord
  BY <1>1
<1>3. \A i \in DOMAIN m : /\ s[i] \in LearningEntry /\ s[i].id = m[i]
                           /\ s[i].mtime = cs[m[i]].mtime /\ s[i].due = cs[m[i]].due
                           /\ s[i].tried = cs[m[i]].tried
  BY <1>2, EntriesOfCards
<1>4. s \in Seq(LearningEntry) /\ DOMAIN s = DOMAIN m
  BY <1>1, <1>3
<1> HIDE DEF s
<1>5. Distinct(s)
  BY <1>1, <1>3, <1>4 DEF Distinct
<1>6. \A e \in Range(s) : e.id \in S /\ e.mtime = cs[e.id].mtime /\ e.due = cs[e.id].due
                        /\ e.tried = cs[e.id].tried
  BY <1>2, <1>3, <1>4 DEF Range
<1>7. ASSUME NEW id \in S PROVE \E i \in DOMAIN s : s[i].id = id
  <2>1. PICK i \in DOMAIN m : m[i] = id
    BY <1>1
  <2>2. i \in DOMAIN s /\ s[i].id = id
    BY <1>3, <1>4, <2>1
  <2> QED
    BY <2>2
<1> QED
  BY <1>4, <1>5, <1>6, <1>7 DEF s

\* The counts of a queue just built
LEMMA BuiltTally ==
    ASSUME clock \in Time, NEW main \in Seq(MainEntry), Distinct(main),
           NEW learning \in Seq(LearningEntry), Distinct(learning), NEW b \in Builds
    PROVE  LET q == Built(main, learning, b) IN
           /\ q \in CardQueues /\ q.main = main /\ q.learning = learning
           /\ q.cutoff = clock /\ q.day = Day /\ q.build = b
           /\ q.counts = Tally(main, Range(learning), Ahead(q))
<1> DEFINE q == Built(main, learning, b)
<1>1. /\ CountKind(main, "New") = KindCount(main, "New")
      /\ CountKind(main, "Review") = KindCount(main, "Review")
      /\ CountKind(main, "InterdayLearning") = KindCount(main, "InterdayLearning")
  BY KindCountIs
<1>2. Cardinality({i \in DOMAIN learning : learning[i].due <= clock + LearnAhead})
        = DueCount(Range(learning), clock + LearnAhead)
  BY DueCountIs
<1>3. Tally(main, Range(learning), clock + LearnAhead) \in Counts
  BY RangeFinite, TallyType
<1>4. Day \in Nat
  BY Numbers, DayGrows DEF Day
<1>5. q.counts = Tally(main, Range(learning), clock + LearnAhead)
  BY <1>1, <1>2 DEF Built, Tally
<1>6. /\ q.main = main /\ q.learning = learning /\ q.cutoff = clock /\ q.day = Day /\ q.build = b
      /\ q = [main |-> main, learning |-> learning, counts |-> q.counts, cutoff |-> clock, day |-> Day, build |-> b]
  BY DEF Built
<1> HIDE DEF q
<1>7. q \in CardQueues
  BY <1>3, <1>4, <1>5, <1>6 DEF CardQueues
<1> QED
  BY <1>5, <1>6, <1>7 DEF Ahead, q

\* What every queue built has
LEMMA BuiltFacts ==
    ASSUME clock \in Time, NEW cs \in [Cards -> CardRecord], NEW pinned \in SUBSET Cards,
           \A id \in pinned : cs[id].at = "deck", NewBuild \in Builds, NEW q \in BuiltQueues(cs, pinned)
    PROVE  /\ q \in CardQueues /\ Distinct(q.learning) /\ Orderly(q.main, Range(q.learning))
           /\ q.cutoff = clock /\ q.day = Day /\ q.build = NewBuild
           /\ q.counts = Tally(q.main, Range(q.learning), Ahead(q))
           /\ Fresh(MomentOf(q, cs)) /\ KeptOn(MomentOf(q, cs), Day)
           /\ \A e \in Range(q.learning) : e.due = cs[e.id].due /\ e.tried = cs[e.id].tried
           /\ InOrder(q.learning)
           /\ \A id : pinned = {id} => CanPop(q, id)
<1> DEFINE pinMain == {id \in pinned : cs[id].queue # "Learn"}
           L == LearningDue(cs) \cup (pinned \ pinMain)
<1>1. PICK T, m, l :
        /\ T \in SUBSET (MainDue(cs) \cup pinMain) /\ m \in SetToSeqs(T) /\ l \in SetToSeqs(L)
        /\ pinMain \subseteq T /\ (pinMain = {} \/ m[1] \in pinMain)
        /\ q = Built([i \in DOMAIN m |-> MainEntryOf(m[i], cs[m[i]])],
                     [i \in DOMAIN l |-> LearningEntryOf(l[i], cs[l[i]])], NewBuild)
        /\ InOrder([i \in DOMAIN l |-> LearningEntryOf(l[i], cs[l[i]])])
  <2> DEFINE mains == UNION {SetToSeqs(S) : S \in {T \in SUBSET (MainDue(cs) \cup pinMain) : pinMain \subseteq T}}
             ms == {n \in mains : pinMain = {} \/ n[1] \in pinMain}
             ls == {o \in SetToSeqs(L) : InOrder([i \in DOMAIN o |-> LearningEntryOf(o[i], cs[o[i]])])}
             F(m, l) == Built([i \in DOMAIN m |-> MainEntryOf(m[i], cs[m[i]])],
                              [i \in DOMAIN l |-> LearningEntryOf(l[i], cs[l[i]])], NewBuild)
  <2>1. BuiltQueues(cs, pinned) = {F(m, l) : m \in ms, l \in ls}
    BY DEF BuiltQueues
  <2>2. PICK m \in ms, l \in ls : q = F(m, l)
    <3> HIDE DEF F, ms, ls
    <3> QED
      BY <2>1
  <2>3. /\ m \in mains /\ l \in SetToSeqs(L) /\ (pinMain = {} \/ m[1] \in pinMain)
        /\ InOrder([i \in DOMAIN l |-> LearningEntryOf(l[i], cs[l[i]])])
    <3> HIDE DEF mains, pinMain, L
    <3> QED
      BY <2>2
  <2>4. PICK T \in SUBSET (MainDue(cs) \cup pinMain) : pinMain \subseteq T /\ m \in SetToSeqs(T)
    OBVIOUS
  <2> QED
    BY <2>3, <2>4, <2>2
<1>2. T \in SUBSET Cards /\ \A id \in T : cs[id].queue # "Learn" /\ cs[id].at = "deck"
  BY <1>1 DEF MainDue
<1>3. L \in SUBSET Cards /\ \A id \in L : cs[id].queue = "Learn" /\ cs[id].at = "deck"
  BY DEF LearningDue
<1>4. \A id \in Cards : cs[id] \in CardRecord
  OBVIOUS
<1> HIDE DEF pinMain
<1> DEFINE main == [i \in DOMAIN m |-> MainEntryOf(m[i], cs[m[i]])]
           learning == [i \in DOMAIN l |-> LearningEntryOf(l[i], cs[l[i]])]
<1>5. /\ main \in Seq(MainEntry) /\ Distinct(main)
      /\ \A e \in Range(main) : e.id \in T /\ e = MainEntryOf(e.id, cs[e.id])
      /\ Len(main) = Len(m) /\ \A i \in DOMAIN m : main[i].id = m[i]
  BY <1>1, <1>2, MainOf
<1>6. q = Built(main, learning, NewBuild) /\ InOrder(learning)
  BY <1>1
<1> HIDE DEF main, L
<1>7. /\ learning \in Seq(LearningEntry) /\ Distinct(learning)
      /\ \A e \in Range(learning) : e.id \in L /\ e.mtime = cs[e.id].mtime /\ e.due = cs[e.id].due
                                   /\ e.tried = cs[e.id].tried
      /\ \A id \in L : \E i \in DOMAIN learning : learning[i].id = id
  BY <1>1, <1>3, LearningOf
<1> HIDE DEF learning
<1>8. /\ q \in CardQueues /\ q.main = main /\ q.learning = learning
      /\ q.cutoff = clock /\ q.day = Day /\ q.build = NewBuild
      /\ q.counts = Tally(main, Range(learning), Ahead(q))
  BY <1>5, <1>7, <1>6, BuiltTally
<1>9. Orderly(main, Range(learning))
  <2>1. \A e, f \in Range(learning) : e.id = f.id => e = f
    BY <1>7 DEF Range, Distinct
  <2>2. \A e \in Range(main), f \in Range(learning) : e.id # f.id
    BY <1>2, <1>3, <1>5, <1>7
  <2> QED
    BY <1>5, <2>1, <2>2 DEF Orderly
<1>10. Fresh(MomentOf(q, cs))
  <2>1. ASSUME NEW e \in Range(main)
        PROVE  /\ cs[e.id].at = "deck" /\ cs[e.id].mtime = e.mtime
               /\ cs[e.id].queue # "Learn" /\ e.kind = MainEntryOf(e.id, cs[e.id]).kind
    <3>1. e.id \in T /\ e = MainEntryOf(e.id, cs[e.id])
      BY <1>5
    <3>2. e.mtime = cs[e.id].mtime
      BY <3>1, <1>2, <1>4, EntriesOfCards
    <3> QED
      BY <1>2, <3>1, <3>2
  <2>2. \A e \in Range(learning) : cs[e.id].due \in Nat
    BY <1>3, <1>7 DEF CardRecord
  <2>3. \A e \in Range(learning) :
           /\ cs[e.id].at = "deck" /\ cs[e.id].mtime = e.mtime
           /\ cs[e.id].queue = "Learn" /\ cs[e.id].due <= e.due
    BY <1>3, <1>7, <2>2
  <2> QED
    BY <1>8, <2>1, <2>3, MomentFields DEF Fresh
<1>11. KeptOn(MomentOf(q, cs), Day)
  <2>1. ASSUME NEW id \in Cards, cs[id].at = "deck", cs[id].queue = "Learn", cs[id].due < (Day + 1) * DayLength
        PROVE  \E e \in Range(learning) : e.id = id
    <3>1. id \in L
      BY <2>1 DEF L, LearningDue, NextDayAt
    <3> QED
      BY <1>7, <3>1 DEF Range
  <2> QED
    BY <1>8, <2>1, MomentFields DEF KeptOn
<1>12. ASSUME NEW id, pinned = {id} PROVE CanPop(q, id)
  <2>1. CASE id \in pinMain
    <3>1. m[1] = id /\ id \in T
      BY <1>1, <1>12, <2>1 DEF pinMain
    <3>2. 1 \in DOMAIN m
      <4>1. DOMAIN m = 1..Len(m) /\ Len(m) \in Nat /\ \A x \in T : \E i \in DOMAIN m : m[i] = x
        BY <1>1, <1>2, Ordering
      <4> QED
        BY <3>1, <4>1
    <3>3. main[1].id = id /\ Len(main) = Len(m) /\ 1 \in 1..Len(m)
      <4>1. DOMAIN m = 1..Len(m)
        BY <1>1, <1>2, Ordering
      <4> QED
        BY <1>5, <3>1, <3>2, <4>1
    <3>4. main # <<>> /\ Head(main).id = id
      BY <1>5, <3>3
    <3> QED
      BY <1>8, <3>4 DEF CanPop
  <2>2. CASE id \notin pinMain
    <3>1. id \in L
      BY <1>12, <2>2 DEF L
    <3> QED
      BY <1>7, <1>8, <3>1 DEF CanPop
  <2> QED
    BY <2>1, <2>2
<1> QED
  BY <1>6, <1>7, <1>8, <1>9, <1>10, <1>11, <1>12

-----------------------------------------------------------------------------
(* The queue's history: what it was before every answer that can still be  *)
(* taken back, and will be after every one that can be given again         *)

\* The queues are never dropped under a card that is shown.
Guarded == "dropShown" \notin Background

\* Every learning card has been answered before, so they are queued as they are due,
\* and the queue is not built again under a card that is shown: not on purpose, not
\* for new reviews while the counts are read, and not for a new day.
Ordered ==
    /\ Previewed = {} /\ "rebuild" \notin Background
    /\ "peek" \in Background => Guarded /\ "deferred" \notin Background /\ MaxTime < DayLength

\* No other of the learning cards is due before e.
Foremost(e, learn) == \A f \in learn : e.due <= f.due

\* The step that leads from moment k to moment k - 1; moment 0 is now.
StepAt(us, rs, k) == IF k > 0 THEN us[k] ELSE rs[Len(rs) + k]

\* The step patched the queue built at b.
Mine(s, b) == s.update # NoUpdate /\ s.update.build = b

\* Step s leads from m1 to m0: on the queue built at b it is patched, otherwise it stays.
Led(m0, s, m1, b, now) ==
    /\ Mine(s, b) => /\ Linked(m0, s.update, m1) /\ s.update.snapshot.cutoff <= now
                     /\ Guarded => Counted1(s.update, m1)
                                   /\ \A x \in Cards : x # s.id => m0.cards[x] = m1.cards[x]
                     /\ Ordered /\ s.update.entry.kind = "Learning" => Foremost(s.update.entry, m0.learn)
    /\ ~Mine(s, b) => m0 = m1

\* A step keeps the card as the other side of it has it.
Kept(h, s, k, b) ==
    Guarded /\ Mine(s, b) => /\ k > 0 => s.was = h[k].cards[s.id]
                             /\ k <= 0 => s.was = h[k - 1].cards[s.id]

\* What is true of every moment of a queue built on a day
Sound(m, day) == Orderly(m.main, m.learn) /\ (Guarded => Fresh(m) /\ KeptOn(m, day))

\* h is the history of queue q with cards cs, undo steps us and redo steps rs.
History(h, q, cs, us, rs, now) ==
    /\ h \in [(0 - Len(rs))..Len(us) -> Moment]
    /\ Holds(q, h[0]) /\ (Guarded => h[0].cards = cs)
    /\ \A k \in (0 - Len(rs))..Len(us) : Sound(h[k], q.day)
    /\ \A k \in (1 - Len(rs))..Len(us) : /\ Led(h[k], StepAt(us, rs, k), h[k - 1], q.build, now)
                                         /\ Kept(h, StepAt(us, rs, k), k, q.build)

\* The steps are of whole numbers.
LEMMA StepNumbers ==
    ASSUME NEW us \in Seq(Step), NEW rs \in Seq(Step)
    PROVE  /\ Len(us) \in Nat /\ Len(rs) \in Nat
           /\ \A k \in (1 - Len(rs))..Len(us) : StepAt(us, rs, k) \in Step
<1>1. ASSUME NEW k \in (1 - Len(rs))..Len(us) PROVE StepAt(us, rs, k) \in Step
  <2>1. CASE k > 0
    BY <2>1 DEF StepAt
  <2>2. CASE ~(k > 0)
    <3>1. Len(rs) + k \in 1..Len(rs)
      BY <2>2
    <3> QED
      BY <2>2, <3>1 DEF StepAt
  <2> QED
    BY <2>1, <2>2
<1> QED
  BY <1>1

LEMMA StepTimes == ASSUME NEW s \in Step, s.update # NoUpdate
                   PROVE  s.update \in QueueUpdate /\ s.update.snapshot.cutoff \in Nat
<1>1. s.update \in QueueUpdate
  BY DEF Step
<1>2. s.update.snapshot.cutoff \in Time
  BY <1>1, UpdateFields
<1> QED
  BY <1>1, <1>2, Numbers

\* Time passes, the cutoff and the counts move: the history stays.
LEMMA HistoryStays ==
    ASSUME NEW us \in Seq(Step), NEW rs \in Seq(Step), NEW h, NEW q, NEW cs, NEW now \in Nat,
           History(h, q, cs, us, rs, now),
           NEW r, r.main = q.main, r.learning = q.learning, r.day = q.day, r.build = q.build,
           NEW later \in Nat, now <= later
    PROVE  History(h, r, cs, us, rs, later)
<1>1. \A k \in (1 - Len(rs))..Len(us) : StepAt(us, rs, k) \in Step
  BY StepNumbers
<1>2. ASSUME NEW k \in (1 - Len(rs))..Len(us)
      PROVE  Led(h[k], StepAt(us, rs, k), h[k - 1], r.build, later)
  <2> DEFINE s == StepAt(us, rs, k)
  <2>1. Led(h[k], s, h[k - 1], q.build, now)
    BY DEF History
  <2>2. s.update # NoUpdate => s.update.snapshot.cutoff \in Nat
    BY <1>1, StepTimes
  <2> HIDE DEF s
  <2>3. Led(h[k], s, h[k - 1], r.build, later)
    BY <2>1, <2>2 DEF Led, Mine
  <2> QED
    BY <2>3 DEF s
<1> QED
  BY <1>2 DEF History, Holds

\* A queue just built: no step was made on it.
LEMMA HistoryStarts ==
    ASSUME NEW us \in Seq(Step), NEW rs \in Seq(Step), NEW q \in CardQueues, NEW cs \in [Cards -> CardRecord],
           NEW now, \A k \in (1 - Len(rs))..Len(us) : ~Mine(StepAt(us, rs, k), q.build),
           Sound(MomentOf(q, cs), q.day)
    PROVE  \E h : History(h, q, cs, us, rs, now)
<1> DEFINE m == MomentOf(q, cs)
           h == [k \in (0 - Len(rs))..Len(us) |-> m]
<1>1. Len(us) \in Nat /\ Len(rs) \in Nat
  BY StepNumbers
<1>2. m.main = q.main /\ m.learn = Range(q.learning) /\ m.cards = cs /\ Holds(q, m)
  BY MomentFields
<1>3. m \in Moment
  <2>1. q.main \in Seq(MainEntry) /\ Range(q.learning) \subseteq LearningEntry
    BY QueueFields, RangeFinite
  <2> QED
    BY <2>1 DEF MomentOf, Moment
<1> HIDE DEF m
<1>4. h \in [(0 - Len(rs))..Len(us) -> Moment] /\ \A k \in (0 - Len(rs))..Len(us) : h[k] = m
  BY <1>3
<1> HIDE DEF h
<1>5. 0 \in (0 - Len(rs))..Len(us)
  BY <1>1
<1>6. \A k \in (1 - Len(rs))..Len(us) : k \in (0 - Len(rs))..Len(us) /\ k - 1 \in (0 - Len(rs))..Len(us)
  BY <1>1
<1>7. Sound(m, q.day)
  BY DEF m
<1>8. History(h, q, cs, us, rs, now)
  BY <1>2, <1>4, <1>5, <1>6, <1>7 DEF History, Led, Kept
<1> QED
  BY <1>8

\* An answer adds the moment after it; nothing can be given again.
LEMMA HistoryAnswers ==
    ASSUME NEW us \in Seq(Step), NEW rs \in Seq(Step), NEW h, NEW q \in CardQueues, NEW cs \in [Cards -> CardRecord],
           NEW now \in Nat, History(h, q, cs, us, rs, now),
           NEW s \in Step, Mine(s, q.build), s.was = cs[s.id], s.update.snapshot.cutoff <= now,
           NEW r \in CardQueues, r.day = q.day, r.build = q.build, NEW ds \in [Cards -> CardRecord],
           \A x \in Cards : x # s.id => ds[x] = cs[x],
           Linked(h[0], s.update, MomentOf(r, ds)), Guarded => Counted1(s.update, MomentOf(r, ds)),
           Ordered /\ s.update.entry.kind = "Learning" => Foremost(s.update.entry, h[0].learn),
           Sound(MomentOf(r, ds), q.day)
    PROVE  \E g : History(g, r, ds, <<s>> \o us, <<>>, now)
<1> DEFINE m == MomentOf(r, ds)
           vs == <<s>> \o us
           N  == 0..(Len(us) + 1)
           g  == [k \in N |-> IF k = 0 THEN m ELSE h[k - 1]]
<1>1. Len(us) \in Nat /\ Len(rs) \in Nat
  BY StepNumbers
<1>2. m.main = r.main /\ m.learn = Range(r.learning) /\ m.cards = ds /\ Holds(r, m)
  BY MomentFields
<1>3. m \in Moment
  <2>1. r.main \in Seq(MainEntry) /\ Range(r.learning) \subseteq LearningEntry
    BY QueueFields, RangeFinite
  <2> QED
    BY <2>1 DEF MomentOf, Moment
<1>4. /\ vs \in Seq(Step) /\ Len(vs) = Len(us) + 1 /\ vs[1] = s /\ \A i \in 1..Len(us) : vs[i + 1] = us[i]
  BY ConsFacts
<1>5. /\ Sound(m, r.day) /\ Linked(h[0], s.update, m) /\ (Guarded => Counted1(s.update, m))
      /\ Ordered /\ s.update.entry.kind = "Learning" => Foremost(s.update.entry, h[0].learn)
  OBVIOUS
<1> HIDE DEF m, vs
<1>6. /\ \A k \in (0 - Len(rs))..Len(us) : h[k] \in Moment /\ Sound(h[k], q.day)
      /\ Guarded => h[0].cards = cs
  BY DEF History
<1>7. g \in [N -> Moment] /\ g[0] = m /\ \A k \in 1..(Len(us) + 1) : g[k] = h[k - 1]
  <2>1. \A k \in N : k # 0 => k - 1 \in (0 - Len(rs))..Len(us)
    BY <1>1
  <2>2. \A k \in N : g[k] \in Moment
    BY <1>3, <1>6, <2>1
  <2>3. 0 \in N /\ \A k \in 1..(Len(us) + 1) : k \in N /\ k # 0
    BY <1>1
  <2> QED
    BY <2>2, <2>3
<1> HIDE DEF g
<1>8. \A k \in N : Sound(g[k], r.day)
  <2> TAKE k \in N
  <2>1. CASE k = 0
    BY <1>5, <1>7, <2>1
  <2>2. CASE k # 0
    <3>1. k - 1 \in (0 - Len(rs))..Len(us) /\ k \in 1..(Len(us) + 1)
      BY <1>1, <2>2
    <3> QED
      BY <1>6, <1>7, <3>1
  <2> QED
    BY <2>1, <2>2
<1>9. ASSUME NEW k \in 1..(Len(us) + 1)
      PROVE  Led(g[k], StepAt(vs, <<>>, k), g[k - 1], r.build, now) /\ Kept(g, StepAt(vs, <<>>, k), k, r.build)
  <2>1. CASE k = 1
    <3>1. StepAt(vs, <<>>, k) = s /\ g[k] = h[0] /\ g[k - 1] = m
      BY <1>1, <1>4, <1>7, <2>1 DEF StepAt
    <3>2. Led(h[0], s, m, r.build, now)
      BY <1>2, <1>5, <1>6 DEF Led, Mine
    <3>3. Kept(g, s, k, r.build)
      BY <1>6, <2>1, <3>1 DEF Kept
    <3> QED
      BY <3>1, <3>2, <3>3
  <2>2. CASE k # 1
    <3>1. /\ k - 1 \in 1..Len(us) /\ k - 1 \in (1 - Len(rs))..Len(us) /\ k - 1 \in 1..(Len(us) + 1)
          /\ (k - 1) + 1 = k
      BY <1>1, <2>2
    <3>2. StepAt(vs, <<>>, k) = StepAt(us, rs, k - 1)
      BY <1>1, <1>4, <3>1 DEF StepAt
    <3>3. g[k] = h[k - 1] /\ g[k - 1] = h[(k - 1) - 1]
      BY <1>7, <3>1
    <3> DEFINE j  == k - 1
               s1 == StepAt(us, rs, j)
    <3>4. Led(h[j], s1, h[j - 1], q.build, now) /\ Kept(h, s1, j, q.build) /\ j > 0 /\ k > 0
      <4>1. j \in (1 - Len(rs))..Len(us) /\ j > 0 /\ k > 0
        BY <3>1
      <4> HIDE DEF j
      <4> QED
        BY <4>1 DEF History
    <3>5. Kept(g, s1, k, r.build)
      <4> HIDE DEF s1
      <4> QED
        BY <3>3, <3>4 DEF Kept
    <3> QED
      BY <3>2, <3>3, <3>4, <3>5
  <2> QED
    BY <2>1, <2>2
<1>10. Len(<<>>) = 0 /\ 0 - 0 = 0 /\ 1 - 0 = 1
  OBVIOUS
<1>11. History(g, r, ds, vs, <<>>, now)
  BY <1>2, <1>4, <1>7, <1>8, <1>9, <1>10 DEF History
<1> QED
  BY <1>11 DEF vs

\* The step recorded when step s is taken back or given again
Turned(s, cs) == [s EXCEPT !.was = cs[s.id]]

\* Taking an answer back moves to the moment before it.
LEMMA HistoryUndoes ==
    ASSUME NEW us \in Seq(Step), us # <<>>, NEW rs \in Seq(Step), NEW h, NEW q \in CardQueues,
           NEW cs \in [Cards -> CardRecord], NEW now \in Nat, History(h, q, cs, us, rs, now),
           Guarded => Mine(Head(us), q.build),
           NEW r, r.day = q.day, r.build = q.build, Holds(r, h[1])
    PROVE  \E g : History(g, r, [cs EXCEPT ![Head(us).id] = Head(us).was], Tail(us), Append(rs, Turned(Head(us), cs)), now)
<1> DEFINE s  == Head(us)
           t  == Turned(s, cs)
           vs == Tail(us)
           ws == Append(rs, t)
           ds == [cs EXCEPT ![s.id] = s.was]
           lu == Len(us)
           lr == Len(rs)
           N  == (0 - (lr + 1))..(lu - 1)
           g  == [k \in N |-> h[k + 1]]
<1>1. lu \in Nat /\ lr \in Nat /\ lu > 0
  BY StepNumbers
<1>2. s \in Step /\ s = us[1] /\ vs \in Seq(Step) /\ Len(vs) = lu - 1 /\ \A i \in 1..(lu - 1) : vs[i] = us[i + 1]
  BY HeadTail
<1>3. t.update = s.update /\ t.id = s.id /\ t.was = cs[s.id] /\ s.id \in Cards /\ s.was \in CardRecord
  BY <1>2 DEF Step, Turned
<1>4. Len(ws) = lr + 1 /\ ws[lr + 1] = t /\ \A i \in 1..lr : ws[i] = rs[i]
  BY <1>1
<1>5. \A k \in (0 - lr)..lu : h[k] \in Moment /\ Sound(h[k], q.day)
  BY DEF History
<1>6. \A k \in (1 - lr)..lu : /\ Led(h[k], StepAt(us, rs, k), h[k - 1], q.build, now)
                               /\ Kept(h, StepAt(us, rs, k), k, q.build)
  BY DEF History
<1>7. /\ Guarded => h[0].cards = cs
      /\ Guarded => h[1].cards = ds
  <2>1. 1 \in (1 - lr)..lu /\ StepAt(us, rs, 1) = s
    BY <1>1, <1>2 DEF StepAt
  <2>2. Led(h[1], s, h[0], q.build, now) /\ Kept(h, s, 1, q.build)
    <3>1. 1 - 1 = 0
      OBVIOUS
    <3> QED
      BY <1>6, <2>1, <3>1
  <2>3. Guarded => h[0].cards = cs
    BY DEF History
  <2>4. ASSUME Guarded PROVE h[1].cards = ds
    <3>1. 1 \in (0 - lr)..lu
      BY <1>1
    <3>2. DOMAIN h[1].cards = Cards /\ h[1].cards = [x \in Cards |-> h[1].cards[x]]
      BY <1>5, <3>1 DEF Moment
    <3>3. \A x \in Cards : h[1].cards[x] = ds[x]
      BY <1>3, <2>2, <2>3, <2>4 DEF Led, Kept
    <3>4. ds = [x \in Cards |-> ds[x]]
      OBVIOUS
    <3> HIDE DEF ds
    <3> QED
      BY <3>2, <3>3, <3>4
  <2> QED
    BY <2>3, <2>4
<1>8. g \in [N -> Moment] /\ \A k \in N : g[k] = h[k + 1]
  BY <1>1, <1>5
<1> HIDE DEF g, t, vs, ws, ds, s
<1>9. \A k \in N : Sound(g[k], r.day)
  BY <1>1, <1>5, <1>8
<1>10. ASSUME NEW k \in (0 - lr)..(lu - 1)
       PROVE  Led(g[k], StepAt(vs, ws, k), g[k - 1], r.build, now) /\ Kept(g, StepAt(vs, ws, k), k, r.build)
  <2>1. k + 1 \in (1 - lr)..lu /\ k \in N /\ k - 1 \in N /\ (k - 1) + 1 = k /\ (k + 1) - 1 = k
    BY <1>1
  <2>2. g[k] = h[k + 1] /\ g[k - 1] = h[k]
    BY <1>8, <2>1
  <2> DEFINE j  == k + 1
             s1 == StepAt(us, rs, j)
             s2 == StepAt(vs, ws, k)
  <2>3. Led(h[j], s1, h[k], q.build, now) /\ Kept(h, s1, j, q.build) /\ j - 1 = k
    BY <1>6, <2>1
  <2>4. CASE k = 0
    <3>1. s2 = t /\ s1 = s
      BY <1>1, <1>2, <1>4, <2>4 DEF StepAt
    <3> HIDE DEF s1, s2
    <3>2. Led(g[k], s2, g[k - 1], r.build, now)
      BY <1>3, <2>2, <2>3, <3>1 DEF Led, Mine, Counted1
    <3>3. Kept(g, s2, k, r.build)
      BY <1>3, <1>7, <2>2, <2>4, <3>1 DEF Kept
    <3> QED
      BY <3>2, <3>3 DEF s2
  <2>5. CASE k # 0
    <3>1. s2 = s1 /\ (k > 0 <=> j > 0)
      <4>1. CASE k > 0
        BY <1>1, <1>2, <2>1, <4>1 DEF StepAt
      <4>2. CASE k < 0
        <5>1. Len(ws) + k = Len(rs) + j /\ Len(rs) + j \in 1..lr /\ ~(j > 0) /\ ~(k > 0)
          BY <1>1, <1>4, <4>2
        <5> QED
          BY <1>4, <5>1 DEF StepAt
      <4> QED
        BY <2>5, <4>1, <4>2
    <3> HIDE DEF s1, s2
    <3>2. Led(g[k], s2, g[k - 1], r.build, now)
      BY <2>2, <2>3, <3>1
    <3>3. Kept(g, s2, k, r.build)
      BY <2>2, <2>3, <3>1 DEF Kept
    <3> QED
      BY <3>2, <3>3 DEF s2
  <2> QED
    BY <2>4, <2>5
<1>11. 0 \in N /\ g[0] = h[1] /\ 0 - Len(ws) = 0 - (lr + 1) /\ 1 - Len(ws) = 0 - lr
  BY <1>1, <1>4, <1>8
<1>12. History(g, r, ds, vs, ws, now)
  BY <1>2, <1>7, <1>8, <1>9, <1>10, <1>11 DEF History
<1> QED
  BY <1>12 DEF ds, vs, ws, t, s

LEMMA FrontOf ==
    ASSUME NEW S, NEW s \in Seq(S), s # <<>>
    PROVE  /\ Front(s) \in Seq(S) /\ Len(Front(s)) = Len(s) - 1
           /\ \A i \in 1..(Len(s) - 1) : Front(s)[i] = s[i]
<1> DEFINE n == Len(s) - 1
<1>1. n \in Nat /\ n <= Len(s)
  OBVIOUS
<1>2. Front(s) = SubSeq(s, 1, n)
  BY DEF Front
<1> HIDE DEF n
<1>3. \A i \in 1..n : s[i] \in S
  BY <1>1
<1>4. /\ SubSeq(s, 1, n) \in Seq(S) /\ Len(SubSeq(s, 1, n)) = n
      /\ \A i \in 1..n : SubSeq(s, 1, n)[i] = s[i]
  BY <1>1, <1>3
<1> QED
  BY <1>2, <1>4 DEF n

\* Giving an answer again moves to the moment after it.
LEMMA HistoryRedoes ==
    ASSUME NEW us \in Seq(Step), NEW rs \in Seq(Step), rs # <<>>, NEW h, NEW q \in CardQueues,
           NEW cs \in [Cards -> CardRecord], NEW now \in Nat, History(h, q, cs, us, rs, now),
           Guarded => Mine(Last(rs), q.build),
           NEW r, r.day = q.day, r.build = q.build, Holds(r, h[0 - 1])
    PROVE  \E g : History(g, r, [cs EXCEPT ![Last(rs).id] = Last(rs).was],
                          <<Turned(Last(rs), cs)>> \o us, Front(rs), now)
<1> DEFINE s  == Last(rs)
           t  == Turned(s, cs)
           vs == <<t>> \o us
           ws == Front(rs)
           ds == [cs EXCEPT ![s.id] = s.was]
           lu == Len(us)
           lr == Len(rs)
           N  == (0 - (lr - 1))..(lu + 1)
           g  == [k \in N |-> h[k - 1]]
<1>1. lu \in Nat /\ lr \in Nat /\ lr > 0
  BY StepNumbers
<1>2. s \in Step /\ s = rs[lr] /\ Len(ws) = lr - 1 /\ \A i \in 1..(lr - 1) : ws[i] = rs[i]
  <2>1. s = rs[lr] /\ lr \in 1..lr
    BY <1>1 DEF Last
  <2>2. s \in Step
    BY <2>1
  <2>3. Len(ws) = lr - 1 /\ \A i \in 1..(lr - 1) : ws[i] = rs[i]
    BY FrontOf
  <2> QED
    BY <2>1, <2>2, <2>3
<1>3. t.update = s.update /\ t.id = s.id /\ t.was = cs[s.id] /\ s.id \in Cards /\ s.was \in CardRecord /\ t \in Step
  <2>1. cs[s.id] \in CardRecord
    BY <1>2 DEF Step
  <2> QED
    BY <1>2, <2>1 DEF Step, Turned
<1> HIDE DEF t
<1>4. Len(vs) = lu + 1 /\ vs[1] = t /\ \A i \in 1..lu : vs[i + 1] = us[i]
  BY <1>3, ConsFacts
<1>5. \A k \in (0 - lr)..lu : h[k] \in Moment /\ Sound(h[k], q.day)
  BY DEF History
<1>6. \A k \in (1 - lr)..lu : /\ Led(h[k], StepAt(us, rs, k), h[k - 1], q.build, now)
                               /\ Kept(h, StepAt(us, rs, k), k, q.build)
  BY DEF History
<1>7. /\ Guarded => h[0].cards = cs
      /\ Guarded => h[0 - 1].cards = ds
  <2>1. 0 \in (1 - lr)..lu /\ StepAt(us, rs, 0) = s
    BY <1>1, <1>2 DEF StepAt
  <2>2. Led(h[0], s, h[0 - 1], q.build, now) /\ Kept(h, s, 0, q.build)
    BY <1>6, <2>1
  <2>3. Guarded => h[0].cards = cs
    BY DEF History
  <2>4. ASSUME Guarded PROVE h[0 - 1].cards = ds
    <3>1. 0 - 1 \in (0 - lr)..lu
      BY <1>1
    <3>2. DOMAIN h[0 - 1].cards = Cards /\ h[0 - 1].cards = [x \in Cards |-> h[0 - 1].cards[x]]
      BY <1>5, <3>1 DEF Moment
    <3>3. \A x \in Cards : h[0 - 1].cards[x] = ds[x]
      BY <1>3, <2>2, <2>3, <2>4 DEF Led, Kept
    <3>4. ds = [x \in Cards |-> ds[x]]
      OBVIOUS
    <3> HIDE DEF ds
    <3> QED
      BY <3>2, <3>3, <3>4
  <2> QED
    BY <2>3, <2>4
<1>8. g \in [N -> Moment] /\ \A k \in N : g[k] = h[k - 1]
  BY <1>1, <1>5
<1> HIDE DEF g, vs, ws, ds, s
<1>9. \A k \in N : Sound(g[k], r.day)
  BY <1>1, <1>5, <1>8
<1>10. ASSUME NEW k \in (1 - (lr - 1))..(lu + 1)
       PROVE  Led(g[k], StepAt(vs, ws, k), g[k - 1], r.build, now) /\ Kept(g, StepAt(vs, ws, k), k, r.build)
  <2>1. k - 1 \in (1 - lr)..lu /\ k \in N /\ k - 1 \in N
    BY <1>1
  <2> DEFINE j  == k - 1
             s1 == StepAt(us, rs, j)
             s2 == StepAt(vs, ws, k)
  <2>2. g[k] = h[j] /\ g[k - 1] = h[j - 1]
    BY <1>8, <2>1
  <2>3. Led(h[j], s1, h[j - 1], q.build, now) /\ Kept(h, s1, j, q.build)
    <3>1. j \in (1 - lr)..lu
      BY <2>1
    <3> HIDE DEF j
    <3> QED
      BY <1>6, <3>1
  <2>4. CASE k = 1
    <3>1. s2 = t /\ s1 = s
      BY <1>1, <1>2, <1>4, <2>4 DEF StepAt
    <3>2. j = 0 /\ h[j] = h[0]
      BY <2>4
    <3> HIDE DEF s1, s2, j
    <3>3. Led(g[k], s2, g[k - 1], r.build, now)
      BY <1>3, <2>2, <2>3, <3>1 DEF Led, Mine, Counted1
    <3>4. Kept(g, s2, k, r.build)
      BY <1>3, <1>7, <2>2, <2>4, <3>1, <3>2 DEF Kept
    <3> QED
      BY <3>3, <3>4 DEF s2
  <2>5. CASE k # 1
    <3>1. j \in Int /\ k \in Int
      BY <1>1, <2>1
    <3>2. s2 = s1 /\ (k > 0 <=> j > 0)
      <4>1. CASE k > 1
        <5>1. k > 0 /\ j > 0 /\ j \in 1..lu /\ j + 1 = k
          BY <1>1, <2>1, <4>1
        <5> HIDE DEF j
        <5> QED
          BY <1>4, <5>1 DEF StepAt
      <4>2. CASE k < 1
        <5>1. Len(ws) + k = Len(rs) + j /\ Len(ws) + k \in 1..(lr - 1) /\ ~(j > 0) /\ ~(k > 0)
          BY <1>1, <1>2, <4>2
        <5> QED
          BY <1>2, <5>1 DEF StepAt
      <4> QED
        BY <2>5, <4>1, <4>2
    <3> HIDE DEF s1, s2, j
    <3>3. Led(g[k], s2, g[k - 1], r.build, now)
      BY <2>2, <2>3, <3>2
    <3>4. Kept(g, s2, k, r.build)
      BY <2>2, <2>3, <3>1, <3>2 DEF Kept
    <3> QED
      BY <3>3, <3>4 DEF s2
  <2> QED
    BY <2>4, <2>5
<1>11. 0 \in N /\ g[0] = h[0 - 1] /\ 0 - Len(ws) = 0 - (lr - 1) /\ 1 - Len(ws) = 1 - (lr - 1)
  BY <1>1, <1>2, <1>8
<1>12. History(g, r, ds, vs, ws, now)
  BY <1>4, <1>7, <1>8, <1>9, <1>10, <1>11 DEF History
<1> QED
  BY <1>12 DEF ds, vs, ws, s, t

-----------------------------------------------------------------------------
(* The invariant                                                           *)

\* The state keeps its type.
Typed ==
    /\ card \in [Cards -> CardRecord] /\ queues \in CardQueues \cup {NoQueues}
    /\ undoSteps \in Seq(Step) /\ redoSteps \in Seq(Step) /\ Len(undoSteps) + Len(redoSteps) <= MaxSteps
    /\ shown \in Cards \cup {NoCard} /\ clock \in Time /\ panicked \in BOOLEAN

\* A queue with a history, whose counts are those of its entries
Holding(q, cs, us, rs, now) ==
    /\ Distinct(q.learning) /\ q.cutoff <= now /\ q.day <= now \div DayLength
    /\ \E h : History(h, q, cs, us, rs, now)
    /\ Guarded => q.counts = Tally(q.main, Range(q.learning), Ahead(q))

\* Every answer was given with a queue.
Updated(us, rs) == \A s \in Range(us) \cup Range(rs) : s.kind = "AnswerCard" => s.update # NoUpdate

\* The card shown has a queue; as a learning card it is due by the learn-ahead time.
Showing(id, q, cs, now) ==
    id # NoCard => /\ q # NoQueues
                   /\ cs[id].queue = "Learn" => cs[id].due <= now + LearnAhead
                   /\ \A e \in Range(q.learning) : e.id = id => e.due <= Ahead(q)

\* The invariant of the history
HInv ==
    /\ Typed
    /\ queues # NoQueues => Holding(queues, card, undoSteps, redoSteps, clock)
    /\ Guarded => Updated(undoSteps, redoSteps) /\ Showing(shown, queues, card, clock)

\* The card shown, as a learning card, is the first one due.
ShownFirst(id, q) == \A e \in Range(q.learning) : e.id = id => Foremost(e, Range(q.learning))

\* Every learning card has been answered before, by the step that took it, too.
AllTried(learning) == \A e \in Range(learning) : e.tried
CardsTried(cs)     == \A id \in Cards : cs[id].queue = "Learn" => cs[id].tried

TriedStep(s) ==
    /\ s.was.queue = "Learn" => s.was.tried
    /\ s.update # NoUpdate => /\ s.update.entry.kind = "Learning" => s.update.entry.tried
                              /\ s.update.requeue # NoEntry => s.update.requeue.tried

StepsTried(us, rs) == \A s \in Range(us) \cup Range(rs) : TriedStep(s)

\* The learning cards of queue q stand in line, the card shown in front.
InLine(q, id) ==
    /\ InOrder(q.learning) /\ AllTried(q.learning)
    /\ id # NoCard => ShownFirst(id, q)

\* The invariant of the order
Lined ==
    /\ CardsTried(card) /\ StepsTried(undoSteps, redoSteps)
    /\ queues # NoQueues => InLine(queues, shown)

\* The inductive invariant
IInv == HInv /\ (Ordered => Lined)

LEMMA MomentNow ==
    ASSUME NEW us \in Seq(Step), NEW rs \in Seq(Step), NEW h, NEW q \in CardQueues,
           NEW cs \in [Cards -> CardRecord], NEW now, History(h, q, cs, us, rs, now)
    PROVE  /\ h[0] \in Moment /\ Holds(q, h[0]) /\ Orderly(q.main, Range(q.learning))
           /\ Guarded => Fresh(MomentOf(q, cs)) /\ KeptOn(MomentOf(q, cs), q.day) /\ h[0].cards = cs
<1>1. Len(us) \in Nat /\ Len(rs) \in Nat
  BY StepNumbers
<1>2. 0 \in (0 - Len(rs))..Len(us)
  BY <1>1
<1>3. h[0] \in Moment /\ Sound(h[0], q.day) /\ Holds(q, h[0]) /\ (Guarded => h[0].cards = cs)
  BY <1>2 DEF History
<1>4. Orderly(q.main, Range(q.learning))
  BY <1>3 DEF Sound, Holds
<1>5. ASSUME Guarded PROVE Fresh(MomentOf(q, cs)) /\ KeptOn(MomentOf(q, cs), q.day)
  <2> DEFINE m == MomentOf(q, cs)
  <2>1. m.main = h[0].main /\ m.learn = h[0].learn /\ m.cards = h[0].cards
    BY <1>3, <1>5, MomentFields DEF Holds
  <2>2. Fresh(h[0]) /\ KeptOn(h[0], q.day)
    BY <1>3, <1>5 DEF Sound
  <2> HIDE DEF m
  <2>3. Fresh(m) /\ KeptOn(m, q.day)
    BY <2>1, <2>2 DEF Fresh, KeptOn
  <2> QED
    BY <2>3 DEF m
<1> QED
  BY <1>3, <1>4, <1>5

\* A queue just built holds, whether or not steps are left from before.
LEMMA BuiltHolds ==
    ASSUME Typed, NEW cs \in [Cards -> CardRecord], NEW pinned \in SUBSET Cards, \A id \in pinned : cs[id].at = "deck",
           NEW q \in BuiltQueues(cs, pinned), NEW us, NEW rs,
           (us = undoSteps /\ rs = redoSteps) \/ (us = <<>> /\ rs = <<>>)
    PROVE  Holding(q, cs, us, rs, clock)
<1>1. NewBuild \in Builds /\ NewBuild \notin UsedBuilds
  BY NewBuildIsNew DEF Typed
<1>2. clock \in Time
  BY DEF Typed
<1>3. /\ q \in CardQueues /\ Distinct(q.learning) /\ Orderly(q.main, Range(q.learning))
      /\ q.cutoff = clock /\ q.day = Day /\ q.build = NewBuild
      /\ q.counts = Tally(q.main, Range(q.learning), Ahead(q))
      /\ Fresh(MomentOf(q, cs)) /\ KeptOn(MomentOf(q, cs), Day)
  BY <1>2, <1>1, BuiltFacts
<1>4. us \in Seq(Step) /\ rs \in Seq(Step)
  <2>1. undoSteps \in Seq(Step) /\ redoSteps \in Seq(Step) /\ <<>> \in Seq(Step)
    BY DEF Typed
  <2> QED
    BY <2>1
<1>5. ASSUME NEW k \in (1 - Len(rs))..Len(us) PROVE ~Mine(StepAt(us, rs, k), q.build)
  <2>1. us = undoSteps /\ rs = redoSteps /\ Len(us) \in Nat /\ Len(rs) \in Nat
    <3>1. CASE us = <<>> /\ rs = <<>>
      <4>1. Len(us) = 0 /\ Len(rs) = 0
        BY <3>1
      <4> QED
        BY <1>5, <4>1
    <3> QED
      BY <1>4, <3>1
  <2>2. StepAt(us, rs, k) \in Range(undoSteps) \cup Range(redoSteps)
    <3>1. CASE k > 0
      <4>1. k \in DOMAIN undoSteps
        BY <1>4, <2>1, <3>1
      <4> QED
        BY <2>1, <3>1, <4>1 DEF StepAt, Range
    <3>2. CASE ~(k > 0)
      <4>1. Len(rs) + k \in DOMAIN redoSteps
        BY <1>4, <2>1, <3>2
      <4> QED
        BY <2>1, <3>2, <4>1 DEF StepAt, Range
    <3> QED
      BY <3>1, <3>2
  <2>3. q.build \notin UsedBuilds
    BY <1>1, <1>3
  <2> QED
    BY <2>2, <2>3 DEF UsedBuilds, Mine
<1>6. Sound(MomentOf(q, cs), q.day)
  BY <1>3, MomentFields DEF Sound
<1>7. \E h : History(h, q, cs, us, rs, clock)
  BY <1>3, <1>4, <1>5, <1>6, HistoryStarts
<1>8. q.cutoff <= clock /\ q.day <= clock \div DayLength
  <2>1. clock \in Nat
    BY <1>2, Numbers
  <2>2. Day \in Nat /\ Day = clock \div DayLength
    BY <2>1, DayGrows DEF Day
  <2> QED
    BY <1>3, <2>1, <2>2
<1> QED
  BY <1>3, <1>7, <1>8 DEF Holding

LEMMA UnburiedFacts ==
    ASSUME card \in [Cards -> CardRecord]
    PROVE  /\ CardsToday \in [Cards -> CardRecord] /\ Unburied \in [Cards -> CardRecord]
           /\ \A id \in Cards : /\ CardsToday[id].queue = card[id].queue /\ CardsToday[id].due = card[id].due
                                /\ CardsToday[id].mtime = card[id].mtime
                                /\ card[id].at = "deck" => CardsToday[id].at = "deck"
           /\ ~DayChanged => CardsToday = card
<1>1. ASSUME NEW id \in Cards
      PROVE  /\ Unburied[id] \in CardRecord /\ Unburied[id].queue = card[id].queue /\ Unburied[id].due = card[id].due
             /\ Unburied[id].mtime = card[id].mtime /\ (card[id].at = "deck" => Unburied[id].at = "deck")
  <2>1. card[id] \in CardRecord
    OBVIOUS
  <2>2. CASE card[id].at = "buried"
    <3>1. Unburied[id] = [card[id] EXCEPT !.at = "deck"]
      BY <2>2 DEF Unburied
    <3> QED
      BY <2>1, <2>2, <3>1 DEF CardRecord
  <2>3. CASE card[id].at # "buried"
    BY <2>1, <2>3 DEF Unburied
  <2> QED
    BY <2>2, <2>3
<1>2. Unburied \in [Cards -> CardRecord]
  <2>1. Unburied = [id \in Cards |-> Unburied[id]]
    BY DEF Unburied
  <2> QED
    BY <1>1, <2>1
<1> QED
  BY <1>1, <1>2 DEF CardsToday

\* counts() leaves the queue's history, and the counts right.
LEMMA CountedHolds ==
    ASSUME Typed, NEW q \in CardQueues, NEW cs \in [Cards -> CardRecord], NEW us \in Seq(Step), NEW rs \in Seq(Step),
           Holding(q, cs, us, rs, clock)
    PROVE  LET r == Counted(q) IN
           /\ Holding(r, cs, us, rs, clock) /\ r \in CardQueues
           /\ r.main = q.main /\ r.learning = q.learning /\ r.build = q.build /\ Ahead(q) <= Ahead(r)
           /\ Ahead(r) <= clock + LearnAhead /\ Ahead(q) \in Nat /\ Ahead(r) \in Nat
<1> DEFINE r == Counted(q)
<1>1. PICK h : History(h, q, cs, us, rs, clock)
  BY DEF Holding
<1>2. Distinct(q.main)
  BY <1>1, MomentNow DEF Orderly
<1>3. clock \in Time /\ clock \in Nat /\ LearnAhead \in Nat
  BY Numbers DEF Typed
<1>4. /\ r \in CardQueues /\ r.main = q.main /\ r.learning = q.learning
      /\ r.cutoff \in Time /\ q.cutoff <= r.cutoff /\ r.cutoff <= clock /\ r.day = q.day /\ r.build = q.build
      /\ q.counts = Tally(q.main, Range(q.learning), Ahead(q)) =>
           r.counts = Tally(r.main, Range(r.learning), Ahead(r))
  BY <1>2, <1>3, CountedFacts DEF Holding
<1> HIDE DEF r
<1>5. History(h, r, cs, us, rs, clock)
  <2>1. clock <= clock
    BY <1>3
  <2> QED
    BY <1>1, <1>3, <1>4, <2>1, HistoryStays
<1>6. Holding(r, cs, us, rs, clock)
  BY <1>4, <1>5 DEF Holding
<1>7. Ahead(q) <= Ahead(r) /\ Ahead(r) <= clock + LearnAhead /\ Ahead(q) \in Nat /\ Ahead(r) \in Nat
  <2>1. q.cutoff \in Time
    BY QueueFields
  <2>2. q.cutoff \in Nat /\ r.cutoff \in Nat
    BY <1>4, <2>1, Numbers
  <2> QED
    BY <1>3, <1>4, <2>2 DEF Ahead
<1> QED
  BY <1>4, <1>6, <1>7 DEF r

\* The steps that are left when a queue is asked for
StepsLeft(us, rs) == (us = undoSteps /\ rs = redoSteps) \/ (us = <<>> /\ rs = <<>>)

\* What get_queues() returns holds.
LEMMA GottenHolds ==
    ASSUME HInv, NEW q \in GetQueues, NEW us, NEW rs, StepsLeft(us, rs), ~DayChanged => us = undoSteps /\ rs = redoSteps
    PROVE  /\ q \in CardQueues /\ us \in Seq(Step) /\ rs \in Seq(Step)
           /\ Holding(q, CardsToday, us, rs, clock)
           /\ \/ q = queues /\ queues # NoQueues
              \/ Ahead(q) = clock + LearnAhead /\ \A e \in Range(q.learning) : e.id \in Cards /\ e.due = card[e.id].due
<1>1. /\ CardsToday \in [Cards -> CardRecord]
      /\ \A id \in Cards : CardsToday[id].due = card[id].due
      /\ ~DayChanged => CardsToday = card
  BY UnburiedFacts DEF HInv, Typed
<1>2. us \in Seq(Step) /\ rs \in Seq(Step)
  <2>1. undoSteps \in Seq(Step) /\ redoSteps \in Seq(Step) /\ <<>> \in Seq(Step)
    BY DEF HInv, Typed
  <2> QED
    BY <2>1 DEF StepsLeft
<1>3. CASE q = queues /\ queues # NoQueues /\ ~DayChanged
  BY <1>1, <1>2, <1>3 DEF HInv, Typed
<1>4. CASE q \in BuiltQueues(CardsToday, {})
  <2>1. Typed /\ clock \in Time
    BY DEF HInv, Typed
  <2>2. Holding(q, CardsToday, us, rs, clock)
    BY <1>1, <1>4, <2>1, BuiltHolds DEF StepsLeft
  <2>3. NewBuild \in Builds
    BY NewBuildIsNew DEF HInv, Typed
  <2>4. q \in CardQueues /\ q.cutoff = clock /\ \A e \in Range(q.learning) : e.due = CardsToday[e.id].due
    BY <1>1, <1>4, <2>1, <2>3, BuiltFacts
  <2>5. \A e \in Range(q.learning) : e.id \in Cards
    BY <2>4, QueueFields, RangeFinite, EntryFacts
  <2> QED
    BY <1>1, <1>2, <2>2, <2>4, <2>5 DEF Ahead
<1> QED
  BY <1>3, <1>4 DEF GetQueues

\* The card shown stays due when the queue is counted or built again.
LEMMA ShowingStays ==
    ASSUME HInv, Guarded, NEW q \in GetQueues, NEW r \in CardQueues, r.learning = q.learning,
           q \in CardQueues, Ahead(q) <= Ahead(r), Ahead(q) \in Nat, Ahead(r) \in Nat,
           \/ q = queues /\ queues # NoQueues
           \/ Ahead(q) = clock + LearnAhead /\ \A e \in Range(q.learning) : e.id \in Cards /\ e.due = card[e.id].due,
           \A e \in Range(q.learning) : e.id \in Cards => CardsToday[e.id].queue = "Learn",
           NEW cs, \A id \in Cards : cs[id].queue = card[id].queue /\ cs[id].due = card[id].due
    PROVE  Showing(shown, r, cs, clock)
<1> SUFFICES ASSUME shown # NoCard
             PROVE  /\ r # NoQueues
                    /\ cs[shown].queue = "Learn" => cs[shown].due <= clock + LearnAhead
                    /\ \A e \in Range(r.learning) : e.id = shown => e.due <= Ahead(r)
  BY DEF Showing
<1>1. shown \in Cards
  BY DEF HInv, Typed
<1>2. Showing(shown, queues, card, clock)
  BY DEF HInv
<1>3. r # NoQueues
  BY NullAssumption
<1>4. \A id \in Cards : CardsToday[id].queue = card[id].queue
  BY UnburiedFacts DEF HInv, Typed
<1>5. ASSUME NEW e \in Range(r.learning), e.id = shown PROVE e.due <= Ahead(r)
  <2>1. e \in Range(q.learning) /\ e.due \in Nat
    <3>1. q.learning \in Seq(LearningEntry)
      BY QueueFields
    <3> QED
      BY <1>5, <3>1, RangeFinite, EntryFacts
  <2>2. e.due <= Ahead(q)
    <3>1. CASE q = queues
      BY <1>2, <1>5, <2>1, <3>1 DEF Showing
    <3>2. CASE Ahead(q) = clock + LearnAhead /\ \A f \in Range(q.learning) : f.id \in Cards /\ f.due = card[f.id].due
      <4>1. card[shown].queue = "Learn"
        BY <1>1, <1>4, <1>5, <2>1
      <4>2. card[shown].due <= clock + LearnAhead
        BY <1>2, <4>1 DEF Showing
      <4> QED
        BY <1>5, <2>1, <3>2, <4>2
    <3> QED
      BY <3>1, <3>2
  <2> QED
    BY <2>1, <2>2
<1>6. cs[shown].queue = "Learn" => cs[shown].due <= clock + LearnAhead
  BY <1>1, <1>2 DEF Showing
<1> QED
  BY <1>3, <1>5, <1>6

-----------------------------------------------------------------------------
(* The steps                                                               *)

LEMMA ClearedSteps ==
    ASSUME HInv, ClearIfDayChanged
    PROVE  /\ StepsLeft(undoSteps', redoSteps') /\ (~DayChanged => undoSteps' = undoSteps /\ redoSteps' = redoSteps)
           /\ undoSteps' \in Seq(Step) /\ redoSteps' \in Seq(Step) /\ Len(undoSteps') + Len(redoSteps') <= MaxSteps
           /\ (Guarded => Updated(undoSteps', redoSteps')) /\ card' = CardsToday
<1>1. undoSteps \in Seq(Step) /\ redoSteps \in Seq(Step) /\ Len(undoSteps) + Len(redoSteps) <= MaxSteps
  BY DEF HInv, Typed
<1>2. CASE DayChanged
  <2>1. undoSteps' = <<>> /\ redoSteps' = <<>> /\ card' = CardsToday
    BY <1>2 DEF ClearIfDayChanged, Discard
  <2>2. <<>> \in Seq(Step) /\ Len(<<>>) = 0 /\ Range(<<>>) = {}
    BY DEF Range
  <2> QED
    BY <1>2, <2>1, <2>2, Numbers DEF StepsLeft, Updated
<1>3. CASE ~DayChanged
  BY <1>1, <1>3 DEF ClearIfDayChanged, undoVars, StepsLeft, HInv
<1> QED
  BY <1>2, <1>3

\* A queue is asked for and its cards counted.
LEMMA AfterGetting ==
    ASSUME HInv, NEW q \in GetQueues, queues' = Counted(q), ClearIfDayChanged, UNCHANGED <<clock, panicked>>,
           shown' \in Cards \cup {NoCard}
    PROVE  /\ Typed' /\ Holding(queues', card', undoSteps', redoSteps', clock')
           /\ Guarded => Updated(undoSteps', redoSteps')
<1> DEFINE r == Counted(q)
<1>1. PICK us, rs : us = undoSteps' /\ rs = redoSteps'
  OBVIOUS
<1>2. /\ StepsLeft(us, rs) /\ (~DayChanged => us = undoSteps /\ rs = redoSteps)
      /\ us \in Seq(Step) /\ rs \in Seq(Step) /\ Len(us) + Len(rs) <= MaxSteps
      /\ (Guarded => Updated(us, rs)) /\ card' = CardsToday
  BY <1>1, ClearedSteps
<1>3. q \in CardQueues /\ Holding(q, CardsToday, us, rs, clock)
  BY <1>2, GottenHolds
<1>4. CardsToday \in [Cards -> CardRecord] /\ Typed
  BY UnburiedFacts DEF HInv, Typed
<1>5. r \in CardQueues /\ Holding(r, CardsToday, us, rs, clock)
  BY <1>2, <1>3, <1>4, CountedHolds
<1>6. Typed'
  BY <1>1, <1>2, <1>4, <1>5 DEF Typed
<1> QED
  BY <1>1, <1>2, <1>5, <1>6

LEMMA PeekKeeps ==
    ASSUME HInv, Peek
    PROVE  HInv'
<1>1. PICK q \in GetQueues : queues' = Counted(q)
  BY DEF Peek
<1>2. ClearIfDayChanged /\ UNCHANGED <<shown, clock, panicked>>
  BY DEF Peek
<1>3. /\ Typed' /\ Holding(queues', card', undoSteps', redoSteps', clock')
      /\ Guarded => Updated(undoSteps', redoSteps')
  <2>1. shown' \in Cards \cup {NoCard} /\ UNCHANGED <<clock, panicked>>
    BY <1>2 DEF HInv, Typed
  <2> QED
    BY <1>1, <1>2, <2>1, AfterGetting
<1>4. ASSUME Guarded PROVE Showing(shown, queues', card', clock)
  <2>1. PICK us, rs : us = undoSteps' /\ rs = redoSteps'
    OBVIOUS
  <2>2. /\ StepsLeft(us, rs) /\ (~DayChanged => us = undoSteps /\ rs = redoSteps)
        /\ us \in Seq(Step) /\ rs \in Seq(Step) /\ card' = CardsToday
    BY <1>2, <2>1, ClearedSteps
  <2>3. /\ q \in CardQueues /\ Holding(q, CardsToday, us, rs, clock)
        /\ \/ q = queues /\ queues # NoQueues
           \/ Ahead(q) = clock + LearnAhead /\ \A e \in Range(q.learning) : e.id \in Cards /\ e.due = card[e.id].due
    BY <2>2, GottenHolds
  <2>4. /\ CardsToday \in [Cards -> CardRecord] /\ Typed
        /\ \A id \in Cards : CardsToday[id].queue = card[id].queue /\ CardsToday[id].due = card[id].due
    BY UnburiedFacts DEF HInv, Typed
  <2> DEFINE r == Counted(q)
  <2>5. r \in CardQueues /\ r.learning = q.learning /\ Ahead(q) <= Ahead(r) /\ Ahead(q) \in Nat /\ Ahead(r) \in Nat
    BY <2>2, <2>3, <2>4, CountedHolds
  <2>6. \A e \in Range(q.learning) : e.id \in Cards => CardsToday[e.id].queue = "Learn"
    <3>1. PICK h : History(h, q, CardsToday, us, rs, clock)
      BY <2>3 DEF Holding
    <3>2. Fresh(MomentOf(q, CardsToday))
      BY <1>4, <2>2, <2>3, <2>4, <3>1, MomentNow
    <3> QED
      BY <3>2, MomentFields DEF Fresh
  <2> HIDE DEF r
  <2>7. Showing(shown, r, CardsToday, clock)
    BY <1>4, <2>3, <2>4, <2>5, <2>6, ShowingStays
  <2> QED
    BY <1>1, <2>2, <2>7 DEF r
<1> QED
  BY <1>2, <1>3, <1>4 DEF HInv

LEMMA GetNextCardKeeps ==
    ASSUME HInv, GetNextCard
    PROVE  HInv'
<1>1. PICK q \in GetQueues : Show(q)
  BY DEF GetNextCard
<1>2. ClearIfDayChanged /\ UNCHANGED <<clock, panicked>>
  BY DEF GetNextCard
<1> DEFINE r   == Counted(q)
           top == TopEntry(r)
<1>3. PICK us, rs : us = undoSteps' /\ rs = redoSteps'
  OBVIOUS
<1>4. /\ StepsLeft(us, rs) /\ (~DayChanged => us = undoSteps /\ rs = redoSteps)
      /\ us \in Seq(Step) /\ rs \in Seq(Step) /\ card' = CardsToday
  BY <1>2, <1>3, ClearedSteps
<1>5. /\ CardsToday \in [Cards -> CardRecord] /\ Typed
      /\ \A id \in Cards : CardsToday[id].queue = card[id].queue /\ CardsToday[id].due = card[id].due
  BY UnburiedFacts DEF HInv, Typed
<1>6. q \in CardQueues /\ Holding(q, CardsToday, us, rs, clock)
  BY <1>4, GottenHolds
<1>7. /\ r \in CardQueues /\ Holding(r, CardsToday, us, rs, clock)
      /\ Ahead(r) <= clock + LearnAhead /\ Ahead(r) \in Nat
  BY <1>4, <1>5, <1>6, CountedHolds
<1>8. queues' = r /\ (shown' = NoCard \/ (top # NoEntry /\ shown' = top.id))
  BY <1>1 DEF Show
<1> HIDE DEF r
<1>9. top # NoEntry => /\ top.id \in Cards
                       /\ \/ top \in Range(r.main)
                          \/ top \in Range(r.learning) /\ top.due <= Ahead(r)
  <2>1. r.main \in Seq(MainEntry) /\ r.learning \in Seq(LearningEntry)
    BY <1>7, QueueFields
  <2>2. Range(r.main) \subseteq MainEntry /\ Range(r.learning) \subseteq LearningEntry
    BY <2>1, RangeFinite
  <2>3. top # NoEntry => \/ top \in Range(r.main)
                         \/ top \in Range(r.learning) /\ top.due <= Ahead(r)
    BY <1>7, TopEntryFacts
  <2> HIDE DEF top
  <2> QED
    BY <2>2, <2>3, EntryFacts
<1> HIDE DEF top
<1>10. /\ Typed' /\ Holding(queues', card', undoSteps', redoSteps', clock')
       /\ Guarded => Updated(undoSteps', redoSteps')
  <2>1. shown' \in Cards \cup {NoCard} /\ queues' = Counted(q)
    BY <1>8, <1>9 DEF r
  <2> QED
    BY <1>2, <2>1, AfterGetting
<1>11. ASSUME Guarded, top # NoEntry PROVE Showing(top.id, r, CardsToday, clock)
  <2>1. PICK h : History(h, r, CardsToday, us, rs, clock)
    BY <1>7 DEF Holding
  <2>2. Fresh(MomentOf(r, CardsToday)) /\ Orderly(r.main, Range(r.learning))
    BY <1>4, <1>5, <1>7, <1>11, <2>1, MomentNow
  <2>3. /\ \A e \in Range(r.main) : CardsToday[e.id].queue # "Learn"
        /\ \A e \in Range(r.learning) : CardsToday[e.id].due <= e.due
    BY <2>2, MomentFields DEF Fresh
  <2>4. \A e \in Range(r.learning) : e.id = top.id => e = top /\ e.due <= Ahead(r)
    BY <1>9, <1>11, <2>2 DEF Orderly
  <2>5. ASSUME CardsToday[top.id].queue = "Learn" PROVE CardsToday[top.id].due <= clock + LearnAhead
    <3>1. top \in Range(r.learning) /\ top.due <= Ahead(r)
      BY <1>9, <1>11, <2>3, <2>5
    <3>2. top.due \in Nat
      <4>1. r.learning \in Seq(LearningEntry)
        BY <1>7, QueueFields
      <4> QED
        BY <3>1, <4>1, RangeFinite, EntryFacts
    <3>3. CardsToday[top.id].due \in Nat
      BY <1>5, <1>9, <1>11 DEF CardRecord
    <3>4. clock \in Nat /\ LearnAhead \in Nat
      BY <1>5, Numbers DEF Typed
    <3> QED
      BY <1>7, <2>3, <3>1, <3>2, <3>3, <3>4
  <2>6. r # NoQueues
    BY <1>7, NullAssumption
  <2> QED
    BY <2>4, <2>5, <2>6 DEF Showing
<1>12. ASSUME Guarded PROVE Showing(shown', queues', card', clock')
  <2>1. CASE shown' = NoCard
    BY <2>1 DEF Showing
  <2>2. CASE top # NoEntry /\ shown' = top.id
    BY <1>2, <1>4, <1>8, <1>11, <1>12, <2>2
  <2> QED
    BY <1>8, <2>1, <2>2
<1> QED
  BY <1>10, <1>12 DEF HInv

\* Operations that leave no queue
LEMMA WithoutQueue ==
    ASSUME Typed', queues' = NoQueues, Guarded => Updated(undoSteps', redoSteps'),
           Guarded => shown' = NoCard
    PROVE  HInv'
BY DEF HInv, Showing

LEMMA DiscardFacts ==
    ASSUME Discard
    PROVE  /\ undoSteps' \in Seq(Step) /\ redoSteps' \in Seq(Step) /\ Len(undoSteps') + Len(redoSteps') <= MaxSteps
           /\ Updated(undoSteps', redoSteps')
<1>1. <<>> \in Seq(Step) /\ Len(<<>>) = 0 /\ Range(<<>>) = {}
  BY DEF Range
<1> QED
  BY <1>1, Numbers DEF Discard, Updated

LEMMA RollBackKeeps ==
    ASSUME HInv, RollBack, UNCHANGED clock, panicked' \in BOOLEAN, shown' = NoCard
    PROVE  HInv'
<1>1. Typed' /\ Updated(undoSteps', redoSteps') /\ queues' = NoQueues
  <2>1. Discard
    BY DEF RollBack
  <2> QED
    BY <2>1, DiscardFacts DEF RollBack, HInv, Typed
<1> QED
  BY <1>1, WithoutQueue

LEMMA RescheduledCard ==
    ASSUME NEW c \in CardRecord, NEW q \in {"New", "Learn", "DayLearn", "Review"}, NEW t \in Nat
    PROVE  /\ [c EXCEPT !.queue = q, !.due = t] \in CardRecord
           /\ [c EXCEPT !.queue = q, !.due = t].at = c.at
           /\ [c EXCEPT !.queue = q, !.due = t, !.tried = TRUE] \in CardRecord
           /\ [c EXCEPT !.queue = q, !.due = t, !.tried = TRUE].at = c.at
BY DEF CardRecord

\* What an answer makes of a card
LEMMA OutcomeFacts ==
    ASSUME Typed, NEW id \in Cards, NEW o \in Outcomes(id)
    PROVE  /\ o.c \in CardRecord /\ o.finished \in BOOLEAN
           /\ o.finished => o.c.at = "away"
           /\ ~o.finished => o.c.at = card[id].at
<1> DEFINE c == [card[id] EXCEPT !.mtime = clock]
           steps == {clock + d : d \in Delays}
<1>1. /\ card[id] \in CardRecord /\ clock \in Time /\ clock \in Nat
      /\ Delays \subseteq Nat /\ Leaving \subseteq {"DayLearn", "Review"} /\ Day + 1 \in Nat
  <2>1. card[id] \in CardRecord /\ clock \in Time /\ clock \in Nat
    BY Numbers DEF Typed
  <2>2. Delays \subseteq Nat /\ Leaving \subseteq {"DayLearn", "Review"}
    BY QueueAssumption
  <2>3. Day \in Nat
    BY <2>1, DayGrows DEF Day
  <2> QED
    BY <2>1, <2>2, <2>3
<1>2. c \in CardRecord /\ c.at = card[id].at
  BY <1>1 DEF CardRecord
<1>3. \A t \in steps : t \in Nat
  BY <1>1
<1> HIDE DEF steps
<1>4. \/ \E t \in steps : o = [c |-> [c EXCEPT !.queue = "Learn", !.due = t], finished |-> FALSE]
      \/ o = [c |-> [c EXCEPT !.at = "away"], finished |-> TRUE]
      \/ \E t \in steps : o = [c |-> [c EXCEPT !.queue = "Learn", !.due = t, !.tried = TRUE], finished |-> FALSE]
      \/ \E q \in Leaving : o = [c |-> [c EXCEPT !.queue = q, !.due = Day + 1, !.tried = TRUE], finished |-> FALSE]
  BY DEF Outcomes, steps
<1> HIDE DEF c
<1>5. CASE \E t \in steps : o = [c |-> [c EXCEPT !.queue = "Learn", !.due = t], finished |-> FALSE]
  <2>1. PICK t \in Nat : o = [c |-> [c EXCEPT !.queue = "Learn", !.due = t], finished |-> FALSE]
    BY <1>3, <1>5
  <2>2. [c EXCEPT !.queue = "Learn", !.due = t] \in CardRecord /\ [c EXCEPT !.queue = "Learn", !.due = t].at = c.at
    BY <1>2, RescheduledCard
  <2>3. o.c = [c EXCEPT !.queue = "Learn", !.due = t] /\ o.finished = FALSE
    BY <2>1
  <2> QED
    BY <1>2, <2>2, <2>3
<1>6. CASE o = [c |-> [c EXCEPT !.at = "away"], finished |-> TRUE]
  BY <1>2, <1>6 DEF CardRecord
<1>7. CASE \E t \in steps : o = [c |-> [c EXCEPT !.queue = "Learn", !.due = t, !.tried = TRUE], finished |-> FALSE]
  <2>1. PICK t \in Nat : o = [c |-> [c EXCEPT !.queue = "Learn", !.due = t, !.tried = TRUE], finished |-> FALSE]
    BY <1>3, <1>7
  <2> DEFINE x == [c EXCEPT !.queue = "Learn", !.due = t, !.tried = TRUE]
  <2>2. x \in CardRecord /\ x.at = c.at
    BY <1>2, RescheduledCard
  <2>3. o.c = x /\ o.finished = FALSE
    BY <2>1
  <2> QED
    BY <1>2, <2>2, <2>3
<1>8. CASE \E q \in Leaving : o = [c |-> [c EXCEPT !.queue = q, !.due = Day + 1, !.tried = TRUE], finished |-> FALSE]
  <2>1. PICK q \in Leaving :
          o = [c |-> [c EXCEPT !.queue = q, !.due = Day + 1, !.tried = TRUE], finished |-> FALSE]
    BY <1>8
  <2> DEFINE t == Day + 1
             x == [c EXCEPT !.queue = q, !.due = t, !.tried = TRUE]
  <2>2. q \in {"New", "Learn", "DayLearn", "Review"} /\ t \in Nat
    BY <1>1
  <2>3. x \in CardRecord /\ x.at = c.at
    <3> HIDE DEF t
    <3>1. q \in {"New", "Learn", "DayLearn", "Review"} /\ t \in Nat /\ c \in CardRecord
      BY <1>2, <2>2
    <3>2. /\ [c EXCEPT !.queue = q, !.due = t, !.tried = TRUE] \in CardRecord
          /\ [c EXCEPT !.queue = q, !.due = t, !.tried = TRUE].at = c.at
      BY <3>1 DEF CardRecord
    <3> QED
      BY <3>2
  <2>4. o.c = x /\ o.finished = FALSE
    BY <2>1
  <2> QED
    BY <1>2, <2>4, <2>3
<1> QED
  BY <1>4, <1>5, <1>6, <1>7, <1>8

\* A new step and nothing to redo
LEMMA RecordedSteps ==
    ASSUME HInv, NEW kind \in {"AnswerCard", "Edit"}, NEW id \in Cards, NEW c \in CardRecord,
           NEW u \in QueueUpdate \cup {NoUpdate}, kind = "Edit" \/ (Guarded => u # NoUpdate),
           Len(undoSteps) < MaxSteps, Record(kind, id, c, u)
    PROVE  LET s == [kind |-> kind, id |-> id, was |-> card[id], update |-> u] IN
           /\ s \in Step /\ card' = [card EXCEPT ![id] = c] /\ card' \in [Cards -> CardRecord]
           /\ undoSteps' = <<s>> \o undoSteps /\ redoSteps' = <<>>
           /\ undoSteps' \in Seq(Step) /\ redoSteps' \in Seq(Step) /\ Len(undoSteps') + Len(redoSteps') <= MaxSteps
           /\ Guarded => Updated(undoSteps', redoSteps')
<1> DEFINE s == [kind |-> kind, id |-> id, was |-> card[id], update |-> u]
<1>1. /\ card \in [Cards -> CardRecord] /\ undoSteps \in Seq(Step) /\ Len(undoSteps) \in Nat /\ MaxSteps \in Nat
      /\ Guarded => Updated(undoSteps, redoSteps)
  BY Numbers DEF HInv, Typed
<1>2. s \in Step
  BY <1>1 DEF Step
<1>3. s.kind = kind /\ s.update = u
  OBVIOUS
<1>4. card' = [card EXCEPT ![id] = c] /\ undoSteps' = <<s>> \o undoSteps /\ redoSteps' = <<>>
  BY DEF Record
<1>5. card' \in [Cards -> CardRecord]
  BY <1>1, <1>4
<1> HIDE DEF s
<1>6. /\ undoSteps' \in Seq(Step) /\ Len(undoSteps') = Len(undoSteps) + 1
      /\ Range(undoSteps') = Range(undoSteps) \cup {s}
  BY <1>1, <1>2, <1>4, ConsFacts
<1>7. redoSteps' \in Seq(Step) /\ Len(redoSteps') = 0 /\ Range(redoSteps') = {}
  BY <1>4 DEF Range
<1>8. Guarded => Updated(undoSteps', redoSteps')
  BY <1>1, <1>3, <1>6, <1>7 DEF Updated
<1> QED
  BY <1>1, <1>2, <1>4, <1>5, <1>6, <1>7, <1>8 DEF s

\* The moment after an answer is as sound as the one before.
LEMMA SoundAfter ==
    ASSUME Typed, Guarded, NEW q \in CardQueues, NEW r \in CardQueues, q.day <= Day,
           Fresh(MomentOf(q, card)), KeptOn(MomentOf(q, card), q.day),
           NEW id \in Cards, card[id].at = "deck",
           NEW c \in CardRecord, NEW finished \in BOOLEAN,
           finished => c.at = "away", ~finished => c.at = card[id].at,
           Range(r.main) \subseteq Range(q.main), \A f \in Range(r.main) : f.id # id,
           ~GoesBack(c, finished) => \A f \in Range(r.learning) : f.id # id /\ f \in Range(q.learning),
           GoesBack(c, finished) =>
             \E e \in Range(r.learning) : /\ e.id = id /\ e.mtime = c.mtime /\ c.due <= e.due
                                          /\ \A f \in Range(r.learning) \ {e} : f.id # id /\ f \in Range(q.learning),
           \A f \in Range(q.learning) : f.id # id => f \in Range(r.learning),
           NEW ds, ds = [card EXCEPT ![id] = c]
    PROVE  Fresh(MomentOf(r, ds)) /\ KeptOn(MomentOf(r, ds), q.day)
<1>1. ds[id] = c /\ \A x \in Cards : x # id => ds[x] = card[x]
  BY DEF Typed
<1>2. /\ \A e \in Range(q.main) :
            /\ card[e.id].at = "deck" /\ card[e.id].mtime = e.mtime
            /\ card[e.id].queue # "Learn" /\ e.kind = MainEntryOf(e.id, card[e.id]).kind
      /\ \A e \in Range(q.learning) :
            /\ card[e.id].at = "deck" /\ card[e.id].mtime = e.mtime
            /\ card[e.id].queue = "Learn" /\ card[e.id].due <= e.due
  BY MomentFields DEF Fresh
<1>3. \A x \in Cards : card[x].at = "deck" /\ card[x].queue = "Learn" /\ card[x].due < (q.day + 1) * DayLength
                          => \E e \in Range(q.learning) : e.id = x
  BY MomentFields DEF KeptOn
<1>4. /\ \A e \in Range(r.main) : e.id \in Cards
      /\ \A e \in Range(r.learning) : e.id \in Cards
  <2>1. r.main \in Seq(MainEntry) /\ r.learning \in Seq(LearningEntry)
    BY QueueFields
  <2> QED
    BY <2>1, RangeFinite, EntryFacts
<1>5. ASSUME NEW e \in Range(r.main)
      PROVE  /\ ds[e.id].at = "deck" /\ ds[e.id].mtime = e.mtime
             /\ ds[e.id].queue # "Learn" /\ e.kind = MainEntryOf(e.id, ds[e.id]).kind
  <2>1. e \in Range(q.main) /\ e.id # id /\ ds[e.id] = card[e.id]
    BY <1>1, <1>4
  <2> QED
    BY <1>2, <2>1
<1>6. ASSUME NEW e \in Range(r.learning)
      PROVE  /\ ds[e.id].at = "deck" /\ ds[e.id].mtime = e.mtime
             /\ ds[e.id].queue = "Learn" /\ ds[e.id].due <= e.due
  <2>1. CASE e.id # id
    <3>1. e \in Range(q.learning)
      BY <2>1
    <3>2. ds[e.id] = card[e.id]
      BY <1>1, <1>4, <2>1
    <3> QED
      BY <1>2, <3>1, <3>2
  <2>2. CASE e.id = id
    <3>1. GoesBack(c, finished) /\ e.mtime = c.mtime /\ c.due <= e.due
      BY <2>2
    <3>2. c.at = "deck" /\ c.queue = "Learn"
      BY <3>1 DEF GoesBack
    <3> QED
      BY <1>1, <2>2, <3>1, <3>2
  <2> QED
    BY <2>1, <2>2
<1>7. ASSUME NEW x \in Cards, ds[x].at = "deck", ds[x].queue = "Learn", ds[x].due < (q.day + 1) * DayLength
      PROVE  \E e \in Range(r.learning) : e.id = x
  <2>1. CASE x # id
    <3>1. ds[x] = card[x]
      BY <1>1, <2>1
    <3>2. PICK e \in Range(q.learning) : e.id = x
      BY <1>3, <1>7, <3>1
    <3> QED
      BY <2>1, <3>2
  <2>2. CASE x = id
    <3>1. ds[x] = c
      BY <1>1, <2>2
    <3>2. q.day \in Nat /\ Day \in Nat /\ c.due \in Nat
      <4>1. clock \in Nat
        BY Numbers DEF Typed
      <4>2. clock <= clock
        BY <4>1
      <4>3. Day \in Nat
        BY <4>1, <4>2, DayGrows DEF Day
      <4> QED
        BY <4>3, QueueFields DEF CardRecord
    <3>3. (q.day + 1) * DayLength <= NextDayAt
      <4> DEFINE d == Day
      <4>1. d \in Nat /\ q.day <= d /\ q.day \in Nat
        BY <3>2
      <4> HIDE DEF d
      <4>2. (q.day + 1) * DayLength <= (d + 1) * DayLength
        <5> DEFINE a == q.day
        <5>1. a \in Nat /\ a <= d
          BY <4>1
        <5> HIDE DEF a
        <5>2. (a + 1) * DayLength <= (d + 1) * DayLength
          BY <4>1, <5>1, NextDayGrows
        <5> QED
          BY <5>2 DEF a
      <4> QED
        BY <4>2 DEF NextDayAt, d
    <3>4. c.due < NextDayAt
      <4> DEFINE a == (q.day + 1) * DayLength
                 b == NextDayAt
      <4>1. a \in Nat /\ b \in Nat
        <5>1. DayLength \in Nat
          BY Numbers
        <5> QED
          BY <3>2, <5>1 DEF NextDayAt
      <4>2. c.due < a /\ a <= b
        BY <1>7, <3>1, <3>3
      <4> HIDE DEF a, b
      <4>3. c.due < b
        BY <3>2, <4>1, <4>2
      <4> QED
        BY <4>3 DEF b
    <3>5. ~finished
      BY <1>7, <3>1
    <3>6. GoesBack(c, finished)
      BY <1>7, <3>1, <3>4, <3>5 DEF GoesBack
    <3> QED
      BY <2>2, <3>6
  <2> QED
    BY <2>1, <2>2
<1>8. Fresh(MomentOf(r, ds))
  <2> DEFINE m == MomentOf(r, ds)
  <2>1. m.main = r.main /\ m.learn = Range(r.learning) /\ m.cards = ds
    BY MomentFields
  <2> HIDE DEF m
  <2>2. Fresh(m)
    BY <1>5, <1>6, <2>1 DEF Fresh
  <2> QED
    BY <2>2 DEF m
<1>9. KeptOn(MomentOf(r, ds), q.day)
  <2> DEFINE m == MomentOf(r, ds)
  <2>1. m.main = r.main /\ m.learn = Range(r.learning) /\ m.cards = ds
    BY MomentFields
  <2> HIDE DEF m
  <2>2. KeptOn(m, q.day)
    BY <1>7, <2>1 DEF KeptOn
  <2> QED
    BY <2>2 DEF m
<1> QED
  BY <1>8, <1>9

\* The entry an answer pops was in the queue.
LEMMA EntryWasThere ==
    ASSUME NEW u \in QueueUpdate, NEW m0, NEW m1, Linked(m0, u, m1), m1.main \in Seq(MainEntry)
    PROVE  /\ u.entry.kind = "Learning" => u.entry \in m0.learn
           /\ u.entry.kind # "Learning" => u.entry \in Range(m0.main)
<1> DEFINE e == u.entry
           s == m1.main
<1>1. e \in Entry /\ s \in Seq(MainEntry)
  BY UpdateFields
<1>2. e.kind = "Learning" => e \in m0.learn
  BY DEF Linked
<1>3. e.kind # "Learning" => m0.main = <<e>> \o s
  BY DEF Linked
<1> HIDE DEF e, s
<1>4. ASSUME e.kind # "Learning" PROVE e \in Range(m0.main)
  <2>1. e \in MainEntry
    BY <1>1, <1>4, EntryFacts
  <2>2. Range(<<e>> \o s) = Range(s) \cup {e}
    BY <1>1, <2>1, ConsFacts
  <2> QED
    BY <1>3, <1>4, <2>2
<1> QED
  BY <1>2, <1>4 DEF e

LEMMA PatchingKeeps ==
    ASSUME HInv, Ordered => Lined, NEW id \in Cards, shown = id, Len(undoSteps) < MaxSteps, NEW o \in Outcomes(id),
           AnswerPatching(id, o), shown' = NoCard, UNCHANGED <<clock, panicked>>
    PROVE  HInv'
<1> DEFINE q == queues
           c == o.c
           f == o.finished
<1>1. /\ Typed /\ clock \in Time /\ clock \in Nat /\ q \in CardQueues /\ card \in [Cards -> CardRecord]
      /\ undoSteps \in Seq(Step) /\ redoSteps \in Seq(Step) /\ card[id] \in CardRecord
      /\ Holding(q, card, undoSteps, redoSteps, clock)
  BY Numbers DEF HInv, Typed, AnswerPatching
<1>2. PICK h : History(h, q, card, undoSteps, redoSteps, clock)
  BY <1>1 DEF Holding
<1>3. /\ h[0] \in Moment /\ Holds(q, h[0]) /\ Orderly(q.main, Range(q.learning))
      /\ Guarded => Fresh(MomentOf(q, card)) /\ KeptOn(MomentOf(q, card), q.day) /\ h[0].cards = card
  BY <1>1, <1>2, MomentNow
<1>4. c \in CardRecord /\ f \in BOOLEAN /\ (f => c.at = "away") /\ (~f => c.at = card[id].at)
  BY <1>1, OutcomeFacts
<1>5. PICK p \in AnswerPositions(queues, id, c, f) :
         LET a == Answered(queues, id, c, f, p) IN
         queues' = a.queues /\ Record("AnswerCard", id, c, a.update)
  BY DEF AnswerPatching
<1>6. CanPop(q, id) /\ Distinct(q.learning) /\ q.cutoff <= clock /\ q.day <= Day
  BY <1>1 DEF AnswerPatching, Holding, Day
<1> DEFINE a  == Answered(q, id, c, f, p)
           r  == a.queues
           u  == a.update
           ds == [card EXCEPT ![id] = c]
           m1 == MomentOf(r, ds)
<1> HIDE DEF c, f
<1>7. Patched(q, id, c, f, r, u, h[0])
  <2> HIDE DEF q
  <2>1. p \in AnswerPositions(q, id, c, f)
    BY DEF q
  <2> DEFINE m0 == h[0]
  <2>2. Holds(q, m0)
    BY <1>3
  <2> HIDE DEF m0, a
  <2>3. clock \in Time /\ Distinct(q.learning) /\ Orderly(q.main, Range(q.learning)) /\ q \in CardQueues
    BY <1>1, <1>3, <1>6
  <2>4. a = Answered(q, id, c, f, p)
    BY DEF a
  <2>5. Patched(q, id, c, f, r, u, m0)
    <3>1. Patched(q, id, c, f, Answered(q, id, c, f, p).queues, Answered(q, id, c, f, p).update, m0)
      BY <1>4, <1>6, <2>1, <2>2, <2>3, AnsweredFacts
    <3> QED
      BY <2>4, <3>1
  <2> QED
    BY <2>5 DEF m0
<1>8. queues' = r /\ Record("AnswerCard", id, c, u)
  BY <1>5
<1> HIDE DEF a, q
<1>9. m1.main = r.main /\ m1.learn = Range(r.learning) /\ m1.cards = ds
  BY MomentFields
<1> HIDE DEF m1
<1>10. Linked(h[0], u, m1)
  BY <1>7, <1>9 DEF Patched
<1>11. /\ u.entry.kind = "Learning" => u.entry \in Range(q.learning)
       /\ u.entry.kind # "Learning" => u.entry \in Range(q.main)
  <2>1. m1.main \in Seq(MainEntry)
    <3>1. r.main \in Seq(MainEntry)
      BY <1>7, QueueFields DEF Patched
    <3> QED
      BY <1>9, <3>1
  <2> DEFINE v  == u
             m0 == h[0]
  <2>2. v \in QueueUpdate /\ Linked(m0, v, m1) /\ m0.main = q.main /\ m0.learn = Range(q.learning)
    BY <1>3, <1>7, <1>10 DEF Holds, Patched
  <2> HIDE DEF v, m0
  <2>3. /\ v.entry.kind = "Learning" => v.entry \in m0.learn
        /\ v.entry.kind # "Learning" => v.entry \in Range(m0.main)
    BY <2>1, <2>2, EntryWasThere
  <2> QED
    BY <2>2, <2>3 DEF v, m0
<1>12. ASSUME Guarded PROVE card[id].at = "deck" /\ (u.entry.kind = "Learning" => u.entry.due <= Ahead(q))
  <2>1. card[id].at = "deck"
    BY <1>3, <1>7, <1>11, <1>12, MomentFields DEF Fresh, Patched
  <2>2. Showing(shown, q, card, clock) /\ shown # NoCard
    <3>1. NoCard \notin Cards
      BY QueueAssumption
    <3> QED
      BY <1>12, <3>1 DEF HInv, q
  <2> QED
    BY <1>7, <1>11, <2>1, <2>2 DEF Showing, Patched
<1>13. ASSUME Guarded PROVE /\ r.counts = Tally(r.main, Range(r.learning), Ahead(r))
                            /\ Counted1(u, m1)
  <2>1. q.counts = Tally(q.main, Range(q.learning), Ahead(q))
    BY <1>1, <1>13 DEF Holding
  <2> QED
    BY <1>7, <1>9, <1>12, <1>13, <2>1 DEF Patched
<1>14. u # NoUpdate /\ r # NoQueues
  BY <1>7, NullAssumption DEF Patched
<1> DEFINE s == [kind |-> "AnswerCard", id |-> id, was |-> card[id], update |-> u]
<1>15. /\ s \in Step /\ card' = ds /\ ds \in [Cards -> CardRecord]
       /\ undoSteps' = <<s>> \o undoSteps /\ redoSteps' = <<>>
       /\ undoSteps' \in Seq(Step) /\ redoSteps' \in Seq(Step) /\ Len(undoSteps') + Len(redoSteps') <= MaxSteps
       /\ Guarded => Updated(undoSteps', redoSteps')
  <2> DEFINE v == u
  <2>1. v \in QueueUpdate \cup {NoUpdate} /\ v # NoUpdate /\ Record("AnswerCard", id, c, v)
    BY <1>7, <1>8, <1>14 DEF Patched
  <2> HIDE DEF v
  <2>2. LET t == [kind |-> "AnswerCard", id |-> id, was |-> card[id], update |-> v] IN
        /\ t \in Step /\ card' = [card EXCEPT ![id] = c] /\ card' \in [Cards -> CardRecord]
        /\ undoSteps' = <<t>> \o undoSteps /\ redoSteps' = <<>>
        /\ undoSteps' \in Seq(Step) /\ redoSteps' \in Seq(Step) /\ Len(undoSteps') + Len(redoSteps') <= MaxSteps
        /\ Guarded => Updated(undoSteps', redoSteps')
    BY <1>4, <2>1, RecordedSteps
  <2> QED
    BY <2>2 DEF v
<1>16. Sound(m1, q.day)
  <2>1. ASSUME Guarded PROVE Fresh(m1) /\ KeptOn(m1, q.day)
    <3> DEFINE R == r
    <3>1. /\ R \in CardQueues /\ Range(R.main) \subseteq Range(q.main)
          /\ ~GoesBack(c, f) =>
               \A x \in Range(R.learning) : x.id # id /\ x \in Range(q.learning)
          /\ GoesBack(c, f) =>
               \E e \in Range(R.learning) : /\ e.id = id /\ e.mtime = c.mtime /\ c.due <= e.due
                                            /\ \A x \in Range(R.learning) \ {e} : x.id # id /\ x \in Range(q.learning)
          /\ \A x \in Range(R.main) : x.id # id
          /\ \A x \in Range(q.learning) : x.id # id => x \in Range(R.learning)
      BY <1>7 DEF Patched
    <3> HIDE DEF R
    <3> HIDE DEF ds
    <3>2. ds = [card EXCEPT ![id] = c]
      BY DEF ds
    <3>3. Fresh(MomentOf(R, ds)) /\ KeptOn(MomentOf(R, ds), q.day)
      BY <1>1, <1>3, <1>4, <1>6, <1>12, <2>1, <3>1, <3>2, SoundAfter
    <3> QED
      BY <3>3 DEF R, m1
  <2>2. Orderly(m1.main, m1.learn)
    BY <1>7, <1>9 DEF Patched
  <2> QED
    BY <2>1, <2>2 DEF Sound
<1>17. \E g : History(g, r, ds, <<s>> \o undoSteps, <<>>, clock)
  <2> DEFINE R == r
             t == s
             D == ds
  <2>1. /\ t \in Step /\ t.was = card[t.id] /\ t.update = u /\ t.id = id
        /\ R \in CardQueues /\ R.day = q.day /\ R.build = q.build
        /\ \A x \in Cards : x # t.id => D[x] = card[x]
    BY <1>7, <1>15 DEF Patched
  <2>2. D \in [Cards -> CardRecord]
    BY <1>15
  <2>3. Mine(t, q.build) /\ t.update.snapshot.cutoff <= clock
    BY <1>6, <1>7, <1>14, <2>1 DEF Mine, Patched
  <2>4. Linked(h[0], t.update, MomentOf(R, D)) /\ (Guarded => Counted1(t.update, MomentOf(R, D)))
        /\ Sound(MomentOf(R, D), q.day)
    BY <1>10, <1>13, <1>16, <2>1 DEF m1
  <2> HIDE DEF R, t, D, u
  <2>6. ASSUME Ordered, t.update.entry.kind = "Learning" PROVE Foremost(t.update.entry, h[0].learn)
    <3> DEFINE e == t.update.entry
               L == Range(q.learning)
    <3>1. ShownFirst(id, q) /\ L = h[0].learn
      <4>1. NoCard \notin Cards /\ q # NoQueues
        BY QueueAssumption DEF AnswerPatching, q
      <4>2. ShownFirst(id, q)
        BY <2>6, <4>1 DEF Lined, InLine, q
      <4> QED
        BY <1>3, <4>2 DEF Holds
    <3>2. e.kind = "Learning" /\ e = u.entry
      BY <2>1, <2>6
    <3>3. e \in L /\ e.id = id
      BY <1>7, <1>11, <3>2 DEF Patched
    <3>4. \A x \in L : x.id = id => Foremost(x, L)
      BY <3>1 DEF ShownFirst
    <3> HIDE DEF e, L
    <3>5. Foremost(e, h[0].learn)
      BY <3>1, <3>3, <3>4
    <3> QED
      BY <3>5 DEF e
  <2>7. Ordered /\ t.update.entry.kind = "Learning" => Foremost(t.update.entry, h[0].learn)
    BY <2>6
  <2> HIDE DEF R, t, D
  <2>5. \E g : History(g, R, D, <<t>> \o undoSteps, <<>>, clock)
    BY <1>1, <1>2, <2>1, <2>2, <2>3, <2>4, <2>7, HistoryAnswers
  <2> QED
    BY <2>5 DEF R, t, D
<1>18. Holding(r, ds, undoSteps', redoSteps', clock)
  <2> DEFINE R == r
  <2>1. Distinct(R.learning) /\ R.cutoff <= clock /\ R.day <= clock \div DayLength
    BY <1>1, <1>6, <1>7 DEF Day, Patched
  <2>2. \E g : History(g, R, ds, undoSteps', redoSteps', clock)
    BY <1>15, <1>17
  <2>3. Guarded => R.counts = Tally(R.main, Range(R.learning), Ahead(R))
    BY <1>13
  <2> HIDE DEF R, ds
  <2>4. Holding(R, ds, undoSteps', redoSteps', clock)
    BY <2>1, <2>2, <2>3 DEF Holding
  <2> QED
    BY <2>4 DEF R
<1>19. Typed'
  BY <1>1, <1>7, <1>8, <1>15 DEF Typed, HInv, Patched
<1> HIDE DEF ds, s
<1> QED
  BY <1>8, <1>15, <1>18, <1>19 DEF HInv, Showing

LEMMA TurnedFacts ==
    ASSUME NEW s \in Step, NEW cs \in [Cards -> CardRecord]
    PROVE  /\ Turned(s, cs) \in Step /\ Turned(s, cs).kind = s.kind /\ Turned(s, cs).update = s.update
           /\ [cs EXCEPT ![s.id] = s.was] \in [Cards -> CardRecord]
<1>1. s.id \in Cards /\ s.was \in CardRecord
  BY DEF Step
<1>2. cs[s.id] \in CardRecord
  BY <1>1
<1> QED
  BY <1>1, <1>2 DEF Step, Turned

\* The steps after an undo
LEMMA UndoneSteps ==
    ASSUME NEW us \in Seq(Step), us # <<>>, NEW rs \in Seq(Step), NEW t \in Step,
           t.kind = Head(us).kind, t.update = Head(us).update
    PROVE  /\ Tail(us) \in Seq(Step) /\ Append(rs, t) \in Seq(Step)
           /\ Len(Tail(us)) + Len(Append(rs, t)) = Len(us) + Len(rs)
           /\ Updated(us, rs) => Updated(Tail(us), Append(rs, t))
           /\ Range(Tail(us)) \cup Range(Append(rs, t)) \subseteq Range(us) \cup Range(rs) \cup {t}
<1> DEFINE vs == Tail(us)
           ws == Append(rs, t)
<1>1. vs \in Seq(Step) /\ Len(vs) = Len(us) - 1 /\ Head(us) = us[1] /\ \A i \in 1..(Len(us) - 1) : vs[i] = us[i + 1]
  BY HeadTail
<1>2. ws \in Seq(Step) /\ Len(ws) = Len(rs) + 1 /\ ws[Len(rs) + 1] = t /\ \A i \in 1..Len(rs) : ws[i] = rs[i]
  OBVIOUS
<1>3. Len(us) \in Nat /\ Len(rs) \in Nat /\ Len(us) > 0
  OBVIOUS
<1> HIDE DEF vs, ws
<1>4. Range(vs) \subseteq Range(us)
  <2>1. ASSUME NEW i \in DOMAIN vs PROVE vs[i] \in Range(us)
    <3>1. i \in 1..(Len(us) - 1) /\ vs[i] = us[i + 1] /\ i + 1 \in DOMAIN us
      BY <1>1, <1>3
    <3> QED
      BY <3>1 DEF Range
  <2> QED
    BY <2>1 DEF Range
<1>5. Range(ws) \subseteq Range(rs) \cup {t}
  <2>1. ASSUME NEW i \in DOMAIN ws PROVE ws[i] \in Range(rs) \cup {t}
    <3>1. CASE i = Len(rs) + 1
      BY <1>2, <3>1
    <3>2. CASE i # Len(rs) + 1
      <4>1. i \in DOMAIN rs /\ ws[i] = rs[i]
        BY <1>2, <1>3, <3>2
      <4> QED
        BY <4>1 DEF Range
    <3> QED
      BY <3>1, <3>2
  <2> QED
    BY <2>1 DEF Range
<1>6. Head(us) \in Range(us)
  BY <1>1, <1>3 DEF Range
<1>7. Updated(us, rs) => Updated(vs, ws)
  BY <1>4, <1>5, <1>6 DEF Updated
<1> QED
  BY <1>1, <1>2, <1>3, <1>4, <1>5, <1>7 DEF vs, ws

\* The steps after a redo
LEMMA RedoneSteps ==
    ASSUME NEW us \in Seq(Step), NEW rs \in Seq(Step), rs # <<>>, NEW t \in Step,
           t.kind = Last(rs).kind, t.update = Last(rs).update
    PROVE  /\ <<t>> \o us \in Seq(Step) /\ Front(rs) \in Seq(Step)
           /\ Len(<<t>> \o us) + Len(Front(rs)) = Len(us) + Len(rs)
           /\ Updated(us, rs) => Updated(<<t>> \o us, Front(rs))
           /\ Range(<<t>> \o us) \cup Range(Front(rs)) \subseteq Range(us) \cup Range(rs) \cup {t}
<1> DEFINE vs == <<t>> \o us
           ws == Front(rs)
<1>1. vs \in Seq(Step) /\ Len(vs) = Len(us) + 1 /\ Range(vs) = Range(us) \cup {t}
  BY ConsFacts
<1>2. ws \in Seq(Step) /\ Len(ws) = Len(rs) - 1 /\ \A i \in 1..(Len(rs) - 1) : ws[i] = rs[i]
  BY FrontOf
<1>3. Len(us) \in Nat /\ Len(rs) \in Nat /\ Len(rs) > 0
  OBVIOUS
<1> HIDE DEF vs, ws
<1>4. Range(ws) \subseteq Range(rs)
  <2>1. ASSUME NEW i \in DOMAIN ws PROVE ws[i] \in Range(rs)
    <3>1. i \in 1..(Len(rs) - 1) /\ ws[i] = rs[i] /\ i \in DOMAIN rs
      BY <1>2, <1>3
    <3> QED
      BY <3>1 DEF Range
  <2> QED
    BY <2>1 DEF Range
<1>5. Last(rs) \in Range(rs)
  <2>1. Len(rs) \in DOMAIN rs
    BY <1>3
  <2> QED
    BY <2>1 DEF Range, Last
<1>6. Updated(us, rs) => Updated(vs, ws)
  BY <1>1, <1>4, <1>5 DEF Updated
<1> QED
  BY <1>1, <1>2, <1>3, <1>4, <1>6 DEF vs, ws

LEMMA AnswerKeeps ==
    ASSUME HInv, Ordered => Lined, NEW id \in Cards, Answer(id)
    PROVE  HInv'
<1>1. /\ shown = id /\ Len(undoSteps) < MaxSteps /\ shown' = NoCard /\ UNCHANGED <<clock, panicked>>
  BY DEF Answer
<1>2. CASE \E o \in Outcomes(id) : AnswerPatching(id, o)
  BY <1>1, <1>2, PatchingKeeps
<1>3. CASE \E o \in Outcomes(id) : AnswerWithoutQueue(id, o)
  <2>1. PICK o \in Outcomes(id) : AnswerWithoutQueue(id, o)
    BY <1>3
  <2>2. o.c \in CardRecord
    BY <2>1, OutcomeFacts DEF HInv
  <2>3. queues = NoQueues /\ queues' = NoQueues /\ Record("AnswerCard", id, o.c, NoUpdate)
    BY <2>1 DEF AnswerWithoutQueue
  <2>4. ~Guarded
    <3>1. NoCard \notin Cards
      BY QueueAssumption
    <3> QED
      BY <1>1, <2>3, <3>1 DEF HInv, Showing
  <2> DEFINE c == o.c
  <2>5. c \in CardRecord /\ Record("AnswerCard", id, c, NoUpdate)
    BY <2>2, <2>3
  <2> HIDE DEF c
  <2>6. /\ card' \in [Cards -> CardRecord] /\ undoSteps' \in Seq(Step) /\ redoSteps' \in Seq(Step)
        /\ Len(undoSteps') + Len(redoSteps') <= MaxSteps
    BY <1>1, <2>4, <2>5, RecordedSteps
  <2>7. Typed'
    BY <1>1, <2>3, <2>6 DEF Typed, HInv
  <2> QED
    BY <2>3, <2>4, <2>7, WithoutQueue
<1>4. CASE AnswerRefused(id)
  <2>1. RollBack /\ UNCHANGED clock /\ panicked' \in BOOLEAN
    BY <1>1, <1>4 DEF AnswerRefused, HInv, Typed
  <2> QED
    BY <1>1, <2>1, RollBackKeeps
<1> QED
  BY <1>2, <1>3, <1>4 DEF Answer

LEMMA EditKeeps ==
    ASSUME HInv, NEW id \in Cards, NEW c \in CardRecord, EditCard(id, c)
    PROVE  HInv'
<1> DEFINE d == [c EXCEPT !.mtime = clock]
<1>1. /\ Len(undoSteps) < MaxSteps /\ Record("Edit", id, d, NoUpdate)
      /\ queues' = NoQueues /\ shown' = NoCard /\ UNCHANGED <<clock, panicked>>
  BY DEF EditCard
<1>2. d \in CardRecord
  BY DEF HInv, Typed, CardRecord
<1> HIDE DEF d
<1>3. /\ card' \in [Cards -> CardRecord] /\ undoSteps' \in Seq(Step) /\ redoSteps' \in Seq(Step)
      /\ Len(undoSteps') + Len(redoSteps') <= MaxSteps
      /\ Guarded => Updated(undoSteps', redoSteps')
  BY <1>1, <1>2, RecordedSteps
<1>4. Typed'
  BY <1>1, <1>3 DEF Typed, HInv
<1> QED
  BY <1>1, <1>3, <1>4, WithoutQueue

LEMMA PanicKeeps ==
    ASSUME HInv, NEW s \in Step, Panic(s), UNCHANGED clock, shown' = NoCard
    PROVE  HInv'
<1>1. /\ undoSteps' \in Seq(Step) /\ redoSteps' \in Seq(Step) /\ Len(undoSteps') + Len(redoSteps') <= MaxSteps
      /\ Updated(undoSteps', redoSteps')
  BY DiscardFacts DEF Panic
<1>2. card' \in [Cards -> CardRecord]
  <2>1. Unburied \in [Cards -> CardRecord]
    BY UnburiedFacts DEF HInv, Typed
  <2>2. card' = [Unburied EXCEPT ![s.id] = s.was]
    BY DEF Panic
  <2>3. s.was \in CardRecord
    BY DEF Step
  <2> HIDE DEF Unburied
  <2> QED
    BY <2>1, <2>2, <2>3
<1>3. Typed' /\ queues' = NoQueues
  BY <1>1, <1>2 DEF Typed, HInv, Panic
<1> QED
  BY <1>1, <1>3, WithoutQueue

\* The moments beside the present one
LEMMA MomentBefore ==
    ASSUME NEW us \in Seq(Step), NEW rs \in Seq(Step), NEW h, NEW q \in CardQueues,
           NEW cs \in [Cards -> CardRecord], NEW now, History(h, q, cs, us, rs, now)
    PROVE  /\ us # <<>> =>
                /\ h[1] \in Moment /\ Sound(h[1], q.day)
                /\ Led(h[1], Head(us), h[0], q.build, now)
           /\ rs # <<>> =>
                /\ h[0 - 1] \in Moment /\ Sound(h[0 - 1], q.day)
                /\ Led(h[0], Last(rs), h[0 - 1], q.build, now)
<1>1. Len(us) \in Nat /\ Len(rs) \in Nat
  BY StepNumbers
<1>2. ASSUME us # <<>>
      PROVE  h[1] \in Moment /\ Sound(h[1], q.day) /\ Led(h[1], Head(us), h[0], q.build, now)
  <2>1. 1 \in (0 - Len(rs))..Len(us) /\ 1 \in (1 - Len(rs))..Len(us) /\ 1 - 1 = 0
    BY <1>1, <1>2
  <2>2. StepAt(us, rs, 1) = Head(us)
    BY <1>2 DEF StepAt
  <2>3. Led(h[1], StepAt(us, rs, 1), h[1 - 1], q.build, now) /\ h[1] \in Moment /\ Sound(h[1], q.day)
    BY <2>1 DEF History
  <2> QED
    BY <2>1, <2>2, <2>3
<1>3. ASSUME rs # <<>>
      PROVE  h[0 - 1] \in Moment /\ Sound(h[0 - 1], q.day) /\ Led(h[0], Last(rs), h[0 - 1], q.build, now)
  <2>1. 0 - 1 \in (0 - Len(rs))..Len(us) /\ 0 \in (1 - Len(rs))..Len(us)
    BY <1>1, <1>3
  <2>2. StepAt(us, rs, 0) = Last(rs)
    BY <1>1, <1>3 DEF StepAt, Last
  <2>3. Led(h[0], StepAt(us, rs, 0), h[0 - 1], q.build, now) /\ h[0 - 1] \in Moment /\ Sound(h[0 - 1], q.day)
    BY <2>1 DEF History
  <2> QED
    BY <2>2, <2>3
<1> QED
  BY <1>2, <1>3

\* Taking back what was answered on the same queue
LEMMA PatchedBack ==
    ASSUME HInv, undoSteps # <<>>, SameBuild(Head(undoSteps).update), Head(undoSteps).update # NoUpdate
    PROVE  LET s == Head(undoSteps)
               r == Undone(queues, s.update)
           IN  /\ r \in CardQueues
               /\ Holding(r, [card EXCEPT ![s.id] = s.was], Tail(undoSteps), Append(redoSteps, Turned(s, card)), clock)
               /\ Ordered /\ s.update.entry.kind = "Learning" => Foremost(s.update.entry, Range(r.learning))
<1> DEFINE q  == queues
           s  == Head(undoSteps)
           u  == s.update
           us == undoSteps
           rs == redoSteps
           r  == Undone(q, u)
<1>1. /\ Typed /\ clock \in Nat /\ q \in CardQueues /\ card \in [Cards -> CardRecord]
      /\ us \in Seq(Step) /\ rs \in Seq(Step) /\ Holding(q, card, us, rs, clock)
  BY Numbers DEF HInv, Typed, SameBuild
<1>2. PICK h : History(h, q, card, us, rs, clock)
  BY <1>1 DEF Holding
<1> DEFINE m0 == h[1]
           m1 == h[0]
<1>3. Holds(q, m1) /\ m0 \in Moment /\ Sound(m0, q.day) /\ Led(m0, s, m1, q.build, clock)
  BY <1>1, <1>2, MomentNow, MomentBefore
<1>4. s \in Step /\ Mine(s, q.build) /\ u \in QueueUpdate
  <2>1. s \in Step
    BY <1>1, HeadTail
  <2> QED
    BY <2>1, StepTimes DEF SameBuild, Mine
<1> HIDE DEF m0, m1, s
<1>5. /\ Linked(m0, u, m1) /\ u.snapshot.cutoff <= clock /\ (Guarded => Counted1(u, m1))
      /\ Ordered /\ u.entry.kind = "Learning" => Foremost(u.entry, m0.learn)
  BY <1>3, <1>4 DEF Led
<1>6. m0.main \in Seq(MainEntry) /\ m0.learn \subseteq LearningEntry /\ Orderly(m0.main, m0.learn)
  BY <1>3 DEF Moment, Sound
<1>7. Distinct(q.learning) /\ q.day <= clock \div DayLength
      /\ (Guarded => \E t : q.counts = Tally(q.main, Range(q.learning), t))
  BY <1>1 DEF Holding
<1> HIDE DEF u, q, us, rs
<1>8. /\ r \in CardQueues /\ Holds(r, m0) /\ Distinct(r.learning)
      /\ r.cutoff = u.snapshot.cutoff /\ r.day = q.day /\ r.build = q.build
      /\ (Counted1(u, m1) /\ \E t : q.counts = Tally(q.main, Range(q.learning), t)) =>
           r.counts = Tally(r.main, Range(r.learning), Ahead(r))
  BY <1>1, <1>3, <1>4, <1>5, <1>6, <1>7, UndoneFacts
<1> HIDE DEF r
<1>9. \E g : History(g, r, [card EXCEPT ![s.id] = s.was], Tail(us), Append(rs, Turned(s, card)), clock)
  <2>1. us # <<>> /\ s = Head(us) /\ Holds(r, h[1]) /\ (Guarded => Mine(Head(us), q.build))
    BY <1>4, <1>8 DEF us, s, m0
  <2> QED
    BY <1>1, <1>2, <1>8, <2>1, HistoryUndoes
<1>10. Guarded => r.counts = Tally(r.main, Range(r.learning), Ahead(r))
  BY <1>5, <1>7, <1>8
<1>11. Holding(r, [card EXCEPT ![s.id] = s.was], Tail(us), Append(rs, Turned(s, card)), clock)
  BY <1>5, <1>7, <1>8, <1>9, <1>10 DEF Holding
<1>12. Ordered /\ u.entry.kind = "Learning" => Foremost(u.entry, Range(r.learning))
  BY <1>5, <1>8 DEF Holds
<1> QED
  BY <1>8, <1>11, <1>12 DEF r, q, u, us, rs, s

LEMMA UndoKeeps ==
    ASSUME HInv, Undo
    PROVE  HInv'
<1> DEFINE s == Head(undoSteps)
           t == Turned(s, card)
<1>1. undoSteps # <<>> /\ shown' = NoCard /\ UNCHANGED clock
  BY DEF Undo
<1>2. /\ Typed /\ clock \in Nat /\ card \in [Cards -> CardRecord]
      /\ undoSteps \in Seq(Step) /\ redoSteps \in Seq(Step) /\ s \in Step
      /\ Len(undoSteps) + Len(redoSteps) <= MaxSteps
      /\ Guarded => Updated(undoSteps, redoSteps)
  <2>1. undoSteps \in Seq(Step)
    BY DEF HInv, Typed
  <2>2. s \in Step
    BY <1>1, <2>1, HeadTail
  <2> QED
    BY <2>1, <2>2, Numbers DEF HInv, Typed
<1>3. CASE RollsOver(s)
  <2>1. Panic(s)
    BY <1>3 DEF Undo
  <2> QED
    BY <1>1, <1>2, <2>1, PanicKeeps
<1>4. CASE ~RollsOver(s)
  <2>1. /\ queues' \in Replayed(s, {Undone(queues, s.update)}) /\ card' = [card EXCEPT ![s.id] = s.was]
        /\ undoSteps' = Tail(undoSteps) /\ redoSteps' = Append(redoSteps, t) /\ UNCHANGED panicked
    BY <1>4 DEF Undo, UndoStep, Turned, Inverted
  <2>2. t \in Step /\ t.kind = s.kind /\ t.update = s.update /\ card' \in [Cards -> CardRecord]
    BY <1>2, <2>1, TurnedFacts
  <2> HIDE DEF t
  <2>3. /\ undoSteps' \in Seq(Step) /\ redoSteps' \in Seq(Step)
        /\ Len(undoSteps') + Len(redoSteps') <= MaxSteps
        /\ Guarded => Updated(undoSteps', redoSteps')
    BY <1>1, <1>2, <2>1, <2>2, UndoneSteps
  <2>4. CASE queues' = NoQueues
    <3>1. Typed'
      BY <1>1, <1>2, <2>1, <2>2, <2>3, <2>4 DEF Typed
    <3> QED
      BY <1>1, <2>3, <2>4, <3>1, WithoutQueue
  <2>5. CASE queues' = queues /\ queues # NoQueues /\ s.kind = "AnswerCard" /\ s.update = NoUpdate
    <3>1. ~Guarded
      <4>1. s \in Range(undoSteps)
        <5>1. s = undoSteps[1] /\ 1 \in DOMAIN undoSteps
          BY <1>1, <1>2, HeadTail
        <5> QED
          BY <5>1 DEF Range
      <4> QED
        BY <1>2, <2>5, <4>1 DEF Updated
    <3> DEFINE q == queues
    <3>2. q \in CardQueues /\ Holding(q, card, undoSteps, redoSteps, clock)
      BY <2>5 DEF HInv, Typed
    <3>3. PICK h : History(h, q, card, undoSteps, redoSteps, clock)
      BY <3>2 DEF Holding
    <3>4. Holds(q, h[1])
      <4>1. Holds(q, h[0]) /\ Led(h[1], s, h[0], q.build, clock)
        BY <1>1, <1>2, <3>2, <3>3, MomentNow, MomentBefore
      <4>2. ~Mine(s, q.build)
        BY <2>5 DEF Mine
      <4> QED
        BY <4>1, <4>2 DEF Led
    <3> HIDE DEF q
    <3>5. \E g : History(g, q, [card EXCEPT ![s.id] = s.was], Tail(undoSteps), Append(redoSteps, Turned(s, card)), clock)
      BY <1>1, <1>2, <3>1, <3>2, <3>3, <3>4, HistoryUndoes
    <3>6. Holding(q, card', undoSteps', redoSteps', clock)
      BY <2>1, <3>1, <3>2, <3>5 DEF Holding, t
    <3>7. Typed'
      BY <1>1, <1>2, <2>1, <2>2, <2>3, <2>5 DEF Typed
    <3> QED
      BY <1>1, <2>3, <2>5, <3>1, <3>6, <3>7 DEF HInv, q
  <2>6. CASE queues' = Undone(queues, s.update) /\ SameBuild(s.update) /\ s.update # NoUpdate
    <3> DEFINE r == Undone(queues, s.update)
    <3>1. r \in CardQueues /\ Holding(r, card', undoSteps', redoSteps', clock)
      BY <1>1, <2>1, <2>6, PatchedBack DEF t
    <3> HIDE DEF r
    <3>2. queues' = r
      BY <2>6 DEF r
    <3>3. Typed'
      BY <1>1, <1>2, <2>1, <2>2, <2>3, <3>1, <3>2 DEF Typed
    <3> QED
      BY <1>1, <2>3, <3>1, <3>2, <3>3 DEF HInv, Showing
  <2> QED
    <3>1. s.kind \in {"AnswerCard", "Edit"}
      BY <1>2 DEF Step
    <3>2. \/ queues' = NoQueues
          \/ queues' = queues /\ s.kind = "AnswerCard" /\ s.update = NoUpdate
          \/ queues' = Undone(queues, s.update) /\ SameBuild(s.update) /\ s.update # NoUpdate
      <4>1. CASE s.kind = "Edit"
        BY <2>1, <4>1 DEF Replayed
      <4>2. CASE s.kind = "AnswerCard" /\ s.update = NoUpdate
        BY <2>1, <4>2 DEF Replayed
      <4>3. CASE s.kind = "AnswerCard" /\ s.update # NoUpdate
        BY <2>1, <4>3 DEF Replayed
      <4> QED
        BY <3>1, <4>1, <4>2, <4>3
    <3> QED
      BY <2>4, <2>5, <2>6, <3>2
<1> QED
  BY <1>3, <1>4

\* Giving again what was taken back on the same queue
LEMMA PatchedForth ==
    ASSUME HInv, redoSteps # <<>>, SameBuild(Last(redoSteps).update), Last(redoSteps).update # NoUpdate,
           NEW p \in RedoPositions(queues, Last(redoSteps).update)
    PROVE  LET s == Last(redoSteps)
               r == Redone(queues, s.update, p)
           IN  /\ r \in CardQueues
               /\ Holding(r, [card EXCEPT ![s.id] = s.was], <<Turned(s, card)>> \o undoSteps, Front(redoSteps), clock)
<1> DEFINE q  == queues
           s  == Last(redoSteps)
           u  == s.update
           us == undoSteps
           rs == redoSteps
           r  == Redone(q, u, p)
<1>1. /\ Typed /\ clock \in Nat /\ q \in CardQueues /\ card \in [Cards -> CardRecord]
      /\ us \in Seq(Step) /\ rs \in Seq(Step) /\ Holding(q, card, us, rs, clock)
  BY Numbers DEF HInv, Typed, SameBuild
<1>2. PICK h : History(h, q, card, us, rs, clock)
  BY <1>1 DEF Holding
<1> DEFINE m0 == h[0]
           m1 == h[0 - 1]
<1>3. /\ Holds(q, m0) /\ m1 \in Moment /\ Sound(m1, q.day) /\ Led(m0, s, m1, q.build, clock)
      /\ Orderly(q.main, Range(q.learning))
  BY <1>1, <1>2, MomentNow, MomentBefore
<1>4. s \in Step /\ Mine(s, q.build) /\ u \in QueueUpdate
  <2>1. s \in Step
    <3>1. Len(rs) \in 1..Len(rs)
      BY <1>1
    <3> QED
      BY <1>1, <3>1 DEF Last
  <2> QED
    BY <2>1, StepTimes DEF SameBuild, Mine
<1> HIDE DEF m0, m1, s
<1>5. Linked(m0, u, m1) /\ u.snapshot.cutoff <= clock /\ (Guarded => Counted1(u, m1))
  BY <1>3, <1>4 DEF Led
<1>6. m1.main \in Seq(MainEntry)
  BY <1>3 DEF Moment
<1>7. Distinct(q.learning) /\ q.day <= clock \div DayLength
      /\ (Guarded => \E t : q.counts = Tally(q.main, Range(q.learning), t))
  BY <1>1 DEF Holding
<1>8. p \in RedoPositions(q, u)
  BY DEF s
<1> HIDE DEF u, q, us, rs
<1>9. /\ r \in CardQueues /\ Holds(r, m1) /\ Distinct(r.learning)
      /\ r.cutoff = u.snapshot.cutoff /\ r.day = q.day /\ r.build = q.build
      /\ (Counted1(u, m1) /\ \E t : q.counts = Tally(q.main, Range(q.learning), t)) =>
           r.counts = Tally(r.main, Range(r.learning), Ahead(r))
  BY <1>8, <1>1, <1>3, <1>4, <1>5, <1>6, <1>7, RedoneFacts
<1> HIDE DEF r
<1>10. \E g : History(g, r, [card EXCEPT ![s.id] = s.was], <<Turned(s, card)>> \o us, Front(rs), clock)
  <2>1. rs # <<>> /\ s = Last(rs) /\ Holds(r, h[0 - 1]) /\ (Guarded => Mine(Last(rs), q.build))
    BY <1>4, <1>9 DEF rs, s, m1
  <2> QED
    BY <1>1, <1>2, <1>9, <2>1, HistoryRedoes
<1>11. Guarded => r.counts = Tally(r.main, Range(r.learning), Ahead(r))
  BY <1>5, <1>7, <1>9
<1>12. Holding(r, [card EXCEPT ![s.id] = s.was], <<Turned(s, card)>> \o us, Front(rs), clock)
  BY <1>5, <1>7, <1>9, <1>10, <1>11 DEF Holding
<1> QED
  BY <1>9, <1>12 DEF r, q, u, us, rs, s

\* The card of an answer taken back is where the redo looks for it.
LEMMA RedoFinds ==
    ASSUME HInv, redoSteps # <<>>
    PROVE  ~Refused(Last(redoSteps))
<1> DEFINE s == Last(redoSteps)
           u == s.update
           q == queues
<1> SUFFICES ASSUME u # NoUpdate, SameBuild(u) PROVE CanPop(q, u.entry.id)
  BY DEF Refused
<1>1. /\ Typed /\ q \in CardQueues /\ card \in [Cards -> CardRecord]
      /\ undoSteps \in Seq(Step) /\ redoSteps \in Seq(Step) /\ Holding(q, card, undoSteps, redoSteps, clock)
  BY DEF HInv, Typed, SameBuild
<1>2. PICK h : History(h, q, card, undoSteps, redoSteps, clock)
  BY <1>1 DEF Holding
<1> DEFINE m0 == h[0]
           m1 == h[0 - 1]
<1>3. Holds(q, m0) /\ Led(m0, s, m1, q.build, clock) /\ m1 \in Moment
  BY <1>1, <1>2, MomentNow, MomentBefore
<1>4. Mine(s, q.build) /\ u \in QueueUpdate
  <2>1. s \in Step
    <3>1. Len(redoSteps) \in 1..Len(redoSteps)
      BY <1>1
    <3> QED
      BY <1>1, <3>1 DEF Last
  <2> QED
    BY <2>1, StepTimes DEF SameBuild, Mine
<1> HIDE DEF m0, m1, s
<1>5. Linked(m0, u, m1) /\ m1.main \in Seq(MainEntry)
  BY <1>3, <1>4 DEF Led, Moment
<1> HIDE DEF u, q
<1> DEFINE e == u.entry
           l == m1.main
<1>6. e \in Entry /\ l \in Seq(MainEntry)
  BY <1>4, <1>5, UpdateFields
<1>7. CASE e.kind = "Learning"
  <2>1. e \in Range(q.learning)
    BY <1>3, <1>5, <1>7 DEF Linked, Holds
  <2> QED
    BY <2>1 DEF CanPop, Range
<1>8. CASE e.kind # "Learning"
  <2>1. q.main = <<e>> \o l /\ e \in MainEntry
    BY <1>3, <1>5, <1>6, <1>8, EntryFacts DEF Linked, Holds
  <2> HIDE DEF e, l
  <2>2. q.main # <<>> /\ Head(q.main) = e
    BY <1>6, <2>1, ConsFacts
  <2> QED
    BY <2>2 DEF CanPop, e
<1> QED
  BY <1>7, <1>8

LEMMA RedoKeeps ==
    ASSUME HInv, Redo
    PROVE  HInv'
<1> DEFINE s == Last(redoSteps)
           t == Turned(s, card)
<1>1. redoSteps # <<>> /\ shown' = NoCard /\ UNCHANGED clock
  BY DEF Redo
<1>2. /\ Typed /\ clock \in Nat /\ card \in [Cards -> CardRecord]
      /\ undoSteps \in Seq(Step) /\ redoSteps \in Seq(Step) /\ s \in Step
      /\ Len(undoSteps) + Len(redoSteps) <= MaxSteps
      /\ Guarded => Updated(undoSteps, redoSteps)
  <2>1. redoSteps \in Seq(Step)
    BY DEF HInv, Typed
  <2>2. s \in Step /\ s \in Range(redoSteps)
    <3>1. Len(redoSteps) \in DOMAIN redoSteps
      BY <1>1, <2>1
    <3> QED
      BY <2>1, <3>1 DEF Last, Range
  <2> QED
    BY <2>1, <2>2, Numbers DEF HInv, Typed
<1>3. CASE RollsOver(s)
  <2>1. Panic(s)
    BY <1>3 DEF Redo
  <2> QED
    BY <1>1, <1>2, <2>1, PanicKeeps
<1>4. CASE ~RollsOver(s) /\ Refused(s)
  BY <1>1, <1>4, RedoFinds
<1>5. CASE ~RollsOver(s) /\ ~Refused(s)
  <2>1. /\ queues' \in Replayed(s, {Redone(queues, s.update, p) : p \in RedoPositions(queues, s.update)})
        /\ card' = [card EXCEPT ![s.id] = s.was]
        /\ undoSteps' = <<t>> \o undoSteps /\ redoSteps' = Front(redoSteps) /\ UNCHANGED panicked
    BY <1>5 DEF Redo, RedoStep, Turned, Inverted
  <2>2. t \in Step /\ t.kind = s.kind /\ t.update = s.update /\ card' \in [Cards -> CardRecord]
    BY <1>2, <2>1, TurnedFacts
  <2> HIDE DEF t
  <2>3. /\ undoSteps' \in Seq(Step) /\ redoSteps' \in Seq(Step)
        /\ Len(undoSteps') + Len(redoSteps') <= MaxSteps
        /\ Guarded => Updated(undoSteps', redoSteps')
    BY <1>1, <1>2, <2>1, <2>2, RedoneSteps
  <2>4. CASE queues' = NoQueues
    <3>1. Typed'
      BY <1>1, <1>2, <2>1, <2>2, <2>3, <2>4 DEF Typed
    <3> QED
      BY <1>1, <2>3, <2>4, <3>1, WithoutQueue
  <2>5. CASE queues' = queues /\ queues # NoQueues /\ s.kind = "AnswerCard" /\ s.update = NoUpdate
    <3>1. ~Guarded
      <4>1. s \in Range(redoSteps)
        <5>1. Len(redoSteps) \in DOMAIN redoSteps
          BY <1>1, <1>2
        <5> QED
          BY <5>1 DEF Last, Range
      <4> QED
        BY <1>2, <2>5, <4>1 DEF Updated
    <3> DEFINE q == queues
    <3>2. q \in CardQueues /\ Holding(q, card, undoSteps, redoSteps, clock)
      BY <2>5 DEF HInv, Typed
    <3>3. PICK h : History(h, q, card, undoSteps, redoSteps, clock)
      BY <3>2 DEF Holding
    <3>4. Holds(q, h[0 - 1])
      <4>1. Holds(q, h[0]) /\ Led(h[0], s, h[0 - 1], q.build, clock)
        BY <1>1, <1>2, <3>2, <3>3, MomentNow, MomentBefore
      <4>2. ~Mine(s, q.build)
        BY <2>5 DEF Mine
      <4> QED
        BY <4>1, <4>2 DEF Led
    <3> HIDE DEF q
    <3>5. \E g : History(g, q, [card EXCEPT ![s.id] = s.was], <<Turned(s, card)>> \o undoSteps, Front(redoSteps), clock)
      BY <1>1, <1>2, <3>1, <3>2, <3>3, <3>4, HistoryRedoes
    <3>6. Holding(q, card', undoSteps', redoSteps', clock)
      BY <2>1, <3>1, <3>2, <3>5 DEF Holding, t
    <3>7. Typed'
      BY <1>1, <1>2, <2>1, <2>2, <2>3, <2>5 DEF Typed
    <3> QED
      BY <1>1, <2>3, <2>5, <3>1, <3>6, <3>7 DEF HInv, q
  <2>6. CASE /\ SameBuild(s.update) /\ s.update # NoUpdate
             /\ \E p \in RedoPositions(queues, s.update) : queues' = Redone(queues, s.update, p)
    <3>1. PICK p \in RedoPositions(queues, s.update) : queues' = Redone(queues, s.update, p)
      BY <2>6
    <3> DEFINE r == Redone(queues, s.update, p)
    <3>2. r \in CardQueues /\ Holding(r, card', undoSteps', redoSteps', clock)
      BY <1>1, <2>1, <2>6, PatchedForth DEF t
    <3> HIDE DEF r
    <3>3. queues' = r
      BY <3>1 DEF r
    <3>4. Typed'
      BY <1>1, <1>2, <2>1, <2>2, <2>3, <3>2, <3>3 DEF Typed
    <3> QED
      BY <1>1, <2>3, <3>2, <3>3, <3>4 DEF HInv, Showing
  <2> QED
    <3> DEFINE Ps == {Redone(queues, s.update, p) : p \in RedoPositions(queues, s.update)}
    <3>1. s.kind \in {"AnswerCard", "Edit"}
      BY <1>2 DEF Step
    <3>2. queues' \in Replayed(s, Ps)
      BY <2>1
    <3> HIDE DEF Ps
    <3>3. \/ queues' = NoQueues
          \/ queues' = queues /\ s.kind = "AnswerCard" /\ s.update = NoUpdate
          \/ queues' \in Ps /\ SameBuild(s.update) /\ s.update # NoUpdate
      <4>1. CASE s.kind = "Edit"
        BY <3>2, <4>1 DEF Replayed
      <4>2. CASE s.kind = "AnswerCard" /\ s.update = NoUpdate
        BY <3>2, <4>2 DEF Replayed
      <4>3. CASE s.kind = "AnswerCard" /\ s.update # NoUpdate
        BY <3>2, <4>3 DEF Replayed
      <4> QED
        BY <3>1, <4>1, <4>2, <4>3
    <3> QED
      BY <2>4, <2>5, <2>6, <3>3 DEF Ps
<1> QED
  BY <1>3, <1>4, <1>5

LEMMA InitHolds ==
    ASSUME Init
    PROVE  HInv
<1>1. <<>> \in Seq(Step) /\ Len(<<>>) = 0 /\ Range(<<>>) = {}
  BY DEF Range
<1>2. clock \in Time /\ MaxSteps \in Nat /\ 0 \in Time
  BY Numbers DEF Init
<1>3. card \in [Cards -> CardRecord]
  <2> DEFINE Start(k) == CASE k = "New"      -> {Starting("New", 0, FALSE, "deck")}
                           [] k = "Learn"    -> {Starting("Learn", d, TRUE, "deck") : d \in Delays}
                           [] k = "DayLearn" -> {Starting("DayLearn", 0, TRUE, "deck")}
                           [] k = "Buried"   -> {Starting("Review", 0, TRUE, "buried")}
             All == UNION {Start(k) : k \in StartAs}
  <2>1. card \in [Cards -> All]
    BY DEF Init
  <2>2. StartAs \subseteq {"New", "Learn", "DayLearn", "Buried"} /\ Delays \subseteq Nat
    BY QueueAssumption
  <2>3. \A k \in StartAs : Start(k) \subseteq CardRecord
    <3> TAKE k \in StartAs
    <3>1. CASE k = "New"
      BY <1>2, <3>1 DEF Starting, CardRecord
    <3>2. CASE k = "Learn"
      <4>1. \A d \in Delays : Starting("Learn", d, TRUE, "deck") \in CardRecord
        BY <1>2, <2>2 DEF Starting, CardRecord
      <4>2. Start(k) = {Starting("Learn", d, TRUE, "deck") : d \in Delays}
        BY <3>2
      <4> QED
        BY <4>1, <4>2
    <3>3. CASE k = "DayLearn"
      BY <1>2, <3>3 DEF Starting, CardRecord
    <3>4. CASE k = "Buried"
      BY <1>2, <3>4 DEF Starting, CardRecord
    <3> QED
      BY <2>2, <3>1, <3>2, <3>3, <3>4
  <2> HIDE DEF Start
  <2>4. All \subseteq CardRecord
    BY <2>3
  <2> HIDE DEF All
  <2> QED
    BY <2>1, <2>4
<1>4. queues = NoQueues /\ undoSteps = <<>> /\ redoSteps = <<>> /\ shown = NoCard /\ panicked = FALSE
  BY DEF Init
<1>5. Typed
  <2>1. undoSteps \in Seq(Step) /\ redoSteps \in Seq(Step)
    BY <1>1, <1>4
  <2>2. Len(undoSteps) + Len(redoSteps) <= MaxSteps
    <3>1. Len(undoSteps) = 0 /\ Len(redoSteps) = 0
      BY <1>1, <1>4
    <3> QED
      BY <1>2, <3>1
  <2>3. queues \in CardQueues \cup {NoQueues} /\ shown \in Cards \cup {NoCard} /\ panicked \in BOOLEAN
    BY <1>4
  <2> QED
    BY <1>2, <1>3, <2>1, <2>2, <2>3 DEF Typed
<1>6. Updated(undoSteps, redoSteps)
  BY <1>1, <1>4 DEF Updated
<1> QED
  BY <1>4, <1>5, <1>6 DEF HInv, Showing

LEMMA TickKeeps ==
    ASSUME HInv, Tick
    PROVE  HInv'
<1>1. PICK now : now = clock'
  OBVIOUS
<1>2. /\ clock \in Nat /\ now \in Nat /\ clock <= now /\ now \in Time
      /\ UNCHANGED <<card, queues, undoSteps, redoSteps, shown, panicked>>
  <2>1. clock \in Time /\ clock \in Nat /\ MaxTime \in Nat /\ Time = 0..MaxTime
    BY Numbers DEF HInv, Typed
  <2>2. clock < MaxTime /\ clock' = clock + 1
    BY DEF Tick
  <2> QED
    BY <1>1, <2>1, <2>2 DEF Tick, undoVars
<1>3. Typed'
  BY <1>1, <1>2 DEF HInv, Typed
<1>4. ASSUME queues # NoQueues PROVE Holding(queues, card, undoSteps, redoSteps, now)
  <2> DEFINE q == queues
  <2>1. /\ q \in CardQueues /\ undoSteps \in Seq(Step) /\ redoSteps \in Seq(Step)
        /\ Holding(q, card, undoSteps, redoSteps, clock)
    BY <1>4 DEF HInv, Typed
  <2> HIDE DEF q
  <2>2. PICK h : History(h, q, card, undoSteps, redoSteps, clock)
    BY <2>1 DEF Holding
  <2>3. History(h, q, card, undoSteps, redoSteps, now)
    BY <1>2, <2>1, <2>2, HistoryStays
  <2>4. q.cutoff <= now /\ q.day <= now \div DayLength
    <3>1. q.cutoff \in Time /\ q.day \in Nat
      BY <2>1, QueueFields
    <3>2. q.cutoff \in Nat
      BY <3>1, Numbers
    <3>3. clock \div DayLength <= now \div DayLength /\ clock \div DayLength \in Nat
      BY <1>2, DayGrows
    <3>4. now \div DayLength \in Nat
      <4>1. now <= now
        BY <1>2
      <4> QED
        BY <1>2, <4>1, DayGrows
    <3>5. q.cutoff <= clock /\ q.day <= clock \div DayLength
      BY <2>1 DEF Holding
    <3> QED
      BY <1>2, <3>1, <3>2, <3>3, <3>4, <3>5
  <2>5. Holding(q, card, undoSteps, redoSteps, now)
    BY <2>1, <2>3, <2>4 DEF Holding
  <2> QED
    BY <2>5 DEF q
<1>5. ASSUME Guarded PROVE Showing(shown, queues, card, now)
  <2>1. Showing(shown, queues, card, clock)
    BY <1>5 DEF HInv
  <2>2. shown # NoCard => card[shown].due \in Nat
    BY DEF HInv, Typed, CardRecord
  <2>3. LearnAhead \in Nat
    BY Numbers
  <2> QED
    BY <1>2, <2>1, <2>2, <2>3 DEF Showing
<1> QED
  BY <1>1, <1>2, <1>3, <1>4, <1>5 DEF HInv

LEMMA RebuildKeeps ==
    ASSUME HInv, NEW id \in Cards, RebuildPreserving(id)
    PROVE  HInv'
<1>1. /\ card[id].at = "deck" /\ queues' \in BuiltQueues(CardsToday, {id}) /\ ClearIfDayChanged
      /\ UNCHANGED <<shown, clock, panicked>>
  BY DEF RebuildPreserving
<1>2. PICK us, rs, q : us = undoSteps' /\ rs = redoSteps' /\ q = queues'
  OBVIOUS
<1>3. /\ StepsLeft(us, rs) /\ us \in Seq(Step) /\ rs \in Seq(Step) /\ Len(us) + Len(rs) <= MaxSteps
      /\ (Guarded => Updated(us, rs)) /\ card' = CardsToday
  BY <1>1, <1>2, ClearedSteps
<1>4. /\ CardsToday \in [Cards -> CardRecord] /\ Typed /\ clock \in Time
      /\ \A x \in Cards : CardsToday[x].queue = card[x].queue /\ CardsToday[x].due = card[x].due
      /\ CardsToday[id].at = "deck"
  BY <1>1, UnburiedFacts DEF HInv, Typed
<1> DEFINE pinned == {id}
<1>5. q \in BuiltQueues(CardsToday, pinned) /\ pinned \in SUBSET Cards /\ \A x \in pinned : CardsToday[x].at = "deck"
  BY <1>1, <1>2, <1>4
<1> HIDE DEF pinned
<1>6. Holding(q, CardsToday, us, rs, clock)
  BY <1>3, <1>4, <1>5, BuiltHolds DEF StepsLeft
<1>7. NewBuild \in Builds
  BY <1>4, NewBuildIsNew DEF Typed
<1>8. /\ q \in CardQueues /\ q.cutoff = clock /\ \A e \in Range(q.learning) : e.due = CardsToday[e.id].due
      /\ Fresh(MomentOf(q, CardsToday))
  BY <1>4, <1>5, <1>7, BuiltFacts
<1>9. Typed'
  BY <1>1, <1>2, <1>3, <1>4, <1>8 DEF Typed
<1>10. ASSUME Guarded PROVE Showing(shown, q, CardsToday, clock)
  <2> SUFFICES ASSUME shown # NoCard
               PROVE  /\ q # NoQueues
                      /\ CardsToday[shown].queue = "Learn" => CardsToday[shown].due <= clock + LearnAhead
                      /\ \A e \in Range(q.learning) : e.id = shown => e.due <= Ahead(q)
    BY DEF Showing
  <2>1. shown \in Cards /\ Showing(shown, queues, card, clock)
    BY <1>10 DEF HInv, Typed
  <2>2. CardsToday[shown].queue = "Learn" => CardsToday[shown].due <= clock + LearnAhead
    BY <1>4, <2>1 DEF Showing
  <2>3. ASSUME NEW e \in Range(q.learning), e.id = shown PROVE e.due <= Ahead(q)
    <3>1. CardsToday[shown].queue = "Learn" /\ e.due = CardsToday[shown].due
      BY <1>8, <2>3, MomentFields DEF Fresh
    <3> QED
      BY <1>8, <2>2, <3>1 DEF Ahead
  <2> QED
    BY <1>8, <2>2, <2>3, NullAssumption
<1> QED
  BY <1>1, <1>2, <1>3, <1>6, <1>9, <1>10 DEF HInv

LEMMA NextKeeps ==
    ASSUME HInv, Ordered => Lined, [Next]_vars
    PROVE  HInv'
<1>1. CASE GetNextCard
  BY <1>1, GetNextCardKeeps
<1>2. CASE Peek
  BY <1>2, PeekKeeps
<1>3. CASE Undo
  BY <1>3, UndoKeeps
<1>4. CASE Redo
  BY <1>4, RedoKeeps
<1>5. ASSUME NEW id \in Cards, Answer(id) PROVE HInv'
  BY <1>5, AnswerKeeps
<1>6. ASSUME NEW id \in Cards, Bury(id) PROVE HInv'
  <2> DEFINE c == [card[id] EXCEPT !.at = "buried"]
  <2>1. c \in CardRecord /\ EditCard(id, c)
    BY <1>6 DEF Bury, HInv, Typed, CardRecord
  <2> HIDE DEF c
  <2> QED
    BY <2>1, EditKeeps
<1>7. ASSUME NEW id \in Cards, SetDueToday(id) PROVE HInv'
  <2> DEFINE c == [card[id] EXCEPT !.queue = "Review", !.due = Day]
  <2>1. Day \in Nat
    <3>1. clock \in Nat
      BY Numbers DEF HInv, Typed
    <3>2. clock <= clock
      BY <3>1
    <3> QED
      BY <3>1, <3>2, DayGrows DEF Day
  <2>2. c \in CardRecord /\ EditCard(id, c)
    BY <1>7, <2>1 DEF SetDueToday, HInv, Typed, CardRecord
  <2> HIDE DEF c
  <2> QED
    BY <2>2, EditKeeps
<1>8. ASSUME NEW id \in Cards, RebuildPreserving(id) PROVE HInv'
  BY <1>8, RebuildKeeps
<1>9. CASE InstallScores
  <2>1. Guarded => shown' = NoCard
    BY <1>9 DEF InstallScores, Guarded
  <2>2. Typed' /\ queues' = NoQueues /\ (Guarded => Updated(undoSteps', redoSteps'))
    BY <1>9 DEF InstallScores, undoVars, HInv, Typed
  <2> QED
    BY <2>1, <2>2, WithoutQueue
<1>10. CASE TransactNoUndo
  <2>1. Guarded => shown' = NoCard
    BY <1>10 DEF TransactNoUndo, Guarded
  <2>2. Typed' /\ queues' = NoQueues /\ Updated(undoSteps', redoSteps')
    BY <1>10, DiscardFacts DEF TransactNoUndo, HInv, Typed
  <2> QED
    BY <2>1, <2>2, WithoutQueue
<1>11. CASE Restart
  <2>1. Typed' /\ queues' = NoQueues /\ Updated(undoSteps', redoSteps') /\ shown' = NoCard
    BY <1>11, DiscardFacts DEF Restart, HInv, Typed
  <2> QED
    BY <2>1, WithoutQueue
<1>12. CASE Tick
  BY <1>12, TickKeeps
<1>13. CASE UNCHANGED vars
  BY <1>13 DEF vars, undoVars, HInv, Typed, Holding, Updated, Showing
<1> QED
  BY <1>1, <1>2, <1>3, <1>4, <1>5, <1>6, <1>7, <1>8, <1>9, <1>10, <1>11, <1>12, <1>13 DEF Next

-----------------------------------------------------------------------------
(* The properties                                                          *)

\* A list without repeated cards has as many cards as entries.
LEMMA IdsOf ==
    ASSUME NEW S, NEW s \in Seq(S), Distinct(s)
    PROVE  LET I == {e.id : e \in Range(s)} IN IsFiniteSet(I) /\ Cardinality(I) = Len(s)
<1> DEFINE I == {e.id : e \in Range(s)}
           D == 1..Len(s)
           f == [i \in D |-> s[i].id]
<1>1. DOMAIN s = D /\ Len(s) \in Nat
  OBVIOUS
<1>2. IsFiniteSet(D) /\ Cardinality(D) = Len(s)
  BY <1>1, FS_Interval
<1>3. f \in [D -> I]
  BY <1>1 DEF Range
<1>4. \A i, j \in D : f[i] = f[j] => i = j
  BY <1>1 DEF Distinct
<1>5. \A x \in I : \E i \in D : f[i] = x
  BY <1>1 DEF Range
<1> HIDE DEF f, D, I
<1>6. f \in Bijection(D, I)
  BY <1>3, <1>4, <1>5 DEF Bijection, Injection, Surjection, IsInjective
<1>7. ExistsBijection(D, I)
  BY <1>6 DEF ExistsBijection
<1> QED
  BY <1>2, <1>7, FS_Bijection DEF I

LEMMA QueueHeld ==
    ASSUME HInv, queues # NoQueues
    PROVE  /\ queues \in CardQueues /\ queues.main \in Seq(MainEntry) /\ queues.learning \in Seq(LearningEntry)
           /\ Distinct(queues.learning) /\ Orderly(queues.main, Range(queues.learning))
           /\ Guarded => /\ queues.counts = Tally(queues.main, Range(queues.learning), Ahead(queues))
                         /\ Fresh(MomentOf(queues, card)) /\ KeptOn(MomentOf(queues, card), queues.day)
<1> DEFINE q == queues
<1>1. /\ q \in CardQueues /\ card \in [Cards -> CardRecord] /\ undoSteps \in Seq(Step) /\ redoSteps \in Seq(Step)
      /\ Holding(q, card, undoSteps, redoSteps, clock)
  BY DEF HInv, Typed
<1> HIDE DEF q
<1>2. PICK h : History(h, q, card, undoSteps, redoSteps, clock)
  BY <1>1 DEF Holding
<1>3. /\ Orderly(q.main, Range(q.learning))
      /\ Guarded => Fresh(MomentOf(q, card)) /\ KeptOn(MomentOf(q, card), q.day)
  BY <1>1, <1>2, MomentNow
<1>4. q.main \in Seq(MainEntry) /\ q.learning \in Seq(LearningEntry)
  BY <1>1, QueueFields
<1> QED
  BY <1>1, <1>3, <1>4 DEF Holding, q

LEMMA NoneTwice ==
    ASSUME HInv
    PROVE  NoCardTwice
<1> SUFFICES ASSUME queues # NoQueues
             PROVE  Cardinality({e.id : e \in Entries(queues)}) = Len(queues.main) + Len(queues.learning)
  BY DEF NoCardTwice
<1> DEFINE m == queues.main
           l == queues.learning
           A == {e.id : e \in Range(m)}
           B == {e.id : e \in Range(l)}
<1>1. m \in Seq(MainEntry) /\ l \in Seq(LearningEntry) /\ Distinct(l) /\ Orderly(m, Range(l))
  BY QueueHeld
<1>2. {e.id : e \in Entries(queues)} = A \cup B
  BY DEF Entries
<1> HIDE DEF m, l
<1>3. IsFiniteSet(A) /\ Cardinality(A) = Len(m)
  BY <1>1, IdsOf DEF Orderly
<1>4. IsFiniteSet(B) /\ Cardinality(B) = Len(l)
  BY <1>1, IdsOf
<1>5. A \cap B = {}
  BY <1>1 DEF Orderly
<1> HIDE DEF A, B
<1>6. Cardinality(A \cup B) = Cardinality(A) + Cardinality(B) - Cardinality(A \cap B)
  BY <1>3, <1>4, FS_Union
<1>7. Cardinality(A \cap B) = 0
  BY <1>5, FS_EmptySet
<1>8. Len(m) \in Nat /\ Len(l) \in Nat
  BY <1>1
<1>9. Cardinality(A \cup B) = Len(m) + Len(l)
  BY <1>3, <1>4, <1>6, <1>7, <1>8
<1> QED
  BY <1>2, <1>9 DEF m, l

LEMMA CountsAreRight ==
    ASSUME HInv, Guarded
    PROVE  CountsMatch
<1> SUFFICES ASSUME queues # NoQueues PROVE CountsMatch
  BY DEF CountsMatch
<1> DEFINE m == queues.main
           l == queues.learning
           t == Ahead(queues)
<1>1. /\ m \in Seq(MainEntry) /\ l \in Seq(LearningEntry) /\ Distinct(l) /\ Distinct(m)
      /\ queues.counts = Tally(m, Range(l), t)
  BY QueueHeld DEF Orderly
<1> HIDE DEF m, l, t
<1>2. /\ CountKind(m, "New") = KindCount(m, "New")
      /\ CountKind(m, "Review") = KindCount(m, "Review")
      /\ CountKind(m, "InterdayLearning") = KindCount(m, "InterdayLearning")
  BY <1>1, KindCountIs
<1>3. Cardinality({i \in DOMAIN l : l[i].due <= t}) = DueCount(Range(l), t)
  BY <1>1, DueCountIs
<1>4. queues.counts = [new |-> CountKind(m, "New"), review |-> CountKind(m, "Review"),
                       learning |-> CountKind(m, "InterdayLearning") + Cardinality({i \in DOMAIN l : l[i].due <= t})]
  BY <1>1, <1>2, <1>3 DEF Tally
<1> QED
  BY <1>4 DEF CountsMatch, m, l, t

LEMMA EntriesAreFresh ==
    ASSUME HInv, Guarded
    PROVE  QueueFresh
<1> SUFFICES ASSUME queues # NoQueues, NEW e \in Entries(queues)
             PROVE  /\ card[e.id].at = "deck" /\ card[e.id].mtime = e.mtime
                    /\ e.kind = (IF card[e.id].queue = "Learn" THEN "Learning" ELSE MainEntryOf(e.id, card[e.id]).kind)
  BY DEF QueueFresh
<1>1. queues.learning \in Seq(LearningEntry) /\ Fresh(MomentOf(queues, card))
  BY QueueHeld
<1>2. CASE e \in Range(queues.main)
  BY <1>1, <1>2, MomentFields DEF Fresh
<1>3. CASE e \in Range(queues.learning)
  <2>1. e.kind = "Learning"
    BY <1>1, <1>3, RangeFinite, EntryFacts
  <2> QED
    BY <1>1, <1>3, <2>1, MomentFields DEF Fresh
<1> QED
  BY <1>2, <1>3 DEF Entries

LEMMA LearnersAreKept ==
    ASSUME HInv, Guarded
    PROVE  LearnersKept
<1> SUFFICES ASSUME queues # NoQueues, queues.day = Day, NEW id \in LearningDue(card)
             PROVE  \E i \in DOMAIN queues.learning : queues.learning[i].id = id
  BY DEF LearnersKept
<1>1. KeptOn(MomentOf(queues, card), queues.day)
  BY QueueHeld
<1>2. /\ id \in Cards /\ card[id].at = "deck" /\ card[id].queue = "Learn"
      /\ card[id].due < (queues.day + 1) * DayLength
  BY DEF LearningDue, NextDayAt
<1>3. \E e \in Range(queues.learning) : e.id = id
  BY <1>1, <1>2, MomentFields DEF KeptOn
<1> QED
  BY <1>3 DEF Range

\* The card shown can be popped, as long as nobody else asks for the queue.
LEMMA ShownStaysPoppable ==
    ASSUME HInv, ShownCanBeAnswered, "peek" \notin Background, [Next]_vars
    PROVE  ShownCanBeAnswered'
<1> SUFFICES ASSUME shown' # NoCard, queues' # NoQueues PROVE CanPop(queues', shown')
  BY DEF ShownCanBeAnswered
<1>1. CASE GetNextCard
  <2>1. PICK q \in GetQueues : Show(q)
    BY <1>1 DEF GetNextCard
  <2> DEFINE r   == Counted(q)
             top == TopEntry(r)
  <2>2. queues' = r /\ top # NoEntry /\ shown' = top.id
    BY <2>1 DEF Show
  <2>3. PICK us, rs : us = undoSteps' /\ rs = redoSteps'
    OBVIOUS
  <2>4. /\ StepsLeft(us, rs) /\ (~DayChanged => us = undoSteps /\ rs = redoSteps)
        /\ us \in Seq(Step) /\ rs \in Seq(Step)
    BY <1>1, <2>3, ClearedSteps DEF GetNextCard
  <2>5. q \in CardQueues /\ Holding(q, CardsToday, us, rs, clock)
    BY <2>4, GottenHolds
  <2>6. CardsToday \in [Cards -> CardRecord] /\ Typed
    BY UnburiedFacts DEF HInv, Typed
  <2>7. r \in CardQueues
    BY <2>4, <2>5, <2>6, CountedHolds
  <2> HIDE DEF r
  <2>8. CanPop(r, top.id)
    BY <2>2, <2>7, TopEntryFacts
  <2> QED
    BY <2>2, <2>8
<1>2. ASSUME NEW id \in Cards, RebuildPreserving(id) PROVE CanPop(queues', shown')
  <2>1. /\ shown' = shown /\ id = shown /\ card[id].at = "deck" /\ queues' \in BuiltQueues(CardsToday, {id})
    BY <1>2 DEF RebuildPreserving
  <2>2. /\ CardsToday \in [Cards -> CardRecord] /\ clock \in Time /\ CardsToday[id].at = "deck"
    BY <2>1, UnburiedFacts DEF HInv, Typed
  <2>3. NewBuild \in Builds
    BY NewBuildIsNew DEF HInv, Typed
  <2> DEFINE pinned == {id}
  <2>4. PICK q : q = queues'
    OBVIOUS
  <2>5. q \in BuiltQueues(CardsToday, pinned) /\ pinned \in SUBSET Cards /\ \A x \in pinned : CardsToday[x].at = "deck"
    BY <2>1, <2>2, <2>4
  <2>6. pinned = {id}
    OBVIOUS
  <2> HIDE DEF pinned
  <2>7. CanPop(q, id)
    BY <2>2, <2>3, <2>5, <2>6, BuiltFacts
  <2> QED
    BY <2>1, <2>4, <2>7
<1>3. CASE Peek
  BY <1>3 DEF Peek
<1>4. CASE Tick \/ UNCHANGED vars
  BY <1>4 DEF Tick, vars, undoVars, ShownCanBeAnswered
<1>5. CASE InstallScores \/ TransactNoUndo \/ Restart
  BY <1>5 DEF InstallScores, TransactNoUndo, Restart
<1>6. CASE Undo \/ Redo
  BY <1>6 DEF Undo, Redo
<1>7. ASSUME NEW id \in Cards, Answer(id) \/ Bury(id) \/ SetDueToday(id) PROVE FALSE
  BY <1>7 DEF Answer, Bury, SetDueToday, EditCard
<1> QED
  BY <1>1, <1>2, <1>3, <1>4, <1>5, <1>6, <1>7 DEF Next

\* A queue with a card at the top has not counted down to nothing.
LEMMA TopIsCounted ==
    ASSUME NEW q \in CardQueues, Distinct(q.learning), Distinct(q.main),
           q.counts = Tally(q.main, Range(q.learning), Ahead(q)), TopEntry(q) # NoEntry
    PROVE  /\ q.counts # [new |-> 0, learning |-> 0, review |-> 0]
           /\ TopEntry(q).kind \in {"Learning", "InterdayLearning"} => q.counts.learning # 0
<1> DEFINE m == q.main
           L == Range(q.learning)
           t == Ahead(q)
           top == TopEntry(q)
<1>1. m \in Seq(MainEntry) /\ q.learning \in Seq(LearningEntry)
  BY QueueFields
<1>2. IsFiniteSet(Range(m)) /\ Range(m) \subseteq MainEntry /\ IsFiniteSet(L)
  BY <1>1, RangeFinite
<1>3. \/ top \in Range(m)
      \/ top \in L /\ top.due <= t
  BY TopEntryFacts
<1> HIDE DEF top
<1>4. /\ KindCount(m, "New") \in Nat /\ KindCount(m, "Review") \in Nat
      /\ KindCount(m, "InterdayLearning") \in Nat /\ DueCount(L, t) \in Nat
  <2>1. Distinct(m)
    OBVIOUS
  <2> HIDE DEF m
  <2> QED
    BY <1>1, <2>1, KindCountIs, DueCountIs
<1>5. q.counts = Tally(m, L, t)
  OBVIOUS
<1> HIDE DEF m, L, t
<1>6. CASE top \in Range(m)
  <2> DEFINE A == {e \in Range(m) : e.kind = top.kind}
  <2>1. IsFiniteSet(A) /\ top \in A
    BY <1>2, <1>6, FS_Subset
  <2>2. Cardinality(A) # 0
    <3> HIDE DEF A
    <3> QED
      BY <2>1, FS_EmptySet
  <2>3. KindCount(m, top.kind) # 0
    BY <2>2 DEF KindCount
  <2>4. top.kind \in MainKind
    BY <1>2, <1>6, EntryFacts
  <2>5. q.counts # [new |-> 0, learning |-> 0, review |-> 0]
    BY <1>4, <1>5, <2>3, <2>4 DEF MainKind, Tally
  <2>6. top.kind = "InterdayLearning" => q.counts.learning # 0
    BY <1>4, <1>5, <2>3 DEF Tally
  <2> QED
    BY <2>4, <2>5, <2>6 DEF MainKind, top
<1>7. CASE top \in L /\ top.due <= t
  <2> DEFINE A == {e \in L : e.due <= t}
  <2>1. IsFiniteSet(A) /\ top \in A
    BY <1>2, <1>7, FS_Subset
  <2>2. Cardinality(A) # 0
    <3> HIDE DEF A
    <3> QED
      BY <2>1, FS_EmptySet
  <2>3. DueCount(L, t) # 0
    BY <2>2 DEF DueCount
  <2>4. q.counts.learning # 0
    BY <1>4, <1>5, <2>3 DEF Tally
  <2> QED
    BY <2>4 DEF top
<1> QED
  BY <1>3, <1>6, <1>7

\* counts() leaves a queue alone that has a card at the top.
LEMMA CountedStays ==
    ASSUME HInv, Guarded, queues # NoQueues, TopEntry(queues) # NoEntry
    PROVE  Counted(queues) = queues
<1> DEFINE q == queues
<1>1. /\ q \in CardQueues /\ Distinct(q.learning) /\ Distinct(q.main)
      /\ q.counts = Tally(q.main, Range(q.learning), Ahead(q))
  BY QueueHeld DEF Orderly
<1>2. TopEntry(q) # NoEntry
  OBVIOUS
<1> HIDE DEF q
<1>3. q.counts # [new |-> 0, learning |-> 0, review |-> 0]
  BY <1>1, <1>2, TopIsCounted
<1>4. Counted(q) = q
  BY <1>3 DEF Counted
<1> QED
  BY <1>4 DEF q

\* The reviewer that asks again gets the same card.
LEMMA StaysOnTheCard ==
    ASSUME HInv, Guarded, [Next]_vars,
           shown # NoCard, shown' # NoCard, queues # NoQueues, queues' # NoQueues,
           TopEntry(queues) # NoEntry, shown = TopEntry(queues).id, queues'.build = queues.build
    PROVE  shown' = shown
<1>1. CASE GetNextCard
  <2>1. PICK q \in GetQueues : Show(q)
    BY <1>1 DEF GetNextCard
  <2>2. CASE q = queues
    <3>1. Counted(q) = q
      BY <2>2, CountedStays
    <3>2. shown' = TopEntry(Counted(q)).id
      BY <2>1 DEF Show
    <3> QED
      BY <2>2, <3>1, <3>2
  <2>3. CASE q \in BuiltQueues(CardsToday, {})
    <3>1. NewBuild \in Builds /\ NewBuild \notin UsedBuilds
      BY NewBuildIsNew DEF HInv, Typed
    <3>2. queues.build \in UsedBuilds
      BY DEF UsedBuilds
    <3>3. CardsToday \in [Cards -> CardRecord] /\ Typed /\ clock \in Time
      BY UnburiedFacts DEF HInv, Typed
    <3>4. q.build = NewBuild /\ q \in CardQueues /\ Holding(q, CardsToday, undoSteps, redoSteps, clock)
      BY <2>3, <3>1, <3>3, BuiltFacts, BuiltHolds
    <3>5. Counted(q).build = q.build
      BY <3>3, <3>4, CountedHolds DEF Typed
    <3>6. queues' = Counted(q)
      BY <2>1 DEF Show
    <3> QED
      BY <3>1, <3>2, <3>4, <3>5, <3>6
  <2> QED
    BY <2>2, <2>3 DEF GetQueues
<1>2. ASSUME NEW id \in Cards, RebuildPreserving(id) PROVE shown' = shown
  BY <1>2 DEF RebuildPreserving
<1>3. CASE Peek
  BY <1>3 DEF Peek
<1>4. CASE Tick \/ UNCHANGED vars
  BY <1>4 DEF Tick, vars
<1>5. CASE InstallScores \/ TransactNoUndo \/ Restart
  BY <1>5 DEF InstallScores, TransactNoUndo, Restart
<1>6. CASE Undo \/ Redo
  BY <1>6 DEF Undo, Redo
<1>7. ASSUME NEW id \in Cards, Answer(id) \/ Bury(id) \/ SetDueToday(id) PROVE FALSE
  BY <1>7 DEF Answer, Bury, SetDueToday, EditCard
<1> QED
  BY <1>1, <1>2, <1>3, <1>4, <1>5, <1>6, <1>7 DEF Next

-----------------------------------------------------------------------------
(* The order of the learning cards                                         *)

LEMMA RemovedFrom ==
    ASSUME NEW S, NEW s \in Seq(S), NEW p \in 1..Len(s)
    PROVE  Range(RemoveAt(s, p)) \subseteq Range(s)
<1> DEFINE r == RemoveAt(s, p)
<1>1. Len(s) \in Nat /\ DOMAIN s = 1..Len(s)
  OBVIOUS
<1>2. r \in Seq(S) /\ Len(r) = Len(s) - 1 /\ \A i \in 1..(Len(s) - 1) : r[i] = IF i < p THEN s[i] ELSE s[i + 1]
  BY RemovedAt
<1> HIDE DEF r
<1>3. DOMAIN r = 1..(Len(s) - 1)
  BY <1>2
<1>4. ASSUME NEW i \in DOMAIN r PROVE r[i] \in Range(s)
  <2>1. i \in DOMAIN s /\ i + 1 \in DOMAIN s
    BY <1>1, <1>3
  <2> QED
    BY <1>2, <1>3, <2>1 DEF Range
<1> QED
  BY <1>4 DEF Range, r

\* What is taken out of a list, put into one at its place, or put in front of one
\* leaves the list in order.
LEMMA RemovedInOrder ==
    ASSUME NEW S, NEW s \in Seq(S), NEW p \in 1..Len(s), InOrder(s)
    PROVE  InOrder(RemoveAt(s, p))
<1> DEFINE r == RemoveAt(s, p)
<1>1. Len(s) \in Nat /\ DOMAIN s = 1..Len(s) /\ p \in Nat
  OBVIOUS
<1>2. r \in Seq(S) /\ Len(r) = Len(s) - 1 /\ \A i \in 1..(Len(s) - 1) : r[i] = IF i < p THEN s[i] ELSE s[i + 1]
  BY RemovedAt
<1> DEFINE from(i) == IF i < p THEN i ELSE i + 1
<1> HIDE DEF r
<1>3. DOMAIN r = 1..(Len(s) - 1)
  BY <1>2
<1>4. \A i \in DOMAIN r : from(i) \in DOMAIN s /\ r[i] = s[from(i)]
  BY <1>1, <1>2, <1>3
<1>5. \A i, j \in DOMAIN r : i < j => from(i) < from(j)
  BY <1>1, <1>3
<1> HIDE DEF from
<1>6. InOrder(r)
  BY <1>4, <1>5 DEF InOrder
<1> QED
  BY <1>6 DEF r

LEMMA InsertedInOrder ==
    ASSUME NEW s \in Seq(LearningEntry), NEW e \in LearningEntry, NEW p \in InsertPositions(s, e), InOrder(s)
    PROVE  InOrder(InsertAt(s, p, e))
<1> DEFINE r == InsertAt(s, p, e)
<1>1. Len(s) \in Nat /\ DOMAIN s = 1..Len(s) /\ p \in Int /\ 1 <= p /\ p <= Len(s) + 1
  BY PositionsFit
<1>2. /\ \A i \in 1..(p - 1) : ~Precedes(e, s[i])
      /\ \A i \in p..Len(s) : ~Precedes(s[i], e)
  BY DEF InsertPositions
<1>3. /\ r \in Seq(LearningEntry) /\ Len(r) = Len(s) + 1
      /\ \A i \in 1..(Len(s) + 1) : (i < p => r[i] = s[i]) /\ (i = p => r[i] = e) /\ (i > p => r[i] = s[i - 1])
  <2>1. /\ InsertAt(s, p, e) \in Seq(LearningEntry) /\ Len(InsertAt(s, p, e)) = Len(s) + 1
        /\ \A i \in 1..(Len(s) + 1) : /\ i < p => InsertAt(s, p, e)[i] = s[i]
                                      /\ i = p => InsertAt(s, p, e)[i] = e
                                      /\ i > p => InsertAt(s, p, e)[i] = s[i - 1]
    BY <1>1, InsertedAt
  <2> QED
    BY <2>1
<1> HIDE DEF r
<1>4. DOMAIN r = 1..(Len(s) + 1)
  BY <1>3
<1>5. ASSUME NEW i \in DOMAIN r, NEW j \in DOMAIN r, i < j
      PROVE  ~Precedes(r[j], r[i])
  <2>1. CASE i = p
    <3>1. r[i] = e /\ r[j] = s[j - 1] /\ j - 1 \in p..Len(s)
      BY <1>1, <1>3, <1>4, <1>5, <2>1
    <3> QED
      BY <1>2, <3>1
  <2>2. CASE j = p
    <3>1. r[j] = e /\ r[i] = s[i] /\ i \in 1..(p - 1)
      BY <1>1, <1>3, <1>4, <1>5, <2>2
    <3> QED
      BY <1>2, <3>1
  <2>3. CASE i # p /\ j # p
    <3> DEFINE a == IF i < p THEN i ELSE i - 1
               b == IF j < p THEN j ELSE j - 1
    <3>1. a \in DOMAIN s /\ b \in DOMAIN s /\ a < b /\ r[i] = s[a] /\ r[j] = s[b]
      BY <1>1, <1>3, <1>4, <1>5, <2>3
    <3> HIDE DEF a, b
    <3> QED
      BY <3>1 DEF InOrder
  <2> QED
    BY <2>1, <2>2, <2>3
<1>6. InOrder(r)
  BY <1>5 DEF InOrder
<1> QED
  BY <1>6 DEF r

\* Among cards answered before, the one due first comes first.
LEMMA TriedPrecedes ==
    ASSUME NEW e \in LearningEntry, NEW f \in LearningEntry, e.tried, f.tried
    PROVE  (Precedes(e, f) <=> e.due < f.due) /\ e.due \in Nat /\ f.due \in Nat
<1>1. e.tried \in BOOLEAN /\ f.tried \in BOOLEAN /\ e.due \in Nat /\ f.due \in Nat
  BY EntryFacts
<1>2. e.tried = TRUE /\ f.tried = TRUE
  BY <1>1
<1>3. Precedes(e, f) <=> e.due < f.due
  BY <1>2 DEF Precedes
<1> QED
  BY <1>1, <1>3

LEMMA ConsInOrder ==
    ASSUME NEW s \in Seq(LearningEntry), NEW e \in LearningEntry, InOrder(s),
           e.tried, \A f \in Range(s) : f.tried /\ e.due <= f.due
    PROVE  InOrder(<<e>> \o s)
<1> DEFINE r == <<e>> \o s
<1>1. /\ Len(s) \in Nat /\ DOMAIN s = 1..Len(s) /\ r \in Seq(LearningEntry) /\ Len(r) = Len(s) + 1
      /\ r[1] = e /\ \A i \in 1..Len(s) : r[i + 1] = s[i]
  BY ConsFacts
<1> HIDE DEF r
<1>2. DOMAIN r = 1..(Len(s) + 1)
  BY <1>1
<1>3. ASSUME NEW i \in DOMAIN r, NEW j \in DOMAIN r, i < j
      PROVE  ~Precedes(r[j], r[i])
  <2> DEFINE b == j - 1
  <2>1. b \in DOMAIN s /\ r[j] = s[b]
    <3>1. b \in DOMAIN s /\ b + 1 = j
      BY <1>1, <1>2, <1>3
    <3> HIDE DEF b
    <3> QED
      BY <1>1, <3>1
  <2>2. CASE i = 1
    <3> DEFINE f == s[b]
    <3>1. f \in Range(s) /\ f \in LearningEntry
      BY <2>1 DEF Range
    <3>2. f.tried /\ e.due <= f.due
      BY <3>1
    <3>3. r[i] = e /\ r[j] = f
      BY <1>1, <2>1, <2>2
    <3> HIDE DEF b, f
    <3>4. (Precedes(f, e) <=> f.due < e.due) /\ f.due \in Nat /\ e.due \in Nat
      BY <3>1, <3>2, TriedPrecedes
    <3> QED
      BY <3>2, <3>3, <3>4
  <2>3. CASE i # 1
    <3> DEFINE a == i - 1
    <3>1. a \in DOMAIN s /\ a < b /\ a + 1 = i
      BY <1>1, <1>2, <1>3, <2>3
    <3> HIDE DEF a, b
    <3>2. r[i] = s[a]
      BY <1>1, <3>1
    <3> QED
      BY <2>1, <3>1, <3>2 DEF InOrder
  <2> QED
    BY <2>2, <2>3
<1>4. InOrder(r)
  BY <1>3 DEF InOrder
<1> QED
  BY <1>4 DEF r

\* Of tried cards in order, one that is due by t, with none before it due, is the first.
LEMMA FirstDue ==
    ASSUME NEW s \in Seq(LearningEntry), InOrder(s), \A f \in Range(s) : f.tried, NEW t \in Int,
           {i \in DOMAIN s : s[i].due <= t} # {}
    PROVE  LET i == Min({k \in DOMAIN s : s[k].due <= t}) IN
           i = 1 /\ 1 \in DOMAIN s /\ s[1].due <= t /\ Foremost(s[1], Range(s))
<1> DEFINE P == {k \in DOMAIN s : s[k].due <= t}
<1>1. Len(s) \in Nat /\ DOMAIN s = 1..Len(s)
  OBVIOUS
<1>2. \A k \in DOMAIN s : s[k].tried /\ s[k].due \in Nat
  BY EntryFacts DEF Range
<1>3. PICK k \in DOMAIN s : s[k].due <= t
  OBVIOUS
<1>4. 1 \in DOMAIN s
  BY <1>1, <1>3
<1>5. \A j \in DOMAIN s : s[1].due <= s[j].due
  <2> TAKE j \in DOMAIN s
  <2>1. CASE j = 1
    BY <1>2, <2>1
  <2>2. CASE j # 1
    <3>1. 1 < j
      BY <1>1, <2>2
    <3>2. ~Precedes(s[j], s[1])
      BY <1>4, <3>1 DEF InOrder
    <3> DEFINE e == s[1]
               f == s[j]
    <3>3. e \in LearningEntry /\ f \in LearningEntry /\ e.tried /\ f.tried /\ ~Precedes(f, e)
      BY <1>2, <1>4, <3>2
    <3> HIDE DEF e, f
    <3>4. e.due <= f.due
      BY <3>3, TriedPrecedes
    <3> QED
      BY <3>4 DEF e, f
  <2> QED
    BY <2>1, <2>2
<1>6. s[1].due <= t
  BY <1>2, <1>3, <1>4, <1>5
<1>7. 1 \in P /\ P \subseteq Nat
  BY <1>1, <1>4, <1>6
<1>8. Min(P) = 1
  <2>1. \A x \in P : 1 <= x
    BY <1>1
  <2> HIDE DEF P
  <2>2. Min(P) \in P /\ \A x \in P : Min(P) <= x
    <3>1. 1 \in P /\ \A x \in P : 1 <= x
      BY <1>7, <2>1
    <3> QED
      BY <3>1 DEF Min
  <2> DEFINE m == Min(P)
  <2>3. 1 \in P /\ m \in P /\ m \in Nat /\ 1 <= m /\ m <= 1
    BY <1>7, <2>1, <2>2
  <2> HIDE DEF m
  <2>4. m = 1
    BY <2>3
  <2> QED
    BY <2>4 DEF m
<1>9. Foremost(s[1], Range(s))
  BY <1>5 DEF Foremost, Range
<1> QED
  BY <1>4, <1>6, <1>8, <1>9

\* The queue's operations keep the learning cards in order.
LEMMA RemoveLearningOrder ==
    ASSUME NEW q \in CardQueues, Distinct(q.learning), InOrder(q.learning), NEW id
    PROVE  LET r == RemoveLearning(q, id) IN
           r \in CardQueues /\ InOrder(r.learning) /\ Range(r.learning) \subseteq Range(q.learning)
<1> DEFINE s  == q.learning
           at == {i \in DOMAIN s : s[i].id = id}
           r  == RemoveLearning(q, id)
<1>1. s \in Seq(LearningEntry)
  BY QueueFields
<1>2. CASE at = {}
  BY <1>2 DEF RemoveLearning
<1>3. CASE at # {}
  <2> DEFINE p == Min(at)
             l == RemoveAt(s, p)
  <2>1. p \in at
    <3>1. at \in SUBSET Nat
      BY <1>1
    <3> HIDE DEF at
    <3> QED
      BY <1>3, <3>1, MinOfPlaces
  <2>2. p \in 1..Len(s) /\ s[p].id = id /\ s[p] \in Range(s)
    <3>1. p \in DOMAIN s /\ s[p].id = id
      BY <2>1
    <3>2. DOMAIN s = 1..Len(s)
      BY <1>1
    <3> QED
      BY <3>1, <3>2 DEF Range
  <2>3. r \in CardQueues
    BY <2>2, RemoveLearningFacts
  <2>4. r.learning = l
    <3> DEFINE c == [q.counts EXCEPT !.learning = IF s[p].due <= Ahead(q) THEN Less(@) ELSE @]
    <3>1. r = [q EXCEPT !.learning = l, !.counts = c]
      BY <1>3 DEF RemoveLearning
    <3> HIDE DEF c, l, r
    <3> QED
      BY <3>1 DEF CardQueues
  <2> HIDE DEF p, r
  <2>5. InOrder(l) /\ Range(l) \subseteq Range(s)
    <3> HIDE DEF s
    <3>1. InOrder(s)
      BY DEF s
    <3> QED
      BY <1>1, <2>2, <3>1, RemovedInOrder, RemovedFrom
  <2> QED
    BY <2>3, <2>4, <2>5 DEF r
<1> QED
  BY <1>2, <1>3

LEMMA PoppedOrder ==
    ASSUME NEW q \in CardQueues, InOrder(q.learning), NEW id, CanPop(q, id)
    PROVE  InOrder(Popped(q, id).rest.learning)
<1> DEFINE s  == q.learning
           at == {i \in DOMAIN s : s[i].id = id}
           r  == Popped(q, id).rest
<1>1. s \in Seq(LearningEntry) /\ InOrder(s)
  BY QueueFields
<1>2. CASE at = {}
  <2>1. r = [q EXCEPT !.main = Tail(q.main), !.counts = CountsWithout(q.counts, Head(q.main))]
    BY <1>2 DEF Popped
  <2>2. r.learning = s
    <3> HIDE DEF r
    <3> QED
      BY <2>1 DEF CardQueues
  <2> QED
    BY <1>1, <2>2
<1>3. CASE at # {}
  <2> DEFINE p == Min(at)
             l == RemoveAt(s, p)
             c == CountsWithout(q.counts, s[p])
  <2>1. p \in at
    <3>1. at \in SUBSET Nat
      BY <1>1
    <3> HIDE DEF at
    <3> QED
      BY <1>3, <3>1, MinOfPlaces
  <2>2. p \in 1..Len(s)
    <3>1. p \in DOMAIN s /\ DOMAIN s = 1..Len(s)
      BY <1>1, <2>1
    <3> QED
      BY <3>1
  <2>3. r = [q EXCEPT !.learning = l, !.counts = c]
    BY <1>3 DEF Popped
  <2>4. r.learning = l
    <3> HIDE DEF r, l, c
    <3> QED
      BY <2>3 DEF CardQueues
  <2> HIDE DEF p, r, s
  <2>5. InOrder(l)
    BY <1>1, <2>2, RemovedInOrder
  <2> QED
    BY <2>4, <2>5 DEF r
<1> QED
  BY <1>2, <1>3

LEMMA InsertLearningOrder ==
    ASSUME NEW q \in CardQueues, InOrder(q.learning), NEW e \in LearningEntry, NEW p \in InsertPositions(q.learning, e)
    PROVE  LET r == InsertLearning(q, e, p) IN
           /\ r \in CardQueues /\ r.learning = InsertAt(q.learning, p, e) /\ r.main = q.main /\ r.cutoff = q.cutoff
           /\ InOrder(r.learning) /\ Range(r.learning) = Range(q.learning) \cup {e}
<1> DEFINE s == q.learning
           l == InsertAt(s, p, e)
           c == LearningMore(q.counts, One(e.due <= Ahead(q)))
           r == [q EXCEPT !.learning = l, !.counts = c]
<1>1. s \in Seq(LearningEntry) /\ InOrder(s) /\ p \in InsertPositions(s, e)
  BY QueueFields
<1>2. c \in Counts
  <2>1. q.counts \in Counts /\ One(e.due <= Ahead(q)) \in Nat
    BY QueueFields DEF One
  <2> QED
    BY <2>1, CountsAdd
<1>3. InsertLearning(q, e, p) = r
  BY DEF InsertLearning, LearningMore
<1>4. l \in Seq(LearningEntry) /\ InOrder(l) /\ Range(l) = Range(s) \cup {e}
  <2> HIDE DEF s
  <2>1. p \in Int /\ 1 <= p /\ p <= Len(s) + 1 /\ Len(s) \in Nat
    BY <1>1, PositionsFit
  <2>2. p \in 1..(Len(s) + 1)
    BY <2>1
  <2>3. InsertAt(s, p, e) \in Seq(LearningEntry)
    BY <1>1, <2>1, InsertedAt
  <2>4. InOrder(InsertAt(s, p, e))
    BY <1>1, InsertedInOrder
  <2>5. Range(InsertAt(s, p, e)) = Range(s) \cup {e}
    BY <1>1, <2>2, InsertedRange
  <2> QED
    BY <2>3, <2>4, <2>5
<1> HIDE DEF l, c
<1>5. /\ r \in CardQueues /\ r.main = q.main /\ r.learning = l /\ r.counts = c /\ SameBuilding(r, q)
  BY <1>2, <1>4, PatchedLearning
<1> HIDE DEF r
<1> QED
  BY <1>3, <1>4, <1>5 DEF SameBuilding, l

LEMMA UndoneOrder ==
    ASSUME NEW q \in CardQueues, Distinct(q.learning), InOrder(q.learning), AllTried(q.learning),
           NEW u \in QueueUpdate,
           u.entry.kind = "Learning" => u.entry.tried /\ Foremost(u.entry, Range(Undone(q, u).learning))
    PROVE  InOrder(Undone(q, u).learning) /\ AllTried(Undone(q, u).learning)
<1> DEFINE e    == u.entry
           back == Restore(q, u.snapshot)
           mid  == IF u.requeue = NoEntry THEN back ELSE RemoveLearning(back, u.requeue.id)
           r    == Undone(q, u)
<1>1. back \in CardQueues /\ back.learning = q.learning
  BY UpdateFields, RestoreFacts
<1>2. mid \in CardQueues /\ InOrder(mid.learning) /\ Range(mid.learning) \subseteq Range(q.learning)
  <2> HIDE DEF back
  <2> QED
    BY <1>1, RemoveLearningOrder
<1>3. r = Push(mid, e)
  BY DEF Undone
<1>4. e \in Entry /\ (e.kind = "Learning" => e.tried /\ Foremost(e, Range(r.learning)))
  BY UpdateFields
<1> HIDE DEF mid, e, r
<1>5. CASE e.kind = "Learning"
  <2> DEFINE s == mid.learning
             l == <<e>> \o s
             c == CountsWith(mid.counts, e)
  <2>1. e \in LearningEntry /\ s \in Seq(LearningEntry)
    BY <1>2, <1>4, <1>5, EntryFacts, QueueFields
  <2>2. r = [mid EXCEPT !.learning = l, !.counts = c]
    BY <1>3, <1>5 DEF Push
  <2>3. r.learning = l
    <3> HIDE DEF l, c
    <3> QED
      BY <1>2, <2>2 DEF CardQueues
  <2> HIDE DEF s
  <2>4. Range(l) = Range(s) \cup {e}
    BY <2>1, ConsFacts
  <2>5. \A f \in Range(s) : f.tried /\ e.due <= f.due
    BY <1>2, <1>4, <1>5, <2>3, <2>4 DEF AllTried, Foremost, s
  <2>6. InOrder(s) /\ e.tried
    BY <1>2, <1>4, <1>5 DEF s
  <2>7. InOrder(l)
    BY <2>1, <2>5, <2>6, ConsInOrder
  <2> QED
    BY <2>3, <2>4, <2>5, <2>6, <2>7 DEF AllTried, r
<1>6. CASE e.kind # "Learning"
  <2> DEFINE m == <<e>> \o mid.main
             c == CountsWith(mid.counts, e)
  <2>1. r = [mid EXCEPT !.main = m, !.counts = c]
    BY <1>3, <1>6 DEF Push
  <2>2. r.learning = mid.learning
    <3> HIDE DEF m, c
    <3> QED
      BY <1>2, <2>1 DEF CardQueues
  <2> QED
    BY <1>2, <2>2 DEF AllTried, r
<1> QED
  BY <1>5, <1>6

LEMMA PoppedRemains ==
    ASSUME NEW q \in CardQueues, Distinct(q.learning), Orderly(q.main, Range(q.learning)),
           NEW id, CanPop(q, id)
    PROVE  LET pop == Popped(q, id) IN
           /\ pop.rest \in CardQueues /\ Range(pop.rest.learning) \subseteq Range(q.learning)
           /\ pop.entry.kind = "Learning" => pop.entry \in Range(q.learning)
<1> DEFINE pop  == Popped(q, id)
           e    == pop.entry
           rest == pop.rest
           m    == rest.main
           l    == Range(rest.learning)
<1>1. /\ e \in Entry /\ e.id = id /\ rest \in CardQueues
      /\ e.kind = "Learning" => e \in Range(q.learning) /\ m = q.main
      /\ e.kind # "Learning" => q.main = <<e>> \o m
      /\ l = Range(q.learning) \ {e} /\ Distinct(m)
      /\ \A f \in Range(m) \cup l : f.id # e.id
      /\ rest.counts = CountsWithout(q.counts, e)
  BY PoppedFacts
<1> HIDE DEF pop
<1> QED
  BY <1>1 DEF pop

LEMMA RedoneOrder ==
    ASSUME NEW q \in CardQueues, Distinct(q.learning), Orderly(q.main, Range(q.learning)),
           InOrder(q.learning), AllTried(q.learning), NEW u \in QueueUpdate, CanPop(q, u.entry.id),
           NEW p \in RedoPositions(q, u), u.requeue # NoEntry => u.requeue.tried
    PROVE  InOrder(Redone(q, u, p).learning) /\ AllTried(Redone(q, u, p).learning)
<1> DEFINE id   == u.entry.id
           pop  == Popped(q, id)
           rest == pop.rest
<1>1. rest \in CardQueues /\ Range(rest.learning) \subseteq Range(q.learning)
  BY PoppedRemains
<1>2. InOrder(rest.learning)
  BY PoppedOrder
<1> DEFINE e    == u.requeue
           mid  == IF e = NoEntry THEN rest ELSE InsertLearning(rest, e, p)
<1>3. p \in (IF e = NoEntry THEN {1} ELSE InsertPositions(rest.learning, e))
  BY DEF RedoPositions
<1>4. e \in LearningEntry \cup {NoEntry} /\ u.snapshot \in CutoffSnapshot /\ (e # NoEntry => e.tried)
  BY UpdateFields
<1>5. Redone(q, u, p) = Restore(mid, u.snapshot)
  BY DEF Redone
<1> HIDE DEF pop, rest, e
<1>6. mid \in CardQueues /\ InOrder(mid.learning) /\ AllTried(mid.learning)
  <2>1. CASE e = NoEntry
    BY <1>1, <1>2, <2>1 DEF AllTried
  <2>2. CASE e # NoEntry
    <3>1. e \in LearningEntry /\ p \in InsertPositions(rest.learning, e)
      BY <1>3, <1>4, <2>2
    <3> DEFINE r == InsertLearning(rest, e, p)
    <3>2. r \in CardQueues /\ InOrder(r.learning) /\ Range(r.learning) = Range(rest.learning) \cup {e}
      BY <1>1, <1>2, <3>1, InsertLearningOrder
    <3> HIDE DEF r
    <3>3. mid = r
      BY <2>2 DEF r
    <3> QED
      BY <1>1, <1>4, <2>2, <3>2, <3>3 DEF AllTried
  <2> QED
    BY <2>1, <2>2
<1> HIDE DEF mid
<1>7. Restore(mid, u.snapshot).learning = mid.learning
  BY <1>4, <1>6, RestoreFacts
<1> QED
  BY <1>5, <1>6, <1>7

LEMMA AnsweredOrder ==
    ASSUME clock \in Time, NEW q \in CardQueues, Distinct(q.learning), Orderly(q.main, Range(q.learning)),
           InOrder(q.learning), AllTried(q.learning), NEW id \in Cards, CanPop(q, id), NEW c \in CardRecord,
           c.queue = "Learn" => c.tried, NEW finished, NEW p \in AnswerPositions(q, id, c, finished)
    PROVE  LET r == Answered(q, id, c, finished, p).queues
               u == Answered(q, id, c, finished, p).update
           IN  /\ InOrder(r.learning) /\ AllTried(r.learning)
               /\ u.entry.kind = "Learning" => u.entry.tried
               /\ u.requeue # NoEntry => u.requeue.tried
<1> DEFINE pop   == Popped(q, id)
           rest  == pop.rest
<1>1. /\ rest \in CardQueues /\ Range(rest.learning) \subseteq Range(q.learning)
      /\ pop.entry.kind = "Learning" => pop.entry \in Range(q.learning)
  BY PoppedRemains
<1>2. InOrder(rest.learning)
  BY PoppedOrder
<1> DEFINE again == RequeueEntry(rest, LearningEntryOf(id, c))
           goes  == GoesBack(c, finished)
           mid   == IF goes THEN InsertLearning(rest, again, p) ELSE rest
           a     == Answered(q, id, c, finished, p)
<1>3. p \in (IF goes THEN InsertPositions(rest.learning, again) ELSE {1})
  BY DEF AnswerPositions
<1>4. a.queues = Bump(mid, clock) /\ a.update.entry = pop.entry /\ a.update.requeue = (IF goes THEN again ELSE NoEntry)
  BY DEF Answered
<1> HIDE DEF pop
<1>5. again \in LearningEntry /\ again.tried = c.tried
  BY <1>1, RequeueFacts
<1>6. goes => c.queue = "Learn"
  BY DEF GoesBack
<1> HIDE DEF rest, again, a, goes
<1>7. mid \in CardQueues /\ InOrder(mid.learning) /\ AllTried(mid.learning)
  <2>1. CASE ~goes
    BY <1>1, <1>2, <2>1 DEF AllTried
  <2>2. CASE goes
    <3>1. p \in InsertPositions(rest.learning, again) /\ again.tried
      BY <1>3, <1>5, <1>6, <2>2
    <3> DEFINE r == InsertLearning(rest, again, p)
    <3>2. r \in CardQueues /\ InOrder(r.learning) /\ Range(r.learning) = Range(rest.learning) \cup {again}
      BY <1>1, <1>2, <1>5, <3>1, InsertLearningOrder
    <3> HIDE DEF r
    <3>3. mid = r
      BY <2>2 DEF r
    <3> QED
      BY <1>1, <3>1, <3>2, <3>3 DEF AllTried
  <2> QED
    BY <2>1, <2>2
<1> HIDE DEF mid
<1>8. Bump(mid, clock).learning = mid.learning
  BY <1>7 DEF Bump, CardQueues
<1>9. pop.entry.kind = "Learning" => pop.entry.tried
  BY <1>1 DEF AllTried
<1> QED
  BY <1>4, <1>5, <1>6, <1>7, <1>8, <1>9 DEF a

\* The card at the top is the first learning card, or heads the main queue.
LEMMA TopFirst ==
    ASSUME NEW q \in CardQueues, InOrder(q.learning), AllTried(q.learning), TopEntry(q) # NoEntry
    PROVE  LET top == TopEntry(q) IN
           \/ /\ 1 \in DOMAIN q.learning /\ top = q.learning[1] /\ top.due <= Ahead(q)
              /\ Foremost(top, Range(q.learning))
           \/ q.main # <<>> /\ top = Head(q.main)
<1> DEFINE s == q.learning
           dueBy(t) == {i \in DOMAIN s : s[i].due <= t}
           top == TopEntry(q)
<1>1. s \in Seq(LearningEntry) /\ q.cutoff \in Nat /\ LearnAhead \in Nat
  BY QueueFields, Numbers
<1>2. \A f \in Range(s) : f.tried
  BY DEF AllTried
<1>3. InOrder(s)
  OBVIOUS
<1>4. q.cutoff \in Int /\ Ahead(q) \in Int /\ q.cutoff <= Ahead(q)
  BY <1>1 DEF Ahead
<1>5. CASE dueBy(q.cutoff) # {}
  <2>1. top = s[Min(dueBy(q.cutoff))]
    BY <1>5 DEF TopEntry
  <2> HIDE DEF s, top
  <2>2. Min(dueBy(q.cutoff)) = 1 /\ 1 \in DOMAIN s /\ s[1].due <= q.cutoff /\ Foremost(s[1], Range(s))
    BY <1>1, <1>2, <1>3, <1>4, <1>5, FirstDue
  <2>3. s[1].due \in Nat
    BY <1>1, <2>2, EntryFacts
  <2>4. s[1].due <= Ahead(q)
    BY <1>4, <2>2, <2>3
  <2> QED
    BY <2>1, <2>2, <2>4 DEF s, top
<1>6. CASE dueBy(q.cutoff) = {} /\ q.main # <<>>
  BY <1>6 DEF TopEntry
<1>7. CASE dueBy(q.cutoff) = {} /\ q.main = <<>> /\ dueBy(Ahead(q)) # {}
  <2>1. top = s[Min(dueBy(Ahead(q)))]
    BY <1>7 DEF TopEntry
  <2> HIDE DEF s, top
  <2>2. /\ Min(dueBy(Ahead(q))) = 1 /\ 1 \in DOMAIN s /\ s[1].due <= Ahead(q)
        /\ Foremost(s[1], Range(s))
    BY <1>1, <1>2, <1>3, <1>4, <1>7, FirstDue
  <2> QED
    BY <2>1, <2>2 DEF s, top
<1> QED
  BY <1>5, <1>6, <1>7 DEF TopEntry

LEMMA TopShownFirst ==
    ASSUME NEW q \in CardQueues, Orderly(q.main, Range(q.learning)), InOrder(q.learning), AllTried(q.learning),
           TopEntry(q) # NoEntry
    PROVE  ShownFirst(TopEntry(q).id, q)
<1> DEFINE top == TopEntry(q)
           L   == Range(q.learning)
<1>1. \/ /\ 1 \in DOMAIN q.learning /\ top = q.learning[1] /\ Foremost(top, L)
      \/ q.main # <<>> /\ top = Head(q.main)
  BY TopFirst
<1>2. q.main \in Seq(MainEntry)
  BY QueueFields
<1>3. \/ top \in L /\ Foremost(top, L)
      \/ top \in Range(q.main)
  BY <1>1, <1>2, HeadTail DEF Range
<1> HIDE DEF top
<1>4. \A e \in L : e.id = top.id => Foremost(e, L)
  BY <1>3 DEF Orderly
<1> QED
  BY <1>4 DEF ShownFirst, top

-----------------------------------------------------------------------------
(* What every step keeps of the order                                      *)

LEMMA OutcomesTried ==
    ASSUME Typed, Previewed = {}, NEW id \in Cards, NEW o \in Outcomes(id)
    PROVE  o.c.tried
<1> DEFINE c == [card[id] EXCEPT !.mtime = clock]
           steps == {clock + d : d \in Delays}
<1>1. card[id] \in CardRecord /\ clock \in Time
  BY DEF Typed
<1>2. c \in CardRecord
  BY <1>1 DEF CardRecord
<1>3. \/ \E t \in steps : o = [c |-> [c EXCEPT !.queue = "Learn", !.due = t, !.tried = TRUE], finished |-> FALSE]
      \/ \E q \in Leaving : o = [c |-> [c EXCEPT !.queue = q, !.due = Day + 1, !.tried = TRUE], finished |-> FALSE]
  BY DEF Outcomes
<1> HIDE DEF c, steps
<1>4. \A q, t : [c EXCEPT !.queue = q, !.due = t, !.tried = TRUE].tried
  BY <1>2 DEF CardRecord
<1>5. CASE \E t \in steps : o = [c |-> [c EXCEPT !.queue = "Learn", !.due = t, !.tried = TRUE], finished |-> FALSE]
  <2>1. PICK t \in steps : o = [c |-> [c EXCEPT !.queue = "Learn", !.due = t, !.tried = TRUE], finished |-> FALSE]
    BY <1>5
  <2>2. o.c = [c EXCEPT !.queue = "Learn", !.due = t, !.tried = TRUE]
    BY <2>1
  <2> QED
    BY <1>4, <2>2
<1>6. CASE \E q \in Leaving : o = [c |-> [c EXCEPT !.queue = q, !.due = Day + 1, !.tried = TRUE], finished |-> FALSE]
  <2>1. PICK q \in Leaving : o = [c |-> [c EXCEPT !.queue = q, !.due = Day + 1, !.tried = TRUE], finished |-> FALSE]
    BY <1>6
  <2>2. o.c = [c EXCEPT !.queue = q, !.due = Day + 1, !.tried = TRUE]
    BY <2>1
  <2> QED
    BY <1>4, <2>2
<1> QED
  BY <1>3, <1>5, <1>6

LEMMA TodayTried ==
    ASSUME card \in [Cards -> CardRecord], CardsTried(card)
    PROVE  CardsTried(CardsToday) /\ CardsTried(Unburied)
<1>1. ASSUME NEW id \in Cards
      PROVE  Unburied[id].queue = card[id].queue /\ Unburied[id].tried = card[id].tried
  <2>1. card[id] \in CardRecord
    OBVIOUS
  <2>2. CASE card[id].at = "buried"
    <3>1. Unburied[id] = [card[id] EXCEPT !.at = "deck"]
      BY <2>2 DEF Unburied
    <3> QED
      BY <2>1, <3>1 DEF CardRecord
  <2>3. CASE card[id].at # "buried"
    BY <2>3 DEF Unburied
  <2> QED
    BY <2>2, <2>3
<1>2. CardsTried(Unburied)
  BY <1>1 DEF CardsTried
<1> QED
  BY <1>2 DEF CardsToday

\* No steps are left of a day gone by.
LEMMA NoSteps == StepsTried(<<>>, <<>>)
<1>1. Range(<<>>) = {}
  BY DEF Range
<1> QED
  BY <1>1 DEF StepsTried

LEMMA ClearedTried ==
    ASSUME HInv, Lined, ClearIfDayChanged
    PROVE  CardsTried(card') /\ StepsTried(undoSteps', redoSteps')
<1>1. card' = CardsToday /\ CardsTried(CardsToday)
  BY TodayTried DEF ClearIfDayChanged, HInv, Typed, Lined
<1>2. StepsTried(undoSteps', redoSteps')
  <2>1. CASE DayChanged
    BY <2>1, NoSteps DEF ClearIfDayChanged, Discard
  <2>2. CASE ~DayChanged
    BY <2>2 DEF ClearIfDayChanged, undoVars, Lined
  <2> QED
    BY <2>1, <2>2
<1> QED
  BY <1>1, <1>2

\* What get_queues() returns is in order.
LEMMA GottenOrder ==
    ASSUME HInv, Lined, NEW q \in GetQueues
    PROVE  /\ q \in CardQueues /\ InOrder(q.learning) /\ AllTried(q.learning)
           /\ Distinct(q.main) /\ Distinct(q.learning) /\ Orderly(q.main, Range(q.learning)) /\ q.cutoff <= clock
<1>1. CASE q = queues /\ queues # NoQueues
  <2>1. InOrder(q.learning) /\ AllTried(q.learning)
    BY <1>1 DEF Lined, InLine
  <2> QED
    BY <1>1, <2>1, QueueHeld DEF Orderly, HInv, Holding
<1>2. CASE q \in BuiltQueues(CardsToday, {})
  <2>1. clock \in Time /\ NewBuild \in Builds
    BY NewBuildIsNew DEF HInv, Typed
  <2>2. CardsToday \in [Cards -> CardRecord]
    BY UnburiedFacts DEF HInv, Typed
  <2>3. /\ q \in CardQueues /\ InOrder(q.learning) /\ Orderly(q.main, Range(q.learning)) /\ Distinct(q.learning)
        /\ q.cutoff = clock
        /\ Fresh(MomentOf(q, CardsToday))
        /\ \A e \in Range(q.learning) : e.due = CardsToday[e.id].due /\ e.tried = CardsToday[e.id].tried
    BY <1>2, <2>1, <2>2, BuiltFacts
  <2>4. \A e \in Range(q.learning) : e.id \in Cards
    BY <2>3, QueueFields, RangeFinite, EntryFacts
  <2>5. \A e \in Range(q.learning) : CardsToday[e.id].queue = "Learn"
    BY <2>3, MomentFields DEF Fresh
  <2>6. CardsTried(CardsToday)
    BY TodayTried DEF HInv, Typed, Lined
  <2>7. AllTried(q.learning)
    BY <2>3, <2>4, <2>5, <2>6 DEF CardsTried, AllTried
  <2>8. clock \in Nat
    BY <2>1, Numbers
  <2> QED
    BY <2>3, <2>7, <2>8 DEF Orderly
<1> QED
  BY <1>1, <1>2 DEF GetQueues

LEMMA GetNextCardLines ==
    ASSUME HInv, Lined, GetNextCard
    PROVE  Lined'
<1>1. PICK q \in GetQueues : Show(q)
  BY DEF GetNextCard
<1>2. CardsTried(card') /\ StepsTried(undoSteps', redoSteps')
  BY ClearedTried DEF GetNextCard
<1>3. /\ q \in CardQueues /\ InOrder(q.learning) /\ AllTried(q.learning) /\ q.cutoff <= clock
      /\ Distinct(q.main) /\ Distinct(q.learning) /\ Orderly(q.main, Range(q.learning))
  BY GottenOrder
<1> DEFINE r == Counted(q)
<1>4. clock \in Time
  BY DEF HInv, Typed
<1>5. r \in CardQueues /\ r.main = q.main /\ r.learning = q.learning
  BY <1>3, <1>4, CountedFacts
<1>6. queues' = r /\ (shown' = NoCard \/ (TopEntry(r) # NoEntry /\ shown' = TopEntry(r).id))
  BY <1>1 DEF Show
<1> HIDE DEF r
<1>7. TopEntry(r) # NoEntry => ShownFirst(TopEntry(r).id, r)
  BY <1>3, <1>5, TopShownFirst
<1>8. shown' # NoCard => ShownFirst(shown', r)
  BY <1>6, <1>7
<1>9. InLine(r, shown')
  BY <1>3, <1>5, <1>8 DEF InLine
<1> QED
  BY <1>2, <1>6, <1>9 DEF Lined

LEMMA PeekLines ==
    ASSUME HInv, Ordered, Lined, Peek
    PROVE  Lined'
<1>1. PICK q \in GetQueues : queues' = Counted(q)
  BY DEF Peek
<1>2. CardsTried(card') /\ StepsTried(undoSteps', redoSteps') /\ shown' = shown
  BY ClearedTried DEF Peek
<1>3. /\ q \in CardQueues /\ InOrder(q.learning) /\ AllTried(q.learning) /\ q.cutoff <= clock
      /\ Distinct(q.main) /\ Distinct(q.learning)
  BY GottenOrder
<1> DEFINE r == Counted(q)
<1>4. clock \in Time
  BY DEF HInv, Typed
<1>5. r \in CardQueues /\ r.learning = q.learning
  BY <1>3, <1>4, CountedFacts
<1>6. queues' = r
  BY <1>1
<1> HIDE DEF r
<1>7. ASSUME shown # NoCard PROVE ShownFirst(shown, r)
  <2>1. Guarded /\ "deferred" \notin Background /\ MaxTime < DayLength
    BY DEF Ordered, Peek
  <2>2. queues # NoQueues
    BY <1>7, <2>1 DEF HInv, Showing
  <2>3. ~DayChanged
    <3>1. queues.day \in Nat /\ queues.day <= clock \div DayLength
      <4>1. queues \in CardQueues /\ Holding(queues, card, undoSteps, redoSteps, clock)
        BY <2>2 DEF HInv, Typed
      <4> QED
        BY <4>1, QueueFields DEF Holding
    <3>2. clock \in Nat /\ clock < DayLength /\ DayLength \in Nat /\ DayLength > 0
      <4>1. MaxTime \in Nat /\ DayLength \in Nat /\ DayLength > 0 /\ clock \in 0..MaxTime
        BY <1>4, Numbers
      <4> QED
        BY <2>1, <4>1
    <3>3. clock \div DayLength = 0
      BY <3>2
    <3> QED
      BY <3>1, <3>3 DEF DayChanged, Day
  <2>4. q = queues
    BY <2>1, <2>2, <2>3 DEF GetQueues
  <2>5. ShownFirst(shown, queues)
    BY <1>7, <2>2 DEF Lined, InLine
  <2> QED
    BY <1>5, <2>4, <2>5 DEF ShownFirst
<1>8. InLine(r, shown')
  BY <1>2, <1>3, <1>5, <1>7 DEF InLine
<1> QED
  BY <1>2, <1>6, <1>8 DEF Lined

\* A card is changed by a step of its own.
LEMMA RecordLines ==
    ASSUME HInv, Lined, NEW kind, NEW id \in Cards, NEW c \in CardRecord, NEW u,
           c.queue = "Learn" => c.tried,
           u # NoUpdate => /\ u.entry.kind = "Learning" => u.entry.tried
                           /\ u.requeue # NoEntry => u.requeue.tried,
           Record(kind, id, c, u)
    PROVE  CardsTried(card') /\ StepsTried(undoSteps', redoSteps')
<1> DEFINE s == [kind |-> kind, id |-> id, was |-> card[id], update |-> u]
<1>1. card' = [card EXCEPT ![id] = c] /\ undoSteps' = <<s>> \o undoSteps /\ redoSteps' = <<>>
  BY DEF Record
<1>2. card \in [Cards -> CardRecord] /\ undoSteps \in Seq(Step) /\ CardsTried(card)
  BY DEF HInv, Typed, Lined
<1>3. CardsTried(card')
  BY <1>1, <1>2 DEF CardsTried
<1>4. s.was = card[id] /\ s.update = u
  OBVIOUS
<1> HIDE DEF s
<1>5. TriedStep(s)
  BY <1>2, <1>4 DEF TriedStep, CardsTried
<1>6. Range(<<s>> \o undoSteps) = Range(undoSteps) \cup {s}
  <2> DEFINE S == Step \cup {s}
  <2>1. undoSteps \in Seq(S) /\ s \in S
    BY <1>2
  <2> HIDE DEF S
  <2> QED
    BY <2>1, ConsFacts
<1>7. Range(redoSteps') = {}
  BY <1>1 DEF Range
<1>8. StepsTried(undoSteps', redoSteps')
  BY <1>1, <1>5, <1>6, <1>7 DEF StepsTried, Lined
<1> QED
  BY <1>3, <1>8

LEMMA RollBackLines ==
    ASSUME Lined, RollBack
    PROVE  Lined'
BY NoSteps DEF Lined, RollBack, Discard

LEMMA AnswerLines ==
    ASSUME HInv, Ordered, Lined, NEW id \in Cards, Answer(id)
    PROVE  Lined'
<1>1. shown' = NoCard /\ Previewed = {}
  BY DEF Answer, Ordered
<1>2. \A o \in Outcomes(id) : o.c \in CardRecord /\ o.c.tried
  BY <1>1, OutcomeFacts, OutcomesTried DEF HInv
<1>3. ASSUME NEW o \in Outcomes(id), AnswerPatching(id, o) PROVE Lined'
  <2> DEFINE q == queues
             c == o.c
             f == o.finished
  <2>1. q # NoQueues /\ CanPop(q, id)
    BY <1>3 DEF AnswerPatching
  <2>2. PICK p \in AnswerPositions(q, id, c, f) :
            LET a == Answered(q, id, c, f, p) IN queues' = a.queues /\ Record("AnswerCard", id, c, a.update)
    BY <1>3 DEF AnswerPatching
  <2>3. /\ q \in CardQueues /\ Distinct(q.learning) /\ Orderly(q.main, Range(q.learning))
        /\ InOrder(q.learning) /\ AllTried(q.learning)
    BY <2>1, QueueHeld DEF Lined, InLine
  <2>4. clock \in Time /\ c \in CardRecord /\ c.tried
    BY <1>2 DEF HInv, Typed
  <2> DEFINE a == Answered(q, id, c, f, p)
             r == a.queues
             u == a.update
  <2>5. queues' = r /\ Record("AnswerCard", id, c, u)
    BY <2>2
  <2> HIDE DEF q, c, f
  <2>6. /\ InOrder(r.learning) /\ AllTried(r.learning)
        /\ u.entry.kind = "Learning" => u.entry.tried
        /\ u.requeue # NoEntry => u.requeue.tried
    BY <2>1, <2>3, <2>4, AnsweredOrder
  <2> HIDE DEF a, r, u
  <2>7. CardsTried(card') /\ StepsTried(undoSteps', redoSteps')
    BY <2>4, <2>5, <2>6, RecordLines
  <2> QED
    BY <1>1, <2>5, <2>6, <2>7 DEF Lined, InLine
<1>4. ASSUME NEW o \in Outcomes(id), AnswerWithoutQueue(id, o) PROVE Lined'
  <2> DEFINE c == o.c
  <2>1. queues = NoQueues /\ queues' = NoQueues /\ Record("AnswerCard", id, c, NoUpdate)
    BY <1>4 DEF AnswerWithoutQueue
  <2>2. c \in CardRecord /\ c.tried
    BY <1>2
  <2> HIDE DEF c
  <2>3. CardsTried(card') /\ StepsTried(undoSteps', redoSteps')
    BY <2>1, <2>2, RecordLines
  <2> QED
    BY <2>1, <2>3 DEF Lined
<1>5. CASE AnswerRefused(id)
  BY <1>5, RollBackLines DEF AnswerRefused
<1> QED
  BY <1>3, <1>4, <1>5 DEF Answer

LEMMA EditLines ==
    ASSUME HInv, Lined, NEW id \in Cards, NEW c \in CardRecord, c.queue = "Learn" => c.tried, EditCard(id, c)
    PROVE  Lined'
<1> DEFINE d == [c EXCEPT !.mtime = clock]
<1>1. Record("Edit", id, d, NoUpdate) /\ queues' = NoQueues
  BY DEF EditCard
<1>2. d \in CardRecord /\ (d.queue = "Learn" => d.tried)
  BY DEF HInv, Typed, CardRecord
<1> HIDE DEF d
<1>3. CardsTried(card') /\ StepsTried(undoSteps', redoSteps')
  BY <1>1, <1>2, RecordLines
<1> QED
  BY <1>1, <1>3 DEF Lined

LEMMA PanicLines ==
    ASSUME HInv, Lined, NEW s \in Step, TriedStep(s), Panic(s)
    PROVE  Lined'
<1>1. /\ queues' = NoQueues /\ undoSteps' = <<>> /\ redoSteps' = <<>>
      /\ card' = [Unburied EXCEPT ![s.id] = s.was]
  BY DEF Panic, Discard
<1>2. Unburied \in [Cards -> CardRecord] /\ CardsTried(Unburied)
  BY UnburiedFacts, TodayTried DEF HInv, Typed, Lined
<1>3. s.id \in Cards
  BY DEF Step
<1>4. CardsTried(card')
  <2> HIDE DEF Unburied
  <2> QED
    BY <1>1, <1>2, <1>3 DEF CardsTried, TriedStep
<1> QED
  BY <1>1, <1>4, NoSteps DEF Lined

\* A step turned round keeps a card that was answered before.
LEMMA TurnedTried ==
    ASSUME HInv, Lined, NEW s \in Range(undoSteps) \cup Range(redoSteps)
    PROVE  /\ s \in Step /\ TriedStep(s) /\ TriedStep(Turned(s, card)) /\ CardsTried([card EXCEPT ![s.id] = s.was])
           /\ s.update # NoUpdate => s.update \in QueueUpdate
<1>1. s \in Step
  <2>1. undoSteps \in Seq(Step) /\ redoSteps \in Seq(Step)
    BY DEF HInv, Typed
  <2> QED
    BY <2>1, RangeFinite
<1>2. TriedStep(s) /\ CardsTried(card) /\ card \in [Cards -> CardRecord]
  BY DEF Lined, StepsTried, HInv, Typed
<1>3. s.id \in Cards /\ (s.update # NoUpdate => s.update \in QueueUpdate)
  BY <1>1, StepTimes DEF Step
<1>4. Turned(s, card).was = card[s.id] /\ Turned(s, card).update = s.update
  <2>1. Turned(s, card) = [s EXCEPT !.was = card[s.id]]
    BY DEF Turned
  <2> QED
    BY <1>1, <2>1 DEF Step
<1>5. TriedStep(Turned(s, card))
  BY <1>2, <1>3, <1>4 DEF TriedStep, CardsTried
<1>6. CardsTried([card EXCEPT ![s.id] = s.was])
  BY <1>2, <1>3 DEF CardsTried, TriedStep
<1> QED
  BY <1>1, <1>2, <1>3, <1>5, <1>6

LEMMA UndoLines ==
    ASSUME HInv, Ordered, Lined, Undo
    PROVE  Lined'
<1> DEFINE s == Head(undoSteps)
           t == Turned(s, card)
<1>1. undoSteps # <<>> /\ shown' = NoCard
  BY DEF Undo
<1>2. undoSteps \in Seq(Step) /\ redoSteps \in Seq(Step) /\ card \in [Cards -> CardRecord]
  BY DEF HInv, Typed
<1>3. s \in Range(undoSteps)
  <2>1. s = undoSteps[1] /\ 1 \in DOMAIN undoSteps
    BY <1>1, <1>2, HeadTail
  <2> QED
    BY <2>1 DEF Range
<1>4. /\ s \in Step /\ TriedStep(s) /\ TriedStep(t) /\ CardsTried([card EXCEPT ![s.id] = s.was])
      /\ s.update # NoUpdate => s.update \in QueueUpdate
  BY <1>3, TurnedTried
<1>5. CASE RollsOver(s)
  <2>1. Panic(s)
    BY <1>5 DEF Undo
  <2> QED
    BY <1>4, <2>1, PanicLines
<1>6. CASE ~RollsOver(s)
  <2>1. /\ queues' \in Replayed(s, {Undone(queues, s.update)}) /\ card' = [card EXCEPT ![s.id] = s.was]
        /\ undoSteps' = Tail(undoSteps) /\ redoSteps' = Append(redoSteps, t)
    BY <1>6 DEF Undo, UndoStep, Turned, Inverted
  <2>2. t \in Step /\ t.kind = s.kind /\ t.update = s.update
    BY <1>2, <1>4, TurnedFacts
  <2>3. CardsTried(card')
    BY <1>4, <2>1
  <2> HIDE DEF t
  <2>4. Range(undoSteps') \cup Range(redoSteps') \subseteq Range(undoSteps) \cup Range(redoSteps) \cup {t}
    BY <1>1, <1>2, <2>1, <2>2, UndoneSteps
  <2>5. StepsTried(undoSteps', redoSteps')
    BY <1>4, <2>4 DEF StepsTried, Lined
  <2>6. CASE queues' = NoQueues
    BY <2>3, <2>5, <2>6 DEF Lined
  <2>7. CASE queues' = queues
    BY <1>1, <2>3, <2>5, <2>7 DEF Lined, InLine
  <2>8. CASE queues' = Undone(queues, s.update) /\ SameBuild(s.update) /\ s.update # NoUpdate
    <3> DEFINE q == queues
               u == s.update
               r == Undone(q, u)
    <3>1. /\ q \in CardQueues /\ Distinct(q.learning) /\ InOrder(q.learning) /\ AllTried(q.learning)
      BY <2>8, QueueHeld DEF SameBuild, Lined, InLine
    <3>2. u \in QueueUpdate
      BY <1>4, <2>8
    <3>3. u.entry.kind = "Learning" => Foremost(u.entry, Range(r.learning))
      BY <1>1, <2>8, PatchedBack
    <3>4. u.entry.kind = "Learning" => u.entry.tried
      BY <1>4, <2>8 DEF TriedStep
    <3> HIDE DEF q, u
    <3>5. InOrder(r.learning) /\ AllTried(r.learning)
      BY <3>1, <3>2, <3>3, <3>4, UndoneOrder
    <3>6. queues' = r
      BY <2>8 DEF q, u
    <3> HIDE DEF r
    <3> QED
      BY <1>1, <2>3, <2>5, <3>5, <3>6 DEF Lined, InLine
  <2> QED
    <3>1. s.kind \in {"AnswerCard", "Edit"}
      BY <1>4 DEF Step
    <3>2. CASE s.kind = "Edit"
      BY <2>1, <2>6, <3>2 DEF Replayed
    <3>3. CASE s.kind = "AnswerCard" /\ s.update = NoUpdate
      BY <2>1, <2>7, <3>3 DEF Replayed
    <3>4. CASE s.kind = "AnswerCard" /\ s.update # NoUpdate
      BY <2>1, <2>6, <2>8, <3>4 DEF Replayed
    <3> QED
      BY <3>1, <3>2, <3>3, <3>4
<1> QED
  BY <1>5, <1>6

LEMMA RedoLines ==
    ASSUME HInv, Ordered, Lined, Redo
    PROVE  Lined'
<1> DEFINE s == Last(redoSteps)
           t == Turned(s, card)
<1>1. redoSteps # <<>> /\ shown' = NoCard
  BY DEF Redo
<1>2. undoSteps \in Seq(Step) /\ redoSteps \in Seq(Step) /\ card \in [Cards -> CardRecord]
  BY DEF HInv, Typed
<1>3. s \in Range(redoSteps)
  <2>1. Len(redoSteps) \in DOMAIN redoSteps
    BY <1>1, <1>2
  <2> QED
    BY <2>1 DEF Last, Range
<1>4. /\ s \in Step /\ TriedStep(s) /\ TriedStep(t) /\ CardsTried([card EXCEPT ![s.id] = s.was])
      /\ s.update # NoUpdate => s.update \in QueueUpdate
  BY <1>3, TurnedTried
<1>5. CASE RollsOver(s)
  <2>1. Panic(s)
    BY <1>5 DEF Redo
  <2> QED
    BY <1>4, <2>1, PanicLines
<1>6. ~Refused(s)
  BY <1>1, RedoFinds
<1>7. CASE ~RollsOver(s)
  <2> DEFINE Ps == {Redone(queues, s.update, p) : p \in RedoPositions(queues, s.update)}
  <2>1. /\ queues' \in Replayed(s, Ps) /\ card' = [card EXCEPT ![s.id] = s.was]
        /\ undoSteps' = <<t>> \o undoSteps /\ redoSteps' = Front(redoSteps)
    BY <1>6, <1>7 DEF Redo, RedoStep, Turned, Inverted
  <2>2. t \in Step /\ t.kind = s.kind /\ t.update = s.update
    BY <1>2, <1>4, TurnedFacts
  <2>3. CardsTried(card')
    BY <1>4, <2>1
  <2> HIDE DEF t
  <2>4. Range(undoSteps') \cup Range(redoSteps') \subseteq Range(undoSteps) \cup Range(redoSteps) \cup {t}
    BY <1>1, <1>2, <2>1, <2>2, RedoneSteps
  <2>5. StepsTried(undoSteps', redoSteps')
    BY <1>4, <2>4 DEF StepsTried, Lined
  <2>6. CASE queues' = NoQueues
    BY <2>3, <2>5, <2>6 DEF Lined
  <2>7. CASE queues' = queues
    BY <1>1, <2>3, <2>5, <2>7 DEF Lined, InLine
  <2>8. CASE queues' \in Ps /\ SameBuild(s.update) /\ s.update # NoUpdate
    <3> DEFINE q == queues
               u == s.update
    <3>1. PICK p \in RedoPositions(q, u) : queues' = Redone(q, u, p)
      BY <2>8
    <3>2. /\ q \in CardQueues /\ Distinct(q.learning) /\ Orderly(q.main, Range(q.learning))
          /\ InOrder(q.learning) /\ AllTried(q.learning)
      BY <2>8, QueueHeld DEF SameBuild, Lined, InLine
    <3>3. u \in QueueUpdate /\ CanPop(q, u.entry.id)
      BY <1>4, <1>6, <2>8 DEF Refused
    <3>4. u.requeue # NoEntry => u.requeue.tried
      BY <1>4, <2>8 DEF TriedStep
    <3> HIDE DEF q, u
    <3> DEFINE r == Redone(q, u, p)
    <3>5. InOrder(r.learning) /\ AllTried(r.learning)
      BY <3>2, <3>3, <3>4, RedoneOrder
    <3>6. queues' = r
      BY <3>1
    <3> HIDE DEF r
    <3> QED
      BY <1>1, <2>3, <2>5, <3>5, <3>6 DEF Lined, InLine
  <2> QED
    <3> HIDE DEF Ps
    <3>1. s.kind \in {"AnswerCard", "Edit"}
      BY <1>4 DEF Step
    <3>2. CASE s.kind = "Edit"
      BY <2>1, <2>6, <3>2 DEF Replayed
    <3>3. CASE s.kind = "AnswerCard" /\ s.update = NoUpdate
      BY <2>1, <2>7, <3>3 DEF Replayed
    <3>4. CASE s.kind = "AnswerCard" /\ s.update # NoUpdate
      BY <2>1, <2>6, <2>8, <3>4 DEF Replayed
    <3> QED
      BY <3>1, <3>2, <3>3, <3>4
<1> QED
  BY <1>5, <1>7

LEMMA NextLines ==
    ASSUME HInv, Ordered, Lined, [Next]_vars
    PROVE  Lined'
<1>1. CASE GetNextCard
  BY <1>1, GetNextCardLines
<1>2. CASE Peek
  BY <1>2, PeekLines
<1>3. CASE Undo
  BY <1>3, UndoLines
<1>4. CASE Redo
  BY <1>4, RedoLines
<1>5. ASSUME NEW id \in Cards, Answer(id) PROVE Lined'
  BY <1>5, AnswerLines
<1>6. ASSUME NEW id \in Cards, Bury(id) PROVE Lined'
  <2> DEFINE c == [card[id] EXCEPT !.at = "buried"]
  <2>1. c \in CardRecord /\ c.queue = card[id].queue /\ c.tried = card[id].tried
    BY DEF HInv, Typed, CardRecord
  <2>2. EditCard(id, c)
    BY <1>6 DEF Bury
  <2> HIDE DEF c
  <2>3. c.queue = "Learn" => c.tried
    BY <2>1 DEF Lined, CardsTried
  <2> QED
    BY <2>1, <2>2, <2>3, EditLines
<1>7. ASSUME NEW id \in Cards, SetDueToday(id) PROVE Lined'
  <2> DEFINE c == [card[id] EXCEPT !.queue = "Review", !.due = Day]
  <2>1. Day \in Nat
    <3>1. clock \in Nat
      BY Numbers DEF HInv, Typed
    <3>2. clock <= clock
      BY <3>1
    <3> QED
      BY <3>1, <3>2, DayGrows DEF Day
  <2>2. c \in CardRecord /\ c.queue = "Review"
    BY <2>1 DEF HInv, Typed, CardRecord
  <2>3. EditCard(id, c)
    BY <1>7 DEF SetDueToday
  <2> HIDE DEF c
  <2> QED
    BY <2>2, <2>3, EditLines
<1>8. ASSUME NEW id \in Cards, RebuildPreserving(id) PROVE FALSE
  BY <1>8 DEF RebuildPreserving, Ordered
<1>9. CASE InstallScores
  BY <1>9 DEF InstallScores, undoVars, Lined
<1>10. CASE TransactNoUndo \/ Restart
  BY <1>10, NoSteps DEF TransactNoUndo, Restart, Discard, Lined
<1>11. CASE Tick \/ UNCHANGED vars
  BY <1>11 DEF Tick, vars, undoVars, Lined, InLine, ShownFirst
<1> QED
  BY <1>1, <1>2, <1>3, <1>4, <1>5, <1>6, <1>7, <1>8, <1>9, <1>10, <1>11 DEF Next

LEMMA InitLines ==
    ASSUME Init
    PROVE  Lined
<1> DEFINE Start(k) == CASE k = "New"      -> {Starting("New", 0, FALSE, "deck")}
                         [] k = "Learn"    -> {Starting("Learn", d, TRUE, "deck") : d \in Delays}
                         [] k = "DayLearn" -> {Starting("DayLearn", 0, TRUE, "deck")}
                         [] k = "Buried"   -> {Starting("Review", 0, TRUE, "buried")}
           All == UNION {Start(k) : k \in StartAs}
<1>1. card \in [Cards -> All] /\ queues = NoQueues /\ undoSteps = <<>> /\ redoSteps = <<>>
  BY DEF Init
<1>2. \A k \in StartAs : \A c \in Start(k) : c.queue = "Learn" => c.tried
  <2> TAKE k \in StartAs
  <2>1. k \in {"New", "Learn", "DayLearn", "Buried"}
    BY QueueAssumption
  <2>2. CASE k = "New"
    BY <2>2 DEF Starting
  <2>3. CASE k = "Learn"
    <3>1. Start(k) = {Starting("Learn", d, TRUE, "deck") : d \in Delays}
      BY <2>3
    <3>2. \A d \in Delays : Starting("Learn", d, TRUE, "deck").tried
      BY DEF Starting
    <3> HIDE DEF Start
    <3> QED
      BY <3>1, <3>2
  <2>4. CASE k = "DayLearn"
    BY <2>4 DEF Starting
  <2>5. CASE k = "Buried"
    BY <2>5 DEF Starting
  <2> QED
    BY <2>1, <2>2, <2>3, <2>4, <2>5
<1> HIDE DEF Start
<1>3. \A c \in All : c.queue = "Learn" => c.tried
  BY <1>2
<1> HIDE DEF All
<1>4. CardsTried(card)
  BY <1>1, <1>3 DEF CardsTried
<1> QED
  BY <1>1, <1>4, NoSteps DEF Lined

-----------------------------------------------------------------------------
(* An answer taken back at once leaves the queue it was given on           *)

LEMMA SameQueue ==
    ASSUME NEW q \in CardQueues, NEW r \in CardQueues, r.main = q.main, r.learning = q.learning,
           r.counts = q.counts, SameBuilding(r, q)
    PROVE  r = q
BY QueueFields DEF SameBuilding

\* What is inserted and removed again, and what is taken from the front
LEMMA InsertedRemoved ==
    ASSUME NEW S, NEW s \in Seq(S), NEW e \in S, NEW p \in Int, 1 <= p, p <= Len(s) + 1
    PROVE  RemoveAt(InsertAt(s, p, e), p) = s
<1> DEFINE l == InsertAt(s, p, e)
           r == RemoveAt(l, p)
<1>1. Len(s) \in Nat
  OBVIOUS
<1>2. /\ l \in Seq(S) /\ Len(l) = Len(s) + 1
      /\ \A i \in 1..(Len(s) + 1) : (i < p => l[i] = s[i]) /\ (i = p => l[i] = e) /\ (i > p => l[i] = s[i - 1])
  <2>1. /\ InsertAt(s, p, e) \in Seq(S) /\ Len(InsertAt(s, p, e)) = Len(s) + 1
        /\ \A i \in 1..(Len(s) + 1) : /\ i < p => InsertAt(s, p, e)[i] = s[i]
                                      /\ i = p => InsertAt(s, p, e)[i] = e
                                      /\ i > p => InsertAt(s, p, e)[i] = s[i - 1]
    BY InsertedAt
  <2> QED
    BY <2>1
<1> HIDE DEF l
<1>3. p \in 1..Len(l)
  BY <1>1, <1>2
<1>4. r \in Seq(S) /\ Len(r) = Len(l) - 1 /\ \A i \in 1..(Len(l) - 1) : r[i] = IF i < p THEN l[i] ELSE l[i + 1]
  BY <1>2, <1>3, RemovedAt
<1> HIDE DEF r
<1>5. ASSUME NEW i \in 1..Len(s) PROVE s[i] = r[i]
  <2>1. CASE i < p
    BY <1>1, <1>2, <1>4, <2>1
  <2>2. CASE ~(i < p)
    <3> DEFINE j == i + 1
    <3>1. j \in 1..(Len(s) + 1) /\ j > p /\ j - 1 = i /\ i \in 1..(Len(l) - 1)
      BY <1>1, <1>2, <2>2
    <3>2. r[i] = l[j]
      BY <1>4, <2>2, <3>1
    <3> HIDE DEF j
    <3> QED
      BY <1>2, <3>1, <3>2
  <2> QED
    BY <2>1, <2>2
<1>6. Len(r) = Len(s)
  BY <1>1, <1>2, <1>4
<1>7. r = s
  BY <1>4, <1>5, <1>6, SeqEqual
<1> QED
  BY <1>7 DEF r, l

LEMMA RemovedFirst ==
    ASSUME NEW S, NEW s \in Seq(S), 1 \in DOMAIN s
    PROVE  <<s[1]>> \o RemoveAt(s, 1) = s /\ RemoveAt(s, 1) \in Seq(S)
<1> DEFINE r == RemoveAt(s, 1)
           t == Tail(s)
<1>1. Len(s) \in Nat /\ 1 \in 1..Len(s) /\ s # <<>>
  OBVIOUS
<1>2. /\ s = <<Head(s)>> \o t /\ t \in Seq(S) /\ Head(s) = s[1]
      /\ Len(t) = Len(s) - 1 /\ \A i \in 1..(Len(s) - 1) : t[i] = s[i + 1]
  BY <1>1, HeadTail
<1>3. r \in Seq(S) /\ Len(r) = Len(s) - 1 /\ \A i \in 1..(Len(s) - 1) : r[i] = IF i < 1 THEN s[i] ELSE s[i + 1]
  BY <1>1, RemovedAt
<1> HIDE DEF r, t
<1>4. \A i \in 1..Len(t) : r[i] = t[i]
  BY <1>1, <1>2, <1>3
<1>5. r = t
  BY <1>2, <1>3, <1>4, SeqEqual
<1> QED
  BY <1>2, <1>3, <1>5 DEF r

\* The counts with an entry taken and put back, unless it was the one that is not counted
LEMMA WithoutAndWith ==
    ASSUME NEW c \in Counts, NEW e, e.kind \in Kinds, e.kind \in {"Learning", "InterdayLearning"} => c.learning # 0
    PROVE  CountsWith(CountsWithout(c, e), e) = c
<1>1. \A n \in Nat : n # 0 => Less(n) + 1 = n
  BY DEF Less
<1>2. CASE e.kind = "New"
  <2> DEFINE d == [c EXCEPT !.new = @ - 1]
  <2>1. CountsWithout(c, e) = d
    BY <1>2 DEF CountsWithout
  <2>3. CountsWith(d, e) = [d EXCEPT !.new = @ + 1]
    <3> HIDE DEF d
    <3> QED
      BY <1>2 DEF CountsWith
  <2>2. [d EXCEPT !.new = @ + 1] = c
    <3>1. c.new \in Int /\ (c.new - 1) + 1 = c.new
      BY DEF Counts
    <3>2. [d EXCEPT !.new = @ + 1] = [c EXCEPT !.new = (c.new - 1) + 1]
      BY DEF Counts
    <3>3. [c EXCEPT !.new = c.new] = c
      BY DEF Counts
    <3> QED
      BY <3>1, <3>2, <3>3
  <2> QED
    BY <2>1, <2>2, <2>3
<1>3. CASE e.kind = "Review"
  <2> DEFINE d == [c EXCEPT !.review = @ - 1]
  <2>1. CountsWithout(c, e) = d
    BY <1>3 DEF CountsWithout
  <2>3. CountsWith(d, e) = [d EXCEPT !.review = @ + 1]
    <3> HIDE DEF d
    <3> QED
      BY <1>3 DEF CountsWith
  <2>2. [d EXCEPT !.review = @ + 1] = c
    <3>1. c.review \in Int /\ (c.review - 1) + 1 = c.review
      BY DEF Counts
    <3>2. [d EXCEPT !.review = @ + 1] = [c EXCEPT !.review = (c.review - 1) + 1]
      BY DEF Counts
    <3>3. [c EXCEPT !.review = c.review] = c
      BY DEF Counts
    <3> QED
      BY <3>1, <3>2, <3>3
  <2> QED
    BY <2>1, <2>2, <2>3
<1>4. CASE e.kind \in {"Learning", "InterdayLearning"}
  <2>1. CountsWithout(c, e) = [c EXCEPT !.learning = Less(@)]
    BY <1>4 DEF CountsWithout
  <2> DEFINE d == [c EXCEPT !.learning = Less(@)]
  <2>2. CountsWith(d, e) = [d EXCEPT !.learning = @ + 1]
    BY <1>4 DEF CountsWith
  <2>3. [d EXCEPT !.learning = @ + 1] = c
    BY <1>1, <1>4 DEF Counts
  <2> QED
    BY <2>1, <2>2, <2>3
<1> QED
  BY <1>2, <1>3, <1>4 DEF Kinds

\* The queue the cutoff has moved on
Later(r, q) ==
    /\ r \in CardQueues /\ r.main = q.main /\ r.learning = q.learning /\ r.day = q.day /\ r.build = q.build
    /\ r.counts.new = q.counts.new /\ r.counts.review = q.counts.review

LEMMA BumpLater ==
    ASSUME NEW q \in CardQueues, NEW now \in Time
    PROVE  Later(Bump(q, now), q)
<1> DEFINE A == {i \in DOMAIN q.learning : Ahead(q) < q.learning[i].due /\ q.learning[i].due <= now + LearnAhead}
           n == Cardinality(A)
           c == LearningMore(q.counts, n)
           r == [q EXCEPT !.cutoff = now, !.counts = c]
<1>1. n \in Nat
  <2>1. q.learning \in Seq(LearningEntry)
    BY QueueFields
  <2>2. A \in SUBSET (1..Len(q.learning)) /\ Len(q.learning) \in Nat
    BY <2>1
  <2>3. IsFiniteSet(1..Len(q.learning))
    BY <2>2, FS_Interval
  <2> HIDE DEF A
  <2>4. IsFiniteSet(A)
    BY <2>2, <2>3, FS_Subset
  <2> QED
    BY <2>4, FS_CardinalityType
<1>2. Bump(q, now) = r
  BY DEF Bump, LearningMore
<1> HIDE DEF n
<1>3. c \in Counts /\ c.new = q.counts.new /\ c.review = q.counts.review
  <2>1. q.counts \in Counts
    BY QueueFields
  <2> QED
    BY <1>1, <2>1, CountsAdd DEF LearningMore, Counts
<1> HIDE DEF c
<1>4. /\ r \in CardQueues /\ r.main = q.main /\ r.learning = q.learning /\ r.counts = c
      /\ r.day = q.day /\ r.build = q.build
  BY <1>3 DEF CardQueues
<1> HIDE DEF r
<1> QED
  BY <1>2, <1>3, <1>4 DEF Later

LEMMA LaterRestored ==
    ASSUME NEW q \in CardQueues, NEW r, Later(r, q)
    PROVE  Restore(r, Snapshot(q)) = q
<1> DEFINE s == Snapshot(q)
           z == Restore(r, s)
<1>1. s \in CutoffSnapshot /\ s.learning = q.counts.learning /\ s.cutoff = q.cutoff
  BY QueueFields DEF Snapshot, CutoffSnapshot
<1>2. r \in CardQueues
  BY DEF Later
<1> HIDE DEF s
<1>3. /\ z \in CardQueues /\ z.main = r.main /\ z.learning = r.learning
      /\ z.cutoff = s.cutoff /\ z.day = r.day /\ z.build = r.build
      /\ z.counts = [r.counts EXCEPT !.learning = s.learning]
  BY <1>1, <1>2, RestoreFacts
<1>4. [r.counts EXCEPT !.learning = s.learning] = q.counts
  <2>1. r.counts \in Counts /\ q.counts \in Counts
    BY <1>2, QueueFields
  <2> QED
    BY <1>1, <2>1 DEF Later, Counts
<1> HIDE DEF z
<1>5. SameBuilding(z, q)
  BY <1>1, <1>3 DEF SameBuilding, Later
<1>6. z = q
  BY <1>3, <1>4, <1>5, SameQueue DEF Later
<1> QED
  BY <1>6 DEF z, s

\* The entry put back is removed again.
LEMMA RequeueRemoved ==
    ASSUME NEW q \in CardQueues, Distinct(q.learning), NEW e \in LearningEntry,
           \A f \in Range(q.learning) : f.id # e.id, NEW p \in Int, 1 <= p, p <= Len(q.learning) + 1
    PROVE  InsertLearning(q, e, p) \in CardQueues /\ RemoveLearning(InsertLearning(q, e, p), e.id) = q
<1> DEFINE x == InsertLearning(q, e, p)
           s == q.learning
           l == InsertAt(s, p, e)
           k == LearningMore(q.counts, One(e.due <= Ahead(q)))
<1>1. /\ x \in CardQueues /\ x.main = q.main /\ Distinct(x.learning) /\ SameBuilding(x, q)
  BY InsertLearningFacts
<1>2. s \in Seq(LearningEntry) /\ q.counts \in Counts /\ Ahead(x) = Ahead(q)
  BY <1>1, QueueFields DEF SameBuilding, Ahead
<1>3. x = [q EXCEPT !.learning = l, !.counts = k]
  BY DEF InsertLearning, LearningMore
<1>4. x.learning = l /\ x.counts = k
  <2> HIDE DEF x, l, k
  <2> QED
    BY <1>3 DEF CardQueues
<1>5. /\ l \in Seq(LearningEntry) /\ Len(l) = Len(s) + 1 /\ l[p] = e /\ RemoveAt(l, p) = s /\ p \in DOMAIN l
  <2> HIDE DEF s
  <2>0. 1 <= p /\ p <= Len(s) + 1 /\ Len(s) \in Nat /\ s \in Seq(LearningEntry)
    BY <1>2 DEF s
  <2>1. /\ InsertAt(s, p, e) \in Seq(LearningEntry) /\ Len(InsertAt(s, p, e)) = Len(s) + 1
        /\ \A i \in 1..(Len(s) + 1) : /\ i < p => InsertAt(s, p, e)[i] = s[i]
                                      /\ i = p => InsertAt(s, p, e)[i] = e
                                      /\ i > p => InsertAt(s, p, e)[i] = s[i - 1]
    BY <2>0, InsertedAt
  <2>2. RemoveAt(InsertAt(s, p, e), p) = s
    BY <2>0, InsertedRemoved
  <2> QED
    BY <2>0, <2>1, <2>2
<1> HIDE DEF l, k, x
<1> DEFINE at == {i \in DOMAIN x.learning : x.learning[i].id = e.id}
<1>6. at = {p} /\ Min(at) = p
  <2>1. DOMAIN l \subseteq Int /\ Distinct(l)
    BY <1>1, <1>4, <1>5
  <2>2. {i \in DOMAIN l : l[i].id = l[p].id} = {p} /\ Min({i \in DOMAIN l : l[i].id = l[p].id}) = p
    BY <1>5, <2>1, OnlyPlace
  <2> QED
    BY <1>4, <1>5, <2>2
<1> DEFINE c == [k EXCEPT !.learning = IF e.due <= Ahead(q) THEN Less(@) ELSE @]
           r == [x EXCEPT !.learning = s, !.counts = c]
<1>7. RemoveLearning(x, e.id) = r
  <2>1. RemoveLearning(x, e.id) =
          [x EXCEPT !.learning = RemoveAt(@, Min(at)),
                    !.counts.learning = IF x.learning[Min(at)].due <= Ahead(x) THEN Less(@) ELSE @]
    BY <1>6 DEF RemoveLearning
  <2>2. x.learning[Min(at)] = e /\ RemoveAt(x.learning, Min(at)) = s
    BY <1>4, <1>5, <1>6
  <2> HIDE DEF at, s
  <2> QED
    BY <1>1, <1>2, <1>4, <2>1, <2>2 DEF CardQueues
<1>8. c = q.counts
  <2>1. \A n \in Nat : Less(n + 1) = n
    BY DEF Less
  <2>2. CASE e.due <= Ahead(q)
    BY <1>2, <2>1, <2>2 DEF k, LearningMore, One, Counts
  <2>3. CASE ~(e.due <= Ahead(q))
    <3>1. k = [q.counts EXCEPT !.learning = @ + 0]
      BY <2>3 DEF k, LearningMore, One
    <3>2. k = q.counts
      BY <1>2, <3>1 DEF Counts
    <3> HIDE DEF k
    <3> QED
      BY <1>2, <2>3, <3>2 DEF Counts
  <2> QED
    BY <2>2, <2>3
<1> HIDE DEF c
<1>9. r \in CardQueues /\ r.main = x.main /\ r.learning = s /\ r.counts = c /\ SameBuilding(r, x)
  <2>1. x \in CardQueues /\ s \in Seq(LearningEntry) /\ c \in Counts
    BY <1>1, <1>2, <1>8
  <2> HIDE DEF s
  <2> QED
    BY <2>1, PatchedLearning
<1> HIDE DEF r
<1>10. r = q
  BY <1>1, <1>8, <1>9, SameQueue DEF SameBuilding
<1> QED
  BY <1>1, <1>7, <1>10 DEF x

\* The card at the top, popped and pushed back, is at the top.
LEMMA PoppedPushed ==
    ASSUME NEW q \in CardQueues, Distinct(q.learning), Orderly(q.main, Range(q.learning)),
           InOrder(q.learning), AllTried(q.learning),
           q.counts = Tally(q.main, Range(q.learning), Ahead(q)), TopEntry(q) # NoEntry
    PROVE  LET pop == Popped(q, TopEntry(q).id) IN Push(pop.rest, pop.entry) = q
<1> DEFINE e == TopEntry(q)
           pop == Popped(q, e.id)
           z == Push(pop.rest, e)
<1>1. /\ q.main \in Seq(MainEntry) /\ q.learning \in Seq(LearningEntry) /\ q.counts \in Counts
      /\ Distinct(q.main)
  BY QueueFields DEF Orderly
<1>2. e.kind \in {"Learning", "InterdayLearning"} => q.counts.learning # 0
  BY <1>1, TopIsCounted
<1>3. \/ 1 \in DOMAIN q.learning /\ e = q.learning[1]
      \/ q.main # <<>> /\ e = Head(q.main)
  BY TopFirst
<1> HIDE DEF e
<1>4. CASE 1 \in DOMAIN q.learning /\ e = q.learning[1]
  <2> DEFINE s == q.learning
  <2>1. e \in Range(s) /\ e \in LearningEntry /\ s \in Seq(LearningEntry) /\ DOMAIN s \subseteq Int
    BY <1>1, <1>4 DEF Range
  <2>2. /\ pop.entry = e /\ pop.rest \in CardQueues /\ pop.rest.main = q.main
        /\ Range(pop.rest.learning) = Range(q.learning) \ {e}
        /\ Distinct(pop.rest.learning) /\ SameBuilding(pop.rest, q)
        /\ pop.rest.counts = CountsWithout(q.counts, e)
    BY <2>1, PoppedLearning
  <2>3. {k \in DOMAIN s : s[k].id = e.id} = {1} /\ Min({k \in DOMAIN s : s[k].id = e.id}) = 1
    <3>1. {k \in DOMAIN s : s[k].id = s[1].id} = {1} /\ Min({k \in DOMAIN s : s[k].id = s[1].id}) = 1
      BY <1>4, <2>1, OnlyPlace
    <3> QED
      BY <1>4, <3>1
  <2> DEFINE l == RemoveAt(s, 1)
             c == CountsWithout(q.counts, e)
             r == [q EXCEPT !.learning = l, !.counts = c]
  <2>4. pop.rest = r
    BY <1>4, <2>3 DEF Popped
  <2>5. <<e>> \o l = s /\ l \in Seq(LearningEntry)
    <3> HIDE DEF s
    <3>1. 1 \in DOMAIN s /\ e = s[1] /\ s \in Seq(LearningEntry)
      BY <1>4, <2>1 DEF s
    <3> QED
      BY <3>1, RemovedFirst
  <2>6. e.kind \in Kinds /\ e.kind = "Learning"
    BY <2>1, EntryFacts DEF Kinds
  <2>7. c \in Counts
    BY <1>1, <2>6, CountsWithoutType
  <2> HIDE DEF l, c
  <2>8. r.learning = l
    BY DEF CardQueues
  <2> HIDE DEF r, s
  <2>9. \A f \in Range(pop.rest.learning) : f.id # e.id
    <3> HIDE DEF pop
    <3> QED
      BY <2>1, <2>2 DEF Orderly, s
  <2> HIDE DEF pop
  <2>10. /\ z \in CardQueues /\ z.main = pop.rest.main
         /\ SameBuilding(z, pop.rest) /\ z.counts = CountsWith(pop.rest.counts, e)
    BY <2>1, <2>2, <2>9, PushLearning
  <2>11. z.learning = <<e>> \o pop.rest.learning
    <3> DEFINE k == <<e>> \o pop.rest.learning
               d == CountsWith(pop.rest.counts, e)
    <3>1. z = [pop.rest EXCEPT !.learning = k, !.counts = d]
      BY <2>6 DEF Push
    <3> HIDE DEF k, d, z
    <3>2. z.learning = k
      BY <2>2, <3>1 DEF CardQueues
    <3> QED
      BY <3>2 DEF k
  <2> HIDE DEF z
  <2>12. z.learning = q.learning
    BY <2>4, <2>5, <2>8, <2>11 DEF s
  <2>13. z.counts = q.counts
    BY <1>1, <1>2, <2>2, <2>6, <2>10, WithoutAndWith
  <2>14. z = q
    BY <2>2, <2>10, <2>12, <2>13, SameQueue DEF SameBuilding
  <2> QED
    BY <2>2, <2>14 DEF z, pop, e
<1>5. CASE q.main # <<>> /\ e = Head(q.main)
  <2>1. e \in MainEntry /\ e \in Range(q.main)
    BY <1>1, <1>5, HeadTail DEF Range
  <2>2. \A f \in Range(q.learning) : f.id # e.id
    BY <2>1 DEF Orderly
  <2>3. /\ pop.entry = e /\ pop.rest \in CardQueues /\ q.main = <<e>> \o pop.rest.main
        /\ pop.rest.learning = q.learning /\ SameBuilding(pop.rest, q)
        /\ pop.rest.counts = CountsWithout(q.counts, e)
    <3>1. q.main # <<>> /\ \A g \in Range(q.learning) : g.id # Head(q.main).id
      BY <1>5, <2>2
    <3> DEFINE h == Head(q.main)
               top == Popped(q, h.id)
    <3>2. /\ top.entry = h /\ top.rest \in CardQueues /\ q.main = <<top.entry>> \o top.rest.main
          /\ top.rest.learning = q.learning /\ SameBuilding(top.rest, q)
          /\ top.rest.counts = CountsWithout(q.counts, top.entry)
      BY <3>1, PoppedMain
    <3>3. e = h /\ pop = top
      BY <1>5
    <3> HIDE DEF pop, top, h
    <3> QED
      BY <3>2, <3>3
  <2>4. e.kind \in Kinds
    BY <2>1, EntryFacts DEF Kinds, MainKind
  <2> HIDE DEF pop
  <2>5. /\ z \in CardQueues /\ z.main = <<e>> \o pop.rest.main /\ z.learning = pop.rest.learning
        /\ SameBuilding(z, pop.rest) /\ z.counts = CountsWith(pop.rest.counts, e)
    BY <2>1, <2>3, PushMain
  <2> HIDE DEF z
  <2>6. z.counts = q.counts
    BY <1>1, <1>2, <2>3, <2>4, <2>5, WithoutAndWith
  <2>7. z = q
    BY <2>3, <2>5, <2>6, SameQueue DEF SameBuilding
  <2> QED
    BY <2>3, <2>7 DEF z, pop, e
<1> QED
  BY <1>3, <1>4, <1>5

\* A queue in order, whose card at the top is about to be answered
Poised(q) ==
    /\ q \in CardQueues /\ Distinct(q.learning) /\ Orderly(q.main, Range(q.learning))
    /\ InOrder(q.learning) /\ AllTried(q.learning)
    /\ q.counts = Tally(q.main, Range(q.learning), Ahead(q)) /\ TopEntry(q) # NoEntry
    /\ clock \in Time /\ TopEntry(q).id \in Cards

\* The queue as it is, or with the cutoff moved on
LaterThan(later, q) == later = q \/ \E now \in Time : later = Bump(q, now)

\* The answer to the card at the top, taken back when the cutoff may have moved
LEMMA AnsweredUndone ==
    ASSUME NEW q, Poised(q), NEW c \in CardRecord, NEW f, NEW p \in AnswerPositions(q, TopEntry(q).id, c, f),
           NEW later, LaterThan(later, Answered(q, TopEntry(q).id, c, f, p).queues)
    PROVE  Undone(later, Answered(q, TopEntry(q).id, c, f, p).update) = q
<1> DEFINE id == TopEntry(q).id
<1>14. /\ q \in CardQueues /\ Distinct(q.learning) /\ Orderly(q.main, Range(q.learning))
      /\ InOrder(q.learning) /\ AllTried(q.learning)
      /\ q.counts = Tally(q.main, Range(q.learning), Ahead(q)) /\ TopEntry(q) # NoEntry
      /\ clock \in Time /\ id \in Cards
  BY DEF Poised
<1> DEFINE pop   == Popped(q, id)
           rest  == pop.rest
           again == RequeueEntry(rest, LearningEntryOf(id, c))
           goes  == GoesBack(c, f)
           mid   == IF goes THEN InsertLearning(rest, again, p) ELSE rest
           a     == Answered(q, id, c, f, p)
           u     == a.update
<1>1. CanPop(q, id)
  BY <1>14, TopEntryFacts
<1>2. Push(rest, pop.entry) = q
  BY <1>14, PoppedPushed
<1>15. p \in AnswerPositions(q, id, c, f) /\ LaterThan(later, a.queues)
  OBVIOUS
<1> HIDE DEF id
<1>3. /\ rest \in CardQueues /\ Distinct(rest.learning) /\ \A x \in Range(rest.learning) : x.id # id
  <2> DEFINE e == pop.entry
             m == rest.main
             l == Range(rest.learning)
  <2>1. /\ e \in Entry /\ e.id = id /\ rest \in CardQueues /\ Distinct(rest.learning)
        /\ e.kind = "Learning" => e \in Range(q.learning) /\ m = q.main
        /\ e.kind # "Learning" => q.main = <<e>> \o m
        /\ l = Range(q.learning) \ {e} /\ Distinct(m)
        /\ \A x \in Range(m) \cup l : x.id # e.id
        /\ rest.counts = CountsWithout(q.counts, e)
    BY <1>1, <1>14, PoppedFacts
  <2> HIDE DEF pop
  <2> QED
    BY <2>1
<1>4. a.queues = Bump(mid, clock)
  BY DEF Answered
<1>5. u.entry = pop.entry /\ u.requeue = (IF goes THEN again ELSE NoEntry) /\ u.snapshot = Snapshot(mid)
  BY DEF Answered
<1>6. p \in (IF goes THEN InsertPositions(rest.learning, again) ELSE {1})
  BY <1>15 DEF AnswerPositions
<1> HIDE DEF pop
<1>7. again \in LearningEntry /\ again.id = id /\ again # NoEntry
  <2>1. again \in LearningEntry /\ again.id = id
    BY <1>3, <1>14, RequeueFacts
  <2> HIDE DEF again
  <2> QED
    BY <2>1, EntryFacts
<1> HIDE DEF rest, again, goes, a
<1>8. mid \in CardQueues /\ (goes => RemoveLearning(mid, id) = rest) /\ (~goes => mid = rest)
  <2>1. CASE ~goes
    BY <1>3, <2>1
  <2>2. CASE goes
    <3>1. rest.learning \in Seq(LearningEntry)
      BY <1>3, QueueFields
    <3>2. p \in Int /\ 1 <= p /\ p <= Len(rest.learning) + 1
      BY <1>6, <2>2, <3>1, PositionsFit
    <3>3. InsertLearning(rest, again, p) \in CardQueues /\ RemoveLearning(InsertLearning(rest, again, p), again.id) = rest
      BY <1>3, <1>7, <3>2, RequeueRemoved
    <3> QED
      BY <1>7, <2>2, <3>3
  <2> QED
    BY <2>1, <2>2
<1> HIDE DEF mid, u
<1>9. Later(later, mid)
  <2>1. Later(a.queues, mid)
    BY <1>4, <1>8, <1>14, BumpLater
  <2>2. CASE later = a.queues
    BY <2>1, <2>2
  <2>3. CASE \E now \in Time : later = Bump(a.queues, now)
    <3>1. PICK now \in Time : later = Bump(a.queues, now)
      BY <2>3
    <3>2. a.queues \in CardQueues
      BY <2>1 DEF Later
    <3>3. Later(later, a.queues)
      BY <3>1, <3>2, BumpLater
    <3> QED
      BY <2>1, <3>3 DEF Later
  <2> QED
    BY <1>15, <2>2, <2>3 DEF LaterThan
<1>10. Restore(later, u.snapshot) = mid
  BY <1>5, <1>8, <1>9, LaterRestored
<1>11. Undone(later, u) = Push(IF u.requeue = NoEntry THEN mid ELSE RemoveLearning(mid, u.requeue.id), u.entry)
  BY <1>10 DEF Undone
<1>12. (IF u.requeue = NoEntry THEN mid ELSE RemoveLearning(mid, u.requeue.id)) = rest
  BY <1>5, <1>7, <1>8
<1>13. Undone(later, u) = q
  BY <1>2, <1>5, <1>11, <1>12
<1> QED
  BY <1>13 DEF u, a, id

LEMMA UndoneAsBefore ==
    ASSUME HInv, Guarded, Lined
    PROVE  UndoneIsBefore
<1> DEFINE q == queues
<1> SUFFICES ASSUME q # NoQueues, TopEntry(q) # NoEntry,
                    NEW o \in Outcomes(TopEntry(q).id),
                    NEW p \in AnswerPositions(q, TopEntry(q).id, o.c, o.finished), NEW now \in clock..MaxTime
             PROVE  LET id == TopEntry(q).id
                        a  == Answered(q, id, o.c, o.finished, p)
                        later == IF a.queues.counts = [new |-> 0, learning |-> 0, review |-> 0]
                                 THEN Bump(a.queues, now) ELSE a.queues
                    IN  Undone(later, a.update) = q
  BY DEF UndoneIsBefore
<1>1. /\ q \in CardQueues /\ Distinct(q.learning) /\ Orderly(q.main, Range(q.learning))
      /\ InOrder(q.learning) /\ AllTried(q.learning)
      /\ q.counts = Tally(q.main, Range(q.learning), Ahead(q))
  BY QueueHeld DEF Lined, InLine
<1>2. clock \in Time /\ now \in Time
  <2>1. clock \in Time /\ clock \in Nat /\ MaxTime \in Nat /\ Time = 0..MaxTime
    BY Numbers DEF HInv, Typed
  <2> QED
    BY <2>1
<1> HIDE DEF q
<1>3. TopEntry(q).id \in Cards
  <2>1. TopEntry(q) \in Range(q.main) \cup Range(q.learning)
    BY <1>1, TopEntryFacts
  <2>2. q.main \in Seq(MainEntry) /\ q.learning \in Seq(LearningEntry)
    BY <1>1, QueueFields
  <2>3. Range(q.main) \subseteq MainEntry /\ Range(q.learning) \subseteq LearningEntry
    BY <2>2, RangeFinite
  <2> QED
    BY <2>1, <2>3, EntryFacts
<1>4. o.c \in CardRecord
  BY <1>3, OutcomeFacts DEF HInv
<1>5. Poised(q)
  BY <1>1, <1>2, <1>3 DEF Poised
<1> DEFINE id == TopEntry(q).id
           a  == Answered(q, id, o.c, o.finished, p)
           later == IF a.queues.counts = [new |-> 0, learning |-> 0, review |-> 0]
                    THEN Bump(a.queues, now) ELSE a.queues
<1>6. LaterThan(later, a.queues)
  BY <1>2 DEF LaterThan
<1> HIDE DEF later
<1>7. Undone(later, a.update) = q
  BY <1>4, <1>5, <1>6, AnsweredUndone
<1> QED
  BY <1>7 DEF later

\* The invariant of the order says that the learning cards stay in order.
LEMMA LearningLined ==
    ASSUME Lined
    PROVE  LearningInOrder
BY DEF Lined, InLine, LearningInOrder

-----------------------------------------------------------------------------

\* The invariant of the queue and its history holds always: every answer that can
\* still be taken back, or given again, leads from one sound queue to another, and,
\* while the queue is not built again under a card, its learning cards stand in line.
THEOREM QueueKeepsHistory == Spec => []IInv
<1>1. Init => IInv
  BY InitHolds, InitLines DEF IInv
<1>2. IInv /\ [Next]_vars => IInv'
  <2>1. SUFFICES ASSUME HInv, Ordered => Lined, [Next]_vars PROVE HInv' /\ (Ordered => Lined')
    BY DEF IInv
  <2>2. HInv'
    BY <2>1, NextKeeps
  <2>3. ASSUME Ordered PROVE Lined'
    BY <2>1, <2>3, NextLines
  <2> QED
    BY <2>2, <2>3
<1> QED
  BY <1>1, <1>2, PTL DEF Spec

\* The state keeps its type (card_queues, the undo and redo steps, the cards).
THEOREM TypeCorrect == Spec => []Typed
<1>1. IInv => Typed
  BY DEF IInv, HInv
<1> QED
  BY <1>1, QueueKeepsHistory, PTL

\* No card is queued twice, whatever is answered, undone, redone, dropped or rebuilt
\* (pop_entry(), push_undo_entry() and insert_intraday_learning_card()).
THEOREM NoCardTwiceAlways == Spec => []NoCardTwice
<1>1. IInv => NoCardTwice
  BY NoneTwice DEF IInv
<1> QED
  BY <1>1, QueueKeepsHistory, PTL

\* A redo finds its card where the undo put it back: "not at top of queue" is
\* never the answer to it (undo.rs 53-63).
THEOREM RedoFindsCardAlways == Spec => []RedoFindsCard
<1>1. IInv => RedoFindsCard
  BY RedoFinds DEF RedoFindsCard, IInv
<1> QED
  BY <1>1, QueueKeepsHistory, PTL

\* While nothing drops the queues under a card that is shown, the counts are those
\* of the entries left, though they are only ever moved along.
THEOREM CountsMatchAlways ==
    ASSUME "dropShown" \notin Background
    PROVE  Spec => []CountsMatch
<1>1. IInv => CountsMatch
  BY CountsAreRight DEF Guarded, IInv
<1> QED
  BY <1>1, QueueKeepsHistory, PTL

\* Likewise every entry is of its card as it is: the "card modified without updating
\* queue" that get_queued_cards() looks for does not happen.
THEOREM QueueFreshAlways ==
    ASSUME "dropShown" \notin Background
    PROVE  Spec => []QueueFresh
<1>1. IInv => QueueFresh
  BY EntriesAreFresh DEF Guarded, IInv
<1> QED
  BY <1>1, QueueKeepsHistory, PTL

\* Likewise no learning card of the day is lost from the day's queue.
THEOREM LearnersKeptAlways ==
    ASSUME "dropShown" \notin Background
    PROVE  Spec => []LearnersKept
<1>1. IInv => LearnersKept
  BY LearnersAreKept DEF Guarded, IInv
<1> QED
  BY <1>1, QueueKeepsHistory, PTL

\* While nothing but the reviewer asks for the queue, the card it shows can be
\* answered, though the queue may be dropped or rebuilt under it.
THEOREM ShownCanBeAnsweredAlways ==
    ASSUME "peek" \notin Background
    PROVE  Spec => []ShownCanBeAnswered
<1>1. Init => ShownCanBeAnswered
  BY DEF Init, ShownCanBeAnswered
<1>2. IInv /\ ShownCanBeAnswered /\ [Next]_vars => ShownCanBeAnswered'
  BY ShownStaysPoppable DEF IInv
<1> QED
  BY <1>1, <1>2, QueueKeepsHistory, PTL DEF Spec

\* While nothing drops the queues under a card that is shown, asking again brings no
\* other card in front of the one shown at the head of the same queue: neither the
\* time that passes nor a learning card that comes due does (queue/mod.rs 39-42).
THEOREM StaysOnCardAlways ==
    ASSUME "dropShown" \notin Background
    PROVE  Spec => StaysOnCard
<1> DEFINE Stays == shown # NoCard /\ shown' # NoCard /\ queues # NoQueues /\ queues' # NoQueues
                    /\ TopEntry(queues) # NoEntry /\ shown = TopEntry(queues).id
                    /\ queues'.build = queues.build => shown' = shown
<1>1. IInv /\ [Next]_vars => [Stays]_vars
  <2>1. Guarded
    BY DEF Guarded
  <2> QED
    BY <2>1, StaysOnTheCard DEF IInv
<1>2. Spec => [][Stays]_vars
  BY <1>1, QueueKeepsHistory, PTL DEF Spec
<1> QED
  BY <1>2 DEF StaysOnCard

\* The learning cards stay in the order in which they are due: where an answered card
\* goes back in, and where a card taken back is put (at the front), are the right
\* places (requeue_learning_entry(), push_undo_entry()). For cards that all have been
\* answered before, and while the queue is not built again under a card that is shown.
THEOREM LearningInOrderAlways ==
    ASSUME Previewed = {}, "rebuild" \notin Background,
           "peek" \in Background => /\ "dropShown" \notin Background /\ "deferred" \notin Background
                                    /\ MaxTime < DayLength
    PROVE  Spec => []LearningInOrder
<1>1. Ordered
  BY DEF Ordered, Guarded
<1>2. IInv => LearningInOrder
  BY <1>1, LearningLined DEF IInv
<1> QED
  BY <1>2, QueueKeepsHistory, PTL

\* Whatever card is at the top, and whatever answer it gets, taking the answer back,
\* at once or after the cutoff has moved, leaves exactly the queue it was answered
\* from: entries, order, counts and cutoff (undo.rs 35-41).
THEOREM UndoneIsBeforeAlways ==
    ASSUME Previewed = {}, "rebuild" \notin Background, "dropShown" \notin Background,
           "peek" \in Background => "deferred" \notin Background /\ MaxTime < DayLength
    PROVE  Spec => []UndoneIsBefore
<1>1. Ordered /\ Guarded
  BY DEF Ordered, Guarded
<1>2. IInv => UndoneIsBefore
  BY <1>1, UndoneAsBefore DEF IInv
<1> QED
  BY <1>2, QueueKeepsHistory, PTL

=============================================================================
