------------------------- MODULE MediaSyncProofs -------------------------
(***************************************************************************)
(* That media syncs lose track of nothing: NothingSkipped and              *)
(* FolderRegistered, for any devices, files and batch sizes.               *)
(*                                                                         *)
(* Neither is kept by the steps alone: a batch writes files, then rows and *)
(* the number, and what it has read may be stale by then.  The inductive   *)
(* invariant (Inv) says in between what is still owed:                     *)
(*   - the server's numbers are its own, one for each change (Numbered);   *)
(*   - the rows agree with the server up to the number seen, and the       *)
(*     folder with the rows but for what a batch has brought or left half  *)
(*     done (KnownAsSeen, KnownAsFound);                                   *)
(*   - each file of a batch is on one of its lists, for what the rows will *)
(*     say, or agrees already; one the server has changed again is beyond  *)
(*     the batch's number (BatchFile);                                     *)
(*   - what has been sent is what the rows say, and if the server's number *)
(*     has moved by just that, nobody else's change lies below (SentFile). *)
(* Nothing but the shape of its jobs is claimed of a device in slipped.    *)
(***************************************************************************)
EXTENDS MediaSync, FiniteSetTheorems, SequenceTheorems, WellFoundedInduction, TLAPS

\* A set of naturals that holds 0, and n + 1 with n, holds every natural.
LEMMA Induction ==
    ASSUME NEW P \in SUBSET Nat, 0 \in P, \A n \in P : n + 1 \in P
    PROVE  P = Nat
<1> DEFINE R == OpToRel(<, Nat)
<1> SUFFICES ASSUME Nat \ P # {} PROVE FALSE
  OBVIOUS
<1>1. IsWellFoundedOn(R, Nat)
  BY NatLessThanWellFounded
<1>2. PICK m \in Nat \ P : \A k \in Nat \ P : <<k, m>> \notin R
  <2> HIDE DEF R
  <2>1. Nat \ P \subseteq Nat
    OBVIOUS
  <2> QED
    BY <1>1, <2>1, WFMin
<1>3. m # 0 /\ m - 1 \in Nat /\ <<m - 1, m>> \in R
  BY DEF OpToRel
<1>4. m - 1 \in P
  BY <1>2, <1>3
<1>5. (m - 1) + 1 \in P
  BY <1>4
<1> QED
  BY <1>5

-----------------------------------------------------------------------------
(* Sequences of files                                                      *)

LEMMA AppendedRange ==
    ASSUME NEW S, NEW s \in Seq(S), NEW x \in S
    PROVE  s \o <<x>> \in Seq(S) /\ Range(s \o <<x>>) = Range(s) \cup {x}
<1> DEFINE r == s \o <<x>>
<1>1. /\ r \in Seq(S) /\ Len(r) = Len(s) + 1 /\ Len(s) \in Nat
      /\ \A i \in 1..Len(s) : r[i] = s[i]
      /\ r[Len(s) + 1] = x
  OBVIOUS
<1> HIDE DEF r
<1>2. DOMAIN r = 1..(Len(s) + 1) /\ DOMAIN s = 1..Len(s)
  BY <1>1
<1>3. \A i \in DOMAIN r : r[i] \in Range(s) \cup {x}
  <2> TAKE i \in DOMAIN r
  <2>1. i \in 1..Len(s) \/ i = Len(s) + 1
    BY <1>1, <1>2
  <2> QED
    BY <1>1, <1>2, <2>1 DEF Range
<1>4. \A i \in DOMAIN s : i \in DOMAIN r /\ r[i] = s[i]
  BY <1>1, <1>2
<1>5. Len(s) + 1 \in DOMAIN r
  BY <1>1, <1>2
<1>6. Range(r) = Range(s) \cup {x}
  BY <1>1, <1>3, <1>4, <1>5 DEF Range
<1> QED
  BY <1>1, <1>6 DEF r

\* What Wanted takes its value from
Chooses(g, c, batch, what, n) ==
    g = [i \in 0..n |->
            IF i = 0 THEN <<>>
            ELSE g[i - 1] \o (IF RequiredChange(c, batch[i]) = what THEN <<batch[i]>> ELSE <<>>)]

LEMMA ChoiceExists ==
    ASSUME NEW c, NEW batch, NEW what
    PROVE  \A n \in Nat : \E g : Chooses(g, c, batch, what, n)
<1> DEFINE More(i) == IF RequiredChange(c, batch[i]) = what THEN <<batch[i]>> ELSE <<>>
           Ch(g, n) == g = [i \in 0..n |-> IF i = 0 THEN <<>> ELSE g[i - 1] \o More(i)]
           P == {n \in Nat : \E g : Ch(g, n)}
<1> HIDE DEF More, Ch
<1>1. 0 \in P
  <2> DEFINE g == [i \in 0..0 |-> <<>>]
  <2>1. Ch(g, 0)
    BY DEF Ch
  <2> QED
    BY <2>1
<1>2. ASSUME NEW n \in P PROVE n + 1 \in P
  <2>9. PICK g : Ch(g, n)
    OBVIOUS
  <2>1. \A i \in 0..n : g[i] = IF i = 0 THEN <<>> ELSE g[i - 1] \o More(i)
    BY <2>9 DEF Ch
  <2>0. n \in Nat
    OBVIOUS
  <2> HIDE DEF P
  <2> DEFINE h == [i \in 0..(n + 1) |-> IF i = n + 1 THEN g[n] \o More(n + 1) ELSE g[i]]
  <2>2. ASSUME NEW i \in 0..(n + 1)
        PROVE  h[i] = IF i = 0 THEN <<>> ELSE h[i - 1] \o More(i)
    <3>1. CASE i = n + 1
      <4>1. i # 0 /\ i - 1 = n /\ n \in 0..(n + 1) /\ n # n + 1
        BY <2>0, <3>1
      <4>2. h[i] = g[n] \o More(n + 1)
        BY <3>1
      <4>3. h[i - 1] = g[n] /\ More(i) = More(n + 1)
        BY <3>1, <4>1
      <4> HIDE DEF h
      <4>4. h[i - 1] \o More(i) = g[n] \o More(n + 1)
        BY <4>3
      <4>5. i # 0
        BY <4>1
      <4> QED
        BY <4>2, <4>4, <4>5
    <3>2. CASE i # n + 1
      <4>1. i \in 0..n /\ h[i] = g[i] /\ (i # 0 => i - 1 \in 0..n /\ h[i - 1] = g[i - 1])
        BY <2>0, <3>2
      <4>2. g[i] = IF i = 0 THEN <<>> ELSE g[i - 1] \o More(i)
        BY <2>1, <4>1
      <4> QED
        BY <4>1, <4>2
    <3> QED
      BY <3>1, <3>2
  <2>3. h = [i \in 0..(n + 1) |-> h[i]]
    OBVIOUS
  <2> HIDE DEF h
  <2>4. Ch(h, n + 1)
    BY <2>2, <2>3 DEF Ch
  <2> QED
    BY <2>0, <2>4 DEF P
<1>3. P = Nat
  <2>1. P \in SUBSET Nat
    OBVIOUS
  <2>2. \A n \in P : n + 1 \in P
    BY <1>2
  <2> HIDE DEF P
  <2> QED
    BY <1>1, <2>1, <2>2, Induction
<1> QED
  BY <1>3 DEF Chooses, More, Ch

\* The files of a batch that need a change are in Wanted, and no others.
LEMMA WantedFiles ==
    ASSUME NEW c, NEW what, NEW batch \in Seq(Files)
    PROVE  /\ Wanted(c, batch, what) \in Seq(Files)
           /\ Range(Wanted(c, batch, what)) = {f \in Range(batch) : RequiredChange(c, f) = what}
<1> DEFINE n == Len(batch)
           Is(f) == RequiredChange(c, f) = what
           g == CHOOSE h : Chooses(h, c, batch, what, n)
<1>0. n \in Nat
  OBVIOUS
<1>1. Chooses(g, c, batch, what, n)
  <2>1. \E h : Chooses(h, c, batch, what, n)
    BY <1>0, ChoiceExists
  <2> QED
    BY <2>1
<1>9. Wanted(c, batch, what) = g[n]
  BY DEF Wanted, Chooses
<1> HIDE DEF g
<1>2. /\ g[0] = <<>>
      /\ \A i \in 1..n : g[i] = g[i - 1] \o (IF Is(batch[i]) THEN <<batch[i]>> ELSE <<>>)
  <2>2. \A i \in 0..n : g[i] = IF i = 0 THEN <<>> ELSE g[i - 1] \o (IF Is(batch[i]) THEN <<batch[i]>> ELSE <<>>)
    BY <1>1 DEF Chooses
  <2>3. 0 \in 0..n /\ \A i \in 1..n : i \in 0..n /\ i # 0
    BY <1>0
  <2> QED
    BY <2>2, <2>3
<1> DEFINE Among(k) == {f \in Files : Is(f) /\ \E i \in 1..k : batch[i] = f}
           P == {k \in Nat : k <= n => g[k] \in Seq(Files) /\ Range(g[k]) = Among(k)}
<1> HIDE DEF Is
<1>3. 0 \in P
  <2>1. Among(0) = {}
    OBVIOUS
  <2>2. Range(<<>>) = {} /\ <<>> \in Seq(Files)
    BY DEF Range
  <2> QED
    BY <1>2, <2>1, <2>2
<1>4. ASSUME NEW k \in P PROVE k + 1 \in P
  <2> SUFFICES ASSUME k + 1 <= n PROVE g[k + 1] \in Seq(Files) /\ Range(g[k + 1]) = Among(k + 1)
    OBVIOUS
  <2>1. g[k] \in Seq(Files) /\ Range(g[k]) = Among(k)
    OBVIOUS
  <2>2. k + 1 \in 1..n /\ (k + 1) - 1 = k /\ batch[k + 1] \in Files
    OBVIOUS
  <2>3. g[k + 1] = g[k] \o (IF Is(batch[k + 1]) THEN <<batch[k + 1]>> ELSE <<>>)
    BY <1>2, <2>2
  <2>4. \A i : i \in 1..(k + 1) <=> i \in 1..k \/ i = k + 1
    OBVIOUS
  <2>5. CASE Is(batch[k + 1])
    <3>1. Among(k + 1) = Among(k) \cup {batch[k + 1]}
      BY <2>2, <2>4, <2>5
    <3>2. g[k + 1] = g[k] \o <<batch[k + 1]>>
      BY <2>3, <2>5
    <3> HIDE DEF Among, P
    <3>3. g[k] \o <<batch[k + 1]>> \in Seq(Files)
          /\ Range(g[k] \o <<batch[k + 1]>>) = Range(g[k]) \cup {batch[k + 1]}
      BY <2>1, <2>2, AppendedRange
    <3> QED
      BY <2>1, <3>1, <3>2, <3>3
  <2>6. CASE ~Is(batch[k + 1])
    <3>1. Among(k + 1) = Among(k)
      BY <2>4, <2>6
    <3>2. g[k + 1] = g[k]
      BY <2>1, <2>3, <2>6
    <3> QED
      BY <2>1, <3>1, <3>2
  <2> QED
    BY <2>5, <2>6
<1>5. P = Nat
  <2>1. P \in SUBSET Nat
    OBVIOUS
  <2>2. \A k \in P : k + 1 \in P
    BY <1>4
  <2> HIDE DEF P
  <2> QED
    BY <1>3, <2>1, <2>2, Induction
<1>6. g[n] \in Seq(Files) /\ Range(g[n]) = Among(n)
  <2>1. n \in P
    BY <1>5
  <2> QED
    BY <2>1
<1>7. Among(n) = {f \in Range(batch) : Is(f)}
  BY DEF Range
<1> QED
  BY <1>9, <1>6, <1>7 DEF Is

\* SetToSeq lists a finite set.
LEMMA Listing ==
    ASSUME NEW S, IsFiniteSet(S)
    PROVE  LET s == SetToSeq(S) IN
           /\ s \in Seq(S) /\ Len(s) = Cardinality(S) /\ DOMAIN s = 1..Cardinality(S)
           /\ \A x \in S : \E i \in DOMAIN s : s[i] = x
<1> DEFINE s == SetToSeq(S)
           n == Cardinality(S)
<1>1. n \in Nat
  BY FS_CardinalityType
<1>2. PICK f : f \in Bijection(1..n, S)
  BY FS_CardinalityType DEF ExistsBijection
<1>3. f \in [1..n -> S] /\ IsInjective(f)
  BY <1>2 DEF Bijection, Injection, IsInjective
<1>4. s \in [1..n -> S] /\ IsInjective(s)
  BY <1>3 DEF SetToSeq
<1> HIDE DEF s
<1>5. s \in Injection(1..n, S)
  BY <1>4 DEF Injection, IsInjective
<1>6. IsFiniteSet(1..n) /\ Cardinality(1..n) = n
  BY <1>1, FS_Interval
<1>7. s \in Surjection(1..n, S)
  BY <1>5, <1>6, FS_Injection
<1>8. \A x \in S : \E i \in 1..n : s[i] = x
  BY <1>7 DEF Surjection
<1>9. s \in Seq(S) /\ Len(s) = n /\ DOMAIN s = 1..n
  BY <1>1, <1>4
<1> QED
  BY <1>8, <1>9 DEF s

-----------------------------------------------------------------------------
(* The inductive invariant                                                 *)

Fetched == UNION {[F -> Data] : F \in SUBSET Files}

Job == [at : {"idle", "begin", "fetch", "get", "record", "send", "mark"},
        seen : Nat, last : Nat, get : Seq(Files), del : SUBSET Files, clear : SUBSET Files,
        got : Fetched, sent : SUBSET Files, changed : Nat, reply : Nat,
        acted : BOOLEAN, outside : BOOLEAN, crossed : BOOLEAN, left : BOOLEAN]

Typed ==
    /\ disk \in [Clients -> [Files -> Data]]
    /\ row \in [Clients -> [Files -> Row \cup {NoRow}]]
    /\ usn \in [Clients -> Nat] /\ fresh \in [Clients -> BOOLEAN]
    /\ job \in [Clients -> Job]
    /\ entry \in [Files -> [data : Data, usn : Nat]] /\ lastUsn \in Nat

\* The server gives each of its changes a number of its own, and nobody has seen
\* one that it has not given.
Numbered ==
    /\ \A f \in Files : entry[f].usn <= lastUsn /\ (entry[f].usn = 0 => entry[f].data = NoFile)
    /\ \A f, g \in Files : entry[f].usn = entry[g].usn /\ entry[f].usn # 0 => f = g
    /\ \A c \in Clients : usn[c] <= lastUsn /\ job[c].last <= lastUsn /\ job[c].reply <= lastUsn

InBatch(c) == job[c].at \in {"get", "record"}

\* What a sync remembers at each of its steps
Shape(c) ==
    /\ ~InBatch(c) => DOMAIN job[c].got = {}
    /\ job[c].at = "fetch" => job[c].last = usn[c]
    /\ InBatch(c) => job[c].last >= usn[c]
    /\ job[c].at = "record" => job[c].get = <<>>
    /\ job[c].at = "mark" => usn[c] <= job[c].reply

\* NothingSkipped, of one device
KnownAsSeen(c) ==
    \A f \in Files : entry[f].usn <= usn[c] /\ ~Dirty(c, f) => Known(c, f) = entry[f].data

\* The folder has been read and not been changed behind the program's back since.
Scanned(c) == fresh[c] \/ (job[c].at # "idle" /\ ~job[c].outside)

\* A batch has brought the file from the server, or has been stopped before it
\* could remove it.
Half(c, f) == f \in DOMAIN job[c].got \/ (Known(c, f) = NoFile /\ row[c][f] # NoRow)

\* FolderRegistered, at any moment and of all files
KnownAsFound(c) ==
    Scanned(c) => \A f \in Files : disk[c][f] = Known(c, f) \/ (entry[f].usn > usn[c] /\ Half(c, f))

\* The files of the batch under way, by what is to be done with them. One that
\* the server has changed again since is not listed.
Listed(c, f) == entry[f].usn <= job[c].last
Named(c, f) == f \in Range(job[c].get) \/ f \in DOMAIN job[c].got \/ f \in job[c].del

BatchFile(c, f) ==
    /\ f \in Range(job[c].get) => entry[f].usn > usn[c] /\ f \notin job[c].del
    /\ f \in DOMAIN job[c].got =>
          /\ entry[f].usn > usn[c]
          /\ Listed(c, f) => job[c].got[f] = entry[f].data
          /\ ~job[c].crossed /\ ~job[c].outside => disk[c][f] = job[c].got[f]
    /\ f \in job[c].del =>
          /\ Listed(c, f) => entry[f].data = NoFile
          /\ ~job[c].left /\ ~job[c].crossed /\ ~job[c].outside => disk[c][f] = NoFile
    /\ f \in job[c].clear /\ ~job[c].crossed /\ Listed(c, f) => Known(c, f) = entry[f].data
    /\ Listed(c, f) /\ ~Named(c, f) /\ ~job[c].outside => disk[c][f] = Known(c, f)
    /\ Listed(c, f) /\ ~Named(c, f) /\ f \notin job[c].clear /\ ~Dirty(c, f) =>
          Known(c, f) = entry[f].data

\* The files that have been sent, before the answer is there
SentFile(c, f) ==
    /\ f \in job[c].sent /\ ~job[c].crossed /\ entry[f].usn <= job[c].reply =>
          Known(c, f) = entry[f].data
    /\ f \notin job[c].sent /\ entry[f].usn <= job[c].reply =>
          entry[f].usn <= job[c].reply - job[c].changed
    /\ /\ f \in job[c].sent /\ entry[f].usn <= job[c].reply
       /\ Scanned(c) /\ usn[c] = job[c].reply - job[c].changed
       => disk[c][f] = Known(c, f)

Sound(c) ==
    /\ KnownAsSeen(c)
    /\ KnownAsFound(c)
    /\ InBatch(c) => \A f \in Files : BatchFile(c, f)
    /\ job[c].at = "mark" => \A f \in Files : SentFile(c, f)

Inv ==
    /\ Typed /\ Numbered
    /\ \A c \in Clients : Shape(c) /\ (c \notin slipped => Sound(c))

-----------------------------------------------------------------------------
(* The batch of changes that the server reports                            *)

LEMMA ChunkFiles ==
    ASSUME Typed, Numbered, NEW after \in Nat
    PROVE  LET b == MediaChangesChunk(after) IN
           /\ b \in Seq(Files)
           /\ b # <<>> =>
                /\ Last(b) \in Files /\ entry[Last(b)].usn > after
                /\ \A f \in Range(b) : entry[f].usn > after
                /\ \A f \in Files : entry[f].usn > after /\ entry[f].usn <= entry[Last(b)].usn
                                    => f \in Range(b)
<1> DEFINE U(f) == entry[f].usn
           newer == {f \in Files : entry[f].usn > after}
           N == Cardinality(newer)
           Upto(f) == {g \in newer : entry[g].usn <= entry[f].usn}
           p == [f \in newer |-> Cardinality(Upto(f))]
           m == IF N <= BatchSize THEN N ELSE BatchSize
           b == MediaChangesChunk(after)
<1>1. newer \subseteq Files /\ IsFiniteSet(newer) /\ N \in Nat
  <2>1. newer \subseteq Files
    OBVIOUS
  <2>2. IsFiniteSet(newer)
    BY <2>1, MediaAssumption, FS_Subset
  <2> QED
    BY <2>1, <2>2, FS_CardinalityType
<1>2. \A f \in newer : U(f) \in Nat /\ U(f) # 0
  BY DEF Typed
<1>3. \A f \in newer : \A g \in newer : U(f) = U(g) => f = g
  BY <1>2 DEF Numbered
<1>4. ASSUME NEW f \in newer
      PROVE  IsFiniteSet(Upto(f)) /\ p[f] = Cardinality(Upto(f)) /\ p[f] \in 1..N
  <2>1. Upto(f) \subseteq newer /\ f \in Upto(f)
    BY <1>2
  <2>2. IsFiniteSet(Upto(f)) /\ Cardinality(Upto(f)) <= N /\ Cardinality(Upto(f)) \in Nat
    BY <1>1, <2>1, FS_Subset, FS_CardinalityType
  <2>3. Cardinality(Upto(f)) # 0
    BY <2>1, <2>2, FS_EmptySet
  <2> HIDE DEF Upto, N
  <2>4. p[f] = Cardinality(Upto(f))
    OBVIOUS
  <2> QED
    BY <1>1, <2>2, <2>3, <2>4
<1>5. ASSUME NEW f \in newer, NEW g \in newer, U(f) < U(g) PROVE p[f] < p[g]
  <2>1. Upto(f) \subseteq Upto(g) /\ g \in Upto(g) /\ g \notin Upto(f)
    BY <1>2, <1>5
  <2>2. IsFiniteSet(Upto(g)) /\ Upto(f) # Upto(g)
    BY <1>4, <2>1
  <2>3. Cardinality(Upto(f)) < Cardinality(Upto(g))
    BY <2>1, <2>2, FS_Subset, FS_CardinalityType
  <2> QED
    BY <1>4, <2>3
<1> HIDE DEF Upto, p
<1>6. p \in Injection(newer, 1..N)
  <2>1. p \in [newer -> 1..N]
    BY <1>4 DEF p
  <2>2. ASSUME NEW f \in newer, NEW g \in newer, p[f] = p[g] PROVE f = g
    <3>1. p[f] \in Nat /\ p[g] \in Nat
      BY <1>1, <1>4
    <3>2. ~(U(f) < U(g)) /\ ~(U(g) < U(f))
      BY <1>5, <2>2, <3>1
    <3> QED
      BY <1>2, <1>3, <3>2
  <2> QED
    BY <2>1, <2>2 DEF Injection, IsInjective
<1>7. \A i \in 1..N : \E f \in newer : p[f] = i
  <2>1. IsFiniteSet(1..N) /\ Cardinality(1..N) = N
    BY <1>1, FS_Interval
  <2>2. p \in Surjection(newer, 1..N)
    BY <1>1, <1>6, <2>1, FS_Injection
  <2> QED
    BY <2>2 DEF Surjection
<1>8. m \in Nat /\ m <= N /\ {n \in 1..N : n <= BatchSize} = 1..m
  <2> HIDE DEF N
  <2>1. N \in Nat /\ BatchSize \in Nat
    BY <1>1, MediaAssumption
  <2>2. m \in Nat /\ m <= N /\ \A n \in Nat : n <= m <=> n <= N /\ n <= BatchSize
    BY <2>1
  <2> HIDE DEF m
  <2>3. \A n : n \in 1..N /\ n <= BatchSize <=> n \in 1..m
    BY <2>1, <2>2
  <2>4. \A n : n \in {k \in 1..N : k <= BatchSize} <=> n \in 1..N /\ n <= BatchSize
    OBVIOUS
  <2>5. {n \in 1..N : n <= BatchSize} = 1..m
    BY <2>3, <2>4
  <2> QED
    BY <2>2, <2>5
<1>9. b = [i \in {n \in 1..N : n <= BatchSize} |->
               CHOOSE f \in newer : Cardinality(Upto(f)) = i]
  BY DEF MediaChangesChunk, Upto
<1> HIDE DEF m, newer, N, b
<1>10. ASSUME NEW i \in 1..m PROVE b[i] \in newer /\ p[b[i]] = i
  <2>1. i \in 1..N
    BY <1>1, <1>8
  <2>2. \E f \in newer : Cardinality(Upto(f)) = i
    BY <1>4, <1>7, <2>1
  <2>3. b[i] = CHOOSE f \in newer : Cardinality(Upto(f)) = i
    BY <1>8, <1>9
  <2>4. b[i] \in newer /\ Cardinality(Upto(b[i])) = i
    BY <2>2, <2>3
  <2> QED
    BY <1>4, <2>4
<1>11. b \in Seq(Files) /\ Len(b) = m /\ DOMAIN b = 1..m
  <2>1. DOMAIN b = 1..m /\ b = [i \in 1..m |-> b[i]]
    BY <1>8, <1>9
  <2>2. \A i \in 1..m : b[i] \in Files
    BY <1>1, <1>10
  <2>3. b \in [1..m -> Files]
    BY <2>1, <2>2
  <2> QED
    BY <1>8, <2>1, <2>3
<1>12. ASSUME b # <<>>
       PROVE  /\ Last(b) \in Files /\ entry[Last(b)].usn > after
              /\ \A f \in Range(b) : entry[f].usn > after
              /\ \A f \in Files : entry[f].usn > after /\ entry[f].usn <= entry[Last(b)].usn
                                  => f \in Range(b)
  <2>1. m \in 1..m
    BY <1>8, <1>11, <1>12
  <2>2. Last(b) = b[m]
    BY <1>11 DEF Last
  <2>3. Last(b) \in newer /\ p[Last(b)] = m
    BY <1>10, <2>1, <2>2
  <2>4. \A f \in Range(b) : f \in newer
    BY <1>10, <1>11 DEF Range
  <2>5. ASSUME NEW f \in Files, entry[f].usn > after, entry[f].usn <= entry[Last(b)].usn
        PROVE  f \in Range(b)
    <3>1. f \in newer
      BY <2>5 DEF newer
    <3>2. p[f] \in 1..N
      BY <1>4, <3>1
    <3>3. ~(U(Last(b)) < U(f))
      BY <1>2, <2>3, <2>5, <3>1
    <3>4. p[f] <= m
      <4>1. CASE U(f) = U(Last(b))
        BY <1>3, <1>8, <2>3, <3>1, <4>1
      <4>2. CASE U(f) < U(Last(b))
        BY <1>1, <1>5, <1>8, <2>3, <3>1, <3>2, <4>2
      <4> QED
        BY <1>2, <2>3, <3>1, <3>3, <4>1, <4>2
    <3>5. p[f] \in 1..m
      BY <1>1, <1>8, <3>2, <3>4
    <3>6. b[p[f]] \in newer /\ p[b[p[f]]] = p[f]
      BY <1>10, <3>5
    <3>7. b[p[f]] = f
      BY <1>6, <3>1, <3>6 DEF Injection, IsInjective
    <3> QED
      BY <1>11, <3>5, <3>7 DEF Range
  <2>6. \A f \in newer : f \in Files /\ entry[f].usn > after
    BY DEF newer
  <2> QED
    BY <2>3, <2>4, <2>5, <2>6
<1> QED
  BY <1>11, <1>12 DEF b

-----------------------------------------------------------------------------
(* Types                                                                   *)

LEMMA FetchedFiles ==
    ASSUME NEW g \in Fetched
    PROVE  DOMAIN g \subseteq Files /\ \A f \in DOMAIN g : g[f] \in Data
<1>1. PICK F \in SUBSET Files : g \in [F -> Data]
  BY DEF Fetched
<1> QED
  BY <1>1

LEMMA NothingFetched == NoChanges \in Fetched /\ DOMAIN NoChanges = {}
<1>1. NoChanges \in [{} -> Data] /\ {} \in SUBSET Files
  BY DEF NoChanges
<1> QED
  BY <1>1 DEF Fetched

LEMMA FetchedMore ==
    ASSUME NEW g \in Fetched, NEW F \in SUBSET Files, NEW h \in [Files -> Data]
    PROVE  [f \in F \cup DOMAIN g |-> IF f \in F THEN h[f] ELSE g[f]] \in Fetched
<1> DEFINE D == F \cup DOMAIN g
           r == [f \in D |-> IF f \in F THEN h[f] ELSE g[f]]
<1>1. D \in SUBSET Files /\ \A f \in DOMAIN g : g[f] \in Data
  BY FetchedFiles
<1>2. r \in [D -> Data]
  BY <1>1
<1> QED
  BY <1>1, <1>2 DEF Fetched

LEMMA IdleIsJob == Idle \in Job
BY NothingFetched DEF Idle, Job

LEMMA RangeOf ==
    ASSUME NEW S, NEW s \in Seq(S)
    PROVE  Range(s) \subseteq S
<1>1. \A i \in DOMAIN s : s[i] \in S
  OBVIOUS
<1> QED
  BY <1>1 DEF Range

LEMMA RowType ==
    ASSUME NEW d \in Data, NEW b \in BOOLEAN
    PROVE  /\ [data |-> d, dirty |-> b] \in Row /\ [data |-> d, dirty |-> b] # NoRow
BY NullAssumption DEF Row

LEMMA RowSet ==
    ASSUME NEW c, NEW f, NEW d \in Data, NEW b \in BOOLEAN,
           row'[c][f] = [data |-> d, dirty |-> b]
    PROVE  Known(c, f)' = d /\ (Dirty(c, f)' <=> b) /\ row'[c][f] # NoRow
<1>1. row'[c][f] # NoRow /\ row'[c][f].data = d /\ row'[c][f].dirty = b
  BY RowType
<1> QED
  BY <1>1 DEF Known, Dirty

LEMMA RowKept ==
    ASSUME NEW c, NEW f, row'[c][f] = row[c][f]
    PROVE  Known(c, f)' = Known(c, f) /\ (Dirty(c, f)' <=> Dirty(c, f))
BY DEF Known, Dirty

LEMMA StateTypes ==
    ASSUME Typed, NEW c \in Clients, NEW f \in Files
    PROVE  /\ disk[c][f] \in Data /\ row[c][f] \in Row \cup {NoRow}
           /\ Known(c, f) \in Data /\ Dirty(c, f) \in BOOLEAN
           /\ job[c] \in Job /\ usn[c] \in Nat /\ fresh[c] \in BOOLEAN
           /\ entry[f].data \in Data /\ entry[f].usn \in Nat
BY DEF Typed, Known, Dirty, Row, Data

-----------------------------------------------------------------------------
(* What a step of one device leaves alone                                  *)

Others(c) ==
    \A d \in Clients : d # c =>
        /\ disk'[d] = disk[d] /\ row'[d] = row[d] /\ usn'[d] = usn[d]
        /\ fresh'[d] = fresh[d] /\ job'[d] = job[d]
        /\ d \notin slipped' => d \notin slipped

ServerMoves ==
    /\ lastUsn' >= lastUsn
    /\ \A f \in Files : entry'[f] = entry[f] \/ entry'[f].usn > lastUsn

LEMMA OthersSound ==
    ASSUME Inv, Typed', NEW c \in Clients, Others(c), ServerMoves, NEW d \in Clients, d # c
    PROVE  Shape(d)' /\ (d \notin slipped' => Sound(d)')
<1> DEFINE Old(f) == entry'[f] = entry[f] \/ entry'[f].usn > lastUsn
<1>1. /\ disk'[d] = disk[d] /\ row'[d] = row[d] /\ usn'[d] = usn[d]
      /\ fresh'[d] = fresh[d] /\ job'[d] = job[d]
      /\ d \notin slipped' => d \notin slipped
  BY DEF Others
<1>2. /\ \A f \in Files : Known(d, f)' = Known(d, f) /\ (Dirty(d, f)' <=> Dirty(d, f))
      /\ Scanned(d)' <=> Scanned(d)
      /\ InBatch(d)' <=> InBatch(d)
      /\ \A f \in Files : Half(d, f)' <=> Half(d, f)
      /\ \A f \in Files : Named(d, f)' <=> Named(d, f)
  BY <1>1 DEF Known, Dirty, Scanned, InBatch, Half, Named
<1>3. \A f \in Files : Old(f)
  BY DEF ServerMoves
<1>4. /\ job[d].last \in Nat /\ job[d].reply \in Nat /\ job[d].changed \in Nat /\ usn[d] \in Nat
      /\ lastUsn \in Nat
      /\ job[d].last <= lastUsn /\ job[d].reply <= lastUsn /\ usn[d] <= lastUsn
      /\ \A f \in Files : entry[f].usn \in Nat /\ entry'[f].usn \in Nat
  BY StateTypes DEF Inv, Numbered, Typed, Job
<1>5. Shape(d)'
  BY <1>1, <1>2 DEF Inv, Shape
<1>6. ASSUME d \notin slipped' PROVE Sound(d)'
  <2>1. Sound(d)
    BY <1>1, <1>6 DEF Inv
  <2>2. KnownAsSeen(d)'
    <3>1. ASSUME NEW f \in Files, entry'[f].usn <= usn[d], ~Dirty(d, f) PROVE Known(d, f) = entry'[f].data
      <4>1. entry'[f] = entry[f]
        BY <1>3, <1>4, <3>1
      <4> QED
        BY <2>1, <3>1, <4>1 DEF Sound, KnownAsSeen
    <3> QED
      BY <1>1, <1>2, <3>1 DEF KnownAsSeen
  <2>3. KnownAsFound(d)'
    <3>1. ASSUME NEW f \in Files, Scanned(d), disk[d][f] # Known(d, f)
          PROVE  entry'[f].usn > usn[d] /\ Half(d, f)
      <4>1. entry[f].usn > usn[d] /\ Half(d, f)
        BY <2>1, <3>1 DEF Sound, KnownAsFound
      <4> QED
        BY <1>3, <1>4, <4>1
    <3> QED
      BY <1>1, <1>2, <3>1 DEF KnownAsFound
  <2>4. ASSUME InBatch(d), NEW f \in Files PROVE BatchFile(d, f)'
    <3>1. BatchFile(d, f)
      BY <2>1, <2>4 DEF Sound
    <3>2. CASE entry'[f] = entry[f]
      BY <1>1, <1>2, <3>1, <3>2 DEF BatchFile, Listed
    <3>3. CASE entry'[f].usn > lastUsn
      BY <1>1, <1>2, <1>4, <3>1, <3>3 DEF BatchFile, Listed
    <3> QED
      BY <1>3, <3>2, <3>3
  <2>5. ASSUME job[d].at = "mark", NEW f \in Files PROVE SentFile(d, f)'
    <3>1. SentFile(d, f)
      BY <2>1, <2>5 DEF Sound
    <3>2. CASE entry'[f] = entry[f]
      BY <1>1, <1>2, <3>1, <3>2 DEF SentFile
    <3>3. CASE entry'[f].usn > lastUsn
      BY <1>1, <1>2, <1>4, <3>1, <3>3 DEF SentFile
    <3> QED
      BY <1>3, <3>2, <3>3
  <2> QED
    BY <1>1, <1>2, <2>2, <2>3, <2>4, <2>5 DEF Sound
<1> QED
  BY <1>5, <1>6

LEMMA Compose ==
    ASSUME Inv, Typed', Numbered', NEW c \in Clients, Others(c), ServerMoves,
           Shape(c)', c \notin slipped' => Sound(c)'
    PROVE  Inv'
<1>1. \A d \in Clients : Shape(d)' /\ (d \notin slipped' => Sound(d)')
  BY OthersSound
<1> QED
  BY <1>1 DEF Inv

LEMMA NumberedKept ==
    ASSUME Inv, UNCHANGED serverVars, NEW c \in Clients, Others(c),
           usn'[c] <= lastUsn, job'[c].last <= lastUsn, job'[c].reply <= lastUsn
    PROVE  Numbered' /\ (lastUsn \in Nat => ServerMoves)
<1>1. \A d \in Clients : usn'[d] <= lastUsn /\ job'[d].last <= lastUsn /\ job'[d].reply <= lastUsn
  BY DEF Inv, Numbered, Others
<1> QED
  BY <1>1 DEF serverVars, Inv, Numbered, ServerMoves

-----------------------------------------------------------------------------
(* The user's steps                                                        *)

\* A file changed by the program itself is afterwards known as it is.
LEMMA FileChanged ==
    ASSUME Inv, NEW c \in Clients, NEW g \in Files,
           job'[c] = [job[c] EXCEPT !.crossed = @ \/ g \in Involved(c)],
           usn'[c] = usn[c], fresh'[c] = fresh[c], entry' = entry,
           \A f \in Files : f # g => disk'[c][f] = disk[c][f] /\ row'[c][f] = row[c][f],
           disk'[c][g] = Known(c, g)',
           Dirty(c, g)' \/ (Known(c, g)' = Known(c, g) /\ (Dirty(c, g)' <=> Dirty(c, g)))
    PROVE  Shape(c)' /\ (Sound(c) => Sound(c)')
<1>1. job[c] \in Job
  BY StateTypes DEF Inv, Typed
<1>2. /\ job'[c].at = job[c].at /\ job'[c].last = job[c].last /\ job'[c].get = job[c].get
      /\ job'[c].del = job[c].del /\ job'[c].clear = job[c].clear /\ job'[c].got = job[c].got
      /\ job'[c].sent = job[c].sent /\ job'[c].changed = job[c].changed
      /\ job'[c].reply = job[c].reply /\ job'[c].outside = job[c].outside /\ job'[c].left = job[c].left
      /\ job'[c].crossed <=> (job[c].crossed \/ g \in Involved(c))
  BY <1>1 DEF Job
<1>3. /\ Scanned(c)' <=> Scanned(c)
      /\ InBatch(c)' <=> InBatch(c)
      /\ \A f \in Files : (Listed(c, f)' <=> Listed(c, f)) /\ (Named(c, f)' <=> Named(c, f))
      /\ \A f \in Files : f # g => /\ Known(c, f)' = Known(c, f) /\ (Dirty(c, f)' <=> Dirty(c, f))
                                   /\ Half(c, f)' <=> Half(c, f)
  BY <1>2 DEF Scanned, InBatch, Listed, Named, Known, Dirty, Half
<1>4. InBatch(c) /\ (g \in DOMAIN job[c].got \/ g \in job[c].del \/ g \in job[c].clear) => job'[c].crossed
  BY <1>2 DEF InBatch, Involved
<1>5. job[c].at = "mark" /\ g \in job[c].sent => job'[c].crossed
  BY <1>2 DEF Involved
<1>6. Shape(c)'
  BY <1>2, <1>3 DEF Inv, Shape
<1>7. ASSUME Sound(c) PROVE Sound(c)'
  <2>1. KnownAsSeen(c)'
    BY <1>3, <1>7 DEF Sound, KnownAsSeen
  <2>2. KnownAsFound(c)'
    BY <1>3, <1>7 DEF Sound, KnownAsFound
  <2>3. ASSUME InBatch(c), NEW f \in Files PROVE BatchFile(c, f)'
    <3>1. BatchFile(c, f)
      BY <1>7, <2>3 DEF Sound
    <3>2. CASE f # g
      BY <1>2, <1>3, <3>1, <3>2 DEF BatchFile
    <3>3. CASE f = g
      BY <1>2, <1>3, <1>4, <2>3, <3>1, <3>3 DEF BatchFile
    <3> QED
      BY <3>2, <3>3
  <2>4. ASSUME job[c].at = "mark", NEW f \in Files PROVE SentFile(c, f)'
    <3>1. SentFile(c, f)
      BY <1>7, <2>4 DEF Sound
    <3>2. CASE f # g
      BY <1>2, <1>3, <3>1, <3>2 DEF SentFile
    <3>3. CASE f = g
      BY <1>2, <1>3, <1>5, <2>4, <3>1, <3>3 DEF SentFile
    <3> QED
      BY <3>2, <3>3
  <2> QED
    BY <1>2, <1>3, <2>1, <2>2, <2>3, <2>4 DEF Sound
<1> QED
  BY <1>6, <1>7

LEMMA AddFileStep ==
    ASSUME Inv, NEW c \in Clients, NEW g \in Files, NEW d \in Contents, AddFile(c, g, d)
    PROVE  Inv'
<1>1. job[c] \in Job /\ usn[c] \in Nat /\ lastUsn \in Nat /\ Typed /\ d \in Data
  BY StateTypes DEF Inv, Typed, Data
<1>2. job'[c] = [job[c] EXCEPT !.crossed = @ \/ g \in Involved(c)] /\ job'[c] \in Job
  BY <1>1 DEF AddFile, Typed, Job
<1>3. /\ disk'[c][g] = d
      /\ \A f \in Files : f # g => disk'[c][f] = disk[c][f] /\ row'[c][f] = row[c][f]
      /\ \/ row'[c][g] = row[c][g] /\ Known(c, g) = d
         \/ row'[c][g] = [data |-> d, dirty |-> TRUE]
  BY <1>1 DEF AddFile, Typed
<1>4. /\ disk'[c][g] = Known(c, g)'
      /\ Dirty(c, g)' \/ (Known(c, g)' = Known(c, g) /\ (Dirty(c, g)' <=> Dirty(c, g)))
  <2>1. CASE row'[c][g] = row[c][g] /\ Known(c, g) = d
    <3>1. Known(c, g) = d
      BY <2>1 DEF Known
    <3> QED
      BY <1>3, <2>1, <3>1, RowKept
  <2>2. CASE row'[c][g] = [data |-> d, dirty |-> TRUE]
    BY <1>1, <1>3, <2>2, RowSet
  <2> QED
    BY <1>3, <2>1, <2>2
<1>5. Others(c) /\ usn' = usn /\ fresh' = fresh /\ UNCHANGED serverVars /\ entry' = entry /\ slipped' = slipped
  BY <1>1 DEF AddFile, Others, Typed, serverVars
<1>6. Typed'
  <2>1. [data |-> d, dirty |-> TRUE] \in Row
    BY <1>1, RowType
  <2>2. disk' \in [Clients -> [Files -> Data]] /\ row' \in [Clients -> [Files -> Row \cup {NoRow}]]
    BY <1>1, <2>1 DEF AddFile, Typed
  <2>3. job' \in [Clients -> Job]
    BY <1>1, <1>2 DEF AddFile, Typed
  <2> QED
    BY <1>1, <1>5, <2>2, <2>3 DEF Typed, serverVars
<1>7. Shape(c)' /\ (Sound(c) => Sound(c)')
  BY <1>2, <1>3, <1>4, <1>5, FileChanged
<1>8. job'[c].last <= lastUsn /\ job'[c].reply <= lastUsn /\ usn'[c] <= lastUsn
  BY <1>1, <1>2, <1>5 DEF Inv, Numbered, Job
<1>9. Numbered' /\ ServerMoves
  BY <1>1, <1>5, <1>8, NumberedKept
<1> QED
  BY <1>5, <1>6, <1>7, <1>9, Compose DEF Inv

LEMMA TrashFileStep ==
    ASSUME Inv, NEW c \in Clients, NEW g \in Files, TrashFile(c, g)
    PROVE  Inv'
<1>1. job[c] \in Job /\ usn[c] \in Nat /\ lastUsn \in Nat /\ Typed /\ NoFile \in Data
  BY StateTypes DEF Inv, Typed, Data
<1>2. job'[c] = [job[c] EXCEPT !.crossed = @ \/ g \in Involved(c)] /\ job'[c] \in Job
  BY <1>1 DEF TrashFile, Typed, Job
<1>3. /\ disk'[c][g] = NoFile
      /\ \A f \in Files : f # g => disk'[c][f] = disk[c][f] /\ row'[c][f] = row[c][f]
      /\ \/ row'[c][g] = row[c][g] /\ row[c][g] = NoRow
         \/ row'[c][g] = [data |-> NoFile, dirty |-> TRUE]
  BY <1>1 DEF TrashFile, Typed
<1>4. /\ disk'[c][g] = Known(c, g)'
      /\ Dirty(c, g)' \/ (Known(c, g)' = Known(c, g) /\ (Dirty(c, g)' <=> Dirty(c, g)))
  <2>1. CASE row'[c][g] = row[c][g] /\ row[c][g] = NoRow
    <3>1. Known(c, g) = NoFile
      BY <2>1 DEF Known
    <3> QED
      BY <1>3, <2>1, <3>1, RowKept
  <2>2. CASE row'[c][g] = [data |-> NoFile, dirty |-> TRUE]
    BY <1>1, <1>3, <2>2, RowSet
  <2> QED
    BY <1>3, <2>1, <2>2
<1>5. Others(c) /\ usn' = usn /\ fresh' = fresh /\ UNCHANGED serverVars /\ entry' = entry /\ slipped' = slipped
  BY <1>1 DEF TrashFile, Others, Typed, serverVars
<1>6. Typed'
  <2>1. [data |-> NoFile, dirty |-> TRUE] \in Row
    BY <1>1, RowType
  <2>2. disk' \in [Clients -> [Files -> Data]] /\ row' \in [Clients -> [Files -> Row \cup {NoRow}]]
    BY <1>1, <2>1 DEF TrashFile, Typed
  <2>3. job' \in [Clients -> Job]
    BY <1>1, <1>2 DEF TrashFile, Typed
  <2> QED
    BY <1>1, <1>5, <2>2, <2>3 DEF Typed, serverVars
<1>7. Shape(c)' /\ (Sound(c) => Sound(c)')
  BY <1>2, <1>3, <1>4, <1>5, FileChanged
<1>8. job'[c].last <= lastUsn /\ job'[c].reply <= lastUsn /\ usn'[c] <= lastUsn
  BY <1>1, <1>2, <1>5 DEF Inv, Numbered, Job
<1>9. Numbered' /\ ServerMoves
  BY <1>1, <1>5, <1>8, NumberedKept
<1> QED
  BY <1>5, <1>6, <1>7, <1>9, Compose DEF Inv

\* After a change behind the program's back nothing is claimed of the folder.
LEMMA ChangeOutsideStep ==
    ASSUME Inv, NEW c \in Clients, NEW g \in Files, NEW d \in Data, ChangeOutside(c, g, d)
    PROVE  Inv'
<1>1. job[c] \in Job /\ usn[c] \in Nat /\ lastUsn \in Nat /\ Typed
  BY StateTypes DEF Inv, Typed
<1>2. job'[c] = [job[c] EXCEPT !.outside = job[c].at # "idle"] /\ job'[c] \in Job
  BY <1>1 DEF ChangeOutside, Typed, Job
<1>3. /\ job'[c].at = job[c].at /\ job'[c].last = job[c].last /\ job'[c].get = job[c].get
      /\ job'[c].del = job[c].del /\ job'[c].clear = job[c].clear /\ job'[c].got = job[c].got
      /\ job'[c].sent = job[c].sent /\ job'[c].changed = job[c].changed
      /\ job'[c].reply = job[c].reply /\ job'[c].crossed = job[c].crossed
      /\ job'[c].outside <=> job[c].at # "idle"
  BY <1>1, <1>2 DEF Job
<1>5. /\ Others(c) /\ usn' = usn /\ row' = row /\ UNCHANGED serverVars /\ entry' = entry
      /\ slipped' = slipped /\ fresh'[c] = FALSE
  BY <1>1 DEF ChangeOutside, Others, Typed, serverVars
<1>6. Typed'
  <2>1. disk' \in [Clients -> [Files -> Data]] /\ fresh' \in [Clients -> BOOLEAN]
    BY <1>1 DEF ChangeOutside, Typed
  <2>2. job' \in [Clients -> Job]
    BY <1>1, <1>2 DEF ChangeOutside, Typed
  <2> QED
    BY <1>1, <1>5, <2>1, <2>2 DEF Typed, serverVars
<1>7. /\ ~Scanned(c)' /\ (InBatch(c)' <=> InBatch(c))
      /\ InBatch(c) => job'[c].outside
      /\ \A f \in Files : /\ Known(c, f)' = Known(c, f) /\ (Dirty(c, f)' <=> Dirty(c, f))
                          /\ (Listed(c, f)' <=> Listed(c, f)) /\ (Named(c, f)' <=> Named(c, f))
  BY <1>3, <1>5 DEF Scanned, InBatch, Known, Dirty, Listed, Named
<1>8. Shape(c)'
  BY <1>3, <1>5, <1>7 DEF Inv, Shape
<1>9. ASSUME Sound(c) PROVE Sound(c)'
  <2>1. KnownAsSeen(c)'
    BY <1>5, <1>7, <1>9 DEF Sound, KnownAsSeen
  <2>2. KnownAsFound(c)'
    BY <1>7 DEF KnownAsFound
  <2>3. ASSUME InBatch(c), NEW f \in Files PROVE BatchFile(c, f)'
    <3>1. BatchFile(c, f)
      BY <1>9, <2>3 DEF Sound
    <3> QED
      BY <1>3, <1>5, <1>7, <2>3, <3>1 DEF BatchFile
  <2>4. ASSUME job[c].at = "mark", NEW f \in Files PROVE SentFile(c, f)'
    <3>1. SentFile(c, f)
      BY <1>9, <2>4 DEF Sound
    <3> QED
      BY <1>3, <1>5, <1>7, <3>1 DEF SentFile
  <2> QED
    BY <1>3, <1>7, <2>1, <2>2, <2>3, <2>4 DEF Sound
<1>10. job'[c].last <= lastUsn /\ job'[c].reply <= lastUsn /\ usn'[c] <= lastUsn
  BY <1>3, <1>5 DEF Inv, Numbered
<1>11. Numbered' /\ ServerMoves
  BY <1>1, <1>5, <1>10, NumberedKept
<1> QED
  BY <1>5, <1>6, <1>8, <1>9, <1>11, Compose DEF Inv

-----------------------------------------------------------------------------
(* The steps of a sync                                                     *)

LEMMA StartStep ==
    ASSUME Inv, NEW c \in Clients, Start(c)
    PROVE  Inv'
<1>1. job[c] \in Job /\ usn[c] \in Nat /\ lastUsn \in Nat /\ Typed
  BY StateTypes DEF Inv, Typed
<1>2. job'[c] = [job[c] EXCEPT !.at = "begin", !.seen = lastUsn] /\ job'[c] \in Job
  BY <1>1 DEF Start, Typed, Job
<1>3. /\ job[c].at = "idle" /\ job'[c].at = "begin" /\ job'[c].last = job[c].last
      /\ job'[c].got = job[c].got /\ job'[c].reply = job[c].reply
  <2>1. job[c].at = "idle"
    BY DEF Start
  <2> QED
    BY <1>1, <1>2, <2>1 DEF Job
<1>4. /\ Others(c) /\ usn' = usn /\ disk' = disk /\ UNCHANGED serverVars /\ entry' = entry
      /\ slipped' = slipped /\ fresh'[c] = TRUE
      /\ row'[c] = IF fresh[c] THEN row[c] ELSE Registered(c)
  BY <1>1 DEF Start, Others, Typed, serverVars
<1>5. Typed'
  <2>1. Registered(c) \in [Files -> Row \cup {NoRow}]
    <3>1. ASSUME NEW f \in Files
          PROVE  row[c][f] \in Row \cup {NoRow} /\ [data |-> disk[c][f], dirty |-> TRUE] \in Row
      BY <1>1, StateTypes, RowType
    <3> QED
      BY <3>1 DEF Registered
  <2>2. row' \in [Clients -> [Files -> Row \cup {NoRow}]] /\ fresh' \in [Clients -> BOOLEAN]
    BY <1>1, <2>1 DEF Start, Typed
  <2>3. job' \in [Clients -> Job]
    BY <1>1, <1>2 DEF Start, Typed
  <2> QED
    BY <1>1, <1>4, <2>2, <2>3 DEF Typed, serverVars
<1>6. DOMAIN job[c].got = {} /\ ~InBatch(c)' /\ Shape(c)'
  BY <1>3 DEF Inv, Shape, InBatch
<1>7. ASSUME c \notin slipped' PROVE Sound(c)'
  <2>1. Sound(c)
    BY <1>4, <1>7 DEF Inv
  <2>2. ASSUME fresh[c], NEW f \in Files
        PROVE  /\ Known(c, f)' = Known(c, f) /\ (Dirty(c, f)' <=> Dirty(c, f))
               /\ Half(c, f)' <=> Half(c, f)
    <3>1. row'[c][f] = row[c][f]
      BY <1>4, <2>2
    <3> QED
      BY <1>3, <3>1, RowKept DEF Half
  <2>3. ASSUME ~fresh[c], NEW f \in Files
        PROVE  /\ Known(c, f)' = disk[c][f]
               /\ Dirty(c, f)' \/ (Known(c, f)' = Known(c, f) /\ (Dirty(c, f)' <=> Dirty(c, f)))
    <3>1. row'[c][f] = IF disk[c][f] = Known(c, f) THEN row[c][f]
                       ELSE [data |-> disk[c][f], dirty |-> TRUE]
      BY <1>4, <2>3 DEF Registered
    <3>2. CASE disk[c][f] = Known(c, f)
      BY <3>1, <3>2, RowKept
    <3>3. CASE disk[c][f] # Known(c, f)
      <4>1. disk[c][f] \in Data
        BY <1>1, StateTypes
      <4> QED
        BY <3>1, <3>3, <4>1, RowSet
    <3> QED
      BY <3>2, <3>3
  <2>4. KnownAsSeen(c)'
    BY <1>4, <2>1, <2>2, <2>3 DEF Sound, KnownAsSeen
  <2>5. KnownAsFound(c)'
    <3>1. CASE fresh[c]
      <4>1. Scanned(c)
        BY <3>1 DEF Scanned
      <4> QED
        BY <1>4, <2>1, <2>2, <3>1, <4>1 DEF Sound, KnownAsFound
    <3>2. CASE ~fresh[c]
      BY <1>4, <2>3, <3>2 DEF KnownAsFound
    <3> QED
      BY <3>1, <3>2
  <2> QED
    BY <1>3, <1>6, <2>4, <2>5 DEF Sound
<1>8. job'[c].last <= lastUsn /\ job'[c].reply <= lastUsn /\ usn'[c] <= lastUsn
  BY <1>3, <1>4 DEF Inv, Numbered
<1>9. Numbered' /\ ServerMoves
  BY <1>1, <1>4, <1>8, NumberedKept
<1> QED
  BY <1>4, <1>5, <1>6, <1>7, <1>9, Compose

\* A step of the sync that only moves on
LEMMA SoundMovedOn ==
    ASSUME Inv, NEW c \in Clients, UNCHANGED <<disk, row, usn, fresh, entry>>,
           job[c].at # "idle", job'[c].at \in {"begin", "fetch", "send"},
           job'[c].got = job[c].got, job'[c].outside = job[c].outside, ~InBatch(c), Sound(c)
    PROVE  Sound(c)'
<1>1. /\ Scanned(c)' <=> Scanned(c)
      /\ \A f \in Files : /\ Known(c, f)' = Known(c, f) /\ (Dirty(c, f)' <=> Dirty(c, f))
                          /\ Half(c, f)' <=> Half(c, f)
  BY DEF Scanned, Known, Dirty, Half
<1>2. KnownAsSeen(c)' /\ KnownAsFound(c)'
  BY <1>1 DEF Sound, KnownAsSeen, KnownAsFound
<1> QED
  BY <1>2 DEF Sound, InBatch

LEMMA CompareStep ==
    ASSUME Inv, NEW c \in Clients, Compare(c)
    PROVE  Inv'
<1>1. job[c] \in Job /\ usn[c] \in Nat /\ lastUsn \in Nat /\ Typed
  BY StateTypes DEF Inv, Typed
<1>2. PICK u \in {job[c].seen, lastUsn} :
        job' = [job EXCEPT ![c].at = IF usn[c] # u THEN "fetch" ELSE "send",
                           ![c].last = usn[c], ![c].seen = 0, ![c].acted = usn[c] # u]
  BY DEF Compare
<1>3. job'[c] = [job[c] EXCEPT !.at = IF usn[c] # u THEN "fetch" ELSE "send",
                               !.last = usn[c], !.seen = 0, !.acted = usn[c] # u]
      /\ job'[c] \in Job
  BY <1>1, <1>2 DEF Typed, Job
<1>4. /\ job[c].at = "begin" /\ job'[c].at \in {"fetch", "send"} /\ job'[c].last = usn[c]
      /\ job'[c].got = job[c].got /\ job'[c].reply = job[c].reply /\ job'[c].outside = job[c].outside
  BY <1>1, <1>3 DEF Job, Compare
<1>5. /\ Others(c) /\ UNCHANGED <<disk, row, usn, fresh, entry, lastUsn>> /\ UNCHANGED serverVars
      /\ slipped' = slipped
  BY <1>1, <1>2 DEF Compare, Others, Typed, serverVars
<1>6. Typed'
  <2>1. job' \in [Clients -> Job]
    BY <1>1, <1>2, <1>3 DEF Typed
  <2> QED
    BY <1>1, <1>5, <2>1 DEF Typed
<1>7. ~InBatch(c) /\ DOMAIN job[c].got = {} /\ Shape(c)'
  BY <1>4, <1>5 DEF Inv, Shape, InBatch
<1>8. c \notin slipped' => Sound(c)'
  BY <1>4, <1>5, <1>7, SoundMovedOn DEF Inv
<1>9. job'[c].last <= lastUsn /\ job'[c].reply <= lastUsn /\ usn'[c] <= lastUsn
  BY <1>4, <1>5 DEF Inv, Numbered
<1>10. Numbered' /\ ServerMoves
  BY <1>1, <1>5, <1>9, NumberedKept
<1> QED
  BY <1>5, <1>6, <1>7, <1>8, <1>10, Compose

\* What determine_required_change tells of a file
LEMMA ChangeMeans ==
    ASSUME NEW c, NEW f
    PROVE  /\ RequiredChange(c, f) = "delete" => entry[f].data = NoFile /\ row[c][f] # NoRow
           /\ RequiredChange(c, f) = "clear" => Known(c, f) = entry[f].data
           /\ RequiredChange(c, f) \notin {"download", "delete"} =>
                 ~(Known(c, f) = NoFile /\ row[c][f] # NoRow)
           /\ RequiredChange(c, f) \notin {"download", "delete", "clear"} /\ ~Dirty(c, f) =>
                 Known(c, f) = entry[f].data
<1> DEFINE mine == Known(c, f)
           theirs == entry[f].data
<1>1. row[c][f] = NoRow => mine = NoFile
  BY DEF Known
<1> HIDE DEF mine, theirs
<1>2. RequiredChange(c, f) =
        CASE theirs # NoFile /\ mine # theirs -> "download"
          [] theirs # NoFile /\ mine = theirs /\ Dirty(c, f) -> "clear"
          [] theirs = NoFile /\ mine = NoFile /\ row[c][f] # NoRow -> "delete"
          [] theirs = NoFile /\ mine # NoFile /\ ~Dirty(c, f) -> "delete"
          [] OTHER -> "none"
  BY DEF RequiredChange, mine, theirs
<1>3. /\ theirs # NoFile /\ mine # theirs => RequiredChange(c, f) = "download"
      /\ theirs # NoFile /\ mine = theirs /\ Dirty(c, f) => RequiredChange(c, f) = "clear"
      /\ theirs # NoFile /\ mine = theirs /\ ~Dirty(c, f) => RequiredChange(c, f) = "none"
      /\ theirs = NoFile /\ mine = NoFile /\ row[c][f] # NoRow => RequiredChange(c, f) = "delete"
      /\ theirs = NoFile /\ mine = NoFile /\ row[c][f] = NoRow => RequiredChange(c, f) = "none"
      /\ theirs = NoFile /\ mine # NoFile /\ ~Dirty(c, f) => RequiredChange(c, f) = "delete"
      /\ theirs = NoFile /\ mine # NoFile /\ Dirty(c, f) => RequiredChange(c, f) = "none"
  BY <1>2
<1>4. \/ theirs # NoFile /\ mine # theirs
      \/ theirs # NoFile /\ mine = theirs /\ Dirty(c, f)
      \/ theirs # NoFile /\ mine = theirs /\ ~Dirty(c, f)
      \/ theirs = NoFile /\ mine = NoFile /\ row[c][f] # NoRow
      \/ theirs = NoFile /\ mine = NoFile /\ row[c][f] = NoRow
      \/ theirs = NoFile /\ mine # NoFile /\ ~Dirty(c, f)
      \/ theirs = NoFile /\ mine # NoFile /\ Dirty(c, f)
  OBVIOUS
<1>5. /\ RequiredChange(c, f) = "delete" => theirs = NoFile /\ row[c][f] # NoRow
      /\ RequiredChange(c, f) = "clear" => mine = theirs
      /\ RequiredChange(c, f) \notin {"download", "delete"} => ~(mine = NoFile /\ row[c][f] # NoRow)
      /\ RequiredChange(c, f) \notin {"download", "delete", "clear"} /\ ~Dirty(c, f) => mine = theirs
  BY <1>1, <1>3, <1>4
<1> QED
  BY <1>5 DEF mine, theirs

LEMMA FetchStep ==
    ASSUME Inv, NEW c \in Clients, Fetch(c)
    PROVE  Inv'
<1> DEFINE b == MediaChangesChunk(job[c].last)
           dels == Wanted(c, b, "delete")
           gets == Wanted(c, b, "download")
           clears == Wanted(c, b, "clear")
           gone == Removable(c, dels)
           missed == \E f \in Range(dels) : disk'[c][f] # NoFile
<1>1. job[c] \in Job /\ usn[c] \in Nat /\ lastUsn \in Nat /\ Typed /\ NoFile \in Data
  BY StateTypes DEF Inv, Typed, Data
<1>2. /\ job[c].at = "fetch" /\ job[c].last = usn[c] /\ ~InBatch(c) /\ DOMAIN job[c].got = {}
      /\ job[c].last \in Nat
  <2>1. job[c].at = "fetch"
    BY DEF Fetch
  <2> QED
    BY <1>1, <2>1 DEF Inv, Shape, InBatch
<1>3. /\ b \in Seq(Files)
      /\ b # <<>> =>
           /\ Last(b) \in Files /\ entry[Last(b)].usn > usn[c]
           /\ \A f \in Range(b) : entry[f].usn > usn[c]
           /\ \A f \in Files : entry[f].usn > usn[c] /\ entry[f].usn <= entry[Last(b)].usn => f \in Range(b)
  BY <1>1, <1>2, ChunkFiles DEF Inv
<1> HIDE DEF b
<1>4. /\ UNCHANGED <<usn, fresh, slipped, edits, stops>> /\ UNCHANGED serverVars
      /\ entry' = entry /\ lastUsn' = lastUsn
  BY DEF Fetch, serverVars
<1>5. CASE b = <<>>
  <2>1. /\ job' = [job EXCEPT ![c].at = "send"] /\ disk' = disk /\ row' = row
    BY <1>5 DEF Fetch, b
  <2>2. job'[c] = [job[c] EXCEPT !.at = "send"] /\ job'[c] \in Job
    BY <1>1, <2>1 DEF Typed, Job
  <2>3. /\ job'[c].at = "send" /\ job'[c].last = job[c].last
        /\ job'[c].got = job[c].got /\ job'[c].reply = job[c].reply /\ job'[c].outside = job[c].outside
    BY <1>1, <2>2 DEF Job
  <2>4. Others(c)
    BY <1>1, <1>4, <2>1 DEF Others, Typed
  <2>5. Typed'
    <3>1. job' \in [Clients -> Job]
      BY <1>1, <2>1, <2>2 DEF Typed
    <3> QED
      BY <1>1, <1>4, <2>1, <3>1 DEF Typed
  <2>6. Shape(c)'
    BY <1>2, <2>3 DEF Shape, InBatch
  <2>7. c \notin slipped' => Sound(c)'
    BY <1>2, <1>4, <2>1, <2>3, SoundMovedOn DEF Inv
  <2>8. job'[c].last <= lastUsn /\ job'[c].reply <= lastUsn /\ usn'[c] <= lastUsn
    BY <1>4, <2>3 DEF Inv, Numbered
  <2>9. Numbered' /\ ServerMoves
    BY <1>1, <1>4, <2>4, <2>8, NumberedKept
  <2> QED
    BY <2>4, <2>5, <2>6, <2>7, <2>9, Compose
<1>6. CASE b # <<>>
  <2>1. /\ dels \in Seq(Files) /\ gets \in Seq(Files) /\ clears \in Seq(Files)
        /\ Range(dels) = {f \in Range(b) : RequiredChange(c, f) = "delete"}
        /\ Range(gets) = {f \in Range(b) : RequiredChange(c, f) = "download"}
        /\ Range(clears) = {f \in Range(b) : RequiredChange(c, f) = "clear"}
    BY <1>3, WantedFiles
  <2>2. Range(dels) \subseteq Files /\ Range(gets) \subseteq Files /\ Range(clears) \subseteq Files
    BY <2>1, RangeOf
  <2>3. gone \subseteq Range(dels)
    BY DEF Removable, Range
  <2>4. /\ disk' = [disk EXCEPT ![c] = [f \in Files |-> IF f \in gone THEN NoFile ELSE @[f]]]
        /\ row' = [row EXCEPT ![c] =
              [f \in Files |-> IF f \in Range(dels) /\ @[f] # NoRow
                               THEN [data |-> NoFile, dirty |-> TRUE] ELSE @[f]]]
        /\ job' = [job EXCEPT ![c].at = IF gets = <<>> THEN "record" ELSE "get",
                              ![c].last = entry[Last(b)].usn, ![c].get = gets, ![c].del = Range(dels),
                              ![c].clear = Range(clears), ![c].crossed = FALSE, ![c].left = missed]
    BY <1>6 DEF Fetch, b, dels, gets, clears, gone, missed
  <2> DEFINE at == IF gets = <<>> THEN "record" ELSE "get"
             last == entry[Last(b)].usn
  <2> HIDE DEF missed, gone
  <2>5. missed \in BOOLEAN /\ (~missed => \A f \in Range(dels) : disk'[c][f] = NoFile)
    BY DEF missed
  <2> HIDE DEF gets, dels, clears
  <2>6. at \in {"get", "record"} /\ last \in Nat /\ last > usn[c] /\ last <= lastUsn
    BY <1>1, <1>3, <1>6 DEF Typed, Inv, Numbered
  <2>7. /\ job'[c] = [job[c] EXCEPT !.at = at, !.last = last, !.get = gets, !.del = Range(dels),
                                    !.clear = Range(clears), !.crossed = FALSE, !.left = missed]
        /\ \A d \in Clients : d # c => job'[d] = job[d]
    BY <1>1, <2>4 DEF Typed
  <2> HIDE DEF at, last
  <2>8. job'[c] \in Job
    BY <1>1, <2>1, <2>2, <2>5, <2>6, <2>7 DEF Job
  <2>9. /\ job'[c].at = at /\ job'[c].last = last /\ job'[c].get = gets /\ job'[c].del = Range(dels)
        /\ job'[c].clear = Range(clears) /\ job'[c].crossed = FALSE /\ job'[c].left = missed
        /\ job'[c].got = job[c].got /\ job'[c].reply = job[c].reply /\ job'[c].outside = job[c].outside
    BY <1>1, <2>7 DEF Job
  <2>10. Others(c)
    BY <1>1, <1>4, <2>4, <2>7 DEF Others, Typed
  <2>11. Typed'
    <3>1. [data |-> NoFile, dirty |-> TRUE] \in Row
      BY <1>1, RowType
    <3>2. disk' \in [Clients -> [Files -> Data]] /\ row' \in [Clients -> [Files -> Row \cup {NoRow}]]
      BY <1>1, <2>4, <3>1 DEF Typed
    <3>3. DOMAIN job' = Clients /\ \A d \in Clients : job'[d] \in Job
      BY <1>1, <2>4, <2>7, <2>8 DEF Typed
    <3>4. job' \in [Clients -> Job]
      BY <1>1, <2>4, <3>3 DEF Typed
    <3> QED
      BY <1>1, <1>4, <3>2, <3>4 DEF Typed
  <2>12. Shape(c)'
    BY <1>1, <1>4, <2>6, <2>9 DEF Shape, InBatch, at
  <2>13. ASSUME NEW f \in Files, f \in Range(dels)
         PROVE  /\ entry[f].data = NoFile /\ entry[f].usn > usn[c]
                /\ Known(c, f)' = NoFile /\ Dirty(c, f)' /\ row'[c][f] # NoRow
    <3>1. f \in Range(b) /\ entry[f].data = NoFile /\ row[c][f] # NoRow
      BY <2>1, <2>13, ChangeMeans
    <3>2. row'[c][f] = [data |-> NoFile, dirty |-> TRUE]
      BY <1>1, <2>4, <2>13, <3>1 DEF Typed
    <3> QED
      BY <1>1, <1>3, <1>6, <3>1, <3>2, RowSet
  <2>14. ASSUME NEW f \in Files, f \notin Range(dels)
         PROVE  /\ disk'[c][f] = disk[c][f] /\ row'[c][f] = row[c][f]
                /\ Known(c, f)' = Known(c, f) /\ (Dirty(c, f)' <=> Dirty(c, f))
    <3>1. disk'[c][f] = disk[c][f] /\ row'[c][f] = row[c][f]
      BY <1>1, <2>3, <2>4, <2>14 DEF Typed
    <3> QED
      BY <3>1, RowKept
  <2>15. ASSUME c \notin slipped' PROVE Sound(c)'
    <3>1. Sound(c) /\ InBatch(c)' /\ job'[c].at # "mark" /\ (Scanned(c)' <=> Scanned(c))
          /\ (~job[c].outside => Scanned(c))
      BY <1>2, <1>4, <2>6, <2>9, <2>15 DEF Inv, InBatch, Scanned
    <3>2. KnownAsSeen(c)'
      <4>1. ASSUME NEW f \in Files, entry[f].usn <= usn[c], ~Dirty(c, f)' PROVE Known(c, f)' = entry[f].data
        <5>1. f \notin Range(dels)
          BY <2>13, <4>1
        <5> QED
          BY <2>14, <3>1, <4>1, <5>1 DEF Sound, KnownAsSeen
      <4> QED
        BY <1>4, <4>1 DEF KnownAsSeen
    <3>3. KnownAsFound(c)'
      <4>1. ASSUME Scanned(c), NEW f \in Files
            PROVE  disk'[c][f] = Known(c, f)' \/ (entry[f].usn > usn[c] /\ Half(c, f)')
        <5>1. CASE f \in Range(dels)
          BY <2>13, <5>1 DEF Half
        <5>2. CASE f \notin Range(dels)
          <6>1. disk[c][f] = Known(c, f) \/ (entry[f].usn > usn[c] /\ Half(c, f))
            BY <3>1, <4>1 DEF Sound, KnownAsFound
          <6>2. Half(c, f) => Half(c, f)'
            BY <2>9, <2>14, <5>2 DEF Half
          <6> QED
            BY <2>14, <5>2, <6>1, <6>2
        <5> QED
          BY <5>1, <5>2
      <4> QED
        BY <1>4, <3>1, <4>1 DEF KnownAsFound
    <3>4. ASSUME NEW f \in Files PROVE BatchFile(c, f)'
      <4> DEFINE change == RequiredChange(c, f)
      <4>1. /\ f \in Range(gets) => entry[f].usn > usn[c] /\ f \notin Range(dels)
        BY <1>3, <1>6, <2>1
      <4>2. f \in Range(dels) =>
              /\ entry[f].data = NoFile
              /\ ~missed => disk'[c][f] = NoFile
        BY <2>5, <2>13
      <4>3. f \in Range(clears) => Known(c, f)' = entry[f].data
        BY <2>1, <2>14, ChangeMeans
      <4>4. Listed(c, f)' <=> entry[f].usn <= last
        BY <1>4, <2>9 DEF Listed
      <4>5. Named(c, f)' <=> f \in Range(gets) \/ f \in Range(dels)
        BY <1>2, <2>9 DEF Named
      <4>6. ASSUME entry[f].usn <= last, f \notin Range(gets), f \notin Range(dels)
            PROVE  /\ ~job[c].outside => disk[c][f] = Known(c, f)
                   /\ f \notin Range(clears) /\ ~Dirty(c, f) => Known(c, f) = entry[f].data
        <5>1. CASE entry[f].usn <= usn[c]
          <6>1. ~(entry[f].usn > usn[c])
            BY <1>1, <5>1 DEF Typed
          <6> QED
            BY <3>1, <5>1, <6>1 DEF Sound, KnownAsSeen, KnownAsFound
        <5>2. CASE entry[f].usn > usn[c]
          <6>1. f \in Range(b)
            BY <1>3, <1>6, <4>6, <5>2 DEF last
          <6>2. change \notin {"download", "delete"} /\ (f \notin Range(clears) => change # "clear")
            BY <2>1, <4>6, <6>1
          <6>3. ~Half(c, f)
            BY <1>2, <6>2, ChangeMeans DEF Half
          <6>4. ~job[c].outside => disk[c][f] = Known(c, f)
            BY <3>1, <6>3 DEF Sound, KnownAsFound
          <6>5. f \notin Range(clears) /\ ~Dirty(c, f) => Known(c, f) = entry[f].data
            BY <6>2, ChangeMeans
          <6> QED
            BY <6>4, <6>5
        <5>3. entry[f].usn <= usn[c] \/ entry[f].usn > usn[c]
          BY <1>1 DEF Typed
        <5> QED
          BY <5>1, <5>2, <5>3
      <4>7. /\ Listed(c, f)' /\ ~Named(c, f)' /\ ~job'[c].outside => disk'[c][f] = Known(c, f)'
            /\ Listed(c, f)' /\ ~Named(c, f)' /\ f \notin Range(clears) /\ ~Dirty(c, f)' =>
                  Known(c, f)' = entry[f].data
        BY <2>9, <2>14, <4>4, <4>5, <4>6
      <4> HIDE DEF change
      <4> QED
        BY <1>2, <1>4, <2>9, <4>1, <4>2, <4>3, <4>7 DEF BatchFile
    <3> QED
      BY <3>1, <3>2, <3>3, <3>4 DEF Sound
  <2>16. job'[c].last <= lastUsn /\ job'[c].reply <= lastUsn /\ usn'[c] <= lastUsn
    BY <1>4, <2>6, <2>9 DEF Inv, Numbered
  <2>17. Numbered' /\ ServerMoves
    BY <1>1, <1>4, <2>10, <2>16, NumberedKept
  <2> QED
    BY <2>10, <2>11, <2>12, <2>15, <2>17, Compose
<1> QED
  BY <1>5, <1>6

\* A sync that ends before its batch is recorded: what it has overwritten in
\* place is not to be seen in the folder's time.
LEMMA Ended ==
    ASSUME Inv, NEW c \in Clients, job'[c] = Idle,
           UNCHANGED <<disk, row, usn, fresh, entry>>,
           Sound(c), ~Unrecorded(c)
    PROVE  Sound(c)'
<1>1. /\ job'[c].at = "idle" /\ DOMAIN job'[c].got = {} /\ (Scanned(c)' <=> fresh[c])
      /\ \A f \in Files : Known(c, f)' = Known(c, f) /\ (Dirty(c, f)' <=> Dirty(c, f))
  BY NothingFetched DEF Idle, Scanned, Known, Dirty
<1>2. KnownAsSeen(c)'
  BY <1>1 DEF Sound, KnownAsSeen
<1>3. ASSUME fresh[c], NEW f \in Files
      PROVE  disk[c][f] = Known(c, f) \/ (entry[f].usn > usn[c] /\ Half(c, f)')
  <2>1. Scanned(c) /\ DOMAIN job[c].got = {}
    BY <1>3 DEF Scanned, Unrecorded
  <2>2. disk[c][f] = Known(c, f) \/ (entry[f].usn > usn[c] /\ Half(c, f))
    BY <2>1 DEF Sound, KnownAsFound
  <2>3. Half(c, f) => Half(c, f)'
    BY <1>1, <2>1 DEF Half
  <2> QED
    BY <2>2, <2>3
<1>4. KnownAsFound(c)'
  BY <1>1, <1>3 DEF KnownAsFound
<1> QED
  BY <1>1, <1>2, <1>4 DEF Sound, InBatch

LEMMA IdleShape ==
    ASSUME Inv, NEW c \in Clients, job'[c] = Idle
    PROVE  /\ Shape(c)'
           /\ lastUsn \in Nat => job'[c].last <= lastUsn /\ job'[c].reply <= lastUsn
<1>1. /\ job'[c].at = "idle" /\ DOMAIN job'[c].got = {} /\ job'[c].last = 0 /\ job'[c].reply = 0
  BY NothingFetched DEF Idle
<1> QED
  BY <1>1 DEF Shape, InBatch

LEMMA SplitRange ==
    ASSUME NEW S, NEW s \in Seq(S), NEW n \in DOMAIN s
    PROVE  LET a == SubSeq(s, 1, n)
               z == SubSeq(s, n + 1, Len(s))
           IN  a \in Seq(S) /\ z \in Seq(S) /\ Range(s) = Range(a) \cup Range(z)
<1> DEFINE a == SubSeq(s, 1, n)
           z == SubSeq(s, n + 1, Len(s))
           m == Len(s)
<1>1. m \in Nat /\ n \in 1..m /\ DOMAIN s = 1..m
  OBVIOUS
<1>2. a \in Seq(S) /\ Len(a) = n /\ \A i \in 1..n : a[i] = s[i]
  OBVIOUS
<1>3. z \in Seq(S) /\ Len(z) = m - n /\ \A i \in 1..(m - n) : z[i] = s[n + i]
  <2>1. \A i \in (n + 1)..m : s[i] \in S
    BY <1>1
  <2>2. n + 1 \in Int /\ m \in Int /\ m - (n + 1) + 1 = m - n
    BY <1>1
  <2>3. /\ z \in Seq(S)
        /\ Len(z) = IF n + 1 <= m THEN m - (n + 1) + 1 ELSE 0
        /\ \A i \in 1..(m - (n + 1) + 1) : z[i] = s[(n + 1) + i - 1]
    BY <2>1, <2>2, SubSeqProperties
  <2>4. Len(z) = m - n
    BY <1>1, <2>2, <2>3
  <2>5. ASSUME NEW i \in 1..(m - n) PROVE z[i] = s[n + i]
    <3>1. i \in 1..(m - (n + 1) + 1) /\ (n + 1) + i - 1 = n + i
      BY <1>1, <2>2
    <3> QED
      BY <2>3, <3>1
  <2> QED
    BY <2>3, <2>4, <2>5
<1> HIDE DEF a, z, m
<1>4. DOMAIN a = 1..n /\ DOMAIN z = 1..(m - n)
  BY <1>1, <1>2, <1>3
<1>5. ASSUME NEW i \in DOMAIN s PROVE s[i] \in Range(a) \cup Range(z)
  <2>1. CASE i <= n
    <3>1. i \in DOMAIN a /\ a[i] = s[i]
      BY <1>1, <1>2, <1>4, <2>1
    <3> QED
      BY <3>1 DEF Range
  <2>2. CASE i > n
    <3>1. i - n \in DOMAIN z /\ z[i - n] = s[n + (i - n)] /\ n + (i - n) = i
      BY <1>1, <1>3, <1>4, <2>2
    <3> QED
      BY <3>1 DEF Range
  <2> QED
    BY <1>1, <2>1, <2>2
<1>6. \A i \in DOMAIN a : i \in DOMAIN s /\ a[i] = s[i]
  BY <1>1, <1>2, <1>4
<1>7. \A i \in DOMAIN z : n + i \in DOMAIN s /\ z[i] = s[n + i]
  BY <1>1, <1>3, <1>4
<1>8. Range(a) \subseteq Range(s)
  BY <1>6 DEF Range
<1>9. Range(z) \subseteq Range(s)
  BY <1>7 DEF Range
<1>10. Range(s) \subseteq Range(a) \cup Range(z)
  BY <1>5 DEF Range
<1> QED
  BY <1>2, <1>3, <1>8, <1>9, <1>10 DEF a, z, m

LEMMA DownloadStep ==
    ASSUME Inv, NEW c \in Clients, NEW n \in Nat, Download(c, n)
    PROVE  Inv'
<1> DEFINE files == SubSeq(job[c].get, 1, n)
           rest == SubSeq(job[c].get, n + 1, Len(job[c].get))
           got == [f \in Range(files) \cup DOMAIN job[c].got |->
                      IF f \in Range(files) THEN entry[f].data ELSE job[c].got[f]]
           at == IF rest = <<>> THEN "record" ELSE "get"
           new == fresh[c] /\ \A f \in Range(files) : disk[c][f] # NoFile
<1>1. job[c] \in Job /\ usn[c] \in Nat /\ lastUsn \in Nat /\ Typed
  BY StateTypes DEF Inv, Typed
<1>2. job[c].at = "get" /\ n \in DOMAIN job[c].get
  BY DEF Download
<1>3. /\ UNCHANGED <<row, usn, edits, stops>> /\ UNCHANGED serverVars
      /\ entry' = entry /\ lastUsn' = lastUsn
  BY DEF Download, serverVars
<1>4. CASE \E f \in Range(files) : entry[f].data = NoFile
  <2>1. /\ job' = [job EXCEPT ![c] = Idle] /\ disk' = disk /\ fresh' = fresh
        /\ slipped' = IF Unrecorded(c) THEN slipped \cup {c} ELSE slipped
    BY <1>4 DEF Download
  <2>2. job'[c] = Idle /\ Others(c)
    BY <1>1, <1>3, <2>1 DEF Others, Typed
  <2>3. Typed'
    <3>1. job' \in [Clients -> Job]
      BY <1>1, <2>1, IdleIsJob DEF Typed
    <3> QED
      BY <1>1, <1>3, <2>1, <3>1 DEF Typed
  <2>4. c \notin slipped' => Sound(c)'
    BY <1>3, <2>1, <2>2, Ended DEF Inv
  <2>5. Shape(c)' /\ job'[c].last <= lastUsn /\ job'[c].reply <= lastUsn /\ usn'[c] <= lastUsn
    BY <1>1, <1>3, <2>2, IdleShape DEF Inv, Numbered
  <2>6. Numbered' /\ ServerMoves
    BY <1>1, <1>3, <2>2, <2>5, NumberedKept
  <2> QED
    BY <2>2, <2>3, <2>4, <2>5, <2>6, Compose
<1>5. CASE \A f \in Range(files) : entry[f].data # NoFile
  <2>1. /\ job[c].get \in Seq(Files) /\ job[c].got \in Fetched
    BY <1>1 DEF Job
  <2>2. /\ files \in Seq(Files) /\ rest \in Seq(Files)
        /\ Range(job[c].get) = Range(files) \cup Range(rest)
    BY <1>2, <2>1, SplitRange
  <2>3. /\ disk' = [disk EXCEPT ![c] =
              [f \in Files |-> IF f \in Range(files) THEN entry[f].data ELSE @[f]]]
        /\ fresh' = [fresh EXCEPT ![c] = new]
        /\ job' = [job EXCEPT ![c].at = at, ![c].get = rest, ![c].got = got]
        /\ slipped' = slipped
    BY <1>5 DEF Download
  <2> HIDE DEF files, rest
  <2>4. Range(files) \subseteq Files /\ DOMAIN job[c].got \subseteq Files
    BY <2>1, <2>2, RangeOf, FetchedFiles
  <2>5. got \in Fetched
    <3> DEFINE h == [f \in Files |-> entry[f].data]
               got1 == [f \in Range(files) \cup DOMAIN job[c].got |->
                           IF f \in Range(files) THEN h[f] ELSE job[c].got[f]]
    <3>1. h \in [Files -> Data] /\ Range(files) \in SUBSET Files
      BY <1>1, <2>4 DEF Typed
    <3>2. \A f \in Range(files) : h[f] = entry[f].data
      BY <2>4
    <3> HIDE DEF h
    <3>3. got1 \in Fetched
      BY <2>1, <3>1, FetchedMore
    <3>4. got = got1
      BY <3>2
    <3> QED
      BY <3>3, <3>4
  <2>6. /\ DOMAIN got = Range(files) \cup DOMAIN job[c].got
        /\ \A f \in Range(files) : got[f] = entry[f].data
        /\ \A f \in DOMAIN job[c].got : f \notin Range(files) => got[f] = job[c].got[f]
    OBVIOUS
  <2>7. at \in {"get", "record"} /\ new \in BOOLEAN /\ (new => fresh[c])
    BY <1>1 DEF Typed
  <2> HIDE DEF got, new
  <2>8. /\ job'[c] = [job[c] EXCEPT !.at = at, !.get = rest, !.got = got]
        /\ \A d \in Clients : d # c => job'[d] = job[d]
        /\ DOMAIN job' = Clients
    BY <1>1, <2>3 DEF Typed
  <2>9. job'[c] \in Job
    BY <1>1, <2>2, <2>5, <2>7, <2>8 DEF Job
  <2>10. /\ job'[c].at = at /\ job'[c].last = job[c].last /\ job'[c].get = rest
         /\ job'[c].del = job[c].del /\ job'[c].clear = job[c].clear
         /\ job'[c].crossed = job[c].crossed /\ job'[c].left = job[c].left
         /\ job'[c].got = got /\ job'[c].reply = job[c].reply /\ job'[c].outside = job[c].outside
    BY <1>1, <2>8 DEF Job
  <2>11. Others(c)
    BY <1>1, <1>3, <2>3, <2>8 DEF Others, Typed
  <2>12. Typed'
    <3>1. disk' \in [Clients -> [Files -> Data]] /\ fresh' \in [Clients -> BOOLEAN]
      BY <1>1, <2>3, <2>7 DEF Typed
    <3>2. job' \in [Clients -> Job]
      BY <1>1, <2>3, <2>8, <2>9 DEF Typed
    <3> QED
      BY <1>1, <1>3, <3>1, <3>2 DEF Typed
  <2>13. job[c].last >= usn[c] /\ InBatch(c) /\ InBatch(c)'
    BY <1>2, <2>7, <2>10 DEF Inv, Shape, InBatch
  <2>14. Shape(c)'
    BY <1>3, <2>7, <2>10, <2>13 DEF Shape, at, InBatch
  <2>15. \A f \in Files : /\ Known(c, f)' = Known(c, f) /\ (Dirty(c, f)' <=> Dirty(c, f))
                          /\ row'[c][f] = row[c][f]
    BY <1>3 DEF Known, Dirty
  <2>16. \A f \in Files : disk'[c][f] = IF f \in Range(files) THEN entry[f].data ELSE disk[c][f]
    BY <1>1, <2>3 DEF Typed
  <2>17. ASSUME c \notin slipped' PROVE Sound(c)'
    <3>1. Sound(c) /\ (Scanned(c)' => Scanned(c)) /\ \A f \in Files : BatchFile(c, f)
      BY <1>1, <1>2, <2>3, <2>7, <2>10, <2>13, <2>17 DEF Inv, Sound, Scanned, Typed
    <3>2. KnownAsSeen(c)'
      BY <1>3, <2>15, <3>1 DEF Sound, KnownAsSeen
    <3>3. KnownAsFound(c)'
      <4>1. ASSUME Scanned(c), NEW f \in Files
            PROVE  disk'[c][f] = Known(c, f) \/ (entry[f].usn > usn[c] /\ Half(c, f)')
        <5>1. CASE f \in Range(files)
          <6>1. entry[f].usn > usn[c]
            BY <2>2, <3>1, <5>1 DEF BatchFile
          <6> QED
            BY <2>6, <2>10, <5>1, <6>1 DEF Half
        <5>2. CASE f \notin Range(files)
          <6>1. disk[c][f] = Known(c, f) \/ (entry[f].usn > usn[c] /\ Half(c, f))
            BY <3>1, <4>1 DEF Sound, KnownAsFound
          <6>2. Half(c, f) => Half(c, f)'
            BY <2>6, <2>10, <2>15 DEF Half
          <6> QED
            BY <2>16, <5>2, <6>1, <6>2
        <5> QED
          BY <5>1, <5>2
      <4> QED
        BY <1>3, <2>15, <3>1, <4>1 DEF KnownAsFound
    <3>4. ASSUME NEW f \in Files PROVE BatchFile(c, f)'
      <4>1. BatchFile(c, f)
        BY <3>1
      <4>2. /\ Listed(c, f)' <=> Listed(c, f)
            /\ Named(c, f)' <=> Named(c, f)
            /\ f \in Range(rest) => f \in Range(job[c].get)
            /\ f \in Range(files) => f \in Range(job[c].get) /\ Named(c, f)
            /\ f \in job[c].del => f \notin Range(files)
        BY <1>3, <2>2, <2>6, <2>10, <4>1 DEF Listed, Named, BatchFile
      <4>3. f \in DOMAIN got =>
              /\ entry[f].usn > usn[c]
              /\ Listed(c, f) => got[f] = entry[f].data
              /\ ~job[c].crossed /\ ~job[c].outside => disk'[c][f] = got[f]
        <5>1. CASE f \in Range(files)
          BY <2>6, <2>16, <4>1, <4>2, <5>1 DEF BatchFile
        <5>2. CASE f \notin Range(files)
          BY <2>6, <2>16, <4>1, <5>2 DEF BatchFile
        <5> QED
          BY <5>1, <5>2
      <4>4. ~Named(c, f) \/ f \in job[c].del => disk'[c][f] = disk[c][f]
        BY <2>16, <4>2
      <4> QED
        BY <1>3, <2>10, <2>15, <4>1, <4>2, <4>3, <4>4 DEF BatchFile
    <3> QED
      BY <2>7, <2>10, <2>13, <3>2, <3>3, <3>4 DEF Sound
  <2>18. job'[c].last <= lastUsn /\ job'[c].reply <= lastUsn /\ usn'[c] <= lastUsn
    BY <1>3, <2>10 DEF Inv, Numbered
  <2>19. Numbered' /\ ServerMoves
    BY <1>1, <1>3, <2>11, <2>18, NumberedKept
  <2> QED
    BY <2>11, <2>12, <2>14, <2>17, <2>19, Compose
<1> QED
  BY <1>4, <1>5

\* What Record writes for a file
Recorded(c, f) ==
    IF f \in DOMAIN job[c].got THEN [data |-> job[c].got[f], dirty |-> FALSE]
    ELSE IF f \in job[c].del THEN NoRow
    ELSE IF f \in job[c].clear /\ row[c][f] # NoRow THEN [row[c][f] EXCEPT !.dirty = FALSE]
    ELSE row[c][f]

LEMMA RecordedRow ==
    ASSUME Typed, NEW c \in Clients, NEW f \in Files, row'[c][f] = Recorded(c, f)
    PROVE  /\ Recorded(c, f) \in Row \cup {NoRow}
           /\ f \in DOMAIN job[c].got => Known(c, f)' = job[c].got[f]
           /\ f \notin DOMAIN job[c].got /\ f \in job[c].del => Known(c, f)' = NoFile
           /\ f \notin DOMAIN job[c].got /\ f \notin job[c].del =>
                 /\ Known(c, f)' = Known(c, f)
                 /\ row'[c][f] = NoRow <=> row[c][f] = NoRow
                 /\ f \notin job[c].clear => (Dirty(c, f)' <=> Dirty(c, f))
<1>1. row[c][f] \in Row \cup {NoRow} /\ job[c].got \in Fetched /\ NoRow \notin Row
  BY NullAssumption DEF Typed, Job
<1>2. CASE f \in DOMAIN job[c].got
  <2>1. job[c].got[f] \in Data
    BY <1>1, <1>2, FetchedFiles
  <2>2. Recorded(c, f) = [data |-> job[c].got[f], dirty |-> FALSE]
    BY <1>2 DEF Recorded
  <2> QED
    BY <1>2, <2>1, <2>2, RowType, RowSet
<1>3. CASE f \notin DOMAIN job[c].got /\ f \in job[c].del
  <2>1. Recorded(c, f) = NoRow
    BY <1>3 DEF Recorded
  <2> QED
    BY <1>3, <2>1 DEF Known
<1>4. CASE f \notin DOMAIN job[c].got /\ f \notin job[c].del /\ f \in job[c].clear /\ row[c][f] # NoRow
  <2>1. Recorded(c, f) = [row[c][f] EXCEPT !.dirty = FALSE]
    BY <1>4 DEF Recorded
  <2>2. row[c][f].data \in Data /\ Recorded(c, f) = [data |-> row[c][f].data, dirty |-> FALSE]
    BY <1>1, <1>4, <2>1 DEF Row
  <2>3. Recorded(c, f) \in Row /\ Known(c, f)' = row[c][f].data /\ row'[c][f] # NoRow
    BY <2>2, RowType, RowSet
  <2> QED
    BY <1>4, <2>3 DEF Known
<1>5. CASE f \notin DOMAIN job[c].got /\ f \notin job[c].del /\ ~(f \in job[c].clear /\ row[c][f] # NoRow)
  <2>1. Recorded(c, f) = row[c][f]
    BY <1>5 DEF Recorded
  <2> QED
    BY <1>1, <1>5, <2>1, RowKept
<1> QED
  BY <1>2, <1>3, <1>4, <1>5

LEMMA RecordStep ==
    ASSUME Inv, NEW c \in Clients, Record(c)
    PROVE  Inv'
<1>1. job[c] \in Job /\ usn[c] \in Nat /\ lastUsn \in Nat /\ Typed
  BY StateTypes DEF Inv, Typed
<1>2. /\ job[c].at = "record" /\ InBatch(c) /\ job[c].get = <<>>
      /\ job[c].last \in Nat /\ usn[c] <= job[c].last /\ job[c].last <= lastUsn
  BY <1>1 DEF Record, InBatch, Inv, Shape, Numbered, Job
<1>3. /\ row' = [row EXCEPT ![c] = [f \in Files |-> Recorded(c, f)]]
      /\ usn' = [usn EXCEPT ![c] = job[c].last]
      /\ fresh' = [fresh EXCEPT ![c] = TRUE]
      /\ slipped' = IF job[c].outside \/ job[c].crossed \/ job[c].left
                    THEN slipped \cup {c} ELSE slipped
      /\ job' = [job EXCEPT ![c] = [Idle EXCEPT !.at = "fetch", !.last = job[c].last,
                                               !.acted = TRUE, !.outside = job[c].outside]]
      /\ disk' = disk /\ UNCHANGED serverVars /\ entry' = entry /\ lastUsn' = lastUsn
  BY <1>1 DEF Record, Recorded, serverVars, Typed
<1>4. /\ job'[c] = [Idle EXCEPT !.at = "fetch", !.last = job[c].last,
                               !.acted = TRUE, !.outside = job[c].outside]
      /\ job'[c] \in Job
  <2>1. job'[c] = [Idle EXCEPT !.at = "fetch", !.last = job[c].last,
                               !.acted = TRUE, !.outside = job[c].outside]
    BY <1>1, <1>3 DEF Typed
  <2>2. job[c].outside \in BOOLEAN
    BY <1>1 DEF Job
  <2> QED
    BY <1>2, <2>1, <2>2, IdleIsJob DEF Job
<1>5. /\ job'[c].at = "fetch" /\ job'[c].last = job[c].last /\ DOMAIN job'[c].got = {}
      /\ job'[c].reply = 0 /\ job'[c].outside = job[c].outside
  BY <1>4, NothingFetched DEF Idle
<1>6. \A f \in Files : row'[c][f] = Recorded(c, f)
  BY <1>1, <1>3 DEF Typed
<1>7. Others(c) /\ usn'[c] = job[c].last
  BY <1>1, <1>3 DEF Others, Typed
<1>8. Typed'
  <2>1. [f \in Files |-> Recorded(c, f)] \in [Files -> Row \cup {NoRow}]
    BY <1>1, <1>6, RecordedRow
  <2>2. row' \in [Clients -> [Files -> Row \cup {NoRow}]]
    BY <1>1, <1>3, <2>1 DEF Typed
  <2>3. job' \in [Clients -> Job]
    BY <1>1, <1>3, <1>4 DEF Typed
  <2> QED
    BY <1>1, <1>2, <1>3, <2>2, <2>3 DEF Typed
<1>9. ~InBatch(c)' /\ Shape(c)'
  BY <1>5, <1>7 DEF InBatch, Shape
<1>10. ASSUME c \notin slipped' PROVE Sound(c)'
  <2>1. Sound(c) /\ ~job[c].outside /\ ~job[c].crossed /\ ~job[c].left /\ Scanned(c)
        /\ \A f \in Files : BatchFile(c, f)
    BY <1>2, <1>3, <1>10 DEF Inv, Sound, Scanned
  <2>2. ASSUME NEW f \in Files
        PROVE  /\ f \in DOMAIN job[c].got => Known(c, f)' = job[c].got[f]
               /\ f \notin DOMAIN job[c].got /\ f \in job[c].del => Known(c, f)' = NoFile
               /\ f \notin DOMAIN job[c].got /\ f \notin job[c].del =>
                     /\ Known(c, f)' = Known(c, f)
                     /\ row'[c][f] = NoRow <=> row[c][f] = NoRow
                     /\ f \notin job[c].clear => (Dirty(c, f)' <=> Dirty(c, f))
               /\ Named(c, f) <=> f \in DOMAIN job[c].got \/ f \in job[c].del
    <3>1. Range(job[c].get) = {}
      BY <1>2 DEF Range
    <3> QED
      BY <1>1, <1>6, <3>1, RecordedRow DEF Named
  <2>3. ASSUME NEW f \in Files, entry[f].usn <= job[c].last, ~Dirty(c, f)'
        PROVE  Known(c, f)' = entry[f].data
    BY <2>1, <2>2, <2>3 DEF BatchFile, Listed
  <2>4. ASSUME NEW f \in Files
        PROVE  disk[c][f] = Known(c, f)' \/ (entry[f].usn > job[c].last /\ Half(c, f)')
    <3>1. CASE f \in DOMAIN job[c].got
      BY <2>1, <2>2, <3>1 DEF BatchFile
    <3>2. CASE f \notin DOMAIN job[c].got /\ f \in job[c].del
      BY <2>1, <2>2, <3>2 DEF BatchFile
    <3>3. CASE f \notin DOMAIN job[c].got /\ f \notin job[c].del /\ Listed(c, f)
      BY <2>1, <2>2, <3>3 DEF BatchFile
    <3>4. CASE f \notin DOMAIN job[c].got /\ f \notin job[c].del /\ ~Listed(c, f)
      <4>1. entry[f].usn > job[c].last
        BY <1>1, <1>2, <3>4 DEF Listed, Typed
      <4>2. disk[c][f] = Known(c, f) \/ Half(c, f)
        BY <2>1 DEF Sound, KnownAsFound
      <4> QED
        BY <2>2, <3>4, <4>1, <4>2 DEF Half
    <3> QED
      BY <3>1, <3>2, <3>3, <3>4
  <2>5. KnownAsSeen(c)' /\ KnownAsFound(c)'
    BY <1>3, <1>7, <2>3, <2>4 DEF KnownAsSeen, KnownAsFound
  <2> QED
    BY <1>5, <1>9, <2>5 DEF Sound
<1>11. job'[c].last <= lastUsn /\ job'[c].reply <= lastUsn /\ usn'[c] <= lastUsn
  BY <1>1, <1>2, <1>5, <1>7
<1>12. Numbered' /\ ServerMoves
  BY <1>1, <1>3, <1>7, <1>11, NumberedKept
<1> QED
  BY <1>7, <1>8, <1>9, <1>10, <1>12, Compose

LEMMA StopStep ==
    ASSUME Inv, NEW c \in Clients, Stop(c)
    PROVE  Inv'
<1>1. job[c] \in Job /\ usn[c] \in Nat /\ lastUsn \in Nat /\ Typed
  BY StateTypes DEF Inv, Typed
<1>2. /\ job' = [job EXCEPT ![c] = Idle]
      /\ slipped' = IF Unrecorded(c) THEN slipped \cup {c} ELSE slipped
      /\ UNCHANGED <<disk, row, usn, fresh>> /\ UNCHANGED serverVars
      /\ entry' = entry /\ lastUsn' = lastUsn
  BY DEF Stop, serverVars
<1>3. job'[c] = Idle /\ Others(c)
  BY <1>1, <1>2 DEF Others, Typed
<1>4. Typed'
  <2>1. job' \in [Clients -> Job]
    BY <1>1, <1>2, IdleIsJob DEF Typed
  <2> QED
    BY <1>1, <1>2, <2>1 DEF Typed
<1>5. c \notin slipped' => Sound(c)'
  BY <1>2, <1>3, Ended DEF Inv
<1>6. Shape(c)' /\ job'[c].last <= lastUsn /\ job'[c].reply <= lastUsn /\ usn'[c] <= lastUsn
  BY <1>1, <1>2, <1>3, IdleShape DEF Inv, Numbered
<1>7. Numbered' /\ ServerMoves
  BY <1>1, <1>2, <1>3, <1>6, NumberedKept
<1> QED
  BY <1>3, <1>4, <1>5, <1>6, <1>7, Compose

\* An emptied database has seen nothing, which is what its rows say.
LEMMA FinalizeSyncStep ==
    ASSUME Inv, NEW c \in Clients, FinalizeSync(c)
    PROVE  Inv'
<1>1. job[c] \in Job /\ usn[c] \in Nat /\ lastUsn \in Nat /\ Typed
  BY StateTypes DEF Inv, Typed
<1>2. /\ job[c].at = "send" /\ job' = [job EXCEPT ![c] = Idle]
      /\ disk' = disk /\ UNCHANGED serverVars /\ entry' = entry /\ lastUsn' = lastUsn
  BY DEF FinalizeSync, serverVars
<1>3. \/ UNCHANGED <<row, usn, fresh, slipped>>
      \/ /\ row' = [row EXCEPT ![c] = [f \in Files |-> NoRow]]
         /\ usn' = [usn EXCEPT ![c] = 0]
         /\ fresh' = [fresh EXCEPT ![c] = FALSE]
         /\ slipped' = slipped \ {c}
  BY DEF FinalizeSync
<1>4. job'[c] = Idle /\ Others(c)
  BY <1>1, <1>2, <1>3 DEF Others, Typed
<1>5. Typed' /\ usn'[c] <= usn[c]
  <2>1. job' \in [Clients -> Job]
    BY <1>1, <1>2, IdleIsJob DEF Typed
  <2>2. /\ row' \in [Clients -> [Files -> Row \cup {NoRow}]] /\ usn' \in [Clients -> Nat]
        /\ fresh' \in [Clients -> BOOLEAN]
    <3> DEFINE none == [f \in Files |-> NoRow]
    <3>1. none \in [Files -> Row \cup {NoRow}]
      OBVIOUS
    <3>2. \/ UNCHANGED <<row, usn, fresh>>
          \/ /\ row' = [row EXCEPT ![c] = none]
             /\ usn' = [usn EXCEPT ![c] = 0]
             /\ fresh' = [fresh EXCEPT ![c] = FALSE]
      BY <1>3
    <3> HIDE DEF none
    <3>3. row' \in [Clients -> [Files -> Row \cup {NoRow}]]
      BY <1>1, <3>1, <3>2 DEF Typed
    <3>4. usn' \in [Clients -> Nat]
      BY <1>1, <3>2 DEF Typed
    <3>5. fresh \in [Clients -> BOOLEAN] /\ (fresh' = fresh \/ fresh' = [fresh EXCEPT ![c] = FALSE])
      BY <1>1, <3>2 DEF Typed
    <3>6. fresh' \in [Clients -> BOOLEAN]
      <4>1. CASE fresh' = fresh
        BY <3>5, <4>1
      <4>2. CASE fresh' = [fresh EXCEPT ![c] = FALSE]
        BY <3>5, <4>2
      <4> QED
        BY <3>5, <4>1, <4>2
    <3> QED
      BY <3>3, <3>4, <3>6
  <2>3. usn'[c] = usn[c] \/ usn'[c] = 0
    BY <1>1, <1>3 DEF Typed
  <2>4. usn'[c] <= usn[c]
    BY <1>1, <2>3
  <2> QED
    BY <1>1, <1>2, <2>1, <2>2, <2>4 DEF Typed
<1>6. ASSUME c \notin slipped' PROVE Sound(c)'
  <2>1. CASE UNCHANGED <<row, usn, fresh, slipped>>
    <3>1. ~Unrecorded(c)
      BY <1>2 DEF Inv, Shape, InBatch, Unrecorded
    <3> QED
      BY <1>2, <1>4, <1>6, <2>1, <3>1, Ended DEF Inv
  <2>2. CASE /\ row' = [row EXCEPT ![c] = [f \in Files |-> NoRow]]
             /\ usn' = [usn EXCEPT ![c] = 0]
             /\ fresh' = [fresh EXCEPT ![c] = FALSE]
    <3>1. /\ \A f \in Files : row'[c][f] = NoRow
          /\ usn'[c] = 0 /\ fresh'[c] = FALSE /\ job'[c].at = "idle"
      BY <1>1, <1>4, <2>2 DEF Typed, Idle
    <3>2. ~Scanned(c)' /\ ~InBatch(c)' /\ \A f \in Files : Known(c, f)' = NoFile
      BY <3>1 DEF Scanned, InBatch, Known
    <3>3. ASSUME NEW f \in Files, entry[f].usn <= 0 PROVE entry[f].data = NoFile
      <4>1. entry[f].usn = 0
        BY <1>1, <3>3 DEF Typed
      <4> QED
        BY <4>1 DEF Inv, Numbered
    <3>4. KnownAsSeen(c)' /\ KnownAsFound(c)'
      BY <1>2, <3>1, <3>2, <3>3 DEF KnownAsSeen, KnownAsFound
    <3> QED
      BY <3>1, <3>2, <3>4 DEF Sound
  <2> QED
    BY <1>3, <2>1, <2>2
<1>7. Shape(c)' /\ job'[c].last <= lastUsn /\ job'[c].reply <= lastUsn /\ usn'[c] <= lastUsn
  <2>1. usn[c] <= lastUsn /\ usn'[c] \in Nat
    BY <1>5 DEF Inv, Numbered, Typed
  <2> QED
    BY <1>1, <1>4, <1>5, <2>1, IdleShape
<1>8. Numbered' /\ ServerMoves
  BY <1>1, <1>2, <1>4, <1>7, NumberedKept
<1> QED
  BY <1>4, <1>5, <1>6, <1>7, <1>8, Compose

\* The server numbers the changes one after the other, beyond any number seen.
LEMMA UploadStep ==
    ASSUME Inv, NEW c \in Clients, NEW files \in SUBSET Files, Upload(c, files)
    PROVE  Inv'
<1> DEFINE content(f) == IF Known(c, f) = NoFile THEN NoFile ELSE disk[c][f]
           changed == {f \in files : entry[f].data # content(f)}
           order == SetToSeq(changed)
           place(f) == CHOOSE i \in DOMAIN order : order[i] = f
           N == Len(order)
           crossed == \E f \in files : content(f) # Known(c, f)
<1>1. job[c] \in Job /\ usn[c] \in Nat /\ lastUsn \in Nat /\ Typed
  BY StateTypes DEF Inv, Typed
<1>2. job[c].at = "send"
  BY DEF Upload
<1>3. /\ entry' = [f \in Files |-> IF f \in changed
                                   THEN [data |-> content(f), usn |-> lastUsn + place(f)]
                                   ELSE entry[f]]
      /\ lastUsn' = lastUsn + N
      /\ job' = [job EXCEPT ![c].at = "mark", ![c].acted = TRUE, ![c].sent = files,
                            ![c].changed = N, ![c].reply = lastUsn', ![c].crossed = crossed]
      /\ UNCHANGED <<disk, row, usn, fresh, slipped>>
  BY DEF Upload
<1>4. N \in Nat /\ \A f \in changed : place(f) \in 1..N /\ order[place(f)] = f
  <2>1. IsFiniteSet(changed)
    <3>1. changed \subseteq Files
      OBVIOUS
    <3> QED
      BY <3>1, MediaAssumption, FS_Subset
  <2> HIDE DEF changed
  <2>2. /\ order \in Seq(changed) /\ DOMAIN order = 1..N /\ N \in Nat
        /\ \A f \in changed : \E i \in DOMAIN order : order[i] = f
    BY <2>1, Listing, FS_CardinalityType
  <2> HIDE DEF order
  <2> QED
    BY <2>2
<1>5. \A f \in files : content(f) \in Data
  BY <1>1, StateTypes DEF Data
<1>6. /\ \A f \in changed : f \in files /\ entry[f].data # content(f)
      /\ \A f \in files : f \notin changed => entry[f].data = content(f)
      /\ \A f \in files : ~crossed => content(f) = Known(c, f)
  OBVIOUS
<1>7. files \subseteq Files /\ crossed \in BOOLEAN
  OBVIOUS
<1> HIDE DEF order, place, N, content, changed, crossed
<1>8. \A f \in Files :
        /\ f \in changed => entry'[f].data = content(f) /\ entry'[f].usn = lastUsn + place(f)
        /\ f \notin changed => entry'[f] = entry[f]
  BY <1>3
<1>9. /\ job'[c] = [job[c] EXCEPT !.at = "mark", !.acted = TRUE, !.sent = files, !.changed = N,
                                 !.reply = lastUsn', !.crossed = crossed]
      /\ \A d \in Clients : d # c => job'[d] = job[d]
      /\ DOMAIN job' = Clients
  BY <1>1, <1>3 DEF Typed
<1>10. /\ job'[c].at = "mark" /\ job'[c].last = job[c].last /\ job'[c].got = job[c].got
       /\ job'[c].sent = files /\ job'[c].changed = N /\ job'[c].reply = lastUsn'
       /\ job'[c].crossed = crossed /\ job'[c].outside = job[c].outside
  BY <1>1, <1>9 DEF Job
<1>11. lastUsn' \in Nat /\ lastUsn' >= lastUsn /\ job'[c] \in Job
  <2>1. lastUsn' \in Nat /\ lastUsn' >= lastUsn
    BY <1>1, <1>3, <1>4
  <2>2. job[c] \in Job /\ N \in Nat /\ files \in SUBSET Files /\ crossed \in BOOLEAN
    BY <1>1, <1>4, <1>7
  <2>3. job'[c] \in Job
    BY <1>9, <2>1, <2>2 DEF Job
  <2> QED
    BY <2>1, <2>3
<1>12. Others(c)
  BY <1>3, <1>9 DEF Others
<1>13. ASSUME NEW f \in Files
       PROVE  /\ f \in changed => entry'[f].usn \in Nat /\ entry'[f].usn > lastUsn /\ entry'[f].usn <= lastUsn'
              /\ entry'[f] \in [data : Data, usn : Nat]
  <2>1. CASE f \in changed
    <3>1. place(f) \in Nat /\ place(f) >= 1 /\ place(f) <= N
      BY <1>4, <2>1
    <3>2. lastUsn + place(f) \in Nat /\ lastUsn + place(f) > lastUsn /\ lastUsn + place(f) <= lastUsn'
      BY <1>1, <1>3, <1>4, <3>1
    <3>3. entry'[f] = [data |-> content(f), usn |-> lastUsn + place(f)] /\ content(f) \in Data
      BY <1>3, <1>5, <1>6, <2>1
    <3> QED
      BY <3>2, <3>3
  <2>2. CASE f \notin changed
    BY <1>1, <1>8, <2>2 DEF Typed
  <2> QED
    BY <2>1, <2>2
<1>14. Typed'
  <2>1. entry' \in [Files -> [data : Data, usn : Nat]]
    BY <1>3, <1>13
  <2>2. job' \in [Clients -> Job]
    BY <1>1, <1>3, <1>9, <1>11 DEF Typed
  <2> QED
    BY <1>1, <1>3, <1>11, <2>1, <2>2 DEF Typed
<1>15. ServerMoves
  BY <1>8, <1>11, <1>13 DEF ServerMoves
<1>16. /\ \A f \in Files : entry[f].usn \in Nat /\ entry[f].usn <= lastUsn
       /\ \A d \in Clients : /\ usn[d] \in Nat /\ usn[d] <= lastUsn
                             /\ job[d].last \in Nat /\ job[d].last <= lastUsn
                             /\ job[d].reply \in Nat /\ job[d].reply <= lastUsn
  BY StateTypes DEF Inv, Numbered, Typed, Job
<1>17. Numbered'
  <2>1. ASSUME NEW f \in Files
        PROVE  entry'[f].usn <= lastUsn' /\ (entry'[f].usn = 0 => entry'[f].data = NoFile)
    <3>1. CASE f \in changed
      BY <1>1, <1>13, <3>1
    <3>2. CASE f \notin changed
      BY <1>1, <1>8, <1>11, <1>16, <3>2 DEF Inv, Numbered
    <3> QED
      BY <3>1, <3>2
  <2>2. ASSUME NEW f \in Files, NEW g \in Files, entry'[f].usn = entry'[g].usn, entry'[f].usn # 0
        PROVE  f = g
    <3>1. CASE f \in changed /\ g \in changed
      <4>1. lastUsn + place(f) = lastUsn + place(g) /\ place(f) \in Nat /\ place(g) \in Nat
        BY <1>4, <1>8, <2>2, <3>1
      <4>2. place(f) = place(g)
        BY <1>1, <4>1
      <4>3. order[place(f)] = f /\ order[place(g)] = g
        BY <1>4, <3>1
      <4> QED
        BY <4>2, <4>3
    <3>2. CASE f \notin changed /\ g \notin changed
      BY <1>8, <2>2, <3>2 DEF Inv, Numbered
    <3>3. CASE f \in changed /\ g \notin changed
      BY <1>1, <1>8, <1>13, <1>16, <2>2, <3>3
    <3>4. CASE f \notin changed /\ g \in changed
      BY <1>1, <1>8, <1>13, <1>16, <2>2, <3>4
    <3> QED
      BY <3>1, <3>2, <3>3, <3>4
  <2>3. ASSUME NEW d \in Clients
        PROVE  usn'[d] <= lastUsn' /\ job'[d].last <= lastUsn' /\ job'[d].reply <= lastUsn'
    <3>1. usn'[d] = usn[d]
      BY <1>3
    <3>2. usn[d] <= lastUsn' /\ job[d].last <= lastUsn' /\ job[d].reply <= lastUsn'
      BY <1>1, <1>11, <1>16
    <3>3. CASE d = c
      BY <1>10, <1>11, <3>1, <3>2, <3>3
    <3>4. CASE d # c
      BY <1>9, <3>1, <3>2, <3>4
    <3> QED
      BY <3>3, <3>4
  <2> QED
    BY <2>1, <2>2, <2>3 DEF Numbered
<1>18. Shape(c)' /\ ~InBatch(c)'
  <2>1. DOMAIN job[c].got = {} /\ usn[c] <= lastUsn'
    BY <1>1, <1>2, <1>11, <1>16 DEF Inv, Shape, InBatch
  <2> QED
    BY <1>3, <1>10, <2>1 DEF Shape, InBatch
<1>19. /\ Scanned(c)' <=> Scanned(c)
       /\ \A f \in Files : /\ Known(c, f)' = Known(c, f) /\ (Dirty(c, f)' <=> Dirty(c, f))
                           /\ Half(c, f)' <=> Half(c, f)
  BY <1>2, <1>3, <1>10 DEF Scanned, Known, Dirty, Half
<1>20. ASSUME c \notin slipped' PROVE Sound(c)'
  <2>1. Sound(c)
    BY <1>3, <1>20 DEF Inv
  <2>2. KnownAsSeen(c)'
    <3>1. ASSUME NEW f \in Files, entry'[f].usn <= usn[c], ~Dirty(c, f) PROVE Known(c, f) = entry'[f].data
      <4>1. f \notin changed
        BY <1>1, <1>13, <1>16, <3>1
      <4> QED
        BY <1>8, <2>1, <3>1, <4>1 DEF Sound, KnownAsSeen
    <3> QED
      BY <1>3, <1>19, <3>1 DEF KnownAsSeen
  <2>3. KnownAsFound(c)'
    <3>1. ASSUME NEW f \in Files, Scanned(c), disk[c][f] # Known(c, f)
          PROVE  entry'[f].usn > usn[c] /\ Half(c, f)
      <4>1. entry[f].usn > usn[c] /\ Half(c, f)
        BY <2>1, <3>1 DEF Sound, KnownAsFound
      <4>2. f \in changed => entry'[f].usn > usn[c]
        BY <1>1, <1>13, <1>16
      <4> QED
        BY <1>8, <4>1, <4>2
    <3> QED
      BY <1>3, <1>19, <3>1 DEF KnownAsFound
  <2>4. ASSUME NEW f \in Files PROVE SentFile(c, f)'
    <3>1. f \in files /\ ~crossed => Known(c, f) = entry'[f].data
      BY <1>6, <1>8
    <3>2. f \notin files => entry'[f].usn <= lastUsn' - N
      <4>1. f \notin files => entry'[f] = entry[f]
        BY <1>6, <1>8
      <4>2. lastUsn' - N = lastUsn
        BY <1>1, <1>3, <1>4
      <4> QED
        BY <1>16, <4>1, <4>2
    <3>3. Scanned(c) /\ usn[c] = lastUsn' - N => disk[c][f] = Known(c, f)
      <4>1. lastUsn' - N = lastUsn
        BY <1>1, <1>3, <1>4
      <4>2. ~(entry[f].usn > lastUsn)
        BY <1>1, <1>16
      <4> QED
        BY <2>1, <4>1, <4>2 DEF Sound, KnownAsFound
    <3> QED
      BY <1>3, <1>10, <1>19, <3>1, <3>2, <3>3 DEF SentFile
  <2> QED
    BY <1>18, <2>2, <2>3, <2>4 DEF Sound
<1> QED
  BY <1>12, <1>14, <1>15, <1>17, <1>18, <1>20, Compose

\* The device follows the server's number only past changes of its own.
LEMMA MarkSentStep ==
    ASSUME Inv, NEW c \in Clients, MarkSent(c)
    PROVE  Inv'
<1> DEFINE Clean(f) == IF f \in job[c].sent /\ row[c][f] # NoRow
                       THEN [row[c][f] EXCEPT !.dirty = FALSE] ELSE row[c][f]
           u == Followed(c)
<1>1. job[c] \in Job /\ usn[c] \in Nat /\ lastUsn \in Nat /\ Typed
  BY StateTypes DEF Inv, Typed
<1>2. /\ job[c].at = "mark" /\ ~InBatch(c) /\ DOMAIN job[c].got = {}
      /\ usn[c] <= job[c].reply /\ job[c].reply <= lastUsn
      /\ job[c].reply \in Nat /\ job[c].changed \in Nat
  BY <1>1 DEF MarkSent, InBatch, Inv, Shape, Numbered, Job
<1>3. /\ row' = [row EXCEPT ![c] = [f \in Files |-> Clean(f)]]
      /\ usn' = [usn EXCEPT ![c] = u]
      /\ slipped' = IF \/ job[c].crossed
                       \/ u # usn[c] /\ job[c].changed # Cardinality(job[c].sent)
                    THEN slipped \cup {c} ELSE slipped
      /\ job' = [job EXCEPT ![c] = [Idle EXCEPT !.at = "send", !.acted = TRUE,
                                               !.outside = job[c].outside]]
      /\ UNCHANGED <<disk, fresh>> /\ UNCHANGED serverVars /\ entry' = entry /\ lastUsn' = lastUsn
  BY <1>1 DEF MarkSent, serverVars, Typed
<1>4. /\ job'[c] = [Idle EXCEPT !.at = "send", !.acted = TRUE, !.outside = job[c].outside]
      /\ job'[c] \in Job
  <2>1. job'[c] = [Idle EXCEPT !.at = "send", !.acted = TRUE, !.outside = job[c].outside]
    BY <1>1, <1>3 DEF Typed
  <2>2. job[c].outside \in BOOLEAN
    BY <1>1 DEF Job
  <2> QED
    BY <2>1, <2>2, IdleIsJob DEF Job
<1>5. /\ job'[c].at = "send" /\ job'[c].last = 0 /\ DOMAIN job'[c].got = {}
      /\ job'[c].reply = 0 /\ job'[c].outside = job[c].outside
  BY <1>4, NothingFetched DEF Idle
<1>6. /\ u \in Nat /\ u <= job[c].reply
      /\ u = usn[c] \/ (u = job[c].reply /\ usn[c] + Cardinality(job[c].sent) = job[c].reply)
  BY <1>1, <1>2 DEF Followed
<1>7. ASSUME NEW f \in Files
      PROVE  /\ Clean(f) \in Row \cup {NoRow}
             /\ Known(c, f)' = Known(c, f) /\ (row'[c][f] = NoRow <=> row[c][f] = NoRow)
             /\ f \notin job[c].sent => (Dirty(c, f)' <=> Dirty(c, f))
  <2>1. row[c][f] \in Row \cup {NoRow} /\ row'[c][f] = Clean(f) /\ NoRow \notin Row
    BY <1>1, <1>3, NullAssumption DEF Typed
  <2>2. CASE f \in job[c].sent /\ row[c][f] # NoRow
    <3>1. row[c][f].data \in Data /\ Clean(f) = [data |-> row[c][f].data, dirty |-> FALSE]
      BY <2>1, <2>2 DEF Row
    <3>2. Clean(f) \in Row /\ Known(c, f)' = row[c][f].data /\ row'[c][f] # NoRow
      BY <2>1, <3>1, RowType, RowSet
    <3> QED
      BY <2>2, <3>2 DEF Known
  <2>3. CASE ~(f \in job[c].sent /\ row[c][f] # NoRow)
    <3>1. Clean(f) = row[c][f]
      BY <2>3
    <3> QED
      BY <2>1, <3>1, RowKept
  <2> QED
    BY <2>2, <2>3
<1> HIDE DEF Clean, u
<1>8. Others(c) /\ usn'[c] = u
  BY <1>1, <1>3 DEF Others, Typed
<1>9. Typed'
  <2>1. [f \in Files |-> Clean(f)] \in [Files -> Row \cup {NoRow}]
    BY <1>7
  <2>2. row' \in [Clients -> [Files -> Row \cup {NoRow}]]
    BY <1>1, <1>3, <2>1 DEF Typed
  <2>3. job' \in [Clients -> Job]
    BY <1>1, <1>3, <1>4 DEF Typed
  <2>4. usn' \in [Clients -> Nat]
    BY <1>1, <1>3, <1>6 DEF Typed
  <2> QED
    BY <1>1, <1>3, <2>2, <2>3, <2>4 DEF Typed
<1>10. ~InBatch(c)' /\ Shape(c)'
  BY <1>5 DEF InBatch, Shape
<1>11. ASSUME c \notin slipped' PROVE Sound(c)'
  <2>1. /\ Sound(c) /\ ~job[c].crossed /\ (Scanned(c)' <=> Scanned(c))
        /\ u # usn[c] => job[c].changed = Cardinality(job[c].sent)
        /\ \A f \in Files : SentFile(c, f)
    BY <1>2, <1>3, <1>5, <1>11 DEF Inv, Sound, Scanned
  <2>2. \A f \in Files : Half(c, f)' <=> Half(c, f)
    BY <1>2, <1>5, <1>7 DEF Half
  <2>3. u # usn[c] => u = job[c].reply /\ usn[c] = job[c].reply - job[c].changed
    BY <1>1, <1>2, <1>6, <2>1
  <2>4. ASSUME NEW f \in Files, entry[f].usn <= u
        PROVE  /\ entry[f].usn <= job[c].reply
               /\ f \notin job[c].sent => entry[f].usn <= usn[c]
    <3>1. entry[f].usn \in Nat
      BY <1>1, StateTypes
    <3>2. entry[f].usn <= job[c].reply
      BY <1>2, <1>6, <2>4, <3>1
    <3> QED
      BY <2>1, <2>3, <2>4, <3>2 DEF SentFile
  <2>5. ASSUME NEW f \in Files, entry[f].usn <= u, ~Dirty(c, f)' PROVE Known(c, f) = entry[f].data
    <3>1. CASE f \in job[c].sent
      BY <2>1, <2>4, <2>5, <3>1 DEF SentFile
    <3>2. CASE f \notin job[c].sent
      BY <1>7, <2>1, <2>4, <2>5, <3>2 DEF Sound, KnownAsSeen
    <3> QED
      BY <3>1, <3>2
  <2>6. ASSUME NEW f \in Files, Scanned(c)
        PROVE  disk[c][f] = Known(c, f) \/ (entry[f].usn > u /\ Half(c, f))
    <3>1. disk[c][f] = Known(c, f) \/ (entry[f].usn > usn[c] /\ Half(c, f))
      BY <2>1, <2>6 DEF Sound, KnownAsFound
    <3>2. CASE u = usn[c]
      BY <3>1, <3>2
    <3>3. CASE u # usn[c] /\ entry[f].usn <= u
      <4>1. CASE f \in job[c].sent
        BY <2>1, <2>3, <2>4, <2>6, <3>3, <4>1 DEF SentFile
      <4>2. CASE f \notin job[c].sent
        <5>1. entry[f].usn <= usn[c] /\ entry[f].usn \in Nat
          BY <1>1, <2>4, <3>3, <4>2, StateTypes
        <5> QED
          BY <1>1, <3>1, <5>1
      <4> QED
        BY <4>1, <4>2
    <3>4. CASE entry[f].usn > u
      BY <3>1, <3>4
    <3>5. entry[f].usn <= u \/ entry[f].usn > u
      BY <1>1, <1>6, StateTypes
    <3> QED
      BY <3>2, <3>3, <3>4, <3>5
  <2>7. KnownAsSeen(c)' /\ KnownAsFound(c)'
    BY <1>3, <1>7, <1>8, <2>1, <2>2, <2>5, <2>6 DEF KnownAsSeen, KnownAsFound
  <2> QED
    BY <1>5, <1>10, <2>7 DEF Sound
<1>12. job'[c].last <= lastUsn /\ job'[c].reply <= lastUsn /\ usn'[c] <= lastUsn
  BY <1>1, <1>2, <1>5, <1>6, <1>8
<1>13. Numbered' /\ ServerMoves
  BY <1>1, <1>3, <1>8, <1>12, NumberedKept
<1> QED
  BY <1>8, <1>9, <1>10, <1>11, <1>13, Compose

-----------------------------------------------------------------------------
(* The theorems                                                            *)

LEMMA InitInv == Init => Inv
<1> SUFFICES ASSUME Init PROVE Inv
  OBVIOUS
<1> DEFINE d == CHOOSE content \in Contents : TRUE
<1>1. d \in Contents /\ d \in Data /\ NoFile \in Data /\ d # NoFile
  BY MediaAssumption DEF Data
<1>2. PICK common \in SUBSET Files :
        LET order == SetToSeq(common)
            number(f) == CHOOSE n \in DOMAIN order : order[n] = f
        IN /\ disk = [c \in Clients |-> [f \in Files |-> IF f \in common THEN d ELSE NoFile]]
           /\ row = [c \in Clients |->
                        [f \in Files |-> IF f \in common THEN [data |-> d, dirty |-> FALSE] ELSE NoRow]]
           /\ entry = [f \in Files |-> IF f \in common THEN [data |-> d, usn |-> number(f)]
                                       ELSE [data |-> NoFile, usn |-> 0]]
           /\ usn = [c \in Clients |-> Len(order)] /\ lastUsn = Len(order)
           /\ fresh = [c \in Clients |-> TRUE]
           /\ job = [c \in Clients |-> Idle]
  BY DEF Init
<1> DEFINE order == SetToSeq(common)
           number(f) == CHOOSE n \in DOMAIN order : order[n] = f
           N == Len(order)
<1>3. N \in Nat /\ \A f \in common : number(f) \in 1..N /\ order[number(f)] = f
  <2>1. IsFiniteSet(common)
    BY MediaAssumption, FS_Subset
  <2>2. /\ DOMAIN order = 1..N /\ N \in Nat
        /\ \A f \in common : \E i \in DOMAIN order : order[i] = f
    BY <2>1, Listing, FS_CardinalityType
  <2> HIDE DEF order
  <2> QED
    BY <2>2
<1> HIDE DEF order, number, N, d
<1>4. /\ disk = [c \in Clients |-> [f \in Files |-> IF f \in common THEN d ELSE NoFile]]
      /\ row = [c \in Clients |->
                   [f \in Files |-> IF f \in common THEN [data |-> d, dirty |-> FALSE] ELSE NoRow]]
      /\ entry = [f \in Files |-> IF f \in common THEN [data |-> d, usn |-> number(f)]
                                  ELSE [data |-> NoFile, usn |-> 0]]
      /\ usn = [c \in Clients |-> N] /\ lastUsn = N
      /\ fresh = [c \in Clients |-> TRUE]
      /\ job = [c \in Clients |-> Idle]
  BY <1>2 DEF order, number, N
<1>5. ASSUME NEW f \in Files
      PROVE  /\ f \in common => /\ entry[f].data = d /\ entry[f].usn = number(f)
                                /\ number(f) \in Nat /\ number(f) # 0 /\ number(f) <= N
             /\ f \notin common => entry[f].data = NoFile /\ entry[f].usn = 0
             /\ entry[f] \in [data : Data, usn : Nat]
  <2>1. CASE f \in common
    <3>1. number(f) \in Nat /\ number(f) # 0 /\ number(f) <= N
      BY <1>3, <2>1
    <3>2. entry[f] = [data |-> d, usn |-> number(f)]
      BY <1>4, <2>1
    <3> QED
      BY <1>1, <2>1, <3>1, <3>2
  <2>2. CASE f \notin common
    <3>1. entry[f] = [data |-> NoFile, usn |-> 0]
      BY <1>4, <2>2
    <3> QED
      BY <1>1, <2>2, <3>1
  <2> QED
    BY <2>1, <2>2
<1>6. Typed
  <2>1. disk \in [Clients -> [Files -> Data]]
    BY <1>1, <1>4
  <2>2. row \in [Clients -> [Files -> Row \cup {NoRow}]]
    <3>1. [data |-> d, dirty |-> FALSE] \in Row
      BY <1>1, RowType
    <3> QED
      BY <1>4, <3>1
  <2>3. entry \in [Files -> [data : Data, usn : Nat]]
    BY <1>4, <1>5
  <2>4. job \in [Clients -> Job]
    BY <1>4, IdleIsJob
  <2> QED
    BY <1>3, <1>4, <2>1, <2>2, <2>3, <2>4 DEF Typed
<1>7. \A c \in Clients : /\ usn[c] = N /\ job[c] = Idle /\ job[c].at = "idle" /\ job[c].last = 0
                         /\ job[c].reply = 0 /\ DOMAIN job[c].got = {}
  BY <1>4, NothingFetched DEF Idle
<1>8. Numbered
  <2>1. ASSUME NEW f \in Files
        PROVE  entry[f].usn <= lastUsn /\ (entry[f].usn = 0 => entry[f].data = NoFile)
    BY <1>3, <1>4, <1>5
  <2>2. ASSUME NEW f \in Files, NEW g \in Files, entry[f].usn = entry[g].usn, entry[f].usn # 0
        PROVE  f = g
    <3>1. f \in common /\ g \in common
      BY <1>5, <2>2
    <3>2. number(f) = number(g)
      BY <1>5, <2>2, <3>1
    <3>3. order[number(f)] = f /\ order[number(g)] = g
      BY <1>3, <3>1
    <3> QED
      BY <3>2, <3>3
  <2>3. \A c \in Clients : usn[c] <= lastUsn /\ job[c].last <= lastUsn /\ job[c].reply <= lastUsn
    BY <1>3, <1>4, <1>7
  <2> QED
    BY <2>1, <2>2, <2>3 DEF Numbered
<1>9. ASSUME NEW c \in Clients PROVE Shape(c) /\ Sound(c)
  <2>1. ASSUME NEW f \in Files
        PROVE  disk[c][f] = entry[f].data /\ Known(c, f) = entry[f].data
    <3>1. CASE f \in common
      <4>1. disk[c][f] = d /\ row[c][f] = [data |-> d, dirty |-> FALSE]
        BY <1>4, <3>1
      <4>3. entry[f].data = d
        BY <1>5, <3>1
      <4>2. row[c][f] # NoRow /\ row[c][f].data = d
        <5>1. [data |-> d, dirty |-> FALSE] # NoRow
          BY <1>1, RowType
        <5>2. row[c][f].data = d
          BY <4>1
        <5> QED
          BY <4>1, <5>1, <5>2
      <4> QED
        BY <4>1, <4>2, <4>3 DEF Known
    <3>2. CASE f \notin common
      <4>1. disk[c][f] = NoFile /\ row[c][f] = NoRow /\ entry[f].data = NoFile
        BY <1>4, <1>5, <3>2
      <4> QED
        BY <4>1 DEF Known
    <3> QED
      BY <3>1, <3>2
  <2>2. KnownAsSeen(c) /\ KnownAsFound(c)
    BY <2>1 DEF KnownAsSeen, KnownAsFound
  <2> QED
    BY <1>7, <2>2 DEF Shape, InBatch, Sound
<1> QED
  BY <1>6, <1>8, <1>9 DEF Inv

\* A step that changes nothing
LEMMA StutterInv ==
    ASSUME Inv, UNCHANGED vars
    PROVE  Inv'
<1>1. UNCHANGED <<disk, row, usn, fresh, job, entry, lastUsn, slipped>>
  BY DEF vars, deviceVars, serverVars
<1>2. Typed' /\ Numbered'
  BY <1>1 DEF Inv, Typed, Numbered
<1>3. ASSUME NEW c \in Clients PROVE Shape(c)' /\ (c \notin slipped' => Sound(c)')
  <2>1. /\ InBatch(c)' <=> InBatch(c)
        /\ Scanned(c)' <=> Scanned(c)
        /\ \A f \in Files : /\ Known(c, f)' = Known(c, f) /\ (Dirty(c, f)' <=> Dirty(c, f))
                            /\ Half(c, f)' <=> Half(c, f)
                            /\ Listed(c, f)' <=> Listed(c, f)
                            /\ Named(c, f)' <=> Named(c, f)
    BY <1>1 DEF InBatch, Scanned, Known, Dirty, Half, Listed, Named
  <2>2. Shape(c)'
    BY <1>1, <2>1 DEF Inv, Shape
  <2>3. \A f \in Files : /\ BatchFile(c, f) => BatchFile(c, f)'
                         /\ SentFile(c, f) => SentFile(c, f)'
    BY <1>1, <2>1 DEF BatchFile, SentFile
  <2>4. /\ KnownAsSeen(c) => KnownAsSeen(c)'
        /\ KnownAsFound(c) => KnownAsFound(c)'
    BY <1>1, <2>1 DEF KnownAsSeen, KnownAsFound
  <2>5. c \notin slipped' => Sound(c)'
    BY <1>1, <2>1, <2>3, <2>4 DEF Inv, Sound
  <2> QED
    BY <2>2, <2>5
<1> QED
  BY <1>2, <1>3 DEF Inv

LEMMA NextInv == Inv /\ [Next]_vars => Inv'
<1> SUFFICES ASSUME Inv, [Next]_vars PROVE Inv'
  OBVIOUS
<1>1. CASE UNCHANGED vars
  BY <1>1, StutterInv
<1>2. ASSUME NEW c \in Clients, User(c) PROVE Inv'
  BY <1>2, AddFileStep, TrashFileStep, ChangeOutsideStep DEF User
<1>3. ASSUME NEW c \in Clients, SyncStep(c) PROVE Inv'
  <2>1. \A n \in 1..Cardinality(Files) : n \in Nat
    OBVIOUS
  <2> QED
    BY <1>3, <2>1, StartStep, CompareStep, FetchStep, DownloadStep, RecordStep, UploadStep,
       MarkSentStep, FinalizeSyncStep DEF SyncStep
<1>4. ASSUME NEW c \in Clients, Stop(c) PROVE Inv'
  BY <1>4, StopStep
<1> QED
  BY <1>1, <1>2, <1>3, <1>4 DEF Next

LEMMA InvAlways == Spec => []Inv
BY InitInv, NextInv, PTL DEF Spec

LEMMA InvNothingSkipped == Inv => NothingSkipped
BY DEF Inv, Sound, KnownAsSeen, NothingSkipped

LEMMA InvFolderRegistered == Inv => FolderRegistered
<1> SUFFICES ASSUME Inv, NEW c \in Clients, c \notin slipped, fresh[c],
                    NEW f \in Files, entry[f].usn <= usn[c]
             PROVE  disk[c][f] = Known(c, f)
  BY DEF FolderRegistered
<1>1. KnownAsFound(c) /\ Scanned(c)
  BY DEF Inv, Sound, Scanned
<1>2. ~(entry[f].usn > usn[c])
  BY StateTypes DEF Inv
<1> QED
  BY <1>1, <1>2 DEF KnownAsFound

\* A number that a device has seen stands for changes that it has: wherever a
\* sync may stop, whatever other devices send and the user does meanwhile, a
\* file that is not pending and whose last change on the server has a number up
\* to the device's own is known on the device as the server has it.
THEOREM NothingSkippedAlways == Spec => []NothingSkipped
BY InvAlways, InvNothingSkipped, PTL

\* The folder's time can be relied on: while it is the one in the database, the
\* rows of the files the device has seen say what is in the folder, whichever
\* of the steps that write files, rows and the time were the last to happen.
THEOREM FolderRegisteredAlways == Spec => []FolderRegistered
BY InvAlways, InvFolderRegistered, PTL

=============================================================================
