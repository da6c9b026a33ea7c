------------------------- MODULE CommandLine_proofs -------------------------
(***************************************************************************)
(* Proofs about CommandLine, for lines of any length, any files and either *)
(* order of evaluation.                                                    *)
(*                                                                         *)
(* The parser sees words and the properties speak of items.  The invariant *)
(* says which item the parser has come to: k items are read, and j words   *)
(* of the next one, and the configuration is what these say.  After that,  *)
(* the interfaces registered are those tried so far but for the failed.    *)
(***************************************************************************)
EXTENDS CommandLine, FiniteSetTheorems, SequenceTheorems, WellFoundedInduction,
        TLAPS

-----------------------------------------------------------------------------
(* Sequences joined one after the other. *)

\* The sequences joined one after the other, as FlattenSeq does it.
Joined(seqs) ==
  LET flatten[i \in 1 .. Len(seqs)] ==
        IF i = 1 THEN seqs[i] ELSE flatten[i - 1] \o seqs[i]
  IN  flatten

\* The first k of them.
FirstJoined(seqs, k) == IF k = 0 THEN << >> ELSE Joined(seqs)[k]

\* Induction over the naturals, for a set: a least number outside it would have
\* a predecessor in it.
LEMMA Induction ==
  ASSUME NEW S, 0 \in S, \A n \in Nat : n \in S => n + 1 \in S
  PROVE  Nat \subseteq S
<1> SUFFICES ASSUME Nat \ S # {} PROVE FALSE
  OBVIOUS
<1>1. PICK x \in Nat \ S : \A y \in Nat \ S : ~(<<y, x>> \in OpToRel(<, Nat))
  BY NatLessThanWellFounded, WFMin
<1>2. PICK y \in Nat : y = x - 1
  <2>1. x \in Nat /\ x # 0
    OBVIOUS
  <2>2. x - 1 \in Nat
    BY <2>1
  <2> QED BY <2>2
<1>3. y < x /\ y + 1 = x
  BY <1>2
<1>4. y \in S
  BY <1>1, <1>3 DEF OpToRel
<1> QED BY <1>1, <1>3, <1>4

\* f joins the first n of the sequences.
Joins(f, seqs, n) ==
  f = [i \in 1 .. n |-> IF i = 1 THEN seqs[i] ELSE f[i - 1] \o seqs[i]]

\* There is such a function.
LEMMA JoiningExists ==
  ASSUME NEW seqs
  PROVE  \A n \in Nat : \E f : Joins(f, seqs, n)
<1> DEFINE Ns == {n \in Nat : \E f : Joins(f, seqs, n)}
<1>1. 0 \in Ns
  <2>1. Joins([i \in 1 .. 0 |-> IF i = 1 THEN seqs[i] ELSE << >>], seqs, 0)
    BY DEF Joins
  <2> QED BY <2>1
<1>2. ASSUME NEW n \in Nat, n \in Ns PROVE n + 1 \in Ns
  <2>1. PICK f : Joins(f, seqs, n)
    BY <1>2
  <2> DEFINE g == [i \in 1 .. n + 1 |->
                     IF i = 1 THEN seqs[i] ELSE f[i - 1] \o seqs[i]]
  <2>2. ASSUME NEW i \in 1 .. n PROVE g[i] = f[i]
    <3>1. f[i] = IF i = 1 THEN seqs[i] ELSE f[i - 1] \o seqs[i]
      BY <2>1, Zenon DEF Joins
    <3>2. i \in 1 .. n + 1
      OBVIOUS
    <3> QED BY <3>1, <3>2, Zenon
  <2>3. ASSUME NEW i \in 1 .. n + 1, i # 1 PROVE g[i - 1] = f[i - 1]
    <3>1. i - 1 \in 1 .. n
      BY <2>3
    <3> QED BY <2>2, <3>1, Zenon
  <2>4. Joins(g, seqs, n + 1)
    <3>1. g = [i \in 1 .. n + 1 |-> IF i = 1 THEN seqs[i] ELSE g[i - 1] \o seqs[i]]
      BY <2>3, Zenon
    <3> QED BY <3>1, Zenon DEF Joins
  <2> QED BY <2>4
<1>3. Nat \subseteq Ns
  <2> HIDE DEF Ns
  <2> QED BY <1>1, <1>2, Induction
<1> QED BY <1>3

\* What it joins.
LEMMA JoinedStep ==
  ASSUME NEW seqs, Len(seqs) \in Nat, NEW k \in 0 .. Len(seqs) - 1
  PROVE  FirstJoined(seqs, k + 1) =
           IF k = 0 THEN seqs[1] ELSE FirstJoined(seqs, k) \o seqs[k + 1]
<1>1. Joins(Joined(seqs), seqs, Len(seqs))
  <2>1. \E f : Joins(f, seqs, Len(seqs))
    BY JoiningExists
  <2>2. Joins(CHOOSE f : Joins(f, seqs, Len(seqs)), seqs, Len(seqs))
    BY <2>1, Zenon
  <2> QED BY <2>2, Zenon DEF Joined, Joins
<1>2. Joined(seqs)[k + 1] = IF k + 1 = 1 THEN seqs[k + 1]
                            ELSE Joined(seqs)[k + 1 - 1] \o seqs[k + 1]
  <2>1. k + 1 \in 1 .. Len(seqs)
    OBVIOUS
  <2> DEFINE f == Joined(seqs)
             i == k + 1
  <2>2. f[i] = IF i = 1 THEN seqs[i] ELSE f[i - 1] \o seqs[i]
    <3> HIDE DEF f, i
    <3>1. f = [m \in 1 .. Len(seqs) |->
                 IF m = 1 THEN seqs[m] ELSE f[m - 1] \o seqs[m]]
      BY <1>1, Zenon DEF Joins, f
    <3>2. i \in 1 .. Len(seqs)
      BY <2>1, Zenon DEF i
    <3> QED BY <3>1, <3>2, Zenon
  <2> QED BY <2>2 DEF f, i
<1>3. k + 1 # 0 /\ k + 1 - 1 = k /\ (k + 1 = 1 <=> k = 0)
  OBVIOUS
<1> DEFINE i == k + 1
<1>4. i # 0 /\ i - 1 = k /\ (i = 1 <=> k = 0)
  BY <1>3
<1>5. Joined(seqs)[i] = IF k = 0 THEN seqs[i] ELSE Joined(seqs)[k] \o seqs[i]
  BY <1>2, <1>3, Zenon DEF i
<1>6. FirstJoined(seqs, i) = Joined(seqs)[i]
  BY <1>4, Zenon DEF FirstJoined
<1>7. CASE k = 0
  BY <1>5, <1>6, <1>7, <1>4, Zenon
<1>8. CASE k # 0
  <2>1. FirstJoined(seqs, k) = Joined(seqs)[k]
    BY <1>8, Zenon DEF FirstJoined
  <2> QED BY <1>5, <1>6, <1>8, <2>1, Zenon
<1> QED BY <1>7, <1>8, Zenon

\* A sequence of sequences is joined one by one.
LEMMA FirstJoinedType ==
  ASSUME NEW S, NEW seqs \in Seq(Seq(S))
  PROVE  \A k \in 0 .. Len(seqs) : FirstJoined(seqs, k) \in Seq(S)
<1> DEFINE Ks == {k \in Nat : k <= Len(seqs) => FirstJoined(seqs, k) \in Seq(S)}
<1>1. 0 \in Ks
  BY DEF FirstJoined
<1>2. ASSUME NEW k \in Nat, k \in Ks PROVE k + 1 \in Ks
  <2>1. SUFFICES ASSUME k + 1 <= Len(seqs) PROVE FirstJoined(seqs, k + 1) \in Seq(S)
    OBVIOUS
  <2>2. k \in 0 .. Len(seqs) - 1 /\ k + 1 \in 1 .. Len(seqs)
    BY <2>1
  <2>3. seqs[k + 1] \in Seq(S) /\ (k = 0 => seqs[1] \in Seq(S))
    BY <2>2
  <2>4. FirstJoined(seqs, k) \in Seq(S)
    BY <1>2, <2>2
  <2>5. FirstJoined(seqs, k) \o seqs[k + 1] \in Seq(S)
    BY <2>3, <2>4
  <2>6. FirstJoined(seqs, k + 1) =
          IF k = 0 THEN seqs[1] ELSE FirstJoined(seqs, k) \o seqs[k + 1]
    BY <2>2, JoinedStep
  <2> QED BY <2>3, <2>5, <2>6, Zenon
<1>3. Nat \subseteq Ks
  <2> HIDE DEF Ks
  <2> QED BY <1>1, <1>2, Induction
<1> QED BY <1>3

LEMMA FirstJoinedStep ==
  ASSUME NEW S, NEW seqs \in Seq(Seq(S)), NEW k \in 0 .. Len(seqs) - 1
  PROVE  /\ FirstJoined(seqs, 0) = << >>
         /\ seqs[k + 1] \in Seq(S)
         /\ FirstJoined(seqs, k + 1) = FirstJoined(seqs, k) \o seqs[k + 1]
         /\ Len(FirstJoined(seqs, k + 1)) =
              Len(FirstJoined(seqs, k)) + Len(seqs[k + 1])
<1>1. FirstJoined(seqs, 0) = << >>
  BY DEF FirstJoined
<1>2. k + 1 \in 1 .. Len(seqs)
  OBVIOUS
<1>3. seqs[k + 1] \in Seq(S)
  BY <1>2
<1>4. k \in 0 .. Len(seqs)
  OBVIOUS
<1>5. FirstJoined(seqs, k) \in Seq(S)
  BY <1>4, FirstJoinedType
<1>7. /\ FirstJoined(seqs, k + 1) =
           IF k = 0 THEN seqs[1] ELSE FirstJoined(seqs, k) \o seqs[k + 1]
      /\ k = 0 => k + 1 = 1
  BY JoinedStep
<1>6. FirstJoined(seqs, k + 1) = FirstJoined(seqs, k) \o seqs[k + 1]
  <2>1. CASE k = 0
    <3>1. << >> \o seqs[k + 1] = seqs[k + 1]
      BY <1>3, ConcatEmptySeq
    <3>2. FirstJoined(seqs, k + 1) = seqs[1] /\ k + 1 = 1
      BY <2>1, <1>7, Zenon
    <3>3. FirstJoined(seqs, k) = << >>
      BY <1>1, <2>1
    <3> QED BY <3>1, <3>2, <3>3
  <2>2. CASE k # 0
    BY <2>2, <1>7, Zenon
  <2> QED BY <2>1, <2>2
<1> QED BY <1>1, <1>3, <1>5, <1>6

LEMMA FlattenedIsJoined ==
  ASSUME NEW S, NEW seqs \in Seq(Seq(S))
  PROVE  FlattenSeq(seqs) = FirstJoined(seqs, Len(seqs))
<1>1. CASE Len(seqs) = 0
  BY <1>1 DEF FlattenSeq, FirstJoined
<1>2. CASE Len(seqs) # 0
  BY <1>2 DEF FlattenSeq, FirstJoined, Joined
<1> QED BY <1>1, <1>2

\* A sequence that begins with another one; one that grows begins with what it was.
StaysInFront(s, t) == Len(s) <= Len(t) /\ \A i \in 1 .. Len(s) : t[i] = s[i]

LEMMA Growing ==
  ASSUME NEW f, NEW n \in Nat, NEW k \in 0 .. n, \A i \in 0 .. n : Len(f[i]) \in Nat,
         \A i \in 0 .. n - 1 : StaysInFront(f[i], f[i + 1])
  PROVE  StaysInFront(f[k], f[n])
<1> DEFINE Ds == {d \in Nat : k + d <= n => StaysInFront(f[k], f[k + d])}
<1>0. Len(f[k]) \in Nat
  OBVIOUS
<1>1. 0 \in Ds
  <2>1. StaysInFront(f[k], f[k])
    BY <1>0 DEF StaysInFront
  <2>2. k + 0 = k
    OBVIOUS
  <2> QED BY <2>1, <2>2
<1>2. ASSUME NEW d \in Nat, d \in Ds PROVE d + 1 \in Ds
  <2> SUFFICES ASSUME k + (d + 1) <= n PROVE StaysInFront(f[k], f[k + (d + 1)])
    OBVIOUS
  <2> DEFINE m == k + d
  <2>1. m \in 0 .. n - 1 /\ m \in 0 .. n /\ m + 1 \in 0 .. n /\ k + (d + 1) = m + 1
    OBVIOUS
  <2>2. StaysInFront(f[k], f[m])
    BY <1>2, <2>1
  <2> HIDE DEF m
  <2>3. StaysInFront(f[m], f[m + 1]) /\ Len(f[m]) \in Nat /\ Len(f[m + 1]) \in Nat
    BY <2>1
  <2>4. StaysInFront(f[k], f[m + 1])
    BY <1>0, <2>2, <2>3 DEF StaysInFront
  <2> QED BY <2>1, <2>4
<1>3. Nat \subseteq Ds
  <2> HIDE DEF Ds
  <2> QED BY <1>1, <1>2, Induction
<1>4. n - k \in Nat /\ k + (n - k) = n
  OBVIOUS
<1>5. n - k \in Ds
  BY <1>3, <1>4
<1> QED BY <1>4, <1>5

LEMMA ConcatInFront ==
  ASSUME NEW S, NEW s \in Seq(S), NEW t \in Seq(S)
  PROVE  StaysInFront(s, s \o t)
<1>1. Len(s) \in Nat /\ Len(t) \in Nat /\ Len(s \o t) = Len(s) + Len(t)
      /\ \A i \in 1 .. Len(s) : (s \o t)[i] = s[i]
  OBVIOUS
<1> QED BY <1>1 DEF StaysInFront

LEMMA JoinedInFront ==
  ASSUME NEW S, NEW seqs \in Seq(Seq(S)), NEW k \in 0 .. Len(seqs)
  PROVE  StaysInFront(FirstJoined(seqs, k), FlattenSeq(seqs))
<1> DEFINE n == Len(seqs)
           f == [i \in 0 .. n |-> FirstJoined(seqs, i)]
<1>1. \A i \in 0 .. n : FirstJoined(seqs, i) \in Seq(S)
  BY FirstJoinedType
<1>2. \A i \in 0 .. n : f[i] \in Seq(S) /\ Len(f[i]) \in Nat
  BY <1>1
<1>3. ASSUME NEW i \in 0 .. n - 1 PROVE StaysInFront(f[i], f[i + 1])
  <2>1. i \in 0 .. n /\ i + 1 \in 0 .. n
    OBVIOUS
  <2>2. seqs[i + 1] \in Seq(S)
        /\ FirstJoined(seqs, i + 1) = FirstJoined(seqs, i) \o seqs[i + 1]
    BY FirstJoinedStep
  <2>3. StaysInFront(FirstJoined(seqs, i), FirstJoined(seqs, i + 1))
    BY <1>1, <2>1, <2>2, ConcatInFront
  <2> QED BY <2>1, <2>3
<1>4. StaysInFront(f[k], f[n])
  <2>1. n \in Nat
    OBVIOUS
  <2> HIDE DEF f, n
  <2> QED BY <1>2, <1>3, <2>1, Growing DEF n
<1>5. f[k] = FirstJoined(seqs, k) /\ f[n] = FirstJoined(seqs, n)
  OBVIOUS
<1> QED BY <1>4, <1>5, FlattenedIsJoined

\* Where the sequences are in what they are joined to.
LEMMA JoinedParts ==
  ASSUME NEW S, NEW seqs \in Seq(Seq(S)), NEW k \in 0 .. Len(seqs) - 1
  PROVE  /\ FlattenSeq(seqs) \in Seq(S)
         /\ Len(FirstJoined(seqs, k)) + Len(seqs[k + 1]) <= Len(FlattenSeq(seqs))
         /\ \A x \in 1 .. Len(seqs[k + 1]) :
              FlattenSeq(seqs)[Len(FirstJoined(seqs, k)) + x] = seqs[k + 1][x]
<1> DEFINE s == FirstJoined(seqs, k)
           t == seqs[k + 1]
           all == FlattenSeq(seqs)
<1>1. k \in 0 .. Len(seqs) /\ k + 1 \in 0 .. Len(seqs) /\ Len(seqs) \in 0 .. Len(seqs)
  OBVIOUS
<1>2. all \in Seq(S)
  BY <1>1, FirstJoinedType, FlattenedIsJoined
<1>3. s \in Seq(S)
  BY <1>1, FirstJoinedType
<1>4. t \in Seq(S) /\ FirstJoined(seqs, k + 1) = s \o t
  BY FirstJoinedStep
<1>5. StaysInFront(s \o t, all)
  BY <1>1, <1>4, JoinedInFront
<1> HIDE DEF s, t, all
<1>6. Len(s \o t) = Len(s) + Len(t)
      /\ \A x \in 1 .. Len(t) : (s \o t)[Len(s) + x] = t[x]
  BY <1>3, <1>4
<1>7. Len(s) \in Nat /\ Len(t) \in Nat /\ Len(all) \in Nat
  BY <1>2, <1>3, <1>4
<1>8. Len(s) + Len(t) <= Len(all)
  BY <1>5, <1>6 DEF StaysInFront
<1>9. ASSUME NEW x \in 1 .. Len(t) PROVE all[Len(s) + x] = t[x]
  <2>1. Len(s) + x \in 1 .. Len(s \o t)
    BY <1>6, <1>7
  <2>2. all[Len(s) + x] = (s \o t)[Len(s) + x]
    BY <1>5, <2>1, Zenon DEF StaysInFront
  <2> QED BY <1>6, <2>2, Zenon
<1> QED BY <1>2, <1>8, <1>9 DEF s, t, all

\* t is s and one element more.
OneMore(t, s, e) ==
  /\ Len(s) \in Nat /\ Len(t) = Len(s) + 1 /\ t[Len(s) + 1] = e
  /\ DOMAIN s = 1 .. Len(s) /\ DOMAIN t = 1 .. Len(s) + 1
  /\ \A i \in 1 .. Len(s) : t[i] = s[i]
  /\ Len(s) < 4 => SubSeq(t, 5, Len(s) + 1) = SubSeq(s, 5, Len(s))
  /\ ~(Len(s) < 4) => SubSeq(t, 5, Len(s) + 1) = Append(SubSeq(s, 5, Len(s)), e)

LEMMA Appended ==
  ASSUME NEW S, NEW s \in Seq(S), NEW e \in S
  PROVE  OneMore(Append(s, e), s, e)
<1> DEFINE t == Append(s, e)
           n == Len(s)
<1>1. /\ n \in Nat /\ t \in Seq(S) /\ Len(t) = n + 1 /\ t[n + 1] = e
      /\ DOMAIN s = 1 .. n /\ DOMAIN t = 1 .. n + 1
      /\ \A i \in 1 .. n : t[i] = s[i]
  BY AppendProperties
<1>2. /\ n < 4 => SubSeq(t, 5, n + 1) = SubSeq(s, 5, n)
      /\ ~(n < 4) => SubSeq(t, 5, n + 1) = Append(SubSeq(s, 5, n), e)
  <2> HIDE DEF n
  <2>1. CASE n < 4
    <3> HIDE DEF t
    <3>1. /\ SubSeq(t, 5, n + 1) \in Seq(S) /\ Len(SubSeq(t, 5, n + 1)) = 0
          /\ SubSeq(s, 5, n) \in Seq(S) /\ Len(SubSeq(s, 5, n)) = 0
      BY <1>1, <2>1, SubSeqProperties
    <3> QED BY <2>1, <3>1
  <2>2. CASE ~(n < 4)
    <3> DEFINE u == SubSeq(t, 5, n + 1)
               r == SubSeq(s, 5, n)
               v == Append(r, e)
    <3> HIDE DEF t
    <3>1. /\ u \in Seq(S) /\ Len(u) = n - 3
          /\ \A i \in 1 .. n - 3 : u[i] = t[4 + i]
      BY <1>1, <2>2, SubSeqProperties
    <3>2. /\ r \in Seq(S) /\ Len(r) = n - 4
          /\ \A i \in 1 .. n - 4 : r[i] = s[4 + i]
      BY <1>1, <2>2, SubSeqProperties
    <3> HIDE DEF r
    <3>3. /\ v \in Seq(S) /\ Len(v) = n - 3 /\ v[n - 3] = e
          /\ \A i \in 1 .. n - 4 : v[i] = r[i]
      BY <1>1, <2>2, <3>2, AppendProperties
    <3> HIDE DEF u, v
    <3>4. ASSUME NEW i \in 1 .. n - 3 PROVE u[i] = v[i]
      <4>1. CASE i = n - 3
        BY <1>1, <3>1, <3>3, <4>1
      <4>2. CASE i < n - 3
        <5>1. i \in 1 .. n - 4 /\ 4 + i \in 1 .. n
          BY <1>1, <4>2
        <5> QED BY <1>1, <3>1, <3>2, <3>3, <5>1
      <4> QED BY <1>1, <4>1, <4>2
    <3>5. u = v
      BY <3>1, <3>3, <3>4, SeqEqual
    <3> QED BY <2>2, <3>5 DEF u, v, r
  <2> QED BY <2>1, <2>2
<1> QED BY <1>1, <1>2, Zenon DEF OneMore

-----------------------------------------------------------------------------
(* The elements of a sequence at some of its places. *)

\* How many of S come up to i.
Rank(S, i) == Cardinality({j \in S : j <= i})

Ranked(S, n) == CHOOSE i \in S : Rank(S, i) = n

\* One more place, behind the others: their ranks stay, and its own is the last.
LEMMA LastRank ==
  ASSUME NEW m \in Nat, NEW S \in SUBSET (1 .. m - 1)
  PROVE  /\ IsFiniteSet(S) /\ Cardinality(S) \in Nat
         /\ Cardinality(S \cup {m}) = Cardinality(S) + 1
         /\ \A n \in 1 .. Cardinality(S) : Ranked(S \cup {m}, n) = Ranked(S, n)
         /\ Ranked(S \cup {m}, Cardinality(S) + 1) = m
<1> DEFINE T == S \cup {m}
           c == Cardinality(S)
<1>1. IsFiniteSet(S) /\ c \in Nat
  <2>1. IsFiniteSet(1 .. m - 1)
    BY FS_Interval
  <2> QED BY <2>1, FS_Subset, FS_CardinalityType
<1>2. m \notin S
  OBVIOUS
<1>3. Cardinality(T) = c + 1
  BY <1>1, <1>2, FS_AddElement
<1>4. ASSUME NEW i \in S PROVE Rank(T, i) = Rank(S, i) /\ Rank(T, i) \in 0 .. c
  <2>1. {j \in T : j <= i} = {j \in S : j <= i}
    OBVIOUS
  <2>2. {j \in S : j <= i} \in SUBSET S
    OBVIOUS
  <2>3. IsFiniteSet({j \in S : j <= i}) /\ Cardinality({j \in S : j <= i}) <= c
    BY <1>1, <2>2, FS_Subset
  <2>4. Cardinality({j \in S : j <= i}) \in Nat
    BY <2>3, FS_CardinalityType
  <2>5. Rank(T, i) = Cardinality({j \in S : j <= i})
        /\ Rank(S, i) = Cardinality({j \in S : j <= i})
    BY <2>1, Zenon DEF Rank
  <2> HIDE DEF T, c
  <2> QED BY <1>1, <2>3, <2>4, <2>5
<1>5. Rank(T, m) = c + 1
  <2>0. \A j \in T : j <= m
    OBVIOUS
  <2>1. {j \in T : j <= m} = T
    BY <2>0, Zenon
  <2> QED BY <1>3, <2>1 DEF Rank
<1>6. ASSUME NEW n \in 1 .. c PROVE Ranked(T, n) = Ranked(S, n)
  <2>1. Rank(T, m) # n
    BY <1>1, <1>5
  <2>2. \A i : i \in T /\ Rank(T, i) = n <=> i \in S /\ Rank(S, i) = n
    BY <1>4, <2>1
  <2> HIDE DEF T
  <2>3. (CHOOSE i : i \in T /\ Rank(T, i) = n) = CHOOSE i : i \in S /\ Rank(S, i) = n
    BY <2>2
  <2> QED BY <2>3 DEF Ranked
<1>7. Ranked(T, c + 1) = m
  <2>1. \A i \in T : Rank(T, i) = c + 1 <=> i = m
    BY <1>1, <1>4, <1>5
  <2>2. m \in T
    OBVIOUS
  <2> HIDE DEF T
  <2>3. \E i \in T : Rank(T, i) = c + 1
    BY <2>1, <2>2
  <2>4. Ranked(T, c + 1) \in T /\ Rank(T, Ranked(T, c + 1)) = c + 1
    BY <2>3, Zenon DEF Ranked
  <2> QED BY <2>1, <2>4
<1> QED BY <1>1, <1>3, <1>6, <1>7

LEMMA ElementsByRank ==
  ASSUME NEW seq, NEW S
  PROVE  ElementsAt(seq, S) = [n \in 1 .. Cardinality(S) |-> seq[Ranked(S, n)]]
BY DEF ElementsAt, Ranked, Rank

LEMMA AddedElement ==
  ASSUME NEW E, NEW seq \in Seq(E), NEW m \in 1 .. Len(seq),
         NEW S \in SUBSET (1 .. m - 1), ElementsAt(seq, S) \in Seq(E)
  PROVE  ElementsAt(seq, S \cup {m}) = Append(ElementsAt(seq, S), seq[m])
<1> DEFINE s == ElementsAt(seq, S)
           t == ElementsAt(seq, S \cup {m})
           c == Cardinality(S)
<1>0. /\ c \in Nat /\ Cardinality(S \cup {m}) = c + 1
      /\ \A n \in 1 .. c : Ranked(S \cup {m}, n) = Ranked(S, n)
      /\ Ranked(S \cup {m}, c + 1) = m
  <2>1. m \in Nat
    OBVIOUS
  <2> QED BY <2>1, LastRank
<1>1. c \in Nat /\ Cardinality(S \cup {m}) = c + 1
  BY <1>0
<1>2. s = [n \in 1 .. c |-> seq[Ranked(S, n)]]
      /\ t = [n \in 1 .. c + 1 |-> seq[Ranked(S \cup {m}, n)]]
  BY <1>1, ElementsByRank
<1>3. \A n \in 1 .. c : t[n] = s[n]
  <2> SUFFICES ASSUME NEW n \in 1 .. c PROVE t[n] = s[n]
    OBVIOUS
  <2>1. Ranked(S \cup {m}, n) = Ranked(S, n)
    BY <1>0, Zenon
  <2>2. n \in 1 .. c + 1
    BY <1>1
  <2> HIDE DEF s, t, c
  <2> QED BY <1>2, <2>1, <2>2
<1>4. t[c + 1] = seq[m]
  <2>1. Ranked(S \cup {m}, c + 1) = m
    BY <1>0, Zenon
  <2>2. c + 1 \in 1 .. c + 1
    BY <1>1
  <2> HIDE DEF s, t, c
  <2> QED BY <1>2, <2>1, <2>2
<1>5. Len(s) = c /\ s \in Seq(E) /\ DOMAIN t = 1 .. c + 1
  <2> HIDE DEF s, t, c
  <2>1. DOMAIN s = 1 .. c
    BY <1>2
  <2>2. s \in Seq(E)
    BY DEF s
  <2> QED BY <1>1, <1>2, <2>1, <2>2
<1>6. seq[m] \in E
  OBVIOUS
<1> HIDE DEF s, t, c
<1>7. t = [n \in 1 .. c + 1 |-> t[n]]
  BY <1>2
<1>8. t = Append(s, seq[m])
  <2>1. Append(s, seq[m]) = [n \in 1 .. c + 1 |-> Append(s, seq[m])[n]]
    BY <1>1, <1>5, <1>6
  <2>2. \A n \in 1 .. c + 1 : Append(s, seq[m])[n] = t[n]
    BY <1>1, <1>3, <1>4, <1>5, <1>6
  <2> QED BY <1>7, <2>1, <2>2
<1> QED BY <1>8 DEF s, t

LEMMA NoElements == \A seq : ElementsAt(seq, {}) = << >>
<1> SUFFICES ASSUME NEW seq PROVE ElementsAt(seq, {}) = << >>
  OBVIOUS
<1>1. Cardinality({}) = 0
  BY FS_EmptySet
<1>2. ElementsAt(seq, {}) = [n \in 1 .. 0 |-> seq[Ranked({}, n)]]
  BY <1>1, ElementsByRank
<1> QED BY <1>2

LEMMA ElementsType ==
  ASSUME NEW E, NEW seq \in Seq(E)
  PROVE  \A S \in SUBSET (1 .. Len(seq)) :
           /\ ElementsAt(seq, S) \in Seq({seq[i] : i \in S})
           /\ ElementsAt(seq, S) \in Seq(E)
           /\ Len(ElementsAt(seq, S)) = Cardinality(S)
           /\ IsFiniteSet(S)
<1> DEFINE From(S) == {seq[i] : i \in S}
           Good(S) == ElementsAt(seq, S) \in Seq(From(S))
           Ms == {m \in Nat : \A S \in SUBSET (1 .. m) : m <= Len(seq) => Good(S)}
<1>0. \A S \in SUBSET (1 .. Len(seq)) : From(S) \subseteq E
  OBVIOUS
<1>1. 0 \in Ms
  <2>1. \A S \in SUBSET (1 .. 0) : S = {}
    OBVIOUS
  <2>2. Good({})
    <3>1. ElementsAt(seq, {}) = << >>
      BY NoElements, Zenon
    <3>2. << >> \in Seq(From({}))
      OBVIOUS
    <3>3. ElementsAt(seq, {}) \in Seq(From({}))
      BY <3>1, <3>2, Zenon
    <3> QED BY <3>3
  <2> HIDE DEF Good
  <2> QED BY <2>1, <2>2
<1>2. ASSUME NEW m \in Nat, m \in Ms PROVE m + 1 \in Ms
  <2> SUFFICES ASSUME NEW S \in SUBSET (1 .. m + 1), m + 1 <= Len(seq) PROVE Good(S)
    OBVIOUS
  <2>1. CASE m + 1 \notin S
    <3>1. S \in SUBSET (1 .. m)
      BY <2>1
    <3> HIDE DEF Good
    <3> QED BY <1>2, <3>1
  <2>2. CASE m + 1 \in S
    <3> DEFINE T == S \ {m + 1}
    <3>1. T \in SUBSET (1 .. m) /\ S = T \cup {m + 1} /\ T \in SUBSET (1 .. Len(seq))
      BY <2>2
    <3>2. Good(T)
      <4> HIDE DEF Good, T
      <4> QED BY <1>2, <3>1
    <3>3. m + 1 \in 1 .. Len(seq) /\ m + 1 - 1 = m
      OBVIOUS
    <3>4. ElementsAt(seq, T) \in Seq(E)
      <4> HIDE DEF T, From
      <4> QED BY <1>0, <3>1, <3>2, SeqMonotonic
    <3>5. ElementsAt(seq, S) = Append(ElementsAt(seq, T), seq[m + 1])
      <4> HIDE DEF T
      <4> QED BY <3>1, <3>3, <3>4, AddedElement
    <3>6. From(T) \subseteq From(S) /\ seq[m + 1] \in From(S)
      BY <2>2
    <3>7. ElementsAt(seq, T) \in Seq(From(S))
      <4> HIDE DEF T, From
      <4> QED BY <3>2, <3>6, SeqMonotonic
    <3> HIDE DEF T, From
    <3> QED BY <3>5, <3>6, <3>7
  <2> QED BY <2>1, <2>2
<1>3. Nat \subseteq Ms
  <2> HIDE DEF Ms
  <2> QED BY <1>1, <1>2, Induction
<1> TAKE S \in SUBSET (1 .. Len(seq))
<1>4. Good(S)
  <2>1. Len(seq) \in Ms
    BY <1>3
  <2> HIDE DEF Good
  <2> QED BY <2>1
<1>5. IsFiniteSet(S) /\ Cardinality(S) \in Nat
  <2>1. IsFiniteSet(1 .. Len(seq))
    BY FS_Interval
  <2> QED BY <2>1, FS_Subset, FS_CardinalityType
<1>6. DOMAIN ElementsAt(seq, S) = 1 .. Cardinality(S)
  BY ElementsByRank
<1>7. ElementsAt(seq, S) \in Seq(E)
  <2> HIDE DEF From
  <2> QED BY <1>0, <1>4, SeqMonotonic
<1>8. Len(ElementsAt(seq, S)) = Cardinality(S)
  BY <1>5, <1>6, <1>7
<1> QED BY <1>4, <1>5, <1>7, <1>8

\* One place more behind those there are.
LEMMA ElementsStep ==
  ASSUME NEW E, NEW seq \in Seq(E), NEW m \in 1 .. Len(seq),
         NEW S \in SUBSET (1 .. m - 1)
  PROVE  /\ ElementsAt(seq, S) \in Seq(E)
         /\ ElementsAt(seq, S \cup {m}) = Append(ElementsAt(seq, S), seq[m])
         /\ ElementsAt(seq, S \cup {m}) \in Seq(E)
<1>1. S \in SUBSET (1 .. Len(seq)) /\ S \cup {m} \in SUBSET (1 .. Len(seq))
  OBVIOUS
<1>2. ElementsAt(seq, S) \in Seq(E) /\ ElementsAt(seq, S \cup {m}) \in Seq(E)
  BY <1>1, ElementsType
<1> QED BY <1>2, AddedElement

\* The elements at the places of S up to m.
UpTo(S, m) == {i \in 1 .. m : i \in S}

LEMMA ElementsUpTo ==
  ASSUME NEW E, NEW seq \in Seq(E), NEW S, NEW m \in 0 .. Len(seq) - 1
  PROVE  /\ ElementsAt(seq, UpTo(S, m)) \in Seq(E)
         /\ ElementsAt(seq, UpTo(S, m + 1)) =
              IF m + 1 \in S THEN Append(ElementsAt(seq, UpTo(S, m)), seq[m + 1])
              ELSE ElementsAt(seq, UpTo(S, m))
<1> DEFINE T == UpTo(S, m)
<1>1. T \in SUBSET (1 .. m) /\ T \in SUBSET (1 .. Len(seq))
  BY DEF UpTo
<1>2. ElementsAt(seq, T) \in Seq(E)
  BY <1>1, ElementsType
<1>3. CASE m + 1 \in S
  <2>1. UpTo(S, m + 1) = T \cup {m + 1}
    BY <1>3 DEF UpTo
  <2>2. m + 1 \in 1 .. Len(seq) /\ m + 1 - 1 = m
    OBVIOUS
  <2>3. ElementsAt(seq, T \cup {m + 1}) = Append(ElementsAt(seq, T), seq[m + 1])
    <3> DEFINE k == m + 1
    <3>1. k \in 1 .. Len(seq) /\ T \in SUBSET (1 .. k - 1)
      BY <1>1, <2>2
    <3> HIDE DEF T, k
    <3>2. ElementsAt(seq, T \cup {k}) = Append(ElementsAt(seq, T), seq[k])
      BY <3>1, ElementsStep
    <3> QED BY <3>2 DEF k
  <2> QED BY <1>2, <1>3, <2>1, <2>3, Zenon
<1>4. CASE m + 1 \notin S
  <2>1. UpTo(S, m + 1) = T
    BY <1>4 DEF UpTo
  <2> QED BY <1>2, <1>4, <2>1, Zenon
<1> QED BY <1>3, <1>4

\* The elements at the first places of S are in front of the others.
LEMMA ElementsInFront ==
  ASSUME NEW E, NEW seq \in Seq(E), NEW S, NEW m \in 0 .. Len(seq)
  PROVE  StaysInFront(ElementsAt(seq, UpTo(S, m)), ElementsAt(seq, UpTo(S, Len(seq))))
<1> DEFINE n == Len(seq)
           f == [i \in 0 .. n |-> ElementsAt(seq, UpTo(S, i))]
<1>1. ASSUME NEW i \in 0 .. n PROVE ElementsAt(seq, UpTo(S, i)) \in Seq(E)
  <2>1. UpTo(S, i) \in SUBSET (1 .. Len(seq))
    BY DEF UpTo
  <2> QED BY <2>1, ElementsType
<1>2. \A i \in 0 .. n : f[i] \in Seq(E) /\ Len(f[i]) \in Nat
  BY <1>1
<1>3. ASSUME NEW i \in 0 .. n - 1 PROVE StaysInFront(f[i], f[i + 1])
  <2>1. i \in 0 .. n /\ i + 1 \in 0 .. n
    OBVIOUS
  <2> DEFINE s == ElementsAt(seq, UpTo(S, i))
             t == ElementsAt(seq, UpTo(S, i + 1))
  <2>2. s \in Seq(E)
    BY <1>1, <2>1
  <2>3. t = s \/ t = Append(s, seq[i + 1])
    <3>1. t = IF i + 1 \in S THEN Append(s, seq[i + 1]) ELSE s
      BY ElementsUpTo
    <3> QED BY <3>1, Zenon
  <2>4. seq[i + 1] \in E
    OBVIOUS
  <2>5. StaysInFront(s, t)
    <3> HIDE DEF s, t
    <3>1. CASE t = s
      BY <2>2, <3>1 DEF StaysInFront
    <3>2. CASE t = Append(s, seq[i + 1])
      BY <2>2, <2>4, <3>2, AppendProperties DEF StaysInFront
    <3> QED BY <2>3, <3>1, <3>2
  <2>6. f[i] = s /\ f[i + 1] = t
    BY <2>1
  <2> QED BY <2>5, <2>6, Zenon
<1>4. StaysInFront(f[m], f[n])
  <2>1. n \in Nat
    OBVIOUS
  <2> HIDE DEF f, n
  <2> QED BY <1>2, <1>3, <2>1, Growing DEF n
<1>5. f[m] = ElementsAt(seq, UpTo(S, m)) /\ f[n] = ElementsAt(seq, UpTo(S, n))
  OBVIOUS
<1> QED BY <1>4, <1>5, Zenon

-----------------------------------------------------------------------------
(* How far the parser has come. *)

\* The words of the items, and those of them that belong to the action.
LineWords == [i \in DOMAIN line |-> Words(line[i])]

OfAction(item) == Is(item, {""})

ActionWords ==
  [i \in DOMAIN line |->
     IF OfAction(line[i]) THEN Undashed(line[i].values) ELSE << >>]

\* The first k items are read, and j words of the next one, which belongs to the
\* action if j is not 0.
ComeTo(k, j) ==
  \/ k = Len(line) /\ j = 0
  \/ /\ k < Len(line) /\ j < Len(LineWords[k + 1])
     /\ j = 0 \/ OfAction(line[k + 1])

\* The words that are left then.
WordsFrom(k, j) ==
  LET all == FlattenSeq(LineWords)
  IN  SubSeq(all, Len(FirstJoined(LineWords, k)) + j + 1, Len(all))

\* Items among the first k that name one of these options; the value of the last.
Naming(names) == {i \in DOMAIN line : Is(line[i], names)}

TypedBy(k, names) == ElementsAt(line, UpTo(Naming(names), k))

LastBy(k, names) ==
  IF TypedBy(k, names) = << >> THEN "" ELSE Value(Last(TypedBy(k, names)), 1)

\* Words of the action among those read.
Spoken(words) == {i \in DOMAIN words : words[i] \notin Dashed}

SpokenIn(words, j) == ElementsAt(words, UpTo(Spoken(words), j))

SpokenBy(k, j) ==
  IF j = 0 THEN FirstJoined(ActionWords, k)
  ELSE FirstJoined(ActionWords, k) \o SpokenIn(line[k + 1].values, j)

Sockets(items) ==
  [i \in DOMAIN items |->
     SocketInterface(Value(items[i], 1) = "server", Value(items[i], 2),
                     Number[Value(items[i], 3)])]

Coms(items) ==
  [i \in DOMAIN items |->
     [path |-> Value(items[i], 1), boudrate |-> Number[Value(items[i], 2)]]]

\* What the first k items say of the network and its interfaces.
NamedBy(c, k) ==
  LET addr == LastBy(k, {"--addr", "-a"})
  IN  /\ c.network_name = LastBy(k, {"--net", "-n"})
      /\ c.network_psk = LastBy(k, {"--psk"})
      /\ c.network_addr = IF addr = "" THEN 0 ELSE Number[addr]
      /\ c.config_path = LastBy(k, {"--config", "-c"})
      /\ c.debug <=> TypedBy(k, {"--debug"}) # << >>
      /\ c.socket_interfaces = Sockets(TypedBy(k, {"--socket"}))
      /\ c.com_devices = Coms(TypedBy(k, {"--com"}))

\* What these words say of the action.
ActionIs(c, words) ==
  /\ Len(words) >= 1 => c.action_type = words[1]
  /\ Len(words) >= 2 => c.device_addr = Number[words[2]]
  /\ Len(words) >= 3 => c.device_port = Number[words[3]]
  /\ Len(words) >= 4 => c.action_name = words[4]
  /\ c.action_values = SubSeq(words, 5, Len(words))

\* No number read so far was none.
NumbersGood(k, words) ==
  /\ \A i \in 1 .. k : ~BadItem(line[i])
  /\ \A i \in {2, 3} \cap DOMAIN words : ~Throws(words[i])

\* These words are left, and the configuration is what the others say.
ReadBy(words, c, index, k, j) ==
  /\ ComeTo(k, j)
  /\ words = WordsFrom(k, j)
  /\ NamedBy(c, k)
  /\ index = Len(SpokenBy(k, j))
  /\ ActionIs(c, SpokenBy(k, j))
  /\ NumbersGood(k, SpokenBy(k, j))

ReadTo(k, j) == ReadBy(args, config, relative_index, k, j)

Reading == \E k, j \in Nat : ReadTo(k, j)

\* The line and the file are read.
Settled ==
  /\ <<config.network_name, config.network_psk, config.network_addr>> = Settings
  /\ config.debug <=> Typed({"--debug"}) # << >>
  /\ ActionIs(config, Action)
  /\ config.socket_interfaces =
       Sockets(Typed({"--socket"})) \o IF Path = "" THEN << >> ELSE FileSockets(File)
  /\ config.com_devices =
       Coms(Typed({"--com"})) \o IF Path = "" THEN << >> ELSE FileComs(File)

Parsed ==
  /\ phase = "args" => Reading
  /\ phase = "thrown" => Malformed
  /\ phase \notin {"args", "thrown"} => ~Malformed
  /\ phase = "file" =>
       /\ NamedBy(config, Len(line)) /\ ActionIs(config, Action)
       /\ config.config_path # ""
  /\ phase \in {"register", "running"} => Settled
  /\ Path # "" /\ phase \in {"register", "running"} =>
       Path \in DOMAIN Files /\ "sockets" \in DOMAIN File

ParseInv == InOrder => Parsed

-----------------------------------------------------------------------------
(* The kinds of values. *)

Item == [opt : STRING, values : Seq(STRING)]

\* What is left of a number in sixteen bits.
Half == 2^15
Whole  == 2^16
Rest(n) == n % Whole

LEMMA Sixteen == Half = 32768 /\ Whole = 65536
BY SMT DEF Half, Whole

LEMMA RestBound == \A n \in Int : Rest(n) \in Int /\ 0 <= Rest(n) /\ Rest(n) < Whole
<1> SUFFICES ASSUME NEW n \in Int
             PROVE  Rest(n) \in Int /\ 0 <= Rest(n) /\ Rest(n) < Whole
  OBVIOUS
<1>1. n % 65536 \in Int /\ 0 <= n % 65536 /\ n % 65536 < 65536
  BY SMT
<1> QED BY <1>1, Sixteen, SMT DEF Rest

LEMMA RestShift == \A n, q \in Int : Rest(n + Whole * q) = Rest(n)
<1>1. \A n, q \in Int : (n + 65536 * q) % 65536 = n % 65536
  BY SMT
<1> QED BY <1>1, Sixteen, SMT DEF Rest

LEMMA RestOf == \A n \in Int : \E q \in Int : n = Rest(n) + Whole * q
<1> SUFFICES ASSUME NEW n \in Int PROVE \E q \in Int : n = Rest(n) + Whole * q
  OBVIOUS
<1>1. n \div 65536 \in Int
  BY SMT
<1>2. n = 65536 * (n \div 65536) + (n % 65536)
  BY SMT
<1>3. n = Rest(n) + Whole * (n \div 65536)
  BY <1>2, Sixteen, SMT DEF Rest
<1> QED BY <1>1, <1>3, SMT

LEMMA ShortIs == \A n : Short(n) = Rest(n + Half) - Half /\ UShort(n) = Rest(n)
BY Zenon DEF Short, UShort, Rest, Half, Whole

LEMMA ShortType == \A n \in Int : Short(n) \in -(2^15) .. 2^15 - 1
<1> SUFFICES ASSUME NEW n \in Int PROVE Short(n) \in -Half .. Half - 1
  BY DEF Half
<1> DEFINE r == Rest(n + Half)
<1>1. n + Half \in Int
  BY Sixteen
<1>2. r \in Int /\ 0 <= r /\ r < Whole
  BY <1>1, RestBound, Zenon
<1>3. r - Half \in -Half .. Half - 1
  <2>1. Half \in Int /\ Whole = Half + Half
    BY Sixteen, SMT
  <2> HIDE DEF r
  <2>2. r - Half \in Int /\ 0 - Half <= r - Half /\ r - Half <= Half - 1
    BY <1>2, <2>1, SMT
  <2> QED BY <2>1, <2>2, SMT
<1>4. Short(n) = r - Half
  BY ShortIs, Zenon
<1> QED BY <1>3, <1>4, Zenon

\* The port a short keeps is the port it was made of.
LEMMA PortKept == \A n \in Int : UShort(Short(n)) = UShort(n)
<1> SUFFICES ASSUME NEW n \in Int PROVE UShort(Short(n)) = UShort(n)
  OBVIOUS
<1>1. n + Half \in Int /\ Half \in Int /\ Whole \in Int
  BY Sixteen
<1>2. PICK q \in Int : n + Half = Rest(n + Half) + Whole * q
  BY <1>1, RestOf, Zenon
<1>3. Rest(n + Half) \in Int
  BY <1>1, RestBound, Zenon
<1> DEFINE s == Rest(n + Half) - Half
<1>4. s \in Int /\ n = s + Whole * q
  <2> DEFINE t == Whole * q
             r == Rest(n + Half)
  <2>1. t \in Int /\ n + Half = r + t
    BY <1>1, <1>2, SMT
  <2>2. r \in Int
    BY <1>3
  <2> HIDE DEF r, t
  <2>3. r - Half \in Int /\ n = (r - Half) + t
    BY <1>1, <2>1, <2>2, SMT
  <2> QED BY <2>3, Zenon DEF r, t
<1>5. Rest(n) = Rest(s)
  <2> HIDE DEF s
  <2>1. Rest(s + Whole * q) = Rest(s)
    BY <1>4, RestShift, Zenon
  <2> QED BY <1>4, <2>1, Zenon
<1>6. Short(n) = s
  BY ShortIs, Zenon
<1> QED BY <1>5, <1>6, ShortIs, Zenon

\* Items and words are typed.
LEMMA LineType ==
  ASSUME line \in Lines
  PROVE  /\ line \in Seq(Item) /\ WellFormed(line)
         /\ DOMAIN line = 1 .. Len(line) /\ Len(line) \in Nat
         /\ \A i \in DOMAIN line : /\ line[i] \in Item
                                   /\ line[i].opt \in STRING
                                   /\ line[i].values \in Seq(STRING)
<1>1. WellFormed(line)
  BY LinesAssumption
<1>2. line \in Seq(Item)
  BY <1>1 DEF WellFormed, Item
<1>3. DOMAIN line = 1 .. Len(line) /\ Len(line) \in Nat
  BY <1>2
<1>4. \A i \in DOMAIN line : line[i] \in Item
  BY <1>2, <1>3
<1>5. \A i \in DOMAIN line : line[i].opt \in STRING /\ line[i].values \in Seq(STRING)
  BY <1>4 DEF Item
<1> QED BY <1>1, <1>2, <1>3, <1>4, <1>5

LEMMA WordsType ==
  ASSUME NEW item \in Item
  PROVE  /\ Words(item) \in Seq(STRING)
         /\ OfAction(item) => Words(item) = item.values
         /\ ~OfAction(item) => /\ Len(Words(item)) = 1 + Len(item.values)
                               /\ Words(item)[1] = item.opt
                               /\ \A i \in 1 .. Len(item.values) :
                                    Words(item)[1 + i] = item.values[i]
<1>o. OfAction(item) <=> item.opt = ""
  BY Zenon DEF OfAction, Is
<1>1. item.opt \in STRING /\ item.values \in Seq(STRING)
  BY DEF Item
<1>2. CASE OfAction(item)
  BY <1>o, <1>1, <1>2, Zenon DEF Words
<1>3. CASE ~OfAction(item)
  <2>1. <<item.opt>> \in Seq(STRING) /\ Len(<<item.opt>>) = 1
    BY <1>1
  <2>2. Words(item) = <<item.opt>> \o item.values
    BY <1>o, <1>3, Zenon DEF Words
  <2>3. Len(item.values) \in Nat
    BY <1>1
  <2>4. /\ <<item.opt>> \o item.values \in Seq(STRING)
        /\ Len(<<item.opt>> \o item.values) = 1 + Len(item.values)
        /\ \A i \in 1 .. 1 + Len(item.values) :
             (<<item.opt>> \o item.values)[i] =
               IF i <= 1 THEN item.opt ELSE item.values[i - 1]
    BY <1>1, <2>1, <2>3, ConcatProperties
  <2> DEFINE ws == <<item.opt>> \o item.values
             n == Len(item.values)
  <2>5. ws[1] = item.opt /\ \A i \in 1 .. n : ws[1 + i] = item.values[i]
    <3> HIDE DEF ws, n
    <3>1. /\ n \in Nat
          /\ \A i \in 1 .. 1 + n :
               ws[i] = IF i <= 1 THEN item.opt ELSE item.values[i - 1]
      BY <2>3, <2>4 DEF ws, n
    <3>2. ws[1] = item.opt
      BY <3>1
    <3>3. ASSUME NEW i \in 1 .. n PROVE ws[1 + i] = item.values[i]
      <4>1. 1 + i \in 1 .. 1 + n /\ ~(1 + i <= 1) /\ 1 + i - 1 = i
        BY <3>1
      <4> DEFINE m == 1 + i
      <4>2. ws[m] = IF m <= 1 THEN item.opt ELSE item.values[m - 1]
        BY <3>1, <4>1
      <4> HIDE DEF m
      <4>3. ws[m] = item.values[m - 1]
        BY <4>1, <4>2 DEF m
      <4> QED BY <4>1, <4>3 DEF m
    <3> QED BY <3>2, <3>3
  <2> QED BY <1>3, <2>2, <2>4, <2>5, Zenon
<1> QED BY <1>2, <1>3, Zenon

\* How items are formed.
LEMMA ItemFormed ==
  ASSUME line \in Lines, NEW k \in 0 .. Len(line) - 1
  PROVE  LET item == line[k + 1]
             n    == Len(item.values)
         IN  /\ OfAction(item) =>
                  /\ n # 0
                  /\ \A j \in 1 .. n : item.values[j] \in Dashed =>
                       Values(item.values[j]) = 0 /\ item.values[j] # "--debug"
             /\ ~OfAction(item) =>
                  /\ item.opt \in Dashed /\ n <= Values(item.opt)
                  /\ n = Values(item.opt) \/ k + 1 = Len(line)
<1> DEFINE item == line[k + 1]
           n == Len(item.values)
<1>1. k + 1 \in DOMAIN line /\ WellFormed(line) /\ item.values \in Seq(STRING)
  BY LineType
<1>2. DOMAIN item.values = 1 .. n /\ (item.values # << >> => n # 0)
  BY <1>1
<1>3. OfAction(item) <=> item.opt = ""
  BY Zenon DEF OfAction, Is
<1>4. IF item.opt = ""
      THEN /\ item.values # << >>
           /\ \A j \in DOMAIN item.values : item.values[j] \in Dashed =>
                Values(item.values[j]) = 0 /\ item.values[j] # "--debug"
      ELSE /\ item.opt \in Dashed /\ n <= Values(item.opt)
           /\ n = Values(item.opt) \/ k + 1 = Len(line)
  BY <1>1, Zenon DEF WellFormed
<1> HIDE DEF n
<1>5. CASE OfAction(item)
  BY <1>2, <1>3, <1>4, <1>5, Zenon DEF n
<1>6. CASE ~OfAction(item)
  BY <1>3, <1>4, <1>6, Zenon DEF n
<1> QED BY <1>5, <1>6

LEMMA LineWordsType ==
  ASSUME line \in Lines
  PROVE  /\ LineWords \in Seq(Seq(STRING))
         /\ Len(LineWords) = Len(line)
         /\ \A i \in DOMAIN line : LineWords[i] = Words(line[i])
         /\ FlattenSeq(LineWords) \in Seq(STRING)
<1>1. \A i \in DOMAIN line : Words(line[i]) \in Seq(STRING)
  BY LineType, WordsType
<1>2. LineWords \in [1 .. Len(line) -> Seq(STRING)] /\ Len(line) \in Nat
  BY <1>1, LineType DEF LineWords
<1>3. LineWords \in Seq(Seq(STRING)) /\ Len(LineWords) = Len(line)
  BY <1>2
<1>4. FlattenSeq(LineWords) \in Seq(STRING)
  <2>1. Len(LineWords) \in 0 .. Len(LineWords)
    BY <1>2, <1>3
  <2> QED BY <1>3, <2>1, FirstJoinedType, FlattenedIsJoined
<1> QED BY <1>3, <1>4 DEF LineWords

\* A peeked word is a word.
LEMMA PeekedType ==
  ASSUME args \in Seq(STRING), NEW name
  PROVE  /\ Values(name) \in 0 .. 3
         /\ DOMAIN Peeked(name) = 1 .. Values(name)
         /\ \A i \in 1 .. Values(name) : Peeked(name)[i] \in STRING
<1>1. ASSUME NEW i \in Nat \ {0} PROVE Peek(i) \in STRING
  <2>1. i <= Len(args) => args[i] \in STRING
    OBVIOUS
  <2> QED BY <2>1, EmptyWordAssumption, Zenon DEF Peek
<1>2. Values(name) \in 0 .. 3
  BY DEF Values
<1>3. \A i \in 1 .. Values(name) :
        Peeked(name)[i] \in STRING
  <2> SUFFICES ASSUME NEW i \in 1 .. Values(name) PROVE Peeked(name)[i] \in STRING
    OBVIOUS
  <2> DEFINE m == 1 + IF order = "left" THEN i ELSE Values(name) + 1 - i
  <2>1. m \in Nat \ {0}
    <3> DEFINE v == Values(name)
    <3>1. i \in 1 .. v /\ v \in Nat
      BY <1>2
    <3> HIDE DEF v
    <3>2. i \in Nat \ {0} /\ v + 1 - i \in Nat \ {0}
      BY <3>1
    <3> QED BY <3>2 DEF v
  <2>2. Peeked(name)[i] = Peek(m)
    BY DEF Peeked
  <2> HIDE DEF m
  <2> QED BY <1>1, <2>1, <2>2
<1> QED BY <1>2, <1>3 DEF Peeked

LEMMA SocketInterfaceType ==
  \A server \in BOOLEAN, host \in STRING, port \in Int :
    SocketInterface(server, host, port) \in SocketType
<1> SUFFICES ASSUME NEW server \in BOOLEAN, NEW host \in STRING, NEW port \in Int
             PROVE  SocketInterface(server, host, port) \in SocketType
  OBVIOUS
<1>1. Short(port) \in -(2^15) .. 2^15 - 1
  BY ShortType
<1>2. ASSUME NEW P, NEW p \in P
      PROVE  [is_server |-> server, hostname |-> host, port |-> p] \in
               [is_server : BOOLEAN, hostname : STRING, port : P]
  OBVIOUS
<1> QED BY <1>1, <1>2, Zenon DEF SocketInterface, SocketType

\* What a file has fits the fields it is kept in.
LEMMA FileTypes ==
  ASSUME NEW path \in DOMAIN Files, NEW file, file = Files[path], "sockets" \in DOMAIN file
  PROVE  FileSockets(file) \in Seq(SocketType) /\ FileComs(file) \in Seq(ComType)
<1> DEFINE s == file.sockets
           t == file.coms
           Socket(i) == SocketInterface(ValueOr(s[i], "type", "") = "server",
                                        ValueOr(s[i], "host", ""),
                                        ValueOr(s[i], "port", 0))
           Com(i) == [path |-> ValueOr(t[i], "path", ""),
                      boudrate |-> ValueOr(t[i], "baud", 0)]
<1>1. /\ IsList(s) /\ IsList(t)
      /\ \A i \in DOMAIN s : /\ ValueOr(s[i], "host", "") \in STRING
                             /\ ValueOr(s[i], "port", 0) \in Int
      /\ \A i \in DOMAIN t : /\ ValueOr(t[i], "path", "") \in STRING
                             /\ ValueOr(t[i], "baud", 0) \in Int
  BY FilesAssumption, Zenon
<1>2. ASSUME NEW T, NEW rows, IsList(rows), NEW f \in [DOMAIN rows -> T]
      PROVE  f \in Seq(T)
  BY <1>2 DEF IsList
<1>3. \A i \in DOMAIN s : Socket(i) \in SocketType
  <2>1. ASSUME NEW i \in DOMAIN s PROVE Socket(i) \in SocketType
    <3> DEFINE server == ValueOr(s[i], "type", "") = "server"
    <3>1. server \in BOOLEAN
      OBVIOUS
    <3> HIDE DEF server
    <3>2. SocketInterface(server, ValueOr(s[i], "host", ""), ValueOr(s[i], "port", 0))
            \in SocketType
      BY <1>1, <3>1, SocketInterfaceType, Zenon
    <3> QED BY <3>2, Zenon DEF server
  <2> QED BY <2>1, Zenon
<1>4. \A i \in DOMAIN t : Com(i) \in ComType
  <2>1. ASSUME NEW i \in DOMAIN t PROVE Com(i) \in ComType
    BY <1>1, <2>1, Zenon DEF ComType
  <2> QED BY <2>1, Zenon
<1>5. [i \in DOMAIN s |-> Socket(i)] \in Seq(SocketType)
  <2> HIDE DEF Socket, s
  <2>1. [i \in DOMAIN s |-> Socket(i)] \in [DOMAIN s -> SocketType]
    BY <1>3
  <2> QED BY <1>1, <1>2, <2>1, Zenon
<1>6. [i \in DOMAIN t |-> Com(i)] \in Seq(ComType)
  <2> HIDE DEF Com, t
  <2>1. [i \in DOMAIN t |-> Com(i)] \in [DOMAIN t -> ComType]
    BY <1>4
  <2> QED BY <1>1, <1>2, <2>1, Zenon
<1> QED BY <1>5, <1>6, Zenon DEF FileSockets, FileComs

LEMMA NumberType == \A word : ~Throws(word) => Number[word] \in Int
BY NumberAssumption DEF Throws

\* The interfaces of a configuration, the sockets first.
LEMMA InterfacesType ==
  ASSUME NEW c \in ConfigType
  PROVE  LET all == c.socket_interfaces \o c.com_devices
         IN  /\ c.socket_interfaces \in Seq(SocketType) /\ c.com_devices \in Seq(ComType)
             /\ all \in Seq(SocketType \cup ComType)
             /\ Len(all) = Len(c.socket_interfaces) + Len(c.com_devices)
             /\ \A i \in 1 .. Len(c.socket_interfaces) :
                  all[i] = c.socket_interfaces[i] /\ all[i] \in SocketType
             /\ \A i \in Len(c.socket_interfaces) + 1 .. Len(all) :
                  /\ i - Len(c.socket_interfaces) \in 1 .. Len(c.com_devices)
                  /\ all[i] = c.com_devices[i - Len(c.socket_interfaces)]
                  /\ all[i] \in ComType
<1>1. c.socket_interfaces \in Seq(SocketType) /\ c.com_devices \in Seq(ComType)
  BY DEF ConfigType
<1> DEFINE T == SocketType \cup ComType
           s == c.socket_interfaces
           t == c.com_devices
<1>2. s \in Seq(T) /\ t \in Seq(T)
  <2>1. SocketType \subseteq T /\ ComType \subseteq T
    OBVIOUS
  <2> QED BY <1>1, <2>1, SeqMonotonic
<1>3. s \in Seq(SocketType) /\ t \in Seq(ComType)
  BY <1>1
<1> HIDE DEF T, s, t
<1>4. /\ s \o t \in Seq(T) /\ Len(s \o t) = Len(s) + Len(t)
      /\ \A i \in 1 .. Len(s) : (s \o t)[i] = s[i] /\ s[i] \in SocketType
      /\ \A i \in Len(s) + 1 .. Len(s) + Len(t) :
           /\ i - Len(s) \in 1 .. Len(t)
           /\ (s \o t)[i] = t[i - Len(s)] /\ t[i - Len(s)] \in ComType
  BY <1>2, <1>3
<1> QED BY <1>3, <1>4 DEF s, t, T

-----------------------------------------------------------------------------
(* The type invariant. *)

MadeType == [is_server : BOOLEAN, hostname : STRING, port : Int] \cup ComType

\* TypeOK, with what is made typed too, and nothing tried while the line is read.
TypeInv ==
  /\ TypeOK
  /\ registered \in Seq(MadeType)
  /\ tried > 0 => phase \in {"register", "running", "exit"}

Untried == tried = 0 /\ failed = {} /\ Len(registered) = 0

\* Nothing is tried, so nothing is made.
LEMMA NothingTried ==
  ASSUME TypeInv, phase \notin {"register", "running", "exit"}
  PROVE  Untried
<1>1. tried = 0
  BY DEF TypeInv, TypeOK
<1>2. failed = {}
  BY <1>1 DEF TypeInv, TypeOK
<1>3. Len(registered) \in Nat /\ Cardinality(failed) = 0
  BY <1>2, FS_EmptySet DEF TypeInv
<1>4. Len(registered) + Cardinality(failed) = 0
  BY <1>1 DEF TypeInv, TypeOK
<1> QED BY <1>1, <1>2, <1>3, <1>4 DEF Untried

\* While the line and the file are read only the reader's state has to be typed.
LEMMA ReadingTyped ==
  ASSUME TypeInv, Untried, UNCHANGED <<build, interfaces>>,
         relative_index' \in Nat, args' \in Seq(STRING), config' \in ConfigType,
         phase' \in {"args", "file", "register", "running", "thrown", "exit", "crash"}
  PROVE  TypeInv'
<1>1. UNCHANGED <<line, order, tried, registered, failed>>
  BY DEF build, interfaces
<1>2. Len(Interfaces') \in Nat
  <2>1. PICK c \in ConfigType : c = config'
    OBVIOUS
  <2>2. c.socket_interfaces \o c.com_devices \in Seq(SocketType \cup ComType)
    BY InterfacesType
  <2>3. Interfaces' = c.socket_interfaces \o c.com_devices
    BY <2>1, Zenon DEF Interfaces
  <2>4. Len(c.socket_interfaces \o c.com_devices) \in Nat
    BY <2>2, LenProperties, Zenon
  <2> QED BY <2>3, <2>4, Zenon
<1>3. Cardinality({}) = 0
  BY FS_EmptySet
<1>4. /\ tried' \in 0 .. Len(Interfaces') /\ failed' \subseteq 1 .. tried'
      /\ Len(registered') + Cardinality(failed') =
           IF phase' = "exit" /\ tried' > 0 THEN tried' - 1 ELSE tried'
  BY <1>1, <1>2, <1>3 DEF Untried
<1>5. tried' = 0 /\ registered' \in Seq(MadeType)
  BY <1>1 DEF Untried, TypeInv
<1>6. line' \in Lines /\ order' \in Orders
  BY <1>1 DEF TypeInv, TypeOK
<1>7. TypeOK'
  BY <1>4, <1>6, Zenon DEF TypeOK
<1> QED BY <1>5, <1>7 DEF TypeInv

LEMMA InitTyped == Init => TypeInv
<1> SUFFICES ASSUME Init PROVE TypeInv
  OBVIOUS
<1>1. line \in Lines /\ order \in Orders
      /\ relative_index = 0 /\ phase = "args" /\ tried = 0 /\ registered = << >> /\ failed = {}
      /\ config = Config /\ args = FlattenSeq(LineWords)
  BY DEF Init, LineWords
<1>2. args \in Seq(STRING)
  BY <1>1, LineWordsType
<1>3. config \in ConfigType
  <2>1. << >> \in Seq(ComType) /\ << >> \in Seq(SocketType) /\ << >> \in Seq(STRING)
    OBVIOUS
  <2>2. 0 \in Int /\ FALSE \in BOOLEAN
    OBVIOUS
  <2>3. Config \in ConfigType
    BY <2>1, <2>2, EmptyWordAssumption, Zenon DEF Config, ConfigType
  <2> QED BY <1>1, <2>3
<1>4. Len(Interfaces) \in Nat
  <2>1. PICK c \in ConfigType : c = config
    BY <1>3
  <2>2. c.socket_interfaces \o c.com_devices \in Seq(SocketType \cup ComType)
    BY InterfacesType
  <2>3. Interfaces = c.socket_interfaces \o c.com_devices
    BY <2>1, Zenon DEF Interfaces
  <2>4. Len(c.socket_interfaces \o c.com_devices) \in Nat
    BY <2>2, LenProperties, Zenon
  <2> QED BY <2>3, <2>4, Zenon
<1>5. Cardinality(failed) = 0 /\ Len(registered) = 0 /\ registered \in Seq(MadeType)
  BY <1>1, FS_EmptySet
<1>6. /\ tried \in 0 .. Len(Interfaces) /\ failed \subseteq 1 .. tried
      /\ Len(registered) + Cardinality(failed) =
           IF phase = "exit" /\ tried > 0 THEN tried - 1 ELSE tried
  BY <1>1, <1>4, <1>5
<1>7. TypeOK
  BY <1>1, <1>2, <1>3, <1>6 DEF TypeOK
<1> QED BY <1>1, <1>5, <1>7 DEF TypeInv

\* What a named argument leaves.
LEMMA NamedTyped ==
  ASSUME args \in Seq(STRING), config \in ConfigType, NEW name,
         ~\E word \in Numbers(name, Peeked(name)) : Throws(word)
  PROVE  WithNamed(name, Peeked(name)) \in ConfigType
<1> DEFINE v == Peeked(name)
           c == WithNamed(name, v)
<1>0. \A i \in 1 .. Values(name) : v[i] \in STRING
  BY PeekedType
<1> SUFFICES c \in ConfigType
  OBVIOUS
<1> HIDE DEF v
<1>1. CASE name \in {"--net", "-n"}
  <2>1. v[1] \in STRING
    BY <1>0, <1>1 DEF Values
  <2>2. c = [config EXCEPT !.network_name = v[1]]
    BY <1>1 DEF WithNamed
  <2> QED BY <2>1, <2>2 DEF ConfigType
<1>2. CASE name \in {"--addr", "-a"}
  <2>1. Number[v[1]] \in Int
    BY <1>2, NumberType DEF Numbers, v
  <2>2. c = [config EXCEPT !.network_addr = Number[v[1]]]
    BY <1>2 DEF WithNamed
  <2> QED BY <2>1, <2>2 DEF ConfigType
<1>3. CASE name = "--psk"
  <2>1. v[1] \in STRING
    BY <1>0, <1>3 DEF Values
  <2>2. c = [config EXCEPT !.network_psk = v[1]]
    BY <1>3 DEF WithNamed
  <2> QED BY <2>1, <2>2 DEF ConfigType
<1>4. CASE name = "--com"
  <2> DEFINE d == [path |-> v[1], boudrate |-> Number[v[2]]]
             ds == Append(config.com_devices, d)
  <2>1. v[1] \in STRING
    BY <1>0, <1>4 DEF Values
  <2>2. Number[v[2]] \in Int
    BY <1>4, NumberType DEF Numbers, v
  <2>3. d \in ComType
    BY <2>1, <2>2 DEF ComType
  <2>4. ds \in Seq(ComType)
    <3>1. config.com_devices \in Seq(ComType)
      BY DEF ConfigType
    <3> HIDE DEF d
    <3> QED BY <2>3, <3>1
  <2>5. c = [config EXCEPT !.com_devices = ds]
    BY <1>4 DEF WithNamed
  <2> HIDE DEF c, ds
  <2> QED BY <2>4, <2>5 DEF ConfigType
<1>5. CASE name = "--socket"
  <2> DEFINE d == SocketInterface(v[1] = "server", v[2], Number[v[3]])
             ds == Append(config.socket_interfaces, d)
  <2>1. v[2] \in STRING
    BY <1>0, <1>5 DEF Values
  <2>2. Number[v[3]] \in Int
    BY <1>5, NumberType DEF Numbers, v
  <2>3. d \in SocketType
    BY <2>1, <2>2, SocketInterfaceType
  <2>4. ds \in Seq(SocketType)
    <3>1. config.socket_interfaces \in Seq(SocketType)
      BY DEF ConfigType
    <3> HIDE DEF d
    <3> QED BY <2>3, <3>1
  <2>5. c = [config EXCEPT !.socket_interfaces = ds]
    BY <1>5 DEF WithNamed
  <2> HIDE DEF c, ds
  <2> QED BY <2>4, <2>5 DEF ConfigType
<1>6. CASE name \in {"--config", "-c"}
  <2>1. v[1] \in STRING
    BY <1>0, <1>6 DEF Values
  <2>2. c = [config EXCEPT !.config_path = v[1]]
    BY <1>6 DEF WithNamed
  <2> QED BY <2>1, <2>2 DEF ConfigType
<1>7. CASE name = "--debug"
  <2>1. c = [config EXCEPT !.debug = TRUE]
    BY <1>7 DEF WithNamed
  <2> QED BY <2>1 DEF ConfigType
<1>8. CASE name \notin {"--net", "-n", "--addr", "-a", "--psk", "--com", "--socket",
                        "--config", "-c", "--debug"}
  <2>1. c = config
    BY <1>8 DEF WithNamed
  <2> QED BY <2>1
<1> QED BY <1>1, <1>2, <1>3, <1>4, <1>5, <1>6, <1>7, <1>8

LEMMA RelativeTyped ==
  ASSUME config \in ConfigType, relative_index \in Nat, NEW word \in STRING,
         ~(relative_index \in {1, 2} /\ Throws(word))
  PROVE  WithRelative(word) \in ConfigType
<1> DEFINE c == WithRelative(word)
<1> SUFFICES c \in ConfigType
  OBVIOUS
<1>1. CASE relative_index = 0
  <2>1. c = [config EXCEPT !.action_type = word]
    BY <1>1 DEF WithRelative
  <2> QED BY <2>1 DEF ConfigType
<1>2. CASE relative_index \in {1, 2}
  <2>1. Number[word] \in Int
    BY <1>2, NumberType
  <2>2. \/ c = [config EXCEPT !.device_addr = Number[word]]
        \/ c = [config EXCEPT !.device_port = Number[word]]
    BY <1>2 DEF WithRelative
  <2> QED BY <2>1, <2>2 DEF ConfigType
<1>3. CASE relative_index = 3
  <2>1. c = [config EXCEPT !.action_name = word]
    BY <1>3 DEF WithRelative
  <2> QED BY <2>1 DEF ConfigType
<1>4. CASE relative_index \notin {0, 1, 2, 3}
  <2> DEFINE ws == Append(config.action_values, word)
  <2>1. c = [config EXCEPT !.action_values = ws]
    BY <1>4 DEF WithRelative
  <2>2. ws \in Seq(STRING)
    BY DEF ConfigType
  <2> HIDE DEF c, ws
  <2> QED BY <2>1, <2>2 DEF ConfigType
<1> QED BY <1>1, <1>2, <1>3, <1>4

LEMMA ProcessNamedArgumentTyped ==
  ASSUME TypeInv, ProcessNamedArgument
  PROVE  TypeInv'
<1> DEFINE name == Head(args)
           v == Peeked(name)
<1>1. args \in Seq(STRING) /\ config \in ConfigType /\ relative_index \in Nat
      /\ phase = "args"
  BY DEF TypeInv, TypeOK, ProcessNamedArgument
<1>2. Untried
  BY <1>1, NothingTried
<1>3. UNCHANGED <<build, interfaces>> /\ relative_index' = relative_index
  BY DEF ProcessNamedArgument
<1>4. CASE phase' = "thrown" /\ UNCHANGED <<args, config>>
  BY <1>1, <1>2, <1>3, <1>4, ReadingTyped
<1>5. CASE /\ ~\E word \in Numbers(name, v) : Throws(word)
           /\ args' = SubSeq(args, Read(name) + 1, Len(args))
           /\ config' = WithNamed(name, v) /\ UNCHANGED phase
  <2>1. config' \in ConfigType
    BY <1>1, <1>5, NamedTyped
  <2>2. Read(name) + 1 \in 2 .. 5
    BY <1>1, PeekedType DEF Read
  <2>3. args' \in Seq(STRING)
    <3> DEFINE n == Read(name) + 1
    <3>1. args' = SubSeq(args, n, Len(args)) /\ n \in 2 .. 5
      BY <1>5, <2>2
    <3> HIDE DEF n
    <3>2. \A i \in n .. Len(args) : args[i] \in STRING
      BY <1>1, <3>1
    <3>3. Len(args) \in Int /\ n \in Int
      BY <1>1, <3>1
    <3> QED BY <3>1, <3>2, <3>3, SubSeqProperties
  <2> QED BY <1>1, <1>2, <1>3, <1>5, <2>1, <2>3, ReadingTyped
<1> QED BY <1>4, <1>5, Zenon DEF ProcessNamedArgument

LEMMA ProcessRelativeArgumentTyped ==
  ASSUME TypeInv, ProcessRelativeArgument
  PROVE  TypeInv'
<1> DEFINE word == Head(args)
<1>1. args \in Seq(STRING) /\ config \in ConfigType /\ relative_index \in Nat
      /\ phase = "args" /\ args # << >>
  BY DEF TypeInv, TypeOK, ProcessRelativeArgument
<1>2. Untried
  BY <1>1, NothingTried
<1>3. UNCHANGED <<build, interfaces>>
  BY DEF ProcessRelativeArgument
<1>4. CASE phase' = "thrown" /\ UNCHANGED <<args, relative_index, config>>
  BY <1>1, <1>2, <1>3, <1>4, ReadingTyped
<1>5. CASE /\ ~(relative_index \in {1, 2} /\ Throws(word))
           /\ args' = Tail(args) /\ config' = WithRelative(word)
           /\ relative_index' = relative_index + 1 /\ UNCHANGED phase
  <2>1. word \in STRING /\ args' \in Seq(STRING)
    BY <1>1, <1>5
  <2>2. config' \in ConfigType
    BY <1>1, <1>5, <2>1, RelativeTyped
  <2>3. relative_index' \in Nat
    BY <1>1, <1>5
  <2> QED BY <1>1, <1>2, <1>3, <1>5, <2>1, <2>2, <2>3, ReadingTyped
<1> QED BY <1>4, <1>5, Zenon DEF ProcessRelativeArgument

LEMMA ArgsReadTyped ==
  ASSUME TypeInv, ArgsRead
  PROVE  TypeInv'
<1>1. args \in Seq(STRING) /\ config \in ConfigType /\ relative_index \in Nat
      /\ phase = "args"
  BY DEF TypeInv, TypeOK, ArgsRead
<1>2. Untried
  BY <1>1, NothingTried
<1>3. UNCHANGED <<build, interfaces>> /\ UNCHANGED <<args, relative_index, config>>
      /\ phase' \in {"register", "file"}
  BY DEF ArgsRead, parser
<1> QED BY <1>1, <1>2, <1>3, ReadingTyped

\* What a file adds to a configuration.
LEMMA FileTyped ==
  ASSUME config \in ConfigType, NEW path \in DOMAIN Files, "sockets" \in DOMAIN Files[path]
  PROVE  WithFile(Files[path]) \in ConfigType
<1> DEFINE file == Files[path]
           net  == ValueOr(file.fresh, "net", "")
           psk  == ValueOr(file.fresh, "psk", "")
           addr == ValueOr(file.fresh, "addr", 0)
           ss   == config.socket_interfaces \o FileSockets(file)
           cs   == config.com_devices \o FileComs(file)
           c    == [config EXCEPT !.network_addr = addr, !.network_name = net,
                                  !.network_psk = psk, !.socket_interfaces = ss,
                                  !.com_devices = cs]
<1>1. net \in STRING /\ psk \in STRING /\ addr \in Int
      /\ FileSockets(file) \in Seq(SocketType) /\ FileComs(file) \in Seq(ComType)
  BY FilesAssumption, FileTypes, Zenon
<1>2. config.socket_interfaces \in Seq(SocketType) /\ config.com_devices \in Seq(ComType)
  BY DEF ConfigType
<1>3. ss \in Seq(SocketType) /\ cs \in Seq(ComType)
  BY <1>1, <1>2, ConcatProperties
<1>4. WithFile(file) = c
  BY Zenon DEF WithFile
<1>5. c \in ConfigType
  <2> HIDE DEF net, psk, addr, ss, cs
  <2> QED BY <1>1, <1>3 DEF ConfigType
<1> QED BY <1>4, <1>5, Zenon

LEMMA PerformConfigTomlTyped ==
  ASSUME TypeInv, PerformConfigToml
  PROVE  TypeInv'
<1>1. args \in Seq(STRING) /\ config \in ConfigType /\ relative_index \in Nat
      /\ phase = "file"
  BY DEF TypeInv, TypeOK, PerformConfigToml
<1>2. Untried
  BY <1>1, NothingTried
<1>3. UNCHANGED <<build, interfaces>> /\ UNCHANGED <<args, relative_index>>
  BY DEF PerformConfigToml, parser
<1>4. CASE phase' \in {"exit", "crash"} /\ UNCHANGED config
  BY <1>1, <1>2, <1>3, <1>4, ReadingTyped
<1>5. CASE /\ config.config_path \in DOMAIN Files
           /\ "sockets" \in DOMAIN Files[config.config_path]
           /\ phase' = "register" /\ config' = WithFile(Files[config.config_path])
  <2>1. config' \in ConfigType
    BY <1>1, <1>5, FileTyped
  <2> QED BY <1>1, <1>2, <1>3, <1>5, <2>1, ReadingTyped
<1> QED BY <1>4, <1>5, Zenon DEF PerformConfigToml

LEMMA GivenSocketType == \A socket \in SocketType : AsGiven(socket) \in MadeType
<1> SUFFICES ASSUME NEW c \in SocketType PROVE AsGiven(c) \in MadeType
  BY Zenon
<1> DEFINE P == -(2^15) .. 2^15 - 1
<1>1. c \in [is_server : BOOLEAN, hostname : STRING, port : P]
  BY Zenon DEF SocketType
<1>2. \A i \in P : i \in Int
  BY Sixteen DEF Half
<1> HIDE DEF P
<1>3. c.port \in Int
  BY <1>1, <1>2
<1>4. UShort(c.port) \in Int
  BY <1>3, ShortIs, RestBound, Zenon
<1> DEFINE port == UShort(c.port)
<1> HIDE DEF port
<1>5. [c EXCEPT !.port = port] \in [is_server : BOOLEAN, hostname : STRING, port : Int]
  BY <1>1, <1>4 DEF port
<1> QED BY <1>5, Zenon DEF AsGiven, MadeType, port

\* The interface main has come to.
LEMMA CurrentType ==
  ASSUME TypeInv, Registering
  PROVE  /\ tried \in Nat /\ tried + 1 \in DOMAIN Interfaces
         /\ IsSocket => Current \in SocketType /\ AsGiven(Current) \in MadeType
         /\ ~IsSocket => Current \in ComType /\ Current \in MadeType
<1>1. config \in ConfigType /\ tried \in 0 .. Len(Interfaces) /\ tried < Len(Interfaces)
  BY DEF TypeInv, TypeOK, Registering
<1> DEFINE s == config.socket_interfaces
           t == config.com_devices
<1>2. /\ s \in Seq(SocketType) /\ t \in Seq(ComType)
      /\ s \o t \in Seq(SocketType \cup ComType)
      /\ Len(s \o t) = Len(s) + Len(t)
      /\ \A i \in 1 .. Len(s) : (s \o t)[i] \in SocketType
      /\ \A i \in Len(s) + 1 .. Len(s \o t) : (s \o t)[i] \in ComType
  BY <1>1, InterfacesType, Zenon
<1>3. Interfaces = s \o t
  BY DEF Interfaces
<1> HIDE DEF s, t
<1>4. Len(s) \in Nat /\ Len(t) \in Nat
  BY <1>2
<1>5. tried \in Nat /\ tried + 1 \in 1 .. Len(s \o t) /\ DOMAIN Interfaces = 1 .. Len(s \o t)
  BY <1>1, <1>2, <1>3, <1>4
<1>6. CASE IsSocket
  <2>1. tried + 1 \in 1 .. Len(s)
    BY <1>4, <1>5, <1>6 DEF IsSocket, s
  <2>2. Current \in SocketType
    BY <1>2, <1>3, <2>1 DEF Current
  <2>3. AsGiven(Current) \in MadeType
    BY <2>2, GivenSocketType
  <2> QED BY <1>5, <1>6, <2>2, <2>3
<1>7. CASE ~IsSocket
  <2>1. tried + 1 \in Len(s) + 1 .. Len(s \o t)
    BY <1>4, <1>5, <1>7 DEF IsSocket, s
  <2>2. Current \in ComType
    BY <1>2, <1>3, <2>1 DEF Current
  <2> QED BY <1>5, <1>7, <2>2 DEF MadeType
<1> QED BY <1>6, <1>7

\* An interface is made, or is not and main ends or goes on without it.
LEMMA RegisteringTyped ==
  ASSUME TypeInv, Registering, UNCHANGED <<build, parser, config>>,
         \/ /\ UNCHANGED <<phase, failed>>
            /\ \E i \in MadeType : registered' = Append(registered, i)
         \/ phase' = "exit" /\ UNCHANGED <<registered, failed>>
         \/ UNCHANGED <<phase, registered>> /\ failed' = failed \cup {tried'}
  PROVE  TypeInv'
<1>1. /\ line' = line /\ order' = order /\ args' = args
      /\ relative_index' = relative_index /\ config' = config
  BY DEF build, parser
<1>2. Interfaces' = Interfaces
  BY <1>1 DEF Interfaces
<1>3. tried \in 0 .. Len(Interfaces) /\ tried < Len(Interfaces) /\ tried' = tried + 1
      /\ phase = "register" /\ failed \subseteq 1 .. tried
      /\ Len(registered) + Cardinality(failed) = tried
      /\ registered \in Seq(MadeType)
  BY DEF TypeInv, TypeOK, Registering
<1>4. Len(Interfaces) \in Nat
  <2>1. Len(config.socket_interfaces \o config.com_devices) \in Nat
    BY InterfacesType, LenProperties, Zenon DEF TypeInv, TypeOK
  <2> QED BY <2>1 DEF Interfaces
<1>5. tried \in Nat /\ tried' \in 0 .. Len(Interfaces') /\ tried' > 0
  BY <1>2, <1>3, <1>4
<1>6. IsFiniteSet(failed) /\ Cardinality(failed) \in Nat
  <2>1. IsFiniteSet(1 .. tried) /\ failed \in SUBSET (1 .. tried)
    BY <1>3, <1>5, FS_Interval
  <2>2. IsFiniteSet(failed)
    BY <2>1, FS_Subset, Zenon
  <2> QED BY <2>2, FS_CardinalityType, Zenon
<1>7. tried' \notin failed
  BY <1>3, <1>5
<1>8. /\ failed' \subseteq 1 .. tried' /\ registered' \in Seq(MadeType)
      /\ phase' \in {"register", "exit"}
      /\ Len(registered') + Cardinality(failed') =
           IF phase' = "exit" /\ tried' > 0 THEN tried' - 1 ELSE tried'
  <2>1. CASE /\ UNCHANGED <<phase, failed>>
             /\ \E i \in MadeType : registered' = Append(registered, i)
    <3>1. registered' \in Seq(MadeType) /\ Len(registered') = Len(registered) + 1
      BY <1>3, <2>1, AppendProperties
    <3>2. Len(registered) \in Nat
      BY <1>3
    <3> QED BY <1>3, <1>5, <1>6, <2>1, <3>1, <3>2
  <2>2. CASE phase' = "exit" /\ UNCHANGED <<registered, failed>>
    BY <1>3, <1>5, <1>6, <2>2
  <2>3. CASE UNCHANGED <<phase, registered>> /\ failed' = failed \cup {tried'}
    <3>1. Cardinality(failed') = Cardinality(failed) + 1
      BY <1>6, <1>7, <2>3, FS_AddElement
    <3>2. Len(registered) \in Nat
      BY <1>3
    <3> QED BY <1>3, <1>5, <1>6, <2>3, <3>1, <3>2
  <2> QED BY <2>1, <2>2, <2>3
<1>9. /\ line' \in Lines /\ order' \in Orders
      /\ relative_index' \in Nat /\ args' \in Seq(STRING) /\ config' \in ConfigType
  BY <1>1 DEF TypeInv, TypeOK
<1>10. phase' \in {"args", "file", "register", "running", "thrown", "exit", "crash"}
  BY <1>8
<1>11. TypeOK'
  BY <1>5, <1>8, <1>9, <1>10, Zenon DEF TypeOK
<1> QED BY <1>8, <1>11, Zenon DEF TypeInv

LEMMA StepTyped ==
  ASSUME TypeInv, [Next]_vars
  PROVE  TypeInv'
<1>1. CASE ProcessNamedArgument
  BY <1>1, ProcessNamedArgumentTyped
<1>2. CASE ProcessRelativeArgument
  BY <1>2, ProcessRelativeArgumentTyped
<1>3. CASE ArgsRead
  BY <1>3, ArgsReadTyped
<1>4. CASE PerformConfigToml
  BY <1>4, PerformConfigTomlTyped
<1>5. CASE RegisterFreshSocketServer
  <2>1. Registering /\ AsGiven(Current) \in MadeType
    BY <1>5, CurrentType DEF RegisterFreshSocketServer
  <2>2. \/ AddInterface(AsGiven(Current))
        \/ phase' = "exit" /\ UNCHANGED <<build, parser, config, registered, failed>>
    BY <1>5, Zenon DEF RegisterFreshSocketServer
  <2> QED BY <2>1, <2>2, RegisteringTyped DEF AddInterface
<1>6. CASE RegisterFreshSocketClient
  <2>1. Registering /\ AsGiven(Current) \in MadeType
    BY <1>6, CurrentType DEF RegisterFreshSocketClient
  <2>2. \/ AddInterface(AsGiven(Current))
        \/ failed' = failed \cup {tried'}
           /\ UNCHANGED <<build, parser, config, phase, registered>>
    BY <1>6, Zenon DEF RegisterFreshSocketClient
  <2> QED BY <2>1, <2>2, RegisteringTyped DEF AddInterface
<1>7. CASE RegisterFreshComDevice
  <2>1. Registering /\ Current \in MadeType /\ AddInterface(Current)
    BY <1>7, CurrentType DEF RegisterFreshComDevice
  <2> QED BY <2>1, RegisteringTyped DEF AddInterface
<1>8. CASE Run
  <2>1. /\ phase = "register" /\ phase' = "running"
        /\ UNCHANGED <<build, parser, config, interfaces>>
    BY <1>8 DEF Run
  <2>2. /\ UNCHANGED <<line, order, args, relative_index, config, tried,
                       registered, failed>>
        /\ Interfaces' = Interfaces
    BY <2>1 DEF build, parser, interfaces, Interfaces
  <2> QED BY <2>1, <2>2 DEF TypeInv, TypeOK
<1>9. CASE UNCHANGED vars
  <2>1. /\ UNCHANGED <<line, order, args, relative_index, config, phase, tried,
                       registered, failed>>
        /\ Interfaces' = Interfaces
    BY <1>9 DEF vars, build, parser, interfaces, Interfaces
  <2> QED BY <2>1 DEF TypeInv, TypeOK
<1> QED BY <1>1, <1>2, <1>3, <1>4, <1>5, <1>6, <1>7, <1>8, <1>9, Zenon DEF Next

LEMMA AlwaysTyped == Spec => []TypeInv
BY InitTyped, StepTyped, PTL DEF Spec

\* In every reachable state the configuration is one the code can hold, and the
\* interfaces tried are those made and those that could not be, but for a server
\* the program exits on.
THEOREM TypeCorrect == Spec => []TypeOK
<1>1. TypeInv => TypeOK
  BY DEF TypeInv
<1> QED BY <1>1, AlwaysTyped, PTL

-----------------------------------------------------------------------------
(* How many interfaces were tried. *)

\* The interfaces as the mesh controller is given them.
Given ==
  [i \in DOMAIN Interfaces |->
     IF i <= Len(config.socket_interfaces) THEN AsGiven(Interfaces[i])
     ELSE Interfaces[i]]

RegisterInv ==
  LET made == IF phase = "exit" /\ tried > 0 THEN tried - 1 ELSE tried
  IN  /\ tried \in 0 .. Len(Interfaces)
      /\ tried > 0 => phase \in {"register", "running", "exit"}
      /\ phase = "running" => tried = Len(Interfaces)
      /\ failed \subseteq 1 .. made
      /\ registered = ElementsAt(Given, (1 .. made) \ failed)
      /\ \A i \in failed : /\ i <= Len(config.socket_interfaces)
                           /\ ~Interfaces[i].is_server

\* Interfaces are made of configured ones.
LEMMA GivenType ==
  ASSUME TypeInv
  PROVE  Given \in Seq(MadeType) /\ Len(Given) = Len(Interfaces)
         /\ DOMAIN Interfaces = 1 .. Len(Interfaces) /\ Len(Interfaces) \in Nat
<1>1. config \in ConfigType
  BY DEF TypeInv, TypeOK
<1> DEFINE s == config.socket_interfaces
           n == Len(Interfaces)
<1>2. /\ s \in Seq(SocketType)
      /\ Interfaces \in Seq(SocketType \cup ComType)
      /\ \A i \in 1 .. Len(s) : Interfaces[i] \in SocketType
      /\ \A i \in Len(s) + 1 .. n : Interfaces[i] \in ComType
  BY <1>1, InterfacesType, Zenon DEF Interfaces
<1>3. n \in Nat /\ DOMAIN Interfaces = 1 .. n /\ Len(s) \in Nat
  BY <1>2, LenProperties
<1>4. ASSUME NEW i \in 1 .. n
      PROVE  (IF i <= Len(s) THEN AsGiven(Interfaces[i]) ELSE Interfaces[i]) \in MadeType
  <2>1. CASE i <= Len(s)
    <3>1. i \in 1 .. Len(s)
      BY <1>3, <2>1
    <3>2. Interfaces[i] \in SocketType
      BY <1>2, <3>1, Zenon
    <3> QED BY <2>1, <3>2, GivenSocketType, Zenon
  <2>2. CASE ~(i <= Len(s))
    <3>1. i \in Len(s) + 1 .. n
      BY <1>3, <2>2
    <3>2. Interfaces[i] \in ComType
      BY <1>2, <3>1, Zenon
    <3> QED BY <2>2, <3>2, Zenon DEF MadeType
  <2> QED BY <2>1, <2>2
<1>5. Given = [i \in 1 .. n |-> IF i <= Len(s) THEN AsGiven(Interfaces[i]) ELSE Interfaces[i]]
  BY <1>3, Zenon DEF Given
<1>6. Given \in [1 .. n -> MadeType]
  BY <1>4, <1>5, Zenon
<1> HIDE DEF n
<1>7. Given \in Seq(MadeType) /\ Len(Given) = n
  BY <1>3, <1>6
<1> QED BY <1>3, <1>7 DEF n

\* Nothing is registered before main comes to it.
LEMMA NothingRegistered == TypeInv /\ Untried /\ phase # "running" => RegisterInv
<1> SUFFICES ASSUME TypeInv, Untried, phase # "running" PROVE RegisterInv
  OBVIOUS
<1>1. tried = 0 /\ failed = {} /\ registered = << >>
  BY DEF Untried, TypeInv
<1>2. ElementsAt(Given, {}) = << >>
  BY NoElements, Zenon
<1>3. (1 .. 0) \ {} = {}
  OBVIOUS
<1>4. registered = ElementsAt(Given, (1 .. 0) \ failed) /\ failed \subseteq 1 .. 0
  BY <1>1, <1>2, <1>3
<1>5. ~(phase = "exit" /\ tried > 0) /\ tried \in 0 .. Len(Interfaces)
  BY <1>1, GivenType
<1> QED BY <1>1, <1>4, <1>5 DEF RegisterInv

LEMMA NothingRegisteredNext ==
  ASSUME TypeInv, Untried, [Next]_vars, UNCHANGED interfaces, phase' # "running"
  PROVE  RegisterInv'
<1>1. TypeInv'
  BY StepTyped
<1>2. Untried'
  BY DEF Untried, interfaces
<1>3. (TypeInv /\ Untried /\ phase # "running" => RegisterInv)'
  BY NothingRegistered, PTL
<1> QED BY <1>1, <1>2, <1>3, Zenon

\* The next interface is made, or is not.
LEMMA RegisteringKept ==
  ASSUME TypeInv, RegisterInv, Registering, UNCHANGED <<build, config>>,
         \/ /\ UNCHANGED <<phase, failed>>
            /\ registered' = Append(registered, Given[tried + 1])
         \/ phase' = "exit" /\ UNCHANGED <<registered, failed>>
         \/ /\ UNCHANGED <<phase, registered>> /\ failed' = failed \cup {tried'}
            /\ IsSocket /\ ~Current.is_server
  PROVE  RegisterInv'
<1>1. /\ Given \in Seq(MadeType) /\ Len(Given) = Len(Interfaces)
      /\ DOMAIN Interfaces = 1 .. Len(Interfaces) /\ Len(Interfaces) \in Nat
  BY GivenType
<1>2. /\ config' = config /\ Interfaces' = Interfaces
      /\ Given' = Given
  BY DEF build, Interfaces, Given
<1>3. tried \in 0 .. Len(Interfaces) /\ tried < Len(Interfaces) /\ tried' = tried + 1
      /\ phase = "register"
  BY DEF RegisterInv, Registering
<1>4. /\ failed \subseteq 1 .. tried
      /\ registered = ElementsAt(Given, (1 .. tried) \ failed)
      /\ \A i \in failed : /\ i <= Len(config.socket_interfaces)
                           /\ ~Interfaces[i].is_server
  BY <1>3 DEF RegisterInv
<1> DEFINE m == tried + 1
           S == (1 .. tried) \ failed
<1>5. m \in 1 .. Len(Given) /\ m - 1 = tried /\ tried \in Nat
  BY <1>1, <1>3
<1>6. ElementsAt(Given, S \cup {m}) = Append(ElementsAt(Given, S), Given[m])
  <2>1. S \in SUBSET (1 .. m - 1)
    BY <1>5
  <2> HIDE DEF m, S
  <2> QED BY <1>1, <1>5, <2>1, ElementsStep
<1>7. /\ tried' \in 0 .. Len(Interfaces') /\ tried' > 0
      /\ (1 .. tried') \ failed = S \cup {m}
      /\ (1 .. tried') \ (failed \cup {tried'}) = S
      /\ tried' - 1 = tried /\ failed \subseteq 1 .. tried'
  BY <1>1, <1>2, <1>3, <1>4, <1>5
<1>8. CASE UNCHANGED <<phase, failed>> /\ registered' = Append(registered, Given[m])
  <2>1. /\ registered' = ElementsAt(Given', (1 .. tried') \ failed')
        /\ failed' \subseteq 1 .. tried' /\ phase' = "register"
        /\ \A i \in failed' : /\ i <= Len(config'.socket_interfaces)
                              /\ ~Interfaces'[i].is_server
    <3> HIDE DEF m, S
    <3> QED BY <1>2, <1>3, <1>4, <1>6, <1>7, <1>8 DEF S
  <2> QED BY <1>7, <2>1 DEF RegisterInv
<1>9. CASE phase' = "exit" /\ UNCHANGED <<registered, failed>>
  <2>1. /\ registered' = ElementsAt(Given', (1 .. tried' - 1) \ failed')
        /\ failed' \subseteq 1 .. tried' - 1
        /\ \A i \in failed' : /\ i <= Len(config'.socket_interfaces)
                              /\ ~Interfaces'[i].is_server
    BY <1>2, <1>4, <1>7, <1>9
  <2> QED BY <1>7, <1>9, <2>1 DEF RegisterInv
<1>10. CASE /\ UNCHANGED <<phase, registered>> /\ failed' = failed \cup {tried'}
            /\ IsSocket /\ ~Current.is_server
  <2>1. m <= Len(config.socket_interfaces) /\ ~Interfaces[m].is_server
    <3>1. Len(config.socket_interfaces) \in Nat
      BY DEF TypeInv, TypeOK, ConfigType
    <3> QED BY <1>5, <1>10, <3>1 DEF IsSocket, Current
  <2>2. /\ registered' = ElementsAt(Given', (1 .. tried') \ failed')
        /\ failed' \subseteq 1 .. tried' /\ phase' = "register"
    BY <1>2, <1>3, <1>4, <1>7, <1>10
  <2>3. \A i \in failed' : /\ i <= Len(config'.socket_interfaces)
                           /\ ~Interfaces'[i].is_server
    BY <1>2, <1>3, <1>4, <1>10, <2>1
  <2> QED BY <1>7, <2>2, <2>3 DEF RegisterInv
<1> QED BY <1>8, <1>9, <1>10

\* The one main has come to is what it registers.
LEMMA GivenCurrent ==
  ASSUME TypeInv, Registering
  PROVE  Given[tried + 1] = IF IsSocket THEN AsGiven(Current) ELSE Current
<1>1. tried + 1 \in DOMAIN Interfaces /\ tried \in Nat
  BY CurrentType
<1>2. Len(config.socket_interfaces) \in Nat
  BY DEF TypeInv, TypeOK, ConfigType
<1>3. tried + 1 <= Len(config.socket_interfaces) <=> IsSocket
  BY <1>1, <1>2 DEF IsSocket
<1> QED BY <1>1, <1>3, Zenon DEF Given, Current

LEMMA StepRegisters ==
  ASSUME TypeInv, RegisterInv, [Next]_vars
  PROVE  RegisterInv'
<1>1. CASE ProcessNamedArgument
  <2>1. phase = "args" /\ UNCHANGED interfaces /\ phase' # "running"
    BY <1>1 DEF ProcessNamedArgument
  <2> QED BY <2>1, NothingTried, NothingRegisteredNext
<1>2. CASE ProcessRelativeArgument
  <2>1. phase = "args" /\ UNCHANGED interfaces /\ phase' # "running"
    BY <1>2 DEF ProcessRelativeArgument
  <2> QED BY <2>1, NothingTried, NothingRegisteredNext
<1>3. CASE ArgsRead
  <2>1. phase = "args" /\ UNCHANGED interfaces /\ phase' # "running"
    BY <1>3 DEF ArgsRead
  <2> QED BY <2>1, NothingTried, NothingRegisteredNext
<1>4. CASE PerformConfigToml
  <2>1. phase = "file" /\ UNCHANGED interfaces /\ phase' # "running"
    BY <1>4 DEF PerformConfigToml
  <2> QED BY <2>1, NothingTried, NothingRegisteredNext
<1>5. CASE RegisterFreshSocketServer
  <2>1. Registering /\ IsSocket
    BY <1>5 DEF RegisterFreshSocketServer
  <2>2. Given[tried + 1] = AsGiven(Current)
    BY <2>1, GivenCurrent
  <2>3. \/ AddInterface(Given[tried + 1])
        \/ phase' = "exit" /\ UNCHANGED <<build, parser, config, registered, failed>>
    BY <1>5, <2>2, Zenon DEF RegisterFreshSocketServer
  <2> QED BY <2>1, <2>3, RegisteringKept DEF AddInterface
<1>6. CASE RegisterFreshSocketClient
  <2>1. Registering /\ IsSocket /\ ~Current.is_server
    BY <1>6 DEF RegisterFreshSocketClient
  <2>2. Given[tried + 1] = AsGiven(Current)
    BY <2>1, GivenCurrent
  <2>3. \/ AddInterface(Given[tried + 1])
        \/ /\ failed' = failed \cup {tried'}
           /\ UNCHANGED <<build, parser, config, phase, registered>>
    BY <1>6, <2>2, Zenon DEF RegisterFreshSocketClient
  <2> QED BY <2>1, <2>3, RegisteringKept DEF AddInterface
<1>7. CASE RegisterFreshComDevice
  <2>1. Registering /\ ~IsSocket /\ AddInterface(Current)
    BY <1>7 DEF RegisterFreshComDevice
  <2>2. Given[tried + 1] = Current
    BY <2>1, GivenCurrent
  <2> QED BY <2>1, <2>2, RegisteringKept DEF AddInterface
<1>8. CASE Run
  <2>1. /\ phase = "register" /\ phase' = "running" /\ tried = Len(Interfaces)
        /\ UNCHANGED <<build, parser, config, interfaces>>
    BY <1>8 DEF Run
  <2>2. /\ UNCHANGED <<config, tried, registered, failed>>
        /\ Interfaces' = Interfaces /\ Given' = Given
    BY <2>1 DEF build, interfaces, Interfaces, Given
  <2> QED BY <2>1, <2>2 DEF RegisterInv
<1>9. CASE UNCHANGED vars
  <2>1. /\ UNCHANGED <<config, phase, tried, registered, failed>>
        /\ Interfaces' = Interfaces /\ Given' = Given
    BY <1>9 DEF vars, build, interfaces, Interfaces, Given
  <2> QED BY <2>1 DEF RegisterInv
<1> QED BY <1>1, <1>2, <1>3, <1>4, <1>5, <1>6, <1>7, <1>8, <1>9, Zenon DEF Next

LEMMA AlwaysRegistered == Spec => []RegisterInv
<1>1. Init => RegisterInv
  <2> SUFFICES ASSUME Init PROVE RegisterInv
    OBVIOUS
  <2>1. TypeInv /\ phase = "args"
    BY InitTyped DEF Init
  <2> QED BY <2>1, NothingTried, NothingRegistered
<1>2. TypeInv /\ RegisterInv /\ [Next]_vars => RegisterInv'
  BY StepRegisters
<1> QED BY <1>1, <1>2, AlwaysTyped, PTL DEF Spec

-----------------------------------------------------------------------------
(* The words that are left. *)

\* A sequence without its first c elements.
LEMMA SuffixOf ==
  ASSUME NEW S, NEW s \in Seq(S), NEW p \in 1 .. Len(s) + 1, NEW c \in Nat
  PROVE  LET t == SubSeq(s, p, Len(s))
         IN  /\ t \in Seq(S) /\ Len(t) = Len(s) + 1 - p
             /\ \A x \in 1 .. Len(t) : t[x] = s[p - 1 + x]
             /\ c <= Len(t) => SubSeq(t, c + 1, Len(t)) = SubSeq(s, p + c, Len(s))
             /\ c >= Len(t) => SubSeq(t, c + 1, Len(t)) = << >>
<1> DEFINE n == Len(s)
           t == SubSeq(s, p, n)
<1>1. n \in Nat /\ p \in Nat /\ \A i \in p .. n : s[i] \in S
  OBVIOUS
<1>2. t \in Seq(S) /\ Len(t) = n + 1 - p /\ \A x \in 1 .. Len(t) : t[x] = s[p - 1 + x]
  <2> HIDE DEF n
  <2>1. p \in Int /\ n \in Int /\ p <= n + 1
    BY <1>1 DEF n
  <2>2. /\ SubSeq(s, p, n) \in Seq(S)
        /\ Len(SubSeq(s, p, n)) = IF p <= n THEN n - p + 1 ELSE 0
        /\ \A i \in 1 .. n - p + 1 : SubSeq(s, p, n)[i] = s[p + i - 1]
    BY <1>1, <2>1, SubSeqProperties
  <2>3. Len(SubSeq(s, p, n)) = n + 1 - p
    BY <2>1, <2>2
  <2>4. ASSUME NEW x \in 1 .. n + 1 - p PROVE SubSeq(s, p, n)[x] = s[p - 1 + x]
    <3>1. x \in 1 .. n - p + 1 /\ p + x - 1 = p - 1 + x
      BY <2>1
    <3> QED BY <2>2, <3>1
  <2> QED BY <2>2, <2>3, <2>4
<1> DEFINE u == SubSeq(t, c + 1, Len(t))
<1>3. CASE c >= Len(t)
  <2>1. Len(t) \in Int /\ c + 1 \in Int /\ Len(t) < c + 1
    BY <1>1, <1>2, <1>3
  <2>2. u = << >>
    BY <2>1, SubSeqEmpty
  <2>3. c <= Len(t) => SubSeq(s, p + c, n) = << >>
    <3> SUFFICES ASSUME c <= Len(t) PROVE SubSeq(s, p + c, n) = << >>
      OBVIOUS
    <3> HIDE DEF n, t
    <3>1. p + c \in Int /\ n \in Int /\ n < p + c
      BY <1>1, <1>2, <1>3
    <3> QED BY <3>1, SubSeqEmpty
  <2> QED BY <1>2, <1>3, <2>2, <2>3
<1>4. CASE ~(c >= Len(t))
  <2> DEFINE w == SubSeq(s, p + c, n)
             m == Len(t) - c
  <2> HIDE DEF n
  <2>1. m \in Nat /\ m >= 1 /\ p + c <= n /\ n - (p + c) + 1 = m /\ p + c \in Int /\ n \in Int
        /\ Len(t) \in Int /\ c + 1 \in Int /\ Len(t) - (c + 1) + 1 = m
    <3> HIDE DEF t
    <3> QED BY <1>1, <1>2, <1>4
  <2>2. /\ w \in Seq(S) /\ Len(w) = m
        /\ \A i \in 1 .. m : w[i] = s[p + c + i - 1]
    <3>1. \A i \in p + c .. n : s[i] \in S
      BY <1>1, <2>1
    <3> QED BY <2>1, <3>1, SubSeqProperties
  <2>3. /\ u \in Seq(S) /\ Len(u) = m
        /\ \A i \in 1 .. m : u[i] = t[c + 1 + i - 1]
    <3>1. \A i \in c + 1 .. Len(t) : t[i] \in S
      <4> HIDE DEF t
      <4> QED BY <1>2
    <3> DEFINE a == c + 1
               b == Len(t)
    <3>2. a \in Int /\ b \in Int /\ a <= b /\ b - a + 1 = m
      BY <2>1
    <3> HIDE DEF t, m, a, b
    <3>3. /\ SubSeq(t, a, b) \in Seq(S) /\ Len(SubSeq(t, a, b)) = m
          /\ \A i \in 1 .. m : SubSeq(t, a, b)[i] = t[a + i - 1]
      <4>1. \A i \in a .. b : t[i] \in S
        BY <3>1 DEF a, b
      <4> QED BY <3>2, <4>1, SubSeqProperties
    <3> QED BY <3>3, Zenon DEF a, b
  <2>4. ASSUME NEW i \in 1 .. m PROVE u[i] = w[i]
    <3>1. c + 1 + i - 1 = c + i /\ c + i \in 1 .. Len(t)
          /\ p - 1 + (c + i) = p + c + i - 1
      <4> HIDE DEF t
      <4> QED BY <1>1, <1>2, <1>4, <2>1
    <3>2. t[c + i] = s[p - 1 + (c + i)]
      BY <1>2, <3>1, Zenon
    <3> HIDE DEF u, w, t
    <3> QED BY <2>2, <2>3, <3>1, <3>2
  <2>5. u = w
    <3> HIDE DEF u, w, t, m
    <3> QED BY <2>1, <2>2, <2>3, <2>4, SeqEqual
  <2> QED BY <1>1, <1>2, <1>4, <2>5 DEF n
<1> QED BY <1>3, <1>4

\* The words from the next item on.
LEMMA WordsLeft ==
  ASSUME line \in Lines, NEW k \in 0 .. Len(line) - 1,
         NEW j \in 0 .. Len(LineWords[k + 1])
  PROVE  LET words == WordsFrom(k, j)
             next  == LineWords[k + 1]
         IN  /\ words \in Seq(STRING) /\ next \in Seq(STRING)
             /\ Len(words) >= Len(next) - j
             /\ k + 1 = Len(line) => Len(words) = Len(next) - j
             /\ \A x \in 1 .. Len(next) - j : words[x] = next[j + x]
             /\ \A c \in Nat :
                  /\ c <= Len(words) =>
                       SubSeq(words, c + 1, Len(words)) = WordsFrom(k, j + c)
                  /\ c >= Len(words) => SubSeq(words, c + 1, Len(words)) = << >>
             /\ WordsFrom(k, Len(next)) = WordsFrom(k + 1, 0)
<1> DEFINE all == FlattenSeq(LineWords)
           a == Len(FirstJoined(LineWords, k))
           words == WordsFrom(k, j)
           next == LineWords[k + 1]
           n == Len(all)
<1>1. /\ LineWords \in Seq(Seq(STRING)) /\ Len(LineWords) = Len(line)
      /\ k \in 0 .. Len(LineWords) - 1
      /\ Len(line) \in Nat
  BY LineWordsType, LineType
<1>2. /\ all \in Seq(STRING) /\ a + Len(next) <= n
      /\ \A x \in 1 .. Len(next) : all[a + x] = next[x]
  BY <1>1, JoinedParts
<1>3. /\ next \in Seq(STRING)
      /\ Len(FirstJoined(LineWords, k + 1)) = a + Len(next)
  BY <1>1, FirstJoinedStep
<1>4. a \in Nat /\ n \in Nat /\ Len(next) \in Nat /\ k \in Nat
  <2>1. k \in 0 .. Len(LineWords)
    BY <1>1
  <2>2. FirstJoined(LineWords, k) \in Seq(STRING)
    BY <1>1, <2>1, FirstJoinedType
  <2> HIDE DEF next, all
  <2> QED BY <1>2, <1>3, <2>2
<1>5. k + 1 = Len(line) => n = a + Len(next)
  BY <1>1, <1>3, FlattenedIsJoined
<1>6. WordsFrom(k, j) = SubSeq(all, a + j + 1, n)
      /\ \A c : WordsFrom(k, j + c) = SubSeq(all, a + (j + c) + 1, n)
      /\ WordsFrom(k, Len(next)) = SubSeq(all, a + Len(next) + 1, n)
      /\ WordsFrom(k + 1, 0) = SubSeq(all, a + Len(next) + 0 + 1, n)
  BY <1>3, Zenon DEF WordsFrom
<1> DEFINE p == a + j + 1
<1> HIDE DEF all, a, words, next, n
<1>7. j \in 0 .. Len(next)
  BY DEF next
<1>8. p \in 1 .. Len(all) + 1 /\ p \in Nat /\ n = Len(all)
  BY <1>2, <1>4, <1>7 DEF n
<1>9. words = SubSeq(all, p, Len(all))
  BY <1>6, <1>8 DEF words
<1>10. /\ words \in Seq(STRING) /\ Len(words) = n + 1 - p
       /\ \A x \in 1 .. Len(words) : words[x] = all[p - 1 + x]
  <2> HIDE DEF p
  <2>1. 0 \in Nat
    OBVIOUS
  <2> QED BY <1>2, <1>8, <1>9, <2>1, SuffixOf
<1>11. Len(words) >= Len(next) - j /\ (k + 1 = Len(line) => Len(words) = Len(next) - j)
  BY <1>2, <1>4, <1>5, <1>7, <1>10
<1>12. ASSUME NEW x \in 1 .. Len(next) - j PROVE words[x] = next[j + x]
  <2>1. x \in 1 .. Len(words) /\ j + x \in 1 .. Len(next) /\ p - 1 + x = a + (j + x)
    BY <1>4, <1>7, <1>10, <1>11
  <2>2. words[x] = all[a + (j + x)]
    BY <1>10, <2>1
  <2> QED BY <1>2, <2>1, <2>2
<1>13. ASSUME NEW c \in Nat
       PROVE  /\ c <= Len(words) =>
                   SubSeq(words, c + 1, Len(words)) = WordsFrom(k, j + c)
              /\ c >= Len(words) => SubSeq(words, c + 1, Len(words)) = << >>
  <2>1. p + c = a + (j + c) + 1
    BY <1>4, <1>7
  <2> HIDE DEF p
  <2>2. /\ c <= Len(words) =>
             SubSeq(words, c + 1, Len(words)) = SubSeq(all, p + c, Len(all))
        /\ c >= Len(words) => SubSeq(words, c + 1, Len(words)) = << >>
    <3> DEFINE t == SubSeq(all, p, Len(all))
    <3>1. /\ c <= Len(t) => SubSeq(t, c + 1, Len(t)) = SubSeq(all, p + c, Len(all))
          /\ c >= Len(t) => SubSeq(t, c + 1, Len(t)) = << >>
      BY <1>2, <1>8, SuffixOf
    <3> QED BY <1>9, <3>1, Zenon
  <2> QED BY <1>6, <1>8, <2>1, <2>2
<1>14. WordsFrom(k, Len(next)) = WordsFrom(k + 1, 0)
  <2>1. a + Len(next) + 1 = a + Len(next) + 0 + 1
    BY <1>4
  <2> QED BY <1>6, <2>1
<1> QED BY <1>3, <1>10, <1>11, <1>12, <1>13, <1>14 DEF words, next

LEMMA NoWordsLeft ==
  ASSUME line \in Lines
  PROVE  WordsFrom(Len(line), 0) = << >>
<1> DEFINE all == FlattenSeq(LineWords)
           n == Len(all)
<1>1. FirstJoined(LineWords, Len(line)) = all /\ all \in Seq(STRING)
  BY LineWordsType, FlattenedIsJoined
<1>2. WordsFrom(Len(line), 0) = SubSeq(all, n + 0 + 1, n)
  BY <1>1, Zenon DEF WordsFrom
<1>3. n \in Int /\ n + 0 + 1 \in Int /\ n < n + 0 + 1
  BY <1>1
<1> QED BY <1>2, <1>3, SubSeqEmpty

\* The parser has come to a word unless it has come to the end.
LEMMA PlaceTyped ==
  ASSUME line \in Lines, NEW k \in Nat, NEW j \in Nat, ComeTo(k, j), args = WordsFrom(k, j)
  PROVE  \/ k = Len(line) /\ j = 0 /\ args = << >>
         \/ /\ k \in 0 .. Len(line) - 1 /\ k + 1 \in DOMAIN line
            /\ LineWords[k + 1] = Words(line[k + 1]) /\ LineWords[k + 1] \in Seq(STRING)
            /\ j \in 0 .. Len(LineWords[k + 1]) /\ j + 1 \in 1 .. Len(LineWords[k + 1])
            /\ args # << >> /\ Head(args) = LineWords[k + 1][j + 1]
<1>1. CASE k = Len(line) /\ j = 0
  BY <1>1, NoWordsLeft
<1>2. CASE k < Len(line) /\ j < Len(LineWords[k + 1])
  <2> DEFINE next == LineWords[k + 1]
  <2>1. k \in 0 .. Len(line) - 1 /\ k + 1 \in DOMAIN line
    BY <1>2, LineType
  <2>2. next = Words(line[k + 1]) /\ next \in Seq(STRING)
    BY <2>1, LineType, LineWordsType, WordsType
  <2>3. j \in 0 .. Len(next) /\ j + 1 \in 1 .. Len(next) /\ 1 \in 1 .. Len(next) - j
    <3>1. Len(next) \in Nat /\ j < Len(next)
      BY <1>2, <2>2
    <3> HIDE DEF next
    <3> QED BY <3>1
  <2>4. args \in Seq(STRING) /\ Len(args) >= Len(next) - j /\ args[1] = next[j + 1]
    BY <2>1, <2>3, WordsLeft
  <2> HIDE DEF next
  <2>5. args # << >> /\ Head(args) = args[1]
    <3>1. Len(args) >= 1
      BY <2>3, <2>4
    <3> QED BY <2>4, <3>1
  <2> QED BY <2>1, <2>2, <2>3, <2>4, <2>5 DEF next
<1> QED BY <1>1, <1>2 DEF ComeTo

-----------------------------------------------------------------------------
(* What the items say. *)

LEMMA TypedNone == \A names : TypedBy(0, names) = << >> /\ LastBy(0, names) = ""
<1> SUFFICES ASSUME NEW names PROVE TypedBy(0, names) = << >> /\ LastBy(0, names) = ""
  OBVIOUS
<1>1. UpTo(Naming(names), 0) = {}
  BY DEF UpTo
<1>2. TypedBy(0, names) = << >>
  BY <1>1, NoElements, Zenon DEF TypedBy
<1> QED BY <1>2, Zenon DEF LastBy

LEMMA TypedAll ==
  ASSUME line \in Lines, NEW names
  PROVE  TypedBy(Len(line), names) = Typed(names) /\ LastBy(Len(line), names) = LastTyped(names)
<1>1. UpTo(Naming(names), Len(line)) = Naming(names)
  BY LineType DEF UpTo, Naming
<1>2. TypedBy(Len(line), names) = Typed(names)
  BY <1>1, Zenon DEF TypedBy, Typed, Naming
<1> QED BY <1>2, Zenon DEF LastBy, LastTyped

\* One item more.
LEMMA TypedStep ==
  ASSUME line \in Lines, NEW k \in 0 .. Len(line) - 1, NEW names
  PROVE  LET item == line[k + 1]
         IN  /\ TypedBy(k, names) \in Seq(Item)
             /\ TypedBy(k + 1, names) = IF Is(item, names) THEN Append(TypedBy(k, names), item)
                                        ELSE TypedBy(k, names)
             /\ LastBy(k + 1, names) = IF Is(item, names) THEN Value(item, 1)
                                       ELSE LastBy(k, names)
<1> DEFINE item == line[k + 1]
           s == TypedBy(k, names)
           t == TypedBy(k + 1, names)
<1>1. line \in Seq(Item) /\ k + 1 \in DOMAIN line
  BY LineType
<1>2. k + 1 \in Naming(names) <=> Is(item, names)
  BY <1>1 DEF Naming
<1>3. /\ s \in Seq(Item)
      /\ t = IF k + 1 \in Naming(names) THEN Append(s, item) ELSE s
  BY <1>1, ElementsUpTo DEF TypedBy
<1>4. item \in Item
  BY <1>1, LineType
<1>5. CASE Is(item, names)
  <2> HIDE DEF s, t, item
  <2>1. t = Append(s, item)
    BY <1>2, <1>3, <1>5
  <2>2. t # << >> /\ t[Len(t)] = item
    BY <1>3, <1>4, <2>1, AppendProperties
  <2>3. LastBy(k + 1, names) = Value(item, 1)
    BY <2>2, Zenon DEF LastBy, Last, t
  <2> QED BY <1>3, <1>5, <2>1, <2>3 DEF s, t, item
<1>6. CASE ~Is(item, names)
  <2>1. t = s
    BY <1>2, <1>3, <1>6
  <2>2. LastBy(k + 1, names) = LastBy(k, names)
    BY <2>1, Zenon DEF LastBy
  <2> QED BY <1>3, <1>6, <2>1, <2>2
<1> QED BY <1>5, <1>6

\* What is made of each element is added with it.
LEMMA MappedAppend ==
  ASSUME NEW E, NEW f, NEW s \in Seq(E), NEW e \in E
  PROVE  [i \in DOMAIN Append(s, e) |-> f[Append(s, e)[i]]]
           = Append([i \in DOMAIN s |-> f[s[i]]], f[e])
<1> DEFINE F == {f[x] : x \in E}
           t == Append(s, e)
           fs == [i \in DOMAIN s |-> f[s[i]]]
           ft == [i \in DOMAIN t |-> f[t[i]]]
           n == Len(s)
<1>1. n \in Nat /\ DOMAIN s = 1 .. n /\ t \in Seq(E) /\ Len(t) = n + 1 /\ DOMAIN t = 1 .. n + 1
      /\ t[n + 1] = e /\ \A i \in 1 .. n : t[i] = s[i] /\ s[i] \in E
  BY AppendProperties, LenProperties
<1>2. fs \in Seq(F) /\ Len(fs) = n /\ \A i \in 1 .. n : fs[i] = f[s[i]]
  <2>1. fs \in [1 .. n -> F]
    BY <1>1
  <2> HIDE DEF F, n
  <2>2. fs \in Seq(F)
    BY <1>1, <2>1
  <2> QED BY <1>1, <2>1, <2>2
<1>3. f[e] \in F
  OBVIOUS
<1>4. ft \in Seq(F) /\ Len(ft) = n + 1 /\ \A i \in 1 .. n + 1 : ft[i] = f[t[i]]
  <2>1. \A i \in 1 .. n + 1 : f[t[i]] \in F
    BY <1>1
  <2>2. ft \in [1 .. n + 1 -> F]
    <3> HIDE DEF F, n, t
    <3> QED BY <1>1, <2>1
  <2> HIDE DEF F, n, t
  <2>3. ft \in Seq(F)
    BY <1>1, <2>2
  <2> QED BY <1>1, <2>2, <2>3
<1> DEFINE u == Append(fs, f[e])
<1>5. u \in Seq(F) /\ Len(u) = n + 1 /\ u[n + 1] = f[e] /\ \A i \in 1 .. n : u[i] = fs[i]
  <2> HIDE DEF fs, F, n
  <2> QED BY <1>2, <1>3, AppendProperties
<1>6. ASSUME NEW i \in 1 .. n + 1 PROVE ft[i] = u[i]
  <2>1. CASE i = n + 1
    <3> HIDE DEF ft, u, t, n
    <3> QED BY <1>1, <1>4, <1>5, <2>1
  <2>2. CASE i # n + 1
    <3>1. i \in 1 .. n
      BY <1>1, <2>2
    <3> HIDE DEF ft, u, t, n, fs
    <3> QED BY <1>1, <1>2, <1>4, <1>5, <3>1
  <2> QED BY <2>1, <2>2
<1>7. ft = u
  <2> HIDE DEF ft, u, F, n
  <2> QED BY <1>4, <1>5, <1>6, SeqEqual
<1> QED BY <1>7

SocketOf(item) ==
  SocketInterface(Value(item, 1) = "server", Value(item, 2), Number[Value(item, 3)])

ComOf(item) == [path |-> Value(item, 1), boudrate |-> Number[Value(item, 2)]]

LEMMA InterfacesAppend ==
  ASSUME NEW s \in Seq(Item), NEW item \in Item
  PROVE  /\ Sockets(Append(s, item)) = Append(Sockets(s), SocketOf(item))
         /\ Coms(Append(s, item)) = Append(Coms(s), ComOf(item))
<1> DEFINE f == [x \in Item |-> SocketOf(x)]
           g == [x \in Item |-> ComOf(x)]
           t == Append(s, item)
<1>1. t \in Seq(Item)
  OBVIOUS
<1>2. \A r \in Seq(Item) : /\ Sockets(r) = [i \in DOMAIN r |-> f[r[i]]]
                           /\ Coms(r) = [i \in DOMAIN r |-> g[r[i]]]
  <2> TAKE r \in Seq(Item)
  <2>1. \A i \in DOMAIN r : r[i] \in Item
    OBVIOUS
  <2>2. \A i \in DOMAIN r : f[r[i]] = SocketOf(r[i]) /\ g[r[i]] = ComOf(r[i])
    BY <2>1, Zenon
  <2> QED BY <2>2, Zenon DEF Sockets, Coms, SocketOf, ComOf
<1>3. f[item] = SocketOf(item) /\ g[item] = ComOf(item)
  BY Zenon
<1> HIDE DEF f, g
<1>4. /\ [i \in DOMAIN t |-> f[t[i]]] = Append([i \in DOMAIN s |-> f[s[i]]], f[item])
      /\ [i \in DOMAIN t |-> g[t[i]]] = Append([i \in DOMAIN s |-> g[s[i]]], g[item])
  BY MappedAppend
<1> QED BY <1>1, <1>2, <1>3, <1>4, Zenon

\* An item that names no option changes nothing of what is said of the network.
LEMMA NamedSame ==
  ASSUME line \in Lines, NEW k \in 0 .. Len(line) - 1, NEW c, NamedBy(c, k),
         line[k + 1].opt \notin {"--net", "-n", "--psk", "--addr", "-a", "--config", "-c",
                                 "--debug", "--socket", "--com"}
  PROVE  NamedBy(c, k + 1)
<1>1. \A names \in {{"--addr", "-a"}, {"--net", "-n"}, {"--psk"}, {"--config", "-c"},
                    {"--debug"}, {"--socket"}, {"--com"}} : ~Is(line[k + 1], names)
  BY DEF Is
<1>2. \A names \in {{"--addr", "-a"}, {"--net", "-n"}, {"--psk"}, {"--config", "-c"},
                    {"--debug"}, {"--socket"}, {"--com"}} :
        TypedBy(k + 1, names) = TypedBy(k, names) /\ LastBy(k + 1, names) = LastBy(k, names)
  BY <1>1, TypedStep, Zenon
<1>3. /\ LastBy(k + 1, {"--addr", "-a"}) = LastBy(k, {"--addr", "-a"})
      /\ LastBy(k + 1, {"--net", "-n"}) = LastBy(k, {"--net", "-n"})
      /\ LastBy(k + 1, {"--psk"}) = LastBy(k, {"--psk"})
      /\ LastBy(k + 1, {"--config", "-c"}) = LastBy(k, {"--config", "-c"})
      /\ TypedBy(k + 1, {"--debug"}) = TypedBy(k, {"--debug"})
      /\ TypedBy(k + 1, {"--socket"}) = TypedBy(k, {"--socket"})
      /\ TypedBy(k + 1, {"--com"}) = TypedBy(k, {"--com"})
  BY <1>2, Zenon
<1> QED BY <1>3, Zenon DEF NamedBy

\* What an option with these values makes.
SocketOption(v) == SocketInterface(v[1] = "server", v[2], Number[v[3]])

ComOption(v) == [path |-> v[1], boudrate |-> Number[v[2]]]

\* The fields that an option sets, and those it leaves.
OptionSets(c, name, v) ==
  /\ c.network_name = IF name \in {"--net", "-n"} THEN v[1] ELSE config.network_name
  /\ c.network_addr = IF name \in {"--addr", "-a"} THEN Number[v[1]] ELSE config.network_addr
  /\ c.network_psk = IF name \in {"--psk"} THEN v[1] ELSE config.network_psk
  /\ c.config_path = IF name \in {"--config", "-c"} THEN v[1] ELSE config.config_path
  /\ c.debug = IF name \in {"--debug"} THEN TRUE ELSE config.debug
  /\ c.socket_interfaces =
       IF name \in {"--socket"} THEN Append(config.socket_interfaces, SocketOption(v))
       ELSE config.socket_interfaces
  /\ c.com_devices =
       IF name \in {"--com"} THEN Append(config.com_devices, ComOption(v))
       ELSE config.com_devices
  /\ c.action_type = config.action_type /\ c.device_addr = config.device_addr
  /\ c.device_port = config.device_port /\ c.action_name = config.action_name
  /\ c.action_values = config.action_values

LEMMA FieldsSet ==
  ASSUME config \in ConfigType, NEW name, NEW v
  PROVE  OptionSets(WithNamed(name, v), name, v)
<1> SUFFICES ASSUME NEW c, c = WithNamed(name, v), NEW d, d = ComOption(v),
                    NEW e, e = SocketOption(v)
             PROVE  OptionSets(c, name, v)
  OBVIOUS
<1>1. CASE name \in {"--net", "-n"}
  <2>1. c = [config EXCEPT !.network_name = v[1]]
    BY <1>1 DEF WithNamed
  <2> QED BY <1>1, <2>1 DEF ConfigType, OptionSets
<1>2. CASE name \in {"--addr", "-a"}
  <2>1. c = [config EXCEPT !.network_addr = Number[v[1]]]
    BY <1>2 DEF WithNamed
  <2> QED BY <1>2, <2>1 DEF ConfigType, OptionSets
<1>3. CASE name = "--psk"
  <2>1. c = [config EXCEPT !.network_psk = v[1]]
    BY <1>3 DEF WithNamed
  <2> QED BY <1>3, <2>1 DEF ConfigType, OptionSets
<1>4. CASE name \in {"--config", "-c"}
  <2>1. c = [config EXCEPT !.config_path = v[1]]
    BY <1>4 DEF WithNamed
  <2> QED BY <1>4, <2>1 DEF ConfigType, OptionSets
<1>5. CASE name = "--debug"
  <2>1. c = [config EXCEPT !.debug = TRUE]
    BY <1>5 DEF WithNamed
  <2> QED BY <1>5, <2>1 DEF ConfigType, OptionSets
<1>6. CASE name = "--socket"
  <2>1. c = [config EXCEPT !.socket_interfaces = Append(@, e)]
    BY <1>6 DEF WithNamed, SocketOption
  <2> QED BY <1>6, <2>1 DEF ConfigType, OptionSets
<1>7. CASE name = "--com"
  <2>1. c = [config EXCEPT !.com_devices = Append(@, d)]
    BY <1>7 DEF WithNamed, ComOption
  <2> QED BY <1>7, <2>1 DEF ConfigType, OptionSets
<1>8. CASE name \notin {"--net", "-n", "--addr", "-a", "--psk", "--config", "-c", "--debug",
                        "--socket", "--com"}
  <2>1. c = config
    BY <1>8 DEF WithNamed
  <2> QED BY <1>8, <2>1 DEF OptionSets
<1> QED BY <1>1, <1>2, <1>3, <1>4, <1>5, <1>6, <1>7, <1>8

\* An option says of the configuration what its values say.
LEMMA NamedStep ==
  ASSUME line \in Lines, config \in ConfigType, NEW k \in 0 .. Len(line) - 1,
         NamedBy(config, k), NEW v,
         \A i \in 1 .. Values(line[k + 1].opt) : v[i] = Value(line[k + 1], i),
         ~\E word \in Numbers(line[k + 1].opt, v) : Throws(word)
  PROVE  NamedBy(WithNamed(line[k + 1].opt, v), k + 1) /\ ~BadItem(line[k + 1])
<1> DEFINE item == line[k + 1]
           name == item.opt
           c == WithNamed(name, v)
<1>1. item \in Item
  BY LineType
<1>2. \A names : /\ TypedBy(k, names) \in Seq(Item)
                 /\ name \in names => /\ TypedBy(k + 1, names) = Append(TypedBy(k, names), item)
                                      /\ LastBy(k + 1, names) = Value(item, 1)
                 /\ name \notin names => /\ TypedBy(k + 1, names) = TypedBy(k, names)
                                         /\ LastBy(k + 1, names) = LastBy(k, names)
  BY TypedStep, Zenon DEF Is
<1>3. \A i \in 1 .. Values(name) : v[i] = Value(item, i)
  OBVIOUS
<1>4. \A word \in Numbers(name, v) : ~Throws(word)
  OBVIOUS
<1>5. NamedBy(config, k)
  OBVIOUS
<1> SUFFICES NamedBy(c, k + 1) /\ ~BadItem(item)
  OBVIOUS
<1> HIDE DEF item, name
<1>f. OptionSets(c, name, v)
  BY FieldsSet, Zenon
<1> HIDE DEF c
<1>6. c.network_name = LastBy(k + 1, {"--net", "-n"})
  <2>1. CASE name \in {"--net", "-n"}
    <3>1. v[1] = Value(item, 1)
      BY <1>3, <2>1 DEF Values
    <3> QED BY <1>2, <2>1, <3>1, <1>f, Zenon DEF OptionSets
  <2>2. CASE name \notin {"--net", "-n"}
    BY <1>2, <1>5, <2>2, <1>f, Zenon DEF NamedBy, OptionSets
  <2> QED BY <2>1, <2>2
<1>7. c.network_psk = LastBy(k + 1, {"--psk"})
  <2>1. CASE name \in {"--psk"}
    <3>1. v[1] = Value(item, 1)
      BY <1>3, <2>1 DEF Values
    <3> QED BY <1>2, <2>1, <3>1, <1>f, Zenon DEF OptionSets
  <2>2. CASE name \notin {"--psk"}
    BY <1>2, <1>5, <2>2, <1>f, Zenon DEF NamedBy, OptionSets
  <2> QED BY <2>1, <2>2
<1>8. c.config_path = LastBy(k + 1, {"--config", "-c"})
  <2>1. CASE name \in {"--config", "-c"}
    <3>1. v[1] = Value(item, 1)
      BY <1>3, <2>1 DEF Values
    <3> QED BY <1>2, <2>1, <3>1, <1>f, Zenon DEF OptionSets
  <2>2. CASE name \notin {"--config", "-c"}
    BY <1>2, <1>5, <2>2, <1>f, Zenon DEF NamedBy, OptionSets
  <2> QED BY <2>1, <2>2
<1>10. /\ LET addr == LastBy(k, {"--addr", "-a"})
          IN  config.network_addr = IF addr = "" THEN 0 ELSE Number[addr]
       /\ config.debug <=> TypedBy(k, {"--debug"}) # << >>
       /\ config.socket_interfaces = Sockets(TypedBy(k, {"--socket"}))
       /\ config.com_devices = Coms(TypedBy(k, {"--com"}))
  BY <1>5, Zenon DEF NamedBy
<1>11. LET addr == LastBy(k + 1, {"--addr", "-a"})
      IN  c.network_addr = IF addr = "" THEN 0 ELSE Number[addr]
  <2>1. CASE name \in {"--addr", "-a"}
    <3>1. v[1] = Value(item, 1)
      BY <1>3, <2>1 DEF Values
    <3>2. ~Throws(v[1])
      BY <1>4, <2>1 DEF Numbers
    <3>3. v[1] # ""
      BY <3>2, NumberAssumption, Zenon DEF Throws
    <3> QED BY <1>2, <1>f, <2>1, <3>1, <3>3, Zenon DEF OptionSets
  <2>2. CASE name \notin {"--addr", "-a"}
    BY <1>2, <1>f, <1>10, <2>2, Zenon DEF OptionSets
  <2> QED BY <2>1, <2>2
<1>12. c.debug <=> TypedBy(k + 1, {"--debug"}) # << >>
  <2>1. CASE name \in {"--debug"}
    <3> DEFINE s == TypedBy(k, {"--debug"})
    <3>1. Append(s, item) # << >>
      <4>1. s \in Seq(Item)
        BY <1>2
      <4> HIDE DEF s
      <4> QED BY <1>1, <4>1, AppendProperties DEF item
    <3> QED BY <1>2, <1>f, <2>1, <3>1, Zenon DEF OptionSets
  <2>2. CASE name \notin {"--debug"}
    BY <1>2, <1>f, <1>10, <2>2, Zenon DEF OptionSets
  <2> QED BY <2>1, <2>2
<1>13. c.socket_interfaces = Sockets(TypedBy(k + 1, {"--socket"}))
  <2>1. CASE name \in {"--socket"}
    <3>1. v[1] = Value(item, 1) /\ v[2] = Value(item, 2) /\ v[3] = Value(item, 3)
      BY <1>3, <2>1 DEF Values
    <3>2. Sockets(Append(TypedBy(k, {"--socket"}), item)) =
            Append(Sockets(TypedBy(k, {"--socket"})), SocketOf(item))
      BY <1>1, <1>2, InterfacesAppend, Zenon DEF item
    <3> QED BY <1>2, <1>f, <1>10, <2>1, <3>1, <3>2, Zenon DEF SocketOf, SocketOption, OptionSets
  <2>2. CASE name \notin {"--socket"}
    BY <1>2, <1>f, <1>10, <2>2, Zenon DEF OptionSets
  <2> QED BY <2>1, <2>2
<1>14. c.com_devices = Coms(TypedBy(k + 1, {"--com"}))
  <2>1. CASE name \in {"--com"}
    <3>1. v[1] = Value(item, 1) /\ v[2] = Value(item, 2)
      BY <1>3, <2>1 DEF Values
    <3>2. Coms(Append(TypedBy(k, {"--com"}), item)) =
            Append(Coms(TypedBy(k, {"--com"})), ComOf(item))
      BY <1>1, <1>2, InterfacesAppend, Zenon DEF item
    <3> QED BY <1>2, <1>f, <1>10, <2>1, <3>1, <3>2, Zenon DEF ComOf, ComOption, OptionSets
  <2>2. CASE name \notin {"--com"}
    BY <1>2, <1>f, <1>10, <2>2, Zenon DEF OptionSets
  <2> QED BY <2>1, <2>2
<1>15. ~BadItem(item)
  <2>1. CASE name \in {"--addr", "-a"}
    <3>1. v[1] = Value(item, 1) /\ ~Throws(v[1])
      BY <1>3, <1>4, <2>1 DEF Values, Numbers
    <3> QED BY <2>1, <3>1 DEF BadItem, Is, name
  <2>2. CASE name = "--com"
    <3>1. v[2] = Value(item, 2) /\ ~Throws(v[2])
      BY <1>3, <1>4, <2>2 DEF Values, Numbers
    <3> QED BY <2>2, <3>1 DEF BadItem, Is, name
  <2>3. CASE name = "--socket"
    <3>1. v[3] = Value(item, 3) /\ ~Throws(v[3])
      BY <1>3, <1>4, <2>3 DEF Values, Numbers
    <3> QED BY <2>3, <3>1 DEF BadItem, Is, name
  <2>4. CASE name \notin {"--addr", "-a", "--com", "--socket"}
    BY <2>4 DEF BadItem, Is, name
  <2> QED BY <2>1, <2>2, <2>3, <2>4
<1> QED BY <1>6, <1>7, <1>8, <1>11, <1>12, <1>13, <1>14, <1>15, Zenon DEF NamedBy

-----------------------------------------------------------------------------
(* What the parser makes of an option. *)

\* The options with two values or more are those InOrder speaks of.
LEMMA LeftUnlessOneValue ==
  ASSUME line \in Lines, InOrder, NEW k \in 0 .. Len(line) - 1,
         Values(line[k + 1].opt) \notin {0, 1}
  PROVE  order = "left"
<1> DEFINE names == {"--socket", "--com"}
           S == {i \in DOMAIN line : Is(line[i], names)}
<1>1. line \in Seq(Item) /\ k + 1 \in DOMAIN line /\ DOMAIN line = 1 .. Len(line)
  BY LineType
<1>2. line[k + 1].opt \in names
  BY DEF Values
<1>3. k + 1 \in S
  BY <1>1, <1>2 DEF Is
<1>4. S \in SUBSET (1 .. Len(line))
  BY <1>1
<1>5. Len(Typed(names)) = Cardinality(S) /\ IsFiniteSet(S)
  <2>1. Typed(names) = ElementsAt(line, S)
    BY Zenon DEF Typed
  <2> HIDE DEF S
  <2> QED BY <1>1, <1>4, <2>1, ElementsType
<1>6. Cardinality(S) # 0
  <2> HIDE DEF S
  <2> QED BY <1>3, <1>5, FS_EmptySet
<1>7. Typed(names) # << >>
  BY <1>5, <1>6
<1> QED BY <1>7 DEF InOrder

\* The parser has come to an option: it takes the values that were typed after it,
\* an empty word for each that is missing at the end of the line, and goes on
\* with the next item.
LEMMA OptionPeeked ==
  ASSUME line \in Lines, InOrder, NEW k \in 0 .. Len(line) - 1, ~OfAction(line[k + 1]),
         args = WordsFrom(k, 0)
  PROVE  LET item == line[k + 1]
         IN  /\ item.opt \in Dashed
             /\ \A i \in 1 .. Values(item.opt) : Peeked(item.opt)[i] = Value(item, i)
             /\ SubSeq(args, Read(item.opt) + 1, Len(args)) = WordsFrom(k + 1, 0)
<1> DEFINE item == line[k + 1]
           name == item.opt
           n == Values(name)
           m == Len(item.values)
           next == LineWords[k + 1]
<1>1. k + 1 \in DOMAIN line /\ item \in Item
  BY LineType
<1>2. /\ name \in Dashed
      /\ m \in Nat /\ n \in 0 .. 3 /\ m <= n
      /\ m = n \/ k + 1 = Len(line)
  <2>1. n \in 0 .. 3
    BY DEF Values
  <2>2. m \in Nat
    BY <1>1 DEF Item
  <2>3. name \in Dashed /\ m <= n /\ (m = n \/ k + 1 = Len(line))
    BY ItemFormed, Zenon
  <2> HIDE DEF m, n
  <2> QED BY <2>1, <2>2, <2>3
<1>3. /\ next = Words(item) /\ Len(next) = 1 + m
      /\ \A i \in 1 .. m : next[1 + i] = item.values[i]
  BY <1>1, LineWordsType, WordsType
<1> HIDE DEF next
<1>4. 0 \in 0 .. Len(next)
  BY <1>2, <1>3
<1>5. /\ args \in Seq(STRING) /\ Len(args) >= 1 + m
      /\ k + 1 = Len(line) => Len(args) = 1 + m
      /\ \A x \in 1 .. 1 + m : args[x] = next[x]
      /\ \A c \in Nat : /\ c <= Len(args) =>
                             SubSeq(args, c + 1, Len(args)) = WordsFrom(k, c)
                        /\ c >= Len(args) => SubSeq(args, c + 1, Len(args)) = << >>
      /\ WordsFrom(k, 1 + m) = WordsFrom(k + 1, 0)
  <2>1. LET words == WordsFrom(k, 0)
        IN  /\ words \in Seq(STRING)
            /\ Len(words) >= Len(next) - 0
            /\ k + 1 = Len(line) => Len(words) = Len(next) - 0
            /\ \A x \in 1 .. Len(next) - 0 : words[x] = next[0 + x]
            /\ \A c \in Nat :
                 /\ c <= Len(words) =>
                      SubSeq(words, c + 1, Len(words)) = WordsFrom(k, 0 + c)
                 /\ c >= Len(words) => SubSeq(words, c + 1, Len(words)) = << >>
            /\ WordsFrom(k, Len(next)) = WordsFrom(k + 1, 0)
    BY <1>4, WordsLeft DEF next
  <2> QED BY <1>2, <1>3, <2>1
<1> HIDE DEF m, n
<1>6. ASSUME NEW i \in 1 .. n PROVE Peek(1 + i) = Value(item, i)
  <2>1. CASE i <= m
    <3>1. 1 + i <= Len(args) /\ args[1 + i] = item.values[i]
      BY <1>2, <1>3, <1>5, <2>1
    <3> QED BY <2>1, <3>1 DEF Peek, Value, m
  <2>2. CASE ~(i <= m)
    <3>1. ~(1 + i <= Len(args))
      BY <1>2, <1>5, <2>2
    <3> QED BY <2>2, <3>1 DEF Peek, Value, m
  <2> QED BY <2>1, <2>2
<1>7. ASSUME NEW i \in 1 .. n PROVE Peeked(name)[i] = Peek(1 + i)
  <2>1. Peeked(name)[i] = Peek(1 + IF order = "left" THEN i ELSE n + 1 - i)
    BY DEF Peeked, n
  <2>2. CASE n \in {0, 1}
    BY <2>1, <2>2
  <2>3. CASE n \notin {0, 1}
    BY <2>1, <2>3, LeftUnlessOneValue DEF n
  <2> QED BY <2>2, <2>3
<1>8. SubSeq(args, 1 + n + 1, Len(args)) = WordsFrom(k + 1, 0)
  <2>1. CASE m = n
    BY <1>2, <1>5, <2>1
  <2>2. CASE m # n
    <3>1. k + 1 = Len(line) /\ 1 + n >= Len(args) /\ 1 + n \in Nat
      BY <1>2, <1>5, <2>2
    <3>2. SubSeq(args, 1 + n + 1, Len(args)) = << >>
      BY <1>5, <3>1
    <3> QED BY <3>1, <3>2, NoWordsLeft
  <2> QED BY <2>1, <2>2
<1> QED BY <1>2, <1>6, <1>7, <1>8 DEF Read, n

-----------------------------------------------------------------------------
(* What the parser makes of the words of the action. *)

LEMMA ActionWordsType ==
  ASSUME line \in Lines
  PROVE  /\ ActionWords \in Seq(Seq(STRING)) /\ Len(ActionWords) = Len(line)
         /\ \A i \in DOMAIN line :
              /\ OfAction(line[i]) => ActionWords[i] = Undashed(line[i].values)
              /\ ~OfAction(line[i]) => ActionWords[i] = << >>
         /\ Action = FlattenSeq(ActionWords)
<1>1. DOMAIN line = 1 .. Len(line) /\ Len(line) \in Nat
  BY LineType
<1>2. ASSUME NEW words \in Seq(STRING) PROVE Undashed(words) \in Seq(STRING)
  <2> DEFINE S == {i \in DOMAIN words : words[i] \notin Dashed}
  <2>1. S \in SUBSET (1 .. Len(words))
    OBVIOUS
  <2> HIDE DEF S
  <2>2. ElementsAt(words, S) \in Seq(STRING)
    BY <2>1, ElementsType
  <2> QED BY <2>2, Zenon DEF Undashed, S
<1>3. \A i \in DOMAIN line : /\ OfAction(line[i]) => ActionWords[i] = Undashed(line[i].values)
                             /\ ~OfAction(line[i]) => ActionWords[i] = << >>
  BY Zenon DEF ActionWords
<1>4. \A i \in DOMAIN line : ActionWords[i] \in Seq(STRING)
  <2> TAKE i \in DOMAIN line
  <2>1. Undashed(line[i].values) \in Seq(STRING)
    BY <1>2, LineType
  <2>2. << >> \in Seq(STRING)
    OBVIOUS
  <2> QED BY <1>3, <2>1, <2>2, Zenon
<1>5. DOMAIN ActionWords = DOMAIN line /\ ActionWords = [i \in DOMAIN line |-> ActionWords[i]]
  BY Zenon DEF ActionWords
<1>6. ActionWords \in Seq(Seq(STRING)) /\ Len(ActionWords) = Len(line)
  <2> DEFINE s == ActionWords
  <2>1. s = [i \in 1 .. Len(line) |-> s[i]] /\ \A i \in 1 .. Len(line) : s[i] \in Seq(STRING)
    BY <1>1, <1>4, <1>5, Zenon
  <2> HIDE DEF s
  <2>2. s \in [1 .. Len(line) -> Seq(STRING)]
    BY <2>1
  <2>3. s \in Seq(Seq(STRING)) /\ Len(s) = Len(line)
    BY <1>1, <2>2
  <2> QED BY <2>3 DEF s
<1>7. Action = FlattenSeq(ActionWords)
  BY Zenon DEF Action, ActionWords, OfAction
<1> QED BY <1>3, <1>6, <1>7, Zenon

\* An option adds no word to the action.
LEMMA SpokenOption ==
  ASSUME line \in Lines, NEW k \in 0 .. Len(line) - 1, ~OfAction(line[k + 1])
  PROVE  SpokenBy(k + 1, 0) = SpokenBy(k, 0) /\ SpokenBy(k, 0) \in Seq(STRING)
<1> DEFINE f == FirstJoined(ActionWords, k)
           g == FirstJoined(ActionWords, k + 1)
<1>1. /\ ActionWords \in Seq(Seq(STRING)) /\ Len(ActionWords) = Len(line)
      /\ k + 1 \in DOMAIN line
  BY ActionWordsType, LineType
<1>2. ActionWords[k + 1] = << >>
  BY <1>1, ActionWordsType
<1>3. k \in 0 .. Len(ActionWords)
  BY <1>1
<1>4. f \in Seq(STRING) /\ g = f \o ActionWords[k + 1]
  BY <1>1, <1>3, FirstJoinedType, FirstJoinedStep
<1>5. g = f
  <2> HIDE DEF f, g
  <2> QED BY <1>2, <1>4
<1> QED BY <1>4, <1>5, Zenon DEF SpokenBy

\* A word adds itself, unless it begins with '-'.
LEMMA SpokenWord ==
  ASSUME line \in Lines, NEW k \in 0 .. Len(line) - 1, OfAction(line[k + 1]),
         NEW j \in 0 .. Len(line[k + 1].values) - 1
  PROVE  LET words == line[k + 1].values
         IN  /\ SpokenBy(k, j) \in Seq(STRING)
             /\ SpokenBy(k, j + 1) =
                  IF words[j + 1] \notin Dashed THEN Append(SpokenBy(k, j), words[j + 1])
                  ELSE SpokenBy(k, j)
             /\ SpokenBy(k, j + 1) \in Seq(STRING)
             /\ SpokenBy(k, Len(words)) = SpokenBy(k + 1, 0)
             /\ StaysInFront(SpokenBy(k, j + 1), Action)
<1> DEFINE words == line[k + 1].values
           f == FirstJoined(ActionWords, k)
           g == FirstJoined(ActionWords, k + 1)
           s == SpokenIn(words, j)
           t == SpokenIn(words, j + 1)
           u == SpokenIn(words, Len(words))
           w == words[j + 1]
<1>1. /\ ActionWords \in Seq(Seq(STRING)) /\ Len(ActionWords) = Len(line)
      /\ k + 1 \in DOMAIN line /\ words \in Seq(STRING)
      /\ Len(words) \in Nat /\ DOMAIN words = 1 .. Len(words)
      /\ Action = FlattenSeq(ActionWords)
  <2>1. /\ ActionWords \in Seq(Seq(STRING)) /\ Len(ActionWords) = Len(line)
        /\ Action = FlattenSeq(ActionWords)
    BY ActionWordsType, Zenon
  <2>2. k + 1 \in DOMAIN line /\ words \in Seq(STRING)
    BY LineType
  <2> HIDE DEF words
  <2>3. Len(words) \in Nat /\ DOMAIN words = 1 .. Len(words)
    BY <2>2
  <2> QED BY <2>1, <2>2, <2>3
<1>2. ActionWords[k + 1] = u
  <2>1. ActionWords[k + 1] = Undashed(words)
    BY <1>1, ActionWordsType
  <2>2. UpTo(Spoken(words), Len(words)) = Spoken(words)
    BY <1>1 DEF UpTo, Spoken
  <2> QED BY <2>1, <2>2, Zenon DEF Undashed, SpokenIn, Spoken
<1>3. /\ k \in 0 .. Len(ActionWords) /\ k + 1 \in 0 .. Len(ActionWords)
      /\ k \in 0 .. Len(ActionWords) - 1
  BY <1>1
<1>4. f \in Seq(STRING) /\ g = f \o u /\ u \in Seq(STRING) /\ StaysInFront(g, Action)
  BY <1>1, <1>2, <1>3, FirstJoinedType, FirstJoinedStep, JoinedInFront
<1>5. j + 1 \in Spoken(words) <=> w \notin Dashed
  BY <1>1 DEF Spoken
<1>6. /\ s \in Seq(STRING)
      /\ t = IF w \notin Dashed THEN Append(s, w) ELSE s
  BY <1>1, <1>5, ElementsUpTo DEF SpokenIn
<1>7. StaysInFront(t, u)
  BY <1>1, ElementsInFront DEF SpokenIn
<1>8. w \in STRING
  BY <1>1
<1>9. SpokenBy(k, j) = f \o s
  <2>1. CASE j = 0
    <3>1. UpTo(Spoken(words), j) = {}
      BY <2>1 DEF UpTo
    <3>2. s = << >>
      BY <3>1, NoElements, Zenon DEF SpokenIn
    <3>3. f \o s = f
      <4> HIDE DEF f, s
      <4> QED BY <1>4, <3>2
    <3> QED BY <2>1, <3>3, Zenon DEF SpokenBy
  <2>2. CASE j # 0
    BY <2>2, Zenon DEF SpokenBy
  <2> QED BY <2>1, <2>2
<1>10. SpokenBy(k, j + 1) = f \o t
  <2>1. j + 1 # 0
    OBVIOUS
  <2> QED BY <2>1, Zenon DEF SpokenBy
<1>11. SpokenBy(k, Len(words)) = f \o u /\ SpokenBy(k + 1, 0) = g
  <2>1. Len(words) # 0
    BY <1>1
  <2> QED BY <2>1, Zenon DEF SpokenBy
<1> HIDE DEF f, g, s, t, u, w
<1>12. t \in Seq(STRING)
  <2>1. Append(s, w) \in Seq(STRING)
    BY <1>6, <1>8
  <2> QED BY <1>6, <2>1, Zenon
<1>13. w \notin Dashed => f \o t = Append(f \o s, w)
  <2> SUFFICES ASSUME w \notin Dashed PROVE f \o Append(s, w) = Append(f \o s, w)
    BY <1>6
  <2> QED BY <1>4, <1>6, <1>8
<1>14. StaysInFront(f \o t, Action)
  <2>1. /\ Len(f) \in Nat /\ Len(t) \in Nat /\ Len(u) \in Nat /\ Len(t) <= Len(u)
        /\ \A i \in 1 .. Len(t) : u[i] = t[i]
    BY <1>4, <1>7, <1>12 DEF StaysInFront
  <2>2. /\ Len(f \o t) = Len(f) + Len(t)
        /\ \A i \in 1 .. Len(f) + Len(t) :
             (f \o t)[i] = IF i <= Len(f) THEN f[i] ELSE t[i - Len(f)]
    BY <1>4, <1>12, ConcatProperties
  <2>3. /\ Len(g) = Len(f) + Len(u)
        /\ \A i \in 1 .. Len(f) + Len(u) :
             g[i] = IF i <= Len(f) THEN f[i] ELSE u[i - Len(f)]
    BY <1>4, ConcatProperties
  <2> DEFINE h == f \o t
  <2>4. Len(h) = Len(f) + Len(t) /\ Len(h) <= Len(g)
    BY <2>1, <2>2, <2>3
  <2>5. \A i \in 1 .. Len(h) : g[i] = h[i]
    <3> TAKE i \in 1 .. Len(h)
    <3>1. i \in 1 .. Len(f) + Len(t) /\ i \in 1 .. Len(f) + Len(u)
      BY <2>1, <2>4
    <3>2. CASE i <= Len(f)
      BY <2>2, <2>3, <3>1, <3>2
    <3>3. CASE ~(i <= Len(f))
      <4>1. i - Len(f) \in 1 .. Len(t)
        BY <2>1, <3>1, <3>3
      <4>2. h[i] = t[i - Len(f)] /\ g[i] = u[i - Len(f)]
        BY <2>2, <2>3, <3>1, <3>3
      <4> QED BY <2>1, <4>1, <4>2
    <3> QED BY <3>2, <3>3
  <2>6. Len(g) <= Len(Action) /\ \A i \in 1 .. Len(g) : Action[i] = g[i]
    BY <1>4 DEF StaysInFront
  <2>7. Len(Action) \in Nat
    BY <1>1, JoinedParts, <1>3
  <2> HIDE DEF h
  <2>8. Len(h) <= Len(Action) /\ \A i \in 1 .. Len(h) : Action[i] = h[i]
    BY <2>1, <2>3, <2>4, <2>5, <2>6, <2>7
  <2> QED BY <2>8, Zenon DEF StaysInFront, h
<1>15. f \o s \in Seq(STRING) /\ f \o t \in Seq(STRING)
  BY <1>4, <1>6, <1>12
<1>16. w \in Dashed => t = s
  BY <1>6
<1> QED BY <1>4, <1>9, <1>10, <1>11, <1>13, <1>14, <1>15, <1>16, Zenon DEF w

-----------------------------------------------------------------------------
(* How the parser goes on. *)

LEMMA ActionItem ==
  ASSUME NEW item, OfAction(item)
  PROVE  /\ item.opt \notin {"--net", "-n", "--psk", "--addr", "-a", "--config", "-c",
                             "--debug", "--socket", "--com"}
         /\ ~BadItem(item)
<1>1. item.opt = ""
  BY Zenon DEF OfAction, Is
<1>2. item.opt \notin {"--net", "-n", "--psk", "--addr", "-a", "--config", "-c",
                       "--debug", "--socket", "--com"}
  BY <1>1, Zenon
<1> QED BY <1>2 DEF BadItem, Is

\* Every item has a word.
LEMMA ComesTo ==
  ASSUME line \in Lines
  PROVE  \A k \in 0 .. Len(line) : ComeTo(k, 0)
<1>0. DOMAIN line = 1 .. Len(line) /\ Len(line) \in Nat
  BY LineType, Zenon
<1>a. ComeTo(Len(line), 0)
  BY DEF ComeTo
<1> SUFFICES ASSUME NEW k \in 0 .. Len(line), k < Len(line) PROVE ComeTo(k, 0)
  BY <1>0, <1>a
<1>1. k \in 0 .. Len(line) - 1
  BY <1>0
<1>2. Len(LineWords[k + 1]) \in Nat /\ Len(LineWords[k + 1]) # 0
  <2> DEFINE item == line[k + 1]
             n == Len(item.values)
             words == Words(item)
  <2>1. k + 1 \in DOMAIN line /\ item \in Item /\ item.values \in Seq(STRING)
    <3>1. k + 1 \in DOMAIN line
      BY <1>0, <1>1
    <3> QED BY <3>1, LineType, Zenon
  <2>2. LineWords[k + 1] = words /\ words \in Seq(STRING)
    BY <2>1, LineWordsType, WordsType
  <2>3. n \in Nat
    BY <2>1
  <2>4. OfAction(item) => n # 0 /\ words = item.values
    BY <1>1, <2>1, ItemFormed, WordsType, Zenon
  <2>5. ~OfAction(item) => Len(words) = 1 + n
    BY <2>1, WordsType
  <2> HIDE DEF words, item
  <2>6. Len(words) \in Nat /\ Len(words) # 0
    BY <2>2, <2>3, <2>4, <2>5
  <2> QED BY <2>2, <2>6
<1> QED BY <1>1, <1>2 DEF ComeTo

\* After a word of the action comes the next word of the item, or the next item.
LEMMA NextPlace ==
  ASSUME line \in Lines, NEW k \in 0 .. Len(line) - 1, OfAction(line[k + 1]),
         NEW j \in 0 .. Len(line[k + 1].values) - 1, NEW c,
         NamedBy(c, k), \A i \in 1 .. k : ~BadItem(line[i])
  PROVE  \E k2, j2 \in Nat :
           /\ ComeTo(k2, j2)
           /\ WordsFrom(k2, j2) = WordsFrom(k, j + 1)
           /\ SpokenBy(k2, j2) = SpokenBy(k, j + 1)
           /\ NamedBy(c, k2) /\ \A i \in 1 .. k2 : ~BadItem(line[i])
<1> DEFINE item == line[k + 1]
           n == Len(item.values)
<1>1. /\ k + 1 \in DOMAIN line /\ item \in Item /\ item.values \in Seq(STRING)
      /\ Len(line) \in Nat
  BY LineType
<1>2. LineWords[k + 1] = item.values /\ n \in Nat
  <2>1. LineWords[k + 1] = item.values
    BY <1>1, LineWordsType, WordsType, Zenon
  <2> HIDE DEF item
  <2> QED BY <1>1, <2>1
<1>3. j \in Nat /\ j + 1 \in Nat /\ k \in Nat /\ k + 1 \in Nat /\ j + 1 <= n
  BY <1>1, <1>2
<1>4. CASE j + 1 < n
  <2>1. ComeTo(k, j + 1)
    BY <1>1, <1>2, <1>3, <1>4 DEF ComeTo
  <2> QED BY <1>3, <2>1, Zenon
<1>5. CASE j + 1 = n
  <2>1. ComeTo(k + 1, 0)
    BY <1>1, ComesTo
  <2>2. WordsFrom(k + 1, 0) = WordsFrom(k, j + 1)
    <3>1. 0 \in 0 .. Len(LineWords[k + 1])
      BY <1>2
    <3>2. WordsFrom(k, Len(LineWords[k + 1])) = WordsFrom(k + 1, 0)
      BY <3>1, WordsLeft, Zenon
    <3> QED BY <1>2, <1>5, <3>2
  <2>3. SpokenBy(k + 1, 0) = SpokenBy(k, j + 1)
    BY <1>5, SpokenWord
  <2>4. NamedBy(c, k + 1)
    BY ActionItem, NamedSame, Zenon
  <2>5. \A i \in 1 .. k + 1 : ~BadItem(line[i])
    <3>1. ~BadItem(line[k + 1])
      BY ActionItem, Zenon
    <3> QED BY <1>3, <3>1
  <2> QED BY <1>3, <2>1, <2>2, <2>3, <2>4, <2>5, Zenon
<1> QED BY <1>1, <1>2, <1>3, <1>4, <1>5

\* So what is said by then is said there.
LEMMA NextRead ==
  ASSUME line \in Lines, NEW k \in 0 .. Len(line) - 1, OfAction(line[k + 1]),
         NEW j \in 0 .. Len(line[k + 1].values) - 1, NEW c, NEW words, NEW index,
         NamedBy(c, k), words = WordsFrom(k, j + 1), index = Len(SpokenBy(k, j + 1)),
         ActionIs(c, SpokenBy(k, j + 1)), NumbersGood(k, SpokenBy(k, j + 1))
  PROVE  \E k2, j2 \in Nat : ReadBy(words, c, index, k2, j2)
<1>1. \A i \in 1 .. k : ~BadItem(line[i])
  BY Zenon DEF NumbersGood
<1>2. PICK k2 \in Nat, j2 \in Nat :
        /\ ComeTo(k2, j2)
        /\ WordsFrom(k2, j2) = WordsFrom(k, j + 1)
        /\ SpokenBy(k2, j2) = SpokenBy(k, j + 1)
        /\ NamedBy(c, k2) /\ \A i \in 1 .. k2 : ~BadItem(line[i])
  BY <1>1, NextPlace, Zenon
<1>3. ReadBy(words, c, index, k2, j2)
  BY <1>2, Zenon DEF ReadBy, NumbersGood
<1> QED BY <1>3, Zenon

LEMMA ActionItemWords ==
  ASSUME line \in Lines, NEW k \in 0 .. Len(line) - 1, OfAction(line[k + 1])
  PROVE  LineWords[k + 1] = line[k + 1].values
<1>1. DOMAIN line = 1 .. Len(line) /\ Len(line) \in Nat
  BY LineType, Zenon
<1>2. k + 1 \in DOMAIN line
  BY <1>1
<1>3. LineWords[k + 1] = Words(line[k + 1]) /\ line[k + 1] \in Item
  BY <1>2, LineType, LineWordsType, Zenon
<1> QED BY <1>3, WordsType, Zenon

LEMMA ActionSeq ==
  ASSUME line \in Lines
  PROVE  Action \in Seq(STRING)
<1>1. ActionWords \in Seq(Seq(STRING)) /\ Action = FlattenSeq(ActionWords)
  BY ActionWordsType, Zenon
<1>2. Len(ActionWords) \in 0 .. Len(ActionWords)
  BY <1>1
<1>3. FirstJoined(ActionWords, Len(ActionWords)) \in Seq(STRING)
  BY <1>1, <1>2, FirstJoinedType
<1> QED BY <1>1, <1>3, FlattenedIsJoined

\* The action says nothing of the network.
LEMMA RelativeNamed ==
  ASSUME config \in ConfigType, NEW w, NEW k, NamedBy(config, k)
  PROVE  NamedBy(WithRelative(w), k)
<1> SUFFICES ASSUME NEW c, c = WithRelative(w) PROVE NamedBy(c, k)
  OBVIOUS
<1> DEFINE Kept ==
             /\ c.network_name = config.network_name /\ c.network_psk = config.network_psk
             /\ c.network_addr = config.network_addr /\ c.config_path = config.config_path
             /\ c.debug = config.debug /\ c.com_devices = config.com_devices
             /\ c.socket_interfaces = config.socket_interfaces
<1>1. CASE relative_index = 0
  <2>1. c = [config EXCEPT !.action_type = w]
    BY <1>1 DEF WithRelative
  <2>2. Kept
    BY <2>1 DEF ConfigType
  <2> QED BY <2>2, Zenon DEF NamedBy
<1>2. CASE relative_index = 1
  <2>1. c = [config EXCEPT !.device_addr = Number[w]]
    BY <1>2 DEF WithRelative
  <2>2. Kept
    BY <2>1 DEF ConfigType
  <2> QED BY <2>2, Zenon DEF NamedBy
<1>3. CASE relative_index = 2
  <2>1. c = [config EXCEPT !.device_port = Number[w]]
    BY <1>3 DEF WithRelative
  <2>2. Kept
    BY <2>1 DEF ConfigType
  <2> QED BY <2>2, Zenon DEF NamedBy
<1>4. CASE relative_index = 3
  <2>1. c = [config EXCEPT !.action_name = w]
    BY <1>4 DEF WithRelative
  <2>2. Kept
    BY <2>1 DEF ConfigType
  <2> QED BY <2>2, Zenon DEF NamedBy
<1>5. CASE relative_index \notin {0, 1, 2, 3}
  <2>1. c = [config EXCEPT !.action_values = Append(@, w)]
    BY <1>5 DEF WithRelative
  <2>2. Kept
    BY <2>1 DEF ConfigType
  <2> QED BY <2>2, Zenon DEF NamedBy
<1> QED BY <1>1, <1>2, <1>3, <1>4, <1>5

\* What one more word says of the action.
LEMMA ActionStep ==
  ASSUME config \in ConfigType, NEW s \in Seq(STRING), ActionIs(config, s),
         relative_index = Len(s), NEW w \in STRING
  PROVE  ActionIs(WithRelative(w), Append(s, w))
<1> DEFINE n == Len(s)
           t == Append(s, w)
           c == WithRelative(w)
<1>0. OneMore(t, s, w)
  BY Appended, Zenon
<1>1. /\ n \in Nat /\ Len(t) = n + 1 /\ t[n + 1] = w
      /\ \A i \in 1 .. n : t[i] = s[i]
  BY <1>0, Zenon DEF OneMore
<1>3. /\ n < 4 => SubSeq(t, 5, n + 1) = SubSeq(s, 5, n)
      /\ ~(n < 4) => SubSeq(t, 5, n + 1) = Append(SubSeq(s, 5, n), w)
  BY <1>0, Zenon DEF OneMore
<1>r. relative_index = n
  OBVIOUS
<1> DEFINE v == config.action_values
<1> SUFFICES ActionIs(c, t)
  OBVIOUS
<1> HIDE DEF c, n, t
<1>2. /\ n >= 1 => config.action_type = t[1]
      /\ n >= 2 => config.device_addr = Number[t[2]]
      /\ n >= 3 => config.device_port = Number[t[3]]
      /\ n >= 4 => config.action_name = t[4]
      /\ v = SubSeq(s, 5, n)
  BY <1>1 DEF ActionIs, n
<1>4. CASE n = 0
  <2>1. c = [config EXCEPT !.action_type = w]
    BY <1>4, <1>r DEF WithRelative, c
  <2>2. /\ c.action_type = w /\ c.device_addr = config.device_addr
        /\ c.device_port = config.device_port /\ c.action_name = config.action_name
        /\ c.action_values = v
    BY <2>1 DEF ConfigType
  <2> QED BY <1>1, <1>2, <1>3, <1>4, <2>2 DEF ActionIs
<1>5. CASE n = 1
  <2>1. c = [config EXCEPT !.device_addr = Number[w]]
    BY <1>5, <1>r DEF WithRelative, c
  <2>2. /\ c.device_addr = Number[w] /\ c.action_type = config.action_type
        /\ c.device_port = config.device_port /\ c.action_name = config.action_name
        /\ c.action_values = v
    BY <2>1 DEF ConfigType
  <2> QED BY <1>1, <1>2, <1>3, <1>5, <2>2 DEF ActionIs
<1>6. CASE n = 2
  <2>1. c = [config EXCEPT !.device_port = Number[w]]
    BY <1>6, <1>r DEF WithRelative, c
  <2>2. /\ c.device_port = Number[w] /\ c.action_type = config.action_type
        /\ c.device_addr = config.device_addr /\ c.action_name = config.action_name
        /\ c.action_values = v
    BY <2>1 DEF ConfigType
  <2> QED BY <1>1, <1>2, <1>3, <1>6, <2>2 DEF ActionIs
<1>7. CASE n = 3
  <2>1. c = [config EXCEPT !.action_name = w]
    BY <1>7, <1>r DEF WithRelative, c
  <2>2. /\ c.action_name = w /\ c.action_type = config.action_type
        /\ c.device_addr = config.device_addr /\ c.device_port = config.device_port
        /\ c.action_values = v
    BY <2>1 DEF ConfigType
  <2> QED BY <1>1, <1>2, <1>3, <1>7, <2>2 DEF ActionIs
<1>8. CASE n \notin {0, 1, 2, 3}
  <2>1. c = [config EXCEPT !.action_values = Append(@, w)]
    BY <1>8, <1>r DEF WithRelative, c
  <2>2. /\ c.action_values = Append(v, w) /\ c.action_type = config.action_type
        /\ c.device_addr = config.device_addr /\ c.device_port = config.device_port
        /\ c.action_name = config.action_name
    BY <2>1 DEF ConfigType
  <2>3. n >= 4 /\ n + 1 >= 4
    BY <1>1, <1>8
  <2>4. c.action_values = SubSeq(t, 5, Len(t))
    BY <1>1, <1>2, <1>3, <2>2, <2>3
  <2> QED BY <1>1, <1>2, <2>2, <2>3, <2>4 DEF ActionIs
<1> QED BY <1>1, <1>4, <1>5, <1>6, <1>7, <1>8

\* No number so far is none, and the next one is a number.
LEMMA NumbersStep ==
  ASSUME NEW k, NEW s \in Seq(STRING), NumbersGood(k, s), NEW w \in STRING,
         ~(Len(s) \in {1, 2} /\ Throws(w))
  PROVE  NumbersGood(k, Append(s, w))
<1> DEFINE t == Append(s, w)
           n == Len(s)
<1>0. OneMore(t, s, w)
  BY Appended, Zenon
<1>1. /\ n \in Nat /\ Len(t) = n + 1 /\ t[n + 1] = w
      /\ DOMAIN s = 1 .. n /\ DOMAIN t = 1 .. n + 1
      /\ \A i \in 1 .. n : t[i] = s[i]
  BY <1>0, Zenon DEF OneMore
<1>n. ~(n \in {1, 2} /\ Throws(w))
  OBVIOUS
<1>2. \A i \in {2, 3} \cap DOMAIN t : ~Throws(t[i])
  <2> HIDE DEF n, t
  <2> TAKE i \in {2, 3} \cap DOMAIN t
  <2>1. CASE i = n + 1
    <3>1. i \in {2, 3}
      OBVIOUS
    <3>2. n \in {1, 2}
      BY <1>1, <2>1, <3>1
    <3>3. t[i] = w
      BY <1>1, <2>1, Zenon
    <3> QED BY <1>n, <3>2, <3>3
  <2>2. CASE i # n + 1
    <3>1. i \in {2, 3} \cap DOMAIN s /\ t[i] = s[i]
      BY <1>1, <2>2
    <3> QED BY <3>1 DEF NumbersGood
  <2> QED BY <2>1, <2>2
<1> QED BY <1>2 DEF NumbersGood

\* Behind a word of the action are the words after it.
LEMMA WordAfter ==
  ASSUME line \in Lines, NEW k \in 0 .. Len(line) - 1, OfAction(line[k + 1]),
         NEW j \in 0 .. Len(line[k + 1].values) - 1,
         args \in Seq(STRING), args = WordsFrom(k, j)
  PROVE  /\ SubSeq(args, 1 + 1, Len(args)) = WordsFrom(k, j + 1)
         /\ Tail(args) = WordsFrom(k, j + 1)
<1> DEFINE words == line[k + 1].values
<1>1. words \in Seq(STRING)
  <2>1. DOMAIN line = 1 .. Len(line) /\ Len(line) \in Nat
    BY LineType, Zenon
  <2>2. k + 1 \in DOMAIN line
    BY <2>1
  <2> QED BY <2>2, LineType, Zenon
<1>2. LineWords[k + 1] = words
  BY ActionItemWords, Zenon
<1>3. j \in 0 .. Len(LineWords[k + 1]) /\ Len(words) >= j + 1 /\ Len(words) \in Nat
  BY <1>1, <1>2
<1>4. /\ Len(args) >= Len(words) - j
      /\ \A c \in Nat : c <= Len(args) =>
           SubSeq(args, c + 1, Len(args)) = WordsFrom(k, j + c)
  BY <1>2, <1>3, WordsLeft, Zenon
<1>5. 1 <= Len(args) /\ Tail(args) = SubSeq(args, 1 + 1, Len(args))
  <2> HIDE DEF words
  <2> QED BY <1>3, <1>4
<1> QED BY <1>4, <1>5

\* The parser has come to a word of the action.
LEMMA WordRead ==
  ASSUME TypeInv, NEW k \in 0 .. Len(line) - 1, OfAction(line[k + 1]),
         NEW j \in 0 .. Len(line[k + 1].values) - 1, ReadTo(k, j),
         line[k + 1].values[j + 1] \notin Dashed
  PROVE  LET w == line[k + 1].values[j + 1]
         IN  IF relative_index \in {1, 2} /\ Throws(w) THEN Malformed
             ELSE \E k2, j2 \in Nat :
                    ReadBy(Tail(args), WithRelative(w), relative_index + 1, k2, j2)
<1> DEFINE words == line[k + 1].values
           w == words[j + 1]
           s == SpokenBy(k, j)
           t == SpokenBy(k, j + 1)
<1>1. line \in Lines /\ config \in ConfigType /\ args \in Seq(STRING)
  BY DEF TypeInv, TypeOK
<1>2. words \in Seq(STRING) /\ w \in STRING
  <2>1. k + 1 \in DOMAIN line /\ words \in Seq(STRING)
    <3>1. DOMAIN line = 1 .. Len(line) /\ Len(line) \in Nat
      BY <1>1, LineType, Zenon
    <3>2. k + 1 \in DOMAIN line
      BY <3>1
    <3> QED BY <1>1, <3>2, LineType, Zenon
  <2>2. Len(words) \in Nat /\ j \in 0 .. Len(words) - 1
    BY <2>1
  <2> HIDE DEF words
  <2> QED BY <2>1, <2>2
<1>3. s \in Seq(STRING) /\ t = Append(s, w) /\ StaysInFront(t, Action)
  BY <1>1, SpokenWord, Zenon
<1>4. /\ args = WordsFrom(k, j) /\ NamedBy(config, k) /\ relative_index = Len(s)
      /\ ActionIs(config, s) /\ NumbersGood(k, s)
  BY Zenon DEF ReadTo, ReadBy
<1>5. Tail(args) = WordsFrom(k, j + 1)
  BY <1>1, <1>4, WordAfter, Zenon
<1>6. CASE relative_index \in {1, 2} /\ Throws(w)
  <2> DEFINE i == Len(s) + 1
  <2> HIDE DEF s, t, w
  <2>0. Len(t) = i /\ t[i] = w
    <3>1. OneMore(t, s, w)
      BY <1>2, <1>3, Appended, Zenon
    <3> QED BY <3>1, Zenon DEF OneMore
  <2>1. i \in {2, 3} /\ Len(t) = i /\ t[i] = w
    <3>1. relative_index \in {1, 2} /\ i = relative_index + 1
      BY <1>4, <1>6
    <3>2. i \in {2, 3}
      <4> HIDE DEF i
      <4> QED BY <3>1
    <3> QED BY <2>0, <3>2, Zenon
  <2>2. Action \in Seq(STRING)
    BY <1>1, ActionSeq
  <2>3. i \in DOMAIN Action /\ Action[i] = w
    BY <1>3, <2>1, <2>2 DEF StaysInFront
  <2>4. i \in {2, 3} \cap DOMAIN Action /\ Throws(Action[i])
    BY <1>6, <2>1, <2>3
  <2> QED BY <1>6, <2>4, Zenon DEF Malformed, w
<1>7. CASE ~(relative_index \in {1, 2} /\ Throws(w))
  <2>1. ActionIs(WithRelative(w), t)
    BY <1>1, <1>2, <1>3, <1>4, ActionStep, Zenon
  <2>2. NumbersGood(k, t)
    BY <1>2, <1>3, <1>4, <1>7, NumbersStep, Zenon
  <2>3. relative_index + 1 = Len(t)
    <3> HIDE DEF s, t, w
    <3> QED BY <1>2, <1>3, <1>4, AppendProperties
  <2>4. NamedBy(WithRelative(w), k)
    BY <1>1, <1>4, RelativeNamed, Zenon
  <2>5. \E k2, j2 \in Nat :
          ReadBy(Tail(args), WithRelative(w), relative_index + 1, k2, j2)
    BY <1>1, <1>5, <2>1, <2>2, <2>3, <2>4, NextRead, Zenon
  <2> QED BY <1>7, <2>5, Zenon
<1> QED BY <1>6, <1>7

-----------------------------------------------------------------------------
(* What stays as it is while the line does. *)

LEMMA TypedKept ==
  ASSUME UNCHANGED line
  PROVE  \A names, k : /\ Typed(names)' = Typed(names) /\ LastTyped(names)' = LastTyped(names)
                       /\ TypedBy(k, names)' = TypedBy(k, names)
                       /\ LastBy(k, names)' = LastBy(k, names)
<1> TAKE names, k
<1>0. line' = line
  OBVIOUS
<1>1. Typed(names)' = Typed(names)
  BY <1>0, Zenon DEF Typed
<1>2. LastTyped(names)' = LastTyped(names)
  BY <1>1, Zenon DEF LastTyped
<1>3. Naming(names)' = Naming(names)
  BY <1>0, Zenon DEF Naming
<1>4. TypedBy(k, names)' = TypedBy(k, names)
  BY <1>0, <1>3, Zenon DEF TypedBy
<1>5. LastBy(k, names)' = LastBy(k, names)
  BY <1>4, Zenon DEF LastBy
<1> QED BY <1>1, <1>2, <1>4, <1>5

LEMMA WordsKept ==
  ASSUME UNCHANGED line
  PROVE  /\ Action' = Action
         /\ \A k, j : /\ ComeTo(k, j)' <=> ComeTo(k, j)
                      /\ WordsFrom(k, j)' = WordsFrom(k, j)
                      /\ SpokenBy(k, j)' = SpokenBy(k, j)
<1>0. line' = line
  OBVIOUS
<1>1. Action' = Action
  BY <1>0, Zenon DEF Action
<1>2. LineWords' = LineWords /\ ActionWords' = ActionWords
  BY <1>0, Zenon DEF LineWords, ActionWords
<1>3. ASSUME NEW k, NEW j
      PROVE  /\ ComeTo(k, j)' <=> ComeTo(k, j)
             /\ WordsFrom(k, j)' = WordsFrom(k, j)
             /\ SpokenBy(k, j)' = SpokenBy(k, j)
  <2>1. ComeTo(k, j)' <=> ComeTo(k, j)
    BY <1>0, <1>2, Zenon DEF ComeTo
  <2>2. WordsFrom(k, j)' = WordsFrom(k, j)
    BY <1>2, Zenon DEF WordsFrom
  <2>3. SpokenBy(k, j)' = SpokenBy(k, j)
    BY <1>0, <1>2, Zenon DEF SpokenBy
  <2> QED BY <2>1, <2>2, <2>3
<1> QED BY <1>1, <1>3

LEMMA LineKept ==
  ASSUME UNCHANGED <<line, order>>
  PROVE  /\ Malformed' <=> Malformed
         /\ InOrder' <=> InOrder
         /\ Path' = Path /\ File' = File /\ Settings' = Settings
<1>0. line' = line /\ order' = order
  OBVIOUS
<1>1. Malformed' <=> Malformed
  <2>1. Action' = Action
    BY WordsKept
  <2> QED BY <1>0, <2>1, Zenon DEF Malformed
<1>2. \A names : Typed(names)' = Typed(names) /\ LastTyped(names)' = LastTyped(names)
  BY TypedKept
<1>3. InOrder' <=> InOrder
  BY <1>0, <1>2, Zenon DEF InOrder
<1>4. Path' = Path
  BY <1>2, Zenon DEF Path
<1>5. File' = File
  BY <1>4, Zenon DEF File
<1>6. Settings' = Settings
  BY <1>2, <1>4, <1>5, Zenon DEF Settings
<1> QED BY <1>1, <1>3, <1>4, <1>5, <1>6

LEMMA ReadNext ==
  ASSUME UNCHANGED line, NEW k \in Nat, NEW j \in Nat,
         ReadBy(args', config', relative_index', k, j)
  PROVE  Reading'
<1>1. \A names : /\ TypedBy(k, names)' = TypedBy(k, names)
                 /\ LastBy(k, names)' = LastBy(k, names)
  BY TypedKept
<1>2. /\ ComeTo(k, j)' <=> ComeTo(k, j)
      /\ WordsFrom(k, j)' = WordsFrom(k, j)
      /\ SpokenBy(k, j)' = SpokenBy(k, j)
  BY WordsKept
<1>3. ComeTo(k, j)' /\ args' = WordsFrom(k, j)' /\ relative_index' = Len(SpokenBy(k, j)')
  BY <1>2, Zenon DEF ReadBy
<1>4. NamedBy(config, k)'
  <2>1. NamedBy(config', k)
    BY Zenon DEF ReadBy
  <2> QED BY <1>1, <2>1, Zenon DEF NamedBy
<1>5. ActionIs(config, SpokenBy(k, j))'
  <2>1. ActionIs(config', SpokenBy(k, j))
    BY Zenon DEF ReadBy
  <2> QED BY <1>2, <2>1, Zenon DEF ActionIs
<1>6. NumbersGood(k, SpokenBy(k, j))'
  <2>1. NumbersGood(k, SpokenBy(k, j))
    BY Zenon DEF ReadBy
  <2> QED BY <1>2, <2>1, Zenon DEF NumbersGood
<1>7. ReadTo(k, j)'
  BY <1>3, <1>4, <1>5, <1>6, Zenon DEF ReadTo, ReadBy
<1> QED BY <1>7, Zenon DEF Reading

-----------------------------------------------------------------------------
(* The parser reads on. *)

\* A value that is no number was typed as one.
LEMMA ThrownOption ==
  ASSUME NEW item, NEW v, \A i \in 1 .. Values(item.opt) : v[i] = Value(item, i),
         NEW word \in Numbers(item.opt, v), Throws(word)
  PROVE  BadItem(item)
<1> DEFINE name == item.opt
<1>1. CASE name \in {"--addr", "-a"}
  <2>1. v[1] = Value(item, 1) /\ word = v[1]
    BY <1>1 DEF Values, Numbers
  <2> QED BY <1>1, <2>1, Zenon DEF BadItem, Is
<1>2. CASE name = "--com"
  <2>1. v[2] = Value(item, 2) /\ word = v[2]
    BY <1>2 DEF Values, Numbers
  <2> QED BY <1>2, <2>1 DEF BadItem, Is
<1>3. CASE name = "--socket"
  <2>1. v[3] = Value(item, 3) /\ word = v[3]
    BY <1>3 DEF Values, Numbers
  <2> QED BY <1>3, <2>1 DEF BadItem, Is
<1>4. CASE name \notin {"--addr", "-a", "--com", "--socket"}
  BY <1>4 DEF Numbers
<1> QED BY <1>1, <1>2, <1>3, <1>4

\* An option says nothing of the action.
LEMMA ActionKept ==
  ASSUME config \in ConfigType, NEW name, NEW v, NEW s, ActionIs(config, s)
  PROVE  ActionIs(WithNamed(name, v), s)
<1> DEFINE c == WithNamed(name, v)
<1>1. OptionSets(c, name, v)
  BY FieldsSet, Zenon
<1> HIDE DEF c
<1>2. /\ c.action_type = config.action_type /\ c.device_addr = config.device_addr
      /\ c.device_port = config.device_port /\ c.action_name = config.action_name
      /\ c.action_values = config.action_values
  BY <1>1 DEF OptionSets
<1>3. ActionIs(c, s)
  BY <1>2, Zenon DEF ActionIs
<1> QED BY <1>3 DEF c

\* The parser has come to an option.
LEMMA OptionRead ==
  ASSUME TypeInv, InOrder, NEW k \in 0 .. Len(line) - 1, ~OfAction(line[k + 1]),
         ReadTo(k, 0)
  PROVE  LET name == line[k + 1].opt
             v    == Peeked(name)
         IN  /\ (\E word \in Numbers(name, v) : Throws(word)) => Malformed
             /\ (~\E word \in Numbers(name, v) : Throws(word)) =>
                  ReadBy(SubSeq(args, Read(name) + 1, Len(args)), WithNamed(name, v),
                         relative_index, k + 1, 0)
<1> DEFINE item == line[k + 1]
           name == item.opt
           v == Peeked(name)
           s == SpokenBy(k, 0)
<1>1. line \in Lines /\ config \in ConfigType
  BY DEF TypeInv, TypeOK
<1>2. DOMAIN line = 1 .. Len(line) /\ Len(line) \in Nat
  BY <1>1, LineType, Zenon
<1>3. k + 1 \in DOMAIN line /\ k + 1 \in 0 .. Len(line) /\ k \in Nat
  BY <1>2
<1>4. /\ args = WordsFrom(k, 0) /\ NamedBy(config, k) /\ relative_index = Len(s)
      /\ ActionIs(config, s) /\ NumbersGood(k, s)
  BY Zenon DEF ReadTo, ReadBy
<1>5. /\ \A i \in 1 .. Values(name) : v[i] = Value(item, i)
      /\ SubSeq(args, Read(name) + 1, Len(args)) = WordsFrom(k + 1, 0)
  BY <1>1, <1>4, OptionPeeked, Zenon
<1>6. SpokenBy(k + 1, 0) = s
  BY <1>1, SpokenOption, Zenon
<1>7. ASSUME NEW word \in Numbers(name, v), Throws(word) PROVE Malformed
  <2>1. BadItem(item)
    BY <1>5, <1>7, ThrownOption, Zenon
  <2> QED BY <1>3, <2>1, Zenon DEF Malformed
<1>8. ASSUME ~\E word \in Numbers(name, v) : Throws(word)
      PROVE  ReadBy(SubSeq(args, Read(name) + 1, Len(args)), WithNamed(name, v),
                    relative_index, k + 1, 0)
  <2>1. NamedBy(WithNamed(name, v), k + 1) /\ ~BadItem(item)
    BY <1>1, <1>4, <1>5, <1>8, NamedStep, Zenon
  <2>2. ComeTo(k + 1, 0)
    BY <1>1, <1>3, ComesTo, Zenon
  <2>3. ActionIs(WithNamed(name, v), s)
    BY <1>1, <1>4, ActionKept, Zenon
  <2>4. NumbersGood(k + 1, s)
    <3>1. \A i \in 1 .. k : ~BadItem(line[i])
      BY <1>4, Zenon DEF NumbersGood
    <3>2. \A i \in 1 .. k + 1 : ~BadItem(line[i])
      BY <1>3, <2>1, <3>1
    <3> QED BY <1>4, <3>2, Zenon DEF NumbersGood
  <2> QED BY <1>4, <1>5, <1>6, <2>1, <2>2, <2>3, <2>4, Zenon DEF ReadBy
<1> QED BY <1>7, <1>8, Zenon

\* The parser has come to a word of the action that begins with '-'.
LEMMA DashedWordRead ==
  ASSUME TypeInv, NEW k \in 0 .. Len(line) - 1, OfAction(line[k + 1]),
         NEW j \in 0 .. Len(line[k + 1].values) - 1, ReadTo(k, j),
         line[k + 1].values[j + 1] \in Dashed
  PROVE  LET name == line[k + 1].values[j + 1]
             v    == Peeked(name)
         IN  /\ ~\E word \in Numbers(name, v) : Throws(word)
             /\ \E k2, j2 \in Nat :
                  ReadBy(SubSeq(args, Read(name) + 1, Len(args)), WithNamed(name, v),
                         relative_index, k2, j2)
<1> DEFINE words == line[k + 1].values
           name == words[j + 1]
           v == Peeked(name)
           s == SpokenBy(k, j)
           left == SubSeq(args, Read(name) + 1, Len(args))
<1>1. line \in Lines /\ config \in ConfigType /\ args \in Seq(STRING)
  BY DEF TypeInv, TypeOK
<1>2. Values(name) = 0 /\ name # "--debug"
  <2> DEFINE n == Len(words)
  <2>1. words \in Seq(STRING)
    <3>1. DOMAIN line = 1 .. Len(line) /\ Len(line) \in Nat
      BY <1>1, LineType, Zenon
    <3>2. k + 1 \in DOMAIN line
      BY <3>1
    <3> QED BY <1>1, <3>2, LineType, Zenon
  <2>2. n \in Nat /\ j \in 0 .. n - 1
    BY <2>1
  <2>3. j + 1 \in 1 .. n
    <3> HIDE DEF n
    <3> QED BY <2>2
  <2> QED BY <1>1, <2>3, ItemFormed, Zenon
<1> HIDE DEF name
<1>3. Numbers(name, v) = {} /\ WithNamed(name, v) = config
  BY <1>2 DEF Values, Numbers, WithNamed
<1>4. Read(name) = 1
  BY <1>2 DEF Read
<1>5. /\ args = WordsFrom(k, j) /\ NamedBy(config, k) /\ relative_index = Len(s)
      /\ ActionIs(config, s) /\ NumbersGood(k, s)
  BY Zenon DEF ReadTo, ReadBy
<1>6. left = WordsFrom(k, j + 1)
  BY <1>1, <1>4, <1>5, WordAfter DEF name
<1>7. SpokenBy(k, j + 1) = s
  BY <1>1, SpokenWord, Zenon
<1>8. \E k2, j2 \in Nat : ReadBy(left, config, relative_index, k2, j2)
  BY <1>1, <1>5, <1>6, <1>7, NextRead, Zenon
<1> QED BY <1>3, <1>8, Zenon DEF name

-----------------------------------------------------------------------------
(* The invariant of the parser. *)

LEMMA InitParsed == Init => ParseInv
<1> SUFFICES ASSUME Init PROVE ParseInv
  OBVIOUS
<1>1. /\ line \in Lines /\ phase = "args" /\ relative_index = 0
      /\ args = FlattenSeq(LineWords) /\ config = Config
  BY Zenon DEF Init, LineWords
<1>2. ComeTo(0, 0)
  <2>1. 0 \in 0 .. Len(line)
    BY <1>1, LineType
  <2> QED BY <1>1, <2>1, ComesTo, Zenon
<1>3. args = WordsFrom(0, 0)
  <2> DEFINE all == FlattenSeq(LineWords)
  <2>1. all \in Seq(STRING)
    BY <1>1, LineWordsType
  <2>2. Len(FirstJoined(LineWords, 0)) = 0
    BY DEF FirstJoined
  <2>3. WordsFrom(0, 0) = SubSeq(all, 1, Len(all))
    BY <2>2 DEF WordsFrom
  <2> HIDE DEF all
  <2>4. SubSeq(all, 1, Len(all)) = all
    BY <2>1
  <2> QED BY <1>1, <2>3, <2>4 DEF all
<1>4. NamedBy(config, 0)
  <2>1. /\ config.network_name = "" /\ config.network_psk = "" /\ config.network_addr = 0
        /\ config.config_path = "" /\ config.debug = FALSE
    BY <1>1, Zenon DEF Config
  <2>2. config.socket_interfaces = << >> /\ config.com_devices = << >>
    BY <1>1, Zenon DEF Config
  <2>3. Sockets(<< >>) = << >> /\ Coms(<< >>) = << >>
    BY DEF Sockets, Coms
  <2>4. \A names : TypedBy(0, names) = << >> /\ LastBy(0, names) = ""
    BY TypedNone, Zenon
  <2> QED BY <2>1, <2>2, <2>3, <2>4, Zenon DEF NamedBy
<1>5. SpokenBy(0, 0) = << >>
  BY Zenon DEF SpokenBy, FirstJoined
<1>6. ActionIs(config, << >>)
  <2>1. config.action_values = << >>
    BY <1>1, Zenon DEF Config
  <2>2. SubSeq(<< >>, 5, Len(<< >>)) = << >> /\ Len(<< >>) = 0
    OBVIOUS
  <2> QED BY <2>1, <2>2 DEF ActionIs
<1>7. NumbersGood(0, << >>)
  BY DEF NumbersGood
<1>8. ReadTo(0, 0)
  <2>1. relative_index = Len(<< >>)
    BY <1>1
  <2> QED BY <1>2, <1>3, <1>4, <1>5, <1>6, <1>7, <2>1, Zenon DEF ReadTo, ReadBy
<1>9. Reading
  BY <1>8 DEF Reading
<1> QED BY <1>1, <1>9 DEF ParseInv, Parsed

\* What the parser has come to.
LEMMA WordCome ==
  ASSUME TypeInv, NEW k \in Nat, NEW j \in Nat, ReadTo(k, j), args # << >>
  PROVE  /\ k \in 0 .. Len(line) - 1
         /\ OfAction(line[k + 1]) => /\ j \in 0 .. Len(line[k + 1].values) - 1
                                     /\ Head(args) = line[k + 1].values[j + 1]
         /\ ~OfAction(line[k + 1]) => /\ j = 0 /\ Head(args) = line[k + 1].opt
                                      /\ Head(args) \in Dashed
<1>1. line \in Lines
  BY DEF TypeInv, TypeOK
<1>2. ComeTo(k, j) /\ args = WordsFrom(k, j)
  BY Zenon DEF ReadTo, ReadBy
<1>3. /\ k \in 0 .. Len(line) - 1 /\ k + 1 \in DOMAIN line
      /\ LineWords[k + 1] = Words(line[k + 1]) /\ LineWords[k + 1] \in Seq(STRING)
      /\ j \in 0 .. Len(LineWords[k + 1]) /\ j + 1 \in 1 .. Len(LineWords[k + 1])
      /\ Head(args) = LineWords[k + 1][j + 1]
  BY <1>1, <1>2, PlaceTyped, Zenon
<1>4. line[k + 1] \in Item
  BY <1>1, <1>3, LineType, Zenon
<1>5. ASSUME OfAction(line[k + 1])
      PROVE  /\ j \in 0 .. Len(line[k + 1].values) - 1
             /\ Head(args) = line[k + 1].values[j + 1]
  <2>1. LineWords[k + 1] = line[k + 1].values
    BY <1>3, <1>4, <1>5, WordsType, Zenon
  <2> DEFINE n == Len(line[k + 1].values)
  <2>2. j + 1 \in 1 .. n /\ n \in Nat
    BY <1>3, <2>1
  <2>3. j \in 0 .. n - 1
    <3> HIDE DEF n
    <3> QED BY <2>2
  <2> QED BY <1>3, <2>1, <2>3
<1>6. ASSUME ~OfAction(line[k + 1])
      PROVE  /\ j = 0 /\ Head(args) = line[k + 1].opt
             /\ Head(args) \in Dashed
  <2>1. j = 0
    <3>1. j = 0 \/ (k = Len(line) /\ j = 0)
      BY <1>2, <1>6, Zenon DEF ComeTo
    <3> QED BY <3>1
  <2>2. Words(line[k + 1])[1] = line[k + 1].opt
    BY <1>4, <1>6, WordsType, Zenon
  <2>3. line[k + 1].opt \in Dashed
    BY <1>1, <1>3, <1>6, ItemFormed, Zenon
  <2> QED BY <1>3, <2>1, <2>2, <2>3
<1> QED BY <1>3, <1>5, <1>6, Zenon

\* While the words are read the invariant says that they are, or that one was bad.
LEMMA ReadingParsed ==
  ASSUME ParseInv, UNCHANGED build,
         InOrder /\ Parsed => \/ phase' = "args" /\ Reading'
                              \/ phase' = "thrown" /\ Malformed
  PROVE  ParseInv'
<1>1. (Malformed' <=> Malformed) /\ (InOrder' <=> InOrder)
  BY LineKept DEF build
<1> SUFFICES ASSUME InOrder PROVE Parsed'
  BY <1>1 DEF ParseInv
<1>2. \/ phase' = "args" /\ Reading'
      \/ phase' = "thrown" /\ Malformed'
  BY <1>1 DEF ParseInv
<1> QED BY <1>2 DEF Parsed

LEMMA NamedParsed ==
  ASSUME TypeInv, ParseInv, ProcessNamedArgument
  PROVE  ParseInv'
<1> DEFINE name == Head(args)
           v == Peeked(name)
           left == SubSeq(args, Read(name) + 1, Len(args))
<1>1. /\ phase = "args" /\ args # << >> /\ name \in Dashed
      /\ UNCHANGED build /\ relative_index' = relative_index /\ line' = line
  BY DEF ProcessNamedArgument, build
<1>2. \/ phase' = "thrown" /\ \E word \in Numbers(name, v) : Throws(word)
      \/ /\ ~\E word \in Numbers(name, v) : Throws(word)
         /\ args' = left /\ config' = WithNamed(name, v) /\ phase' = phase
  BY Zenon DEF ProcessNamedArgument
<1>3. ASSUME InOrder, Parsed
      PROVE  \/ phase' = "args" /\ Reading'
             \/ phase' = "thrown" /\ Malformed
  <2>1. PICK k \in Nat, j \in Nat : ReadTo(k, j)
    BY <1>1, <1>3, Zenon DEF Parsed, Reading
  <2>2. /\ k \in 0 .. Len(line) - 1
        /\ OfAction(line[k + 1]) => /\ j \in 0 .. Len(line[k + 1].values) - 1
                                    /\ name = line[k + 1].values[j + 1]
        /\ ~OfAction(line[k + 1]) => j = 0 /\ name = line[k + 1].opt
    BY <1>1, <2>1, WordCome, Zenon
  <2>3. /\ (\E word \in Numbers(name, v) : Throws(word)) => Malformed
        /\ (~\E word \in Numbers(name, v) : Throws(word)) =>
             \E k2, j2 \in Nat : ReadBy(left, WithNamed(name, v), relative_index, k2, j2)
    <3>1. CASE OfAction(line[k + 1])
      BY <1>1, <2>1, <2>2, <3>1, DashedWordRead, Zenon
    <3>2. CASE ~OfAction(line[k + 1])
      <4>1. k + 1 \in Nat /\ 0 \in Nat
        BY <2>1
      <4> QED BY <1>3, <2>1, <2>2, <3>2, <4>1, OptionRead, Zenon
    <3> QED BY <3>1, <3>2
  <2> HIDE DEF name, v, left
  <2>4. CASE \E word \in Numbers(name, v) : Throws(word)
    BY <1>2, <2>3, <2>4
  <2>5. CASE ~\E word \in Numbers(name, v) : Throws(word)
    <3>1. PICK k2 \in Nat, j2 \in Nat :
            ReadBy(left, WithNamed(name, v), relative_index, k2, j2)
      BY <2>3, <2>5
    <3>2. args' = left /\ config' = WithNamed(name, v) /\ phase' = phase
      BY <1>2, <2>5
    <3>3. ReadBy(args', config', relative_index', k2, j2)
      BY <1>1, <3>1, <3>2, Zenon
    <3>4. Reading'
      BY <1>1, <3>3, ReadNext, Zenon
    <3> QED BY <1>1, <3>2, <3>4
  <2> QED BY <2>4, <2>5
<1> QED BY <1>1, <1>3, ReadingParsed

LEMMA RelativeParsed ==
  ASSUME TypeInv, ParseInv, ProcessRelativeArgument
  PROVE  ParseInv'
<1> DEFINE w == Head(args)
           bad == relative_index \in {1, 2} /\ Throws(w)
<1>1. /\ phase = "args" /\ args # << >> /\ w \notin Dashed
      /\ UNCHANGED build /\ line' = line
  BY DEF ProcessRelativeArgument, build
<1>2. \/ phase' = "thrown" /\ bad
      \/ /\ ~bad /\ args' = Tail(args) /\ config' = WithRelative(w)
         /\ relative_index' = relative_index + 1 /\ phase' = phase
  BY Zenon DEF ProcessRelativeArgument
<1>3. ASSUME InOrder, Parsed
      PROVE  \/ phase' = "args" /\ Reading'
             \/ phase' = "thrown" /\ Malformed
  <2>1. PICK k \in Nat, j \in Nat : ReadTo(k, j)
    BY <1>1, <1>3, Zenon DEF Parsed, Reading
  <2>2. /\ k \in 0 .. Len(line) - 1 /\ OfAction(line[k + 1])
        /\ j \in 0 .. Len(line[k + 1].values) - 1
        /\ w = line[k + 1].values[j + 1]
    BY <1>1, <2>1, WordCome, Zenon
  <2>3. /\ bad => Malformed
        /\ ~bad => \E k2, j2 \in Nat :
                     ReadBy(Tail(args), WithRelative(w), relative_index + 1, k2, j2)
    BY <1>1, <2>1, <2>2, WordRead, Zenon
  <2> HIDE DEF w, bad
  <2>4. CASE bad
    BY <1>2, <2>3, <2>4
  <2>5. CASE ~bad
    <3>1. PICK k2 \in Nat, j2 \in Nat :
            ReadBy(Tail(args), WithRelative(w), relative_index + 1, k2, j2)
      BY <2>3, <2>5
    <3>2. /\ args' = Tail(args) /\ config' = WithRelative(w) /\ phase' = phase
          /\ relative_index' = relative_index + 1
      BY <1>2, <2>5
    <3>3. ReadBy(args', config', relative_index', k2, j2)
      BY <3>1, <3>2, Zenon
    <3>4. Reading'
      BY <1>1, <3>3, ReadNext, Zenon
    <3> QED BY <1>1, <3>2, <3>4
  <2> QED BY <2>4, <2>5
<1> QED BY <1>1, <1>3, ReadingParsed

\* All of the line is read, and says what is typed.
LEMMA LineRead ==
  ASSUME TypeInv, Reading, args = << >>
  PROVE  /\ NamedBy(config, Len(line)) /\ ActionIs(config, Action)
         /\ ~Malformed
<1>1. line \in Lines
  BY DEF TypeInv, TypeOK
<1>2. DOMAIN line = 1 .. Len(line) /\ Len(line) \in Nat
  BY <1>1, LineType, Zenon
<1>3. PICK k \in Nat, j \in Nat : ReadTo(k, j)
  BY Zenon DEF Reading
<1>4. /\ ComeTo(k, j) /\ args = WordsFrom(k, j) /\ NamedBy(config, k)
      /\ ActionIs(config, SpokenBy(k, j)) /\ NumbersGood(k, SpokenBy(k, j))
  BY <1>3, Zenon DEF ReadTo, ReadBy
<1>5. k = Len(line) /\ j = 0
  BY <1>1, <1>4, PlaceTyped, Zenon
<1>6. SpokenBy(k, j) = Action
  <2>1. /\ ActionWords \in Seq(Seq(STRING)) /\ Len(ActionWords) = Len(line)
        /\ Action = FlattenSeq(ActionWords)
    BY <1>1, ActionWordsType, Zenon
  <2>2. Action = FirstJoined(ActionWords, Len(line))
    BY <2>1, FlattenedIsJoined, Zenon
  <2> QED BY <1>5, <2>2, Zenon DEF SpokenBy
<1>7. NumbersGood(Len(line), Action)
  BY <1>4, <1>5, <1>6, Zenon
<1>8. ~Malformed
  BY <1>2, <1>7, Zenon DEF Malformed, NumbersGood
<1> QED BY <1>4, <1>5, <1>6, <1>8, Zenon

\* What the options say, when all are read.
LEMMA NamedByAll ==
  ASSUME line \in Lines, NEW c, NamedBy(c, Len(line))
  PROVE  LET addr == LastTyped({"--addr", "-a"})
         IN  /\ c.network_name = LastTyped({"--net", "-n"})
             /\ c.network_psk = LastTyped({"--psk"})
             /\ c.network_addr = IF addr = "" THEN 0 ELSE Number[addr]
             /\ c.config_path = Path
             /\ c.debug <=> Typed({"--debug"}) # << >>
             /\ c.socket_interfaces = Sockets(Typed({"--socket"}))
             /\ c.com_devices = Coms(Typed({"--com"}))
<1>1. \A names : /\ TypedBy(Len(line), names) = Typed(names)
                 /\ LastBy(Len(line), names) = LastTyped(names)
  BY TypedAll, Zenon
<1> QED BY <1>1, Zenon DEF NamedBy, Path

\* No file is named.
LEMMA SettledWithout ==
  ASSUME TypeInv, NamedBy(config, Len(line)), ActionIs(config, Action),
         config.config_path = ""
  PROVE  Settled /\ Path = ""
<1>1. line \in Lines /\ config \in ConfigType
  BY DEF TypeInv, TypeOK
<1> DEFINE addr == LastTyped({"--addr", "-a"})
<1>2. /\ config.network_name = LastTyped({"--net", "-n"})
      /\ config.network_psk = LastTyped({"--psk"})
      /\ config.network_addr = IF addr = "" THEN 0 ELSE Number[addr]
      /\ config.config_path = Path
      /\ config.debug <=> Typed({"--debug"}) # << >>
      /\ config.socket_interfaces = Sockets(Typed({"--socket"}))
      /\ config.com_devices = Coms(Typed({"--com"}))
  BY <1>1, NamedByAll, Zenon
<1>3. Path = ""
  BY <1>2, Zenon
<1>4. Settings = <<LastTyped({"--net", "-n"}), LastTyped({"--psk"}),
                   IF addr = "" THEN 0 ELSE Number[addr]>>
  BY <1>3, Zenon DEF Settings
<1>5. <<config.network_name, config.network_psk, config.network_addr>> = Settings
  BY <1>2, <1>4, Zenon
<1>6. /\ Sockets(Typed({"--socket"})) \o << >> = Sockets(Typed({"--socket"}))
      /\ Coms(Typed({"--com"})) \o << >> = Coms(Typed({"--com"}))
  <2>1. /\ Sockets(Typed({"--socket"})) \in Seq(SocketType)
        /\ Coms(Typed({"--com"})) \in Seq(ComType)
    BY <1>1, <1>2, InterfacesType, Zenon
  <2> DEFINE s == Sockets(Typed({"--socket"}))
             c == Coms(Typed({"--com"}))
  <2> HIDE DEF s, c
  <2>2. s \in Seq(SocketType) /\ c \in Seq(ComType)
    BY <2>1 DEF s, c
  <2>3. s \o << >> = s /\ c \o << >> = c
    BY <2>2, ConcatEmptySeq, Zenon
  <2> QED BY <2>3 DEF s, c
<1> QED BY <1>2, <1>3, <1>5, <1>6, Zenon DEF Settled

\* What the file says is read on top of it.
LEMMA SettledWith ==
  ASSUME TypeInv, NamedBy(config, Len(line)), ActionIs(config, Action),
         config.config_path # "", config.config_path \in DOMAIN Files, NEW c,
         c = WithFile(Files[config.config_path])
  PROVE  /\ Path = config.config_path /\ File = Files[Path]
         /\ <<c.network_name, c.network_psk, c.network_addr>> = Settings
         /\ c.debug <=> Typed({"--debug"}) # << >>
         /\ ActionIs(c, Action)
         /\ c.socket_interfaces = Sockets(Typed({"--socket"})) \o FileSockets(File)
         /\ c.com_devices = Coms(Typed({"--com"})) \o FileComs(File)
<1>1. line \in Lines /\ config \in ConfigType
  BY DEF TypeInv, TypeOK
<1>2. /\ config.config_path = Path
      /\ config.debug <=> Typed({"--debug"}) # << >>
      /\ config.socket_interfaces = Sockets(Typed({"--socket"}))
      /\ config.com_devices = Coms(Typed({"--com"}))
  BY <1>1, NamedByAll, Zenon
<1>3. Path # "" /\ File = Files[Path]
  BY <1>2, Zenon DEF File
<1>4. Settings = <<ValueOr(File.fresh, "net", ""), ValueOr(File.fresh, "psk", ""),
                   ValueOr(File.fresh, "addr", 0)>>
  BY <1>3, Zenon DEF Settings
<1> DEFINE net  == ValueOr(File.fresh, "net", "")
           psk  == ValueOr(File.fresh, "psk", "")
           addr == ValueOr(File.fresh, "addr", 0)
           sockets == FileSockets(File)
           coms == FileComs(File)
<1>5. c = [config EXCEPT !.network_addr = addr, !.network_name = net, !.network_psk = psk,
                         !.socket_interfaces = @ \o sockets, !.com_devices = @ \o coms]
  BY <1>2, <1>3, Zenon DEF WithFile
<1> HIDE DEF net, psk, addr, sockets, coms
<1>6. /\ c.network_name = net /\ c.network_psk = psk /\ c.network_addr = addr
      /\ c.socket_interfaces = config.socket_interfaces \o sockets
      /\ c.com_devices = config.com_devices \o coms
      /\ c.debug = config.debug /\ c.action_type = config.action_type
      /\ c.device_addr = config.device_addr /\ c.device_port = config.device_port
      /\ c.action_name = config.action_name /\ c.action_values = config.action_values
  BY <1>1, <1>5 DEF ConfigType
<1>7. <<c.network_name, c.network_psk, c.network_addr>> = Settings
  BY <1>4, <1>6, Zenon DEF net, psk, addr
<1>8. ActionIs(c, Action)
  BY <1>6, Zenon DEF ActionIs
<1>9. c.debug <=> Typed({"--debug"}) # << >>
  BY <1>2, <1>6, Zenon
<1>10. /\ c.socket_interfaces = Sockets(Typed({"--socket"})) \o FileSockets(File)
       /\ c.com_devices = Coms(Typed({"--com"})) \o FileComs(File)
  BY <1>2, <1>6, Zenon DEF sockets, coms
<1> QED BY <1>2, <1>3, <1>7, <1>8, <1>9, <1>10

\* What is settled stays while the line and the configuration do.
LEMMA SettledKept ==
  ASSUME UNCHANGED <<line, order, config>>
  PROVE  /\ Settled => Settled'
         /\ ActionIs(config, Action) => ActionIs(config, Action)'
         /\ NamedBy(config, Len(line)) => NamedBy(config, Len(line))'
<1>0. line' = line /\ order' = order /\ config' = config
  OBVIOUS
<1>1. /\ \A names : Typed(names)' = Typed(names)
      /\ \A names, k : TypedBy(k, names)' = TypedBy(k, names)
                       /\ LastBy(k, names)' = LastBy(k, names)
  BY TypedKept, Zenon
<1>2. Action' = Action
  BY WordsKept, Zenon
<1>3. Path' = Path /\ File' = File /\ Settings' = Settings
  BY LineKept
<1>4. ActionIs(config, Action) => ActionIs(config, Action)'
  BY <1>0, <1>2, Zenon DEF ActionIs
<1>5. Settled => Settled'
  BY <1>0, <1>1, <1>3, <1>4, Zenon DEF Settled
<1>6. NamedBy(config, Len(line)) => NamedBy(config, Len(line))'
  BY <1>0, <1>1, Zenon DEF NamedBy
<1> QED BY <1>4, <1>5, <1>6

LEMMA ArgsReadParsed ==
  ASSUME TypeInv, ParseInv, ArgsRead
  PROVE  ParseInv'
<1>1. /\ phase = "args" /\ args = << >> /\ UNCHANGED <<line, order, config>>
      /\ phase' = IF config.config_path = "" THEN "register" ELSE "file"
  BY DEF ArgsRead, build
<1>2. /\ Malformed' <=> Malformed
      /\ InOrder' <=> InOrder
      /\ Path' = Path
  BY <1>1, LineKept
<1> SUFFICES ASSUME InOrder PROVE Parsed'
  BY <1>2 DEF ParseInv
<1>3. Reading
  BY <1>1 DEF ParseInv, Parsed
<1>4. NamedBy(config, Len(line)) /\ ActionIs(config, Action) /\ ~Malformed
  BY <1>1, <1>3, LineRead, Zenon
<1>5. /\ Settled => Settled'
      /\ ActionIs(config, Action)' /\ NamedBy(config, Len(line))'
  BY <1>1, <1>4, SettledKept
<1>6. config' = config
  BY <1>1
<1>7. CASE config.config_path = ""
  <2>1. Settled' /\ Path' = ""
    BY <1>2, <1>4, <1>5, <1>7, SettledWithout, Zenon
  <2>2. phase' = "register"
    BY <1>1, <1>7, Zenon
  <2> QED BY <1>2, <1>4, <2>1, <2>2 DEF Parsed
<1>8. CASE config.config_path # ""
  <2>1. phase' = "file"
    BY <1>1, <1>8, Zenon
  <2>2. config'.config_path # ""
    BY <1>6, <1>8, Zenon
  <2> QED BY <1>2, <1>4, <1>5, <2>1, <2>2 DEF Parsed
<1> QED BY <1>7, <1>8

LEMMA PerformConfigTomlParsed ==
  ASSUME TypeInv, ParseInv, PerformConfigToml
  PROVE  ParseInv'
<1>1. phase = "file" /\ line' = line /\ order' = order
  BY DEF PerformConfigToml, build
<1>2. /\ Malformed' <=> Malformed
      /\ InOrder' <=> InOrder
      /\ Path' = Path /\ File' = File /\ Settings' = Settings
  BY <1>1, LineKept
<1> SUFFICES ASSUME InOrder PROVE Parsed'
  BY <1>2 DEF ParseInv
<1>3. /\ NamedBy(config, Len(line)) /\ ActionIs(config, Action) /\ ~Malformed
      /\ config.config_path # ""
  BY <1>1 DEF ParseInv, Parsed
<1>4. CASE phase' \in {"exit", "crash"}
  BY <1>2, <1>3, <1>4 DEF Parsed
<1>5. CASE /\ config.config_path \in DOMAIN Files
           /\ "sockets" \in DOMAIN Files[config.config_path]
           /\ phase' = "register" /\ config' = WithFile(Files[config.config_path])
  <2>1. /\ Path = config.config_path /\ File = Files[Path]
        /\ <<config'.network_name, config'.network_psk, config'.network_addr>> = Settings
        /\ config'.debug <=> Typed({"--debug"}) # << >>
        /\ ActionIs(config', Action)
        /\ config'.socket_interfaces = Sockets(Typed({"--socket"})) \o FileSockets(File)
        /\ config'.com_devices = Coms(Typed({"--com"})) \o FileComs(File)
    BY <1>3, <1>5, SettledWith, Zenon
  <2>2. Path # "" /\ Path \in DOMAIN Files /\ "sockets" \in DOMAIN File
    BY <1>3, <1>5, <2>1, Zenon
  <2>3. /\ \A names : Typed(names)' = Typed(names)
        /\ Action' = Action
    BY <1>1, TypedKept, WordsKept
  <2>4. ActionIs(config, Action)'
    BY <2>1, <2>3, Zenon DEF ActionIs
  <2>5. Settled'
    BY <1>2, <2>1, <2>2, <2>3, <2>4, Zenon DEF Settled
  <2>6. Path' \in DOMAIN Files /\ "sockets" \in DOMAIN File'
    BY <1>2, <2>2, Zenon
  <2> QED BY <1>2, <1>3, <1>5, <2>5, <2>6 DEF Parsed
<1> QED BY <1>4, <1>5 DEF PerformConfigToml

\* The line and the file are read; what happens then does not touch them.
LEMMA RegisteringParsed ==
  ASSUME ParseInv, UNCHANGED <<line, order, config>>, phase = "register",
         phase' \in {"register", "running", "exit"}
  PROVE  ParseInv'
<1>2. /\ Malformed' <=> Malformed
      /\ InOrder' <=> InOrder
      /\ Path' = Path /\ File' = File
  BY LineKept
<1> SUFFICES ASSUME InOrder PROVE Parsed'
  BY <1>2 DEF ParseInv
<1>3. /\ Settled /\ ~Malformed
      /\ Path # "" => Path \in DOMAIN Files /\ "sockets" \in DOMAIN File
  BY DEF ParseInv, Parsed
<1>4. Settled'
  BY <1>3, SettledKept
<1>5. Path' # "" => Path' \in DOMAIN Files /\ "sockets" \in DOMAIN File'
  BY <1>2, <1>3, Zenon
<1> QED BY <1>2, <1>3, <1>4, <1>5 DEF Parsed

LEMMA StutterParsed ==
  ASSUME ParseInv, UNCHANGED vars
  PROVE  ParseInv'
<1>1. /\ line' = line /\ order' = order /\ config' = config /\ args' = args
      /\ relative_index' = relative_index /\ phase' = phase
  BY DEF vars, build, parser
<1>2. /\ Malformed' <=> Malformed
      /\ InOrder' <=> InOrder
      /\ Path' = Path /\ File' = File
  BY <1>1, LineKept
<1> SUFFICES ASSUME InOrder PROVE Parsed'
  BY <1>2 DEF ParseInv
<1>3. Reading => Reading'
  <2> SUFFICES ASSUME Reading PROVE Reading'
    OBVIOUS
  <2>1. PICK k \in Nat, j \in Nat : ReadTo(k, j)
    BY Zenon DEF Reading
  <2>2. ReadBy(args', config', relative_index', k, j)
    BY <1>1, <2>1, Zenon DEF ReadTo
  <2> QED BY <1>1, <2>2, ReadNext, Zenon
<1>4. /\ Settled => Settled'
      /\ ActionIs(config, Action) => ActionIs(config, Action)'
      /\ NamedBy(config, Len(line)) => NamedBy(config, Len(line))'
  BY <1>1, SettledKept
<1>5. Parsed
  BY DEF ParseInv
<1> QED BY <1>1, <1>2, <1>3, <1>4, <1>5, Zenon DEF Parsed

LEMMA StepParsed ==
  ASSUME TypeInv, ParseInv, [Next]_vars
  PROVE  ParseInv'
<1>1. CASE ProcessNamedArgument
  BY <1>1, NamedParsed
<1>2. CASE ProcessRelativeArgument
  BY <1>2, RelativeParsed
<1>3. CASE ArgsRead
  BY <1>3, ArgsReadParsed
<1>4. CASE PerformConfigToml
  BY <1>4, PerformConfigTomlParsed
<1>5. CASE \/ RegisterFreshSocketServer \/ RegisterFreshSocketClient
           \/ RegisterFreshComDevice \/ Run
  <2>1. /\ UNCHANGED <<line, order, config>> /\ phase = "register"
        /\ phase' \in {"register", "running", "exit"}
    BY <1>5 DEF RegisterFreshSocketServer, RegisterFreshSocketClient, RegisterFreshComDevice,
                Run, Registering, AddInterface, build
  <2> QED BY <2>1, RegisteringParsed
<1>6. CASE UNCHANGED vars
  BY <1>6, StutterParsed
<1> QED BY <1>1, <1>2, <1>3, <1>4, <1>5, <1>6 DEF Next

LEMMA AlwaysParsed == Spec => []ParseInv
<1>1. Spec => []TypeInv
  BY AlwaysTyped
<1>2. TypeInv /\ ParseInv /\ [Next]_vars => ParseInv'
  BY StepParsed
<1> QED BY InitParsed, <1>1, <1>2, PTL DEF Spec

\* What the parser makes of a line is what was typed, whatever the order of the
\* options and whatever their values look like, and a line is refused only for a
\* number that is none.
THEOREM LineReadAsTyped == Spec => []ParsedAsTyped
<1>1. ASSUME TypeInv, ParseInv PROVE ParsedAsTyped
  <2> SUFFICES ASSUME InOrder, phase # "args"
               PROVE  /\ phase = "thrown" <=> Malformed
                      /\ phase \in {"register", "running"} => Settled
    BY Zenon DEF ParsedAsTyped, Settled, ActionIs
  <2> QED BY <1>1 DEF ParseInv, Parsed
<1> QED BY <1>1, AlwaysTyped, AlwaysParsed, PTL

-----------------------------------------------------------------------------
(* The interfaces that are written and those that are made. *)

AllGiven(s) == [i \in DOMAIN s |-> AsGiven(s[i])]

\* What is made of two sequences of sockets.
LEMMA AllGivenConcat ==
  ASSUME NEW s \in Seq(SocketType), NEW t \in Seq(SocketType)
  PROVE  AllGiven(s \o t) = AllGiven(s) \o AllGiven(t)
<1> DEFINE u == s \o t
           fs == [i \in DOMAIN s |-> AsGiven(s[i])]
           ft == [i \in DOMAIN t |-> AsGiven(t[i])]
           fu == [i \in DOMAIN u |-> AsGiven(u[i])]
           v == fs \o ft
           m == Len(s)
           n == Len(t)
<1>1. /\ m \in Nat /\ n \in Nat /\ DOMAIN s = 1 .. m /\ DOMAIN t = 1 .. n
      /\ \A i \in 1 .. m : s[i] \in SocketType
      /\ \A i \in 1 .. n : t[i] \in SocketType
  OBVIOUS
<1>2. /\ u \in Seq(SocketType) /\ Len(u) = m + n /\ DOMAIN u = 1 .. m + n
      /\ \A i \in 1 .. m + n : u[i] = IF i <= m THEN s[i] ELSE t[i - m]
  <2>1. /\ u \in Seq(SocketType) /\ Len(u) = m + n
        /\ \A i \in 1 .. m + n : u[i] = IF i <= m THEN s[i] ELSE t[i - m]
    BY ConcatProperties
  <2> HIDE DEF u, m, n
  <2> QED BY <2>1
<1>3. fs \in Seq(MadeType) /\ Len(fs) = m /\ \A i \in 1 .. m : fs[i] = AsGiven(s[i])
  <2>1. fs \in [1 .. m -> MadeType]
    BY <1>1, GivenSocketType
  <2> HIDE DEF m
  <2> QED BY <1>1, <2>1
<1>4. ft \in Seq(MadeType) /\ Len(ft) = n /\ \A i \in 1 .. n : ft[i] = AsGiven(t[i])
  <2>1. ft \in [1 .. n -> MadeType]
    BY <1>1, GivenSocketType
  <2> HIDE DEF n
  <2> QED BY <1>1, <2>1
<1>5. fu \in Seq(MadeType) /\ Len(fu) = m + n /\ \A i \in 1 .. m + n : fu[i] = AsGiven(u[i])
  <2> HIDE DEF u, m, n
  <2>1. \A i \in 1 .. m + n : u[i] \in SocketType
    BY <1>1, <1>2
  <2>2. fu \in [1 .. m + n -> MadeType]
    BY <1>2, <2>1, GivenSocketType
  <2> QED BY <1>1, <1>2, <2>2
<1> HIDE DEF fs, ft
<1>6. /\ v \in Seq(MadeType) /\ Len(v) = m + n
      /\ \A i \in 1 .. m + n : v[i] = IF i <= m THEN fs[i] ELSE ft[i - m]
  <2>1. /\ v \in Seq(MadeType) /\ Len(v) = Len(fs) + Len(ft)
        /\ \A i \in 1 .. Len(fs) + Len(ft) :
             v[i] = IF i <= Len(fs) THEN fs[i] ELSE ft[i - Len(fs)]
    <3> DEFINE F == MadeType
    <3>1. fs \in Seq(F) /\ ft \in Seq(F)
      BY <1>3, <1>4, Zenon
    <3> HIDE DEF F
    <3>2. /\ v \in Seq(F) /\ Len(v) = Len(fs) + Len(ft)
          /\ \A i \in 1 .. Len(fs) + Len(ft) :
               v[i] = IF i <= Len(fs) THEN fs[i] ELSE ft[i - Len(fs)]
      BY <3>1, ConcatProperties
    <3> QED BY <3>2 DEF F
  <2> HIDE DEF v, m, n
  <2> QED BY <1>3, <1>4, <2>1
<1> HIDE DEF u, fu, v, m, n
<1>7. ASSUME NEW i \in 1 .. m + n PROVE fu[i] = v[i]
  <2>1. CASE i <= m
    <3>1. i \in 1 .. m
      BY <1>1, <2>1
    <3> QED BY <1>2, <1>3, <1>5, <1>6, <2>1, <3>1
  <2>2. CASE ~(i <= m)
    <3>1. i - m \in 1 .. n
      BY <1>1, <2>2
    <3> QED BY <1>2, <1>4, <1>5, <1>6, <2>2, <3>1
  <2> QED BY <2>1, <2>2
<1>8. fu = v
  BY <1>5, <1>6, <1>7, SeqEqual
<1> QED BY <1>8, Zenon DEF u, fu, v, fs, ft, AllGiven

\* The port that a socket is given is the one it was made with.
LEMMA GivenPort ==
  ASSUME NEW server, NEW host, NEW port \in Int
  PROVE  AsGiven(SocketInterface(server, host, port)) =
           [is_server |-> server, hostname |-> host, port |-> UShort(port)]
<1>1. UShort(Short(port)) = UShort(port)
  BY PortKept
<1>2. SocketInterface(server, host, port) =
        [is_server |-> server, hostname |-> host, port |-> Short(port)]
  BY Zenon DEF SocketInterface
<1>3. AsGiven(SocketInterface(server, host, port)) =
        [is_server |-> server, hostname |-> host, port |-> UShort(Short(port))]
  BY <1>2 DEF AsGiven
<1> QED BY <1>1, <1>3, Zenon

LEMMA ValueType == \A item \in Item, i \in Nat \ {0} : Value(item, i) \in STRING
<1> TAKE item \in Item, i \in Nat \ {0}
<1>1. item.values \in Seq(STRING)
  BY DEF Item
<1>2. i <= Len(item.values) => item.values[i] \in STRING
  BY <1>1
<1> QED BY <1>2, EmptyWordAssumption, Zenon DEF Value

\* The sockets on the line are sockets, and given with the ports on the line.
LEMMA LineSockets ==
  ASSUME line \in Lines, ~Malformed
  PROVE  LET socket == Typed({"--socket"})
         IN  /\ Sockets(socket) \in Seq(SocketType)
             /\ AllGiven(Sockets(socket)) =
                  [i \in DOMAIN socket |-> [is_server |-> Value(socket[i], 1) = "server",
                                            hostname |-> Value(socket[i], 2),
                                            port |-> UShort(Number[Value(socket[i], 3)])]]
<1> DEFINE names == {"--socket"}
           S == {i \in DOMAIN line : Is(line[i], names)}
           socket == Typed(names)
           Port(i) == Number[Value(socket[i], 3)]
<1>1. line \in Seq(Item) /\ S \in SUBSET (1 .. Len(line))
  BY LineType
<1>2. /\ socket \in Seq({line[i] : i \in S}) /\ socket \in Seq(Item)
  <2>1. socket = ElementsAt(line, S)
    BY Zenon DEF Typed
  <2> HIDE DEF S, socket
  <2> QED BY <1>1, <2>1, ElementsType
<1>3. ASSUME NEW i \in DOMAIN socket
      PROVE  /\ Port(i) \in Int
             /\ Sockets(socket)[i] \in SocketType
             /\ Sockets(socket)[i] = SocketInterface(Value(socket[i], 1) = "server",
                                                     Value(socket[i], 2), Port(i))
  <2>1. socket[i] \in {line[x] : x \in S} /\ socket[i] \in Item
    <3> HIDE DEF socket, S
    <3> QED BY <1>2
  <2>2. PICK x \in DOMAIN line : socket[i] = line[x] /\ Is(line[x], names)
    BY <2>1
  <2>3. ~BadItem(socket[i]) /\ Is(socket[i], names)
    BY <2>2, Zenon DEF Malformed
  <2>4. Port(i) \in Int
    BY <2>3, NumberType, Zenon DEF BadItem
  <2>5. Value(socket[i], 2) \in STRING
    BY <2>1, ValueType
  <2>6. Sockets(socket)[i] = SocketInterface(Value(socket[i], 1) = "server",
                                             Value(socket[i], 2), Port(i))
    BY Zenon DEF Sockets
  <2>7. (Value(socket[i], 1) = "server") \in BOOLEAN
    OBVIOUS
  <2> HIDE DEF socket, Port
  <2> QED BY <2>4, <2>5, <2>6, <2>7, SocketInterfaceType, Zenon
<1>4. Sockets(socket) \in Seq(SocketType)
  <2> DEFINE s == Sockets(socket)
             n == Len(socket)
  <2>1. n \in Nat /\ DOMAIN socket = 1 .. n
    <3> HIDE DEF socket
    <3> QED BY <1>2
  <2>2. s = [i \in 1 .. n |-> s[i]]
    BY <2>1, Zenon DEF Sockets
  <2>3. \A i \in 1 .. n : s[i] \in SocketType
    BY <1>3, <2>1, Zenon
  <2> HIDE DEF s, n
  <2>4. s \in [1 .. n -> SocketType]
    BY <2>2, <2>3
  <2> QED BY <2>1, <2>4 DEF s
<1>5. AllGiven(Sockets(socket)) =
        [i \in DOMAIN socket |-> [is_server |-> Value(socket[i], 1) = "server",
                                  hostname |-> Value(socket[i], 2),
                                  port |-> UShort(Port(i))]]
  <2>1. DOMAIN Sockets(socket) = DOMAIN socket
    BY Zenon DEF Sockets
  <2>2. \A i \in DOMAIN socket :
          AsGiven(Sockets(socket)[i]) = [is_server |-> Value(socket[i], 1) = "server",
                                         hostname |-> Value(socket[i], 2),
                                         port |-> UShort(Port(i))]
    <3> TAKE i \in DOMAIN socket
    <3> DEFINE server == Value(socket[i], 1) = "server"
               host == Value(socket[i], 2)
               port == Port(i)
    <3>1. port \in Int /\ Sockets(socket)[i] = SocketInterface(server, host, port)
      BY <1>3, Zenon
    <3> HIDE DEF server, host, port
    <3>2. AsGiven(SocketInterface(server, host, port)) =
            [is_server |-> server, hostname |-> host, port |-> UShort(port)]
      BY <3>1, GivenPort, Zenon
    <3>3. AsGiven(Sockets(socket)[i]) =
            [is_server |-> server, hostname |-> host, port |-> UShort(port)]
      BY <3>1, <3>2, Zenon
    <3> QED BY <3>3, Zenon DEF server, host, port
  <2> QED BY <2>1, <2>2, Zenon DEF AllGiven
<1> QED BY <1>4, <1>5, Zenon

\* The sockets of the file are given with the ports in the file.
LEMMA FileSocketsGiven ==
  ASSUME NEW path \in DOMAIN Files, NEW file, file = Files[path], "sockets" \in DOMAIN file
  PROVE  /\ FileSockets(file) \in Seq(SocketType) /\ FileComs(file) \in Seq(ComType)
         /\ "coms" \in DOMAIN file
         /\ AllGiven(FileSockets(file)) =
              [i \in DOMAIN file.sockets |->
                 [is_server |-> ValueOr(file.sockets[i], "type", "") = "server",
                  hostname |-> ValueOr(file.sockets[i], "host", ""),
                  port |-> UShort(ValueOr(file.sockets[i], "port", 0))]]
<1>1. /\ "coms" \in DOMAIN file
      /\ FileSockets(file) \in Seq(SocketType) /\ FileComs(file) \in Seq(ComType)
      /\ \A i \in DOMAIN file.sockets : ValueOr(file.sockets[i], "port", 0) \in Int
  BY FilesAssumption, FileTypes, Zenon
<1>2. DOMAIN FileSockets(file) = DOMAIN file.sockets
  BY Zenon DEF FileSockets
<1>3. ASSUME NEW i \in DOMAIN file.sockets
      PROVE  AsGiven(FileSockets(file)[i]) =
               [is_server |-> ValueOr(file.sockets[i], "type", "") = "server",
                hostname |-> ValueOr(file.sockets[i], "host", ""),
                port |-> UShort(ValueOr(file.sockets[i], "port", 0))]
  <2> DEFINE server == ValueOr(file.sockets[i], "type", "") = "server"
             host == ValueOr(file.sockets[i], "host", "")
             port == ValueOr(file.sockets[i], "port", 0)
  <2>1. FileSockets(file)[i] = SocketInterface(server, host, port)
    BY Zenon DEF FileSockets
  <2>2. port \in Int
    BY <1>1, Zenon
  <2> HIDE DEF server, host, port
  <2>3. AsGiven(SocketInterface(server, host, port)) =
          [is_server |-> server, hostname |-> host, port |-> UShort(port)]
    BY <2>2, GivenPort, Zenon
  <2>4. AsGiven(FileSockets(file)[i]) =
          [is_server |-> server, hostname |-> host, port |-> UShort(port)]
    BY <2>1, <2>3, Zenon
  <2> QED BY <2>4, Zenon DEF server, host, port
<1> QED BY <1>1, <1>2, <1>3, Zenon DEF AllGiven

LEMMA NothingWritten ==
  /\ [i \in DOMAIN << >> |-> [is_server |-> ValueOr(<< >>[i], "type", "") = "server",
                               hostname |-> ValueOr(<< >>[i], "host", ""),
                               port |-> UShort(ValueOr(<< >>[i], "port", 0))]] = << >>
  /\ [i \in DOMAIN << >> |-> [path |-> ValueOr(<< >>[i], "path", ""),
                               boudrate |-> ValueOr(<< >>[i], "baud", 0)]] = << >>
  /\ AllGiven(<< >>) = << >> /\ << >> \in Seq(SocketType)
BY DEF AllGiven

\* A line and a file without a bad number: what is given is what is written.
LEMMA InterfacesWritten ==
  ASSUME TypeInv, Settled, ~Malformed,
         Path # "" => Path \in DOMAIN Files /\ "sockets" \in DOMAIN File
  PROVE  /\ AllGiven(config.socket_interfaces) = WrittenSockets
         /\ config.com_devices = WrittenComs
<1>1. line \in Lines /\ config \in ConfigType
  BY DEF TypeInv, TypeOK
<1> DEFINE socket == Typed({"--socket"})
           com == Typed({"--com"})
           a == [i \in DOMAIN socket |-> [is_server |-> Value(socket[i], 1) = "server",
                                          hostname |-> Value(socket[i], 2),
                                          port |-> UShort(Number[Value(socket[i], 3)])]]
           B(sockets) == [i \in DOMAIN sockets |->
                            [is_server |-> ValueOr(sockets[i], "type", "") = "server",
                             hostname |-> ValueOr(sockets[i], "host", ""),
                             port |-> UShort(ValueOr(sockets[i], "port", 0))]]
           D(coms) == [i \in DOMAIN coms |-> [path |-> ValueOr(coms[i], "path", ""),
                                              boudrate |-> ValueOr(coms[i], "baud", 0)]]
<1>2. Sockets(socket) \in Seq(SocketType) /\ AllGiven(Sockets(socket)) = a
  BY <1>1, LineSockets, Zenon
<1>3. /\ WrittenSockets = a \o B(ValueOr(File, "sockets", << >>))
      /\ WrittenComs = Coms(com) \o D(ValueOr(File, "coms", << >>))
  BY Zenon DEF WrittenSockets, WrittenComs, Coms
<1>4. CASE Path = ""
  <2>1. /\ config.socket_interfaces = Sockets(socket) \o << >>
        /\ config.com_devices = Coms(com) \o << >>
    BY <1>4, Zenon DEF Settled
  <2>2. ValueOr(File, "sockets", << >>) = << >> /\ ValueOr(File, "coms", << >>) = << >>
    <3>1. File = [fresh |-> << >>]
      BY <1>4, Zenon DEF File
    <3> QED BY <3>1 DEF ValueOr
  <2>3. B(<< >>) = << >> /\ D(<< >>) = << >>
    BY NothingWritten, Zenon
  <2>4. AllGiven(<< >>) = << >> /\ << >> \in Seq(SocketType)
    BY NothingWritten, Zenon
  <2> HIDE DEF a, B, D, socket, com
  <2>6. AllGiven(config.socket_interfaces) = a \o << >>
    BY <1>2, <2>1, <2>4, AllGivenConcat, Zenon
  <2> QED BY <1>3, <2>1, <2>2, <2>3, <2>6, Zenon
<1>5. CASE Path # ""
  <2>1. /\ config.socket_interfaces = Sockets(socket) \o FileSockets(File)
        /\ config.com_devices = Coms(com) \o FileComs(File)
    BY <1>5, Zenon DEF Settled
  <2>2. Path \in DOMAIN Files /\ File = Files[Path] /\ "sockets" \in DOMAIN File
    BY <1>5, Zenon DEF File
  <2>3. /\ FileSockets(File) \in Seq(SocketType) /\ "coms" \in DOMAIN File
        /\ AllGiven(FileSockets(File)) = B(File.sockets)
    BY <2>2, FileSocketsGiven, Zenon
  <2>4. FileComs(File) = D(File.coms)
    BY Zenon DEF FileComs
  <2>5. /\ ValueOr(File, "sockets", << >>) = File.sockets
        /\ ValueOr(File, "coms", << >>) = File.coms
    BY <2>2, <2>3 DEF ValueOr
  <2> HIDE DEF a, B, D, socket, com
  <2>6. AllGiven(config.socket_interfaces) = a \o B(File.sockets)
    BY <1>2, <2>1, <2>3, AllGivenConcat, Zenon
  <2> QED BY <1>3, <2>1, <2>4, <2>5, <2>6, Zenon
<1> QED BY <1>4, <1>5

\* The interfaces as they are given, the sockets first.
LEMMA GivenIs ==
  ASSUME TypeInv
  PROVE  Given = AllGiven(config.socket_interfaces) \o config.com_devices
<1> DEFINE s == config.socket_interfaces
           c == config.com_devices
           m == Len(s)
           n == Len(c)
           g == AllGiven(s)
           v == g \o c
<1>1. /\ s \in Seq(SocketType) /\ c \in Seq(ComType)
      /\ Len(Interfaces) = m + n
      /\ \A i \in 1 .. m : Interfaces[i] = s[i]
      /\ \A i \in m + 1 .. Len(Interfaces) :
           i - m \in 1 .. n /\ Interfaces[i] = c[i - m]
  BY InterfacesType, Zenon DEF TypeInv, TypeOK, Interfaces
<1>2. m \in Nat /\ n \in Nat /\ DOMAIN s = 1 .. m /\ DOMAIN c = 1 .. n
  BY <1>1
<1>3. /\ Given \in Seq(MadeType) /\ Len(Given) = m + n
      /\ \A i \in 1 .. m + n :
           Given[i] = IF i <= m THEN AsGiven(Interfaces[i]) ELSE Interfaces[i]
  <2>1. /\ Given \in Seq(MadeType) /\ Len(Given) = Len(Interfaces)
        /\ DOMAIN Interfaces = 1 .. Len(Interfaces)
    BY GivenType, Zenon
  <2>2. \A i \in DOMAIN Interfaces :
          Given[i] = IF i <= m THEN AsGiven(Interfaces[i]) ELSE Interfaces[i]
    BY Zenon DEF Given
  <2> QED BY <1>1, <2>1, <2>2, Zenon
<1>4. g \in Seq(MadeType) /\ Len(g) = m /\ \A i \in 1 .. m : g[i] = AsGiven(s[i])
  <2>1. \A i \in 1 .. m : s[i] \in SocketType
    BY <1>1, <1>2
  <2>2. g = [i \in 1 .. m |-> AsGiven(s[i])]
    BY <1>2, Zenon DEF AllGiven
  <2> HIDE DEF s, m, g
  <2>3. g \in [1 .. m -> MadeType]
    BY <2>1, <2>2, GivenSocketType
  <2> QED BY <1>2, <2>2, <2>3
<1>5. c \in Seq(MadeType)
  <2>1. \A i \in 1 .. n : c[i] \in MadeType
    <3> HIDE DEF c, n
    <3>1. \A i \in 1 .. n : c[i] \in ComType
      BY <1>1, <1>2
    <3> QED BY <3>1, Zenon DEF MadeType
  <2> DEFINE M == MadeType
  <2>2. \A i \in 1 .. n : c[i] \in M
    BY <2>1, Zenon
  <2> HIDE DEF c, n, M
  <2>3. c = [i \in 1 .. n |-> c[i]]
    BY <1>1, <1>2
  <2>4. c \in Seq(M)
    BY <1>2, <2>2, <2>3
  <2> QED BY <2>4 DEF M
<1>6. /\ v \in Seq(MadeType) /\ Len(v) = m + n
      /\ \A i \in 1 .. m + n : v[i] = IF i <= m THEN g[i] ELSE c[i - m]
  <2> DEFINE F == MadeType
  <2>1. g \in Seq(F) /\ c \in Seq(F) /\ Len(g) = m
    BY <1>4, <1>5, Zenon
  <2> HIDE DEF F, g, c
  <2>2. /\ v \in Seq(F) /\ Len(v) = Len(g) + Len(c)
        /\ \A i \in 1 .. Len(g) + Len(c) :
             v[i] = IF i <= Len(g) THEN g[i] ELSE c[i - Len(g)]
    BY <2>1, ConcatProperties
  <2> QED BY <2>1, <2>2, Zenon DEF F
<1> HIDE DEF v, g, c, s, m, n
<1>7. ASSUME NEW i \in 1 .. m + n PROVE Given[i] = v[i]
  <2>1. CASE i <= m
    <3>1. i \in 1 .. m
      BY <1>2, <2>1
    <3> QED BY <1>1, <1>3, <1>4, <1>6, <2>1, <3>1, Zenon
  <2>2. CASE ~(i <= m)
    <3>1. i \in m + 1 .. Len(Interfaces)
      BY <1>1, <1>2, <2>2
    <3> QED BY <1>1, <1>3, <1>6, <2>2, <3>1, Zenon
  <2> QED BY <2>1, <2>2
<1>8. Given = v
  <2> DEFINE F == MadeType
             gv == Given
  <2>1. gv \in Seq(F) /\ v \in Seq(F) /\ Len(gv) = m + n /\ Len(v) = m + n
        /\ \A i \in 1 .. m + n : gv[i] = v[i]
    BY <1>3, <1>6, <1>7, Zenon
  <2> HIDE DEF F, gv
  <2>2. gv = v
    BY <1>2, <2>1, SeqEqual
  <2> QED BY <2>2 DEF gv
<1> QED BY <1>8, Zenon DEF v, g, c, s

\* A program that runs has every interface that was written on the line and in the
\* file, in that order, each with the port it was written with though the
\* configuration keeps it in a short; only clients that could make no connection are
\* left out.
THEOREM InterfacesMade == Spec => []InterfacesAsWritten
<1>1. ASSUME TypeInv, ParseInv, RegisterInv PROVE InterfacesAsWritten
  <2> SUFFICES ASSUME InOrder, phase = "running"
               PROVE  /\ registered = ElementsAt(Written, DOMAIN Written \ failed)
                      /\ \A i \in failed : /\ i \in DOMAIN WrittenSockets
                                           /\ ~Written[i].is_server
    BY Zenon DEF InterfacesAsWritten
  <2>1. /\ Settled /\ ~Malformed
        /\ Path # "" => Path \in DOMAIN Files /\ "sockets" \in DOMAIN File
    BY <1>1 DEF ParseInv, Parsed
  <2> DEFINE s == config.socket_interfaces
             m == Len(s)
             n == Len(Interfaces)
  <2>2. AllGiven(s) = WrittenSockets /\ config.com_devices = WrittenComs
    BY <1>1, <2>1, InterfacesWritten, Zenon
  <2>3. Given = Written
    BY <1>1, <2>2, GivenIs, Zenon DEF Written
  <2>4. /\ Given \in Seq(MadeType) /\ Len(Given) = n /\ DOMAIN Interfaces = 1 .. n
    BY <1>1, GivenType, Zenon
  <2>5. DOMAIN Written = 1 .. n
    BY <2>3, <2>4, Zenon DEF Given
  <2>6. /\ tried = n /\ failed \subseteq 1 .. n
        /\ registered = ElementsAt(Given, (1 .. n) \ failed)
        /\ \A i \in failed : i <= m /\ ~Interfaces[i].is_server
    <3>1. (phase = "exit" /\ tried > 0) = FALSE
      OBVIOUS
    <3> QED BY <1>1, <3>1 DEF RegisterInv
  <2>7. registered = ElementsAt(Written, DOMAIN Written \ failed)
    BY <2>3, <2>5, <2>6, Zenon
  <2>8. ASSUME NEW i \in failed
        PROVE  /\ i \in DOMAIN WrittenSockets
               /\ ~Written[i].is_server
    <3>1. s \in Seq(SocketType) /\ m \in Nat /\ DOMAIN s = 1 .. m
          /\ \A x \in 1 .. m : Interfaces[x] = s[x] /\ s[x] \in SocketType
      <4>1. /\ s \in Seq(SocketType)
            /\ \A x \in 1 .. m : Interfaces[x] = s[x] /\ Interfaces[x] \in SocketType
        BY <1>1, InterfacesType, Zenon DEF TypeInv, TypeOK, Interfaces
      <4> HIDE DEF s
      <4> QED BY <4>1
    <3>2. i \in 1 .. n /\ i <= m
      BY <2>6
    <3>3. i \in 1 .. m
      <4> HIDE DEF m, n
      <4> QED BY <3>1, <3>2
    <3>4. DOMAIN WrittenSockets = 1 .. m
      BY <2>2, <3>1, Zenon DEF AllGiven
    <3>5. Written[i] = AsGiven(Interfaces[i])
      BY <2>3, <2>4, <3>2, Zenon DEF Given
    <3>6. AsGiven(s[i]).is_server = s[i].is_server
      <4> DEFINE socket == s[i]
      <4>1. socket \in SocketType
        BY <3>1, <3>3, Zenon
      <4> HIDE DEF socket
      <4> DEFINE P == -(2^15) .. 2^15 - 1
      <4>2. socket \in [is_server : BOOLEAN, hostname : STRING, port : P]
        BY <4>1, Zenon DEF SocketType
      <4> HIDE DEF P
      <4>3. ASSUME NEW x PROVE [socket EXCEPT !.port = x].is_server = socket.is_server
        BY <4>2
      <4>4. AsGiven(socket).is_server = socket.is_server
        BY <4>3, Zenon DEF AsGiven
      <4> QED BY <4>4, Zenon DEF socket
    <3>7. ~Written[i].is_server
      BY <2>6, <3>1, <3>3, <3>5, <3>6, Zenon
    <3> QED BY <2>6, <3>3, <3>4, <3>7, Zenon
  <2> QED BY <2>7, <2>8, Zenon
<1> QED BY <1>1, AlwaysTyped, AlwaysParsed, AlwaysRegistered, PTL

=============================================================================
