--------------------------- MODULE TextPathProofs ---------------------------
(***************************************************************************)
(* Proofs about TextPath, for texts of any length.                         *)
(*                                                                         *)
(* The recursions of TextPath are recursive functions, so what they compute*)
(* is proved by induction.  The induction is over sets of numbers: of the  *)
(* library only the theorem about minimal elements of a well-founded set is*)
(* used, which has no operator among its parameters.                       *)
(***************************************************************************)
EXTENDS TextPath, FiniteSetTheorems, SequenceTheorems, TLAPS

-----------------------------------------------------------------------------
(***************************************************************************)
(* Induction                                                               *)
(***************************************************************************)
\* A set of numbers that is not empty has a least one: the intervals below its
\* elements are subsets of a finite set, and those are well-founded.
LEMMA LeastNumber ==
  ASSUME NEW T \in SUBSET Nat, T # {}
  PROVE  \E m \in T : \A k \in T : m <= k
  <1>0. PICK n \in T : TRUE
    OBVIOUS
  <1> DEFINE S == 1 .. n
             R == StrictSubsetOrdering(S)
             U == {1..k : k \in {j \in T : j <= n}}
  <1>1. IsWellFoundedOn(R, SUBSET S)
    <2>1. n \in Nat
      OBVIOUS
    <2>2. IsFiniteSet(S)
      BY <2>1, FS_Interval
    <2>3. FiniteSubsetsOf(S) = SUBSET S
      BY <2>2, FS_FiniteSubsetsOfFinite
    <2>4. QED
      BY <2>3, FS_StrictSubsetOrderingWellFounded
  <1>2. \E x \in U : \A y \in U : ~ (<<y, x>> \in R)
    <2>1. U \subseteq SUBSET S
      OBVIOUS
    <2>2. U # {}
      BY <1>0
    <2> HIDE DEF U, R, S
    <2>3. QED
      BY <2>1, <2>2, <1>1, WFMin
  <1>3. PICK m \in {j \in T : j <= n} : \A y \in U :  ~ (<<y, 1..m>> \in R)
    BY <1>2
  <1>4. \A k \in T : m <= k
    <2> SUFFICES ASSUME NEW k \in T, k < m PROVE FALSE
      BY <1>0
    <2>1. k <= n
      BY <1>3, <1>0
    <2>2. 1..k \subseteq 1..m /\ 1..k # 1..m
      <3>1. m \in 1..m /\ m \notin 1..k
        BY <2>1
      <3>2. QED BY <3>1
    <2>4. 1..k \in SUBSET S /\ 1..m \in SUBSET S
      BY <2>1
    <2>5. <<1..k, 1..m>> \in R
      <3> DEFINE K == 1..k
                 M == 1..m
      <3> HIDE DEF K, M, S
      <3>1. K \in SUBSET S /\ M \in SUBSET S /\ K \subseteq M /\ K # M
        BY <2>2, <2>4 DEF K, M
      <3>2. <<K, M>> \in StrictSubsetOrdering(S)
        BY <3>1 DEF StrictSubsetOrdering
      <3>3. QED
        BY <3>2 DEF K, M
    <2>6. 1..k \in U
      BY <2>1
    <2>3. QED BY <2>5, <2>6, <1>3
  <1>5. QED
    BY <1>4, <1>0

\* What holds of 0 and of every successor holds of all numbers.
LEMMA Induction ==
  ASSUME NEW G, 0 \in G, \A k \in Nat : k \in G => k + 1 \in G
  PROVE  Nat \subseteq G
  <1> SUFFICES ASSUME NEW n \in Nat, n \notin G PROVE FALSE
    OBVIOUS
  <1>1. PICK m \in Nat \ G : \A k \in Nat \ G : m <= k
    BY LeastNumber
  <1>2. m - 1 \in Nat /\ m - 1 \in G
    BY <1>1
  <1>3. QED
    BY <1>1, <1>2

-----------------------------------------------------------------------------
(***************************************************************************)
(* Cutting a text                                                          *)
(***************************************************************************)
\* The body of the recursion in UnitsFrom.
Cut(text, doubled, i, g) ==
            IF i > Len(text) THEN <<>>
            ELSE IF IsPair(text, doubled, i) THEN <<<<text[i], text[i + 1]>>>> \o g[i + 2]
            ELSE <<<<text[i]>>>> \o g[i + 1]

\* UnitsFrom satisfies its own equation: there is a function that does, from the
\* end of the text backwards.
LEMMA UnitsFromDef ==
  ASSUME NEW text, NEW doubled, Len(text) \in Nat
  PROVE  UnitsFrom(text, doubled) =
          [i \in 1 .. Len(text) + 2 |-> Cut(text, doubled, i, UnitsFrom(text, doubled))]
  <1> DEFINE N == Len(text) + 2
             Solves(g, k) == g = [i \in k .. N |-> Cut(text, doubled, i, g)]
             G == {m \in Nat : m < N => \E g : Solves(g, N - m)}
  <1>1. 0 \in G
    <2>1. Solves([i \in N .. N |-> <<>>], N)
      BY DEF Cut
    <2>2. QED
      BY <2>1
  <1>2. \A k \in Nat : k \in G => k + 1 \in G
    <2> SUFFICES ASSUME NEW k \in Nat, k \in G, k + 1 < N
                 PROVE  \E h : Solves(h, N - (k + 1))
      OBVIOUS
    <2>1. PICK g : Solves(g, N - k)
      OBVIOUS
    <2> DEFINE a == N - (k + 1)
               h == [i \in a .. N |-> IF i = a THEN Cut(text, doubled, a, g) ELSE g[i]]
    <2>2. \A i \in a .. N : h[i] = Cut(text, doubled, i, h)
      <3> SUFFICES ASSUME NEW i \in a .. N PROVE h[i] = Cut(text, doubled, i, h)
        OBVIOUS
      <3>1. i \in Nat /\ a \in Nat /\ N = Len(text) + 2
        OBVIOUS
      <3>2. i <= Len(text) => /\ i + 1 \in a .. N /\ i + 2 \in a .. N
                              /\ h[i + 1] = g[i + 1] /\ h[i + 2] = g[i + 2]
        OBVIOUS
      <3>3. Cut(text, doubled, i, h) = Cut(text, doubled, i, g)
        BY <3>1, <3>2 DEF Cut
      <3>4. CASE i = a
        BY <3>3, <3>4
      <3>5. CASE i # a
        <4>1. i \in N - k .. N /\ h[i] = g[i]
          BY <3>5
        <4>2. g[i] = Cut(text, doubled, i, g)
          BY <2>1, <4>1
        <4>3. QED
          BY <3>3, <4>1, <4>2
      <3>6. QED
        BY <3>4, <3>5
    <2>3. Solves(h, a)
      BY <2>2
    <2>4. QED
      BY <2>3
  <1>3. \E g : Solves(g, 1)
    <2>1. N - 1 \in Nat /\ N - 1 < N /\ N - (N - 1) = 1
      OBVIOUS
    <2>2. N - 1 \in G
      <3> HIDE DEF G
      <3>1. Nat \subseteq G
        BY <1>1, <1>2, Induction
      <3>2. QED
        BY <2>1, <3>1
    <2>3. QED
      BY <2>1, <2>2
  <1>4. UnitsFrom(text, doubled) = CHOOSE g : Solves(g, 1)
    BY DEF UnitsFrom, Cut
  <1> HIDE DEF Solves
  <1>5. Solves(UnitsFrom(text, doubled), 1)
    BY <1>3, <1>4
  <1>6. QED
    BY <1>5 DEF Solves

-----------------------------------------------------------------------------
(***************************************************************************)
(* Joining pieces                                                          *)
(***************************************************************************)
\* Where the elements of two sequences are when one follows the other.
LEMMA Concatenated ==
  ASSUME NEW S, NEW s \in Seq(S), NEW t \in Seq(S)
  PROVE  /\ s \o t \in Seq(S)
         /\ Len(s) \in Nat /\ Len(t) \in Nat /\ Len(s \o t) = Len(s) + Len(t)
         /\ \A i \in 1 .. Len(s) : (s \o t)[i] = s[i]
         /\ \A j \in 1 .. Len(t) : (s \o t)[Len(s) + j] = t[j]
  <1>1. Len(s) \in Nat /\ Len(t) \in Nat
    OBVIOUS
  <1>2. /\ s \o t \in Seq(S)
        /\ Len(s \o t) = Len(s) + Len(t)
        /\ \A i \in 1 .. Len(s) + Len(t) :
              (s \o t)[i] = IF i <= Len(s) THEN s[i] ELSE t[i - Len(s)]
    BY ConcatProperties
  <1> DEFINE u == s \o t
             m == Len(s)
             n == Len(t)
  <1> HIDE DEF u, m, n
  <1>3. /\ m \in Nat /\ n \in Nat
        /\ \A i \in 1 .. m + n : u[i] = IF i <= m THEN s[i] ELSE t[i - m]
    BY <1>1, <1>2 DEF u, m, n
  <1>4. \A i \in 1 .. m : u[i] = s[i]
    BY <1>3
  <1>5. \A j \in 1 .. n : u[m + j] = t[j]
    <2> SUFFICES ASSUME NEW j \in 1 .. n PROVE u[m + j] = t[j]
      OBVIOUS
    <2>1. m + j \in 1 .. m + n /\ ~(m + j <= m) /\ (m + j) - m = j
      BY <1>3
    <2>2. QED
      BY <1>3, <2>1
  <1>6. QED
    BY <1>1, <1>2, <1>4, <1>5 DEF u, m, n

\* f[k] is the first k sequences, one after the other.
Appends(f, seqs) ==
  f = [i \in 1 .. Len(seqs) |-> IF i = 1 THEN seqs[i] ELSE f[i - 1] \o seqs[i]]

\* FlattenSeq is the last value of such a function.
LEMMA FlattenSeqDef ==
  ASSUME NEW seqs, Len(seqs) \in Nat \ {0}
  PROVE  \E f : Appends(f, seqs) /\ FlattenSeq(seqs) = f[Len(seqs)]
  <1> DEFINE N == Len(seqs)
             Solves(g, k) == g = [i \in 1 .. k |-> IF i = 1 THEN seqs[i] ELSE g[i - 1] \o seqs[i]]
             G == {k \in Nat : \E g : Solves(g, k)}
  <1>1. 0 \in G
    <2> DEFINE g == [i \in 1 .. 0 |-> 0]
    <2>1. g = [i \in 1 .. 0 |-> IF i = 1 THEN seqs[i] ELSE g[i - 1] \o seqs[i]]
      <3>1. 1 .. 0 = {}
        OBVIOUS
      <3>2. QED
        BY <3>1, Zenon
    <2>2. QED
      BY <2>1
  <1>2. \A k \in Nat : k \in G => k + 1 \in G
    <2> SUFFICES ASSUME NEW k \in Nat, k \in G PROVE k + 1 \in G
      OBVIOUS
    <2>1. PICK g : Solves(g, k)
      OBVIOUS
    <2> DEFINE Last1 == IF k + 1 = 1 THEN seqs[k + 1] ELSE g[k] \o seqs[k + 1]
               h == [i \in 1 .. k + 1 |-> IF i = k + 1 THEN Last1 ELSE g[i]]
    <2>2. \A i \in 1 .. k + 1 : h[i] = IF i = 1 THEN seqs[i] ELSE h[i - 1] \o seqs[i]
      <3> SUFFICES ASSUME NEW i \in 1 .. k + 1
                   PROVE  h[i] = IF i = 1 THEN seqs[i] ELSE h[i - 1] \o seqs[i]
        OBVIOUS
      <3>1. i # 1 => i - 1 \in 1 .. k /\ h[i - 1] = g[i - 1]
        OBVIOUS
      <3>2. CASE i = k + 1
        BY <3>1, <3>2
      <3>3. CASE i # k + 1
        <4>1. i \in 1 .. k /\ h[i] = g[i]
          BY <3>3
        <4>2. g[i] = IF i = 1 THEN seqs[i] ELSE g[i - 1] \o seqs[i]
          BY <2>1, <4>1
        <4>3. QED
          BY <3>1, <4>1, <4>2
      <3>4. QED
        BY <3>2, <3>3
    <2>3. Solves(h, k + 1)
      BY <2>2
    <2>4. QED
      <3> HIDE DEF Solves, h
      <3>1. QED
        BY <2>3
  <1>3. \E g : Solves(g, N)
    <2>1. N \in G
      <3> HIDE DEF G
      <3>1. Nat \subseteq G
        BY <1>1, <1>2, Induction
      <3>2. QED
        BY <3>1
    <2>2. QED
      BY <2>1
  <1> DEFINE f == CHOOSE g : Solves(g, N)
  <1>4. FlattenSeq(seqs) = f[N]
    BY DEF FlattenSeq
  <1>5. Solves(f, N)
    <2> HIDE DEF Solves
    <2>1. QED
      BY <1>3
  <1>6. Appends(f, seqs)
    BY <1>5 DEF Appends
  <1>7. QED
    BY <1>4, <1>6

\* A text that consists of pieces, the k-th one from ends[k - 1] + 1 to ends[k].
IsCutAt(text, pieces, ends) ==
  /\ ends \in [0 .. Len(pieces) -> 0 .. Len(text)]
  /\ ends[0] = 0 /\ ends[Len(pieces)] = Len(text)
  /\ \A k \in 1 .. Len(pieces) :
      /\ ends[k] = ends[k - 1] + Len(pieces[k])
      /\ \A j \in 1 .. Len(pieces[k]) : text[ends[k - 1] + j] = pieces[k][j]

\* What FlattenSeq returns consists of the sequences it is given.
LEMMA FlattenedPieces ==
  ASSUME NEW S, NEW pieces \in Seq(Seq(S))
  PROVE  /\ FlattenSeq(pieces) \in Seq(S)
         /\ \E ends : IsCutAt(FlattenSeq(pieces), pieces, ends)
  <1> DEFINE n == Len(pieces)
             text == FlattenSeq(pieces)
  <1>0. n \in Nat /\ \A k \in 1 .. n : pieces[k] \in Seq(S)
    OBVIOUS
  <1>1. CASE n = 0
    <2>1. text = <<>> /\ pieces = <<>>
      BY <1>1 DEF FlattenSeq
    <2>2. IsCutAt(text, pieces, [k \in 0 .. 0 |-> 0])
      BY <2>1 DEF IsCutAt
    <2>3. QED
      BY <2>1, <2>2
  <1>2. CASE n # 0
    <2>1. PICK f : Appends(f, pieces) /\ text = f[n]
      BY <1>0, <1>2, FlattenSeqDef
    <2>2. f[1] = pieces[1] /\ \A k \in 2 .. n : f[k] = f[k - 1] \o pieces[k]
      <3>1. \A k \in 1 .. n : f[k] = IF k = 1 THEN pieces[k] ELSE f[k - 1] \o pieces[k]
        BY <2>1 DEF Appends
      <3>2. 1 \in 1 .. n /\ \A k \in 2 .. n : k \in 1 .. n /\ k # 1
        BY <1>0, <1>2
      <3>3. f[1] = pieces[1]
        BY <3>1, <3>2
      <3>4. ASSUME NEW k \in 2 .. n PROVE f[k] = f[k - 1] \o pieces[k]
        BY <3>1, <3>2
      <3>5. QED
        BY <3>3, <3>4
    <2> DEFINE Extends(k, l) == /\ Len(f[k]) <= Len(f[l])
                                /\ \A i \in 1 .. Len(f[k]) : f[l][i] = f[k][i]
               Good(l) == \A k \in 1 .. l : f[k] \in Seq(S) /\ Extends(k, l)
               G == {m \in Nat : m + 1 <= n => Good(m + 1)}
    <2>3. \A k \in 1 .. n : Good(k)
      <3>1. 0 \in G
        BY <1>0, <1>2, <2>2
      <3>2. \A m \in Nat : m \in G => m + 1 \in G
        <4> SUFFICES ASSUME NEW m \in Nat, m \in G, (m + 1) + 1 <= n PROVE Good((m + 1) + 1)
          <5> HIDE DEF Good
          <5>1. QED
            OBVIOUS
        <4>0. (m + 1) + 1 = m + 2 /\ m + 2 <= n
          OBVIOUS
        <4> DEFINE s == f[m + 1]
                   p == pieces[m + 2]
        <4>1. s \in Seq(S) /\ p \in Seq(S) /\ f[m + 2] = s \o p
          <5>1. /\ m + 1 <= n /\ m + 1 \in 1 .. m + 1
                /\ m + 2 \in 1 .. n /\ m + 2 \in 2 .. n /\ (m + 2) - 1 = m + 1
            BY <1>0, <4>0
          <5>2. s \in Seq(S)
            BY <5>1
          <5>3. p \in Seq(S)
            BY <1>0, <5>1
          <5>4. QED
            BY <2>2, <5>1, <5>2, <5>3
        <4>2. f[m + 2] \in Seq(S)
          BY <4>1
        <4>3. Extends(m + 1, m + 2) /\ Extends(m + 2, m + 2)
          <5>1. /\ Len(s) \in Nat /\ Len(p) \in Nat /\ Len(s \o p) = Len(s) + Len(p)
                /\ \A i \in 1 .. Len(s) : (s \o p)[i] = s[i]
            <6> HIDE DEF s, p
            <6>1. QED
              BY <4>1, Concatenated
          <5> HIDE DEF s, p
          <5>2. /\ Len(s) <= Len(f[m + 2]) /\ Len(f[m + 2]) <= Len(f[m + 2])
                /\ \A i \in 1 .. Len(s) : f[m + 2][i] = s[i]
            BY <4>1, <5>1
          <5>3. QED
            BY <5>2 DEF s
        <4>4. ASSUME NEW k \in 1 .. m + 1 PROVE Extends(k, m + 2)
          <5>1. Extends(k, m + 1)
            BY <1>0, <4>4
          <5>2. k <= n /\ Len(f[k]) \in Nat
            <6>1. k - 1 \in Nat /\ k <= m + 1 /\ k <= n
              BY <1>0
            <6>2. f[k] \in Seq(S)
              BY <6>1
            <6>3. QED
              BY <6>1, <6>2
          <5>3. Len(f[m + 1]) \in Nat /\ Len(f[m + 2]) \in Nat
            <6>1. f[m + 1] \in Seq(S) /\ f[m + 2] \in Seq(S)
              BY <4>1, <4>2
            <6> HIDE DEF s, p, Extends, Good, G
            <6>2. QED
              BY <6>1
          <5>4. Extends(m + 1, m + 2)
            BY <4>3
          <5> DEFINE a == f[k]
                     b == f[m + 1]
                     c == f[m + 2]
          <5> HIDE DEF a, b, c
          <5>5. /\ Len(a) \in Nat /\ Len(b) \in Nat /\ Len(a) <= Len(b) /\ Len(b) <= Len(c)
                /\ Len(c) \in Nat
                /\ \A i \in 1 .. Len(a) : b[i] = a[i]
                /\ \A i \in 1 .. Len(b) : c[i] = b[i]
            BY <5>1, <5>2, <5>3, <5>4 DEF a, b, c
          <5>6. Len(a) <= Len(c) /\ \A i \in 1 .. Len(a) : c[i] = a[i]
            BY <5>5
          <5>7. QED
            BY <5>6 DEF a, b, c
        <4>5. ASSUME NEW k \in 1 .. m + 2 PROVE f[k] \in Seq(S) /\ Extends(k, m + 2)
          <5>1. CASE k = m + 2
            BY <4>2, <4>3, <5>1
          <5>2. CASE k # m + 2
            <6>1. k \in 1 .. m + 1 /\ m + 1 <= n
              BY <1>0, <5>2
            <6>2. f[k] \in Seq(S)
              BY <6>1
            <6> HIDE DEF Extends
            <6>3. QED
              BY <4>4, <6>1, <6>2
          <5>3. QED
            BY <5>1, <5>2
        <4>6. QED
          BY <4>0, <4>5
      <3> HIDE DEF Good
      <3>3. Nat \subseteq G
        <4> HIDE DEF G
        <4>1. QED
          BY <3>1, <3>2, Induction
      <3>4. ASSUME NEW k \in 1 .. n PROVE Good(k)
        <4>1. k - 1 \in Nat /\ (k - 1) + 1 = k
          BY <1>0
        <4>2. k - 1 \in G
          BY <3>3, <4>1
        <4>3. QED
          BY <1>0, <4>1, <4>2
      <3>5. QED
        BY <3>4
    <2> DEFINE ends == [k \in 0 .. n |-> IF k = 0 THEN 0 ELSE Len(f[k])]
    <2>4. \A k \in 1 .. n : f[k] \in Seq(S) /\ Len(f[k]) \in Nat
      BY <2>3
    <2>5. ends \in [0 .. n -> 0 .. Len(text)]
      <3>1. Len(text) \in Nat
        BY <1>0, <1>2, <2>1, <2>4
      <3>2. ASSUME NEW k \in 1 .. n PROVE Len(f[k]) \in 0 .. Len(text)
        <4>1. Good(n)
          <5> HIDE DEF Good
          <5>1. QED
            BY <1>0, <1>2, <2>3
        <4>2. Len(f[k]) <= Len(f[n])
          BY <4>1
        <4>3. QED
          BY <2>1, <2>4, <3>1, <4>2
      <3>3. QED
        BY <3>1, <3>2
    <2>6. ends[0] = 0 /\ ends[n] = Len(text)
      BY <1>0, <1>2, <2>1
    <2>7. ASSUME NEW k \in 1 .. n
          PROVE  /\ ends[k] = ends[k - 1] + Len(pieces[k])
                 /\ \A j \in 1 .. Len(pieces[k]) : f[k][ends[k - 1] + j] = pieces[k][j]
      <3>1. CASE k = 1
        BY <1>0, <2>2, <3>1
      <3>2. CASE k # 1
        <4>1. k - 1 \in 1 .. n /\ k - 1 # 0 /\ k \in 2 .. n
          BY <1>0, <3>2
        <4>2. ends[k - 1] = Len(f[k - 1]) /\ ends[k] = Len(f[k])
          BY <1>0, <4>1
        <4>3. f[k] = f[k - 1] \o pieces[k] /\ f[k - 1] \in Seq(S) /\ pieces[k] \in Seq(S)
          BY <1>0, <2>2, <2>4, <4>1
        <4>4. QED
          <5> DEFINE a == f[k - 1]
                     b == pieces[k]
          <5> HIDE DEF a, b
          <5>1. /\ Len(a \o b) = Len(a) + Len(b) /\ Len(a) \in Nat /\ Len(b) \in Nat
                /\ \A j \in 1 .. Len(b) : (a \o b)[Len(a) + j] = b[j]
            <6>1. a \in Seq(S) /\ b \in Seq(S)
              BY <4>3 DEF a, b
            <6>2. QED
              BY <6>1, Concatenated
          <5>2. QED
            <6>1. ends[k - 1] = Len(a) /\ f[k] = a \o b /\ ends[k] = Len(a \o b)
              BY <4>2, <4>3 DEF a, b
            <6> HIDE DEF ends
            <6>2. /\ ends[k] = ends[k - 1] + Len(b)
                  /\ \A j \in 1 .. Len(b) : f[k][ends[k - 1] + j] = b[j]
              BY <5>1, <6>1
            <6>3. QED
              BY <6>2 DEF b
      <3>3. QED
        BY <3>1, <3>2
    <2>8. ASSUME NEW k \in 1 .. n, NEW j \in 1 .. Len(pieces[k])
          PROVE  text[ends[k - 1] + j] = pieces[k][j]
      <3>1. Extends(k, n)
        BY <1>0, <1>2, <2>3
      <3>2. ends[k - 1] + j \in 1 .. Len(f[k])
        <4>1. ends[k - 1] \in Nat /\ Len(pieces[k]) \in Nat /\ ends[k] = Len(f[k])
          BY <1>0, <2>5
        <4>2. ends[k] = ends[k - 1] + Len(pieces[k])
          BY <2>7
        <4> HIDE DEF ends
        <4>3. QED
          BY <4>1, <4>2
      <3>3. QED
        BY <2>1, <2>7, <3>1, <3>2
    <2>9. IsCutAt(text, pieces, ends)
      <3> HIDE DEF ends
      <3>1. QED
        BY <2>5, <2>6, <2>7, <2>8 DEF IsCutAt
    <2>10. text \in Seq(S)
      BY <1>0, <1>2, <2>1, <2>4
    <2>11. QED
      BY <2>9, <2>10
  <1>3. QED
    BY <1>1, <1>2

-----------------------------------------------------------------------------
(***************************************************************************)
(* Cutting what has been joined                                            *)
(***************************************************************************)
\* The piece that Units cuts off at i.
CutsOff(text, doubled, i, piece) ==
  \/ ~IsPair(text, doubled, i) /\ piece = <<text[i]>>
  \/ IsPair(text, doubled, i) /\ piece = <<text[i], text[i + 1]>>

\* If every piece is what Units cuts off where it starts, these are its units.
LEMMA CutsInto ==
  ASSUME NEW S, NEW text \in Seq(S), NEW doubled, NEW pieces \in Seq(Seq(S)), NEW ends,
         IsCutAt(text, pieces, ends),
         \A k \in 1 .. Len(pieces) : CutsOff(text, doubled, ends[k - 1] + 1, pieces[k])
  PROVE  Units(text, doubled) = pieces
  <1> DEFINE n == Len(pieces)
             u == UnitsFrom(text, doubled)
             Rest(j) == u[ends[j] + 1] = SubSeq(pieces, j + 1, n)
             G == {m \in Nat : m <= n => Rest(n - m)}
  <1>1. n \in Nat /\ Len(text) \in Nat
    OBVIOUS
  <1>2. \A i \in 1 .. Len(text) + 2 : u[i] = Cut(text, doubled, i, u)
    <2> HIDE DEF u
    <2>1. u = [i \in 1 .. Len(text) + 2 |-> Cut(text, doubled, i, u)]
      BY <1>1, UnitsFromDef DEF u
    <2>2. QED
      BY <2>1
  <1>3. Rest(n)
    <2>1. ends[n] = Len(text)
      BY DEF IsCutAt
    <2>2. u[Len(text) + 1] = <<>>
      <3>1. Len(text) + 1 \in 1 .. Len(text) + 2
        BY <1>1
      <3>2. u[Len(text) + 1] = Cut(text, doubled, Len(text) + 1, u)
        BY <1>2, <3>1
      <3>3. Len(text) + 1 > Len(text)
        BY <1>1
      <3> HIDE DEF u
      <3>4. QED
        BY <3>2, <3>3 DEF Cut
    <2>3. SubSeq(pieces, n + 1, n) = <<>>
      BY <1>1, SubSeqEmpty
    <2> HIDE DEF u
    <2>4. QED
      BY <2>1, <2>2, <2>3
  <1>4. ASSUME NEW k \in 1 .. n, Rest(k) PROVE Rest(k - 1)
    <2> DEFINE i == ends[k - 1] + 1
    <2>1. /\ ends[k - 1] \in 0 .. Len(text) /\ ends[k] \in 0 .. Len(text)
          /\ ends[k] = ends[k - 1] + Len(pieces[k])
      BY <1>1 DEF IsCutAt
    <2>2. CutsOff(text, doubled, i, pieces[k])
      OBVIOUS
    <2> HIDE DEF u, i
    <2>3. u[i] = <<pieces[k]>> \o u[ends[k] + 1]
      <3>1. CASE ~IsPair(text, doubled, i) /\ pieces[k] = <<text[i]>>
        <4>1. Len(pieces[k]) = 1
          BY <3>1
        <4>2. ends[k] + 1 = i + 1 /\ i \in 1 .. Len(text)
          BY <1>1, <2>1, <4>1 DEF i
        <4>3. u[i] = Cut(text, doubled, i, u)
          BY <1>1, <1>2, <4>2
        <4>4. QED
          <5>1. ~(i > Len(text))
            BY <1>1, <4>2
          <5>2. Cut(text, doubled, i, u) = <<<<text[i]>>>> \o u[i + 1]
            BY <3>1, <5>1 DEF Cut
          <5>3. QED
            BY <3>1, <4>2, <4>3, <5>2
      <3>2. CASE IsPair(text, doubled, i) /\ pieces[k] = <<text[i], text[i + 1]>>
        <4>1. Len(pieces[k]) = 2
          BY <3>2
        <4>2. ends[k] + 1 = i + 2 /\ i \in 1 .. Len(text)
          BY <1>1, <2>1, <4>1 DEF i
        <4>3. u[i] = Cut(text, doubled, i, u)
          BY <1>1, <1>2, <4>2
        <4>4. QED
          <5>1. ~(i > Len(text))
            BY <1>1, <4>2
          <5>2. Cut(text, doubled, i, u) = <<<<text[i], text[i + 1]>>>> \o u[i + 2]
            BY <3>2, <5>1 DEF Cut
          <5>3. QED
            BY <3>2, <4>2, <4>3, <5>2
      <3>3. QED
        BY <2>2, <3>1, <3>2 DEF CutsOff
    <2>4. SubSeq(pieces, k, n) = <<pieces[k]>> \o SubSeq(pieces, k + 1, n)
      <3>1. k \in 1 .. Len(pieces) /\ n \in k .. Len(pieces)
        BY <1>1
      <3> HIDE DEF n
      <3>2. QED
        BY <3>1, SubSeqRecursiveFirst
    <2>5. u[ends[k] + 1] = SubSeq(pieces, k + 1, n)
      BY <1>4
    <2>6. (k - 1) + 1 = k
      BY <1>1
    <2>7. QED
      BY <2>3, <2>4, <2>5, <2>6 DEF i
  <1>5. 0 \in G
    BY <1>1, <1>3
  <1>6. \A m \in Nat : m \in G => m + 1 \in G
    <2> SUFFICES ASSUME NEW m \in Nat, m \in G, m + 1 <= n PROVE Rest(n - (m + 1))
      <3> HIDE DEF Rest
      <3>1. QED
        OBVIOUS
    <2> HIDE DEF Rest
    <2>1. Rest(n - m) /\ n - m \in 1 .. n /\ (n - m) - 1 = n - (m + 1)
      BY <1>1
    <2>2. Rest((n - m) - 1)
      BY <1>4, <2>1
    <2>3. QED
      BY <2>1, <2>2
  <1>7. Rest(0)
    <2> HIDE DEF Rest
    <2>1. n \in G
      <3> HIDE DEF G
      <3>1. QED
        BY <1>1, <1>5, <1>6, Induction
    <2>2. n - n = 0
      BY <1>1
    <2>3. QED
      BY <1>1, <2>1, <2>2
  <1>8. ends[0] + 1 = 1 /\ 0 + 1 = 1
    BY DEF IsCutAt
  <1>9. SubSeq(pieces, 1, n) = pieces
    BY SubSeqFull
  <1>10. QED
    BY <1>7, <1>8, <1>9 DEF Units

\* The texts there may be.
Texts == Seq(Characters)

\* None of them is what stands for a text that has been rejected.
LEMMA TextsAreKept == Rejected \notin Texts
  <1>1. Rejected[1] = "rejected" /\ 1 \in DOMAIN Rejected
    BY DEF Rejected
  <1>2. "rejected" \notin Characters
    BY DEF Characters
  <1>3. \A t \in Texts : \A i \in DOMAIN t : t[i] \in Characters
    BY DEF Texts
  <1>4. QED
    BY <1>1, <1>2, <1>3

\* Where no escape begins, a text is cut into its characters.
LEMMA PlainUnits ==
  ASSUME NEW text \in Texts, NEW doubled, \A i \in DOMAIN text : ~IsPair(text, doubled, i)
  PROVE  Units(text, doubled) = [i \in DOMAIN text |-> <<text[i]>>]
  <1> DEFINE pieces == [i \in DOMAIN text |-> <<text[i]>>]
             ends == [k \in 0 .. Len(text) |-> k]
  <1>1. Len(text) \in Nat /\ DOMAIN text = 1 .. Len(text) /\ text \in Seq(Characters)
    BY DEF Texts
  <1>2. \A i \in 1 .. Len(text) : <<text[i]>> \in Seq(Characters) /\ Len(<<text[i]>>) = 1
    BY <1>1
  <1>3. pieces \in Seq(Seq(Characters)) /\ Len(pieces) = Len(text)
    BY <1>1, <1>2
  <1>4. IsCutAt(text, pieces, ends)
    <2>1. \A k \in 1 .. Len(text) : k - 1 \in 0 .. Len(text) /\ k \in 0 .. Len(text)
      BY <1>1
    <2>2. ends \in [0 .. Len(pieces) -> 0 .. Len(text)] /\ ends[0] = 0 /\ ends[Len(pieces)] = Len(text)
      BY <1>1, <1>3
    <2>3. ASSUME NEW k \in 1 .. Len(text)
          PROVE  /\ ends[k] = ends[k - 1] + Len(pieces[k])
                 /\ \A j \in 1 .. Len(pieces[k]) : text[ends[k - 1] + j] = pieces[k][j]
      <3>1. pieces[k] = <<text[k]>> /\ Len(pieces[k]) = 1 /\ pieces[k][1] = text[k]
        BY <1>1, <1>2
      <3>2. ends[k] = k /\ ends[k - 1] = k - 1 /\ (k - 1) + 1 = k
        BY <1>1, <2>1
      <3> HIDE DEF ends, pieces
      <3>3. QED
        BY <3>1, <3>2
    <2> HIDE DEF ends, pieces
    <2>4. QED
      BY <1>3, <2>2, <2>3 DEF IsCutAt
  <1>5. ASSUME NEW k \in 1 .. Len(pieces)
        PROVE  CutsOff(text, doubled, ends[k - 1] + 1, pieces[k])
    <2>1. k \in DOMAIN text /\ ends[k - 1] + 1 = k /\ pieces[k] = <<text[k]>>
      BY <1>1, <1>3
    <2>2. QED
      BY <2>1 DEF CutsOff
  <1> HIDE DEF ends, pieces
  <1>6. Units(text, doubled) = pieces
    BY <1>1, <1>3, <1>4, <1>5, CutsInto
  <1>7. QED
    BY <1>6 DEF pieces

-----------------------------------------------------------------------------
(***************************************************************************)
(* What the encoder writes                                                 *)
(***************************************************************************)
\* The encoder writes a character as it is or as a pair that starts with a
\* backslash.
LEMMA Escapes ==
  ASSUME NEW c \in Characters
  PROVE  /\ Escape(c) \in Seq(Characters)
         /\ \/ /\ Escape(c) = <<c>> /\ Len(Escape(c)) = 1 /\ Escape(c)[1] = c
               /\ c \notin {"quote", "dquote", "special", "newline", "backslash"}
            \/ /\ \E d \in Characters : Escape(c) = <<"backslash", d>>
               /\ Len(Escape(c)) = 2 /\ Escape(c)[1] = "backslash"
  <1>1. CASE c \in {"quote", "dquote", "special", "newline", "backslash"}
    <2>1. PICK d \in Characters : Escape(c) = <<"backslash", d>>
      <3>1. {"u0027", "u0022", "uXXXX", "n", "backslash"} \subseteq Characters
        BY DEF Characters
      <3>2. QED
        BY <1>1, <3>1 DEF Escape
    <2>2. "backslash" \in Characters
      BY DEF Characters
    <2> HIDE DEF Characters
    <2>3. /\ Escape(c) \in Seq(Characters)
          /\ Len(Escape(c)) = 2 /\ Escape(c)[1] = "backslash"
      BY <2>1, <2>2
    <2>4. QED
      BY <2>1, <2>3
  <1>2. CASE c \notin {"quote", "dquote", "special", "newline", "backslash"}
    <2>1. Escape(c) = <<c>>
      BY <1>2 DEF Escape
    <2>2. QED
      BY <1>2, <2>1
  <1>3. QED
    BY <1>1, <1>2

\* A text that has been encoded consists of the escapes of its characters.
LEMMA SerializedPieces ==
  ASSUME NEW text \in Texts
  PROVE  LET pieces == [i \in DOMAIN text |-> Escape(text[i])]
         IN  /\ pieces \in Seq(Seq(Characters)) /\ Len(pieces) = Len(text)
             /\ Serialize(text) \in Texts
             /\ \E ends : IsCutAt(Serialize(text), pieces, ends)
  <1> DEFINE pieces == [i \in DOMAIN text |-> Escape(text[i])]
  <1>1. Len(text) \in Nat /\ DOMAIN text = 1 .. Len(text) /\ text \in Seq(Characters)
    BY DEF Texts
  <1>2. \A i \in 1 .. Len(text) : Escape(text[i]) \in Seq(Characters)
    BY <1>1, Escapes
  <1>3. pieces \in Seq(Seq(Characters)) /\ Len(pieces) = Len(text)
    BY <1>1, <1>2
  <1> HIDE DEF pieces
  <1>4. FlattenSeq(pieces) \in Seq(Characters) /\ \E ends : IsCutAt(FlattenSeq(pieces), pieces, ends)
    BY <1>3, FlattenedPieces
  <1>5. QED
    BY <1>3, <1>4 DEF Serialize, Texts, pieces


\* A piece that is cut off wherever it stands.
IsEscape(piece, doubled) ==
  \/ \E c \in Characters \ ({"backslash"} \cup doubled) : piece = <<c>>
  \/ \E c \in Characters : piece = <<"backslash", c>>

\* A text that consists of such pieces is cut into them again.
LEMMA EscapesCut ==
  ASSUME NEW text \in Texts, NEW doubled, NEW pieces \in Seq(Texts), NEW ends,
         IsCutAt(text, pieces, ends),
         \A k \in 1 .. Len(pieces) : IsEscape(pieces[k], doubled)
  PROVE  Units(text, doubled) = pieces
  <1>1. /\ text \in Seq(Characters) /\ pieces \in Seq(Seq(Characters))
        /\ Len(text) \in Nat /\ Len(pieces) \in Nat
    BY DEF Texts
  <1>2. ASSUME NEW k \in 1 .. Len(pieces)
        PROVE  CutsOff(text, doubled, ends[k - 1] + 1, pieces[k])
    <2> DEFINE i == ends[k - 1] + 1
    <2>1. /\ ends[k - 1] \in 0 .. Len(text) /\ ends[k] \in 0 .. Len(text)
          /\ ends[k] = ends[k - 1] + Len(pieces[k])
          /\ \A j \in 1 .. Len(pieces[k]) : text[ends[k - 1] + j] = pieces[k][j]
      <3>1. k - 1 \in 0 .. Len(pieces) /\ k \in 0 .. Len(pieces)
        BY <1>1
      <3>2. QED
        BY <3>1 DEF IsCutAt
    <2>2. ASSUME NEW c \in Characters \ ({"backslash"} \cup doubled), pieces[k] = <<c>>
          PROVE  CutsOff(text, doubled, i, pieces[k])
      <3>1. Len(pieces[k]) = 1 /\ pieces[k][1] = c
        BY <2>2
      <3>2. text[i] = c
        BY <2>1, <3>1
      <3>3. QED
        BY <2>2, <3>2 DEF CutsOff, IsPair
    <2>3. ASSUME NEW c \in Characters, pieces[k] = <<"backslash", c>>
          PROVE  CutsOff(text, doubled, i, pieces[k])
      <3>1. Len(pieces[k]) = 2 /\ pieces[k][1] = "backslash" /\ pieces[k][2] = c
        BY <2>3
      <3>2. text[i] = "backslash" /\ text[i + 1] = c /\ i < Len(text)
        <4>1. i + 1 = ends[k - 1] + 2
          BY <2>1
        <4>2. text[ends[k - 1] + 1] = pieces[k][1] /\ text[ends[k - 1] + 2] = pieces[k][2]
          BY <2>1, <3>1
        <4>3. i < Len(text)
          BY <1>1, <2>1, <3>1
        <4>4. QED
          BY <3>1, <4>1, <4>2, <4>3
      <3>3. QED
        BY <2>3, <3>2 DEF CutsOff, IsPair
    <2>4. QED
      BY <2>2, <2>3 DEF IsEscape
  <1>3. QED
    BY <1>1, <1>2, CutsInto

\* These are its units, whether an apostrophe doubles or not.
LEMMA SerializedUnits ==
  ASSUME NEW text \in Texts, NEW doubled \in SUBSET {"quote"}
  PROVE  Units(Serialize(text), doubled) = [i \in DOMAIN text |-> Escape(text[i])]
  <1> DEFINE pieces == [i \in DOMAIN text |-> Escape(text[i])]
             written == Serialize(text)
  <1>1. Len(text) \in Nat /\ DOMAIN text = 1 .. Len(text) /\ text \in Seq(Characters)
    BY DEF Texts
  <1>2. /\ pieces \in Seq(Texts) /\ Len(pieces) = Len(text)
        /\ written \in Texts
    BY SerializedPieces DEF Texts
  <1>3. PICK ends : IsCutAt(written, pieces, ends)
    BY SerializedPieces
  <1>4. ASSUME NEW k \in 1 .. Len(pieces) PROVE IsEscape(pieces[k], doubled)
    <2>1. pieces[k] = Escape(text[k]) /\ text[k] \in Characters
      BY <1>1, <1>2
    <2> HIDE DEF pieces, written
    <2>2. QED
      BY <2>1, Escapes DEF IsEscape
  <1> HIDE DEF pieces, written
  <1>5. Units(written, doubled) = pieces
    BY <1>2, <1>3, <1>4, EscapesCut
  <1>6. QED
    BY <1>5 DEF pieces, written

-----------------------------------------------------------------------------
(***************************************************************************)
(* What is read of it                                                      *)
(***************************************************************************)
\* What the two readers make of an escape of two characters.
LEMMA Pairs ==
  ASSUME NEW d \in Characters
  PROVE  /\ <<"backslash", d>> \notin SqlUnreadable
         /\ SqlMeaning(<<"backslash", d>>) = IF d = "n" THEN "newline" ELSE d
         /\ <<"backslash", d>> \in JsonUnreadable <=> d \in {"word", "newline", "special"}
         /\ JsonMeaning(<<"backslash", d>>) =
              CASE d = "n" -> "newline"
                [] d = "u0027" -> "quote"
                [] d = "u0022" -> "dquote"
                [] d = "uXXXX" -> "special"
                [] OTHER -> d
  <1>1. Last(<<"backslash", d>>) = d
    BY DEF Last
  <1>2. \A x, y, v, w \in Characters \cup {"backslash"} :
          /\ <<x>> # <<v, w>>
          /\ <<x, y>> = <<v, w>> <=> x = v /\ y = w
    OBVIOUS
  <1>3. {"word", "n", "quote", "dquote", "newline", "backslash", "special", "u0027", "u0022", "uXXXX"}
          \subseteq Characters
    BY DEF Characters
  <1> DEFINE u == <<"backslash", d>>
  <1>4. /\ u # <<"quote">> /\ u # <<"dquote">> /\ u # <<"backslash">>
        /\ u = <<"backslash", "n">> <=> d = "n"
        /\ u = <<"backslash", "word">> <=> d = "word"
        /\ u = <<"backslash", "newline">> <=> d = "newline"
        /\ u = <<"backslash", "special">> <=> d = "special"
        /\ u = <<"backslash", "u0027">> <=> d = "u0027"
        /\ u = <<"backslash", "u0022">> <=> d = "u0022"
        /\ u = <<"backslash", "uXXXX">> <=> d = "uXXXX"
    BY <1>2, <1>3
  <1> HIDE DEF u
  <1>5. u \notin SqlUnreadable /\ (u \in JsonUnreadable <=> d \in {"word", "newline", "special"})
    BY <1>4 DEF SqlUnreadable, JsonUnreadable
  <1>6. Last(u) = d
    BY <1>1 DEF u
  <1>7. SqlMeaning(u) = IF d = "n" THEN "newline" ELSE d
    BY <1>4, <1>6 DEF SqlMeaning
  <1>8. JsonMeaning(u) =
              CASE d = "n" -> "newline"
                [] d = "u0027" -> "quote"
                [] d = "u0022" -> "dquote"
                [] d = "uXXXX" -> "special"
                [] OTHER -> d
    BY <1>4, <1>6 DEF JsonMeaning
  <1>9. QED
    BY <1>5, <1>7, <1>8 DEF u

\* And of a character by itself.
LEMMA Singles ==
  ASSUME NEW c \in Characters
  PROVE  /\ <<c>> \in SqlUnreadable <=> c \in {"quote", "backslash"}
         /\ SqlMeaning(<<c>>) = c
         /\ <<c>> \in JsonUnreadable <=> c \in {"dquote", "backslash"}
         /\ JsonMeaning(<<c>>) = c
  <1>1. Last(<<c>>) = c
    BY DEF Last
  <1>2. \A x, v, w \in Characters : <<x>> # <<v, w>> /\ (<<x>> = <<v>> <=> x = v)
    OBVIOUS
  <1>3. {"word", "n", "quote", "dquote", "newline", "backslash", "special", "u0027", "u0022", "uXXXX"}
          \subseteq Characters
    BY DEF Characters
  <1> DEFINE u == <<c>>
  <1>4. /\ u = <<"quote">> <=> c = "quote"
        /\ u = <<"dquote">> <=> c = "dquote"
        /\ u = <<"backslash">> <=> c = "backslash"
        /\ u # <<"backslash", "n">> /\ u # <<"backslash", "word">>
        /\ u # <<"backslash", "newline">> /\ u # <<"backslash", "special">>
        /\ u # <<"backslash", "u0027">> /\ u # <<"backslash", "u0022">>
        /\ u # <<"backslash", "uXXXX">>
    BY <1>2, <1>3
  <1> HIDE DEF u
  <1>5. /\ u \in SqlUnreadable <=> c \in {"quote", "backslash"}
        /\ u \in JsonUnreadable <=> c \in {"dquote", "backslash"}
    BY <1>4 DEF SqlUnreadable, JsonUnreadable
  <1>6. Last(u) = c
    BY <1>1 DEF u
  <1>7. SqlMeaning(u) = c /\ JsonMeaning(u) = c
    BY <1>4, <1>6 DEF SqlMeaning, JsonMeaning
  <1>8. QED
    BY <1>5, <1>7 DEF u

\* What the two readers make of an escape.
LEMMA Meanings ==
  ASSUME NEW c \in Characters
  PROVE  /\ Escape(c) \notin SqlUnreadable
         /\ SqlMeaning(Escape(c)) =
              CASE c = "quote" -> "u0027"
                [] c = "dquote" -> "u0022"
                [] c = "special" -> "uXXXX"
                [] OTHER -> c
         /\ Escape(c) \notin JsonUnreadable
         /\ JsonMeaning(Escape(c)) = c
  <1>0. {"n", "backslash", "u0027", "u0022", "uXXXX"} \subseteq Characters
    BY DEF Characters
  <1>1. ASSUME NEW d \in {"n", "backslash", "u0027", "u0022", "uXXXX"}
        PROVE  /\ <<"backslash", d>> \notin SqlUnreadable
               /\ SqlMeaning(<<"backslash", d>>) = IF d = "n" THEN "newline" ELSE d
               /\ <<"backslash", d>> \notin JsonUnreadable
               /\ JsonMeaning(<<"backslash", d>>) =
                    CASE d = "n" -> "newline"
                      [] d = "u0027" -> "quote"
                      [] d = "u0022" -> "dquote"
                      [] d = "uXXXX" -> "special"
                      [] OTHER -> d
    <2>1. d \in Characters /\ d \notin {"word", "newline", "special"}
      BY <1>0
    <2>2. QED
      BY <2>1, Pairs
  <1>2. CASE c = "quote"
    <2>1. Escape(c) = <<"backslash", "u0027">>
      BY <1>2 DEF Escape
    <2>2. QED
      BY <1>1, <1>2, <2>1
  <1>3. CASE c = "dquote"
    <2>1. Escape(c) = <<"backslash", "u0022">>
      BY <1>3 DEF Escape
    <2>2. QED
      BY <1>1, <1>3, <2>1
  <1>4. CASE c = "special"
    <2>1. Escape(c) = <<"backslash", "uXXXX">>
      BY <1>4 DEF Escape
    <2>2. QED
      BY <1>1, <1>4, <2>1
  <1>5. CASE c = "newline"
    <2>1. Escape(c) = <<"backslash", "n">>
      BY <1>5 DEF Escape
    <2>2. QED
      BY <1>1, <1>5, <2>1
  <1>6. CASE c = "backslash"
    <2>1. Escape(c) = <<"backslash", "backslash">>
      BY <1>6 DEF Escape
    <2>2. QED
      BY <1>1, <1>6, <2>1
  <1>7. CASE c \notin {"quote", "dquote", "special", "newline", "backslash"}
    <2>1. Escape(c) = <<c>>
      BY <1>7 DEF Escape
    <2>2. QED
      BY <1>7, <2>1, Singles
  <1>8. QED
    BY <1>2, <1>3, <1>4, <1>5, <1>6, <1>7

-----------------------------------------------------------------------------
(***************************************************************************)
(* Replacing before reading                                                *)
(***************************************************************************)
\* A replacement of characters that neither makes nor removes a backslash.
Becomes(f, c) == IF c \in DOMAIN f THEN f[c] ELSE c

IsReplacement(f) ==
  \A c \in Characters :
    /\ Becomes(f, c) \in Characters
    /\ Becomes(f, c) = "backslash" <=> c = "backslash"

\* Both replacements of the program are of this kind.
LEMMA Replacements ==
  /\ IsReplacement([c \in {"u0027"} |-> "quote"])
  /\ IsReplacement([c \in {"quote"} |-> "u0027"])
  BY DEF IsReplacement, Becomes, Characters

\* It changes no length.
LEMMA Applied ==
  ASSUME NEW f, IsReplacement(f), NEW text \in Texts
  PROVE  /\ Apply(f, text) \in Texts /\ Len(Apply(f, text)) = Len(text)
         /\ \A i \in 1 .. Len(text) : Apply(f, text)[i] = Becomes(f, text[i])
  <1>1. Len(text) \in Nat /\ DOMAIN text = 1 .. Len(text) /\ \A i \in 1 .. Len(text) : text[i] \in Characters
    BY DEF Texts
  <1>2. Apply(f, text) = [i \in 1 .. Len(text) |-> Becomes(f, text[i])]
    BY <1>1 DEF Apply, Becomes
  <1>3. \A i \in 1 .. Len(text) : Becomes(f, text[i]) \in Characters
    BY <1>1 DEF IsReplacement
  <1>4. QED
    BY <1>1, <1>2, <1>3 DEF Texts

\* What a text is cut into: a character, or a backslash with one.
IsUnit(u) ==
  \/ \E c \in Characters : u = <<c>>
  \/ \E c \in Characters : u = <<"backslash", c>>

\* What becomes of such a unit.
LEMMA AppliedUnits ==
  ASSUME NEW f, IsReplacement(f), NEW c \in Characters
  PROVE  /\ Apply(f, <<c>>) = <<Becomes(f, c)>>
         /\ \A d \in Characters : Apply(f, <<c, d>>) = <<Becomes(f, c), Becomes(f, d)>>
  <1>1. DOMAIN <<c>> = 1 .. 1 /\ Apply(f, <<c>>) = [i \in 1 .. 1 |-> Becomes(f, c)]
    BY DEF Apply, Becomes
  <1>2. ASSUME NEW d \in Characters
        PROVE  Apply(f, <<c, d>>) = <<Becomes(f, c), Becomes(f, d)>>
    <2>1. <<c, d>> \in Texts /\ Len(<<c, d>>) = 2
      BY DEF Texts
    <2> DEFINE a == Apply(f, <<c, d>>)
               b == <<Becomes(f, c), Becomes(f, d)>>
    <2>2. a \in Texts /\ Len(a) = 2 /\ a[1] = b[1] /\ a[2] = b[2]
      BY <2>1, Applied
    <2>3. b \in Texts /\ Len(b) = 2
      BY DEF Texts, IsReplacement
    <2> HIDE DEF a, b
    <2>4. a = b
      <3>1. \A i \in 1 .. Len(a) : a[i] = b[i]
        BY <2>2
      <3>2. QED
        BY <2>2, <2>3, <3>1, SeqEqual DEF Texts
    <2>5. QED
      BY <2>4 DEF a, b
  <1>3. QED
    BY <1>1, <1>2

\* Units that are replaced one by one.
Each(f, units) == [k \in DOMAIN units |-> Apply(f, units[k])]

AreUnits(units) == units \in Seq(Texts) /\ \A k \in DOMAIN units : IsUnit(units[k])

LEMMA EachOfOneMore ==
  ASSUME NEW f, IsReplacement(f), NEW u \in Texts, IsUnit(u), NEW units, AreUnits(units)
  PROVE  /\ AreUnits(<<u>> \o units)
         /\ Each(f, <<u>> \o units) = <<Apply(f, u)>> \o Each(f, units)
  <1>1. units \in Seq(Texts) /\ <<u>> \in Seq(Texts) /\ Len(<<u>>) = 1 /\ <<u>>[1] = u
    BY DEF AreUnits
  <1> DEFINE all == <<u>> \o units
             n == Len(units)
             each == Each(f, units)
             one == <<Apply(f, u)>>
             both == one \o each
             every == Each(f, all)
  <1>2. /\ all \in Seq(Texts) /\ n \in Nat /\ Len(all) = n + 1
        /\ all[1] = u /\ \A j \in 1 .. n : all[1 + j] = units[j]
    BY <1>1, Concatenated
  <1>3. \A i \in 1 .. n + 1 : i = 1 \/ (i - 1 \in 1 .. n /\ i = 1 + (i - 1))
    BY <1>2
  <1>4. AreUnits(all)
    <2> HIDE DEF all, n
    <2>1. ASSUME NEW i \in 1 .. n + 1 PROVE IsUnit(all[i])
      <3>1. CASE i = 1
        BY <1>2, <3>1
      <3>2. CASE i # 1
        <4>1. i - 1 \in 1 .. n /\ all[i] = units[i - 1]
          BY <1>2, <1>3, <3>2
        <4>2. DOMAIN units = 1 .. n
          BY <1>1 DEF n
        <4>3. QED
          BY <4>1, <4>2 DEF AreUnits
      <3>3. QED
        BY <3>1, <3>2
    <2>2. DOMAIN all = 1 .. n + 1
      BY <1>2
    <2>3. QED
      BY <1>2, <2>1, <2>2 DEF AreUnits
  <1>5. /\ each \in Seq(Texts) /\ Len(each) = n
        /\ \A j \in 1 .. n : each[j] = Apply(f, units[j])
    <2>1. \A j \in 1 .. n : Apply(f, units[j]) \in Texts
      BY <1>1, Applied
    <2>2. DOMAIN units = 1 .. n
      BY <1>1
    <2>3. QED
      BY <1>2, <2>1, <2>2 DEF Each
  <1>6. /\ every \in Seq(Texts) /\ Len(every) = n + 1
        /\ \A i \in 1 .. n + 1 : every[i] = Apply(f, all[i])
    <2> HIDE DEF all, n
    <2>1. DOMAIN all = 1 .. n + 1
      BY <1>2
    <2>2. \A i \in 1 .. n + 1 : all[i] \in Texts
      BY <1>2, <2>1
    <2>3. \A i \in 1 .. n + 1 : Apply(f, all[i]) \in Texts
      BY <2>2, Applied
    <2>4. QED
      BY <1>2, <2>1, <2>3 DEF Each
  <1>7. one \in Seq(Texts) /\ Len(one) = 1 /\ one[1] = Apply(f, u)
    <2>1. Apply(f, u) \in Texts
      BY Applied
    <2>2. QED
      BY <2>1
  <1> HIDE DEF all, n, each, one, every
  <1>8. /\ both \in Seq(Texts) /\ Len(both) = n + 1
        /\ both[1] = Apply(f, u) /\ \A j \in 1 .. n : both[1 + j] = each[j]
    <2>1. each \in Seq(Texts) /\ one \in Seq(Texts)
      BY <1>5, <1>7
    <2>2. /\ both \in Seq(Texts) /\ Len(both) = Len(one) + Len(each)
          /\ \A i \in 1 .. Len(one) : both[i] = one[i]
          /\ \A j \in 1 .. Len(each) : both[Len(one) + j] = each[j]
      BY <2>1, Concatenated
    <2> HIDE DEF both
    <2>3. Len(one) = 1 /\ Len(each) = n /\ n \in Nat /\ one[1] = Apply(f, u)
      BY <1>2, <1>5, <1>7
    <2>4. QED
      BY <2>2, <2>3
  <1> HIDE DEF both
  <1>9. \A i \in 1 .. n + 1 : every[i] = both[i]
    <2> SUFFICES ASSUME NEW i \in 1 .. n + 1 PROVE every[i] = both[i]
      OBVIOUS
    <2>1. CASE i = 1
      BY <1>2, <1>6, <1>8, <2>1
    <2>2. CASE i # 1
      <3>1. PICK j \in 1 .. n : i = 1 + j
        BY <1>3, <2>2
      <3>2. every[i] = Apply(f, all[i]) /\ all[i] = units[j]
        BY <1>2, <1>6, <3>1
      <3>3. both[i] = each[j] /\ each[j] = Apply(f, units[j])
        BY <1>5, <1>8, <3>1
      <3>4. QED
        BY <3>2, <3>3
    <2>3. QED
      BY <2>1, <2>2
  <1>10. every = both
    BY <1>6, <1>8, <1>9, SeqEqual
  <1>11. QED
    BY <1>4, <1>10 DEF all, n, each, one, both, every

\* A text is cut at the same places after a replacement.
LEMMA ReplacedUnits ==
  ASSUME NEW f, IsReplacement(f), NEW text \in Texts
  PROVE  /\ AreUnits(Units(text, {}))
         /\ Units(Apply(f, text), {}) = Each(f, Units(text, {}))
  <1> DEFINE N == Len(text) + 2
             changed == Apply(f, text)
             from == UnitsFrom(text, {})
             after == UnitsFrom(changed, {})
             Same(i) == AreUnits(from[i]) /\ after[i] = Each(f, from[i])
             G == {m \in Nat : \A i \in 1 .. N : N - m <= i => Same(i)}
  <1>1. Len(text) \in Nat /\ N \in Nat /\ \A i \in 1 .. Len(text) : text[i] \in Characters
    BY DEF Texts
  <1>2. /\ changed \in Texts /\ Len(changed) = Len(text)
        /\ \A i \in 1 .. Len(text) : changed[i] = Becomes(f, text[i])
    BY Applied
  <1> HIDE DEF changed
  <1>3. \A i \in 1 .. N : from[i] = Cut(text, {}, i, from) /\ after[i] = Cut(changed, {}, i, after)
    BY <1>1, <1>2, UnitsFromDef
  <1>4. \A i \in 1 .. Len(text) : IsPair(changed, {}, i) <=> IsPair(text, {}, i)
    BY <1>1, <1>2 DEF IsPair, IsReplacement
  <1> HIDE DEF from, after, N
  <1>5. ASSUME NEW i \in 1 .. N, Len(text) < i PROVE Same(i)
    <2>1. from[i] = <<>> /\ after[i] = <<>>
      BY <1>1, <1>2, <1>3, <1>5 DEF Cut, N
    <2>2. AreUnits(<<>>)
      BY DEF AreUnits
    <2>3. Each(f, <<>>) = <<>>
      BY DEF Each
    <2>4. QED
      BY <2>1, <2>2, <2>3
  <1>6. ASSUME NEW i \in 1 .. N, i <= Len(text), Same(i + 1), Same(i + 2) PROVE Same(i)
    <2>0. i \in 1 .. Len(text)
      BY <1>1, <1>6 DEF N
    <2>1. CASE IsPair(text, {}, i)
      <3> DEFINE u == <<text[i], text[i + 1]>>
      <3>1. text[i] = "backslash" /\ i + 1 \in 1 .. Len(text)
        BY <1>1, <2>0, <2>1 DEF IsPair
      <3>2. text[i] \in Characters /\ text[i + 1] \in Characters
        BY <1>1, <2>0, <3>1
      <3>3. u \in Texts /\ IsUnit(u)
        BY <3>1, <3>2 DEF Texts, IsUnit
      <3>4. from[i] = <<u>> \o from[i + 2]
        <4>1. ~(i > Len(text)) /\ from[i] = Cut(text, {}, i, from)
          BY <1>1, <1>3, <2>0
        <4>2. QED
          BY <2>1, <4>1 DEF Cut
      <3>5. Apply(f, u) = <<changed[i], changed[i + 1]>>
        BY <1>2, <2>0, <3>1, <3>2, AppliedUnits
      <3>6. after[i] = <<Apply(f, u)>> \o after[i + 2]
        <4>1. IsPair(changed, {}, i) /\ ~(i > Len(changed))
          BY <1>1, <1>2, <1>4, <2>0, <2>1
        <4>2. after[i] = <<<<changed[i], changed[i + 1]>>>> \o after[i + 2]
          BY <1>3, <4>1 DEF Cut
        <4>3. QED
          BY <3>5, <4>2
      <3> HIDE DEF u
      <3>7. /\ AreUnits(<<u>> \o from[i + 2])
            /\ Each(f, <<u>> \o from[i + 2]) = <<Apply(f, u)>> \o Each(f, from[i + 2])
        <4>1. AreUnits(from[i + 2])
          BY <1>6
        <4>2. QED
          BY <3>3, <4>1, EachOfOneMore
      <3>8. after[i + 2] = Each(f, from[i + 2])
        BY <1>6
      <3>9. QED
        BY <3>4, <3>6, <3>7, <3>8
    <2>2. CASE ~IsPair(text, {}, i)
      <3> DEFINE u == <<text[i]>>
      <3>1. text[i] \in Characters
        BY <1>1, <2>0
      <3>2. u \in Texts /\ IsUnit(u)
        BY <3>1 DEF Texts, IsUnit
      <3>3. from[i] = <<u>> \o from[i + 1]
        <4>1. ~(i > Len(text)) /\ from[i] = Cut(text, {}, i, from)
          BY <1>1, <1>3, <2>0
        <4>2. QED
          BY <2>2, <4>1 DEF Cut
      <3>4. Apply(f, u) = <<changed[i]>>
        BY <1>2, <2>0, <3>1, AppliedUnits
      <3>5. after[i] = <<Apply(f, u)>> \o after[i + 1]
        <4>1. ~IsPair(changed, {}, i) /\ ~(i > Len(changed))
          BY <1>1, <1>2, <1>4, <2>0, <2>2
        <4>2. after[i] = <<<<changed[i]>>>> \o after[i + 1]
          BY <1>3, <4>1 DEF Cut
        <4>3. QED
          BY <3>4, <4>2
      <3> HIDE DEF u
      <3>6. /\ AreUnits(<<u>> \o from[i + 1])
            /\ Each(f, <<u>> \o from[i + 1]) = <<Apply(f, u)>> \o Each(f, from[i + 1])
        <4>1. AreUnits(from[i + 1])
          BY <1>6
        <4>2. QED
          BY <3>2, <4>1, EachOfOneMore
      <3>7. after[i + 1] = Each(f, from[i + 1])
        BY <1>6
      <3>8. QED
        BY <3>3, <3>5, <3>6, <3>7
    <2>3. QED
      BY <2>1, <2>2
  <1> HIDE DEF Same
  <1>7. 0 \in G
    BY <1>1, <1>5 DEF N
  <1>8. \A m \in Nat : m \in G => m + 1 \in G
    <2> SUFFICES ASSUME NEW m \in Nat, m \in G, NEW i \in 1 .. N, N - (m + 1) <= i
                 PROVE  Same(i)
      OBVIOUS
    <2>1. CASE Len(text) < i
      BY <1>5, <2>1
    <2>2. CASE i <= Len(text)
      <3>1. /\ i + 1 \in 1 .. N /\ i + 2 \in 1 .. N
            /\ N - m <= i + 1 /\ N - m <= i + 2
        BY <1>1, <2>2 DEF N
      <3>2. QED
        BY <1>6, <2>2, <3>1
    <2>3. QED
      BY <1>1, <2>1, <2>2
  <1>9. N - 1 \in G
    <2> HIDE DEF G
    <2>1. Nat \subseteq G
      BY <1>7, <1>8, Induction
    <2>2. QED
      BY <1>1, <2>1 DEF N
  <1>10. Same(1)
    BY <1>1, <1>9 DEF N
  <1>11. QED
    BY <1>10 DEF Same, Units, from, after, changed

\* What can be read of the units of a text is a text.
LEMMA ReadsTexts ==
  ASSUME NEW text \in Texts
  PROVE  /\ JsonRead(text) = Rejected \/ JsonRead(text) \in Texts
         /\ JsonRead(text) = Rejected <=>
              \E i \in DOMAIN Units(text, {}) : Units(text, {})[i] \in JsonUnreadable
  <1> DEFINE units == Units(text, {})
             read == [i \in DOMAIN units |-> JsonMeaning(units[i])]
  <1>1. AreUnits(units)
    BY ReplacedUnits, Replacements
  <1> HIDE DEF units
  <1>2. \A i \in DOMAIN units : JsonMeaning(units[i]) \in Characters
    <2> SUFFICES ASSUME NEW u, IsUnit(u) PROVE JsonMeaning(u) \in Characters
      BY <1>1 DEF AreUnits
    <2>1. {"newline", "quote", "dquote", "special"} \subseteq Characters
      BY DEF Characters
    <2> HIDE DEF Characters
    <2>2. QED
      BY <2>1, Singles, Pairs DEF IsUnit
  <1>3. read \in Texts
    <2>1. Len(units) \in Nat /\ DOMAIN units = 1 .. Len(units)
      BY <1>1 DEF AreUnits
    <2>2. QED
      BY <1>2, <2>1 DEF Texts
  <1>4. JsonRead(text) = IF \E i \in DOMAIN units : units[i] \in JsonUnreadable THEN Rejected ELSE read
    BY DEF JsonRead, Reads, units
  <1>5. QED
    BY <1>3, <1>4, TextsAreKept DEF units

\* An apostrophe for a u0027 in a unit is one in what is read of it.
LEMMA UnitUnquoted ==
  ASSUME NEW u, IsUnit(u)
  PROVE  /\ Unquote(u) \in JsonUnreadable <=> u \in JsonUnreadable
         /\ JsonMeaning(Unquote(u)) = IF JsonMeaning(u) = "u0027" THEN "quote" ELSE JsonMeaning(u)
  <1> DEFINE f == [c \in {"u0027"} |-> "quote"]
  <1>1. IsReplacement(f) /\ \A c \in Characters : Becomes(f, c) = IF c = "u0027" THEN "quote" ELSE c
    BY Replacements DEF Becomes
  <1>2. Unquote(u) = Apply(f, u)
    BY DEF Unquote
  <1>3. {"quote", "u0027", "backslash"} \subseteq Characters
    BY DEF Characters
  <1> HIDE DEF f
  <1>4. ASSUME NEW c \in Characters, u = <<c>>
        PROVE  /\ Unquote(u) \in JsonUnreadable <=> u \in JsonUnreadable
               /\ JsonMeaning(Unquote(u)) = IF JsonMeaning(u) = "u0027" THEN "quote" ELSE JsonMeaning(u)
    <2>1. Unquote(u) = <<IF c = "u0027" THEN "quote" ELSE c>>
      BY <1>1, <1>2, <1>4, AppliedUnits
    <2>2. CASE c = "u0027"
      <3>1. Unquote(u) = <<"quote">>
        BY <2>1, <2>2
      <3>2. JsonMeaning(Unquote(u)) = "quote" /\ Unquote(u) \notin JsonUnreadable
        BY <1>3, <3>1, Singles
      <3>3. JsonMeaning(u) = "u0027" /\ u \notin JsonUnreadable
        BY <1>4, <2>2, Singles
      <3>4. QED
        BY <3>2, <3>3
    <2>3. CASE c # "u0027"
      BY <1>4, <2>1, <2>3, Singles
    <2>4. QED
      BY <2>2, <2>3
  <1>5. ASSUME NEW c \in Characters, u = <<"backslash", c>>
        PROVE  /\ Unquote(u) \in JsonUnreadable <=> u \in JsonUnreadable
               /\ JsonMeaning(Unquote(u)) = IF JsonMeaning(u) = "u0027" THEN "quote" ELSE JsonMeaning(u)
    <2>1. Unquote(u) = <<"backslash", IF c = "u0027" THEN "quote" ELSE c>>
      <3>1. Apply(f, <<"backslash", c>>) = <<Becomes(f, "backslash"), Becomes(f, c)>>
        BY <1>1, <1>3, AppliedUnits
      <3>2. Becomes(f, "backslash") = "backslash"
        BY <1>1, <1>3
      <3>3. QED
        BY <1>1, <1>2, <1>5, <3>1, <3>2
    <2>2. CASE c = "u0027"
      <3>1. Unquote(u) = <<"backslash", "quote">>
        BY <2>1, <2>2
      <3>2. JsonMeaning(Unquote(u)) = "quote" /\ Unquote(u) \notin JsonUnreadable
        BY <1>3, <3>1, Pairs
      <3>3. JsonMeaning(u) = "quote" /\ u \notin JsonUnreadable
        BY <1>5, <2>2, Pairs
      <3>4. QED
        BY <3>2, <3>3
    <2>3. CASE c # "u0027"
      <3>1. Unquote(u) = u
        BY <1>5, <2>1, <2>3
      <3>2. JsonMeaning(u) # "u0027"
        BY <1>5, <2>3, Pairs
      <3>3. QED
        BY <3>1, <3>2
    <2>4. QED
      BY <2>2, <2>3
  <1>6. QED
    BY <1>4, <1>5 DEF IsUnit

\* Every text survives the way through JSON: what the encoder writes is read
\* as the text it was given.
THEOREM SerializedReadsBack ==
  ASSUME NEW text \in Texts
  PROVE  JsonRead(Serialize(text)) = text
  <1>1. DOMAIN text = 1 .. Len(text) /\ \A i \in DOMAIN text : text[i] \in Characters
    BY DEF Texts
  <1>2. Units(Serialize(text), {}) = [i \in DOMAIN text |-> Escape(text[i])]
    BY SerializedUnits
  <1>3. JsonRead(Serialize(text)) = [i \in DOMAIN text |-> JsonMeaning(Escape(text[i]))]
    BY <1>1, <1>2, Meanings DEF JsonRead, Reads
  <1>4. [i \in DOMAIN text |-> JsonMeaning(Escape(text[i]))] = [i \in DOMAIN text |-> text[i]]
    BY <1>1, Meanings
  <1>5. text = [i \in DOMAIN text |-> text[i]]
    BY DEF Texts
  <1>6. QED
    BY <1>3, <1>4, <1>5

\* What is no text stays what it is.
LEMMA RejectedUnquoted == Unquote(Rejected) = Rejected
  <1>1. Rejected = [i \in 1 .. 1 |-> "rejected"] /\ DOMAIN Rejected = 1 .. 1
    BY DEF Rejected
  <1>2. Unquote(Rejected) = [i \in 1 .. 1 |-> "rejected"]
    BY <1>1 DEF Unquote, Apply
  <1>3. QED
    BY <1>1, <1>2

\* An apostrophe for every u0027 of a text.
LEMMA Unquoted ==
  ASSUME NEW text \in Texts
  PROVE  /\ Unquote(text) \in Texts /\ Len(Unquote(text)) = Len(text)
         /\ \A i \in 1 .. Len(text) :
              Unquote(text)[i] = IF text[i] = "u0027" THEN "quote" ELSE text[i]
  BY Applied, Replacements DEF Unquote, Becomes

\* A JSON body in which u0027 is replaced before it is parsed has the texts it would
\* have with u0027 replaced in them: the Replace over the whole body breaks no
\* escape and makes none, in whatever way a client has written it.
THEOREM BodiesRead ==
  ASSUME NEW text \in Texts
  PROVE  JsonRead(Unquote(text)) = Unquote(JsonRead(text))
  <1> DEFINE f == [c \in {"u0027"} |-> "quote"]
             units == Units(text, {})
             after == Units(Unquote(text), {})
             read == [i \in DOMAIN units |-> JsonMeaning(units[i])]
             Bad == \E i \in DOMAIN units : units[i] \in JsonUnreadable
  <1>1. AreUnits(units) /\ after = [i \in DOMAIN units |-> Unquote(units[i])]
    <2>1. IsReplacement(f) /\ \A u : Unquote(u) = Apply(f, u)
      BY Replacements DEF Unquote
    <2> HIDE DEF f
    <2>2. QED
      BY <2>1, ReplacedUnits DEF Each
  <1>2. JsonRead(text) = IF Bad THEN Rejected ELSE read
    BY DEF JsonRead, Reads
  <1>3. JsonRead(Unquote(text)) =
          IF \E i \in DOMAIN after : after[i] \in JsonUnreadable THEN Rejected
          ELSE [i \in DOMAIN after |-> JsonMeaning(after[i])]
    BY DEF JsonRead, Reads
  <1> HIDE DEF units, after
  <1>4. /\ DOMAIN after = DOMAIN units
        /\ \A i \in DOMAIN units :
             /\ after[i] \in JsonUnreadable <=> units[i] \in JsonUnreadable
             /\ JsonMeaning(after[i]) = IF read[i] = "u0027" THEN "quote" ELSE read[i]
    BY <1>1, UnitUnquoted DEF AreUnits
  <1>5. CASE Bad
    BY <1>2, <1>3, <1>4, <1>5, RejectedUnquoted
  <1>6. CASE ~Bad
    <2>1. Unquote(read) = [i \in DOMAIN units |-> IF read[i] = "u0027" THEN "quote" ELSE read[i]]
      BY DEF Unquote, Apply
    <2>2. JsonRead(Unquote(text)) = [i \in DOMAIN units |-> JsonMeaning(after[i])]
      BY <1>3, <1>4, <1>6
    <2> HIDE DEF read
    <2>3. QED
      BY <1>2, <1>4, <1>6, <2>1, <2>2
  <1>7. QED
    BY <1>5, <1>6

\* A client gets every text of a response as it is in the database, with an
\* apostrophe for every u0027: Replace over the whole body breaks no escape.
THEOREM ResponseReads ==
  ASSUME NEW text \in Texts
  PROVE  Response(text) = Unquote(text)
  <1>1. Serialize(text) \in Texts
    BY SerializedPieces
  <1>2. QED
    BY <1>1, BodiesRead, SerializedReadsBack DEF Response

\* A text with u0027, u0022 and uXXXX for the characters the encoder escapes so.
Kept(text) ==
  [i \in DOMAIN text |->
      CASE text[i] = "quote" -> "u0027"
        [] text[i] = "dquote" -> "u0022"
        [] text[i] = "special" -> "uXXXX"
        [] OTHER -> text[i]]

\* A text that the encoder has written never leaves its literal, but MySQL drops the
\* backslash of every \uXXXX of the encoder: an apostrophe, a quotation mark, one
\* of < > & + ` or an emoji is five characters in the column.
THEOREM JsonStored ==
  ASSUME NEW text \in Texts
  PROVE  SqlLiteral(Serialize(text)) = Kept(text)
  <1>1. DOMAIN text = 1 .. Len(text) /\ \A i \in DOMAIN text : text[i] \in Characters
    BY DEF Texts
  <1>2. Units(Serialize(text), {"quote"}) = [i \in DOMAIN text |-> Escape(text[i])]
    BY SerializedUnits
  <1>3. SqlLiteral(Serialize(text)) = [i \in DOMAIN text |-> SqlMeaning(Escape(text[i]))]
    BY <1>1, <1>2, Meanings DEF SqlLiteral, Reads
  <1>4. QED
    BY <1>1, <1>3, Meanings DEF Kept

\* u0027 for an apostrophe in a unit leaves what is read of it, up to apostrophes.
LEMMA UnitQuoted ==
  ASSUME NEW u, IsUnit(u)
  PROVE  /\ Quote(u) \in JsonUnreadable <=> u \in JsonUnreadable
         /\ \/ JsonMeaning(Quote(u)) = JsonMeaning(u)
            \/ {JsonMeaning(Quote(u)), JsonMeaning(u)} \subseteq {"quote", "u0027"}
  <1> DEFINE f == [c \in {"quote"} |-> "u0027"]
             Same == /\ Quote(u) \in JsonUnreadable <=> u \in JsonUnreadable
                     /\ \/ JsonMeaning(Quote(u)) = JsonMeaning(u)
                        \/ {JsonMeaning(Quote(u)), JsonMeaning(u)} \subseteq {"quote", "u0027"}
  <1>1. IsReplacement(f) /\ \A c \in Characters : Becomes(f, c) = IF c = "quote" THEN "u0027" ELSE c
    BY Replacements DEF Becomes
  <1>2. Quote(u) = Apply(f, u)
    BY DEF Quote
  <1>3. {"quote", "u0027", "backslash"} \subseteq Characters
    BY DEF Characters
  <1> HIDE DEF f
  <1>4. ASSUME NEW c \in Characters, u = <<c>> PROVE Same
    <2>1. Quote(u) = <<IF c = "quote" THEN "u0027" ELSE c>>
      BY <1>1, <1>2, <1>4, AppliedUnits
    <2>2. CASE c = "quote"
      <3>1. JsonMeaning(Quote(u)) = "u0027" /\ Quote(u) \notin JsonUnreadable
        BY <1>3, <2>1, <2>2, Singles
      <3>2. JsonMeaning(u) = "quote" /\ u \notin JsonUnreadable
        BY <1>4, <2>2, Singles
      <3>3. QED
        BY <3>1, <3>2
    <2>3. CASE c # "quote"
      BY <1>4, <2>1, <2>3
    <2>4. QED
      BY <2>2, <2>3
  <1>5. ASSUME NEW c \in Characters, u = <<"backslash", c>> PROVE Same
    <2>1. Quote(u) = <<"backslash", IF c = "quote" THEN "u0027" ELSE c>>
      <3>1. Apply(f, <<"backslash", c>>) = <<Becomes(f, "backslash"), Becomes(f, c)>>
        BY <1>1, <1>3, AppliedUnits
      <3>2. Becomes(f, "backslash") = "backslash"
        BY <1>1, <1>3
      <3>3. QED
        BY <1>1, <1>2, <1>5, <3>1, <3>2
    <2>2. CASE c = "quote"
      <3>1. Quote(u) = <<"backslash", "u0027">>
        BY <2>1, <2>2
      <3>2. JsonMeaning(Quote(u)) = "quote" /\ Quote(u) \notin JsonUnreadable
        BY <1>3, <3>1, Pairs
      <3>3. JsonMeaning(u) = "quote" /\ u \notin JsonUnreadable
        BY <1>5, <2>2, Pairs
      <3>4. QED
        BY <3>2, <3>3
    <2>3. CASE c # "quote"
      BY <1>5, <2>1, <2>3
    <2>4. QED
      BY <2>2, <2>3
  <1>6. QED
    BY <1>4, <1>5 DEF IsUnit

\* The file of waypoints parses or not whether its apostrophes are replaced or not,
\* and has the same names, if an apostrophe and u0027 are the same: those that were
\* written as \u0027, or as \', are apostrophes still.
THEOREM NamesParsed ==
  ASSUME NEW text \in Texts
  PROVE  /\ ParsedName(text) = Rejected <=> JsonRead(text) = Rejected
         /\ Unquote(ParsedName(text)) = Unquote(JsonRead(text))
  <1> DEFINE f == [c \in {"quote"} |-> "u0027"]
             units == Units(text, {})
             after == Units(Quote(text), {})
             read == [i \in DOMAIN units |-> JsonMeaning(units[i])]
             reread == [i \in DOMAIN units |-> JsonMeaning(after[i])]
             Bad == \E i \in DOMAIN units : units[i] \in JsonUnreadable
  <1>1. AreUnits(units) /\ after = [i \in DOMAIN units |-> Quote(units[i])] /\ Quote(text) \in Texts
    <2>1. IsReplacement(f) /\ \A u : Quote(u) = Apply(f, u)
      BY Replacements DEF Quote
    <2> HIDE DEF f
    <2>2. QED
      BY <2>1, ReplacedUnits, Applied DEF Each
  <1>2. JsonRead(text) = IF Bad THEN Rejected ELSE read
    BY DEF JsonRead, Reads
  <1>3. JsonRead(Quote(text)) =
          IF \E i \in DOMAIN after : after[i] \in JsonUnreadable THEN Rejected
          ELSE [i \in DOMAIN after |-> JsonMeaning(after[i])]
    BY DEF JsonRead, Reads
  <1>4. /\ JsonRead(text) = Rejected <=> Bad
        /\ JsonRead(Quote(text)) = Rejected <=> \E i \in DOMAIN after : after[i] \in JsonUnreadable
    BY <1>1, ReadsTexts
  <1> HIDE DEF units, after
  <1>5. /\ DOMAIN after = DOMAIN units
        /\ \A i \in DOMAIN units :
             /\ after[i] \in JsonUnreadable <=> units[i] \in JsonUnreadable
             /\ reread[i] = read[i] \/ {reread[i], read[i]} \subseteq {"quote", "u0027"}
    BY <1>1, UnitQuoted DEF AreUnits
  <1>6. CASE Bad
    BY <1>2, <1>3, <1>4, <1>5, <1>6 DEF ParsedName
  <1>7. CASE ~Bad
    <2>1. JsonRead(Quote(text)) = reread /\ JsonRead(Quote(text)) # Rejected
      BY <1>3, <1>4, <1>5, <1>7
    <2>2. /\ Unquote(read) = [i \in DOMAIN units |-> IF read[i] = "u0027" THEN "quote" ELSE read[i]]
          /\ Unquote(reread) = [i \in DOMAIN units |-> IF reread[i] = "u0027" THEN "quote" ELSE reread[i]]
      BY DEF Unquote, Apply
    <2> HIDE DEF read, reread
    <2>3. \A i \in DOMAIN units : (IF read[i] = "u0027" THEN "quote" ELSE read[i]) =
                                  (IF reread[i] = "u0027" THEN "quote" ELSE reread[i])
      BY <1>5
    <2>4. Unquote(read) = Unquote(reread)
      BY <2>2, <2>3
    <2>5. QED
      BY <1>2, <1>4, <1>7, <2>1, <2>4 DEF ParsedName
  <1>8. QED
    BY <1>6, <1>7

\* A text without backslashes and quotation marks is read as it is.
LEMMA PlainJson ==
  ASSUME NEW text \in Texts, \A i \in DOMAIN text : text[i] \notin {"backslash", "dquote"}
  PROVE  JsonRead(text) = text
  <1>1. DOMAIN text = 1 .. Len(text) /\ \A i \in DOMAIN text : text[i] \in Characters
    BY DEF Texts
  <1>2. Units(text, {}) = [i \in DOMAIN text |-> <<text[i]>>]
    BY PlainUnits DEF IsPair
  <1>3. \A i \in DOMAIN text : JsonMeaning(<<text[i]>>) = text[i]
    BY <1>1 DEF JsonMeaning, Last
  <1>4. JsonRead(text) = [i \in DOMAIN text |-> JsonMeaning(<<text[i]>>)]
    BY <1>1, <1>2 DEF JsonRead, Reads, JsonUnreadable
  <1>5. text = [i \in DOMAIN text |-> text[i]]
    BY DEF Texts
  <1>6. QED
    BY <1>3, <1>4, <1>5

\* A text without backslashes and apostrophes is stored as it is.
LEMMA PlainSql ==
  ASSUME NEW text \in Texts, \A i \in DOMAIN text : text[i] \notin {"backslash", "quote"}
  PROVE  SqlLiteral(text) = text
  <1>1. DOMAIN text = 1 .. Len(text) /\ \A i \in DOMAIN text : text[i] \in Characters
    BY DEF Texts
  <1>2. Units(text, {"quote"}) = [i \in DOMAIN text |-> <<text[i]>>]
    <2>1. \A i \in DOMAIN text : ~IsPair(text, {"quote"}, i)
      BY DEF IsPair
    <2>2. QED
      BY <2>1, PlainUnits
  <1>3. \A i \in DOMAIN text : SqlMeaning(<<text[i]>>) = text[i]
    BY <1>1 DEF SqlMeaning, Last
  <1>4. SqlLiteral(text) = [i \in DOMAIN text |-> SqlMeaning(<<text[i]>>)]
    BY <1>1, <1>2 DEF SqlLiteral, Reads, SqlUnreadable
  <1>5. text = [i \in DOMAIN text |-> text[i]]
    BY DEF Texts
  <1>6. QED
    BY <1>3, <1>4, <1>5
=============================================================================
