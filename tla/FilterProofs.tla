------------------------------ MODULE FilterProofs ------------------------------
(***************************************************************************)
(* What Among computes, for every sequence and every set.                  *)
(*                                                                         *)
(* Among is a recursive function on the length of what it has looked at.   *)
(* Its lemmas are proved by induction on that length, as the absence of a  *)
(* least exception: the numbers a statement fails for would have a least   *)
(* element (Least), and the step leads from the number before it.          *)
(***************************************************************************)
EXTENDS Filter, SequenceTheorems, WellFoundedInduction, TLAPS

\* A set of naturals has a least element: what is proved by induction below is
\* proved of the least number it could fail for.
LEMMA Least ==
  ASSUME NEW T, T \subseteq Nat, T # {}
  PROVE  \E m \in T : \A k \in T : m <= k
<1>1. PICK m \in T : \A k \in T : ~(<<k, m>> \in OpToRel(<, Nat))
  BY NatLessThanWellFounded, WFMin
<1>2. \A k \in T : ~(k < m)
  BY <1>1 DEF OpToRel
<1> QED
  BY <1>2

\* f takes from the first n entries of s, for every n up to m, those in S
Takes(f, m, s, S) ==
  f = [i \in 0 .. m |->
         IF i = 0 THEN <<>>
         ELSE IF s[i] \in S THEN Append(f[i - 1], s[i]) ELSE f[i - 1]]

\* Its first value and the others, each from the one before.
LEMMA TakesEach ==
  ASSUME NEW f, NEW m \in Nat, NEW s, NEW S, Takes(f, m, s, S)
  PROVE  /\ f[0] = <<>>
         /\ \A i \in 1 .. m :
              f[i] = IF s[i] \in S THEN Append(f[i - 1], s[i]) ELSE f[i - 1]
<1> DEFINE F(i) == IF i = 0 THEN <<>>
                   ELSE IF s[i] \in S THEN Append(f[i - 1], s[i]) ELSE f[i - 1]
<1>1. f = [i \in 0 .. m |-> F(i)]
  BY DEF Takes
<1>2. F(0) = <<>>
  OBVIOUS
<1>3. \A i \in 1 .. m : F(i) = IF s[i] \in S THEN Append(f[i - 1], s[i]) ELSE f[i - 1]
  OBVIOUS
<1> HIDE DEF F
<1>4. \A i \in 0 .. m : f[i] = F(i)
  BY <1>1
<1>5. 0 \in 0 .. m /\ 1 .. m \subseteq 0 .. m
  OBVIOUS
<1>6. \A i \in 1 .. m : f[i] = F(i)
  BY <1>4, <1>5
<1>7. ASSUME NEW i \in 1 .. m
      PROVE  f[i] = IF s[i] \in S THEN Append(f[i - 1], s[i]) ELSE f[i - 1]
  BY <1>3, <1>6, Zenon
<1> QED
  BY <1>2, <1>4, <1>5, <1>7, Zenon

\* Such a function exists, and Among is its value for the whole sequence.
LEMMA AmongRecursion ==
  ASSUME NEW s, NEW S, Len(s) \in Nat
  PROVE  \E f : Takes(f, Len(s), s, S) /\ Among(s, S) = f[Len(s)]
<1> DEFINE Bad == {m \in Nat : ~ \E f : Takes(f, m, s, S)}
<1>1. Bad = {}
  <2> SUFFICES ASSUME Bad # {} PROVE FALSE
    OBVIOUS
  <2>1. PICK m \in Bad : \A k \in Bad : m <= k
    BY Least
  <2>2. m # 0
    <3>1. Takes([i \in 0 .. 0 |-> <<>>], 0, s, S)
      BY DEF Takes
    <3> QED
      BY <3>1
  <2>3. m - 1 \in Nat /\ m - 1 \notin Bad
    BY <2>1, <2>2
  <2>4. PICK g : Takes(g, m - 1, s, S)
    BY <2>3
  <2> DEFINE h == [i \in 0 .. m |->
                     IF i = 0 THEN <<>>
                     ELSE IF s[i] \in S THEN Append(g[i - 1], s[i]) ELSE g[i - 1]]
  <2>5. ASSUME NEW i \in 0 .. m - 1 PROVE h[i] = g[i]
    <3>1. i \in 0 .. m /\ (i # 0 => i \in 1 .. m - 1)
      BY <2>1, <2>3
    <3>2. /\ g[0] = <<>>
          /\ i # 0 => g[i] = IF s[i] \in S THEN Append(g[i - 1], s[i]) ELSE g[i - 1]
      BY <2>3, <2>4, <3>1, TakesEach
    <3> QED
      BY <3>1, <3>2
  <2>6. \A i \in 0 .. m : i # 0 => h[i - 1] = g[i - 1]
    <3> HIDE DEF h
    <3> QED
      BY <2>1, <2>3, <2>5
  <2>7. Takes(h, m, s, S)
    BY <2>6 DEF Takes
  <2> QED
    BY <2>7, <2>1
<1>2. \E f : Takes(f, Len(s), s, S)
  BY <1>1
<1>3. Takes(CHOOSE f : Takes(f, Len(s), s, S), Len(s), s, S)
  BY <1>2
<1>4. Among(s, S) = (CHOOSE f : Takes(f, Len(s), s, S))[Len(s)]
  BY DEF Among, Takes
<1> QED
  BY <1>3, <1>4

\* Nothing is taken from an empty sequence.
LEMMA AmongEmpty ==
  ASSUME NEW S PROVE Among(<<>>, S) = <<>>
<1>1. Len(<<>>) = 0
  OBVIOUS
<1>2. PICK f : Takes(f, 0, <<>>, S) /\ Among(<<>>, S) = f[0]
  BY <1>1, AmongRecursion
<1> QED
  BY <1>2 DEF Takes

\* What is taken is a sequence of those of the entries that are in the set.
LEMMA AmongEntries ==
  ASSUME NEW A, NEW s \in Seq(A), NEW S
  PROVE  /\ Among(s, S) \in Seq(A)
         /\ \A k \in 1 .. Len(Among(s, S)) : Among(s, S)[k] \in S
         /\ \A j \in 1 .. Len(s) :
              s[j] \in S => \E k \in 1 .. Len(Among(s, S)) : Among(s, S)[k] = s[j]
<1>0. Len(s) \in Nat
  OBVIOUS
<1>1. PICK f : Takes(f, Len(s), s, S) /\ Among(s, S) = f[Len(s)]
  BY <1>0, AmongRecursion
<1> DEFINE Good(i) ==
      /\ f[i] \in Seq(A)
      /\ \A k \in 1 .. Len(f[i]) : f[i][k] \in S
      /\ \A j \in 1 .. i : s[j] \in S => \E k \in 1 .. Len(f[i]) : f[i][k] = s[j]
<1> DEFINE Bad == {i \in 0 .. Len(s) : ~Good(i)}
<1>2. Bad = {}
  <2> SUFFICES ASSUME Bad # {} PROVE FALSE
    OBVIOUS
  <2>0. Bad \subseteq Nat
    OBVIOUS
  <2>1. PICK i \in Bad : \A k \in Bad : i <= k
    <3> HIDE DEF Bad
    <3> QED
      BY <2>0, Least
  <2>2. i # 0
    <3>1. f[0] = <<>>
      BY <1>0, <1>1, TakesEach
    <3>2. Len(f[0]) = 0 /\ f[0] \in Seq(A)
      BY <3>1
    <3>3. Good(0)
      BY <3>1, <3>2
    <3> QED
      BY <3>3, <2>1
  <2>3. i - 1 \in 0 .. Len(s) /\ i - 1 \notin Bad /\ i \in 1 .. Len(s)
    BY <2>1, <2>2, <1>0
  <2>4. Good(i - 1)
    BY <2>3
  <2>5. f[i] = IF s[i] \in S THEN Append(f[i - 1], s[i]) ELSE f[i - 1]
    BY <2>3, <1>0, <1>1, TakesEach
  <2>6. s[i] \in A
    BY <2>3
  <2>7. \A j \in 1 .. i : j \in 1 .. i - 1 \/ j = i
    BY <2>3
  <2> DEFINE g == f[i - 1]
  <2> HIDE DEF g
  <2>8. CASE s[i] \in S
    <3>1. /\ f[i] = Append(g, s[i]) /\ g \in Seq(A) /\ Len(g) \in Nat
          /\ Len(f[i]) = Len(g) + 1 /\ f[i][Len(g) + 1] = s[i]
          /\ \A k \in 1 .. Len(g) : f[i][k] = g[k]
      BY <2>4, <2>5, <2>6, <2>8 DEF g
    <3>2. ASSUME NEW k \in 1 .. Len(f[i]) PROVE f[i][k] \in S
      <4>1. k = Len(g) + 1 \/ k \in 1 .. Len(g)
        BY <3>1
      <4> QED
        BY <4>1, <3>1, <2>4, <2>8 DEF g
    <3>3. ASSUME NEW j \in 1 .. i, s[j] \in S
          PROVE  \E k \in 1 .. Len(f[i]) : f[i][k] = s[j]
      <4>1. CASE j = i
        BY <4>1, <3>1
      <4>2. CASE j \in 1 .. i - 1
        <5>1. PICK k \in 1 .. Len(g) : g[k] = s[j]
          BY <4>2, <3>3, <2>4 DEF g
        <5> QED
          BY <5>1, <3>1
      <4> QED
        BY <4>1, <4>2, <2>7
    <3>4. Good(i)
      <4>1. f[i] \in Seq(A) /\ \A k \in 1 .. Len(f[i]) : f[i][k] \in S
        BY <3>1, <3>2, <2>6
      <4>2. \A j \in 1 .. i : s[j] \in S => \E k \in 1 .. Len(f[i]) : f[i][k] = s[j]
        BY <3>3
      <4> QED
        BY <4>1, <4>2, Zenon
    <3> QED
      BY <3>4, <2>1
  <2>9. CASE s[i] \notin S
    <3>1. Good(i)
      BY <2>4, <2>5, <2>7, <2>9
    <3> QED
      BY <3>1, <2>1
  <2> QED
    BY <2>8, <2>9
<1>3. Good(Len(s))
  BY <1>2, <1>0
<1> QED
  BY <1>1, <1>3

\* A part of a sequence is a sequence.
LEMMA Slice ==
  ASSUME NEW A, NEW s \in Seq(A), NEW d \in Nat, NEW n \in Nat, d + n <= Len(s)
  PROVE  [k \in 1 .. n |-> s[d + k]] \in Seq(A)
<1>1. ASSUME NEW k \in 1 .. n PROVE s[d + k] \in A
  <2>1. d + k \in 1 .. Len(s) /\ Len(s) \in Nat
    BY LenProperties
  <2> QED
    BY <2>1, ElementOfSeq
<1>2. [k \in 1 .. n |-> s[d + k]] \in [1 .. n -> A]
  BY <1>1
<1> QED
  BY <1>2, SeqDef

\* When exactly what is past a place is in the set, all of that is taken.
LEMMA AmongSuffix ==
  ASSUME NEW A, NEW s \in Seq(A), NEW S, NEW d \in 0 .. Len(s),
         \A j \in 1 .. Len(s) : s[j] \in S <=> j > d
  PROVE  Among(s, S) = [k \in 1 .. Len(s) - d |-> s[d + k]]
<1>0. Len(s) \in Nat /\ d \in Nat /\ d <= Len(s)
  OBVIOUS
<1>1. PICK f : Takes(f, Len(s), s, S) /\ Among(s, S) = f[Len(s)]
  BY <1>0, AmongRecursion
<1> DEFINE Good(i) == f[i] = IF i <= d THEN <<>> ELSE [k \in 1 .. i - d |-> s[d + k]]
<1> DEFINE Bad == {i \in 0 .. Len(s) : ~Good(i)}
<1>2. Bad = {}
  <2> SUFFICES ASSUME Bad # {} PROVE FALSE
    OBVIOUS
  <2>0. Bad \subseteq Nat
    OBVIOUS
  <2>1. PICK i \in Bad : \A k \in Bad : i <= k
    <3> HIDE DEF Bad
    <3> QED
      BY <2>0, Least
  <2>2. i # 0
    <3>1. f[0] = <<>>
      BY <1>0, <1>1, TakesEach
    <3> QED
      BY <3>1, <1>0
  <2>3. i - 1 \in 0 .. Len(s) /\ i - 1 \notin Bad /\ i \in 1 .. Len(s)
    <3>1. i \in 0 .. Len(s)
      BY <2>1
    <3>2. i - 1 \in 0 .. Len(s) /\ i \in 1 .. Len(s) /\ ~(i <= i - 1)
      BY <3>1, <2>2, <1>0
    <3> HIDE DEF Bad
    <3> QED
      BY <3>2, <2>1
  <2>4. Good(i - 1)
    BY <2>3
  <2>5. f[i] = IF s[i] \in S THEN Append(f[i - 1], s[i]) ELSE f[i - 1]
    BY <2>3, <1>0, <1>1, TakesEach
  <2>6. CASE i <= d
    <3>1. s[i] \notin S /\ i - 1 <= d
      BY <2>3, <2>6, <1>0
    <3>2. Good(i)
      BY <3>1, <2>4, <2>5, <2>6
    <3> QED
      BY <3>2, <2>1
  <2>7. CASE i > d
    <3>1. f[i] = Append(f[i - 1], s[i])
      BY <2>3, <2>5, <2>7
    <3>2. f[i - 1] = [k \in 1 .. i - 1 - d |-> s[d + k]]
      <4>1. CASE i - 1 = d
        BY <4>1, <2>4, <1>0
      <4>2. CASE i - 1 # d
        BY <4>2, <2>3, <2>4, <2>7, <1>0
      <4> QED
        BY <4>1, <4>2
    <3>3. [k \in 1 .. i - 1 - d |-> s[d + k]] \in Seq(A)
      <4> DEFINE n == i - 1 - d
      <4>1. n \in Nat /\ d + n <= Len(s)
        BY <2>3, <2>7, <1>0
      <4> HIDE DEF n
      <4>2. [k \in 1 .. n |-> s[d + k]] \in Seq(A)
        BY <4>1, <1>0, Slice
      <4> QED
        BY <4>2 DEF n
    <3>4. Append([k \in 1 .. i - 1 - d |-> s[d + k]], s[i]) = [k \in 1 .. i - d |-> s[d + k]]
      <4> DEFINE g == [k \in 1 .. i - 1 - d |-> s[d + k]]
                 h == [k \in 1 .. i - d |-> s[d + k]]
      <4>1. i - 1 - d \in Nat /\ i - d \in Nat /\ s[i] \in A
        BY <2>3, <2>7, <1>0
      <4>2. Len(g) = i - 1 - d /\ \A k \in 1 .. i - 1 - d : g[k] = s[d + k]
        BY <4>1
      <4>3. h \in Seq(A)
        BY <2>3, <2>7, <1>0, <4>1, Slice
      <4>4. Len(h) = i - d /\ \A k \in 1 .. i - d : h[k] = s[d + k]
        BY <4>1
      <4> HIDE DEF g, h
      <4>5. /\ Append(g, s[i]) \in Seq(A) /\ Len(Append(g, s[i])) = i - d
            /\ \A k \in 1 .. i - 1 - d : Append(g, s[i])[k] = g[k]
            /\ Append(g, s[i])[i - d] = s[i]
        <5>1. g \in Seq(A)
          BY <3>3 DEF g
        <5> QED
          BY <5>1, <4>1, <4>2, <1>0
      <4>6. ASSUME NEW k \in 1 .. i - d PROVE Append(g, s[i])[k] = h[k]
        <5>1. k \in 1 .. i - 1 - d \/ k = i - d
          BY <4>1
        <5>2. d + (i - d) = i
          BY <2>3, <1>0
        <5> QED
          BY <5>1, <5>2, <4>2, <4>4, <4>5
      <4>7. Append(g, s[i]) = h
        <5>1. PICK e \in Seq(A) : e = Append(g, s[i])
          BY <4>5
        <5>2. Len(e) = Len(h) /\ \A k \in 1 .. Len(e) : e[k] = h[k]
          BY <5>1, <4>4, <4>5, <4>6
        <5>3. e = h
          BY <5>2, <4>3, SeqEqual
        <5> QED
          BY <5>1, <5>3
      <4> QED
        BY <4>7 DEF g, h
    <3>5. Good(i)
      <4>1. f[i] = [k \in 1 .. i - d |-> s[d + k]]
        BY <3>1, <3>2, <3>4, Zenon
      <4>2. ~(i <= d)
        BY <2>7, <2>3, <1>0
      <4> QED
        BY <4>1, <4>2, Zenon
    <3> QED
      BY <3>5, <2>1
  <2> QED
    BY <2>6, <2>7, <2>3, <1>0
<1>3. Good(Len(s))
  <2>1. Len(s) \in 0 .. Len(s)
    BY <1>0
  <2>2. \A i \in 0 .. Len(s) : i \notin Bad => Good(i)
    BY Zenon
  <2> HIDE DEF Good, Bad
  <2> QED
    BY <1>2, <2>1, <2>2
<1>4. CASE d = Len(s)
  BY <1>1, <1>3, <1>4, <1>0
<1>5. CASE d # Len(s)
  BY <1>1, <1>3, <1>5, <1>0
<1> QED
  BY <1>4, <1>5

\* Of one entry, it is that entry or nothing.
LEMMA AmongOne ==
  ASSUME NEW A, NEW x \in A, NEW S
  PROVE  Among(<<x>>, S) = IF x \in S THEN <<x>> ELSE <<>>
<1>1. Len(<<x>>) = 1 /\ <<x>>[1] = x /\ <<x>> = Append(<<>>, x)
  OBVIOUS
<1>2. PICK f : Takes(f, 1, <<x>>, S) /\ Among(<<x>>, S) = f[1]
  BY <1>1, AmongRecursion
<1>3. f[0] = <<>> /\ f[1] = IF <<x>>[1] \in S THEN Append(f[1 - 1], <<x>>[1]) ELSE f[1 - 1]
  BY <1>2, TakesEach
<1> QED
  BY <1>1, <1>2, <1>3

\* Whatever it has looked at, it has a sequence of the entries' kind.
LEMMA TakesSequences ==
  ASSUME NEW A, NEW s \in Seq(A), NEW S, NEW f, Takes(f, Len(s), s, S)
  PROVE  \A i \in 0 .. Len(s) : f[i] \in Seq(A)
<1>0. Len(s) \in Nat
  BY LenProperties
<1> DEFINE Bad == {i \in 0 .. Len(s) : f[i] \notin Seq(A)}
<1> SUFFICES ASSUME Bad # {} PROVE FALSE
  OBVIOUS
<1>1. Bad \subseteq Nat
  OBVIOUS
<1>2. PICK i \in Bad : \A k \in Bad : i <= k
  <2> HIDE DEF Bad
  <2> QED
    BY <1>1, Least
<1>3. i # 0
  <2>1. f[0] = <<>>
    BY <1>0, TakesEach
  <2>2. f[0] \in Seq(A)
    BY <2>1, EmptySeq
  <2> QED
    BY <1>2, <2>2
<1>4. i - 1 \in 0 .. Len(s) /\ i - 1 \notin Bad /\ i \in 1 .. Len(s)
  BY <1>0, <1>2, <1>3
<1>5. f[i - 1] \in Seq(A) /\ s[i] \in A
  BY <1>4, ElementOfSeq
<1>6. f[i] = IF s[i] \in S THEN Append(f[i - 1], s[i]) ELSE f[i - 1]
  BY <1>0, <1>4, TakesEach
<1>7. f[i] \in Seq(A)
  <2>1. Append(f[i - 1], s[i]) \in Seq(A)
    BY <1>5, AppendProperties
  <2> QED
    BY <1>5, <1>6, <2>1
<1> QED
  BY <1>2, <1>7

\* One sequence after the other.  The name keeps \o from the provers, which
\* expand it and then find no instance of a fact about it.
Join(p, q) == p \o q

\* What is joined is a sequence, and the order of joining does not matter.
LEMMA JoinLaws ==
  ASSUME NEW A, NEW p \in Seq(A), NEW q \in Seq(A), NEW r \in Seq(A)
  PROVE  Join(p, q) \in Seq(A) /\ Join(Join(p, q), r) = Join(p, Join(q, r))
<1>1. p \o q \in Seq(A) /\ q \o r \in Seq(A)
  BY ConcatProperties
<1>2. (p \o q) \o r = p \o (q \o r)
  BY ConcatAssociative, SMTT(20)
<1> QED
  BY <1>1, <1>2, Zenon DEF Join

\* Joining with an empty sequence changes nothing.
LEMMA JoinNone ==
  ASSUME NEW A, NEW p \in Seq(A)
  PROVE  Join(p, <<>>) = p /\ Join(<<>>, p) = p
BY ConcatEmptySeq DEF Join

\* A sequence with an entry more is joined with that entry.
LEMMA JoinOne ==
  ASSUME NEW A, NEW p \in Seq(A), NEW x \in A
  PROVE  /\ <<x>> \in Seq(A)
         /\ Append(p, x) = Join(p, <<x>>)
<1>1. <<x>> \in Seq(A)
  OBVIOUS
<1>2. Append(p, x) = p \o <<x>>
  BY AppendIsConcat
<1> QED
  BY <1>1, <1>2 DEF Join

\* An entry added to what is joined is added to its second part.
LEMMA JoinAppend ==
  ASSUME NEW A, NEW p \in Seq(A), NEW q \in Seq(A), NEW x \in A
  PROVE  Append(Join(p, q), x) = Join(p, Append(q, x))
<1>1. PICK e \in Seq(A) : e = <<x>>
  BY JoinOne
<1>2. Join(p, q) \in Seq(A) /\ Join(Join(p, q), e) = Join(p, Join(q, e))
  BY JoinLaws
<1>3. Append(Join(p, q), x) = Join(Join(p, q), e) /\ Append(q, x) = Join(q, e)
  BY <1>1, <1>2, JoinOne, Zenon
<1> QED
  BY <1>2, <1>3, Zenon

\* Of two sequences one after the other, it is what it is of the first followed
\* by what it is of the second.
LEMMA AmongConcat ==
  ASSUME NEW A, NEW p \in Seq(A), NEW q \in Seq(A), NEW S
  PROVE  Among(Join(p, q), S) = Join(Among(p, S), Among(q, S))
<1> DEFINE s == p \o q
           m == Len(p)
           n == Len(q)
<1>1. /\ s \in Seq(A) /\ m \in Nat /\ n \in Nat /\ Len(s) = m + n
      /\ \A i \in 1 .. m : s[i] = p[i]
      /\ \A j \in 1 .. n : s[m + j] = q[j]
  <2>1. /\ s \in Seq(A) /\ m \in Nat /\ n \in Nat /\ Len(s) = m + n
        /\ \A i \in 1 .. Len(s) : s[i] = IF i <= m THEN p[i] ELSE q[i - m]
    BY ConcatProperties, LenProperties
  <2> HIDE DEF s
  <2>2. ASSUME NEW i \in 1 .. m PROVE s[i] = p[i]
    BY <2>1
  <2>3. ASSUME NEW j \in 1 .. n PROVE s[m + j] = q[j]
    <3>1. m + j \in 1 .. Len(s) /\ ~(m + j <= m) /\ (m + j) - m = j
      BY <2>1
    <3> QED
      BY <2>1, <3>1
  <2> QED
    BY <2>1, <2>2, <2>3
<1> HIDE DEF s, m, n
<1>2. PICK f : Takes(f, Len(s), s, S) /\ Among(s, S) = f[Len(s)]
  <2>1. s \in Seq(A)
    BY <1>1
  <2> QED
    BY <2>1, AmongRecursion
<1>3. PICK g : Takes(g, m, p, S) /\ Among(p, S) = g[m]
  BY <1>1, AmongRecursion DEF m
<1>4. PICK h : Takes(h, n, q, S) /\ Among(q, S) = h[n]
  BY <1>1, AmongRecursion DEF n
<1>5. /\ f[0] = <<>>
      /\ \A i \in 1 .. m + n : f[i] = IF s[i] \in S THEN Append(f[i - 1], s[i]) ELSE f[i - 1]
  <2>1. Takes(f, m + n, s, S) /\ m + n \in Nat
    BY <1>1, <1>2
  <2> QED
    BY <2>1, TakesEach
<1>6. /\ g[0] = <<>>
      /\ \A i \in 1 .. m : g[i] = IF p[i] \in S THEN Append(g[i - 1], p[i]) ELSE g[i - 1]
  BY <1>1, <1>3, TakesEach
<1>7. /\ h[0] = <<>>
      /\ \A j \in 1 .. n : h[j] = IF q[j] \in S THEN Append(h[j - 1], q[j]) ELSE h[j - 1]
  BY <1>1, <1>4, TakesEach
<1>8. f[m] = g[m]
  <2> DEFINE Bad == {i \in 0 .. m : f[i] # g[i]}
  <2>1. Bad = {}
    <3> SUFFICES ASSUME Bad # {} PROVE FALSE
      OBVIOUS
    <3>1. Bad \subseteq Nat
      BY <1>1
    <3>2. PICK i \in Bad : \A k \in Bad : i <= k
      <4> HIDE DEF Bad
      <4> QED
        BY <3>1, Least
    <3>3. i # 0
      BY <1>5, <1>6, <3>2
    <3>4. i - 1 \in 0 .. m /\ i - 1 \notin Bad /\ i \in 1 .. m /\ i \in 1 .. m + n
      <4>1. i \in 0 .. m
        BY <3>2
      <4> HIDE DEF Bad
      <4>2. /\ i - 1 \in 0 .. m /\ i \in 1 .. m /\ i \in 1 .. m + n
            /\ ~(i <= i - 1)
        BY <1>1, <3>3, <4>1
      <4> QED
        BY <3>2, <4>2
    <3>5. f[i - 1] = g[i - 1] /\ s[i] = p[i]
      BY <1>1, <3>4
    <3>6. f[i] = IF s[i] \in S THEN Append(f[i - 1], s[i]) ELSE f[i - 1]
      BY <1>5, <3>4
    <3>7. g[i] = IF p[i] \in S THEN Append(g[i - 1], p[i]) ELSE g[i - 1]
      BY <1>6, <3>4
    <3>8. f[i] = g[i]
      BY <3>5, <3>6, <3>7
    <3> QED
      BY <3>2, <3>8
  <2> QED
    BY <1>1, <2>1
<1>9. f[m + n] = Join(g[m], h[n])
  <2>0. g[m] \in Seq(A) /\ \A j \in 0 .. n : h[j] \in Seq(A)
    BY <1>1, <1>3, <1>4, TakesSequences DEF m, n
  <2> DEFINE Bad == {j \in 0 .. n : f[m + j] # Join(g[m], h[j])}
  <2>1. Bad = {}
    <3> SUFFICES ASSUME Bad # {} PROVE FALSE
      OBVIOUS
    <3>1. Bad \subseteq Nat
      <4>1. 0 .. n \subseteq Nat
        BY <1>1
      <4> QED
        BY <4>1, Zenon
    <3>2. PICK j \in Bad : \A k \in Bad : j <= k
      <4> HIDE DEF Bad
      <4> QED
        BY <3>1, Least
    <3>3. j # 0
      <4>1. m + 0 = m
        BY <1>1
      <4>2. Join(g[m], <<>>) = g[m]
        BY <2>0, JoinNone
      <4> QED
        BY <1>7, <1>8, <3>2, <4>1, <4>2
    <3>4. /\ j - 1 \in 0 .. n /\ j \in 1 .. n /\ ~(j <= j - 1)
          /\ m + j \in 1 .. m + n /\ (m + j) - 1 = m + (j - 1)
      <4>1. j \in 0 .. n
        BY <3>2
      <4> HIDE DEF Bad
      <4> QED
        BY <1>1, <3>3, <4>1
    <3>5. f[m + (j - 1)] = Join(g[m], h[j - 1])
      BY <3>2, <3>4
    <3>6. f[m + (j - 1)] = Join(g[m], h[j - 1]) /\ s[m + j] = q[j] /\ q[j] \in A /\ h[j - 1] \in Seq(A)
      BY <1>1, <2>0, <3>4, <3>5, ElementOfSeq DEF n
    <3>7. f[m + j] = IF s[m + j] \in S THEN Append(f[(m + j) - 1], s[m + j]) ELSE f[(m + j) - 1]
      BY <1>5, <3>4
    <3>8. h[j] = IF q[j] \in S THEN Append(h[j - 1], q[j]) ELSE h[j - 1]
      BY <1>7, <3>4
    <3>9. Append(Join(g[m], h[j - 1]), q[j]) = Join(g[m], Append(h[j - 1], q[j]))
      <4>1. PICK a \in Seq(A) : a = g[m]
        BY <2>0
      <4>2. PICK b \in Seq(A) : b = h[j - 1]
        BY <3>6
      <4>3. PICK x \in A : x = q[j]
        BY <3>6
      <4>4. Append(Join(a, b), x) = Join(a, Append(b, x))
        BY JoinAppend
      <4> QED
        BY <4>1, <4>2, <4>3, <4>4, Zenon
    <3>10. f[m + j] = Join(g[m], h[j])
      BY <3>4, <3>6, <3>7, <3>8, <3>9
    <3> QED
      BY <3>2, <3>10
  <2>2. n \in 0 .. n
    BY <1>1
  <2> QED
    BY <2>1, <2>2
<1>10. s = Join(p, q)
  BY DEF s, Join
<1> QED
  BY <1>1, <1>2, <1>3, <1>4, <1>9, <1>10
=============================================================================
