---------------------------- MODULE DatabaseProofs ----------------------------
(***************************************************************************)
(* The names by which the registry stores functions, for any alphabet and  *)
(* any names, and the opening of its database, for any number of rows and  *)
(* any number of kills.                                                    *)
(*                                                                         *)
(* A name is spelled, its words are joined, then its parts (Semanticize).  *)
(* Each of the three puts a sequence together from pieces; at each, the    *)
(* letters keep their order and what is between them (SameWords), and what *)
(* comes out has every separator between two letters (Canonical).  There   *)
(* is one such sequence for given words.                                   *)
(***************************************************************************)
EXTENDS Database, SequenceTheorems, WellFoundedInduction, TLAPS

(* Sequences that are put together from pieces.                            *)

\* A set of numbers has a least element, ...
LEMMA LeastNat ==
    ASSUME NEW T \in SUBSET Nat, T # {}
    PROVE  \E n \in T : \A m \in T : n <= m
<1>1. IsWellFoundedOn(OpToRel(<, Nat), Nat)
  BY NatLessThanWellFounded
<1>2. PICK n \in T : \A m \in T : ~(<<m, n>> \in OpToRel(<, Nat))
  BY <1>1, WFMin
<1>3. \A m \in T : ~(m < n)
  BY <1>2 DEF OpToRel
<1> QED
  BY <1>3

\* ... so that what holds of 0 and of n + 1 if of n holds of every number.
LEMMA NatInduct ==
    ASSUME NEW S, 0 \in S, \A n \in Nat : n \in S => n + 1 \in S
    PROVE  Nat \subseteq S
<1> SUFFICES ASSUME Nat \ S # {} PROVE FALSE
  OBVIOUS
<1>1. PICK n \in Nat \ S : \A m \in Nat \ S : n <= m
  BY LeastNat
<1>2. n # 0 /\ n - 1 \in Nat
  BY <1>1
<1>3. n - 1 \in S
  BY <1>1, <1>2
<1> QED
  BY <1>1, <1>2, <1>3

\* The prefixes of FlattenSeq.
IsFlattening(f, s, n) == f = [i \in 1..n |-> IF i = 1 THEN s[i] ELSE f[i - 1] \o s[i]]

\* r is made of the first n pieces of s: piece i ends at position o[i].
EndsAt(o, s, n, r) ==
    /\ o \in [0..n -> Nat]
    /\ o[0] = 0
    /\ o[n] = Len(r)
    /\ \A i \in 1..n : o[i] = o[i - 1] + Len(s[i])
    /\ \A i, j \in 0..n : i <= j => o[i] <= o[j]
    /\ \A i \in 1..n : \A k \in 1..Len(s[i]) : r[o[i - 1] + k] = s[i][k]
    /\ \A p \in 1..Len(r) : \E i \in 1..n : p \in (o[i - 1] + 1)..o[i]

\* The function by which FlattenSeq is defined exists, ...
LEMMA FlatteningExists ==
    ASSUME NEW s
    PROVE  \A n \in Nat : \E f : IsFlattening(f, s, n)
<1> DEFINE S == {n \in Nat : \E f : IsFlattening(f, s, n)}
<1>1. 0 \in S
  <2>1. IsFlattening([i \in 1..0 |-> s[i]], s, 0)
    BY DEF IsFlattening
  <2> QED
    BY <2>1
<1>2. ASSUME NEW n \in Nat, n \in S PROVE n + 1 \in S
  <2>1. PICK f : IsFlattening(f, s, n)
    BY <1>2
  <2> DEFINE g == [i \in 1..(n + 1) |->
                     IF i <= n THEN f[i] ELSE IF i = 1 THEN s[i] ELSE f[n] \o s[i]]
  <2>2. \A i \in 1..(n + 1) : g[i] = IF i = 1 THEN s[i] ELSE g[i - 1] \o s[i]
    <3> TAKE i \in 1..(n + 1)
    <3>1. CASE i <= n
      <4>1. f[i] = IF i = 1 THEN s[i] ELSE f[i - 1] \o s[i]
        <5> i \in 1..n
          BY <3>1
        <5> HIDE DEF g
        <5> QED
          BY <2>1 DEF IsFlattening
      <4>2. g[i] = f[i] /\ (i # 1 => g[i - 1] = f[i - 1])
        BY <3>1
      <4> HIDE DEF g
      <4> QED
        BY <4>1, <4>2
    <3>2. CASE i = n + 1
      <4>1. i # 1 => g[i - 1] = f[n]
        BY <3>2
      <4>2. g[i] = IF i = 1 THEN s[i] ELSE f[n] \o s[i]
        BY <3>2
      <4> HIDE DEF g
      <4> QED
        BY <4>1, <4>2
    <3> QED
      BY <3>1, <3>2
  <2>3. IsFlattening(g, s, n + 1)
    <3>1. g = [i \in 1..(n + 1) |-> g[i]]
      OBVIOUS
    <3> HIDE DEF g
    <3> QED
      BY <2>2, <3>1 DEF IsFlattening
  <2> QED
    BY <2>3
<1> HIDE DEF S
<1>3. Nat \subseteq S
  BY <1>1, <1>2, NatInduct
<1> QED
  BY <1>3 DEF S

\* ... so that its CHOOSE takes it.
LEMMA FlattenIsFlattening ==
    ASSUME NEW s, Len(s) \in Nat \ {0}
    PROVE  \E f : IsFlattening(f, s, Len(s)) /\ FlattenSeq(s) = f[Len(s)]
<1> DEFINE f == CHOOSE h : IsFlattening(h, s, Len(s))
<1>1. IsFlattening(f, s, Len(s))
  BY FlatteningExists
<1>2. FlattenSeq(s) = f[Len(s)]
  BY DEF FlattenSeq, IsFlattening
<1> QED
  BY <1>1, <1>2

\* One piece, ...
LEMMA OnePiece ==
    ASSUME NEW X, NEW s \in Seq(Seq(X)), Len(s) > 0
    PROVE  \E o : EndsAt(o, s, 1, s[1])
<1> DEFINE o == [i \in 0..1 |-> IF i = 0 THEN 0 ELSE Len(s[1])]
<1>1. s[1] \in Seq(X) /\ Len(s[1]) \in Nat
  OBVIOUS
<1>2. EndsAt(o, s, 1, s[1])
  BY <1>1 DEF EndsAt
<1> QED
  BY <1>2

\* ... and one more.
LEMMA OneMorePiece ==
    ASSUME NEW X, NEW s \in Seq(Seq(X)), NEW n \in Nat, n < Len(s),
           NEW r \in Seq(X), NEW o, EndsAt(o, s, n, r)
    PROVE  \E q : EndsAt(q, s, n + 1, r \o s[n + 1])
<1> DEFINE t == s[n + 1]
           q == [i \in 0..(n + 1) |-> IF i <= n THEN o[i] ELSE o[n] + Len(t)]
           u == r \o t
<1>1. t \in Seq(X) /\ Len(t) \in Nat /\ Len(r) \in Nat
  OBVIOUS
<1>2. /\ Len(u) = Len(r) + Len(t)
      /\ \A p \in 1..Len(r) : u[p] = r[p]
      /\ \A k \in 1..Len(t) : u[Len(r) + k] = t[k]
  BY <1>1
<1>3. o \in [0..n -> Nat] /\ o[0] = 0 /\ o[n] = Len(r)
  BY DEF EndsAt
<1>4. /\ \A i \in 0..n : q[i] = o[i]
      /\ q[n + 1] = Len(u)
      /\ q \in [0..(n + 1) -> Nat]
  BY <1>1, <1>2, <1>3
<1>a. ASSUME NEW i \in 1..n
      PROVE  i \in 0..n /\ i - 1 \in 0..n /\ o[i] \in Nat /\ o[i - 1] \in Nat
  BY <1>3
<1>b. ASSUME NEW i \in 1..n PROVE o[i] = o[i - 1] + Len(s[i]) /\ o[i] <= Len(r)
  <2>1. o[i] <= o[n]
    BY <1>a DEF EndsAt
  <2> QED
    BY <2>1, <1>3 DEF EndsAt
<1> HIDE DEF q, u
<1>5. ASSUME NEW i \in 1..(n + 1) PROVE q[i] = q[i - 1] + Len(s[i])
  <2>1. CASE i = n + 1
    <3>1. q[i] = Len(r) + Len(t) /\ q[i - 1] = Len(r)
      BY <1>2, <1>3, <1>4, <2>1
    <3> QED
      BY <2>1, <3>1
  <2>2. CASE i \in 1..n
    BY <1>4, <1>a, <1>b, <2>2
  <2> QED
    BY <2>1, <2>2
<1>6. ASSUME NEW i \in 0..(n + 1), NEW j \in 0..(n + 1), i <= j PROVE q[i] <= q[j]
  <2>1. CASE j \in 0..n
    <3>1. i \in 0..n
      BY <1>6, <2>1
    <3> QED
      BY <1>4, <1>6, <2>1, <3>1 DEF EndsAt
  <2>2. CASE i = n + 1 /\ j = n + 1
    BY <1>4, <2>2
  <2>3. CASE i \in 0..n /\ j = n + 1
    <3>1. o[i] <= o[n]
      BY <2>3 DEF EndsAt
    <3> QED
      BY <1>1, <1>2, <1>3, <1>4, <2>3, <3>1
  <2> QED
    BY <1>6, <2>1, <2>2, <2>3
<1>7. ASSUME NEW i \in 1..(n + 1), NEW k \in 1..Len(s[i])
      PROVE  u[q[i - 1] + k] = s[i][k]
  <2>1. CASE i = n + 1
    <3>1. q[i - 1] = Len(r) /\ k \in 1..Len(t) /\ s[i] = t
      BY <1>3, <1>4, <2>1
    <3> QED
      BY <1>2, <3>1
  <2>2. CASE i \in 1..n
    <3>1. s[i] \in Seq(X) /\ Len(s[i]) \in Nat
      BY <2>2
    <3>2. o[i - 1] \in Nat /\ q[i - 1] = o[i - 1]
      BY <1>4, <1>a, <2>2
    <3>5. o[i - 1] + Len(s[i]) <= Len(r)
      BY <1>b, <2>2
    <3>6. k \in Nat /\ 1 <= k /\ k <= Len(s[i])
      BY <3>1
    <3>3. o[i - 1] + k \in 1..Len(r)
      <4>1. \A a, b, c, d \in Nat : 1 <= c /\ c <= b /\ a + b <= d => a + c \in 1..d
        OBVIOUS
      <4> QED
        BY <1>1, <3>1, <3>2, <3>5, <3>6, <4>1
    <3>4. r[o[i - 1] + k] = s[i][k]
      BY <2>2 DEF EndsAt
    <3>7. u[o[i - 1] + k] = r[o[i - 1] + k]
      BY <1>2, <3>3
    <3> QED
      BY <3>2, <3>4, <3>7
  <2> QED
    BY <2>1, <2>2
<1>8. ASSUME NEW p \in 1..Len(u)
      PROVE  \E i \in 1..(n + 1) : p \in (q[i - 1] + 1)..q[i]
  <2>1. CASE p <= Len(r)
    <3>1. PICK i \in 1..n : p \in (o[i - 1] + 1)..o[i]
      BY <1>1, <2>1 DEF EndsAt
    <3>2. i \in 1..(n + 1) /\ q[i] = o[i] /\ q[i - 1] = o[i - 1]
      BY <1>4, <1>a
    <3> QED
      BY <3>1, <3>2
  <2>2. CASE p > Len(r)
    <3>1. q[n] = Len(r) /\ q[n + 1] = Len(u) /\ n = (n + 1) - 1
      BY <1>3, <1>4
    <3> QED
      BY <1>1, <1>2, <2>2, <3>1
  <2> QED
    BY <1>1, <1>2, <2>1, <2>2
<1>9. EndsAt(q, s, n + 1, u)
  <2>1. q[0] = 0
    BY <1>3, <1>4
  <2> QED
    BY <1>4, <1>5, <1>6, <1>7, <1>8, <2>1 DEF EndsAt
<1> QED
  BY <1>9 DEF u

\* FlattenSeq puts the pieces one after another, and nothing else.
LEMMA FlattenPieces ==
    ASSUME NEW X, NEW s \in Seq(Seq(X))
    PROVE  /\ FlattenSeq(s) \in Seq(X)
           /\ \E o : EndsAt(o, s, Len(s), FlattenSeq(s))
<1>1. CASE Len(s) = 0
  <2>1. s = <<>> /\ FlattenSeq(s) = <<>>
    BY <1>1 DEF FlattenSeq
  <2>2. EndsAt([i \in 0..0 |-> 0], s, 0, <<>>)
    BY DEF EndsAt
  <2> QED
    BY <1>1, <2>1, <2>2
<1>2. CASE Len(s) # 0
  <2>1. PICK f : IsFlattening(f, s, Len(s)) /\ FlattenSeq(s) = f[Len(s)]
    BY <1>2, FlattenIsFlattening
  <2>2. \A i \in 1..Len(s) : f[i] = IF i = 1 THEN s[i] ELSE f[i - 1] \o s[i]
    BY <2>1 DEF IsFlattening
  <2> DEFINE Good(n) == f[n] \in Seq(X) /\ \E o : EndsAt(o, s, n, f[n])
             S == {n \in Nat : n < Len(s) => Good(n + 1)}
  <2>3. 0 \in S
    <3>1. f[1] = s[1] /\ s[1] \in Seq(X)
      BY <1>2, <2>2
    <3>2. \E o : EndsAt(o, s, 1, s[1])
      BY <1>2, OnePiece
    <3> QED
      BY <3>1, <3>2
  <2>4. ASSUME NEW n \in Nat, n \in S PROVE n + 1 \in S
    <3> SUFFICES ASSUME n + 1 < Len(s) PROVE Good((n + 1) + 1)
      OBVIOUS
    <3>1. Good(n + 1)
      BY <2>4
    <3>2. f[(n + 1) + 1] = f[n + 1] \o s[(n + 1) + 1]
      <4>1. (n + 1) + 1 \in 1..Len(s) /\ (n + 1) + 1 # 1 /\ ((n + 1) + 1) - 1 = n + 1
        OBVIOUS
      <4> QED
        BY <2>2, <4>1
    <3>3. PICK o : EndsAt(o, s, n + 1, f[n + 1])
      BY <3>1
    <3>4. \E q : EndsAt(q, s, (n + 1) + 1, f[n + 1] \o s[(n + 1) + 1])
      BY <3>1, <3>3, OneMorePiece
    <3>5. f[(n + 1) + 1] \in Seq(X)
      BY <3>1, <3>2
    <3> QED
      BY <3>2, <3>4, <3>5
  <2> HIDE DEF S
  <2>5. Nat \subseteq S
    BY <2>3, <2>4, NatInduct
  <2>6. Len(s) - 1 \in S
    BY <1>2, <2>5
  <2>7. Good(Len(s))
    BY <1>2, <2>6 DEF S
  <2> QED
    BY <2>1, <2>7
<1> QED
  BY <1>1, <1>2

\* s without what is not in K: at leads from what is kept to where it goes.
Keeps(at, s, K, r) ==
    /\ at \in [K -> DOMAIN r]
    /\ \A p \in DOMAIN r : \E i \in K : at[i] = p
    /\ \A i, j \in K : i < j => at[i] < at[j]
    /\ \A i \in K : r[at[i]] = s[i]

\* Leaving out pieces of a sequence keeps the others, in their order.
LEMMA FilterKeeps ==
    ASSUME NEW X, NEW s \in Seq(X), NEW K, K \subseteq DOMAIN s,
           NEW r, r = FlattenSeq([i \in DOMAIN s |-> IF i \in K THEN <<s[i]>> ELSE <<>>])
    PROVE  r \in Seq(X) /\ \E at : Keeps(at, s, K, r)
<1> DEFINE pieces == [i \in DOMAIN s |-> IF i \in K THEN <<s[i]>> ELSE <<>>]
           n == Len(s)
<1>1. n \in Nat /\ DOMAIN s = 1..n
  OBVIOUS
<1>2. /\ pieces \in Seq(Seq(X)) /\ Len(pieces) = n
      /\ \A i \in 1..n : i \in K => Len(pieces[i]) = 1 /\ pieces[i][1] = s[i]
      /\ \A i \in 1..n : i \notin K => Len(pieces[i]) = 0
  <2>1. pieces = [i \in 1..n |-> IF i \in K THEN <<s[i]>> ELSE <<>>]
    BY <1>1
  <2>2. ASSUME NEW i \in 1..n
        PROVE  /\ pieces[i] \in Seq(X)
               /\ i \in K => Len(pieces[i]) = 1 /\ pieces[i][1] = s[i]
               /\ i \notin K => Len(pieces[i]) = 0
    <3>1. s[i] \in X
      BY <1>1
    <3>2. pieces[i] = IF i \in K THEN <<s[i]>> ELSE <<>>
      BY <2>1
    <3> HIDE DEF pieces
    <3> QED
      BY <3>1, <3>2
  <2>3. pieces \in [1..n -> Seq(X)]
    <3> HIDE DEF n
    <3> QED
      BY <2>1, <2>2
  <2> HIDE DEF pieces
  <2>4. pieces \in Seq(Seq(X)) /\ Len(pieces) = n
    BY <1>1, <2>3
  <2> QED
    BY <2>2, <2>4
<1> HIDE DEF pieces
<1>3. r \in Seq(X)
  BY <1>2, FlattenPieces DEF pieces
<1>4. PICK o : EndsAt(o, pieces, n, r)
  BY <1>2, FlattenPieces DEF pieces
<1> HIDE DEF n
<1> DEFINE at == [i \in K |-> o[i]]
<1>5. ASSUME NEW i \in K
      PROVE  /\ i \in 1..n /\ i \in 0..n /\ i - 1 \in 0..n
             /\ o[i] \in 1..Len(r)
             /\ o[i] = o[i - 1] + 1
             /\ r[o[i]] = s[i]
  <2>1. i \in 1..n /\ i \in 0..n /\ i - 1 \in 0..n /\ n \in 0..n
    BY <1>1
  <2>5. o[i] = o[i - 1] + Len(pieces[i]) /\ Len(pieces[i]) = 1
    BY <1>2, <1>4, <2>1 DEF EndsAt
  <2>2. o[i] \in Nat /\ o[i - 1] \in Nat /\ o[i] = o[i - 1] + 1
    BY <1>4, <2>1, <2>5 DEF EndsAt
  <2>3. o[i] <= o[n] /\ o[n] = Len(r)
    BY <1>1, <1>4, <2>1 DEF EndsAt
  <2>4. r[o[i - 1] + 1] = s[i]
    <3>1. 1 \in 1..Len(pieces[i]) /\ pieces[i][1] = s[i]
      BY <1>2, <2>1
    <3> QED
      BY <1>4, <2>1, <3>1 DEF EndsAt
  <2> QED
    BY <1>3, <2>1, <2>2, <2>3, <2>4
<1>6. ASSUME NEW i \in K, NEW j \in K, i < j PROVE o[i] < o[j]
  <2>1. i \in 0..n /\ j - 1 \in 0..n /\ i <= j - 1
    BY <1>1, <1>5, <1>6
  <2>2. o[i] <= o[j - 1]
    BY <1>4, <2>1 DEF EndsAt
  <2>3. o[j] = o[j - 1] + 1 /\ o[j] \in Nat /\ o[i] \in Nat
    <3>1. o[j] = o[j - 1] + 1
      BY <1>5
    <3>2. o[j] \in 1..Len(r)
      BY <1>5
    <3>3. o[i] \in 1..Len(r)
      BY <1>5
    <3>4. Len(r) \in Nat
      BY <1>3
    <3> QED
      BY <3>1, <3>2, <3>3, <3>4
  <2>4. o[j - 1] \in Nat
    BY <1>4, <2>1 DEF EndsAt
  <2> QED
    BY <2>2, <2>3, <2>4
<1>7. ASSUME NEW p \in DOMAIN r PROVE \E i \in K : at[i] = p
  <2>1. p \in 1..Len(r)
    BY <1>3
  <2>2. PICK i \in 1..n : p \in (o[i - 1] + 1)..o[i]
    BY <1>4, <2>1 DEF EndsAt
  <2>3. o[i] \in Nat /\ o[i - 1] \in Nat /\ o[i] = o[i - 1] + Len(pieces[i])
    BY <1>1, <1>4, <2>2 DEF EndsAt
  <2>4. i \in K
    BY <1>2, <2>2, <2>3
  <2>5. o[i] = o[i - 1] + 1
    BY <1>5, <2>4
  <2>6. o[i] = p
    BY <2>2, <2>3, <2>5
  <2> QED
    BY <2>4, <2>6
<1>8. Keeps(at, s, K, r)
  <2>1. at \in [K -> DOMAIN r]
    <3>1. DOMAIN r = 1..Len(r)
      BY <1>3
    <3> QED
      BY <1>5, <3>1
  <2> QED
    BY <1>5, <1>6, <1>7, <2>1 DEF Keeps
<1> QED
  BY <1>3, <1>8

\* What nothing is kept between comes to stand side by side.
LEMMA KeptNeighbours ==
    ASSUME NEW X, NEW s \in Seq(X), NEW K \in SUBSET DOMAIN s, NEW r \in Seq(X),
           NEW at, Keeps(at, s, K, r), NEW i \in K, NEW j \in K, i < j
    PROVE  /\ (\A k \in K : ~(i < k /\ k < j)) => at[j] = at[i] + 1
           /\ (\E k \in K : i < k /\ k < j) => at[j] > at[i] + 1
<1>1. /\ \A k \in K : k \in Nat /\ at[k] \in Nat /\ at[k] \in DOMAIN r
      /\ \A p \in DOMAIN r : p \in Nat
      /\ DOMAIN r = 1..Len(r) /\ Len(r) \in Nat
  BY DEF Keeps
<1>2. \A k, l \in K : k < l => at[k] < at[l]
  BY DEF Keeps
<1>3. ASSUME \A k \in K : ~(i < k /\ k < j), at[j] # at[i] + 1 PROVE FALSE
  <2>1. at[i] < at[j]
    BY <1>2
  <2>2. at[i] + 1 \in DOMAIN r /\ at[i] + 1 < at[j]
    BY <1>1, <1>3, <2>1
  <2>3. PICK k \in K : at[k] = at[i] + 1
    BY <2>2 DEF Keeps
  <2>4. ~(k <= i) /\ ~(j <= k)
    BY <1>1, <1>2, <2>2, <2>3
  <2> QED
    BY <1>1, <1>3, <2>4
<1>4. ASSUME NEW k \in K, i < k, k < j PROVE at[j] > at[i] + 1
  BY <1>1, <1>2, <1>4
<1> QED
  BY <1>3, <1>4
----------------------------------------------------------------------------
\* at reads the letters of m as those of n.
Reads(at, m, n) ==
    /\ at \in [Letters(m) -> Letters(n)]
    /\ \A j \in Letters(n) : \E i \in Letters(m) : at[i] = j
    /\ \A i \in Letters(m) : Small(m[i]) = Small(n[at[i]])
    /\ \A i, j \in Letters(m) : i < j => at[i] < at[j]

\* No letter is between i and j.
Adjacent(m, i, j) == i < j /\ (i + 1)..(j - 1) \cap Letters(m) = {}

\* What is between two letters that follow each other is the same in both.
SameGaps(at, m, n) ==
    \A i, j \in Letters(m) :
        Adjacent(m, i, j) =>
            /\ Dotted(m, i, j) <=> Dotted(n, at[i], at[j])
            /\ Parted(m, i, j) <=> Parted(n, at[i], at[j])

\* SameWords, in two parts.
LEMMA SameWordsReads ==
    ASSUME NEW m, NEW n
    PROVE  SameWords(m, n) <=> \E at : Reads(at, m, n) /\ SameGaps(at, m, n)
<1>1. ASSUME SameWords(m, n) PROVE \E at : Reads(at, m, n) /\ SameGaps(at, m, n)
  BY <1>1, Zenon DEF SameWords, Reads, SameGaps, Adjacent
<1>2. ASSUME NEW at, Reads(at, m, n), SameGaps(at, m, n) PROVE SameWords(m, n)
  BY <1>2, Zenon DEF SameWords, Reads, SameGaps, Adjacent
<1> QED
  BY <1>1, <1>2

\* Neighbours are read as neighbours.
LEMMA ReadsNeighbours ==
    ASSUME NEW m \in Seq(Chars), NEW n \in Seq(Chars), NEW at, Reads(at, m, n),
           NEW i \in Letters(m), NEW j \in Letters(m)
    PROVE  Adjacent(m, i, j) <=> Adjacent(n, at[i], at[j])
<1>1. /\ \A k \in Letters(m) : k \in Nat /\ at[k] \in Nat /\ at[k] \in Letters(n)
      /\ \A k \in Letters(n) : k \in Nat
  BY DEF Letters, Reads
<1>2. \A k, l \in Letters(m) : k < l <=> at[k] < at[l]
  <2>1. \A k, l \in Letters(m) : k < l => at[k] < at[l]
    BY DEF Reads
  <2>2. \A k, l \in Letters(m) : k = l \/ k < l \/ l < k
    BY <1>1
  <2> QED
    BY <1>1, <2>1, <2>2
<1>3. ASSUME Adjacent(m, i, j) PROVE Adjacent(n, at[i], at[j])
  <2> SUFFICES ASSUME NEW p \in Letters(n), at[i] < p, p < at[j] PROVE FALSE
    BY <1>1, <1>2, <1>3 DEF Adjacent
  <2>1. PICK k \in Letters(m) : at[k] = p
    BY DEF Reads
  <2>2. i < k /\ k < j
    BY <1>2, <2>1
  <2> QED
    BY <1>1, <1>3, <2>2 DEF Adjacent
<1>4. ASSUME Adjacent(n, at[i], at[j]) PROVE Adjacent(m, i, j)
  <2> SUFFICES ASSUME NEW k \in Letters(m), i < k, k < j PROVE FALSE
    BY <1>1, <1>2, <1>4 DEF Adjacent
  <2>1. at[i] < at[k] /\ at[k] < at[j] /\ at[k] \in Letters(n)
    BY <1>1, <1>2
  <2> QED
    BY <1>1, <1>4, <2>1 DEF Adjacent
<1> QED
  BY <1>3, <1>4

\* To have the same words is an equivalence.
LEMMA SameWordsSymmetric ==
    ASSUME NEW m \in Seq(Chars), NEW n \in Seq(Chars), SameWords(m, n)
    PROVE  SameWords(n, m)
<1>1. PICK at : Reads(at, m, n) /\ SameGaps(at, m, n)
  BY SameWordsReads
<1> DEFINE back == [j \in Letters(n) |-> CHOOSE i \in Letters(m) : at[i] = j]
<1>2. \A j \in Letters(n) : back[j] \in Letters(m) /\ at[back[j]] = j
  BY <1>1 DEF Reads
<1>3. back \in [Letters(n) -> Letters(m)]
  BY <1>2
<1> HIDE DEF back
<1>4. /\ \A i \in Letters(m) : i \in Nat /\ at[i] \in Letters(n)
      /\ \A i, j \in Letters(m) : i < j => at[i] < at[j]
      /\ \A j \in Letters(n) : j \in Nat
  BY <1>1 DEF Reads, Letters
<1>5. \A i \in Letters(m) : back[at[i]] = i
  BY <1>2, <1>4
<1>6. \A i, j \in Letters(n) : i < j => back[i] < back[j]
  BY <1>2, <1>4
<1>7. Reads(back, n, m)
  BY <1>1, <1>2, <1>3, <1>4, <1>5, <1>6 DEF Reads
<1>8. SameGaps(back, n, m)
  BY <1>1, <1>2, <1>7, ReadsNeighbours DEF SameGaps
<1> QED
  BY <1>7, <1>8, SameWordsReads

LEMMA SameWordsTransitive ==
    ASSUME NEW m \in Seq(Chars), NEW n \in Seq(Chars), NEW x \in Seq(Chars),
           SameWords(m, n), SameWords(n, x)
    PROVE  SameWords(m, x)
<1>1. PICK at : Reads(at, m, n) /\ SameGaps(at, m, n)
  BY SameWordsReads
<1>2. PICK to : Reads(to, n, x) /\ SameGaps(to, n, x)
  BY SameWordsReads
<1> DEFINE via == [i \in Letters(m) |-> to[at[i]]]
<1>3. Reads(via, m, x)
  <2>1. via \in [Letters(m) -> Letters(x)]
    BY <1>1, <1>2 DEF Reads
  <2>2. \A i \in Letters(m) : via[i] = to[at[i]] /\ at[i] \in Letters(n)
    BY <1>1 DEF Reads
  <2> HIDE DEF via
  <2> QED
    BY <1>1, <1>2, <2>1, <2>2 DEF Reads
<1>4. SameGaps(via, m, x)
  <2> SUFFICES ASSUME NEW i \in Letters(m), NEW j \in Letters(m), Adjacent(m, i, j)
               PROVE  /\ Dotted(m, i, j) <=> Dotted(x, via[i], via[j])
                      /\ Parted(m, i, j) <=> Parted(x, via[i], via[j])
    BY DEF SameGaps
  <2>1. at[i] \in Letters(n) /\ at[j] \in Letters(n)
    BY <1>1 DEF Reads
  <2>2. Adjacent(n, at[i], at[j])
    BY <1>1, ReadsNeighbours
  <2> QED
    BY <1>1, <1>2, <2>1, <2>2 DEF SameGaps
<1> HIDE DEF via
<1> QED
  BY <1>3, <1>4, SameWordsReads
----------------------------------------------------------------------------
\* What is left of an alphabet in the words of a name.
Plain == Others \cup {"_", "."}

\* What the alphabet's assumption says of the characters that are named.
LEMMA Alphabet ==
    /\ \A ch \in DOMAIN LowerOf : LowerOf[ch] \in Others
    /\ \A ch \in Others : ~IsUpper(ch) /\ InWord(ch)
    /\ "_" \notin Others /\ "." \notin Others /\ " " \notin Others
    /\ ~IsUpper("_") /\ ~IsUpper(".") /\ ~InWord("_") /\ ~InWord(".")
    /\ Plain \subseteq Chars
  BY AlphabetAssumption DEF IsUpper, InWord, Plain, Chars

\* What a character becomes, apart from the "_" that may be put before it.
Base(ch) == IF InWord(ch) THEN Small(ch) ELSE IF ch = "." THEN "." ELSE "_"

\* The capitals that get one.
TwoPieces(m, i) == IsUpper(m[i]) /\ BeginsWord(m, i)

\* Sequences of one and of two elements.
LEMMA OneElement ==
    ASSUME NEW S, NEW e \in S
    PROVE  <<e>> \in Seq(S) /\ Len(<<e>>) = 1 /\ <<e>>[1] = e /\ <<>> \o <<e>> = <<e>>
  OBVIOUS

LEMMA TwoElements ==
    ASSUME NEW S, NEW u \in Seq(S), NEW v \in Seq(S), Len(u) = 1, Len(v) = 1
    PROVE  /\ u \o v \in Seq(S) /\ Len(u \o v) = 2
           /\ (u \o v)[1] = u[1] /\ (u \o v)[2] = v[1]
<1> DEFINE r == u \o v
<1>1. /\ r \in Seq(S) /\ Len(r) = Len(u) + Len(v)
      /\ \A i \in 1..(Len(u) + Len(v)) : r[i] = IF i <= Len(u) THEN u[i] ELSE v[i - Len(u)]
  BY ConcatProperties
<1> HIDE DEF r
<1>2. Len(r) = 2 /\ r[1] = u[1] /\ r[2] = v[1]
  BY <1>1
<1> QED
  BY <1>1, <1>2 DEF r

\* A character is spelled by itself, a capital that begins a word after a "_".
LEMMA SpelledPiece ==
    ASSUME NEW m \in Seq(Chars), NEW i \in DOMAIN m
    PROVE  /\ Spelled(m, i) \in Seq(Plain)
           /\ Len(Spelled(m, i)) = IF TwoPieces(m, i) THEN 2 ELSE 1
           /\ Spelled(m, i)[Len(Spelled(m, i))] = Base(m[i])
           /\ TwoPieces(m, i) => Spelled(m, i)[1] = "_"
<1>1. m[i] \in Chars
  OBVIOUS
<1>2. Base(m[i]) \in Plain
  BY <1>1, Alphabet DEF Base, Small, Plain, InWord, IsUpper
<1>3. CASE TwoPieces(m, i)
  <2>1. Base(m[i]) = LowerOf[m[i]]
    BY <1>3 DEF TwoPieces, Base, Small, InWord
  <2>2. Spelled(m, i) = <<"_">> \o <<Base(m[i])>>
    BY <1>3, <2>1 DEF TwoPieces, Spelled
  <2>3. "_" \in Plain
    BY DEF Plain
  <2> DEFINE b == Base(m[i])
             r == Spelled(m, i)
             u == <<"_">>
             v == <<b>>
  <2>4. b \in Plain /\ r = u \o v
    BY <1>2, <2>2
  <2>6. u \in Seq(Plain) /\ Len(u) = 1 /\ u[1] = "_"
    BY <2>3, OneElement
  <2> HIDE DEF b, r, u
  <2>7. v \in Seq(Plain) /\ Len(v) = 1 /\ v[1] = b
    BY <2>4, OneElement
  <2> HIDE DEF v
  <2>5. r \in Seq(Plain) /\ Len(r) = 2 /\ r[1] = "_" /\ r[2] = b
    <3>1. u \in Seq(Plain) /\ v \in Seq(Plain) /\ Len(u) = 1 /\ Len(v) = 1
      BY <2>6, <2>7
    <3>2. u \o v \in Seq(Plain) /\ Len(u \o v) = 2
      BY <3>1, TwoElements
    <3>3. (u \o v)[1] = u[1] /\ (u \o v)[2] = v[1]
      BY <3>1, TwoElements
    <3> QED
      BY <2>4, <2>6, <2>7, <3>2, <3>3
  <2> QED
    BY <1>3, <2>5 DEF b, r
<1>4. CASE ~TwoPieces(m, i)
  <2>1. Spelled(m, i) = <<Base(m[i])>>
    <3>1. CASE IsUpper(m[i])
      <4>1. LowerOf[m[i]] = Base(m[i])
        BY <3>1 DEF Base, Small, InWord
      <4>2. Spelled(m, i) = <<>> \o <<Base(m[i])>>
        BY <1>4, <3>1, <4>1 DEF TwoPieces, Spelled
      <4> QED
        BY <1>2, <4>2, OneElement
    <3>2. CASE ~IsUpper(m[i])
      BY <3>2, Alphabet DEF Spelled, Base, Small, InWord
    <3> QED
      BY <3>1, <3>2
  <2> DEFINE b == Base(m[i])
  <2>2. b \in Plain /\ Spelled(m, i) = <<b>>
    BY <1>2, <2>1
  <2> HIDE DEF b
  <2>3. Spelled(m, i) \in Seq(Plain) /\ Len(Spelled(m, i)) = 1 /\ Spelled(m, i)[1] = b
    BY <2>2, OneElement
  <2> QED
    BY <1>4, <2>3 DEF b
<1> QED
  BY <1>2, <1>3, <1>4

\* The loop over the characters.
WordsOf(m) == FlattenSeq([i \in DOMAIN m |-> Spelled(m, i)])

\* at leads from a character to where it goes in w; every other place has a "_"
\* before a capital that begins a word.
Spells(at, m, w) ==
    /\ at \in [DOMAIN m -> DOMAIN w]
    /\ \A i, j \in DOMAIN m : i < j => at[i] < at[j]
    /\ \A i \in DOMAIN m : w[at[i]] = Base(m[i])
    /\ \A p \in DOMAIN w :
          \/ \E i \in DOMAIN m : at[i] = p
          \/ w[p] = "_"
    /\ \A i \in DOMAIN m :
          i > 1 => at[i] = at[i - 1] + (IF TwoPieces(m, i) THEN 2 ELSE 1)

\* The loop over the characters spells the name.
LEMMA WordsSpell ==
    ASSUME NEW m \in Seq(Chars)
    PROVE  WordsOf(m) \in Seq(Plain) /\ \E at : Spells(at, m, WordsOf(m))
<1> DEFINE pieces == [i \in DOMAIN m |-> Spelled(m, i)]
           n == Len(m)
           w == WordsOf(m)
<1>1. n \in Nat /\ DOMAIN m = 1..n
  OBVIOUS
<1>2. pieces \in Seq(Seq(Plain)) /\ Len(pieces) = n
  <2>1. \A i \in 1..n : Spelled(m, i) \in Seq(Plain)
    BY <1>1, SpelledPiece
  <2>2. pieces \in [1..n -> Seq(Plain)]
    BY <1>1, <2>1
  <2> HIDE DEF pieces, n
  <2> QED
    BY <1>1, <2>2
<1>3. \A i \in 1..n : pieces[i] = Spelled(m, i)
  BY <1>1
<1>4. w = FlattenSeq(pieces)
  BY DEF WordsOf
<1> HIDE DEF pieces, n, w
<1>5. w \in Seq(Plain)
  BY <1>2, <1>4, FlattenPieces
<1>6. PICK o : EndsAt(o, pieces, n, w)
  BY <1>2, <1>4, FlattenPieces
<1> DEFINE at == [i \in DOMAIN m |-> o[i]]
           Long(i) == IF TwoPieces(m, i) THEN 2 ELSE 1
<1>7. ASSUME NEW i \in 1..n
      PROVE  /\ pieces[i] \in Seq(Plain) /\ Len(pieces[i]) = Long(i)
             /\ pieces[i][Long(i)] = Base(m[i])
             /\ TwoPieces(m, i) => pieces[i][1] = "_"
  <2>1. pieces[i] = Spelled(m, i) /\ i \in DOMAIN m
    BY <1>1, <1>3
  <2>2. /\ Spelled(m, i) \in Seq(Plain)
        /\ Len(Spelled(m, i)) = IF TwoPieces(m, i) THEN 2 ELSE 1
        /\ Spelled(m, i)[Len(Spelled(m, i))] = Base(m[i])
        /\ TwoPieces(m, i) => Spelled(m, i)[1] = "_"
    BY <2>1, SpelledPiece
  <2> QED
    BY <2>1, <2>2
<1> HIDE DEF Long
<1>8. \A i \in 1..n : Long(i) \in 1..2
  BY DEF Long
<1>9. ASSUME NEW i \in 1..n
      PROVE  /\ i \in 0..n /\ i - 1 \in 0..n
             /\ o[i] \in 1..Len(w) /\ o[i - 1] \in Nat
             /\ o[i] = o[i - 1] + Long(i)
             /\ w[o[i]] = Base(m[i])
             /\ TwoPieces(m, i) => w[o[i - 1] + 1] = "_"
  <2>1. i \in 0..n /\ i - 1 \in 0..n /\ n \in 0..n
    BY <1>1
  <2>2. o[i] \in Nat /\ o[i - 1] \in Nat /\ o[i] <= o[n] /\ o[n] = Len(w)
    BY <1>1, <1>6, <2>1 DEF EndsAt
  <2>3. o[i] = o[i - 1] + Len(pieces[i])
    BY <1>6 DEF EndsAt
  <2>4. Long(i) \in 1..Len(pieces[i]) /\ 1 \in 1..Len(pieces[i])
    <3>1. Len(pieces[i]) = Long(i) /\ Long(i) \in 1..2
      BY <1>7, <1>8
    <3> QED
      BY <3>1
  <2>5. w[o[i - 1] + Long(i)] = pieces[i][Long(i)] /\ w[o[i - 1] + 1] = pieces[i][1]
    BY <1>6, <2>4 DEF EndsAt
  <2>6. o[i] \in 1..Len(w)
    <3>1. Len(pieces[i]) = Long(i) /\ Long(i) \in 1..2
      BY <1>7, <1>8
    <3>2. Len(w) \in Nat
      BY <1>5
    <3> QED
      BY <2>2, <2>3, <3>1, <3>2
  <2> QED
    BY <1>7, <2>1, <2>2, <2>3, <2>5, <2>6
<1>10. ASSUME NEW i \in 1..n, NEW j \in 1..n, i < j PROVE o[i] < o[j]
  <2>1. i \in 0..n /\ j - 1 \in 0..n /\ i <= j - 1
    BY <1>1, <1>10
  <2>2. o[i] <= o[j - 1]
    BY <1>6, <2>1 DEF EndsAt
  <2>3. o[j] = o[j - 1] + Long(j) /\ Long(j) \in 1..2 /\ o[j - 1] \in Nat
    BY <1>8, <1>9
  <2>4. o[i] \in Nat
    BY <1>6, <2>1 DEF EndsAt
  <2> QED
    BY <2>2, <2>3, <2>4
<1>11. ASSUME NEW p \in 1..Len(w)
       PROVE  (\E i \in 1..n : o[i] = p) \/ w[p] = "_"
  <2>1. PICK i \in 1..n : p \in (o[i - 1] + 1)..o[i]
    BY <1>6 DEF EndsAt
  <2>2. o[i] = o[i - 1] + Long(i) /\ o[i - 1] \in Nat
    BY <1>9
  <2>3. CASE TwoPieces(m, i)
    <3>1. o[i] = o[i - 1] + 2
      BY <2>2, <2>3 DEF Long
    <3>2. p = o[i] \/ p = o[i - 1] + 1
      BY <2>1, <2>2, <3>1
    <3> QED
      BY <1>9, <2>3, <3>2
  <2>4. CASE ~TwoPieces(m, i)
    <3>1. o[i] = o[i - 1] + 1
      BY <2>2, <2>4 DEF Long
    <3>2. p = o[i]
      BY <2>1, <2>2, <3>1
    <3> QED
      BY <3>2
  <2> QED
    BY <2>3, <2>4
<1>12. DOMAIN w = 1..Len(w)
  BY <1>5
<1>13. /\ at \in [DOMAIN m -> DOMAIN w]
       /\ \A i \in 1..n : at[i] = o[i]
  BY <1>1, <1>9, <1>12
<1> HIDE DEF at
<1>14. ASSUME NEW i \in 1..n, i > 1 PROVE at[i] = at[i - 1] + Long(i)
  <2>1. i - 1 \in 1..n
    BY <1>1, <1>14
  <2> QED
    BY <1>9, <1>13, <2>1
<1>15. Spells(at, m, w)
  BY <1>1, <1>9, <1>10, <1>11, <1>12, <1>13, <1>14 DEF Spells, Long
<1> QED
  BY <1>5, <1>15 DEF w

\* A character remains a letter, a dot, or neither.
LEMMA BaseLetters ==
    ASSUME NEW ch \in Chars
    PROVE  /\ InWord(Base(ch)) <=> InWord(ch)
           /\ Base(ch) = "." <=> ch = "."
           /\ InWord(ch) => Small(Base(ch)) = Small(ch)
           /\ ~IsUpper(Base(ch))
<1>1. CASE IsUpper(ch)
  BY <1>1, Alphabet DEF Base, Small, InWord, IsUpper
<1>2. CASE ~IsUpper(ch)
  BY <1>2, Alphabet DEF Base, Small, InWord
<1> QED
  BY <1>1, <1>2

\* The words of a name are its words.
LEMMA WordsAreSame ==
    ASSUME NEW m \in Seq(Chars)
    PROVE  WordsOf(m) \in Seq(Plain) /\ SameWords(m, WordsOf(m))
<1> DEFINE w == WordsOf(m)
<1>1. w \in Seq(Plain)
  BY WordsSpell
<1>2. PICK at : Spells(at, m, w)
  BY WordsSpell
<1> HIDE DEF w
<1>3. /\ \A i \in DOMAIN m : i \in Nat /\ m[i] \in Chars /\ at[i] \in DOMAIN w /\ at[i] \in Nat
      /\ \A i \in DOMAIN m : w[at[i]] = Base(m[i])
      /\ DOMAIN m = 1..Len(m) /\ Len(m) \in Nat
      /\ \A p \in DOMAIN w : p \in Nat
  <2>1. /\ \A i \in DOMAIN m : i \in Nat /\ m[i] \in Chars
        /\ DOMAIN m = 1..Len(m) /\ Len(m) \in Nat
        /\ \A p \in DOMAIN w : p \in Nat
    BY <1>1
  <2>2. /\ \A i \in DOMAIN m : at[i] \in DOMAIN w
        /\ \A i \in DOMAIN m : w[at[i]] = Base(m[i])
    BY <1>2 DEF Spells
  <2> QED
    BY <2>1, <2>2
<1>4. \A i, j \in DOMAIN m : i < j <=> at[i] < at[j]
  <2>1. \A i, j \in DOMAIN m : i < j => at[i] < at[j]
    BY <1>2 DEF Spells
  <2>2. \A i, j \in DOMAIN m : i = j \/ i < j \/ j < i
    BY <1>3
  <2> QED
    BY <1>3, <2>1, <2>2
<1>5. \A i \in DOMAIN m : at[i] \in Letters(w) <=> i \in Letters(m)
  BY <1>3, BaseLetters DEF Letters
<1>6. \A p \in Letters(w) : \E i \in Letters(m) : at[i] = p
  <2> TAKE p \in Letters(w)
  <2>1. p \in DOMAIN w /\ w[p] # "_"
    BY Alphabet DEF Letters
  <2>2. PICK i \in DOMAIN m : at[i] = p
    BY <1>2, <2>1 DEF Spells
  <2> QED
    BY <1>5, <2>2
<1> DEFINE f == [i \in Letters(m) |-> at[i]]
<1>7. Letters(m) \subseteq DOMAIN m
  BY DEF Letters
<1>8. \A i \in Letters(m) : f[i] = at[i]
  OBVIOUS
<1>9. f \in [Letters(m) -> Letters(w)]
  BY <1>5, <1>7
<1> HIDE DEF f
<1>10. Reads(f, m, w)
  <2>1. \A i \in Letters(m) : Small(m[i]) = Small(w[f[i]])
    BY <1>3, <1>7, <1>8, BaseLetters DEF Letters
  <2>2. \A i, j \in Letters(m) : i < j => f[i] < f[j]
    BY <1>4, <1>7, <1>8
  <2> QED
    BY <1>6, <1>8, <1>9, <2>1, <2>2 DEF Reads
<1>11. SameGaps(f, m, w)
  <2> SUFFICES ASSUME NEW i \in Letters(m), NEW j \in Letters(m), Adjacent(m, i, j)
               PROVE  /\ Dotted(m, i, j) <=> Dotted(w, at[i], at[j])
                      /\ Parted(m, i, j) <=> Parted(w, at[i], at[j])
    BY <1>8 DEF SameGaps
  <2>1. i \in DOMAIN m /\ j \in DOMAIN m /\ i < j /\ InWord(m[i]) /\ InWord(m[j])
    BY DEF Letters, Adjacent
  <2>2. ASSUME Dotted(m, i, j) PROVE Dotted(w, at[i], at[j])
    <3>1. PICK k \in i..j : m[k] = "."
      BY <2>2 DEF Dotted
    <3>2. k \in DOMAIN m /\ k # i /\ k # j
      <4>1. k \in 1..Len(m)
        BY <1>3, <2>1
      <4> QED
        BY <1>3, <2>1, <3>1, <4>1, Alphabet
    <3>3. i < k /\ k < j
      BY <1>3, <2>1, <3>2
    <3>4. at[i] < at[k] /\ at[k] < at[j] /\ w[at[k]] = "."
      BY <1>3, <1>4, <2>1, <3>1, <3>2, <3>3, BaseLetters
    <3> QED
      BY <1>3, <2>1, <3>2, <3>4 DEF Dotted
  <2>3. ASSUME Dotted(w, at[i], at[j]) PROVE Dotted(m, i, j)
    <3>1. PICK p \in at[i]..at[j] : w[p] = "."
      BY <2>3 DEF Dotted
    <3>2. p \in DOMAIN w
      <4>1. DOMAIN w = 1..Len(w) /\ Len(w) \in Nat
        BY <1>1
      <4> QED
        BY <1>3, <2>1, <3>1, <4>1
    <3>3. PICK k \in DOMAIN m : at[k] = p
      BY <1>2, <3>1, <3>2 DEF Spells
    <3>4. m[k] = "."
      BY <1>3, <3>1, <3>3, BaseLetters
    <3>5. ~(k < i) /\ ~(j < k)
      BY <1>3, <1>4, <2>1, <3>1, <3>3
    <3> QED
      BY <1>3, <2>1, <3>3, <3>4, <3>5 DEF Dotted
  <2>4. ~IsUpper(w[at[j]])
    BY <1>3, <2>1, BaseLetters
  <2>5. Parted(m, i, j) <=> Parted(w, at[i], at[j])
    <3>1. CASE j = i + 1
      <4>1. at[j] = at[i] + (IF TwoPieces(m, j) THEN 2 ELSE 1)
        <5>1. j > 1 /\ j - 1 = i
          BY <1>3, <2>1, <3>1
        <5> QED
          BY <1>2, <2>1, <5>1 DEF Spells
      <4>2. TwoPieces(m, j) <=> IsUpper(m[j])
        <5>1. j > 1 /\ j - 1 = i
          BY <1>3, <2>1, <3>1
        <5> QED
          BY <2>1, <5>1 DEF TwoPieces, BeginsWord
      <4> QED
        BY <1>3, <2>1, <2>4, <3>1, <4>1, <4>2 DEF Parted
    <3>2. CASE j # i + 1
      <4>1. i + 1 \in DOMAIN m /\ i < i + 1 /\ i + 1 < j
        BY <1>3, <2>1, <3>2
      <4>2. at[i] < at[i + 1] /\ at[i + 1] < at[j]
        BY <1>4, <2>1, <4>1
      <4> QED
        BY <1>3, <2>1, <4>1, <4>2 DEF Parted
    <3> QED
      BY <3>1, <3>2
  <2> QED
    BY <2>2, <2>3, <2>5
<1> QED
  BY <1>1, <1>10, <1>11, SameWordsReads DEF w
----------------------------------------------------------------------------
\* What a join keeps: everything but the separators that separate nothing.
Kept(s, sep, marks) == {i \in DOMAIN s : s[i] # sep \/ Separates(s, i, sep, marks)}

\* ... it keeps.
LEMMA JoinedKeeps ==
    ASSUME NEW s \in Seq(Plain), NEW sep, NEW marks
    PROVE  /\ Joined(s, sep, marks) \in Seq(Plain)
           /\ \E at : Keeps(at, s, Kept(s, sep, marks), Joined(s, sep, marks))
<1> DEFINE K == Kept(s, sep, marks)
<1>1. K \subseteq DOMAIN s
  BY DEF Kept
<1>2. \A i \in DOMAIN s : i \in K <=> ~(s[i] = sep /\ ~Separates(s, i, sep, marks))
  BY DEF Kept
<1>3. Joined(s, sep, marks)
        = FlattenSeq([i \in DOMAIN s |-> IF i \in K THEN <<s[i]>> ELSE <<>>])
  <2>1. [i \in DOMAIN s |-> IF i \in K THEN <<s[i]>> ELSE <<>>]
          = [i \in DOMAIN s |-> IF s[i] = sep /\ ~Separates(s, i, sep, marks)
                                THEN <<>> ELSE <<s[i]>>]
    <3> HIDE DEF K
    <3> QED
      BY <1>2
  <2> QED
    BY <2>1 DEF Joined
<1> HIDE DEF K
<1>4. /\ Joined(s, sep, marks) \in Seq(Plain)
      /\ \E at : Keeps(at, s, K, Joined(s, sep, marks))
  BY <1>1, <1>3, FilterKeeps
<1> QED
  BY <1>4 DEF K

\* Every sep stands between two letters.
Between(s, sep) ==
    \A i \in DOMAIN s :
        s[i] = sep => i > 1 /\ i < Len(s) /\ s[i - 1] \in Others /\ s[i + 1] \in Others

\* The two joins: of the words of a part, then of the parts.
JoinsWords(sep, marks) == sep = "_" /\ marks = {"."}
JoinsParts(s, sep, marks) == sep = "." /\ marks = {} /\ Between(s, "_")
Joins(s, sep, marks) == JoinsWords(sep, marks) \/ JoinsParts(s, sep, marks)

\* The characters of words: letters and the two separators.
LEMMA PlainLetters ==
    ASSUME NEW s \in Seq(Plain)
    PROVE  /\ \A i \in DOMAIN s : i \in Letters(s) <=> s[i] \in Others
           /\ \A i \in DOMAIN s : s[i] \in Others \/ s[i] = "_" \/ s[i] = "."
           /\ \A i \in DOMAIN s : ~IsUpper(s[i])
           /\ Letters(s) \subseteq DOMAIN s
           /\ DOMAIN s = 1..Len(s) /\ Len(s) \in Nat
<1>1. \A i \in DOMAIN s : s[i] \in Plain
  OBVIOUS
<1>2. \A ch \in Plain : ~IsUpper(ch) /\ (InWord(ch) <=> ch \in Others)
  BY Alphabet DEF Plain, InWord
<1>3. DOMAIN s = 1..Len(s) /\ Len(s) \in Nat
  OBVIOUS
<1> QED
  BY <1>1, <1>2, <1>3 DEF Letters, Plain

\* What PlainLetters says, of a sequence of length n.
IsPlain(s, n) ==
    /\ n \in Nat
    /\ Len(s) = n
    /\ DOMAIN s = 1..n
    /\ \A i \in 1..n : s[i] \in Others \/ s[i] = "_" \/ s[i] = "."
    /\ Letters(s) = {i \in 1..n : s[i] \in Others}

\* Words are such a sequence.
LEMMA PlainIsPlain ==
    ASSUME NEW s \in Seq(Plain)
    PROVE  IsPlain(s, Len(s))
<1>1. /\ \A i \in DOMAIN s : i \in Letters(s) <=> s[i] \in Others
      /\ \A i \in DOMAIN s : s[i] \in Others \/ s[i] = "_" \/ s[i] = "."
      /\ Letters(s) \subseteq DOMAIN s
      /\ DOMAIN s = 1..Len(s) /\ Len(s) \in Nat
  BY PlainLetters
<1> QED
  BY <1>1 DEF IsPlain

\* The same as Adjacent, of any two places.
Empty(s, i, j) == \A k \in Nat : i < k /\ k < j => s[k] \notin Others

\* What is between two letters leaves one separator, a dot if there was one.
LEMMA SeparatorIsKept ==
    ASSUME NEW s, NEW n, IsPlain(s, n), NEW sep, NEW marks, Joins(s, sep, marks),
           NEW i \in 1..n, NEW j \in 1..n, i + 1 < j, s[i] \in Others, s[j] \in Others,
           Empty(s, i, j)
    PROVE  \E k \in Kept(s, sep, marks) :
              i < k /\ k < j /\ (Dotted(s, i, j) => s[k] = ".")
<1>0. n \in Nat /\ i \in Nat /\ j \in Nat /\ 1 <= i /\ j <= n
  <2>1. n \in Nat
    BY DEF IsPlain
  <2> QED
    BY <2>1
<1>1. /\ DOMAIN s = 1..n /\ Len(s) = n
      /\ \A k \in 1..n : s[k] \in Others \/ s[k] = "_" \/ s[k] = "."
  BY DEF IsPlain
<1>2. \A k \in Nat : i < k /\ k < j => k \in 1..n /\ (s[k] = "_" \/ s[k] = ".")
  <2>1. \A k \in Nat : i < k /\ k < j => k \in 1..n
    BY <1>0
  <2> QED
    BY <1>1, <2>1 DEF Empty
<1>3. i + 1 \in Nat /\ i < i + 1 /\ i + 1 < j /\ i + 1 \in 1..n /\ i + 1 > 1 /\ (i + 1) - 1 = i
  BY <1>0
<1>4. ASSUME Dotted(s, i, j) PROVE \E k \in Nat : i < k /\ k < j /\ s[k] = "."
  <2>1. PICK k \in i..j : s[k] = "."
    BY <1>4 DEF Dotted
  <2>2. k # i /\ k # j
    BY <2>1, Alphabet
  <2>3. k \in Nat /\ i < k /\ k < j
    BY <1>0, <2>2
  <2> QED
    BY <2>1, <2>3
<1>5. ASSUME s[i] \notin marks \cup {sep}, s[j] \notin marks \cup {sep},
             \A k \in Nat : i < k /\ k < j => s[k] = sep
      PROVE  i + 1 \in Kept(s, sep, marks)
  <2>1. j \in ((i + 1) + 1)..n
    BY <1>0
  <2>2. \A k \in ((i + 1) + 1)..(j - 1) : s[k] = sep
    <3>1. \A k \in ((i + 1) + 1)..(j - 1) : k \in Nat /\ i < k /\ k < j
      BY <1>0
    <3> QED
      BY <1>5, <3>1
  <2> QED
    BY <1>1, <1>3, <1>5, <2>1, <2>2 DEF Kept, Separates
<1>6. CASE JoinsWords(sep, marks)
  <2>1. CASE \E k \in Nat : i < k /\ k < j /\ s[k] = "."
    <3>1. PICK k \in Nat : i < k /\ k < j /\ s[k] = "."
      BY <2>1
    <3>2. k \in Kept(s, sep, marks)
      BY <1>1, <1>2, <1>6, <3>1 DEF JoinsWords, Kept
    <3> QED
      BY <3>1, <3>2
  <2>2. CASE ~ \E k \in Nat : i < k /\ k < j /\ s[k] = "."
    <3>1. \A k \in Nat : i < k /\ k < j => s[k] = "_"
      BY <1>2, <2>2
    <3>2. i + 1 \in Kept(s, sep, marks)
      <4>1. s[i] # "_" /\ s[i] # "." /\ s[j] # "_" /\ s[j] # "."
        BY Alphabet
      <4> QED
        BY <1>5, <1>6, <3>1, <4>1 DEF JoinsWords
    <3>3. ~Dotted(s, i, j)
      BY <1>4, <2>2
    <3> QED
      BY <1>3, <3>2, <3>3
  <2> QED
    BY <2>1, <2>2
<1>7. CASE JoinsParts(s, sep, marks)
  <2>1. CASE s[i + 1] = "_"
    <3>1. i + 1 \in Kept(s, sep, marks)
      BY <1>1, <1>3, <1>7, <2>1 DEF JoinsParts, Kept
    <3>2. s[(i + 1) + 1] \in Others
      BY <1>1, <1>3, <1>7, <2>1 DEF JoinsParts, Between
    <3>3. ~((i + 1) + 1 < j)
      <4> SUFFICES ASSUME (i + 1) + 1 < j PROVE FALSE
        OBVIOUS
      <4>1. (i + 1) + 1 \in Nat /\ i < (i + 1) + 1
        BY <1>0
      <4> QED
        BY <3>2, <4>1 DEF Empty
    <3>4. ~Dotted(s, i, j)
      <4>1. \A k \in Nat : i < k /\ k < j => k = i + 1
        BY <1>0, <3>3
      <4> QED
        BY <1>4, <2>1, <4>1
    <3> QED
      BY <1>3, <3>1, <3>4
  <2>2. CASE s[i + 1] = "."
    <3>1. ASSUME NEW k \in Nat, i < k, k < j, s[k] = "_" PROVE FALSE
      <4>1. k \in 1..n /\ k # i + 1
        BY <1>2, <2>2, <3>1
      <4>2. s[k - 1] \in Others
        BY <1>1, <1>7, <3>1, <4>1 DEF JoinsParts, Between
      <4>3. k - 1 \in Nat /\ i < k - 1 /\ k - 1 < j
        <5>1. k # i + 1
          BY <4>1
        <5>2. \A a, b, c \in Nat : a < b /\ b < c /\ b # a + 1
                 => b - 1 \in Nat /\ a < b - 1 /\ b - 1 < c
          OBVIOUS
        <5> QED
          BY <1>0, <3>1, <5>1, <5>2
      <4> QED
        BY <4>2, <4>3 DEF Empty
    <3>2. \A k \in Nat : i < k /\ k < j => s[k] = "."
      BY <1>2, <3>1
    <3>3. i + 1 \in Kept(s, sep, marks)
      <4>1. s[i] # "_" /\ s[i] # "." /\ s[j] # "_" /\ s[j] # "."
        BY Alphabet
      <4> QED
        BY <1>5, <1>7, <3>2, <4>1 DEF JoinsParts
    <3> QED
      BY <1>3, <2>2, <3>3
  <2> QED
    BY <1>2, <1>3, <2>1, <2>2
<1> QED
  BY <1>6, <1>7 DEF Joins

\* k is kept between two letters, the one before it and the next that is kept.
StandsBetween(s, n, K, k, j) ==
    /\ k - 1 \in K /\ j \in K /\ k < j
    /\ s[k - 1] \in Others /\ s[j] \in Others
    /\ \A l \in K : ~(k - 1 < l /\ l < k) /\ ~(k < l /\ l < j)

\* A separator that is kept stands between two letters, ...
LEMMA KeptSeparator ==
    ASSUME NEW s, NEW n, IsPlain(s, n), NEW sep, NEW marks, Joins(s, sep, marks),
           NEW k \in Kept(s, sep, marks), s[k] = sep
    PROVE  \E j : StandsBetween(s, n, Kept(s, sep, marks), k, j)
<1>1. /\ DOMAIN s = 1..n /\ Len(s) = n
      /\ \A l \in 1..n : s[l] \in Others \/ s[l] = "_" \/ s[l] = "."
  BY DEF IsPlain
<1>2. n \in Nat /\ k \in 1..n
  <2>1. n \in Nat
    BY DEF IsPlain
  <2> QED
    BY <1>1, <2>1 DEF Kept
<1>3. Separates(s, k, sep, marks)
  BY DEF Kept
<1>4. k > 1 /\ s[k - 1] \notin marks \cup {sep}
  BY <1>3 DEF Separates
<1>5. PICK j \in (k + 1)..n : /\ s[j] \notin marks \cup {sep}
                              /\ \A l \in (k + 1)..(j - 1) : s[l] = sep
  BY <1>1, <1>3 DEF Separates
<1>6. j \in 1..n /\ k < j /\ k - 1 \in 1..n /\ (k + 1) - 1 = k /\ j - 1 \in 1..n
  BY <1>2, <1>4
<1>7. ASSUME NEW l \in Nat, k < l, l < j PROVE s[l] = sep
  <2>1. l \in (k + 1)..(j - 1)
    <3>1. k \in Nat /\ j \in Nat
      BY <1>2, <1>6
    <3>2. \A a, b, c \in Nat : a < b /\ b < c => b \in (a + 1)..(c - 1)
      OBVIOUS
    <3> QED
      BY <1>7, <3>1, <3>2
  <2> QED
    BY <1>5, <2>1
<1>8. s[k - 1] \in Others /\ s[j] \in Others
  <2>1. CASE JoinsWords(sep, marks)
    BY <1>1, <1>4, <1>5, <1>6, <2>1 DEF JoinsWords
  <2>2. CASE JoinsParts(s, sep, marks)
    <3>1. s[k - 1] # "_"
      <4>1. s[k - 1] = "_" => s[(k - 1) + 1] \in Others
        BY <1>1, <1>6, <2>2 DEF JoinsParts, Between
      <4>2. (k - 1) + 1 = k
        BY <1>2
      <4> QED
        BY <2>2, <4>1, <4>2, Alphabet DEF JoinsParts
    <3>2. s[j] # "_"
      <4>1. s[j] = "_" => s[j - 1] \in Others
        BY <1>1, <1>6, <2>2 DEF JoinsParts, Between
      <4>2. s[j - 1] = sep
        <5>1. j - 1 = k \/ (j - 1 \in Nat /\ k < j - 1 /\ j - 1 < j)
          BY <1>2, <1>6
        <5> QED
          BY <1>7, <5>1
      <4> QED
        BY <2>2, <4>1, <4>2, Alphabet DEF JoinsParts
    <3> QED
      BY <1>1, <1>4, <1>5, <1>6, <2>2, <3>1, <3>2 DEF JoinsParts
  <2> QED
    BY <2>1, <2>2 DEF Joins
<1>9. k - 1 \in Kept(s, sep, marks) /\ j \in Kept(s, sep, marks)
  BY <1>1, <1>4, <1>5, <1>6 DEF Kept
<1>10. ASSUME NEW l \in Kept(s, sep, marks), k < l, l < j PROVE FALSE
  <2>1. l \in 1..n
    BY <1>1 DEF Kept
  <2>2. s[l] = sep
    BY <1>2, <1>7, <1>10, <2>1
  <2>3. s[l - 1] # sep
    BY <2>2 DEF Kept, Separates
  <2>4. l - 1 = k \/ (l - 1 \in Nat /\ k < l - 1 /\ l - 1 < j)
    BY <1>2, <1>6, <1>10, <2>1
  <2> QED
    BY <1>7, <2>3, <2>4
<1>11. ASSUME NEW l \in Kept(s, sep, marks), k - 1 < l, l < k PROVE FALSE
  <2>1. l \in 1..n
    BY <1>1 DEF Kept
  <2> QED
    BY <1>2, <1>11, <2>1
<1> QED
  BY <1>6, <1>8, <1>9, <1>10, <1>11 DEF StandsBetween

\* ... and so does what already did when the parts are joined.
LEMMA KeptWordSeparator ==
    ASSUME NEW s, NEW n, IsPlain(s, n), NEW sep, NEW marks, JoinsParts(s, sep, marks),
           NEW mark, Between(s, mark), NEW k \in Kept(s, sep, marks), s[k] = mark
    PROVE  \E j : StandsBetween(s, n, Kept(s, sep, marks), k, j)
<1>1. DOMAIN s = 1..n /\ Len(s) = n
  BY DEF IsPlain
<1>2. n \in Nat /\ k \in 1..n
  <2>1. n \in Nat
    BY DEF IsPlain
  <2> QED
    BY <1>1, <2>1 DEF Kept
<1>3. k > 1 /\ k < n /\ s[k - 1] \in Others /\ s[k + 1] \in Others
  BY <1>1, <1>2 DEF Between
<1>4. k - 1 \in 1..n /\ k + 1 \in 1..n /\ k < k + 1
  <2>1. \A a, b \in Nat : a > 1 /\ a < b => a - 1 \in 1..b /\ a + 1 \in 1..b /\ a < a + 1
    OBVIOUS
  <2>2. k \in Nat
    BY <1>2
  <2> QED
    BY <1>2, <1>3, <2>1, <2>2
<1>5. k - 1 \in Kept(s, sep, marks) /\ k + 1 \in Kept(s, sep, marks)
  BY <1>1, <1>3, <1>4, Alphabet DEF JoinsParts, Kept
<1>6. ASSUME NEW l \in Kept(s, sep, marks)
      PROVE  ~(k - 1 < l /\ l < k) /\ ~(k < l /\ l < k + 1)
  <2>1. l \in 1..n
    BY <1>1 DEF Kept
  <2>2. \A a, b \in Nat : ~(a - 1 < b /\ b < a) /\ ~(a < b /\ b < a + 1)
    OBVIOUS
  <2>3. k \in Nat /\ l \in Nat
    BY <1>2, <2>1
  <2> QED
    BY <2>2, <2>3
<1> QED
  BY <1>3, <1>4, <1>5, <1>6 DEF StandsBetween

\* After a join, its separator stands between two letters, and so does "_".
LEMMA JoinedBetween ==
    ASSUME NEW s \in Seq(Plain), NEW sep, NEW marks, Joins(s, sep, marks)
    PROVE  /\ Between(Joined(s, sep, marks), sep)
           /\ JoinsParts(s, sep, marks) => Between(Joined(s, sep, marks), "_")
<1> DEFINE r == Joined(s, sep, marks)
           K == Kept(s, sep, marks)
<1>1. r \in Seq(Plain)
  BY JoinedKeeps
<1>2. PICK at : Keeps(at, s, K, r)
  BY JoinedKeeps
<1>3. K \in SUBSET DOMAIN s
  BY DEF Kept
<1>4. IsPlain(s, Len(s)) /\ IsPlain(r, Len(r))
  BY <1>1, PlainIsPlain
<1> HIDE DEF r
<1>5. ASSUME NEW p \in DOMAIN r, NEW k \in K, at[k] = p,
             \E j : StandsBetween(s, Len(s), K, k, j)
      PROVE  p > 1 /\ p < Len(r) /\ r[p - 1] \in Others /\ r[p + 1] \in Others
  <2>1. PICK j : StandsBetween(s, Len(s), K, k, j)
    BY <1>5
  <2> HIDE DEF K
  <2>2. /\ k - 1 \in K /\ j \in K /\ k < j
        /\ s[k - 1] \in Others /\ s[j] \in Others
        /\ \A l \in K : ~(k - 1 < l /\ l < k)
        /\ \A l \in K : ~(k < l /\ l < j)
    BY <2>1 DEF StandsBetween
  <2>3. k - 1 < k
    BY <1>3
  <2>4. at[j] = at[k] + 1
    BY <1>1, <1>2, <1>3, <2>2, KeptNeighbours
  <2>5. at[k] = at[k - 1] + 1
    BY <1>1, <1>2, <1>3, <2>2, <2>3, KeptNeighbours
  <2>6. /\ at[k - 1] \in DOMAIN r /\ at[j] \in DOMAIN r
        /\ r[at[k - 1]] = s[k - 1] /\ r[at[j]] = s[j]
    BY <1>2, <2>2 DEF Keeps
  <2>7. DOMAIN r = 1..Len(r) /\ Len(r) \in Nat
    BY <1>1
  <2>8. at[k - 1] = p - 1 /\ at[j] = p + 1
    BY <1>5, <2>4, <2>5, <2>6, <2>7
  <2>9. p > 1 /\ p < Len(r)
    BY <2>6, <2>7, <2>8
  <2> QED
    BY <2>2, <2>6, <2>8, <2>9
<1>6. ASSUME NEW p \in DOMAIN r PROVE \E k \in K : at[k] = p /\ r[p] = s[k]
  BY <1>2 DEF Keeps
<1>7. Between(r, sep)
  <2> SUFFICES ASSUME NEW p \in DOMAIN r, r[p] = sep
               PROVE  p > 1 /\ p < Len(r) /\ r[p - 1] \in Others /\ r[p + 1] \in Others
    BY DEF Between
  <2>1. PICK k \in K : at[k] = p /\ r[p] = s[k]
    BY <1>6
  <2>2. \E j : StandsBetween(s, Len(s), K, k, j)
    BY <1>4, <2>1, KeptSeparator
  <2> QED
    BY <1>5, <2>1, <2>2
<1>8. ASSUME JoinsParts(s, sep, marks) PROVE Between(r, "_")
  <2> SUFFICES ASSUME NEW p \in DOMAIN r, r[p] = "_"
               PROVE  p > 1 /\ p < Len(r) /\ r[p - 1] \in Others /\ r[p + 1] \in Others
    BY DEF Between
  <2>1. PICK k \in K : at[k] = p /\ r[p] = s[k]
    BY <1>6
  <2>2. \E j : StandsBetween(s, Len(s), K, k, j)
    <3>1. Between(s, "_")
      BY <1>8 DEF JoinsParts
    <3> QED
      BY <1>4, <1>8, <2>1, <3>1, KeptWordSeparator
  <2> QED
    BY <1>5, <2>1, <2>2
<1> QED
  BY <1>7, <1>8 DEF r

\* A join leaves the words as they are.
LEMMA JoinedIsSame ==
    ASSUME NEW s \in Seq(Plain), NEW sep, NEW marks, Joins(s, sep, marks)
    PROVE  SameWords(s, Joined(s, sep, marks))
<1> DEFINE r == Joined(s, sep, marks)
           K == Kept(s, sep, marks)
           n == Len(s)
<1>1. r \in Seq(Plain)
  BY JoinedKeeps
<1>2. PICK at : Keeps(at, s, K, r)
  BY JoinedKeeps
<1>3. K \in SUBSET DOMAIN s
  BY DEF Kept
<1>4. IsPlain(s, n) /\ IsPlain(r, Len(r))
  BY <1>1, PlainIsPlain
<1>5. sep \notin Others
  BY Alphabet DEF Joins, JoinsWords, JoinsParts
<1>6. Letters(s) \subseteq K
  <2>1. \A i \in Letters(s) : i \in DOMAIN s /\ s[i] \in Others
    BY <1>4 DEF IsPlain
  <2> QED
    BY <1>5, <2>1 DEF Kept
<1> HIDE DEF K, r, n
<1>7. /\ \A k \in K : at[k] \in DOMAIN r /\ r[at[k]] = s[k]
      /\ \A p \in DOMAIN r : \E k \in K : at[k] = p
  BY <1>2 DEF Keeps
<1>8. /\ \A k \in K : k \in Nat /\ at[k] \in Nat
      /\ \A p \in DOMAIN r : p \in Nat
  <2>1. \A p \in DOMAIN r : p \in Nat
    BY <1>1
  <2>2. \A k \in DOMAIN s : k \in Nat
    OBVIOUS
  <2> QED
    BY <1>3, <1>7, <2>1, <2>2
<1>9. \A i, j \in K : i < j <=> at[i] < at[j]
  <2>1. \A i, j \in K : i < j => at[i] < at[j]
    BY <1>2 DEF Keeps
  <2>2. \A i, j \in K : i = j \/ i < j \/ j < i
    BY <1>8
  <2> QED
    BY <1>8, <2>1, <2>2
<1>10. /\ \A k \in K : k \in Letters(s) <=> s[k] \in Others
       /\ \A p \in DOMAIN r : p \in Letters(r) <=> r[p] \in Others
       /\ Letters(r) \subseteq DOMAIN r
  BY <1>1, <1>3, PlainLetters
<1>11. \A k \in K : k \in Letters(s) <=> at[k] \in Letters(r)
  BY <1>7, <1>10
<1> DEFINE f == [i \in Letters(s) |-> at[i]]
<1>12. \A i \in Letters(s) : f[i] = at[i]
  OBVIOUS
<1>13. f \in [Letters(s) -> Letters(r)]
  BY <1>6, <1>11
<1> HIDE DEF f
<1>14. Reads(f, s, r)
  <2>1. \A p \in Letters(r) : \E i \in Letters(s) : f[i] = p
    BY <1>7, <1>10, <1>11, <1>12
  <2>2. \A i \in Letters(s) : Small(s[i]) = Small(r[f[i]])
    BY <1>6, <1>7, <1>12
  <2>3. \A i, j \in Letters(s) : i < j => f[i] < f[j]
    BY <1>6, <1>9, <1>12
  <2> QED
    BY <1>13, <2>1, <2>2, <2>3 DEF Reads
<1>17. ASSUME NEW i \in K, NEW j \in K, i < j
      PROVE  /\ (\A k \in K : ~(i < k /\ k < j)) => at[j] = at[i] + 1
             /\ (\E k \in K : i < k /\ k < j) => at[j] > at[i] + 1
  BY <1>1, <1>2, <1>3, <1>17, KeptNeighbours
<1>15. ASSUME NEW i \in Letters(s), NEW j \in Letters(s), Adjacent(s, i, j)
       PROVE  /\ Dotted(s, i, j) <=> Dotted(r, at[i], at[j])
              /\ Parted(s, i, j) <=> Parted(r, at[i], at[j])
  <2>1. /\ i \in K /\ j \in K /\ i \in Nat /\ j \in Nat /\ i < j
        /\ s[i] \in Others /\ s[j] \in Others
    BY <1>6, <1>8, <1>10, <1>15 DEF Adjacent
  <2>2. i \in 1..n /\ j \in 1..n
    BY <1>3, <1>4, <2>1 DEF IsPlain
  <2>3. Empty(s, i, j)
    <3>1. \A k \in Nat : i < k /\ k < j => k \in 1..n /\ k \notin Letters(s)
      <4>1. \A k \in Nat : i < k /\ k < j => k \in (i + 1)..(j - 1)
        BY <2>1
      <4>2. \A k \in Nat : i < k /\ k < j => k \notin Letters(s)
        BY <1>15, <4>1 DEF Adjacent
      <4>3. n \in Nat
        BY <1>4 DEF IsPlain
      <4>4. \A k \in Nat : i < k /\ k < j => k \in 1..n
        BY <2>1, <2>2, <4>3
      <4> QED
        BY <4>2, <4>4
    <3>2. \A k \in 1..n : s[k] \in Others => k \in Letters(s)
      BY <1>4 DEF IsPlain
    <3> QED
      BY <3>1, <3>2 DEF Empty
  <2>4. ASSUME i + 1 < j
        PROVE  \E k \in K : i < k /\ k < j /\ (Dotted(s, i, j) => s[k] = ".")
    BY <1>4, <2>1, <2>2, <2>3, <2>4, SeparatorIsKept DEF K
  <2>5. ASSUME Dotted(s, i, j) PROVE Dotted(r, at[i], at[j])
    <3>1. PICK k \in i..j : s[k] = "."
      BY <2>5 DEF Dotted
    <3>2. k # i /\ k # j
      BY <2>1, <3>1, Alphabet
    <3>3. i + 1 < j
      BY <2>1, <3>2
    <3>4. PICK l \in K : i < l /\ l < j /\ s[l] = "."
      BY <2>4, <2>5, <3>3
    <3>5. r[at[l]] = "." /\ at[i] < at[l] /\ at[l] < at[j]
      BY <1>7, <1>9, <2>1, <3>4
    <3>6. at[l] \in at[i]..at[j]
      BY <1>8, <2>1, <3>5
    <3> QED
      BY <3>5, <3>6 DEF Dotted
  <2>6. ASSUME Dotted(r, at[i], at[j]) PROVE Dotted(s, i, j)
    <3>1. PICK p \in at[i]..at[j] : r[p] = "."
      BY <2>6 DEF Dotted
    <3>2. p \in DOMAIN r
      <4>1. at[i] \in 1..Len(r) /\ at[j] \in 1..Len(r) /\ Len(r) \in Nat /\ DOMAIN r = 1..Len(r)
        <5>1. Len(r) \in Nat /\ DOMAIN r = 1..Len(r)
          BY <1>1
        <5> QED
          BY <1>7, <2>1, <5>1
      <4> QED
        BY <3>1, <4>1
    <3>3. PICK k \in K : at[k] = p
      BY <1>7, <3>2
    <3>4. s[k] = "."
      BY <1>7, <3>1, <3>3
    <3>5. ~(k < i) /\ ~(j < k)
      BY <1>8, <1>9, <2>1, <3>1, <3>3
    <3>6. k \in i..j
      BY <1>8, <2>1, <3>5
    <3> QED
      BY <3>4, <3>6 DEF Dotted
  <2>7. ~IsUpper(s[j]) /\ ~IsUpper(r[at[j]])
    BY <1>7, <2>1, Alphabet
  <2>8. at[j] > at[i] + 1 <=> j > i + 1
    <3>1. CASE j = i + 1
      <4>1. \A k \in K : ~(i < k /\ k < j)
        BY <1>8, <2>1, <3>1
      <4>2. at[j] = at[i] + 1
        BY <1>17, <2>1, <4>1
      <4> QED
        BY <1>8, <2>1, <3>1, <4>2
    <3>2. CASE j # i + 1
      <4>1. i + 1 < j
        BY <2>1, <3>2
      <4>2. \E k \in K : i < k /\ k < j
        BY <2>4, <4>1
      <4>3. at[j] > at[i] + 1
        BY <1>17, <2>1, <4>2
      <4> QED
        BY <4>1, <4>3
    <3> QED
      BY <3>1, <3>2
  <2> QED
    BY <2>5, <2>6, <2>7, <2>8 DEF Parted
<1>16. SameGaps(f, s, r)
  BY <1>12, <1>15 DEF SameGaps
<1> QED
  BY <1>14, <1>16, SameWordsReads DEF r
----------------------------------------------------------------------------
\* What both joins leave: every separator is between two letters.
Canonical(s) == Between(s, "_") /\ Between(s, ".")

\* What is no letter has one on either side.
LEMMA CanonicalShape ==
    ASSUME NEW s \in Seq(Plain), Canonical(s), NEW k \in DOMAIN s, k \notin Letters(s)
    PROVE  k > 1 /\ k < Len(s) /\ k - 1 \in Letters(s) /\ k + 1 \in Letters(s)
<1>1. s[k] = "_" \/ s[k] = "."
  BY PlainLetters
<1>2. k > 1 /\ k < Len(s) /\ s[k - 1] \in Others /\ s[k + 1] \in Others
  BY <1>1 DEF Canonical, Between
<1>3. k - 1 \in DOMAIN s /\ k + 1 \in DOMAIN s
  <2>1. DOMAIN s = 1..Len(s) /\ Len(s) \in Nat
    OBVIOUS
  <2>2. k \in Nat
    BY <2>1
  <2>3. \A a, b \in Nat : a > 1 /\ a < b => a - 1 \in 1..b /\ a + 1 \in 1..b
    OBVIOUS
  <2> QED
    BY <1>2, <2>1, <2>2, <2>3
<1> QED
  BY <1>2, <1>3, PlainLetters

\* The next letter is the next place or the one after it, ...
LEMMA CanonicalNext ==
    ASSUME NEW s \in Seq(Plain), Canonical(s),
           NEW i \in Letters(s), NEW j \in Letters(s), Adjacent(s, i, j)
    PROVE  j = i + 1 \/ j = i + 2
<1>1. /\ Letters(s) \subseteq DOMAIN s
      /\ DOMAIN s = 1..Len(s) /\ Len(s) \in Nat
  BY PlainLetters
<1>2. i \in Nat /\ j \in Nat /\ i \in 1..Len(s) /\ j \in 1..Len(s)
  BY <1>1
<1>3. i < j
  BY DEF Adjacent
<1>4. ASSUME i + 2 < j PROVE FALSE
  <2>1. i + 1 \in 1..Len(s) /\ i + 1 \in (i + 1)..(j - 1) /\ (i + 1) + 1 \in (i + 1)..(j - 1)
    BY <1>1, <1>2, <1>4
  <2>2. i + 1 \notin Letters(s) /\ (i + 1) + 1 \notin Letters(s)
    BY <2>1 DEF Adjacent
  <2> QED
    BY <1>1, <2>1, <2>2, CanonicalShape
<1> QED
  BY <1>2, <1>3, <1>4

\* ... and every letter but the first follows one.
LEMMA CanonicalPrevious ==
    ASSUME NEW s \in Seq(Plain), Canonical(s), NEW i \in Letters(s), i > 1
    PROVE  \E h \in Letters(s) : Adjacent(s, h, i)
<1>1. /\ Letters(s) \subseteq DOMAIN s
      /\ DOMAIN s = 1..Len(s) /\ Len(s) \in Nat
  BY PlainLetters
<1>2. i \in Nat /\ i \in 1..Len(s) /\ i - 1 \in DOMAIN s
  BY <1>1
<1>3. CASE i - 1 \in Letters(s)
  <2>1. (i - 1) < i /\ ((i - 1) + 1)..(i - 1) = {}
    BY <1>2
  <2> QED
    BY <1>3, <2>1 DEF Adjacent
<1>4. CASE i - 1 \notin Letters(s)
  <2>1. (i - 1) - 1 \in Letters(s)
    BY <1>2, <1>4, CanonicalShape
  <2>2. (i - 1) - 1 < i /\ (((i - 1) - 1) + 1)..(i - 1) = {i - 1}
    BY <1>2
  <2> QED
    BY <1>4, <2>1, <2>2 DEF Adjacent
<1> QED
  BY <1>3, <1>4

\* Letters of canonical names that are read as one another have one place.
LEMMA CanonicalPlaces ==
    ASSUME NEW s \in Seq(Plain), NEW t \in Seq(Plain), Canonical(s), Canonical(t),
           NEW at, Reads(at, s, t), SameGaps(at, s, t)
    PROVE  \A i \in Letters(s) : at[i] = i
<1> DEFINE Bad == {i \in Letters(s) : at[i] # i}
<1> SUFFICES ASSUME Bad # {} PROVE FALSE
  OBVIOUS
<1>1. \A i \in Letters(s) : i \in Nat /\ i \in 1..Len(s) /\ ~IsUpper(s[i])
  <2>1. /\ Letters(s) \subseteq DOMAIN s /\ DOMAIN s = 1..Len(s) /\ Len(s) \in Nat
        /\ \A i \in DOMAIN s : ~IsUpper(s[i])
    BY PlainLetters
  <2> QED
    BY <2>1
<1>2. \A i \in Letters(t) : i \in Nat /\ i \in 1..Len(t) /\ i \in DOMAIN t /\ ~IsUpper(t[i])
  <2>1. /\ Letters(t) \subseteq DOMAIN t /\ DOMAIN t = 1..Len(t) /\ Len(t) \in Nat
        /\ \A i \in DOMAIN t : ~IsUpper(t[i])
    BY PlainLetters
  <2> QED
    BY <2>1
<1>3. Bad \subseteq Nat
  BY <1>1
<1>4. PICK i \in Bad : \A h \in Bad : i <= h
  BY <1>3, LeastNat
<1>5. /\ \A h \in Letters(s) : at[h] \in Letters(t)
      /\ \A p \in Letters(t) : \E h \in Letters(s) : at[h] = p
      /\ \A h, j \in Letters(s) : h < j => at[h] < at[j]
  BY DEF Reads
<1>6. /\ i \in Letters(s) /\ at[i] # i /\ i \in Nat /\ i >= 1
      /\ at[i] \in Letters(t) /\ at[i] \in Nat /\ at[i] >= 1
  BY <1>1, <1>2, <1>5
<1>7. CASE i = 1
  <2>1. 1 \in DOMAIN t
    BY <1>2, <1>6
  <2>2. 1 \in Letters(t)
    BY <2>1, CanonicalShape
  <2>3. PICK h \in Letters(s) : at[h] = 1
    BY <1>5, <2>2
  <2>4. h # 1 /\ h \in Nat /\ h >= 1
    BY <1>1, <1>6, <1>7, <2>3
  <2>5. at[i] < at[h]
    BY <1>5, <1>6, <1>7, <2>4
  <2> QED
    BY <1>6, <2>3, <2>5
<1>8. CASE i > 1
  <2>1. PICK h \in Letters(s) : Adjacent(s, h, i)
    BY <1>6, <1>8, CanonicalPrevious
  <2>2. h < i /\ h \in Nat
    BY <1>1, <2>1 DEF Adjacent
  <2>3. at[h] = h
    BY <1>4, <1>6, <2>2
  <2>4. h \in Letters(t)
    BY <1>5, <2>3
  <2>5. Plain \subseteq Chars
    BY Alphabet
  <2>6. s \in Seq(Chars) /\ t \in Seq(Chars)
    BY <2>5
  <2>7. Adjacent(t, at[h], at[i])
    BY <1>6, <2>1, <2>6, ReadsNeighbours
  <2>8. Parted(s, h, i) <=> Parted(t, at[h], at[i])
    BY <1>6, <2>1 DEF SameGaps
  <2>9. i > h + 1 <=> at[i] > h + 1
    BY <1>1, <1>2, <1>6, <2>3, <2>8 DEF Parted
  <2>10. i = h + 1 \/ i = h + 2
    BY <1>6, <2>1, CanonicalNext
  <2>11. at[i] = h + 1 \/ at[i] = h + 2
    BY <1>6, <2>3, <2>4, <2>7, CanonicalNext
  <2> QED
    BY <1>6, <2>2, <2>9, <2>10, <2>11
<1> QED
  BY <1>6, <1>7, <1>8

\* The last place has a letter.
LEMMA CanonicalEnds ==
    ASSUME NEW s \in Seq(Plain), Canonical(s)
    PROVE  Len(s) = 0 \/ Len(s) \in Letters(s)
<1>1. DOMAIN s = 1..Len(s) /\ Len(s) \in Nat
  OBVIOUS
<1> SUFFICES ASSUME Len(s) # 0, Len(s) \notin Letters(s) PROVE FALSE
  OBVIOUS
<1>2. Len(s) \in DOMAIN s
  BY <1>1
<1>3. Len(s) < Len(s)
  BY <1>2, CanonicalShape
<1> QED
  BY <1>1, <1>3

\* A separator is a dot if it is one to the letters beside it.
LEMMA CanonicalDot ==
    ASSUME NEW s \in Seq(Plain), Canonical(s), NEW k \in DOMAIN s, k \notin Letters(s)
    PROVE  /\ k - 1 \in Letters(s) /\ k + 1 \in Letters(s)
           /\ Adjacent(s, k - 1, k + 1)
           /\ s[k] = "." <=> Dotted(s, k - 1, k + 1)
           /\ s[k] = "_" \/ s[k] = "."
<1>1. k \in Nat /\ k - 1 \in Letters(s) /\ k + 1 \in Letters(s)
  BY CanonicalShape
<1>2. Letters(s) \subseteq DOMAIN s
  BY DEF Letters
<1>3. s[k - 1] \in Others /\ s[k + 1] \in Others /\ (s[k] = "_" \/ s[k] = ".")
  BY <1>1, <1>2, PlainLetters
<1>4. k - 1 < k + 1 /\ ((k - 1) + 1)..((k + 1) - 1) = {k}
  BY <1>1
<1>5. Adjacent(s, k - 1, k + 1)
  BY <1>4 DEF Adjacent
<1>6. k \in (k - 1)..(k + 1) /\ \A l \in (k - 1)..(k + 1) : l = k - 1 \/ l = k \/ l = k + 1
  BY <1>1
<1>7. s[k - 1] # "." /\ s[k + 1] # "."
  BY <1>3, Alphabet
<1>8. s[k] = "." <=> Dotted(s, k - 1, k + 1)
  BY <1>6, <1>7 DEF Dotted
<1> QED
  BY <1>1, <1>3, <1>5, <1>8

\* There is one canonical spelling of the same words.
LEMMA CanonicalIsUnique ==
    ASSUME NEW s \in Seq(Plain), NEW t \in Seq(Plain), Canonical(s), Canonical(t),
           SameWords(s, t)
    PROVE  s = t
<1>1. PICK at : Reads(at, s, t) /\ SameGaps(at, s, t)
  BY SameWordsReads
<1>2. \A i \in Letters(s) : at[i] = i
  BY <1>1, CanonicalPlaces
<1>3. Letters(s) = Letters(t)
  <2>1. /\ \A i \in Letters(s) : at[i] \in Letters(t)
        /\ \A j \in Letters(t) : \E i \in Letters(s) : at[i] = j
    BY <1>1 DEF Reads
  <2>2. \A i \in Letters(s) : i \in Letters(t)
    BY <1>2, <2>1, Zenon
  <2>3. ASSUME NEW j \in Letters(t) PROVE j \in Letters(s)
    <3>1. PICK i \in Letters(s) : at[i] = j
      BY <2>1
    <3>2. at[i] = i
      BY <1>2
    <3> QED
      BY <3>1, <3>2
  <2> QED
    BY <2>2, <2>3, Zenon
<1>4. /\ DOMAIN s = 1..Len(s) /\ Len(s) \in Nat
      /\ DOMAIN t = 1..Len(t) /\ Len(t) \in Nat
      /\ Letters(s) \subseteq DOMAIN s /\ Letters(t) \subseteq DOMAIN t
  BY PlainLetters
<1>5. Len(s) = Len(t)
  <2>1. Len(s) = 0 \/ Len(s) \in Letters(s)
    BY CanonicalEnds
  <2>2. Len(t) = 0 \/ Len(t) \in Letters(t)
    BY CanonicalEnds
  <2>3. Len(s) = 0 \/ Len(s) \in 1..Len(t)
    BY <1>3, <1>4, <2>1
  <2>4. Len(t) = 0 \/ Len(t) \in 1..Len(s)
    BY <1>3, <1>4, <2>2
  <2>5. \A a, b \in Nat : (a = 0 \/ a \in 1..b) /\ (b = 0 \/ b \in 1..a) => a = b
    OBVIOUS
  <2> QED
    BY <1>4, <2>3, <2>4, <2>5
<1>6. ASSUME NEW k \in DOMAIN s PROVE s[k] = t[k]
  <2>1. k \in DOMAIN t
    BY <1>4, <1>5
  <2>2. CASE k \in Letters(s)
    <3>1. Small(s[k]) = Small(t[k])
      BY <1>1, <1>2, <2>2 DEF Reads
    <3>2. ~IsUpper(s[k]) /\ ~IsUpper(t[k])
      BY <2>1, PlainLetters
    <3> QED
      BY <3>1, <3>2 DEF Small
  <2>3. CASE k \notin Letters(s)
    <3>1. /\ k - 1 \in Letters(s) /\ k + 1 \in Letters(s)
          /\ Adjacent(s, k - 1, k + 1)
          /\ s[k] = "." <=> Dotted(s, k - 1, k + 1)
          /\ s[k] = "_" \/ s[k] = "."
      BY <2>3, CanonicalDot
    <3>2. k \notin Letters(t)
      BY <1>3, <2>3
    <3>3. /\ t[k] = "." <=> Dotted(t, k - 1, k + 1)
          /\ t[k] = "_" \/ t[k] = "."
      BY <2>1, <3>2, CanonicalDot
    <3>4. Dotted(s, k - 1, k + 1) <=> Dotted(t, k - 1, k + 1)
      <4>1. at[k - 1] = k - 1 /\ at[k + 1] = k + 1
        BY <1>2, <3>1
      <4>2. Dotted(s, k - 1, k + 1) <=> Dotted(t, at[k - 1], at[k + 1])
        BY <1>1, <3>1 DEF SameGaps
      <4> QED
        BY <4>1, <4>2
    <3>5. s[k] = "." <=> t[k] = "."
      BY <3>1, <3>3, <3>4
    <3>6. (s[k] = "_" \/ s[k] = ".") /\ (t[k] = "_" \/ t[k] = ".")
      BY <3>1, <3>3
    <3>7. CASE s[k] = "."
      BY <3>5, <3>7
    <3>8. CASE s[k] # "."
      <4>1. s[k] = "_"
        BY <3>6, <3>8
      <4>2. t[k] = "_"
        BY <3>5, <3>6, <3>8
      <4> QED
        BY <4>1, <4>2
    <3> QED
      BY <3>7, <3>8
  <2> QED
    BY <2>2, <2>3
<1> QED
  BY <1>4, <1>5, <1>6, SeqEqual

----------------------------------------------------------------------------
\* The two joins of Semanticize.
PartsOf(m) == Joined(Joined(WordsOf(m), "_", {"."}), ".", {})

\* What semanticize makes of a name is canonical and has its words.
LEMMA PartsAreCanonical ==
    ASSUME NEW m \in Seq(Chars)
    PROVE  /\ PartsOf(m) \in Seq(Plain)
           /\ PartsOf(m) \in Seq(Chars)
           /\ Canonical(PartsOf(m))
           /\ SameWords(m, PartsOf(m))
<1> DEFINE w == WordsOf(m)
           u == Joined(w, "_", {"."})
           p == PartsOf(m)
<1>1. w \in Seq(Plain) /\ SameWords(m, w)
  BY WordsAreSame
<1>2. p = Joined(u, ".", {})
  BY DEF PartsOf
<1> HIDE DEF w, p
<1>3. Joins(w, "_", {"."})
  BY DEF Joins, JoinsWords
<1>4. u \in Seq(Plain)
  BY <1>1, JoinedKeeps
<1>5. Between(u, "_")
  BY <1>1, <1>3, JoinedBetween
<1>6. SameWords(w, u)
  BY <1>1, <1>3, JoinedIsSame
<1> HIDE DEF u
<1>7. JoinsParts(u, ".", {}) /\ Joins(u, ".", {})
  BY <1>5 DEF Joins, JoinsParts
<1>8. p \in Seq(Plain)
  BY <1>2, <1>4, JoinedKeeps
<1>9. Between(p, ".") /\ Between(p, "_")
  BY <1>2, <1>4, <1>7, JoinedBetween
<1>10. SameWords(u, p)
  BY <1>2, <1>4, <1>7, JoinedIsSame
<1>11. w \in Seq(Chars) /\ u \in Seq(Chars) /\ p \in Seq(Chars)
  <2>1. Plain \subseteq Chars
    BY Alphabet
  <2> QED
    BY <1>1, <1>4, <1>8, <2>1
<1>12. SameWords(m, u)
  BY <1>1, <1>6, <1>11, SameWordsTransitive
<1>13. SameWords(m, p)
  BY <1>10, <1>11, <1>12, SameWordsTransitive
<1> QED
  BY <1>8, <1>9, <1>11, <1>13 DEF Canonical, p

\* Names of the same words have letters, or none has.
LEMMA SameWordsLetters ==
    ASSUME NEW m, NEW n, SameWords(m, n)
    PROVE  Letters(m) = {} <=> Letters(n) = {}
<1>1. PICK at : Reads(at, m, n)
  BY SameWordsReads
<1> QED
  BY <1>1 DEF Reads

\* The fallback is for the names without letters.
LEMMA SemanticizeParts ==
    ASSUME NEW m \in Seq(Chars)
    PROVE  Semanticize(m) = IF Letters(m) = {} THEN Stripped(m) ELSE PartsOf(m)
<1> DEFINE p == PartsOf(m)
<1>1. Semanticize(m) = IF p = <<>> THEN Stripped(m) ELSE p
  BY DEF Semanticize, PartsOf, WordsOf
<1>2. p \in Seq(Plain) /\ Canonical(p) /\ SameWords(m, p)
  BY PartsAreCanonical
<1> HIDE DEF p
<1>3. Letters(m) = {} <=> Letters(p) = {}
  BY <1>2, SameWordsLetters
<1>4. Letters(p) = {} => p = <<>>
  <2>1. Letters(p) = {} => Len(p) = 0
    BY <1>2, CanonicalEnds
  <2> QED
    BY <1>2, <2>1
<1>5. p = <<>> => Letters(p) = {}
  BY DEF Letters
<1> QED
  BY <1>1, <1>3, <1>4, <1>5 DEF p

----------------------------------------------------------------------------
\* Least and greatest of some numbers up to n.
LEMMA MinMax ==
    ASSUME NEW n \in Nat, NEW T \in SUBSET (1..n), T # {}
    PROVE  /\ Min(T) \in T /\ \A i \in T : Min(T) <= i
           /\ Max(T) \in T /\ \A i \in T : i <= Max(T)
<1>1. \E a \in T : \A i \in T : a <= i
  <2>1. T \in SUBSET Nat
    OBVIOUS
  <2> QED
    BY <2>1, LeastNat
<1>2. \E b \in T : \A i \in T : b >= i
  <2> DEFINE S == {n - i : i \in T}
  <2>1. S \in SUBSET Nat /\ S # {}
    OBVIOUS
  <2>2. PICK c \in S : \A d \in S : c <= d
    BY <2>1, LeastNat
  <2>3. PICK b \in T : c = n - b
    BY <2>2
  <2>4. ASSUME NEW i \in T PROVE b >= i
    <3>1. n - b <= n - i
      BY <2>2, <2>3
    <3> QED
      BY <3>1
  <2> QED
    BY <2>4
<1>3. Min(T) \in T /\ \A i \in T : Min(T) <= i
  BY <1>1 DEF Min
<1>4. Max(T) \in T /\ \A i \in T : Max(T) >= i
  BY <1>2 DEF Max
<1> QED
  BY <1>3, <1>4

\* The places strip() leaves.
Solid(m) == {i \in DOMAIN m : m[i] # " "}

\* What is left of a name between its first and its last solid character.
LEMMA StrippedPiece ==
    ASSUME NEW m \in Seq(Chars), Solid(m) # {}
    PROVE  \E a, b \in DOMAIN m :
              /\ a <= b
              /\ m[a] # " " /\ m[b] # " "
              /\ Stripped(m) = SubSeq(m, a, b)
              /\ Stripped(m) \in Seq(Chars)
              /\ Len(Stripped(m)) = b - a + 1
              /\ \A i \in 1..(b - a + 1) : Stripped(m)[i] = m[a + i - 1]
<1> DEFINE a == Min(Solid(m))
           b == Max(Solid(m))
           n == Len(m)
<1>1. DOMAIN m = 1..Len(m) /\ Len(m) \in Nat
  OBVIOUS
<1>2. Solid(m) \in SUBSET (1..Len(m))
  BY <1>1 DEF Solid
<1>3. a \in Solid(m) /\ b \in Solid(m) /\ a <= b
  BY <1>1, <1>2, MinMax
<1>4. Stripped(m) = SubSeq(m, a, b)
  BY DEF Stripped, Solid
<1>5. a \in DOMAIN m /\ b \in DOMAIN m /\ m[a] # " " /\ m[b] # " "
  BY <1>3 DEF Solid
<1> HIDE DEF a, b
<1>6. a \in Int /\ b \in Int /\ \A i \in a..b : m[i] \in Chars
  <2>1. a \in 1..n /\ b \in 1..n /\ n \in Nat
    BY <1>1, <1>5
  <2> HIDE DEF n
  <2>2. a \in Int /\ b \in Int /\ \A i \in a..b : i \in 1..n
    BY <2>1
  <2>3. \A i \in 1..n : m[i] \in Chars
    BY DEF n
  <2> QED
    BY <2>2, <2>3
<1>7. /\ SubSeq(m, a, b) \in Seq(Chars)
      /\ Len(SubSeq(m, a, b)) = IF a <= b THEN b - a + 1 ELSE 0
      /\ \A i \in 1..(b - a + 1) : SubSeq(m, a, b)[i] = m[a + i - 1]
  BY <1>6, SubSeqProperties
<1> QED
  BY <1>3, <1>4, <1>5, <1>7

\* A name without letters is none without its margins, and has no more margins.
LEMMA StrippedName ==
    ASSUME NEW m \in Seq(Chars)
    PROVE  /\ Stripped(m) \in Seq(Chars)
           /\ Letters(m) = {} => Letters(Stripped(m)) = {}
           /\ Stripped(Stripped(m)) = Stripped(m)
<1>1. CASE Solid(m) = {}
  <2>1. Stripped(m) = <<>>
    BY <1>1 DEF Stripped, Solid
  <2>2. Solid(<<>>) = {} /\ Letters(<<>>) = {}
    BY DEF Solid, Letters
  <2>3. Stripped(<<>>) = <<>>
    BY <2>2 DEF Stripped, Solid
  <2> QED
    BY <2>1, <2>2, <2>3
<1>2. CASE Solid(m) # {}
  <2> DEFINE x == Stripped(m)
  <2>1. PICK a, b \in DOMAIN m :
            /\ a <= b
            /\ m[a] # " " /\ m[b] # " "
            /\ x \in Seq(Chars)
            /\ Len(x) = b - a + 1
            /\ \A i \in 1..(b - a + 1) : x[i] = m[a + i - 1]
    BY <1>2, StrippedPiece
  <2> HIDE DEF x
  <2> DEFINE n == Len(m)
             l == Len(x)
  <2>a. x \in Seq(Chars)
    BY <2>1
  <2>2. DOMAIN m = 1..n /\ n \in Nat
    OBVIOUS
  <2>4. DOMAIN x = 1..l /\ l \in Nat
    BY <2>a
  <2>b. l = b - a + 1 /\ a <= b
    BY <2>1
  <2>c. a \in 1..n /\ b \in 1..n
    BY <2>2
  <2> HIDE DEF n, l
  <2>3. a \in Nat /\ b \in Nat /\ a >= 1 /\ b <= n
    BY <2>2, <2>c
  <2>5. ASSUME NEW i \in DOMAIN x PROVE a + i - 1 \in DOMAIN m /\ x[i] = m[a + i - 1]
    <3>1. i \in 1..(b - a + 1)
      BY <2>4, <2>b
    <3>2. a + i - 1 \in 1..n
      <4>1. \A c, d, e, f \in Nat :
               c >= 1 /\ c <= d /\ d <= e /\ f \in 1..(d - c + 1) => c + f - 1 \in 1..e
        OBVIOUS
      <4>2. i \in Nat
        BY <2>4
      <4> QED
        BY <2>2, <2>3, <2>b, <3>1, <4>1, <4>2
    <3> QED
      BY <2>1, <2>2, <3>1, <3>2
  <2>6. Letters(m) = {} => Letters(x) = {}
    BY <2>5 DEF Letters
  <2>7. 1 \in DOMAIN x /\ Len(x) \in DOMAIN x /\ x[1] = m[a] /\ x[Len(x)] = m[b]
    <3>1. b - a + 1 \in 1..(b - a + 1) /\ 1 \in 1..(b - a + 1)
      BY <2>3, <2>b
    <3>2. a + 1 - 1 = a /\ a + (b - a + 1) - 1 = b
      BY <2>3
    <3>3. x[1] = m[a + 1 - 1] /\ x[b - a + 1] = m[a + (b - a + 1) - 1]
      BY <2>1, <3>1
    <3> QED
      BY <2>4, <2>b, <3>1, <3>2, <3>3 DEF l
  <2>8. 1 \in Solid(x) /\ Len(x) \in Solid(x) /\ Solid(x) \in SUBSET (1..Len(x))
    <3>1. x[1] # " " /\ x[Len(x)] # " "
      BY <2>1, <2>7
    <3> QED
      BY <2>4, <2>7, <3>1 DEF Solid, l
  <2>9. Min(Solid(x)) = 1 /\ Max(Solid(x)) = Len(x)
    <3>1. /\ Min(Solid(x)) \in Solid(x) /\ \A i \in Solid(x) : Min(Solid(x)) <= i
          /\ Max(Solid(x)) \in Solid(x) /\ \A i \in Solid(x) : i <= Max(Solid(x))
      BY <2>4, <2>8, MinMax DEF l
    <3> DEFINE lo == Min(Solid(x))
               hi == Max(Solid(x))
    <3>2. lo \in 1..l /\ hi \in 1..l /\ lo <= 1 /\ l <= hi
      BY <2>8, <3>1 DEF l
    <3> HIDE DEF lo, hi
    <3>3. lo = 1 /\ hi = l
      BY <2>4, <3>2
    <3> QED
      BY <3>3 DEF lo, hi, l
  <2>10. Stripped(x) = SubSeq(x, 1, Len(x))
    BY <2>8, <2>9 DEF Stripped, Solid
  <2>11. SubSeq(x, 1, Len(x)) = x
    BY <2>1, SubSeqFull
  <2> QED
    BY <2>1, <2>6, <2>10, <2>11 DEF x
<1> QED
  BY <1>1, <1>2

----------------------------------------------------------------------------
\* The canonical name has the words of the name ...
LEMMA SemanticizeKeepsWords ==
    ASSUME NEW m \in Seq(Chars)
    PROVE  /\ Semanticize(m) \in Seq(Chars)
           /\ Letters(Semanticize(m)) = {} <=> Letters(m) = {}
           /\ Letters(m) # {} => SameWords(m, Semanticize(m))
<1>1. CASE Letters(m) = {}
  BY <1>1, SemanticizeParts, StrippedName
<1>2. CASE Letters(m) # {}
  <2> DEFINE p == PartsOf(m)
  <2>1. Semanticize(m) = p
    BY <1>2, SemanticizeParts
  <2>2. p \in Seq(Chars) /\ SameWords(m, p)
    BY PartsAreCanonical
  <2> HIDE DEF p
  <2>3. Letters(m) = {} <=> Letters(p) = {}
    BY <2>2, SameWordsLetters
  <2> QED
    BY <1>2, <2>1, <2>2, <2>3
<1> QED
  BY <1>1, <1>2

\* ... and is the same for all names of these words.
LEMMA SameWordsSameName ==
    ASSUME NEW m \in Seq(Chars), NEW n \in Seq(Chars), Letters(m) # {}, SameWords(m, n)
    PROVE  Semanticize(m) = Semanticize(n)
<1> DEFINE p == PartsOf(m)
           q == PartsOf(n)
<1>1. Letters(n) # {}
  BY SameWordsLetters
<1>2. Semanticize(m) = p /\ Semanticize(n) = q
  BY <1>1, SemanticizeParts
<1>3. /\ p \in Seq(Plain) /\ p \in Seq(Chars) /\ Canonical(p) /\ SameWords(m, p)
      /\ q \in Seq(Plain) /\ q \in Seq(Chars) /\ Canonical(q) /\ SameWords(n, q)
  BY PartsAreCanonical
<1> HIDE DEF p, q
<1>4. SameWords(p, m)
  BY <1>3, SameWordsSymmetric
<1>5. SameWords(p, n)
  BY <1>3, <1>4, SameWordsTransitive
<1>6. SameWords(p, q)
  BY <1>3, <1>5, SameWordsTransitive
<1>7. p = q
  BY <1>3, <1>6, CanonicalIsUnique
<1> QED
  BY <1>2, <1>7

\* Names with a letter in them have one canonical name if and only if they have
\* the same words: whatever separates the words, whatever their capitals.
THEOREM CanonicalNames ==
    ASSUME NEW m \in Seq(Chars), NEW n \in Seq(Chars), Letters(m) # {}
    PROVE  Semanticize(m) = Semanticize(n) <=> SameWords(m, n)
<1> DEFINE p == Semanticize(m)
<1>1. p \in Seq(Chars) /\ Letters(p) # {} /\ SameWords(m, p)
  BY SemanticizeKeepsWords
<1>2. ASSUME p = Semanticize(n) PROVE SameWords(m, n)
  <2>1. Letters(n) # {} /\ SameWords(n, p)
    BY <1>1, <1>2, SemanticizeKeepsWords
  <2> HIDE DEF p
  <2>2. SameWords(p, n)
    BY <1>1, <2>1, SameWordsSymmetric
  <2> QED
    BY <1>1, <2>2, SameWordsTransitive
<1>3. ASSUME SameWords(m, n) PROVE p = Semanticize(n)
  BY <1>3, SameWordsSameName
<1> QED
  BY <1>2, <1>3

\* A canonical name is its own canonical name, with letters or without.
THEOREM CanonicalNameIsOwn ==
    ASSUME NEW m \in Seq(Chars)
    PROVE  Semanticize(Semanticize(m)) = Semanticize(m)
<1>1. CASE Letters(m) = {}
  <2> DEFINE x == Stripped(m)
  <2>1. Semanticize(m) = x
    BY <1>1, SemanticizeParts
  <2>2. x \in Seq(Chars) /\ Letters(x) = {} /\ Stripped(x) = x
    BY <1>1, StrippedName
  <2> HIDE DEF x
  <2>3. Semanticize(x) = x
    BY <2>2, SemanticizeParts
  <2> QED
    BY <2>1, <2>3
<1>2. CASE Letters(m) # {}
  <2>1. Semanticize(m) \in Seq(Chars) /\ SameWords(m, Semanticize(m))
    BY <1>2, SemanticizeKeepsWords
  <2> QED
    BY <1>2, <2>1, SameWordsSameName
<1> QED
  BY <1>1, <1>2

----------------------------------------------------------------------------
(* The database.                                                           *)

RowSet ==
    [name : Names, mesh : Meshes, semantic : {NoSemantic} \cup {Semantic[n] : n \in Names}]

\* A table holds rows whose canonical name is absent or right; there are none
\* without a table.
RowsTyped ==
    /\ DOMAIN rows \subseteq 1..MaxRows
    /\ \A i \in DOMAIN rows :
          /\ rows[i] \in RowSet
          /\ rows[i].semantic \in {NoSemantic, Semantic[rows[i].name]}
    /\ table = "none" => DOMAIN rows = {}

\* What has been done by the time a stage is reached, ...
Stages ==
    /\ pc \in {"columns", "newtable", "copy", "swap"} => table # "none"
    /\ pc \in {"newtable", "copy", "swap"} => table = "unique"
    /\ pc \in {"newtable", "copy", "swap", "backfill", "serving"} => columns = AllColumns
    /\ pc \in {"backfill", "serving"} => table = "current"

\* ... what the open transaction will commit, ...
CopyStands ==
    /\ DOMAIN copy \subseteq 1..MaxRows
    /\ pc = "swap" =>
          /\ DOMAIN copy = DOMAIN rows
          /\ \A i \in DOMAIN rows : copy[i] = Coalesced(rows[i])

\* ... and what the rows have: a mesh in today's schema, a canonical name once
\* they are filled.
RowsReady ==
    /\ table = "current" => \A i \in DOMAIN rows : rows[i].mesh # "null"
    /\ pc = "serving" => \A i \in DOMAIN rows : rows[i].semantic = Semantic[rows[i].name]

DTyped ==
    /\ pc \in {"down", "reset", "create", "columns", "newtable", "copy", "swap",
               "backfill", "serving", "failed"}
    /\ table \in Tables
    /\ columns \subseteq AllColumns
    /\ leftover \in BOOLEAN
    /\ crashes \in 0..MaxCrashes
    /\ interrupted \in BOOLEAN

DInv == DTyped /\ RowsTyped /\ Stages /\ CopyStands /\ RowsReady

----------------------------------------------------------------------------
\* COALESCE keeps the name and the canonical name of a row and gives it a mesh.
LEMMA CoalescedRow ==
    ASSUME NEW row \in RowSet
    PROVE  /\ Coalesced(row) \in RowSet
           /\ Coalesced(row).name = row.name
           /\ Coalesced(row).semantic = row.semantic
           /\ Coalesced(row).mesh # "null"
  BY DEF RowSet, Coalesced, Meshes

\* The backfill keeps name and mesh.
LEMMA FilledRow ==
    ASSUME NEW row \in RowSet, row.semantic \in {NoSemantic, Semantic[row.name]}
    PROVE  /\ Filled(row) \in RowSet
           /\ Filled(row).name = row.name
           /\ Filled(row).mesh = row.mesh
           /\ Filled(row).semantic = Semantic[row.name]
  BY DEF RowSet, Filled

LEMMA InitDInv == Init => DInv
<1> SUFFICES ASSUME Init PROVE DInv
  OBVIOUS
<1>1. DTyped
  <2>1. table \in Tables
    BY DEF Init, Tables
  <2>2. crashes \in 0..MaxCrashes /\ columns \subseteq AllColumns
    BY DatabaseAssumption DEF Init
  <2> QED
    BY <2>1, <2>2 DEF Init, DTyped
<1>2. \A i \in DOMAIN NoRows : FALSE
  BY DEF NoRows
<1>3. CASE table = "none" /\ rows = NoRows
  <2>1. RowsTyped
    BY <1>2, <1>3 DEF RowsTyped
  <2>2. CopyStands
    BY <1>2 DEF Init, CopyStands
  <2> QED
    BY <1>1, <1>2, <1>3, <2>1, <2>2 DEF Init, DInv, Stages, RowsReady
<1>4. CASE table # "none"
  <2>1. table = "unique"
    BY <1>4 DEF Init
  <2>2. PICK ids \in SUBSET (1..MaxRows) : \E old \in [ids -> Names] :
            rows = [i \in ids |-> OldRow(old[i])]
    BY <1>4 DEF Init
  <2>3. PICK old \in [ids -> Names] : rows = [i \in ids |-> OldRow(old[i])]
    BY <2>2
  <2>4. \A n \in Names : OldRow(n) \in RowSet /\ OldRow(n).semantic = NoSemantic
    BY DEF OldRow, RowSet, Meshes
  <2>5. RowsTyped
    BY <2>1, <2>3, <2>4 DEF RowsTyped
  <2>6. CopyStands
    BY <1>2 DEF Init, CopyStands
  <2> QED
    BY <1>1, <2>1, <2>5, <2>6 DEF Init, DInv, Stages, RowsReady
<1> QED
  BY <1>3, <1>4 DEF Init

\* The stages that leave the rows and the open transaction alone.
LEMMA SchemaStep ==
    ASSUME DInv, DTyped', Stages', UNCHANGED <<rows, copy>>,
           pc' \notin {"swap", "serving"},
           table' = "none" => table = "none",
           table' = "current" => table \in {"none", "current"}
    PROVE  DInv'
  BY DEF DInv, RowsTyped, CopyStands, RowsReady

LEMMA NextDInv == DInv /\ [Next]_vars => DInv'
<1> SUFFICES ASSUME DInv, [Next]_vars PROVE DInv'
  OBVIOUS
<1> USE DEF DInv
<1>1. \A i \in DOMAIN NoRows : FALSE
  BY DEF NoRows
<1>2. CASE Start
  BY <1>2, SchemaStep DEF Start, store, DTyped, Stages
<1>3. CASE DropAll
  BY <1>1, <1>3 DEF DropAll, DTyped, Tables, RowsTyped, Stages, CopyStands, RowsReady
<1>4. CASE CreateAll
  <2>1. DTyped' /\ Stages'
    BY <1>4 DEF CreateAll, DTyped, Tables, Stages
  <2> QED
    BY <1>4, <2>1, SchemaStep DEF CreateAll
<1>5. ASSUME NEW i \in DOMAIN AddedColumns, AddColumn(i) PROVE DInv'
  <2>1. DTyped' /\ Stages'
    BY <1>5 DEF AddColumn, AllColumns, DTyped, Stages
  <2> QED
    BY <1>5, <2>1, SchemaStep DEF AddColumn
<1>6. CASE CheckIndexes
  <2>1. DTyped' /\ Stages'
    BY <1>6 DEF CheckIndexes, HasUniqueName, store, DTyped, Tables, Stages
  <2> QED
    BY <1>6, <2>1, SchemaStep DEF CheckIndexes, store
<1>7. CASE CreateNew
  <2>1. DTyped' /\ Stages'
    BY <1>7 DEF CreateNew, DTyped, Stages
  <2> QED
    BY <1>7, <2>1, SchemaStep DEF CreateNew
<1>8. CASE CopyRows
  <2>1. DTyped' /\ Stages' /\ RowsTyped' /\ RowsReady'
    BY <1>8 DEF CopyRows, store, DTyped, Stages, RowsTyped, RowsReady
  <2>2. CopyStands'
    BY <1>8 DEF CopyRows, RowsToCopy, store, CopyStands, RowsTyped, Coalesced
  <2> QED
    BY <2>1, <2>2
<1>9. CASE Swap
  <2>1. DTyped' /\ Stages'
    BY <1>9 DEF Swap, Renamed, DTyped, Tables, Stages
  <2>2. DOMAIN rows' = DOMAIN rows /\ \A i \in DOMAIN rows : rows'[i] = Coalesced(rows[i])
    BY <1>9 DEF Swap, CopyStands
  <2>3. \A i \in DOMAIN rows :
            /\ rows'[i] \in RowSet /\ rows'[i].mesh # "null"
            /\ rows'[i].name = rows[i].name /\ rows'[i].semantic = rows[i].semantic
    BY <2>2, CoalescedRow DEF RowsTyped
  <2>4. RowsTyped'
    BY <1>9, <2>2, <2>3 DEF Swap, Renamed, RowsTyped
  <2>5. CopyStands' /\ RowsReady'
    BY <1>1, <1>9, <2>2, <2>3 DEF Swap, CopyStands, RowsReady
  <2> QED
    BY <2>1, <2>4, <2>5
<1>10. CASE Backfill
  <2>1. DTyped' /\ Stages'
    BY <1>10 DEF Backfill, DTyped, Stages
  <2>2. DOMAIN rows' = DOMAIN rows /\ \A i \in DOMAIN rows : rows'[i] = Filled(rows[i])
    BY <1>10 DEF Backfill
  <2>3. \A i \in DOMAIN rows :
            /\ rows'[i] \in RowSet /\ rows'[i].mesh = rows[i].mesh
            /\ rows'[i].name = rows[i].name /\ rows'[i].semantic = Semantic[rows'[i].name]
    BY <2>2, FilledRow DEF RowsTyped
  <2>4. RowsTyped'
    BY <1>10, <2>2, <2>3 DEF Backfill, RowsTyped
  <2>5. CopyStands' /\ RowsReady'
    BY <1>10, <2>2, <2>3 DEF Backfill, CopyStands, RowsReady
  <2> QED
    BY <2>1, <2>4, <2>5
<1>11. ASSUME NEW i \in 1..MaxRows, NEW n \in Names, InsertRow(i, n) PROVE DInv'
  <2>1. DTyped' /\ Stages'
    BY <1>11 DEF InsertRow, DTyped, Stages
  <2> DEFINE new == [name |-> n, mesh |-> "worker", semantic |-> Semantic[n]]
  <2>2. new \in RowSet /\ new.semantic = Semantic[new.name] /\ new.mesh # "null"
    BY DEF RowSet, Meshes
  <2>3. /\ DOMAIN rows' = DOMAIN rows \cup {i} /\ rows'[i] = new
        /\ \A j \in DOMAIN rows : rows'[j] = rows[j]
    BY <1>11 DEF InsertRow
  <2> HIDE DEF new
  <2>4. RowsTyped'
    BY <1>11, <2>2, <2>3 DEF InsertRow, RowsTyped, Stages
  <2>5. CopyStands' /\ RowsReady'
    BY <1>11, <2>2, <2>3 DEF InsertRow, CopyStands, RowsReady
  <2> QED
    BY <2>1, <2>4, <2>5
<1>12. ASSUME NEW i \in 1..MaxRows, RemoveRow(i) PROVE DInv'
  <2>1. DTyped' /\ Stages'
    BY <1>12 DEF RemoveRow, DTyped, Stages
  <2>2. DOMAIN rows' = DOMAIN rows \ {i} /\ \A j \in DOMAIN rows \ {i} : rows'[j] = rows[j]
    BY <1>12 DEF RemoveRow
  <2>3. RowsTyped' /\ CopyStands' /\ RowsReady'
    BY <1>12, <2>2 DEF RemoveRow, RowsTyped, CopyStands, RowsReady, Stages
  <2> QED
    BY <2>1, <2>3
<1>13. CASE Stop
  <2>1. DTyped' /\ Stages'
    BY <1>13 DEF Stop, store, DTyped, Stages
  <2> QED
    BY <1>13, <2>1, SchemaStep DEF Stop, store
<1>14. CASE Kill
  <2>1. DTyped'
    BY <1>14, DatabaseAssumption DEF Kill, store, DTyped
  <2>2. Stages' /\ RowsTyped' /\ RowsReady'
    BY <1>14 DEF Kill, store, Stages, RowsTyped, RowsReady
  <2>3. CopyStands'
    BY <1>1, <1>14 DEF Kill, CopyStands
  <2> QED
    BY <2>1, <2>2, <2>3
<1>15. CASE UNCHANGED vars
  BY <1>15 DEF vars, store, DTyped, RowsTyped, Stages, CopyStands, RowsReady
<1> QED
  BY <1>2, <1>3, <1>4, <1>5, <1>6, <1>7, <1>8, <1>9, <1>10, <1>11, <1>12, <1>13, <1>14, <1>15
  DEF Next, StartStep

LEMMA DatabaseInvariant == Spec => []DInv
  BY InitDInv, NextDInv, PTL DEF Spec

----------------------------------------------------------------------------
\* The types, and that a migration only runs on a table of the first schema.
THEOREM DatabaseTyped == Spec => []TypeOK
<1>1. DInv => TypeOK
  BY DEF DInv, DTyped, RowsTyped, RowSet, Stages, CopyStands, TypeOK
<1> QED
  BY DatabaseInvariant, <1>1, PTL

\* A registry only serves from a database that is migrated and filled.
THEOREM DatabaseReady == Spec => []ReadyIsMigrated
<1>1. DInv => ReadyIsMigrated
  BY DEF DInv, Stages, RowsReady, ReadyIsMigrated
<1> QED
  BY DatabaseInvariant, <1>1, PTL

\* No start loses or renames a row, whatever it finds and wherever it is killed.
THEOREM DatabaseKeepsRows == Spec => RowsSurvive
<1>1. DInv /\ [Next]_vars =>
          [ pc \notin {"reset", "serving"} =>
              \A i \in DOMAIN rows : i \in DOMAIN rows' /\ rows'[i].name = rows[i].name ]_vars
  <2> SUFFICES ASSUME DInv, Next, pc \notin {"reset", "serving"}
               PROVE  \A i \in DOMAIN rows : i \in DOMAIN rows' /\ rows'[i].name = rows[i].name
    OBVIOUS
  <2>1. CASE Swap
    BY <2>1, CoalescedRow DEF Swap, DInv, CopyStands, RowsTyped
  <2>2. CASE Backfill
    BY <2>2, FilledRow DEF Backfill, DInv, RowsTyped
  <2>3. CASE rows' = rows
    BY <2>3
  <2> QED
    BY <2>1, <2>2, <2>3
    DEF Next, StartStep, Start, DropAll, CreateAll, AddColumn, CheckIndexes, CreateNew, CopyRows,
        InsertRow, RemoveRow, Stop, Kill, store
<1> QED
  BY DatabaseInvariant, <1>1, PTL DEF Spec, RowsSurvive

\* What a migration leaves behind says why a start fails; only Kill, CreateNew
\* and Swap touch it.
LEMMA NextFailure == DInv /\ FailureIsInterruption /\ [Next]_vars => FailureIsInterruption'
<1> SUFFICES ASSUME DInv, FailureIsInterruption, [Next]_vars PROVE FailureIsInterruption'
  OBVIOUS
<1> USE DEF FailureIsInterruption
<1>1. CASE CreateNew
  <2>1. table = "unique"
    BY <1>1 DEF CreateNew, DInv, Stages
  <2> QED
    BY <1>1, <2>1 DEF CreateNew
<1>2. CASE CopyRows \/ CheckIndexes
  BY <1>2 DEF CopyRows, CheckIndexes, store
<1>3. CASE Swap
  BY <1>3 DEF Swap, Renamed
<1>4. CASE Kill
  BY <1>4 DEF Kill, store
<1>5. CASE Start \/ DropAll \/ CreateAll \/ Backfill \/ Stop
  BY <1>5 DEF Start, DropAll, CreateAll, Backfill, Stop, store
<1>6. ASSUME NEW i, AddColumn(i) \/ RemoveRow(i) \/ \E n \in Names : InsertRow(i, n)
      PROVE  FailureIsInterruption'
  BY <1>6 DEF AddColumn, RemoveRow, InsertRow
<1>7. CASE UNCHANGED vars
  BY <1>7 DEF vars, store
<1> QED
  BY <1>1, <1>2, <1>3, <1>4, <1>5, <1>6, <1>7 DEF Next, StartStep

\* A start only fails on what a killed migration has left behind, and then no
\* row has been lost to it: the old table is still the table.
THEOREM DatabaseFailsInterrupted == Spec => []FailureIsInterruption
<1>1. Init => FailureIsInterruption
  BY DEF Init, FailureIsInterruption
<1> QED
  BY DatabaseInvariant, <1>1, NextFailure, PTL DEF Spec

\* The spellings of one name are one function to a registry that serves, and no
\* other name is; what it stores is found by its canonical name, too.
THEOREM DatabaseSpellingsMeet == Spec => []SpellingsMeet
<1>1. DInv => SpellingsMeet
  <2> SUFFICES ASSUME DInv, pc = "serving", NEW i \in DOMAIN rows, NEW j \in DOMAIN rows
               PROVE  /\ Letters(rows[i].name) # {} =>
                           (rows[i].semantic = rows[j].semantic
                              <=> SameWords(rows[i].name, rows[j].name))
                      /\ Semanticize(rows[i].semantic) = rows[i].semantic
    BY DEF SpellingsMeet
  <2>1. ASSUME NEW k \in DOMAIN rows
        PROVE  rows[k].name \in Seq(Chars) /\ rows[k].semantic = Semanticize(rows[k].name)
    <3>1. rows[k].name \in Names
      BY DEF DInv, RowsTyped, RowSet
    <3>2. rows[k].semantic = Semantic[rows[k].name]
      BY DEF DInv, RowsReady
    <3> QED
      BY <3>1, <3>2, DatabaseAssumption DEF Semantic
  <2> QED
    BY <2>1, CanonicalNames, CanonicalNameIsOwn
<1> QED
  BY DatabaseInvariant, <1>1, PTL
=============================================================================
