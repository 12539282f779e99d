---------------------------- MODULE PagingProofs ----------------------------
(***************************************************************************)
(* Proofs about Paging, for collections of any length in any pages, every  *)
(* filter, every budget and every `top`.                                   *)
(***************************************************************************)
EXTENDS Paging, WellFoundedInduction, SequenceTheorems, TLAPS

-----------------------------------------------------------------------------
(***************************************************************************)
(* Sequences of rows in order.                                             *)
(***************************************************************************)
\* Induction over the natural numbers, as a fact about sets of them.
LEMMA Induction ==
    ASSUME NEW T \in SUBSET Nat, 0 \in T, \A n \in T : n + 1 \in T
    PROVE  T = Nat
<1> DEFINE R == OpToRel(<, Nat)
<1>0. IsWellFoundedOn(R, Nat) /\ \A x, y \in Nat : <<y, x>> \in R <=> y < x
  <2>1. \A x, y \in Nat : <<y, x>> \in R <=> y < x
    BY Zenon DEF OpToRel
  <2>2. QED
    BY <2>1, NatLessThanWellFounded
<1> HIDE DEF R
<1>1. SUFFICES ASSUME Nat \ T # {}
               PROVE  FALSE
  OBVIOUS
<1>2. PICK x \in Nat \ T : \A y \in Nat \ T : ~(<<y, x>> \in R)
  BY <1>0, <1>1, WFMin
<1>3. x \in Nat /\ x # 0
  BY <1>2
<1>4. x - 1 \in Nat /\ x - 1 < x /\ (x - 1) + 1 = x
  BY <1>3
<1>5. x - 1 \in T
  BY <1>0, <1>2, <1>4
<1>6. QED
  BY <1>2, <1>4, <1>5

Ordered(s) == \A i, j \in DOMAIN s : i < j => s[i] < s[j]

\* The rows of s that are there before one of t is there: no gap.
Closed(s, R) == \A r \in RowsOf(s), q \in R : q < r => q \in RowsOf(s)

\* Two lists in order that hold the same first rows are one the beginning of the other.
LEMMA FirstRowsAgree ==
    ASSUME NEW s \in Seq(Nat), NEW t \in Seq(Nat), Ordered(s), Ordered(t),
           RowsOf(s) \subseteq RowsOf(t), Closed(s, RowsOf(t))
    PROVE  Len(s) <= Len(t) /\ s = SubSeq(t, 1, Len(s))
<1> DEFINE T == {n \in Nat : \A k \in 1..n : k <= Len(s) => k <= Len(t) /\ s[k] = t[k]}
<1>0. /\ Len(s) \in Nat /\ DOMAIN s = 1..Len(s) /\ \A k \in 1..Len(s) : s[k] \in Nat
      /\ Len(t) \in Nat /\ DOMAIN t = 1..Len(t) /\ \A k \in 1..Len(t) : t[k] \in Nat
  OBVIOUS
<1>1. ASSUME NEW n \in T
      PROVE  n + 1 \in T
  <2>1. SUFFICES ASSUME n + 1 <= Len(s)
                 PROVE  n + 1 <= Len(t) /\ s[n + 1] = t[n + 1]
    OBVIOUS
  <2>2. n \in Nat /\ n + 1 \in 1..Len(s) /\ \A k \in 1..n : k \in 1..Len(t) /\ s[k] = t[k]
    BY <1>0, <2>1
  <2>3. PICK m \in 1..Len(t) : s[n + 1] = t[m]
    BY <1>0, <2>2 DEF RowsOf
  <2>4. m >= n + 1
    <3>1. SUFFICES ASSUME m \in 1..n
                   PROVE  FALSE
      BY <1>0, <2>2
    <3>2. s[m] = t[m] /\ m < n + 1 /\ m \in 1..Len(s)
      BY <1>0, <2>1, <2>2, <3>1
    <3>3. s[m] < s[n + 1]
      BY <1>0, <2>2, <3>2 DEF Ordered
    <3>4. QED
      BY <1>0, <2>2, <2>3, <3>2, <3>3
  <2>5. n + 1 \in 1..Len(t)
    BY <1>0, <2>2, <2>4
  <2>6. ASSUME n + 1 < m
        PROVE  FALSE
    <3>1. t[n + 1] < s[n + 1]
      BY <1>0, <2>3, <2>5, <2>6 DEF Ordered
    <3>2. t[n + 1] \in RowsOf(t) /\ s[n + 1] \in RowsOf(s)
      BY <1>0, <2>2, <2>5 DEF RowsOf
    <3>3. PICK j \in 1..Len(s) : t[n + 1] = s[j]
      BY <1>0, <3>1, <3>2 DEF Closed, RowsOf
    <3>4. ~(n + 1 < j) /\ j # n + 1
      <4>1. s[j] < s[n + 1] /\ s[j] \in Nat /\ s[n + 1] \in Nat
        BY <1>0, <2>2, <3>1, <3>3
      <4>2. n + 1 < j => s[n + 1] < s[j]
        BY <1>0, <2>2, <3>3 DEF Ordered
      <4>3. QED
        BY <4>1, <4>2
    <3>5. j \in 1..n
      BY <1>0, <2>2, <3>4
    <3>6. s[j] = t[j] /\ j \in 1..Len(t) /\ j < n + 1
      BY <1>0, <2>2, <3>5
    <3>7. t[j] < t[n + 1]
      BY <1>0, <2>5, <3>6 DEF Ordered
    <3>8. QED
      BY <1>0, <2>5, <3>3, <3>6, <3>7
  <2>7. QED
    BY <1>0, <2>2, <2>3, <2>4, <2>5, <2>6
<1>2. T = Nat
  <2>1. 0 \in T
    OBVIOUS
  <2>2. T \in SUBSET Nat
    OBVIOUS
  <2> HIDE DEF T
  <2>3. QED
    BY <1>1, <2>1, <2>2, Induction
<1>3. \A k \in 1..Len(s) : k <= Len(t) /\ s[k] = t[k]
  <2>1. Len(s) \in T
    BY <1>0, <1>2
  <2>2. QED
    BY <1>0, <2>1
<1>4. Len(s) <= Len(t)
  BY <1>0, <1>3
<1>5. SubSeq(t, 1, Len(s)) \in Seq(Nat) /\ Len(SubSeq(t, 1, Len(s))) = Len(s)
  BY <1>0, <1>4
<1>6. \A k \in 1..Len(s) : SubSeq(t, 1, Len(s))[k] = s[k]
  BY <1>0, <1>3, <1>4
<1>7. QED
  BY <1>4, <1>5, <1>6, SMT

\* Lists in order with the same rows are the same.
LEMMA SameRowsSameList ==
    ASSUME NEW s \in Seq(Nat), NEW t \in Seq(Nat), Ordered(s), Ordered(t), RowsOf(s) = RowsOf(t)
    PROVE  s = t
<1>1. Len(s) <= Len(t) /\ Len(t) <= Len(s) /\ s = SubSeq(t, 1, Len(s))
  BY FirstRowsAgree DEF Closed
<1>2. Len(s) = Len(t) /\ SubSeq(t, 1, Len(t)) = t
  BY <1>1
<1>3. QED
  BY <1>1, <1>2

\* A list in order followed by one whose rows all come later.
LEMMA Joined ==
    ASSUME NEW s \in Seq(Nat), NEW t \in Seq(Nat), Ordered(s), Ordered(t),
           \A r \in RowsOf(s), q \in RowsOf(t) : r < q
    PROVE  /\ s \o t \in Seq(Nat) /\ Len(s \o t) = Len(s) + Len(t)
           /\ Ordered(s \o t)
           /\ RowsOf(s \o t) = RowsOf(s) \cup RowsOf(t)
<1> DEFINE u == s \o t
<1>0. /\ Len(s) \in Nat /\ DOMAIN s = 1..Len(s) /\ \A k \in 1..Len(s) : s[k] \in Nat
      /\ Len(t) \in Nat /\ DOMAIN t = 1..Len(t) /\ \A k \in 1..Len(t) : t[k] \in Nat
  OBVIOUS
<1>1. /\ u \in Seq(Nat) /\ Len(u) = Len(s) + Len(t) /\ DOMAIN u = 1..(Len(s) + Len(t))
      /\ \A k \in 1..(Len(s) + Len(t)) : u[k] = IF k <= Len(s) THEN s[k] ELSE t[k - Len(s)]
  BY <1>0
<1> HIDE DEF u
<1>2. Ordered(u)
  <2>1. SUFFICES ASSUME NEW i \in DOMAIN u, NEW j \in DOMAIN u, i < j
                 PROVE  u[i] < u[j]
    BY DEF Ordered
  <2>2. CASE j <= Len(s)
    <3>1. i \in DOMAIN s /\ j \in DOMAIN s /\ u[i] = s[i] /\ u[j] = s[j]
      BY <1>0, <1>1, <2>1, <2>2
    <3>2. QED
      BY <2>1, <3>1 DEF Ordered
  <2>3. CASE i > Len(s)
    <3>1. /\ i - Len(s) \in DOMAIN t /\ j - Len(s) \in DOMAIN t /\ i - Len(s) < j - Len(s)
          /\ u[i] = t[i - Len(s)] /\ u[j] = t[j - Len(s)]
      <4>1. i \in 1..(Len(s) + Len(t)) /\ j \in 1..(Len(s) + Len(t)) /\ ~(i <= Len(s))
        BY <1>0, <1>1, <2>3
      <4>2. ~(j <= Len(s)) /\ i - Len(s) \in 1..Len(t) /\ j - Len(s) \in 1..Len(t)
        BY <1>0, <2>1, <4>1
      <4>3. u[i] = t[i - Len(s)] /\ u[j] = t[j - Len(s)]
        BY <1>1, <4>1, <4>2
      <4>4. i - Len(s) < j - Len(s)
        BY <1>0, <2>1, <4>1
      <4>5. QED
        BY <1>0, <4>2, <4>3, <4>4
    <3>2. QED
      BY <3>1 DEF Ordered
  <2>4. CASE i <= Len(s) /\ j > Len(s)
    <3>1. /\ i \in DOMAIN s /\ j - Len(s) \in DOMAIN t
          /\ u[i] = s[i] /\ u[j] = t[j - Len(s)]
      BY <1>0, <1>1, <2>1, <2>4
    <3>2. u[i] \in RowsOf(s) /\ u[j] \in RowsOf(t)
      BY <3>1 DEF RowsOf
    <3>3. QED
      BY <3>2
  <2>5. QED
    BY <1>0, <1>1, <2>2, <2>3, <2>4
<1>3. RowsOf(u) = RowsOf(s) \cup RowsOf(t)
  <2>1. ASSUME NEW r \in RowsOf(u)
        PROVE  r \in RowsOf(s) \cup RowsOf(t)
    <3>1. PICK k \in DOMAIN u : r = u[k]
      BY DEF RowsOf
    <3>2. k <= Len(s) => k \in DOMAIN s /\ r = s[k]
      BY <1>0, <1>1, <3>1
    <3>3. ~(k <= Len(s)) => k - Len(s) \in DOMAIN t /\ r = t[k - Len(s)]
      BY <1>0, <1>1, <3>1
    <3>4. QED
      BY <3>2, <3>3 DEF RowsOf
  <2>2. ASSUME NEW k \in DOMAIN s
        PROVE  s[k] \in RowsOf(u)
    <3>1. k \in DOMAIN u /\ u[k] = s[k]
      BY <1>0, <1>1
    <3>2. QED
      BY <3>1 DEF RowsOf
  <2>3. ASSUME NEW k \in DOMAIN t
        PROVE  t[k] \in RowsOf(u)
    <3>1. k + Len(s) \in DOMAIN u /\ u[k + Len(s)] = t[k]
      <4>1. /\ k \in 1..Len(t) /\ Len(s) \in Nat /\ Len(t) \in Nat
            /\ k + Len(s) \in 1..(Len(s) + Len(t)) /\ ~(k + Len(s) <= Len(s))
            /\ k + Len(s) - Len(s) = k
        BY <1>0
      <4>2. QED
        BY <1>1, <4>1
    <3>2. QED
      BY <3>1 DEF RowsOf
  <2>4. QED
    BY <2>1, <2>2, <2>3 DEF RowsOf
<1>4. QED
  BY <1>1, <1>2, <1>3 DEF u

\* The beginning of a list in order.
LEMMA Beginning ==
    ASSUME NEW s \in Seq(Nat), Ordered(s), NEW n \in 0..Len(s)
    PROVE  LET t == SubSeq(s, 1, n) IN
           /\ t \in Seq(Nat) /\ Len(t) = n /\ Ordered(t) /\ RowsOf(t) \subseteq RowsOf(s)
           /\ \A r \in RowsOf(t), q \in RowsOf(s) : q < r => q \in RowsOf(t)
           /\ n < Len(s) => s[n + 1] \in RowsOf(s) /\ s[n + 1] \notin RowsOf(t)
<1> DEFINE t == SubSeq(s, 1, n)
<1>0. Len(s) \in Nat /\ DOMAIN s = 1..Len(s) /\ \A k \in 1..Len(s) : s[k] \in Nat
  OBVIOUS
<1>1. /\ t \in Seq(Nat) /\ Len(t) = n /\ DOMAIN t = 1..n
      /\ \A k \in 1..n : t[k] = s[k] /\ k \in DOMAIN s
  BY <1>0
<1> HIDE DEF t
<1>2. Ordered(t) /\ RowsOf(t) \subseteq RowsOf(s)
  BY <1>1 DEF Ordered, RowsOf
<1>3. ASSUME NEW r \in RowsOf(t), NEW q \in RowsOf(s), q < r
      PROVE  q \in RowsOf(t)
  <2>1. PICK i \in 1..n : r = s[i] /\ i \in DOMAIN s
    BY <1>1 DEF RowsOf
  <2>2. PICK j \in DOMAIN s : q = s[j]
    BY DEF RowsOf
  <2>3. ~(i <= j)
    BY <1>0, <1>3, <2>1, <2>2 DEF Ordered
  <2>4. j \in 1..n
    BY <1>0, <2>1, <2>2, <2>3
  <2>5. QED
    BY <1>1, <2>2, <2>4 DEF RowsOf
<1>4. ASSUME n < Len(s)
      PROVE  s[n + 1] \in RowsOf(s) /\ s[n + 1] \notin RowsOf(t)
  <2>1. n + 1 \in DOMAIN s /\ s[n + 1] \in Nat
    BY <1>0, <1>4
  <2>2. \A k \in 1..n : k \in DOMAIN s /\ k < n + 1
    BY <1>0
  <2>3. \A k \in 1..n : s[k] < s[n + 1] /\ s[k] \in Nat
    BY <1>0, <2>1, <2>2 DEF Ordered
  <2>4. QED
    BY <1>1, <2>1, <2>3 DEF RowsOf
<1>5. QED
  BY <1>1, <1>2, <1>3, <1>4 DEF t

-----------------------------------------------------------------------------
(***************************************************************************)
(* What the loop over rows keeps.                                          *)
(***************************************************************************)
\* F[k] is what the loop holds after k rows of s.
Keeps(F, s, n) ==
    /\ F \in [0..n -> Seq(Nat)]
    /\ F[0] = <<>>
    /\ \A k \in 1..n : F[k] = IF s[k] \in matching THEN Append(F[k - 1], s[k]) ELSE F[k - 1]

\* The recursion of Kept has a solution, for lists of any length.
LEMMA KeptIsDefined ==
    ASSUME NEW s \in Seq(Nat)
    PROVE  \E F : Keeps(F, s, Len(s)) /\ Kept(s) = F[Len(s)]
<1> DEFINE Body(F) == [k \in 0..Len(s) |->
                          IF k = 0 THEN <<>>
                          ELSE IF s[k] \in matching THEN Append(F[k - 1], s[k]) ELSE F[k - 1]]
           T == {n \in Nat : n <= Len(s) => \E F : Keeps(F, s, n)}
<1>0. Len(s) \in Nat /\ \A k \in 1..Len(s) : s[k] \in Nat
  OBVIOUS
<1>1. 0 \in T
  <2>1. Keeps([k \in 0..0 |-> <<>>], s, 0)
    BY DEF Keeps
  <2>2. QED
    BY <2>1
<1>2. ASSUME NEW n \in T
      PROVE  n + 1 \in T
  <2>1. SUFFICES ASSUME n + 1 <= Len(s)
                 PROVE  \E F : Keeps(F, s, n + 1)
    OBVIOUS
  <2>2. n \in Nat /\ n <= Len(s)
    BY <1>0, <2>1
  <2>3. PICK F : Keeps(F, s, n)
    BY <2>2
  <2> DEFINE Last == IF s[n + 1] \in matching THEN Append(F[n], s[n + 1]) ELSE F[n]
             G == [k \in 0..(n + 1) |-> IF k <= n THEN F[k] ELSE Last]
  <2>4. Last \in Seq(Nat)
    BY <1>0, <2>1, <2>2, <2>3 DEF Keeps
  <2> HIDE DEF Last
  <2>5. G \in [0..(n + 1) -> Seq(Nat)] /\ G[0] = <<>>
    BY <2>2, <2>3, <2>4 DEF Keeps
  <2>6. ASSUME NEW k \in 1..(n + 1)
        PROVE  G[k] = IF s[k] \in matching THEN Append(G[k - 1], s[k]) ELSE G[k - 1]
    <3>1. k - 1 \in 0..n /\ G[k - 1] = F[k - 1]
      BY <2>2, <2>6
    <3>2. CASE k <= n
      <4>1. k \in 1..n /\ G[k] = F[k]
        BY <2>2, <3>2
      <4>2. QED
        BY <2>3, <3>1, <4>1 DEF Keeps
    <3>3. CASE k = n + 1
      <4>1. G[k] = Last /\ k - 1 = n
        BY <2>2, <3>3
      <4>2. QED
        BY <3>1, <3>3, <4>1 DEF Last
    <3>4. QED
      BY <2>2, <3>2, <3>3
  <2>7. Keeps(G, s, n + 1)
    BY <2>5, <2>6 DEF Keeps
  <2>8. QED
    BY <2>7
<1>3. PICK F : Keeps(F, s, Len(s))
  <2>1. T \in SUBSET Nat
    OBVIOUS
  <2> HIDE DEF T
  <2>2. Len(s) \in T
    BY <1>0, <1>1, <1>2, <2>1, Induction
  <2>3. QED
    BY <1>0, <2>2 DEF T
<1>4. F = Body(F)
  <2>1. ASSUME NEW k \in 0..Len(s)
        PROVE  F[k] = Body(F)[k]
    <3>1. k = 0 \/ k \in 1..Len(s)
      BY <1>0
    <3>2. k = 0 => F[k] = <<>>
      BY <1>3 DEF Keeps
    <3>3. k \in 1..Len(s) =>
             F[k] = IF s[k] \in matching THEN Append(F[k - 1], s[k]) ELSE F[k - 1]
      BY <1>3 DEF Keeps
    <3>4. k \in 1..Len(s) => k # 0
      OBVIOUS
    <3>5. F[k] = IF k = 0 THEN <<>>
                 ELSE IF s[k] \in matching THEN Append(F[k - 1], s[k]) ELSE F[k - 1]
      BY <3>1, <3>2, <3>3, <3>4, Zenon
    <3>6. QED
      BY <3>5, Zenon
  <2>2. DOMAIN F = 0..Len(s) /\ F = [k \in 0..Len(s) |-> F[k]]
    BY <1>3 DEF Keeps
  <2>3. QED
    BY <2>1, <2>2
<1> DEFINE C == CHOOSE G : G = Body(G)
<1>5. C = Body(C)
  BY <1>4, Zenon
<1>6. Kept(s) = C[Len(s)]
  BY Zenon DEF Kept
<1> HIDE DEF C
<1>7. Keeps(C, s, Len(s))
  <2> DEFINE U == {n \in Nat : n <= Len(s) => C[n] \in Seq(Nat)}
  <2>0. \A k \in 0..Len(s) :
           C[k] = IF k = 0 THEN <<>>
                  ELSE IF s[k] \in matching THEN Append(C[k - 1], s[k]) ELSE C[k - 1]
    BY <1>5, Zenon
  <2>1. C[0] = <<>>
    BY <1>0, <2>0
  <2>2. \A k \in 1..Len(s) : C[k] = IF s[k] \in matching THEN Append(C[k - 1], s[k]) ELSE C[k - 1]
    BY <1>0, <2>0
  <2>3. 0 \in U
    <3>1. <<>> \in Seq(Nat)
      OBVIOUS
    <3>2. QED
      BY <2>1, <3>1
  <2>4. ASSUME NEW n \in U
        PROVE  n + 1 \in U
    <3>1. SUFFICES ASSUME n + 1 <= Len(s)
                   PROVE  C[n + 1] \in Seq(Nat)
      OBVIOUS
    <3>2. n + 1 \in 1..Len(s) /\ (n + 1) - 1 = n /\ C[n] \in Seq(Nat) /\ s[n + 1] \in Nat
      BY <1>0, <3>1
    <3>3. C[n + 1] = IF s[n + 1] \in matching THEN Append(C[n], s[n + 1]) ELSE C[n]
      <4>1. C[n + 1] = IF s[n + 1] \in matching THEN Append(C[(n + 1) - 1], s[n + 1])
                                                ELSE C[(n + 1) - 1]
        BY <2>2, <3>2, Zenon
      <4>2. QED
        BY <3>2, <4>1, Zenon
    <3>4. Append(C[n], s[n + 1]) \in Seq(Nat)
      BY <3>2
    <3>5. QED
      BY <3>2, <3>3, <3>4, Zenon
  <2>5. U \in SUBSET Nat
    OBVIOUS
  <2> HIDE DEF U
  <2>6. U = Nat
    BY <2>3, <2>4, <2>5, Induction
  <2>7. \A n \in 0..Len(s) : C[n] \in Seq(Nat)
    BY <1>0, <2>6 DEF U
  <2>8. C \in [0..Len(s) -> Seq(Nat)]
    <3>1. DOMAIN C = 0..Len(s) /\ C = [n \in 0..Len(s) |-> C[n]]
      BY <1>5
    <3>2. QED
      BY <2>7, <3>1
  <2>9. QED
    BY <2>1, <2>2, <2>8 DEF Keeps
<1>8. QED
  BY <1>6, <1>7

\* Of a list in order, the loop keeps exactly the rows that match, in order.
LEMMA KeptIsExact ==
    ASSUME NEW s \in Seq(Nat), Ordered(s)
    PROVE  Kept(s) \in Seq(Nat) /\ Ordered(Kept(s)) /\ RowsOf(Kept(s)) = RowsOf(s) \cap matching
<1>0. Len(s) \in Nat /\ DOMAIN s = 1..Len(s) /\ \A k \in 1..Len(s) : s[k] \in Nat
  OBVIOUS
<1>1. PICK F : Keeps(F, s, Len(s)) /\ Kept(s) = F[Len(s)]
  BY KeptIsDefined
<1> DEFINE Seen(n) == {s[k] : k \in 1..n}
           T == {n \in Nat : n <= Len(s) =>
                    Ordered(F[n]) /\ RowsOf(F[n]) = Seen(n) \cap matching}
<1>2. 0 \in T
  <2>1. F[0] = <<>> /\ DOMAIN <<>> = {} /\ 1..0 = {}
    BY <1>1 DEF Keeps
  <2>2. Ordered(<<>>) /\ RowsOf(<<>>) = {} /\ Seen(0) = {}
    BY <2>1 DEF Ordered, RowsOf
  <2>3. QED
    BY <2>1, <2>2
<1>3. ASSUME NEW n \in T
      PROVE  n + 1 \in T
  <2>1. SUFFICES ASSUME n + 1 <= Len(s)
                 PROVE  Ordered(F[n + 1]) /\ RowsOf(F[n + 1]) = Seen(n + 1) \cap matching
    OBVIOUS
  <2>2. /\ n \in Nat /\ n + 1 \in 1..Len(s) /\ s[n + 1] \in Nat /\ n \in 0..Len(s)
        /\ F[n] \in Seq(Nat) /\ Ordered(F[n]) /\ RowsOf(F[n]) = Seen(n) \cap matching
    <3>1. n \in Nat /\ n <= Len(s) /\ n + 1 \in 1..Len(s) /\ n \in 0..Len(s)
      BY <1>0, <1>3, <2>1
    <3>2. Ordered(F[n]) /\ RowsOf(F[n]) = Seen(n) \cap matching
      BY <1>3, <3>1, Zenon
    <3>3. F[n] \in Seq(Nat)
      BY <1>1, <3>1 DEF Keeps
    <3>4. QED
      BY <1>0, <3>1, <3>2, <3>3
  <2>3. F[n + 1] = IF s[n + 1] \in matching THEN Append(F[n], s[n + 1]) ELSE F[n]
    <3>1. F[n + 1] = IF s[n + 1] \in matching THEN Append(F[(n + 1) - 1], s[n + 1])
                                              ELSE F[(n + 1) - 1]
      BY <1>1, <2>2, Zenon DEF Keeps
    <3>2. (n + 1) - 1 = n
      BY <2>2
    <3>3. QED
      BY <3>1, <3>2, Zenon
  <2>4. Seen(n + 1) = Seen(n) \cup {s[n + 1]}
    <3>1. 1..(n + 1) = (1..n) \cup {n + 1}
      BY <2>2
    <3>2. QED
      BY <3>1, Zenon
  <2>5. CASE s[n + 1] \notin matching
    BY <2>2, <2>3, <2>4, <2>5
  <2>6. CASE s[n + 1] \in matching
    <3> DEFINE t == <<s[n + 1]>>
    <3>1. t \in Seq(Nat) /\ Ordered(t) /\ RowsOf(t) = {s[n + 1]} /\ DOMAIN t = {1}
      BY <2>2 DEF Ordered, RowsOf
    <3>2. \A r \in RowsOf(F[n]) : r < s[n + 1]
      <4>1. \A k \in 1..n : k \in DOMAIN s /\ n + 1 \in DOMAIN s /\ k < n + 1
        BY <1>0, <2>2
      <4>2. \A k \in 1..n : s[k] < s[n + 1]
        BY <4>1 DEF Ordered
      <4>3. QED
        BY <2>2, <4>2
    <3>3. F[n + 1] = F[n] \o t
      <4>1. F[n + 1] = Append(F[n], s[n + 1])
        BY <2>3, <2>6
      <4>2. QED
        BY <2>2, <4>1, AppendIsConcat
    <3> HIDE DEF t
    <3>4. Ordered(F[n] \o t) /\ RowsOf(F[n] \o t) = RowsOf(F[n]) \cup RowsOf(t)
      BY <2>2, <3>1, <3>2, Joined
    <3>5. QED
      BY <2>2, <2>4, <2>6, <3>1, <3>3, <3>4
  <2>7. QED
    BY <2>5, <2>6
<1>4. Len(s) \in T
  <2>1. T \in SUBSET Nat
    OBVIOUS
  <2> HIDE DEF T
  <2>2. QED
    BY <1>0, <1>2, <1>3, <2>1, Induction
<1>5. Ordered(F[Len(s)]) /\ RowsOf(F[Len(s)]) = Seen(Len(s)) \cap matching
  BY <1>0, <1>4
<1>6. Seen(Len(s)) = RowsOf(s)
  BY <1>0 DEF RowsOf
<1>7. F[Len(s)] \in Seq(Nat)
  BY <1>0, <1>1 DEF Keeps
<1>8. QED
  BY <1>1, <1>5, <1>6, <1>7

\* The rows of an interval, in order.
LEMMA IntervalIsOrdered ==
    ASSUME NEW i \in Nat, NEW j \in Nat
    PROVE  Interval(i, j) \in Seq(Nat) /\ Ordered(Interval(i, j)) /\ RowsOf(Interval(i, j)) = i..j
<1> DEFINE n == IF i <= j THEN j - i + 1 ELSE 0
           s == Interval(i, j)
<1>1. n \in Nat /\ s = [k \in 1..n |-> i + k - 1]
  BY DEF Interval
<1> HIDE DEF n, s
<1>2. \A k \in 1..n : i + k - 1 \in Nat
  BY <1>1
<1>3. s \in Seq(Nat) /\ DOMAIN s = 1..n /\ \A k \in 1..n : s[k] = i + k - 1
  BY <1>1, <1>2
<1>4. Ordered(s)
  BY <1>1, <1>3 DEF Ordered
<1>5. RowsOf(s) = i..j
  <2>1. ASSUME NEW k \in 1..n
        PROVE  s[k] \in i..j
    BY <1>1, <1>3 DEF n
  <2>2. ASSUME NEW r \in i..j
        PROVE  r - i + 1 \in 1..n /\ s[r - i + 1] = r
    <3>1. r - i + 1 \in 1..n /\ i + (r - i + 1) - 1 = r
      BY DEF n
    <3>2. QED
      BY <1>3, <3>1
  <2>3. QED
    BY <1>3, <2>1, <2>2 DEF RowsOf
<1>6. QED
  BY <1>3, <1>4, <1>5 DEF s
-----------------------------------------------------------------------------
(***************************************************************************)
(* The walk.                                                               *)
(***************************************************************************)
\* A collection, a filter and limits as Init chooses them.
InputsInv ==
    /\ walk \in {"get_paged", "signin_logs"}
    /\ PageCount \in Nat \ {0} /\ DOMAIN upto = 1..PageCount
    /\ \A i \in 1..PageCount : upto[i] \in Nat
    /\ \A i, j \in 1..PageCount : i <= j => upto[i] <= upto[j]
    /\ matching \subseteq 1..Total
    /\ walk = "get_paged" => matching = 1..Total
    /\ foreign \in 0..(PageCount - 1)
    /\ budget \in Nat \ {0} /\ top \in Nat \ {0}

\* The last row of the pages read.
ReadTo == IF next = 0 THEN Total ELSE Before(next)

\* Where the walk stands: the pages before `next` are read, none behind a foreign link.
PlaceInv ==
    /\ next \in 0..PageCount
    /\ pages = IF next = 0 THEN PageCount ELSE next - 1
    /\ pages <= budget
    /\ (walk = "get_paged" /\ foreign # 0) => next # 0 /\ next <= foreign

\* What the walk holds: every matching row read, or the first `top` of them.
HeldInv ==
    /\ ~truncated => RowsOf(items) = matching \cap 1..ReadTo
    /\ truncated =>
          /\ walk = "signin_logs" /\ Len(items) = top
          /\ Closed(items, matching)
          /\ \E r \in matching : r \notin RowsOf(items)
    /\ walk = "signin_logs" => Len(items) <= top

WalkInv ==
    /\ InputsInv
    /\ result \in {"running", "pages", "deadline", "error"}
    /\ truncated \in BOOLEAN
    /\ items \in Seq(Nat) /\ Ordered(items) /\ RowsOf(items) \subseteq matching
    /\ result # "error" => PlaceInv /\ HeldInv

\* Later pages end later.
LEMMA PagesInOrder ==
    ASSUME NEW n \in Nat, NEW f \in [1..n -> Nat], \A i \in 1..(n - 1) : f[i] <= f[i + 1]
    PROVE  \A i, j \in 1..n : i <= j => f[i] <= f[j]
<1> DEFINE T == {d \in Nat : \A i \in 1..n : i + d \in 1..n => f[i] <= f[i + d]}
<1>1. 0 \in T
  OBVIOUS
<1>2. ASSUME NEW d \in T
      PROVE  d + 1 \in T
  <2>1. SUFFICES ASSUME NEW i \in 1..n, i + (d + 1) \in 1..n
                 PROVE  f[i] <= f[i + (d + 1)]
    OBVIOUS
  <2>2. i + d \in 1..n /\ i + d \in 1..(n - 1) /\ (i + d) + 1 = i + (d + 1)
    BY <2>1
  <2>3. f[i] <= f[i + d]
    BY <2>2
  <2>4. f[i + d] <= f[(i + d) + 1]
    BY <2>2
  <2>5. f[i] \in Nat /\ f[i + d] \in Nat /\ f[i + (d + 1)] \in Nat
    BY <2>1, <2>2
  <2>6. QED
    BY <2>2, <2>3, <2>4, <2>5
<1>3. T = Nat
  <2>1. T \in SUBSET Nat
    OBVIOUS
  <2> HIDE DEF T
  <2>2. QED
    BY <1>1, <1>2, <2>1, Induction
<1>4. SUFFICES ASSUME NEW i \in 1..n, NEW j \in 1..n, i <= j
               PROVE  f[i] <= f[j]
  OBVIOUS
<1>5. j - i \in Nat /\ i + (j - i) = j /\ i + (j - i) \in 1..n
  BY <1>4
<1>6. j - i \in T
  <2> HIDE DEF T
  <2>1. QED
    BY <1>3, <1>5
<1>7. f[i] <= f[i + (j - i)]
  BY <1>5, <1>6
<1>8. QED
  BY <1>5, <1>7

\* What Init chooses.
LEMMA InputsAtStart == Init => InputsInv
<1> SUFFICES ASSUME Init
             PROVE  InputsInv
  OBVIOUS
<1>1. PICK n \in 1..MaxPages :
         upto \in {f \in [1..n -> 0..MaxRows] : \A i \in 1..(n - 1) : f[i] <= f[i + 1]}
  BY DEF Init, Collections
<1>2. n \in Nat \ {0} /\ upto \in [1..n -> Nat] /\ \A i \in 1..(n - 1) : upto[i] <= upto[i + 1]
  BY <1>1, PagingAssumption
<1>3. PageCount = n /\ DOMAIN upto = 1..PageCount
  <2>1. upto \in Seq(Nat)
    BY <1>2
  <2>2. QED
    BY <1>2, <2>1 DEF PageCount
<1>4. \A i, j \in 1..n : i <= j => upto[i] <= upto[j]
  BY <1>2, PagesInOrder
<1>5. budget \in Nat \ {0} /\ top \in Nat \ {0}
  BY PagingAssumption DEF Init
<1>6. QED
  BY <1>2, <1>3, <1>4, <1>5 DEF Init, InputsInv

\* One page on: its rows come after those read, and reading goes up to its last row.
LEMMA OnePageOn ==
    ASSUME InputsInv, next \in 1..PageCount
    PROVE  /\ Before(next) \in Nat /\ upto[next] \in Nat /\ Total \in Nat
           /\ Before(next) <= upto[next] /\ upto[next] <= Total
           /\ Link(next) \in 0..PageCount
           /\ (IF Link(next) = 0 THEN Total ELSE Before(Link(next))) = upto[next]
           /\ (IF Link(next) = 0 THEN PageCount ELSE Link(next) - 1) = next
           /\ next < PageCount => Link(next) = next + 1
<1>1. PageCount \in Nat \ {0} /\ \A i \in 1..PageCount : upto[i] \in Nat
  BY DEF InputsInv
<1>2. upto[next] \in Nat /\ Total \in Nat /\ upto[next] <= Total
  BY <1>1 DEF InputsInv, Total
<1>3. Before(next) \in Nat /\ Before(next) <= upto[next]
  <2>1. CASE next = 1
    BY <1>2, <2>1 DEF Before
  <2>2. CASE next # 1
    <3>1. next - 1 \in 1..PageCount /\ next - 1 <= next
      BY <1>1, <2>2
    <3>2. upto[next - 1] <= upto[next] /\ upto[next - 1] \in Nat
      BY <3>1 DEF InputsInv
    <3>3. QED
      BY <2>2, <3>2 DEF Before
  <2>3. QED
    BY <2>1, <2>2
<1>4. CASE next < PageCount
  <2>1. Link(next) = next + 1 /\ next + 1 \in 0..PageCount /\ next + 1 # 0 /\ next + 1 # 1
        /\ (next + 1) - 1 = next
    BY <1>1, <1>4 DEF Link
  <2>2. Before(next + 1) = upto[next]
    BY <2>1 DEF Before
  <2>3. QED
    BY <1>2, <1>3, <2>1, <2>2
<1>5. CASE ~(next < PageCount)
  <2>1. Link(next) = 0 /\ next = PageCount
    BY <1>1, <1>5 DEF Link
  <2>2. QED
    BY <1>1, <1>2, <1>3, <2>1 DEF Total
<1>6. QED
  BY <1>4, <1>5

\* The rows of the next page, as the walk finds it.
LEMMA AtPage ==
    ASSUME WalkInv, GoesOn
    PROVE  /\ next \in 1..PageCount /\ InputsInv /\ PlaceInv /\ ~truncated
           /\ RowsOf(items) = matching \cap 1..Before(next)
<1>1. InputsInv /\ PlaceInv /\ HeldInv /\ next \in 0..PageCount /\ next # 0 /\ PageCount \in Nat
  BY DEF WalkInv, GoesOn, PlaceInv, InputsInv
<1>2. ~truncated
  BY <1>1 DEF HeldInv, GoesOn, InputsInv
<1>3. QED
  BY <1>1, <1>2 DEF HeldInv, ReadTo

-----------------------------------------------------------------------------
\* The walk starts with nothing read.
LEMMA WalkInit == Init => WalkInv
<1> SUFFICES ASSUME Init
             PROVE  WalkInv
  OBVIOUS
<1>1. InputsInv
  BY InputsAtStart
<1>2. items \in Seq(Nat) /\ Ordered(items) /\ RowsOf(items) = {} /\ Len(items) = 0
  BY DEF Init, Ordered, RowsOf
<1>3. PlaceInv
  BY <1>1 DEF Init, PlaceInv, InputsInv
<1>4. HeldInv
  <2>1. ReadTo = 0 /\ 1..0 = {}
    BY DEF Init, ReadTo, Before
  <2>2. QED
    BY <1>1, <1>2, <2>1 DEF Init, HeldInv, InputsInv
<1>5. QED
  BY <1>1, <1>2, <1>3, <1>4 DEF Init, WalkInv

\* A page of get_paged.
LEMMA WalkReadPage == WalkInv /\ ReadPage => WalkInv'
<1> SUFFICES ASSUME WalkInv, ReadPage
             PROVE  WalkInv'
  OBVIOUS
<1>1. /\ next \in 1..PageCount /\ InputsInv /\ PlaceInv /\ ~truncated
      /\ RowsOf(items) = matching \cap 1..Before(next)
  BY AtPage DEF ReadPage
<1>2. walk = "get_paged" /\ matching = 1..Total /\ inputs' = inputs /\ truncated' = truncated
  BY <1>1 DEF ReadPage, InputsInv
<1>3. InputsInv'
  BY <1>1, <1>2 DEF InputsInv, inputs, PageCount, Total
<1> DEFINE t == Interval(Before(next) + 1, upto[next])
<1>4. t \in Seq(Nat) /\ Ordered(t) /\ RowsOf(t) = (Before(next) + 1)..upto[next]
  <2>1. Before(next) + 1 \in Nat /\ upto[next] \in Nat
    BY <1>1, OnePageOn
  <2>2. QED
    BY <2>1, IntervalIsOrdered
<1>5. /\ items' = items \o t /\ items \o t \in Seq(Nat) /\ Ordered(items \o t)
      /\ RowsOf(items \o t) = 1..upto[next]
  <2>1. items \in Seq(Nat) /\ Ordered(items)
    BY DEF WalkInv
  <2>2. RowsOf(items) = 1..Before(next)
    BY <1>1, <1>2, OnePageOn
  <2>3. \A r \in RowsOf(items), q \in RowsOf(t) : r < q
    BY <1>1, <1>4, <2>2, OnePageOn
  <2> HIDE DEF t
  <2>4. /\ items \o t \in Seq(Nat) /\ Ordered(items \o t)
        /\ RowsOf(items \o t) = RowsOf(items) \cup RowsOf(t)
    BY <1>4, <2>1, <2>3, Joined
  <2>5. (1..Before(next)) \cup ((Before(next) + 1)..upto[next]) = 1..upto[next]
    BY <1>1, OnePageOn
  <2>6. items' = items \o t
    BY DEF ReadPage, t
  <2>7. QED
    BY <1>4, <2>2, <2>4, <2>5, <2>6
<1> HIDE DEF t
<1>6. RowsOf(items)' = 1..upto[next] /\ RowsOf(items)' \subseteq matching'
  <2>1. RowsOf(items)' = RowsOf(items')
    BY DEF RowsOf
  <2>2. matching' = matching
    BY <1>2 DEF inputs
  <2>3. 1..upto[next] \subseteq 1..Total
    BY <1>1, OnePageOn
  <2>4. QED
    BY <1>2, <1>5, <2>1, <2>2, <2>3
<1>7. Ordered(items)' /\ items' \in Seq(Nat)
  BY <1>5 DEF Ordered
<1>8. result' \in {"running", "error"}
  BY DEF ReadPage
<1>9. ASSUME result' # "error"
      PROVE  PlaceInv' /\ HeldInv'
  <2>1. ~LeavesHost(next) /\ next' = Link(next) /\ pages' = pages + 1 /\ pages < budget
        /\ PageCount' = PageCount /\ budget' = budget /\ foreign' = foreign /\ upto' = upto
    BY <1>2, <1>9 DEF ReadPage, GoesOn, inputs, PageCount
  <2>2. pages = next - 1 /\ pages \in Nat /\ budget \in Nat /\ foreign \in 0..(PageCount - 1)
        /\ PageCount \in Nat
    BY <1>1 DEF PlaceInv, InputsInv
  <2>3. pages' = IF next' = 0 THEN PageCount' ELSE next' - 1
    BY <1>1, <2>1, <2>2, OnePageOn
  <2>4. foreign # 0 => next' # 0 /\ next' <= foreign
    <3>1. SUFFICES ASSUME foreign # 0
                   PROVE  next' # 0 /\ next' <= foreign
      OBVIOUS
    <3>2. next <= foreign /\ foreign # next
      BY <1>1, <1>2, <2>1, <3>1 DEF PlaceInv, LeavesHost
    <3>3. next < PageCount /\ next + 1 <= foreign
      BY <1>1, <2>2, <3>2
    <3>4. QED
      BY <1>1, <2>1, <3>3, OnePageOn
  <2>5. PlaceInv'
    BY <1>1, <2>1, <2>2, <2>3, <2>4, OnePageOn DEF PlaceInv
  <2>6. ReadTo' = upto[next]
    <3>1. ReadTo' = IF Link(next) = 0 THEN Total ELSE Before(Link(next))
      BY <2>1 DEF ReadTo, Total, PageCount, Before
    <3>2. QED
      BY <1>1, <3>1, OnePageOn
  <2>7. HeldInv'
    <3>1. matching' = 1..Total /\ walk' = "get_paged" /\ ~truncated'
      BY <1>1, <1>2 DEF inputs
    <3>2. (1..Total) \cap 1..upto[next] = 1..upto[next]
      BY <1>1, OnePageOn
    <3>3. QED
      BY <1>6, <2>6, <3>1, <3>2 DEF HeldInv
  <2>8. QED
    BY <2>5, <2>7
<1>10. truncated' \in BOOLEAN
  BY <1>2 DEF WalkInv
<1>11. QED
  BY <1>3, <1>6, <1>7, <1>8, <1>9, <1>10 DEF WalkInv
\* A page of signin_logs: what it keeps is the page's matching rows, or as many as fit.
LEMMA WalkScanPage == WalkInv /\ ScanPage => WalkInv'
<1> SUFFICES ASSUME WalkInv, ScanPage
             PROVE  WalkInv'
  OBVIOUS
<1>1. /\ next \in 1..PageCount /\ InputsInv /\ PlaceInv /\ ~truncated
      /\ RowsOf(items) = matching \cap 1..Before(next)
  BY AtPage DEF ScanPage
<1>2. walk = "signin_logs" /\ inputs' = inputs /\ result' = result /\ Len(items) < top
  BY DEF ScanPage, GoesOn
<1>3. InputsInv'
  BY <1>1, <1>2 DEF InputsInv, inputs, PageCount, Total
<1>4. items \in Seq(Nat) /\ Ordered(items) /\ Len(items) \in Nat /\ top \in Nat
  BY <1>1 DEF WalkInv, InputsInv
<1> DEFINE page == Interval(Before(next) + 1, upto[next])
           hits == Hits(next)
           room == top - Len(items)
           taken == IF Len(hits) <= room THEN Len(hits) ELSE room
           t == SubSeq(hits, 1, taken)
<1>5. /\ hits \in Seq(Nat) /\ Ordered(hits)
      /\ RowsOf(hits) = ((Before(next) + 1)..upto[next]) \cap matching
  <2>1. Before(next) + 1 \in Nat /\ upto[next] \in Nat
    BY <1>1, OnePageOn
  <2>2. page \in Seq(Nat) /\ Ordered(page) /\ RowsOf(page) = (Before(next) + 1)..upto[next]
    BY <2>1, IntervalIsOrdered
  <2>3. hits = Kept(page)
    BY DEF Hits
  <2> HIDE DEF page, hits
  <2>4. QED
    BY <2>2, <2>3, KeptIsExact
<1>6. /\ items' = items \o t /\ truncated' = (Len(hits) > room)
      /\ next' = Link(next) /\ pages' = pages + 1 /\ pages < budget
  BY DEF ScanPage, GoesOn, Truncates
<1> HIDE DEF hits
<1>7. Len(hits) \in Nat /\ room \in Nat /\ taken \in 0..Len(hits) /\ taken <= room
  BY <1>2, <1>4, <1>5
<1>8. /\ t \in Seq(Nat) /\ Len(t) = taken /\ Ordered(t) /\ RowsOf(t) \subseteq RowsOf(hits)
      /\ \A r \in RowsOf(t), q \in RowsOf(hits) : q < r => q \in RowsOf(t)
      /\ taken < Len(hits) => hits[taken + 1] \in RowsOf(hits) /\ hits[taken + 1] \notin RowsOf(t)
  BY <1>5, <1>7, Beginning
<1>9. \A r \in RowsOf(items), q \in RowsOf(hits) : r < q
  BY <1>1, <1>5, OnePageOn
<1> HIDE DEF t
<1>10. /\ items' \in Seq(Nat) /\ Len(items') = Len(items) + taken /\ Ordered(items')
       /\ RowsOf(items') = RowsOf(items) \cup RowsOf(t)
  <2>1. \A r \in RowsOf(items), q \in RowsOf(t) : r < q
    BY <1>8, <1>9
  <2>2. QED
    BY <1>4, <1>6, <1>8, <2>1, Joined
<1>11. RowsOf(items)' = RowsOf(items') /\ Ordered(items)' = Ordered(items')
  BY DEF RowsOf, Ordered
<1>12. RowsOf(items)' \subseteq matching'
  BY <1>1, <1>2, <1>5, <1>8, <1>10, <1>11 DEF inputs
<1>13. /\ walk' = walk /\ matching' = matching /\ PageCount' = PageCount /\ budget' = budget
       /\ foreign' = foreign /\ upto' = upto /\ top' = top
  BY <1>2 DEF inputs, PageCount
<1>14. PlaceInv'
  <2>1. pages = next - 1 /\ pages \in Nat /\ budget \in Nat /\ walk' # "get_paged" /\ PageCount \in Nat
    BY <1>1, <1>2, <1>13 DEF PlaceInv, InputsInv
  <2>2. pages' = IF next' = 0 THEN PageCount' ELSE next' - 1
    BY <1>1, <1>6, <1>13, <2>1, OnePageOn
  <2>3. QED
    BY <1>1, <1>6, <1>13, <2>1, <2>2, OnePageOn DEF PlaceInv
<1>15. ReadTo' = upto[next]
  <2>1. ReadTo' = IF Link(next) = 0 THEN Total ELSE Before(Link(next))
    BY <1>6, <1>13 DEF ReadTo, Total, PageCount, Before
  <2>2. QED
    BY <1>1, <2>1, OnePageOn
<1>16. HeldInv'
  <2>1. Len(items') <= top
    BY <1>4, <1>7, <1>10
  <2>2. ASSUME ~truncated'
        PROVE  RowsOf(items)' = matching \cap 1..upto[next]
    <3>1. ~(Len(hits) > room)
      BY <1>6, <2>2, Zenon
    <3>2. taken = Len(hits)
      BY <1>7, <3>1
    <3>3. t = hits
      BY <1>5, <3>2 DEF t
    <3>4. (1..Before(next)) \cup ((Before(next) + 1)..upto[next]) = 1..upto[next]
      BY <1>1, OnePageOn
    <3>5. QED
      BY <1>1, <1>5, <1>10, <1>11, <3>3, <3>4, Zenon
  <2>3. ASSUME truncated'
        PROVE  /\ Len(items') = top
               /\ Closed(items', matching)
               /\ \E r \in matching : r \notin RowsOf(items)'
    <3>1. taken = room /\ taken < Len(hits)
      <4>1. Len(hits) > room
        BY <1>6, <2>3, Zenon
      <4>2. QED
        BY <1>7, <4>1
    <3>2. Len(items') = top
      BY <1>4, <1>10, <3>1
    <3>3. hits[taken + 1] \in matching /\ hits[taken + 1] \notin RowsOf(items')
      <4>1. hits[taken + 1] \in RowsOf(hits) /\ hits[taken + 1] \notin RowsOf(t)
        BY <1>8, <3>1
      <4>2. hits[taken + 1] \notin RowsOf(items)
        BY <1>1, <1>5, <4>1, OnePageOn
      <4>3. QED
        BY <1>5, <1>10, <4>1, <4>2
    <3>4. ASSUME NEW r \in RowsOf(items'), NEW q \in matching, q < r
          PROVE  q \in RowsOf(items')
      <4>1. q \in Nat /\ q >= 1
        BY <1>1 DEF InputsInv, Total
      <4>2. r \in 1..upto[next]
        BY <1>1, <1>5, <1>8, <1>10, <3>4, OnePageOn
      <4>3. CASE q <= Before(next)
        BY <1>1, <1>10, <4>1, <4>3, OnePageOn
      <4>4. CASE ~(q <= Before(next))
        <5>1. q \in RowsOf(hits)
          BY <1>1, <1>5, <3>4, <4>1, <4>2, <4>4, OnePageOn
        <5>2. r \notin RowsOf(items)
          BY <1>1, <3>4, <4>1, <4>2, <4>4, OnePageOn
        <5>3. QED
          BY <1>8, <1>10, <3>4, <5>1, <5>2
      <4>5. QED
        BY <4>3, <4>4
    <3>5. QED
      BY <1>11, <3>2, <3>3, <3>4 DEF Closed
  <2>4. Closed(items, matching)' = Closed(items', matching)
    BY <1>11, <1>13 DEF Closed
  <2>5. QED
    BY <1>2, <1>13, <1>15, <2>1, <2>2, <2>3, <2>4 DEF HeldInv
<1>17. truncated' \in BOOLEAN
  BY <1>6
<1>18. QED
  BY <1>2, <1>3, <1>10, <1>11, <1>12, <1>14, <1>16, <1>17 DEF WalkInv

\* The steps that read nothing.
LEMMA WalkReadsNothing ==
    ASSUME WalkInv, UNCHANGED <<inputs, next, pages, items, truncated>>,
           result' \in {"running", "pages", "deadline", "error"},
           result' # "error" => result # "error"
    PROVE  WalkInv'
<1>1. InputsInv' /\ (PlaceInv /\ HeldInv => PlaceInv' /\ HeldInv')
  <2>1. InputsInv'
    BY DEF WalkInv, InputsInv, inputs, PageCount, Total
  <2>2. PlaceInv => PlaceInv'
    BY DEF PlaceInv, inputs, PageCount
  <2>3. HeldInv => HeldInv'
    BY DEF HeldInv, inputs, PageCount, Total, ReadTo, Before, RowsOf, Closed
  <2>4. QED
    BY <2>1, <2>2, <2>3
<1>2. Ordered(items)' = Ordered(items) /\ RowsOf(items)' = RowsOf(items)
  BY DEF Ordered, RowsOf
<1>3. QED
  BY <1>1, <1>2 DEF WalkInv, inputs

\* Every step keeps the invariant.
LEMMA WalkNext == WalkInv /\ [Next]_vars => WalkInv'
<1> SUFFICES ASSUME WalkInv, [Next]_vars
             PROVE  WalkInv'
  OBVIOUS
<1>1. CASE ReadPage
  BY <1>1, WalkReadPage
<1>2. CASE ScanPage
  BY <1>2, WalkScanPage
<1>3. CASE MeetDeadline
  BY <1>3, WalkReadsNothing DEF MeetDeadline, GoesOn
<1>4. CASE Fail
  BY <1>4, WalkReadsNothing DEF Fail
<1>5. CASE Finish
  BY <1>5, WalkReadsNothing DEF Finish
<1>6. CASE Stop \/ UNCHANGED vars
  <2>1. UNCHANGED <<inputs, next, pages, items, truncated>> /\ result' = result
    BY <1>6 DEF Stop, vars, inputs
  <2>2. QED
    BY <2>1, WalkReadsNothing DEF WalkInv
<1>7. QED
  BY <1>1, <1>2, <1>3, <1>4, <1>5, <1>6 DEF Next

\* The invariant of both walks.
THEOREM WalkAlways == Spec => []WalkInv
<1>1. Init => WalkInv
  BY WalkInit
<1>2. WalkInv /\ [Next]_vars => WalkInv'
  BY WalkNext
<1>3. QED
  BY <1>1, <1>2, PTL DEF Spec

-----------------------------------------------------------------------------
\* What the whole collection offers: every matching row, in order.
LEMMA AllIsExact ==
    ASSUME InputsInv
    PROVE  All \in Seq(Nat) /\ Ordered(All) /\ RowsOf(All) = matching
<1>1. Total \in Nat /\ matching \subseteq 1..Total
  BY DEF InputsInv, Total
<1>2. Interval(1, Total) \in Seq(Nat) /\ Ordered(Interval(1, Total)) /\ RowsOf(Interval(1, Total)) = 1..Total
  BY <1>1, IntervalIsOrdered
<1>3. QED
  BY <1>1, <1>2, KeptIsExact DEF All

\* capped says exactly whether something is left: client.py:445-452, server.py:885-892.
THEOREM CappedIsExactAlways == Spec => []CappedIsExact
<1>1. WalkInv => CappedIsExact
  <2> SUFFICES ASSUME WalkInv, Returned
               PROVE  /\ ~Capped => items = All
                      /\ result = "pages" /\ Capped =>
                            pages < PageCount \/ \E r \in matching : r \notin RowsOf(items)
    BY DEF CappedIsExact, Returned
  <2>1. InputsInv /\ PlaceInv /\ HeldInv /\ items \in Seq(Nat) /\ Ordered(items)
    BY DEF WalkInv, Returned
  <2>2. ASSUME ~Capped
        PROVE  items = All
    <3>1. next = 0 /\ ~truncated
      BY <2>2 DEF Capped
    <3>2. RowsOf(items) = matching \cap 1..Total
      BY <2>1, <3>1 DEF HeldInv, ReadTo
    <3>3. RowsOf(items) = RowsOf(All)
      BY <2>1, <3>2, AllIsExact DEF InputsInv
    <3>4. QED
      BY <2>1, <3>3, AllIsExact, SameRowsSameList
  <2>3. ASSUME result = "pages", Capped
        PROVE  pages < PageCount \/ \E r \in matching : r \notin RowsOf(items)
    <3>1. next # 0 \/ truncated
      BY <2>3 DEF Capped
    <3>2. CASE next # 0
      BY <2>1, <3>2 DEF PlaceInv, InputsInv
    <3>3. CASE truncated
      BY <2>1, <3>3 DEF HeldInv, RowsOf
    <3>4. QED
      BY <3>1, <3>2, <3>3
  <2>4. QED
    BY <2>2, <2>3
<1>2. QED
  BY <1>1, WalkAlways, PTL

\* An answer is the first matching rows of the collection, within every limit.
THEOREM AnswerIsPrefixAlways == Spec => []AnswerIsPrefix
<1>1. WalkInv => AnswerIsPrefix
  <2> SUFFICES ASSUME WalkInv, Returned
               PROVE  /\ items = SubSeq(All, 1, Len(items))
                      /\ pages <= budget
                      /\ walk = "signin_logs" => Len(items) <= top
                      /\ (walk = "get_paged" /\ foreign # 0) => pages < foreign
    BY DEF AnswerIsPrefix
  <2>1. /\ InputsInv /\ PlaceInv /\ HeldInv /\ items \in Seq(Nat) /\ Ordered(items)
        /\ RowsOf(items) \subseteq matching /\ truncated \in BOOLEAN
    BY DEF WalkInv, Returned
  <2>2. All \in Seq(Nat) /\ Ordered(All) /\ RowsOf(All) = matching
    BY <2>1, AllIsExact
  <2>3. Closed(items, matching)
    <3>1. CASE truncated
      BY <2>1, <3>1 DEF HeldInv
    <3>2. CASE ~truncated
      <4>1. RowsOf(items) = matching \cap 1..ReadTo /\ matching \subseteq 1..Total /\ Total \in Nat
        BY <2>1, <3>2 DEF HeldInv, InputsInv, Total
      <4>2. ReadTo \in Nat
        <5>1. next \in 1..PageCount => Before(next) \in Nat
          BY <2>1, OnePageOn
        <5>2. next = 0 \/ next \in 1..PageCount
          BY <2>1 DEF PlaceInv, InputsInv
        <5>3. QED
          BY <4>1, <5>1, <5>2 DEF ReadTo
      <4>3. QED
        BY <4>1, <4>2 DEF Closed
    <3>3. QED
      BY <2>1, <3>1, <3>2
  <2>4. items = SubSeq(All, 1, Len(items))
    BY <2>1, <2>2, <2>3, FirstRowsAgree
  <2>5. (walk = "get_paged" /\ foreign # 0) => pages < foreign
    BY <2>1 DEF PlaceInv, InputsInv
  <2>6. QED
    BY <2>1, <2>4, <2>5 DEF PlaceInv, HeldInv
<1>2. QED
  BY <1>1, WalkAlways, PTL
-----------------------------------------------------------------------------
(***************************************************************************)
(* To its caller, a walk is one read.                                      *)
(***************************************************************************)
\* An answer shows rows of the collection, all of them unless it says it was cut.
AnswerInv ==
    Returned => /\ Told \in {"whole", "cut"}
                /\ RowsOf(items) \subseteq matching
                /\ Told = "whole" => RowsOf(items) = matching

LEMMA AnswerIsTrue == WalkInv => AnswerInv
<1> SUFFICES ASSUME WalkInv
             PROVE  AnswerInv
  OBVIOUS
<1>1. result \in {"running", "pages", "deadline", "error"}
  BY DEF WalkInv
<1>2. Returned <=> result \in {"pages", "deadline"}
  BY DEF Returned
<1>3. Told = IF result = "running" THEN "none"
             ELSE IF result = "error" THEN "failed" ELSE IF Capped THEN "cut" ELSE "whole"
  BY <1>1, <1>2 DEF Told
<1>4. Returned => RowsOf(items) \subseteq matching
  BY DEF WalkInv
<1>5. Returned /\ ~Capped => RowsOf(items) = matching
  <2>1. SUFFICES ASSUME Returned, ~Capped
                 PROVE  RowsOf(items) = matching
    OBVIOUS
  <2>2. HeldInv /\ InputsInv /\ next = 0 /\ ~truncated
    BY <1>2, <2>1 DEF WalkInv, Capped
  <2>3. QED
    BY <2>2 DEF HeldInv, ReadTo, InputsInv
<1>6. QED
  BY <1>1, <1>2, <1>3, <1>4, <1>5 DEF AnswerInv

\* A walk that runs on shows nothing, one that ends is the read, and an answer stays.
LEMMA WalkStepIsRead ==
    ASSUME WalkInv', AnswerInv', [Next]_vars
    PROVE  [Read!Next]_<<matching, IF Returned THEN RowsOf(items) ELSE {}, Told>>
<1>1. matching' = matching
  BY DEF Next, ReadPage, ScanPage, MeetDeadline, Fail, Finish, Stop, vars, inputs
<1>2. CASE result = "running" /\ result' = "running"
  <2>1. Told = "none" /\ Told' = "none" /\ ~Returned /\ ~Returned'
    BY <1>2 DEF Told, Returned
  <2>2. QED
    BY <1>1, <2>1
<1>3. CASE result = "running" /\ result' = "error"
  <2>1. Told = "none" /\ Told' = "failed" /\ ~Returned /\ ~Returned'
    BY <1>3 DEF Told, Returned
  <2>2. Read!Fail
    BY <1>1, <2>1 DEF Read!Fail
  <2>3. QED
    BY <2>2 DEF Read!Next
<1>4. CASE result = "running" /\ Returned'
  <2>1. Told = "none" /\ ~Returned
    BY <1>4 DEF Told, Returned
  <2>2. /\ Told' \in {"whole", "cut"} /\ RowsOf(items)' \subseteq matching'
        /\ Told' = "whole" => RowsOf(items)' = matching'
    BY <1>4 DEF AnswerInv
  <2>3. Read!Answer(Told')
    BY <1>4, <2>1, <2>2 DEF Read!Answer
  <2>4. QED
    BY <2>2, <2>3 DEF Read!Next
<1>5. CASE result # "running"
  <2>1. UNCHANGED vars
    BY <1>5 DEF Next, ReadPage, ScanPage, MeetDeadline, Fail, Finish, Stop, GoesOn
  <2>2. UNCHANGED <<matching, RowsOf(items), Told, Returned>>
    BY <2>1 DEF vars, RowsOf, Told, Returned, Capped
  <2>3. QED
    BY <2>2
<1>6. QED
  <2>1. result' \in {"running", "pages", "deadline", "error"}
    BY DEF WalkInv
  <2>2. QED
    BY <1>2, <1>3, <1>4, <1>5, <2>1 DEF Returned

\* Both walks implement the one-step read: what VmBackup and Suspects take a listing or
\* the walk of the sign-in log for.
THEOREM WalkImplementsOneRead == Spec => WalkIsOneRead
<1>1. Init => Read!Init
  BY DEF Init, Read!Init, Told, Returned
<1>2. WalkInv' /\ AnswerInv' /\ [Next]_vars
        => [Read!Next]_<<matching, IF Returned THEN RowsOf(items) ELSE {}, Told>>
  BY WalkStepIsRead
<1>3. QED
  BY <1>1, <1>2, WalkAlways, AnswerIsTrue, PTL DEF Spec, WalkIsOneRead, Read!Spec
=============================================================================
