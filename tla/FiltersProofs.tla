---------------------------- MODULE FiltersProofs ----------------------------
(***************************************************************************)
(* What Without returns.  Induction goes over the set of the numbers for    *)
(* which a statement holds; that it reaches every number follows from the   *)
(* well-foundedness of < on the naturals.                                   *)
(***************************************************************************)
EXTENDS Filters, SequencesExt, SequenceTheorems, WellFoundedInduction, TLAPS

Below == {pair \in Nat \X Nat : pair[1] < pair[2]}

\* The order of the theorem library, as a set of pairs.
LEMMA BelowIsOrder == OpToRel(<, Nat) = Below
BY Zenon DEF OpToRel, Below

\* A set of naturals has a least element.
LEMMA LeastExists ==
  ASSUME NEW T \in SUBSET Nat, T # {}
  PROVE  \E m \in T : \A n \in T : m <= n
<1>1. IsWellFoundedOn(Below, Nat)
  BY NatLessThanWellFounded, BelowIsOrder
<1>2. PICK m \in T : \A n \in T : <<n, m>> \notin Below
  BY <1>1, WFMin
<1>3. \A i, j \in Nat : i < j => <<i, j>> \in Below
  BY DEF Below
<1>4. ASSUME NEW n \in T
      PROVE  m <= n
  <2>1. m \in Nat /\ n \in Nat /\ ~(n < m)
    BY <1>2, <1>3
  <2> QED BY <2>1
<1> QED BY <1>4

\* Induction up to N.
LEMMA Reaches ==
  ASSUME NEW N \in Nat, NEW Good,
         0 \in Good,
         \A m \in 1..N : m - 1 \in Good => m \in Good
  PROVE  N \in Good
<1> DEFINE Bad == {m \in 0..N : m \notin Good}
<1> SUFFICES ASSUME Bad # {}
             PROVE  FALSE
  OBVIOUS
<1>0. Bad \in SUBSET Nat
  OBVIOUS
<1>1. PICK m \in Bad : \A n \in Bad : m <= n
  <2> HIDE DEF Bad
  <2> QED BY <1>0, LeastExists
<1>2. m \in 1..N /\ m - 1 \in 0..N
  BY <1>1
<1>3. m - 1 \notin Bad
  BY <1>1, <1>2
<1> QED BY <1>1, <1>2, <1>3

\* The definition of Without, one element at a time.
Left(s, gone, left, n) ==
  IF n = 0 THEN << >>
  ELSE IF s[n] \in gone THEN left[n - 1] ELSE Append(left[n - 1], s[n])

\* The recursion has a solution for every sequence.
LEMMA WithoutUnfolds ==
  ASSUME NEW T, NEW s \in Seq(T), NEW gone
  PROVE  \E left : /\ left = [n \in 0..Len(s) |-> Left(s, gone, left, n)]
                   /\ Without(s, gone) = left[Len(s)]
<1> DEFINE N == Len(s)
           Solved(m) == \E left : left = [n \in 0..m |-> Left(s, gone, left, n)]
<1>1. N \in Nat
  OBVIOUS
<1>2. Solved(0)
  <2> DEFINE none == [n \in 0..0 |-> << >>]
  <2>1. none = [n \in 0..0 |-> Left(s, gone, none, n)]
    BY DEF Left
  <2> QED BY <2>1
<1>3. ASSUME NEW m \in 1..N, Solved(m - 1)
      PROVE  Solved(m)
  <2>1. PICK left : left = [n \in 0..(m - 1) |-> Left(s, gone, left, n)]
    BY <1>3
  <2> DEFINE longer == [n \in 0..m |-> IF n = m THEN Left(s, gone, left, m) ELSE left[n]]
  <2>2. ASSUME NEW n \in 0..m
        PROVE  longer[n] = Left(s, gone, longer, n)
    <3>1. CASE n = m
      BY <3>1, <1>3 DEF Left
    <3>2. CASE n # m
      <4>1. left[n] = Left(s, gone, left, n)
        BY <2>1, <3>2, <1>3
      <4>2. n = 0 \/ longer[n - 1] = left[n - 1]
        BY <3>2, <1>3
      <4> QED BY <4>1, <4>2, <3>2 DEF Left
    <3> QED BY <3>1, <3>2
  <2>3. longer = [n \in 0..m |-> Left(s, gone, longer, n)]
    BY <2>2
  <2> QED BY <2>3
<1>4. Solved(N)
  <2> DEFINE Good == {m \in 0..N : Solved(m)}
  <2> HIDE DEF N, Solved
  <2>1. 0 \in Good /\ \A m \in 1..N : m - 1 \in Good => m \in Good
    BY <1>1, <1>2, <1>3
  <2> HIDE DEF Good
  <2>2. N \in Good
    BY <1>1, <2>1, Reaches
  <2> QED BY <2>2 DEF Good
<1> QED BY <1>4 DEF Without, Left

\* What is left is what was there and is not gone.
LEMMA WithoutElements ==
  ASSUME NEW T, NEW s \in Seq(T), NEW gone
  PROVE  /\ Without(s, gone) \in Seq(T)
         /\ ToSet(Without(s, gone)) = ToSet(s) \ gone
<1> DEFINE N == Len(s)
           Kept(n) == {s[i] : i \in 1..n} \ gone
<1>1. N \in Nat /\ ToSet(s) = {s[i] : i \in 1..N}
  BY DEF ToSet
<1>2. \A i \in 1..N : s[i] \in T
  OBVIOUS
<1>3. PICK left : /\ left = [n \in 0..N |-> Left(s, gone, left, n)]
                  /\ Without(s, gone) = left[N]
  BY WithoutUnfolds
<1> DEFINE Good == {m \in 0..N : left[m] \in Seq(T) /\ ToSet(left[m]) = Kept(m)}
<1> HIDE DEF N
<1>4. 0 \in Good
  <2>1. left[0] = << >>
    BY <1>1, <1>3 DEF Left
  <2>2. ToSet(left[0]) = {} /\ Kept(0) = {} /\ left[0] \in Seq(T)
    BY <2>1 DEF ToSet
  <2> QED BY <1>1, <2>2
<1>5. ASSUME NEW m \in 1..N, m - 1 \in Good
      PROVE  m \in Good
  <2> DEFINE before == left[m - 1]
  <2>1. m \in 0..N /\ m # 0 /\ m \in Nat
    BY <1>1
  <2>2. left[m] = IF s[m] \in gone THEN before ELSE Append(before, s[m])
    BY <1>3, <2>1 DEF Left
  <2>3. before \in Seq(T) /\ ToSet(before) = Kept(m - 1) /\ s[m] \in T
    BY <1>2, <1>5
  <2>4. {s[i] : i \in 1..m} = {s[i] : i \in 1..(m - 1)} \cup {s[m]}
    <3>1. 1..m = 1..(m - 1) \cup {m}
      BY <2>1
    <3> QED BY <3>1
  <2> HIDE DEF before
  <2>5. CASE s[m] \in gone
    BY <2>1, <2>2, <2>3, <2>4, <2>5
  <2>6. CASE s[m] \notin gone
    <3>1. left[m] = Append(before, s[m])
      BY <2>2, <2>6
    <3>2. /\ left[m] \in Seq(T) /\ Len(left[m]) = Len(before) + 1 /\ Len(before) \in Nat
          /\ left[m][Len(before) + 1] = s[m]
          /\ \A i \in 1..Len(before) : left[m][i] = before[i]
      BY <2>3, <3>1, AppendProperties
    <3>3. DOMAIN left[m] = 1..Len(before) + 1 /\ DOMAIN before = 1..Len(before)
      BY <2>3, <3>2
    <3>4. ToSet(left[m]) = ToSet(before) \cup {s[m]}
      BY <3>2, <3>3 DEF ToSet
    <3> QED BY <2>1, <2>3, <2>4, <2>6, <3>2, <3>4
  <2> QED BY <2>5, <2>6
<1>6. N \in Good
  <2> HIDE DEF Good
  <2> QED BY <1>1, <1>4, <1>5, Reaches
<1> QED BY <1>1, <1>3, <1>6

\* Induction up to N, for every number on the way.
LEMMA ReachesAll ==
  ASSUME NEW N \in Nat, NEW Good,
         0 \in Good,
         \A m \in 1..N : m - 1 \in Good => m \in Good
  PROVE  \A n \in 0..N : n \in Good
<1> TAKE n \in 0..N
<1>1. n \in Nat /\ \A m \in 1..n : m - 1 \in Good => m \in Good
  OBVIOUS
<1> QED BY <1>1, Reaches

\* What is left so far is a sequence.
LEMMA LeftIn ==
  ASSUME NEW T, NEW s \in Seq(T), NEW gone, NEW left,
         left = [n \in 0..Len(s) |-> Left(s, gone, left, n)]
  PROVE  \A n \in 0..Len(s) : left[n] \in Seq(T)
<1> DEFINE N == Len(s)
           Good == {m \in 0..N : left[m] \in Seq(T)}
<1>1. N \in Nat /\ \A i \in 1..N : s[i] \in T
  OBVIOUS
<1>2. left = [n \in 0..N |-> Left(s, gone, left, n)]
  OBVIOUS
<1> HIDE DEF N
<1>3. 0 \in Good
  BY <1>1, <1>2 DEF Left
<1>4. ASSUME NEW m \in 1..N, m - 1 \in Good
      PROVE  m \in Good
  <2>1. m \in 0..N /\ m # 0 /\ left[m - 1] \in Seq(T) /\ s[m] \in T
    BY <1>1, <1>4
  <2>2. left[m] = IF s[m] \in gone THEN left[m - 1] ELSE Append(left[m - 1], s[m])
    BY <1>2, <2>1 DEF Left
  <2>3. Append(left[m - 1], s[m]) \in Seq(T)
    BY <2>1, AppendProperties
  <2>4. left[m] \in Seq(T)
    BY <2>1, <2>2, <2>3
  <2> QED BY <2>1, <2>4
<1>5. \A n \in 0..N : n \in Good
  <2> HIDE DEF Good
  <2> QED BY <1>1, <1>3, <1>4, ReachesAll
<1> QED BY <1>5 DEF N

\* Of two sequences in a row, what is left is what is left of each.
LEMMA WithoutConcat ==
  ASSUME NEW T, NEW s \in Seq(T), NEW t \in Seq(T), NEW gone
  PROVE  Without(s \o t, gone) = Without(s, gone) \o Without(t, gone)
<1> DEFINE M == Len(s)
           N == Len(t)
           both == s \o t
<1>1. /\ M \in Nat /\ N \in Nat /\ both \in Seq(T) /\ Len(both) = M + N
      /\ \A i \in 1..M : both[i] = s[i]
      /\ \A i \in 1..N : both[M + i] = t[i] /\ t[i] \in T
  BY ConcatProperties
<1>2. PICK first : /\ first = [n \in 0..M |-> Left(s, gone, first, n)]
                   /\ Without(s, gone) = first[M]
  BY WithoutUnfolds
<1>3. PICK second : /\ second = [n \in 0..N |-> Left(t, gone, second, n)]
                    /\ Without(t, gone) = second[N]
  BY WithoutUnfolds
<1>4. PICK left : /\ left = [n \in 0..Len(both) |-> Left(both, gone, left, n)]
                  /\ Without(both, gone) = left[Len(both)]
  BY <1>1, WithoutUnfolds
<1>5. /\ \A n \in 0..M : first[n] \in Seq(T)
      /\ \A n \in 0..N : second[n] \in Seq(T)
  BY <1>2, <1>3, LeftIn
<1>6. left = [n \in 0..(M + N) |-> Left(both, gone, left, n)]
  BY <1>1, <1>4
<1> HIDE DEF M, N, both
<1>7. left[M] = first[M]
  <2> DEFINE Good == {m \in 0..M : left[m] = first[m]}
  <2>1. 0 \in Good
    BY <1>1, <1>2, <1>6 DEF Left
  <2>2. ASSUME NEW m \in 1..M, m - 1 \in Good
        PROVE  m \in Good
    <3>1. m \in 0..M /\ m \in 0..(M + N) /\ m # 0 /\ both[m] = s[m]
      BY <1>1
    <3>2. left[m - 1] = first[m - 1]
      BY <2>2
    <3> QED BY <1>2, <1>6, <3>1, <3>2 DEF Left
  <2>3. M \in Good
    <3> HIDE DEF Good
    <3> QED BY <1>1, <2>1, <2>2, Reaches
  <2> QED BY <2>3
<1>8. left[M + N] = first[M] \o second[N]
  <2> DEFINE Good == {n \in 0..N : left[M + n] = first[M] \o second[n]}
  <2>1. 0 \in Good
    <3>1. second[0] = << >> /\ M + 0 = M /\ first[M] \in Seq(T)
      BY <1>1, <1>3, <1>5 DEF Left
    <3>2. first[M] \o << >> = first[M]
      BY <3>1, ConcatEmptySeq
    <3>3. left[M + 0] = first[M] \o second[0] /\ 0 \in 0..N
      BY <1>1, <1>7, <3>1, <3>2
    <3> QED BY <3>3
  <2>2. ASSUME NEW n \in 1..N, n - 1 \in Good
        PROVE  n \in Good
    <3>1. /\ n \in 0..N /\ M + n \in 0..(M + N) /\ n # 0 /\ M + n # 0
          /\ both[M + n] = t[n] /\ t[n] \in T /\ (M + n) - 1 = M + (n - 1)
          /\ first[M] \in Seq(T) /\ second[n - 1] \in Seq(T)
      BY <1>1, <1>5
    <3> DEFINE whole == first[M]
               part == second[n - 1]
               last == t[n]
    <3>2. left[(M + n) - 1] = whole \o part
      BY <2>2, <3>1
    <3>3. left[M + n] = IF last \in gone THEN whole \o part ELSE Append(whole \o part, last)
      BY <1>6, <3>1, <3>2 DEF Left
    <3>4. second[n] = IF last \in gone THEN part ELSE Append(part, last)
      BY <1>3, <3>1 DEF Left
    <3>5. whole \in Seq(T) /\ part \in Seq(T) /\ last \in T
      BY <3>1
    <3> HIDE DEF whole, part, last
    <3>6. Append(whole \o part, last) = whole \o Append(part, last)
      <4>1. /\ whole \o part \in Seq(T) /\ <<last>> \in Seq(T)
            /\ Append(part, last) = part \o <<last>>
        BY <3>5, ConcatProperties, AppendIsConcat
      <4>2. Append(whole \o part, last) = (whole \o part) \o <<last>>
        BY <3>5, <4>1, AppendIsConcat
      <4>3. (whole \o part) \o <<last>> = whole \o (part \o <<last>>)
        BY <3>5, <4>1, ConcatAssociative
      <4> QED BY <4>1, <4>2, <4>3
    <3>7. left[M + n] = whole \o second[n]
      BY <3>3, <3>4, <3>6
    <3> QED BY <3>1, <3>7 DEF whole
  <2>3. N \in Good
    <3> HIDE DEF Good
    <3> QED BY <1>1, <2>1, <2>2, Reaches
  <2> QED BY <2>3
<1> QED BY <1>1, <1>2, <1>3, <1>4, <1>7, <1>8 DEF both

\* What is left of nothing, and of one element.
LEMMA WithoutFew ==
  ASSUME NEW gone, NEW x
  PROVE  /\ Without(<< >>, gone) = << >>
         /\ Without(<<x>>, gone) = IF x \in gone THEN << >> ELSE <<x>>
<1>1. << >> \in Seq({x}) /\ <<x>> \in Seq({x}) /\ Len(<< >>) = 0 /\ Len(<<x>>) = 1
  OBVIOUS
<1>2. Without(<< >>, gone) = << >>
  <2>1. PICK left : /\ left = [n \in 0..Len(<< >>) |-> Left(<< >>, gone, left, n)]
                    /\ Without(<< >>, gone) = left[Len(<< >>)]
    BY <1>1, WithoutUnfolds
  <2> QED BY <1>1, <2>1 DEF Left
<1>3. Without(<<x>>, gone) = IF x \in gone THEN << >> ELSE <<x>>
  <2>1. PICK left : /\ left = [n \in 0..Len(<<x>>) |-> Left(<<x>>, gone, left, n)]
                    /\ Without(<<x>>, gone) = left[Len(<<x>>)]
    BY <1>1, WithoutUnfolds
  <2>2. left[0] = << >> /\ left[1] = IF x \in gone THEN << >> ELSE Append(<< >>, x)
    BY <1>1, <2>1 DEF Left
  <2> QED BY <1>1, <2>1, <2>2
<1> QED BY <1>2, <1>3
=============================================================================
