---------------------------- MODULE FilterProofs ----------------------------
(***************************************************************************)
(* What a filter keeps: lemmas about Kept, by induction over the list.     *)
(*                                                                         *)
(* The induction theorems of the library take the induction hypothesis as  *)
(* an operator, which the provers cannot instantiate. Here it is a set --  *)
(* of numbers, or of lists -- and the two theorems of induction are        *)
(* derived from the well-foundedness of < over the natural numbers.        *)
(***************************************************************************)
EXTENDS Filter, Integers, NaturalsInduction, WellFoundedInduction,
        SequenceTheorems, TLAPS

LEMMA LeastNatural ==
  ASSUME NEW T \in SUBSET Nat, T # {}
  PROVE  \E n \in T : \A m \in T : n <= m
<1> DEFINE R == OpToRel(<, Nat)
<1>1. IsWellFoundedOn(R, Nat)
  BY NatLessThanWellFounded
<1>2. \A x, y \in Nat : x < y => <<x, y>> \in R
  BY Zenon DEF OpToRel
<1> HIDE DEF R
<1>3. PICK x \in T : \A y \in T : ~ (<<y, x>> \in R)
  BY <1>1, WFMin
<1>4. ASSUME NEW m \in T
      PROVE  x <= m
  <2>1. x \in Nat /\ m \in Nat
    OBVIOUS
  <2>2. ~ (m < x)
    BY <1>2, <1>3, <2>1
  <2>3. QED
    BY <2>1, <2>2
<1>5. QED
  BY <1>4

LEMMA InductionOverNat ==
  ASSUME NEW G \in SUBSET Nat, 0 \in G, \A n \in G : n + 1 \in G
  PROVE  G = Nat
<1> SUFFICES ASSUME Nat \ G # {}
             PROVE  FALSE
  OBVIOUS
<1>1. PICK n \in Nat \ G : \A m \in Nat \ G : n <= m
  BY LeastNatural
<1>2. n - 1 \in Nat /\ ~ (n <= n - 1) /\ (n - 1) + 1 = n
  BY <1>1
<1>3. n - 1 \in G
  BY <1>1, <1>2
<1>4. QED
  BY <1>1, <1>2, <1>3

LEMMA InductionOverSeq ==
  ASSUME NEW X, NEW G \in SUBSET Seq(X), <<>> \in G,
         \A t \in G, x \in X : Append(t, x) \in G
  PROVE  G = Seq(X)
<1> DEFINE N == {n \in Nat : \A t \in Seq(X) : Len(t) = n => t \in G}
<1>1. 0 \in N
  <2>1. \A t \in Seq(X) : Len(t) = 0 => t = <<>>
    OBVIOUS
  <2>2. QED
    BY <2>1
<1>2. ASSUME NEW n \in N
      PROVE  n + 1 \in N
  <2>1. SUFFICES ASSUME NEW t \in Seq(X), Len(t) = n + 1
                 PROVE  t \in G
    OBVIOUS
  <2> DEFINE u == SubSeq(t, 1, n)
  <2>2. u \in Seq(X) /\ Len(u) = n /\ t[n + 1] \in X
    BY <2>1
  <2>3. t = Append(u, t[n + 1])
    <3>1. Append(u, t[n + 1]) \in Seq(X) /\ Len(Append(u, t[n + 1])) = Len(t)
      BY <2>1, <2>2
    <3>2. \A k \in 1..Len(t) : t[k] = Append(u, t[n + 1])[k]
      BY <2>1, <2>2
    <3>3. QED
      BY <3>1, <3>2, SeqEqual
  <2>4. u \in G
    BY <2>2
  <2>5. QED
    BY <2>2, <2>3, <2>4
<1>3. N = Nat
  <2>1. N \in SUBSET Nat
    OBVIOUS
  <2> HIDE DEF N
  <2>2. QED
    BY <1>1, <1>2, <2>1, InductionOverNat
<1>4. ASSUME NEW t \in Seq(X)
      PROVE  t \in G
  <2>1. Len(t) \in N
    BY <1>3
  <2>2. QED
    BY <2>1
<1>5. QED
  BY <1>4

-----------------------------------------------------------------------------
(* Kept(t, S) is the last value of a function that satisfies its equation, *)
(* and the equation has a solution on every initial segment.               *)
Keeps(K, t, S, n) ==
  K = [i \in 0..n |->
         IF i = 0 THEN <<>>
         ELSE IF t[i] \in S THEN Append(K[i - 1], t[i]) ELSE K[i - 1]]

LEMMA KeepsExists ==
  ASSUME NEW t, NEW S, NEW n \in Nat
  PROVE  \E K : Keeps(K, t, S, n)
<1> DEFINE G == {m \in Nat : \E K : Keeps(K, t, S, m)}
<1>1. 0 \in G
  <2>1. Keeps([i \in 0..0 |-> <<>>], t, S, 0)
    BY DEF Keeps
  <2>2. QED
    BY <2>1
<1>2. ASSUME NEW m \in G
      PROVE  m + 1 \in G
  <2>1. PICK K : Keeps(K, t, S, m)
    OBVIOUS
  <2> DEFINE last == IF t[m + 1] \in S THEN Append(K[m], t[m + 1]) ELSE K[m]
             J == [i \in 0..(m + 1) |-> IF i = m + 1 THEN last ELSE K[i]]
  <2>2. \A i \in 0..m : J[i] = K[i]
    OBVIOUS
  <2>3. \A i \in 0..m : 
          K[i] = IF i = 0 THEN <<>>
                 ELSE IF t[i] \in S THEN Append(K[i - 1], t[i]) ELSE K[i - 1]
    BY <2>1 DEF Keeps
  <2>4. ASSUME NEW i \in 0..(m + 1)
        PROVE  J[i] = IF i = 0 THEN <<>>
                      ELSE IF t[i] \in S THEN Append(J[i - 1], t[i])
                      ELSE J[i - 1]
    <3>1. CASE i = m + 1
      <4>1. J[i] = last /\ i # 0 /\ i - 1 = m /\ J[i - 1] = K[m]
        BY <3>1, <2>2
      <4>2. QED
        BY <3>1, <4>1
    <3>2. CASE i # m + 1
      <4>1. i \in 0..m /\ (i # 0 => i - 1 \in 0..m)
        BY <3>2
      <4> HIDE DEF J
      <4>2. QED
        BY <2>2, <2>3, <4>1
    <3>3. QED
      BY <3>1, <3>2
  <2>5. J = [i \in 0..(m + 1) |-> J[i]]
    OBVIOUS
  <2> HIDE DEF J
  <2>6. Keeps(J, t, S, m + 1)
    BY <2>4, <2>5 DEF Keeps
  <2>7. QED
    BY <2>6
<1>3. G = Nat
  <2>1. G \in SUBSET Nat
    OBVIOUS
  <2> HIDE DEF G
  <2>2. QED
    BY <1>1, <1>2, <2>1, InductionOverNat
<1>4. QED
  BY <1>3

(* Two solutions for lists that agree so far agree so far. *)
LEMMA KeepsUnique ==
  ASSUME NEW t, NEW u, NEW S, NEW n \in Nat, NEW m \in Nat, n <= m,
         NEW K, Keeps(K, t, S, n), NEW J, Keeps(J, u, S, m),
         \A i \in 1..n : t[i] = u[i]
  PROVE  K[n] = J[n]
<1> DEFINE G == {i \in Nat : i <= n => K[i] = J[i]}
<1>1. \A i \in 0..n :
        K[i] = IF i = 0 THEN <<>>
               ELSE IF t[i] \in S THEN Append(K[i - 1], t[i]) ELSE K[i - 1]
  BY DEF Keeps
<1>2. \A i \in 0..m :
        J[i] = IF i = 0 THEN <<>>
               ELSE IF u[i] \in S THEN Append(J[i - 1], u[i]) ELSE J[i - 1]
  BY DEF Keeps
<1>3. \A i \in 0..n : i \in 0..m
  OBVIOUS
<1>4. 0 \in G
  BY <1>1, <1>2
<1>5. ASSUME NEW i \in G
      PROVE  i + 1 \in G
  <2>1. SUFFICES ASSUME i + 1 <= n
                 PROVE  K[i + 1] = J[i + 1]
    OBVIOUS
  <2>2. /\ i + 1 \in 0..n /\ i + 1 # 0 /\ (i + 1) - 1 = i
        /\ t[i + 1] = u[i + 1] /\ K[i] = J[i]
    BY <2>1
  <2>3. QED
    BY <1>1, <1>2, <1>3, <2>2
<1>6. G = Nat
  <2>1. G \in SUBSET Nat
    OBVIOUS
  <2> HIDE DEF G
  <2>2. QED
    BY <1>4, <1>5, <2>1, InductionOverNat
<1>7. QED
  BY <1>6

LEMMA KeptIs ==
  ASSUME NEW t, NEW S, Len(t) \in Nat
  PROVE  \E K : Keeps(K, t, S, Len(t)) /\ Kept(t, S) = K[Len(t)]
<1> DEFINE K == CHOOSE F : F = [i \in 0..Len(t) |->
                  IF i = 0 THEN <<>>
                  ELSE IF t[i] \in S THEN Append(F[i - 1], t[i]) ELSE F[i - 1]]
<1>1. Kept(t, S) = K[Len(t)]
  BY Zenon DEF Kept
<1>2. \E F : F = [i \in 0..Len(t) |->
                  IF i = 0 THEN <<>>
                  ELSE IF t[i] \in S THEN Append(F[i - 1], t[i]) ELSE F[i - 1]]
  <2>1. \E F : Keeps(F, t, S, Len(t))
    BY KeepsExists
  <2>2. QED
    BY <2>1, Zenon DEF Keeps
<1>3. Keeps(K, t, S, Len(t))
  BY <1>2, Zenon DEF Keeps
<1>4. QED
  BY <1>1, <1>3

(* The equations of Kept over lists. *)
LEMMA KeptEmpty ==
  ASSUME NEW S
  PROVE  Kept(<<>>, S) = <<>>
<1>1. Len(<<>>) = 0
  OBVIOUS
<1>2. PICK K : Keeps(K, <<>>, S, 0) /\ Kept(<<>>, S) = K[0]
  BY <1>1, KeptIs
<1>3. QED
  BY <1>2 DEF Keeps

LEMMA KeptAppend ==
  ASSUME NEW X, NEW S, NEW t \in Seq(X), NEW x \in X
  PROVE  Kept(Append(t, x), S) =
           IF x \in S THEN Append(Kept(t, S), x) ELSE Kept(t, S)
<1> DEFINE u == Append(t, x)
           n == Len(t)
<1>1. /\ n \in Nat /\ Len(u) = n + 1 /\ u[n + 1] = x
      /\ \A i \in 1..n : t[i] = u[i]
  OBVIOUS
<1> HIDE DEF u, n
<1>2. PICK K : Keeps(K, t, S, n) /\ Kept(t, S) = K[n]
  BY <1>1, KeptIs DEF n
<1>3. PICK J : Keeps(J, u, S, n + 1) /\ Kept(u, S) = J[n + 1]
  <2>1. Len(u) \in Nat
    BY <1>1
  <2>2. \E J : Keeps(J, u, S, Len(u)) /\ Kept(u, S) = J[Len(u)]
    BY <2>1, KeptIs
  <2>3. QED
    BY <1>1, <2>2
<1>4. K[n] = J[n]
  BY <1>1, <1>2, <1>3, KeepsUnique
<1>5. /\ n + 1 \in 0..(n + 1) /\ n + 1 # 0 /\ (n + 1) - 1 = n
  BY <1>1
<1>6. J[n + 1] = IF u[n + 1] \in S THEN Append(J[n], u[n + 1]) ELSE J[n]
  BY <1>3, <1>5 DEF Keeps
<1>7. QED
  BY <1>1, <1>2, <1>3, <1>4, <1>6 DEF u

-----------------------------------------------------------------------------
(* What is kept of a list is a list of members of the filter. *)
LEMMA KeptInSeq ==
  ASSUME NEW X, NEW S, NEW t \in Seq(X)
  PROVE  Kept(t, S) \in Seq(X \cap S) /\ Kept(t, S) \in Seq(X)
<1> DEFINE G == {u \in Seq(X) : Kept(u, S) \in Seq(X \cap S)}
<1>1. <<>> \in G
  BY KeptEmpty, EmptySeq
<1>2. ASSUME NEW u \in G, NEW x \in X
      PROVE  Append(u, x) \in G
  <2>1. Kept(Append(u, x), S) =
          IF x \in S THEN Append(Kept(u, S), x) ELSE Kept(u, S)
    BY KeptAppend
  <2>2. Kept(u, S) \in Seq(X \cap S)
    OBVIOUS
  <2>3. Kept(Append(u, x), S) \in Seq(X \cap S)
    BY <2>1, <2>2
  <2>4. Append(u, x) \in Seq(X)
    OBVIOUS
  <2>5. QED
    BY <2>3, <2>4
<1>3. G = Seq(X)
  <2>1. G \in SUBSET Seq(X)
    OBVIOUS
  <2> HIDE DEF G
  <2>2. QED
    BY <1>1, <1>2, <2>1, InductionOverSeq
<1>4. Kept(t, S) \in Seq(X \cap S)
  BY <1>3
<1>5. QED
  BY <1>4, SeqMonotonic

(* Filtering twice is filtering once. *)
LEMMA KeptTwice ==
  ASSUME NEW X, NEW S, NEW T, NEW t \in Seq(X)
  PROVE  Kept(Kept(t, S), T) = Kept(t, S \cap T)
<1> DEFINE G == {u \in Seq(X) : Kept(Kept(u, S), T) = Kept(u, S \cap T)}
<1>1. <<>> \in G
  BY KeptEmpty
<1>2. ASSUME NEW u \in G, NEW x \in X
      PROVE  Append(u, x) \in G
  <2> DEFINE both == S \cap T
             kept == Kept(u, S)
  <2>1. /\ u \in Seq(X) /\ Append(u, x) \in Seq(X) /\ kept \in Seq(X)
        /\ Kept(kept, T) = Kept(u, both)
    <3>1. /\ u \in Seq(X) /\ Append(u, x) \in Seq(X)
          /\ Kept(kept, T) = Kept(u, both)
      OBVIOUS
    <3>2. kept \in Seq(X)
      BY <3>1, KeptInSeq
    <3>3. QED
      BY <3>1, <3>2
  <2>2. x \in both <=> x \in S /\ x \in T
    OBVIOUS
  <2> HIDE DEF both, kept
  <2>3. Kept(Append(u, x), both)
          = IF x \in both THEN Append(Kept(u, both), x) ELSE Kept(u, both)
    BY <2>1, KeptAppend
  <2>4. Kept(Append(u, x), S) = IF x \in S THEN Append(kept, x) ELSE kept
    BY <2>1, KeptAppend DEF kept
  <2>5. Kept(Append(kept, x), T)
          = IF x \in T THEN Append(Kept(kept, T), x) ELSE Kept(kept, T)
    BY <2>1, KeptAppend
  <2>6. Kept(Kept(Append(u, x), S), T) = Kept(Append(u, x), both)
    BY <2>1, <2>2, <2>3, <2>4, <2>5
  <2>7. QED
    BY <2>1, <2>6 DEF both
<1>3. G = Seq(X)
  <2>1. G \in SUBSET Seq(X)
    OBVIOUS
  <2> HIDE DEF G
  <2>2. QED
    BY <1>1, <1>2, <2>1, InductionOverSeq
<1>4. QED
  BY <1>3

(* A filter that every member passes keeps the list. *)
LEMMA KeptAll ==
  ASSUME NEW S, NEW t \in Seq(S)
  PROVE  Kept(t, S) = t
<1> DEFINE G == {u \in Seq(S) : Kept(u, S) = u}
<1>1. <<>> \in G
  BY KeptEmpty, EmptySeq
<1>2. ASSUME NEW u \in G, NEW x \in S
      PROVE  Append(u, x) \in G
  <2>1. u \in Seq(S) /\ Append(u, x) \in Seq(S) /\ Kept(u, S) = u
    OBVIOUS
  <2>2. Kept(Append(u, x), S) = Append(Kept(u, S), x)
    BY <2>1, KeptAppend
  <2>3. QED
    BY <2>1, <2>2
<1>3. G = Seq(S)
  <2>1. G \in SUBSET Seq(S)
    OBVIOUS
  <2> HIDE DEF G
  <2>2. QED
    BY <1>1, <1>2, <2>1, InductionOverSeq
<1>4. QED
  BY <1>3

(* The members of a list that are kept are its members in the filter, and  *)
(* a list without repetitions gets none.                                   *)
Members(t) == {t[k] : k \in 1..Len(t)}
NoneTwice(t) == \A j, k \in 1..Len(t) : t[j] = t[k] => j = k

LEMMA MembersAppend ==
  ASSUME NEW X, NEW t \in Seq(X), NEW x \in X
  PROVE  /\ Members(Append(t, x)) = Members(t) \cup {x}
         /\ NoneTwice(Append(t, x)) <=> NoneTwice(t) /\ x \notin Members(t)
<1> DEFINE u == Append(t, x)
<1>1. /\ Len(t) \in Nat /\ Len(u) = Len(t) + 1 /\ u[Len(t) + 1] = x
      /\ \A k \in 1..Len(t) : u[k] = t[k]
  OBVIOUS
<1> HIDE DEF u
<1>2. 1..Len(u) = (1..Len(t)) \cup {Len(t) + 1}
  BY <1>1
<1>3. Members(u) = Members(t) \cup {x}
  BY <1>1, <1>2 DEF Members
<1>4. ASSUME NoneTwice(u)
      PROVE  NoneTwice(t) /\ x \notin Members(t)
  <2>1. \A k \in 1..Len(t) : k # Len(t) + 1
    BY <1>1
  <2>2. QED
    BY <1>1, <1>2, <1>4, <2>1 DEF NoneTwice, Members
<1>5. ASSUME NoneTwice(t), x \notin Members(t)
      PROVE  NoneTwice(u)
  BY <1>1, <1>2, <1>5 DEF NoneTwice, Members
<1>6. QED
  BY <1>3, <1>4, <1>5 DEF u

LEMMA KeptMembers ==
  ASSUME NEW X, NEW S, NEW t \in Seq(X)
  PROVE  /\ Members(Kept(t, S)) = Members(t) \cap S
         /\ NoneTwice(t) => NoneTwice(Kept(t, S))
<1> DEFINE G == {u \in Seq(X) :
                   /\ Members(Kept(u, S)) = Members(u) \cap S
                   /\ NoneTwice(u) => NoneTwice(Kept(u, S))}
<1>1. <<>> \in G
  BY KeptEmpty DEF Members, NoneTwice
<1>2. ASSUME NEW u \in G, NEW x \in X
      PROVE  Append(u, x) \in G
  <2> DEFINE kept == Kept(u, S)
  <2>1. /\ u \in Seq(X) /\ Append(u, x) \in Seq(X)
        /\ Members(kept) = Members(u) \cap S
        /\ NoneTwice(u) => NoneTwice(kept)
    OBVIOUS
  <2>2. kept \in Seq(X)
    BY <2>1, KeptInSeq
  <2>3. Kept(Append(u, x), S) = IF x \in S THEN Append(kept, x) ELSE kept
    BY <2>1, KeptAppend
  <2> HIDE DEF kept
  <2>4. /\ Members(Append(u, x)) = Members(u) \cup {x}
        /\ NoneTwice(Append(u, x)) <=> NoneTwice(u) /\ x \notin Members(u)
    BY <2>1, MembersAppend
  <2>5. /\ Members(Append(kept, x)) = Members(kept) \cup {x}
        /\ NoneTwice(Append(kept, x))
             <=> NoneTwice(kept) /\ x \notin Members(kept)
    BY <2>2, MembersAppend
  <2>6. Members(Kept(Append(u, x), S)) = Members(Append(u, x)) \cap S
    BY <2>1, <2>3, <2>4, <2>5
  <2>7. NoneTwice(Append(u, x)) => NoneTwice(Kept(Append(u, x), S))
    BY <2>1, <2>3, <2>4, <2>5
  <2>8. QED
    BY <2>1, <2>6, <2>7
<1>3. G = Seq(X)
  <2>1. G \in SUBSET Seq(X)
    OBVIOUS
  <2> HIDE DEF G
  <2>2. QED
    BY <1>1, <1>2, <2>1, InductionOverSeq
<1>4. QED
  BY <1>3

(* [f(x) for x in t], which the code writes out where it needs it. *)
Mapped(t, f) == [k \in DOMAIN t |-> f[t[k]]]

LEMMA MappedInSeq ==
  ASSUME NEW X, NEW f \in [X -> X], NEW t \in Seq(X)
  PROVE  /\ Mapped(t, f) \in Seq(X)
         /\ Len(Mapped(t, f)) = Len(t)
         /\ \A k \in 1..Len(t) : Mapped(t, f)[k] = f[t[k]]
BY DEF Mapped

LEMMA MappedAppend ==
  ASSUME NEW X, NEW f \in [X -> X], NEW t \in Seq(X), NEW x \in X
  PROVE  Mapped(Append(t, x), f) = Append(Mapped(t, f), f[x])
<1> DEFINE u == Append(t, x)
           v == Mapped(t, f)
           y == f[x]
<1>1. /\ u \in Seq(X) /\ y \in X /\ Len(t) \in Nat /\ Len(u) = Len(t) + 1
      /\ u[Len(t) + 1] = x
      /\ \A k \in 1..Len(t) : u[k] = t[k]
  OBVIOUS
<1>2. v \in Seq(X) /\ Len(v) = Len(t) /\ \A k \in 1..Len(t) : v[k] = f[t[k]]
  BY MappedInSeq
<1> HIDE DEF u, v
<1>3. /\ Mapped(u, f) \in Seq(X) /\ Len(Mapped(u, f)) = Len(u)
      /\ \A k \in 1..Len(u) : Mapped(u, f)[k] = f[u[k]]
  BY <1>1, MappedInSeq
<1>4. /\ Append(v, y) \in Seq(X) /\ Len(Append(v, y)) = Len(t) + 1
      /\ Append(v, y)[Len(t) + 1] = y
      /\ \A k \in 1..Len(t) : Append(v, y)[k] = v[k]
  BY <1>1, <1>2
<1>5. ASSUME NEW k \in 1..Len(u)
      PROVE  Mapped(u, f)[k] = Append(v, y)[k]
  <2>1. k = Len(t) + 1 \/ k \in 1..Len(t)
    BY <1>1
  <2>2. QED
    BY <1>1, <1>2, <1>3, <1>4, <2>1
<1>6. Mapped(u, f) = Append(v, y)
  BY <1>1, <1>3, <1>4, <1>5, SeqEqual
<1>7. QED
  BY <1>6 DEF u, v

(* A map that neither brings a member into the filter nor takes one out of *)
(* it may come before the filter or after it.                              *)
LEMMA KeptOfMapped ==
  ASSUME NEW X, NEW S, NEW f \in [X -> X], NEW t \in Seq(X),
         \A x \in X : f[x] \in S <=> x \in S
  PROVE  Kept(Mapped(t, f), S) = Mapped(Kept(t, S), f)
<1> DEFINE G == {u \in Seq(X) : Kept(Mapped(u, f), S) = Mapped(Kept(u, S), f)}
<1>1. <<>> \in G
  <2>1. Mapped(<<>>, f) = <<>>
    BY DEF Mapped
  <2>2. QED
    BY <2>1, KeptEmpty
<1>2. ASSUME NEW u \in G, NEW x \in X
      PROVE  Append(u, x) \in G
  <2> DEFINE kept == Kept(u, S)
             image == Mapped(u, f)
             y == f[x]
  <2>1. /\ u \in Seq(X) /\ Append(u, x) \in Seq(X)
        /\ kept \in Seq(X) /\ image \in Seq(X) /\ y \in X
        /\ Kept(image, S) = Mapped(kept, f)
        /\ y \in S <=> x \in S
    <3>1. /\ u \in Seq(X) /\ Append(u, x) \in Seq(X) /\ y \in X
          /\ Kept(image, S) = Mapped(kept, f)
          /\ y \in S <=> x \in S
      OBVIOUS
    <3>2. kept \in Seq(X)
      BY <3>1, KeptInSeq
    <3>3. image \in Seq(X)
      BY <3>1, MappedInSeq
    <3>4. QED
      BY <3>1, <3>2, <3>3
  <2>2. Mapped(Append(u, x), f) = Append(image, y)
    BY <2>1, MappedAppend
  <2>3. Kept(Append(u, x), S) = IF x \in S THEN Append(kept, x) ELSE kept
    BY <2>1, KeptAppend
  <2> HIDE DEF kept, image
  <2>4. Mapped(Append(kept, x), f) = Append(Mapped(kept, f), y)
    BY <2>1, MappedAppend
  <2> HIDE DEF y
  <2>5. Kept(Append(image, y), S)
          = IF y \in S THEN Append(Kept(image, S), y) ELSE Kept(image, S)
    BY <2>1, KeptAppend
  <2>6. Kept(Mapped(Append(u, x), f), S) = Mapped(Kept(Append(u, x), S), f)
    BY <2>1, <2>2, <2>3, <2>4, <2>5
  <2>7. QED
    BY <2>1, <2>6
<1>3. G = Seq(X)
  <2>1. G \in SUBSET Seq(X)
    OBVIOUS
  <2> HIDE DEF G
  <2>2. QED
    BY <1>1, <1>2, <2>1, InductionOverSeq
<1>4. QED
  BY <1>3

(* A map that changes no member of the list changes nothing. *)
LEMMA MappedToItself ==
  ASSUME NEW X, NEW f, NEW t \in Seq(X), \A x \in X : f[x] = x
  PROVE  Mapped(t, f) = t
<1>1. \A k \in DOMAIN t : f[t[k]] = t[k]
  OBVIOUS
<1>2. t = [k \in DOMAIN t |-> t[k]]
  OBVIOUS
<1>3. QED
  BY <1>1, <1>2 DEF Mapped

LEMMA MappedTwice ==
  ASSUME NEW X, NEW f \in [X -> X], NEW g \in [X -> X], NEW h \in [X -> X],
         \A x \in X : g[f[x]] = h[x], NEW t \in Seq(X)
  PROVE  Mapped(Mapped(t, f), g) = Mapped(t, h)
<1> DEFINE u == Mapped(t, f)
<1>1. /\ u \in Seq(X) /\ Len(u) = Len(t) /\ Len(t) \in Nat
      /\ \A k \in 1..Len(t) : u[k] = f[t[k]] /\ t[k] \in X
  BY MappedInSeq
<1> HIDE DEF u
<1>2. /\ Mapped(u, g) \in Seq(X) /\ Len(Mapped(u, g)) = Len(u)
      /\ \A k \in 1..Len(u) : Mapped(u, g)[k] = g[u[k]]
  BY <1>1, MappedInSeq
<1>3. /\ Mapped(t, h) \in Seq(X) /\ Len(Mapped(t, h)) = Len(t)
      /\ \A k \in 1..Len(t) : Mapped(t, h)[k] = h[t[k]]
  BY MappedInSeq
<1>4. Mapped(u, g) = Mapped(t, h)
  <2>1. \A k \in 1..Len(t) : Mapped(u, g)[k] = Mapped(t, h)[k]
    BY <1>1, <1>2, <1>3
  <2>2. QED
    BY <1>1, <1>2, <1>3, <2>1, SeqEqual
<1>5. QED
  BY <1>4 DEF u
=============================================================================
