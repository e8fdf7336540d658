---------------------------- MODULE LibraryFacts ----------------------------
(* What the operators of the libraries that the models use return: Min and  *)
(* Max, SumFunction, and the remainder.  A recursive function is unfolded,  *)
(* and an induction made, over the least counterexample.                    *)
EXTENDS FiniteSetsExt, FiniteSetTheorems, WellFoundedInduction, TLAPS

(* A set of naturals that is not empty has a least member.                  *)
LEMMA MinIsLeast ==
    ASSUME NEW S \in SUBSET Nat, S # {}
    PROVE  Min(S) \in S /\ \A y \in S : Min(S) <= y
  <1> DEFINE R == {ss \in Nat \X Nat : ss[1] < ss[2]}
  <1>1. IsWellFoundedOn(R, Nat)
    <2>1. IsWellFoundedOn(OpToRel(<, Nat), Nat)
      BY NatLessThanWellFounded, Zenon
    <2>2. OpToRel(<, Nat) = R
      BY Zenon DEF OpToRel
    <2> HIDE DEF R
    <2>3. QED BY <2>1, <2>2, Zenon
  <1>2. PICK x \in S : \A y \in S : ~(<<y, x>> \in R)
    BY <1>1, WFMin, Zenon
  <1>3. ASSUME NEW y \in S PROVE x <= y
    <2>1. ~(<<y, x>> \in R)
      BY <1>2
    <2>2. <<y, x>> \in Nat \X Nat /\ x \in Nat /\ y \in Nat
      OBVIOUS
    <2>3. ~(<<y, x>>[1] < <<y, x>>[2])
      BY <2>1, <2>2
    <2>4. QED
      BY <2>2, <2>3
  <1>4. QED
    BY <1>3 DEF Min

(* A bounded set of naturals that is not empty has a greatest member: the   *)
(* least of its bounds.                                                     *)
LEMMA MaxIsGreatest ==
    ASSUME NEW n \in Nat, NEW S \in SUBSET (0 .. n), S # {}
    PROVE  Max(S) \in S /\ \A y \in S : y <= Max(S)
  <1> DEFINE U == {u \in Nat : \A y \in S : y <= u}
  <1>1. n \in U
    OBVIOUS
  <1>2. Min(U) \in U /\ \A u \in U : Min(U) <= u
    <2>1. U \in SUBSET Nat /\ U # {}
      BY <1>1
    <2> HIDE DEF U
    <2>2. QED
      BY <2>1, MinIsLeast
  <1> DEFINE m == Min(U)
  <1>3. m \in Nat /\ (\A y \in S : y <= m) /\ (\A u \in U : m <= u)
    BY <1>2
  <1> HIDE DEF m
  <1>4. m \in S
    <2> SUFFICES ASSUME m \notin S PROVE FALSE
      OBVIOUS
    <2>1. PICK x \in S : x \in 0 .. n
      OBVIOUS
    <2>2. m - 1 \in Nat
      BY <1>3, <2>1
    <2>3. \A y \in S : y <= m - 1
      BY <1>3, <2>2
    <2>4. m - 1 \in U
      BY <2>2, <2>3
    <2>5. QED
      BY <1>3, <2>2, <2>4
  <1>5. Max(S) \in S /\ \A y \in S : Max(S) >= y
    <2>1. \E x \in S : \A y \in S : x >= y
      BY <1>3, <1>4
    <2>2. QED
      BY <2>1 DEF Max
  <1>6. QED
    BY <1>5

-----------------------------------------------------------------------------
(* The order in which a fold takes the members of a set.                    *)
FirstOf(s) == CHOOSE x \in s : TRUE
RestOf(s) == s \ {FirstOf(s)}

LEMMA RestIsSmaller ==
    ASSUME NEW s, IsFiniteSet(s), s # {}
    PROVE  /\ FirstOf(s) \in s /\ RestOf(s) \subseteq s
           /\ IsFiniteSet(RestOf(s)) /\ Cardinality(RestOf(s)) = Cardinality(s) - 1
  <1>1. FirstOf(s) \in s
    BY DEF FirstOf
  <1>2. QED
    BY <1>1, FS_RemoveElement DEF RestOf

(* What holds of the empty set, and of a set when it holds without its      *)
(* first member, holds of every subset of a finite set.                     *)
LEMMA SubsetsOneByOne ==
    ASSUME NEW D, IsFiniteSet(D), NEW Good, {} \in Good,
           \A s \in SUBSET D : s # {} /\ RestOf(s) \in Good => s \in Good
    PROVE  SUBSET D \subseteq Good
  <1> SUFFICES ASSUME NEW s0 \in SUBSET D, s0 \notin Good PROVE FALSE
    OBVIOUS
  <1> DEFINE Bad == {Cardinality(s) : s \in {t \in SUBSET D : t \notin Good}}
  <1>1. \A s \in SUBSET D : IsFiniteSet(s) /\ Cardinality(s) \in Nat
    BY FS_Subset, FS_CardinalityType
  <1>2. Min(Bad) \in Bad /\ \A n \in Bad : Min(Bad) <= n
    <2>1. Bad \in SUBSET Nat /\ Bad # {}
      BY <1>1
    <2> HIDE DEF Bad
    <2>2. QED
      BY <2>1, MinIsLeast
  <1>3. PICK s \in SUBSET D : s \notin Good /\ Min(Bad) = Cardinality(s)
    BY <1>2
  <1>4. s # {} /\ RestOf(s) \in SUBSET D /\ Cardinality(RestOf(s)) = Cardinality(s) - 1
    BY <1>1, <1>3, RestIsSmaller
  <1>5. RestOf(s) \notin Good
    BY <1>3, <1>4
  <1>6. Cardinality(s) - 1 \in Bad
    BY <1>4, <1>5
  <1>7. Min(Bad) <= Cardinality(s) - 1
    <2> HIDE DEF Bad
    <2>1. QED
      BY <1>2, <1>6
  <1>8. Cardinality(s) \in Nat /\ Min(Bad) = Cardinality(s)
    BY <1>1, <1>3
  <1> HIDE DEF Bad
  <1>9. QED
    BY <1>7, <1>8

(* The partial sums of a function, as its fold takes them.                  *)
SumsOf(f) ==
    CHOOSE g : g = [s \in SUBSET DOMAIN f |->
                        IF s = {} THEN 0 ELSE f[FirstOf(s)] + g[RestOf(s)]]

LEMMA SumIs == ASSUME NEW f PROVE SumFunction(f) = SumsOf(f)[DOMAIN f]
  BY DEF SumFunction, SumFunctionOnSet, FoldFunctionOnSet, MapThenFoldSet, SumsOf,
         FirstOf, RestOf

LEMMA SumsOfExist ==
    ASSUME NEW f, IsFiniteSet(DOMAIN f)
    PROVE  SumsOf(f) = [s \in SUBSET DOMAIN f |->
                        IF s = {} THEN 0 ELSE f[FirstOf(s)] + SumsOf(f)[RestOf(s)]]
  <1> DEFINE D == DOMAIN f
             Small(n) == {s \in SUBSET D : Cardinality(s) <= n}
             Fits(g, n) == g = [s \in Small(n) |->
                                 IF s = {} THEN 0 ELSE f[FirstOf(s)] + g[RestOf(s)]]
             Bad == {n \in Nat : ~\E g : Fits(g, n)}
  <1>1. \A s \in SUBSET D :
            IsFiniteSet(s) /\ Cardinality(s) \in Nat /\ Cardinality(s) <= Cardinality(D)
    BY FS_Subset, FS_CardinalityType
  <1>2. Cardinality(D) \in Nat
    BY FS_CardinalityType
  <1>3. Bad = {}
    <2> SUFFICES ASSUME Bad # {} PROVE FALSE
      OBVIOUS
    <2> DEFINE m == Min(Bad)
    <2>1. m \in Bad /\ \A n \in Bad : m <= n
      <3>1. Bad \in SUBSET Nat
        OBVIOUS
      <3> HIDE DEF Bad
      <3>2. QED
        BY <3>1, MinIsLeast
    <2> HIDE DEF m
    <2>2. m \in Nat /\ ~\E g : Fits(g, m)
      BY <2>1
    <2>3. CASE m = 0
      <3> DEFINE g == [s \in Small(0) |-> 0]
      <3>1. \A s \in Small(0) : s = {}
        BY <1>1, FS_EmptySet
      <3>2. g = [s \in Small(0) |-> IF s = {} THEN 0 ELSE f[FirstOf(s)] + g[RestOf(s)]]
        BY <3>1
      <3> HIDE DEF g
      <3>3. QED
        BY <2>2, <2>3, <3>2
    <2>4. CASE m # 0
      <3>1. m - 1 \in Nat /\ ~(m <= m - 1)
        BY <2>2, <2>4
      <3>2. PICK g0 : Fits(g0, m - 1)
        <4>1. m - 1 \notin Bad
          <5> HIDE DEF Bad
          <5>1. QED
            BY <2>1, <3>1
        <4>2. QED
          BY <3>1, <4>1
      <3> DEFINE g == [s \in Small(m) |->
                        IF s = {} THEN 0 ELSE f[FirstOf(s)] + g0[RestOf(s)]]
      <3>3. ASSUME NEW s \in Small(m), s # {} PROVE g[RestOf(s)] = g0[RestOf(s)]
        <4>1. RestOf(s) \in SUBSET D /\ Cardinality(RestOf(s)) = Cardinality(s) - 1
          BY <1>1, <3>3, RestIsSmaller
        <4>2. RestOf(s) \in Small(m - 1) /\ RestOf(s) \in Small(m)
          BY <1>1, <2>2, <4>1
        <4>3. QED
          BY <3>2, <4>2
      <3>4. g = [s \in Small(m) |-> IF s = {} THEN 0 ELSE f[FirstOf(s)] + g[RestOf(s)]]
        BY <3>3
      <3> HIDE DEF g
      <3>5. QED
        BY <2>2, <3>4
    <2>5. QED
      BY <2>3, <2>4
  <1>4. Small(Cardinality(D)) = SUBSET D
    BY <1>1
  <1>5. \E g : g = [s \in SUBSET D |-> IF s = {} THEN 0 ELSE f[FirstOf(s)] + g[RestOf(s)]]
    <2>1. \E g : Fits(g, Cardinality(D))
      <3> HIDE DEF Fits
      <3>1. QED
        BY <1>2, <1>3
    <2>2. PICK g : Fits(g, Cardinality(D))
      BY <2>1
    <2>3. g = [s \in SUBSET D |-> IF s = {} THEN 0 ELSE f[FirstOf(s)] + g[RestOf(s)]]
      BY <1>4, <2>2
    <2>4. QED
      BY <2>3
  <1>6. QED
    BY <1>5 DEF SumsOf

LEMMA SumsOfStep ==
    ASSUME NEW D, IsFiniteSet(D), NEW f \in [D -> Nat]
    PROVE  /\ SumsOf(f)[{}] = 0
           /\ \A s \in SUBSET D :
                    s # {} => SumsOf(f)[s] = f[FirstOf(s)] + SumsOf(f)[RestOf(s)]
  BY SumsOfExist

(* SumFunction adds up naturals.                                            *)
LEMMA SumIsNat ==
    ASSUME NEW D, IsFiniteSet(D), NEW f \in [D -> Nat]
    PROVE  SumFunction(f) \in Nat
  <1> DEFINE Good == {s \in SUBSET D : SumsOf(f)[s] \in Nat}
  <1>1. {} \in Good
    BY SumsOfStep
  <1>2. ASSUME NEW s \in SUBSET D, s # {}, RestOf(s) \in Good PROVE s \in Good
    <2>1. FirstOf(s) \in D
      BY <1>2 DEF FirstOf
    <2>2. SumsOf(f)[s] = f[FirstOf(s)] + SumsOf(f)[RestOf(s)]
      BY <1>2, SumsOfStep
    <2>3. QED
      BY <1>2, <2>1, <2>2
  <1>3. D \in Good
    <2> HIDE DEF Good
    <2>1. QED
      BY <1>1, <1>2, SubsetsOneByOne
  <1>4. QED
    BY <1>3, SumIs

LEMMA SumOfZeros ==
    ASSUME NEW D, IsFiniteSet(D)
    PROVE  SumFunction([d \in D |-> 0]) = 0
  <1> DEFINE f == [d \in D |-> 0]
             Good == {s \in SUBSET D : SumsOf(f)[s] = 0}
  <1>0. f \in [D -> Nat] /\ \A d \in D : f[d] = 0
    OBVIOUS
  <1> HIDE DEF f
  <1>1. {} \in Good
    BY <1>0, SumsOfStep
  <1>2. ASSUME NEW s \in SUBSET D, s # {}, RestOf(s) \in Good PROVE s \in Good
    <2>1. FirstOf(s) \in D
      BY <1>2 DEF FirstOf
    <2>2. SumsOf(f)[s] = f[FirstOf(s)] + SumsOf(f)[RestOf(s)]
      BY <1>0, <1>2, SumsOfStep
    <2>3. QED
      BY <1>0, <1>2, <2>1, <2>2
  <1>3. D \in Good
    <2> HIDE DEF Good
    <2>1. QED
      BY <1>1, <1>2, SubsetsOneByOne
  <1>4. QED
    BY <1>0, <1>3, SumIs DEF f

(* One more of one member makes the sum one more.                           *)
LEMMA SumOfOneMore ==
    ASSUME NEW D, IsFiniteSet(D), NEW f \in [D -> Nat], NEW a \in D
    PROVE  SumFunction([f EXCEPT ![a] = @ + 1]) = SumFunction(f) + 1
  <1> DEFINE h == [f EXCEPT ![a] = @ + 1]
             Good == {s \in SUBSET D :
                        /\ SumsOf(f)[s] \in Nat
                        /\ SumsOf(h)[s] = SumsOf(f)[s] + (IF a \in s THEN 1 ELSE 0)}
  <1>0. /\ h \in [D -> Nat] /\ h[a] = f[a] + 1
        /\ \A d \in D : d # a => h[d] = f[d]
    OBVIOUS
  <1> HIDE DEF h
  <1>1. {} \in Good
    BY <1>0, SumsOfStep
  <1>2. ASSUME NEW s \in SUBSET D, s # {}, RestOf(s) \in Good PROVE s \in Good
    <2>1. FirstOf(s) \in D /\ FirstOf(s) \in s /\ RestOf(s) = s \ {FirstOf(s)}
      BY <1>2 DEF FirstOf, RestOf
    <2>2. /\ SumsOf(f)[s] = f[FirstOf(s)] + SumsOf(f)[RestOf(s)]
          /\ SumsOf(h)[s] = h[FirstOf(s)] + SumsOf(h)[RestOf(s)]
      BY <1>0, <1>2, SumsOfStep
    <2>3. /\ SumsOf(f)[RestOf(s)] \in Nat
          /\ SumsOf(h)[RestOf(s)] = SumsOf(f)[RestOf(s)] + (IF a \in RestOf(s) THEN 1 ELSE 0)
          /\ f[FirstOf(s)] \in Nat
      BY <1>2, <2>1
    <2>4. CASE FirstOf(s) = a
      <3>1. h[FirstOf(s)] = f[FirstOf(s)] + 1 /\ a \notin RestOf(s) /\ a \in s
        BY <1>0, <2>1, <2>4
      <3>2. QED
        BY <2>2, <2>3, <3>1
    <2>5. CASE FirstOf(s) # a
      <3>1. h[FirstOf(s)] = f[FirstOf(s)] /\ (a \in RestOf(s) <=> a \in s)
        BY <1>0, <2>1, <2>5
      <3>2. QED
        BY <2>2, <2>3, <3>1
    <2>6. QED
      BY <2>4, <2>5
  <1>3. D \in Good
    <2> HIDE DEF Good
    <2>1. QED
      BY <1>1, <1>2, SubsetsOneByOne
  <1>4. SumsOf(h)[D] = SumsOf(f)[D] + 1
    BY <1>3
  <1>5. DOMAIN h = D /\ DOMAIN f = D
    BY <1>0
  <1>6. QED
    BY <1>4, <1>5, SumIs DEF h

-----------------------------------------------------------------------------
(* A remainder is the only one.                                             *)
LEMMA OneRemainder ==
    ASSUME NEW n \in Nat \ {0}, NEW q \in Int, NEW r \in Int, NEW k \in Int, NEW t \in Int,
           0 <= r, r < n, 0 <= t, t < n, n * q + r = n * k + t
    PROVE  r = t
  OBVIOUS

LEMMA NextRemainder ==
    ASSUME NEW n \in Nat \ {0}, NEW s \in Nat
    PROVE  /\ s % n \in 0 .. n - 1
           /\ (s + 1) % n = IF (s % n) + 1 = n THEN 0 ELSE (s % n) + 1
  <1> DEFINE q == s \div n
             k == (s + 1) \div n
             r == s % n
             t == (s + 1) % n
  <1>1. q \in Int /\ k \in Int /\ r \in 0 .. n - 1 /\ t \in 0 .. n - 1
    OBVIOUS
  <1>2. r = s - q * n
    OBVIOUS
  <1>3. t = (s + 1) - k * n
    OBVIOUS
  <1> HIDE DEF q, k, r, t
  <1>4. CASE r + 1 = n
    <2>1. n * k + t = n * (q + 1) + 0
      BY <1>1, <1>2, <1>3, <1>4
    <2>2. t = 0
      BY <1>1, <2>1, OneRemainder
    <2>3. QED
      BY <1>1, <1>4, <2>2 DEF r, t
  <1>5. CASE r + 1 # n
    <2>1. n * k + t = n * q + (r + 1) /\ r + 1 < n
      BY <1>1, <1>2, <1>3, <1>5
    <2>2. t = r + 1
      BY <1>1, <2>1, OneRemainder
    <2>3. QED
      BY <1>1, <1>5, <2>2 DEF r, t
  <1>6. QED
    BY <1>4, <1>5
=============================================================================
