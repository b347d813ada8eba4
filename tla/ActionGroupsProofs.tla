-------------------------- MODULE ActionGroupsProofs --------------------------
(***************************************************************************)
(* Proofs about the distributions of action groups, for any number of      *)
(* pages, groups, shares, actions and executions: what the pages make of   *)
(* the shares, which groups the browser picks by them, and the chains of   *)
(* actions it starts.                                                      *)
(***************************************************************************)
EXTENDS ActionGroupsProps, WellFoundedInduction, FiniteSetTheorems, TLAPS

-----------------------------------------------------------------------------
(* Sums.  The provers have no induction over numbers; what takes its place *)
(* is that a set of numbers has a least one, and so a property that fails  *)
(* somewhere fails first at some number.                                   *)

LEMMA Least ==
  ASSUME NEW T \in SUBSET Nat, T # {} PROVE \E x \in T : \A y \in T : ~(y < x)
<1> DEFINE R == OpToRel(<, Nat)
<1>1. \A x, y \in Nat : y < x => <<y, x>> \in R
  BY DEF OpToRel
<1>2. IsWellFoundedOn(R, Nat)
  BY NatLessThanWellFounded
<1> HIDE DEF R
<1>3. \E x \in T : \A y \in T : ~(<<y, x>> \in R)
  BY <1>2, WFMin
<1> QED BY <1>1, <1>3

LEMMA Climb ==
  ASSUME NEW n \in Nat, NEW T, 0 \in T, \A i \in 1 .. n : i - 1 \in T => i \in T
  PROVE  0 .. n \subseteq T
<1> SUFFICES ASSUME ~(0 .. n \subseteq T) PROVE FALSE
  OBVIOUS
<1> DEFINE Out == {i \in Nat : i \in 0 .. n /\ i \notin T}
<1>1. Out # {} /\ Out \in SUBSET Nat
  OBVIOUS
<1> HIDE DEF Out
<1>2. PICK x \in Out : \A y \in Out : ~(y < x)
  BY <1>1, Least
<1>3. x \in 1 .. n /\ x \notin T
  BY <1>2 DEF Out
<1>4. x - 1 \in Nat /\ x - 1 \in 0 .. n /\ x - 1 < x
  BY <1>3
<1>5. x - 1 \in T
  BY <1>2, <1>4 DEF Out
<1> QED BY <1>3, <1>5

\* There is a running sum.
LEMMA SumExists ==
  ASSUME NEW n \in Nat, NEW d, \A i \in 1 .. n : d[i] \in Int
  PROVE  \E f \in [0 .. n -> Int] : f = [i \in 0 .. n |-> IF i = 0 THEN 0 ELSE f[i - 1] + d[i]]
<1> DEFINE Has(m) == \E f \in [0 .. m -> Int] :
                        f = [i \in 0 .. m |-> IF i = 0 THEN 0 ELSE f[i - 1] + d[i]]
<1> DEFINE T == {m \in Nat : Has(m)}
<1>1. Has(0)
  <2> DEFINE f == [i \in 0 .. 0 |-> 0]
  <2>1. f \in [0 .. 0 -> Int]
    OBVIOUS
  <2>2. f = [i \in 0 .. 0 |-> IF i = 0 THEN 0 ELSE f[i - 1] + d[i]]
    OBVIOUS
  <2> QED BY <2>1, <2>2
<1>2. ASSUME NEW m \in 1 .. n, Has(m - 1) PROVE Has(m)
  <2>1. PICK f \in [0 .. m - 1 -> Int] :
              f = [i \in 0 .. m - 1 |-> IF i = 0 THEN 0 ELSE f[i - 1] + d[i]]
    BY <1>2
  <2> DEFINE g == [i \in 0 .. m |-> IF i = m THEN f[m - 1] + d[m] ELSE f[i]]
  <2>2. f[m - 1] \in Int /\ d[m] \in Int /\ \A i \in 0 .. m : i # m => i \in 0 .. m - 1
    BY <2>1
  <2>3. g \in [0 .. m -> Int]
    BY <2>1, <2>2
  <2>4. ASSUME NEW i \in 0 .. m PROVE g[i] = IF i = 0 THEN 0 ELSE g[i - 1] + d[i]
    <3>1. CASE i = m
      BY <3>1
    <3>2. CASE i # m
      <4>1. i \in 0 .. m - 1 /\ g[i] = f[i] /\ (i # 0 => g[i - 1] = f[i - 1])
        BY <3>2
      <4>2. f[i] = IF i = 0 THEN 0 ELSE f[i - 1] + d[i]
        BY <2>1, <4>1
      <4> QED BY <4>1, <4>2
    <3> QED BY <3>1, <3>2
  <2>5. g = [i \in 0 .. m |-> IF i = 0 THEN 0 ELSE g[i - 1] + d[i]]
    <3>1. g = [i \in 0 .. m |-> g[i]]
      OBVIOUS
    <3> HIDE DEF g
    <3> QED BY <2>4, <3>1
  <2> QED BY <2>3, <2>5
<1> HIDE DEF Has
<1>3. \A i \in 1 .. n : i - 1 \in T => i \in T
  BY <1>2
<1>4. 0 \in T
  BY <1>1
<1> HIDE DEF T
<1>5. n \in T
  BY <1>3, <1>4, Climb
<1> QED BY <1>5 DEF T, Has

\* The shares of the groups are numbers.
Summable(gs) ==
  Len(gs) \in Nat /\ DOMAIN gs = 1 .. Len(gs) /\ \A i \in DOMAIN gs : gs[i].share \in Int

LEMMA SumsAre ==
  ASSUME NEW gs, Summable(gs), NEW at
  PROVE  /\ SharesUpTo(gs, at) \in [0 .. Len(gs) -> Int]
         /\ SharesUpTo(gs, at)[0] = 0
         /\ \A i \in 1 .. Len(gs) :
              SharesUpTo(gs, at)[i] = SharesUpTo(gs, at)[i - 1]
                                      + (IF i \in at THEN gs[i].share ELSE 0)
<1> DEFINE n == Len(gs)
<1> DEFINE d == [i \in 1 .. n |-> IF i \in at THEN gs[i].share ELSE 0]
<1>1. n \in Nat /\ \A i \in 1 .. n : d[i] \in Int /\ d[i] = IF i \in at THEN gs[i].share ELSE 0
  BY DEF Summable
<1>2. SharesUpTo(gs, at) = CHOOSE f :
        f = [i \in 0 .. n |-> IF i = 0 THEN 0 ELSE f[i - 1] + (IF i \in at THEN gs[i].share ELSE 0)]
  BY DEF SharesUpTo
<1>3. PICK f \in [0 .. n -> Int] : f = [i \in 0 .. n |-> IF i = 0 THEN 0 ELSE f[i - 1] + d[i]]
  <2> HIDE DEF n, d
  <2> QED BY <1>1, SumExists
<1>4. f = [i \in 0 .. n |-> IF i = 0 THEN 0 ELSE f[i - 1] + (IF i \in at THEN gs[i].share ELSE 0)]
  <2>1. \A i \in 0 .. n : f[i] = IF i = 0 THEN 0 ELSE f[i - 1] + (IF i \in at THEN gs[i].share ELSE 0)
    <3> SUFFICES ASSUME NEW i \in 0 .. n
                 PROVE  f[i] = IF i = 0 THEN 0 ELSE f[i - 1] + (IF i \in at THEN gs[i].share ELSE 0)
      OBVIOUS
    <3>1. f[i] = IF i = 0 THEN 0 ELSE f[i - 1] + d[i]
      BY <1>3
    <3>2. i # 0 => i \in 1 .. n
      BY <1>1
    <3> HIDE DEF n, d
    <3> QED BY <1>1, <3>1, <3>2
  <2> HIDE DEF n, d
  <2>2. f = [i \in 0 .. n |-> f[i]]
    OBVIOUS
  <2> QED BY <2>1, <2>2
<1> DEFINE S == SharesUpTo(gs, at)
<1>5. S = [i \in 0 .. n |-> IF i = 0 THEN 0 ELSE S[i - 1] + (IF i \in at THEN gs[i].share ELSE 0)]
  <2> HIDE DEF n
  <2> QED BY <1>2, <1>4, Zenon
<1> HIDE DEF n, d, S
<1>6. S[0] = 0 /\ \A i \in 1 .. n : S[i] = S[i - 1] + (IF i \in at THEN gs[i].share ELSE 0)
  BY <1>1, <1>5
<1>7. 0 .. n \subseteq {i \in 0 .. n : S[i] \in Int}
  <2> DEFINE T == {i \in 0 .. n : S[i] \in Int}
  <2>1. 0 \in T
    BY <1>1, <1>6
  <2>2. ASSUME NEW i \in 1 .. n, i - 1 \in T PROVE i \in T
    <3>1. (IF i \in at THEN gs[i].share ELSE 0) \in Int
      BY <1>1
    <3>2. S[i] = S[i - 1] + (IF i \in at THEN gs[i].share ELSE 0) /\ S[i - 1] \in Int
      BY <1>6, <2>2
    <3> QED BY <3>1, <3>2
  <2> HIDE DEF T
  <2>3. 0 .. n \subseteq T
    BY <1>1, <2>1, <2>2, Climb
  <2> QED BY <2>3 DEF T
<1>8. S \in [0 .. n -> Int]
  BY <1>5, <1>7
<1> QED BY <1>6, <1>8 DEF S, n

LEMMA SumType == ASSUME NEW gs, Summable(gs), NEW at PROVE SumAt(gs, at) \in Int
<1>1. Len(gs) \in 0 .. Len(gs)
  BY DEF Summable
<1> QED BY <1>1, SumsAre DEF SumAt

\* A sum depends on the shares at its places only.
Term(gs, at, i) == IF i \in at THEN gs[i].share ELSE 0
LEMMA SumsAgree ==
  ASSUME NEW gs, NEW hs, Summable(gs), Summable(hs), Len(hs) = Len(gs), NEW at, NEW bt,
         NEW n \in 0 .. Len(gs), \A i \in 1 .. n : Term(gs, at, i) = Term(hs, bt, i)
  PROVE  \A i \in 0 .. n : SharesUpTo(gs, at)[i] = SharesUpTo(hs, bt)[i]
<1> DEFINE S == SharesUpTo(gs, at)
           R == SharesUpTo(hs, bt)
           T == {i \in 0 .. n : S[i] = R[i]}
<1>1. /\ n \in Nat /\ 1 .. n \subseteq 1 .. Len(gs) /\ 0 \in 0 .. n /\ S[0] = 0 /\ R[0] = 0
      /\ \A i \in 1 .. Len(gs) : S[i] = S[i - 1] + Term(gs, at, i)
                                 /\ R[i] = R[i - 1] + Term(hs, bt, i)
  <2>1. /\ n \in Nat /\ 1 .. n \subseteq 1 .. Len(gs) /\ 0 \in 0 .. n
    BY DEF Summable
  <2>2. S[0] = 0 /\ \A i \in 1 .. Len(gs) : S[i] = S[i - 1] + Term(gs, at, i)
    BY SumsAre DEF Term
  <2>3. R[0] = 0 /\ \A i \in 1 .. Len(hs) : R[i] = R[i - 1] + Term(hs, bt, i)
    BY SumsAre DEF Term
  <2> HIDE DEF S, R
  <2> QED BY <2>1, <2>2, <2>3
<1> HIDE DEF S, R
<1>2. \A i \in 1 .. n : i - 1 \in T => i \in T
  BY <1>1
<1>3. 0 \in T
  BY <1>1
<1> HIDE DEF T
<1>4. 0 .. n \subseteq T
  BY <1>1, <1>2, <1>3, Climb
<1> QED BY <1>4 DEF T, S, R

LEMMA SumSame ==
  ASSUME NEW gs, NEW hs, Summable(gs), Summable(hs), Len(hs) = Len(gs), NEW at,
         \A i \in at \cap DOMAIN gs : gs[i].share = hs[i].share
  PROVE  SumAt(gs, at) = SumAt(hs, at)
<1>1. \A i \in 1 .. Len(gs) : Term(gs, at, i) = Term(hs, at, i)
  BY DEF Term, Summable
<1>2. Len(gs) \in 0 .. Len(gs)
  BY DEF Summable
<1> QED BY <1>1, <1>2, SumsAgree DEF SumAt

LEMMA SumJoin ==
  ASSUME NEW gs, Summable(gs), NEW at, NEW bt, at \cap bt = {}
  PROVE  SumAt(gs, at \cup bt) = SumAt(gs, at) + SumAt(gs, bt)
<1> DEFINE A == SharesUpTo(gs, at)
           B == SharesUpTo(gs, bt)
           C == SharesUpTo(gs, at \cup bt)
           n == Len(gs)
           T == {i \in 0 .. n : C[i] = A[i] + B[i]}
<1>1. /\ n \in Nat /\ A[0] = 0 /\ B[0] = 0 /\ C[0] = 0
      /\ \A i \in 0 .. n : A[i] \in Int /\ B[i] \in Int /\ C[i] \in Int
      /\ \A i \in 1 .. n : gs[i].share \in Int
  BY SumsAre DEF Summable
<1>2. \A i \in 1 .. n : /\ A[i] = A[i - 1] + (IF i \in at THEN gs[i].share ELSE 0)
                        /\ B[i] = B[i - 1] + (IF i \in bt THEN gs[i].share ELSE 0)
                        /\ C[i] = C[i - 1] + (IF i \in at \cup bt THEN gs[i].share ELSE 0)
  BY SumsAre
<1> HIDE DEF A, B, C, n
<1>3. ASSUME NEW i \in 1 .. n, i - 1 \in T PROVE i \in T
  <2>1. /\ i \in 0 .. n /\ C[i - 1] = A[i - 1] + B[i - 1] /\ ~(i \in at /\ i \in bt)
        /\ A[i - 1] \in Int /\ B[i - 1] \in Int /\ gs[i].share \in Int
    BY <1>1, <1>3
  <2>2. C[i] = A[i] + B[i]
    BY <1>2, <2>1
  <2> QED BY <2>1, <2>2
<1>4. 0 \in T
  BY <1>1
<1> HIDE DEF T
<1>5. n \in T
  <2>1. 0 .. n \subseteq T
    BY <1>1, <1>3, <1>4, Climb
  <2> QED BY <1>1, <2>1
<1> QED BY <1>5 DEF T, A, B, C, n, SumAt

LEMMA SumOne ==
  ASSUME NEW gs, Summable(gs), NEW p \in DOMAIN gs PROVE SumAt(gs, {p}) = gs[p].share
<1> DEFINE S == SharesUpTo(gs, {p})
           n == Len(gs)
           T == {i \in 0 .. n : S[i] = IF i < p THEN 0 ELSE gs[p].share}
<1>1. /\ n \in Nat /\ p \in 1 .. n /\ gs[p].share \in Int /\ S[0] = 0
      /\ \A i \in 1 .. n : S[i] = S[i - 1] + (IF i \in {p} THEN gs[i].share ELSE 0)
  BY SumsAre DEF Summable
<1> HIDE DEF S, n
<1>2. ASSUME NEW i \in 1 .. n, i - 1 \in T PROVE i \in T
  <2>1. S[i - 1] = IF i - 1 < p THEN 0 ELSE gs[p].share
    BY <1>2
  <2>2. CASE i = p
    BY <1>1, <2>1, <2>2
  <2>3. CASE i # p
    BY <1>1, <2>1, <2>3
  <2> QED BY <2>2, <2>3
<1>3. 0 \in T
  BY <1>1
<1> HIDE DEF T
<1>4. 0 .. n \subseteq T
  BY <1>1, <1>2, <1>3, Climb
<1>5. n \in T
  BY <1>1, <1>4
<1> QED BY <1>1, <1>5 DEF T, S, n, SumAt

-----------------------------------------------------------------------------
(* The division of a whole.                                                *)

LEMMA Quotient ==
  ASSUME NEW n \in Nat \ {0}, NEW whole \in Int
  PROVE  /\ whole \div n \in Int /\ whole % n \in Nat
         /\ n * (whole \div n) + (whole % n) = whole
         /\ whole >= n => whole \div n >= 1
<1>1. whole \div n \in Int /\ whole % n \in Nat
  BY SMT
<1>2. n * (whole \div n) + (whole % n) = whole
  BY SMT
<1>3. whole % n < n
  BY SMT
<1>4. whole >= n => whole \div n >= 1
  BY <1>1, <1>2, <1>3, SMT
<1> QED BY <1>1, <1>2, <1>4

LEMMA Products ==
  ASSUME NEW k \in Int, NEW d \in Int PROVE k * d \in Int /\ (k + 1) * d = k * d + d /\ 0 * d = 0
BY SMT

LEMMA FirstOf ==
  ASSUME NEW at \in SUBSET Nat, at # {} PROVE Min(at) \in at /\ \A i \in at : Min(at) <= i
<1>1. \E x \in at : \A y \in at : x <= y
  BY Least
<1> QED BY <1>1 DEF Min

GroupDoc == [id : Nat, share : Int, locked : BOOLEAN]
Distribution == Seq(GroupDoc)

LEMMA Sums ==
  ASSUME NEW gs \in Distribution PROVE Summable(gs) /\ \A i \in DOMAIN gs : gs[i] \in GroupDoc
<1>1. Len(gs) \in Nat /\ DOMAIN gs = 1 .. Len(gs) /\ \A i \in DOMAIN gs : gs[i] \in GroupDoc
  BY DEF Distribution
<1>2. \A i \in DOMAIN gs : gs[i].share \in Int
  BY <1>1 DEF GroupDoc
<1> QED BY <1>1, <1>2 DEF Summable

\* A function on the places of a distribution is a sequence.
LEMMA Places ==
  ASSUME NEW gs \in Distribution, NEW hs, DOMAIN hs = DOMAIN gs, hs = [i \in DOMAIN hs |-> hs[i]],
         \A i \in DOMAIN gs : hs[i] \in GroupDoc
  PROVE  hs \in Distribution /\ Len(hs) = Len(gs)
<1>1. DOMAIN gs = 1 .. Len(gs) /\ Len(gs) \in Nat
  BY DEF Distribution
<1>2. hs = [i \in 1 .. Len(gs) |-> hs[i]]
  BY <1>1
<1>3. \A i \in 1 .. Len(gs) : hs[i] \in GroupDoc
  BY <1>1
<1> QED BY <1>1, <1>2, <1>3 DEF Distribution

LEMMA Counts ==
  ASSUME NEW n \in Nat, NEW at, at \subseteq 1 .. n
  PROVE  /\ IsFiniteSet(at) /\ Cardinality(at) \in Nat /\ (Cardinality(at) = 0 <=> at = {})
         /\ Cardinality(at) <= n
<1>1. IsFiniteSet(1 .. n) /\ Cardinality(1 .. n) = n
  BY FS_Interval
<1>2. IsFiniteSet(at) /\ Cardinality(at) <= n
  BY <1>1, FS_Subset
<1> QED BY <1>2, FS_CardinalityType, FS_EmptySet

LEMMA Division ==
  ASSUME NEW gs \in Distribution, NEW at, at \subseteq DOMAIN gs, at # {}, NEW whole \in Int
  PROVE  /\ Divide(gs, at, whole) \in Distribution /\ Len(Divide(gs, at, whole)) = Len(gs)
         /\ \A i \in DOMAIN gs : /\ Divide(gs, at, whole)[i].id = gs[i].id
                                 /\ Divide(gs, at, whole)[i].locked = gs[i].locked
                                 /\ i \notin at => Divide(gs, at, whole)[i] = gs[i]
         /\ SumAt(Divide(gs, at, whole), at) = whole
         /\ whole >= Cardinality(at) => \A i \in at : Divide(gs, at, whole)[i].share >= 1
<1> DEFINE n == Cardinality(at)
           q == whole \div n
           r == whole % n
           part == [i \in DOMAIN gs |-> q + (IF i = Min(at) THEN r ELSE 0)]
           hs == [i \in DOMAIN gs |-> IF i \in at THEN [gs[i] EXCEPT !.share = part[i]] ELSE gs[i]]
<1>1. hs = Divide(gs, at, whole)
  BY DEF Divide
<1>2. Len(gs) \in Nat /\ DOMAIN gs = 1 .. Len(gs) /\ at \subseteq 1 .. Len(gs)
  BY DEF Distribution
<1>3. n \in Nat \ {0}
  BY <1>2, Counts
<1>4. q \in Int /\ r \in Nat /\ n * q + r = whole /\ (whole >= n => q >= 1)
  <2> HIDE DEF n
  <2> QED BY <1>3, Quotient
<1> HIDE DEF n, q, r
<1>5. Min(at) \in at /\ Min(at) \in 1 .. Len(gs) /\ \A i \in at : Min(at) <= i
  <2>1. at \in SUBSET Nat
    BY <1>2
  <2> QED BY <1>2, <2>1, FirstOf
<1>6. \A i \in DOMAIN gs : part[i] \in Int /\ part[i] = q + (IF i = Min(at) THEN r ELSE 0)
  BY <1>4
<1> HIDE DEF part
<1>7. \A i \in DOMAIN gs : /\ gs[i] \in GroupDoc /\ hs[i] \in GroupDoc
                           /\ hs[i].id = gs[i].id /\ hs[i].locked = gs[i].locked
                           /\ i \in at => hs[i].share = part[i]
                           /\ i \notin at => hs[i] = gs[i]
  <2> SUFFICES ASSUME NEW i \in DOMAIN gs
               PROVE  /\ gs[i] \in GroupDoc /\ hs[i] \in GroupDoc
                      /\ hs[i].id = gs[i].id /\ hs[i].locked = gs[i].locked
                      /\ i \in at => hs[i].share = part[i]
                      /\ i \notin at => hs[i] = gs[i]
    OBVIOUS
  <2>1. gs[i] \in GroupDoc /\ part[i] \in Int
    BY <1>6, Sums
  <2> QED BY <2>1 DEF GroupDoc
<1>8. DOMAIN hs = DOMAIN gs /\ hs = [i \in DOMAIN hs |-> hs[i]]
  OBVIOUS
<1> HIDE DEF hs
<1>9. hs \in Distribution /\ Len(hs) = Len(gs)
  BY <1>7, <1>8, Places
<1>10. SumAt(hs, at) = whole
  <2> DEFINE S == SharesUpTo(hs, at)
             C == [i \in 0 .. Len(gs) |-> Cardinality(at \cap (1 .. i))]
             T == {i \in 0 .. Len(gs) : S[i] = C[i] * q + (IF Min(at) <= i THEN r ELSE 0)}
  <2>1. /\ S[0] = 0
        /\ \A i \in 1 .. Len(gs) : S[i] = S[i - 1] + (IF i \in at THEN hs[i].share ELSE 0)
    BY <1>9, Sums, SumsAre
  <2>2. C[0] = 0 /\ C[Len(gs)] = n
    <3>1. at \cap (1 .. 0) = {} /\ at \cap (1 .. Len(gs)) = at
      BY <1>2
    <3>2. C[0] = Cardinality(at \cap (1 .. 0)) /\ C[Len(gs)] = Cardinality(at \cap (1 .. Len(gs)))
      BY <1>2
    <3> QED BY <3>1, <3>2, FS_EmptySet DEF n
  <2>3. ASSUME NEW i \in 1 .. Len(gs)
        PROVE  C[i - 1] \in Nat /\ C[i] = C[i - 1] + (IF i \in at THEN 1 ELSE 0)
    <3> DEFINE B == at \cap (1 .. i - 1)
    <3>1. IsFiniteSet(B) /\ i \notin B /\ Cardinality(B) \in Nat
      BY <1>2, Counts
    <3>2. at \cap (1 .. i) = IF i \in at THEN B \cup {i} ELSE B
      BY <1>2
    <3>3. C[i] = Cardinality(at \cap (1 .. i)) /\ C[i - 1] = Cardinality(B)
      BY <1>2
    <3> HIDE DEF B
    <3>4. IsFiniteSet(B) => Cardinality(B \cup {i}) = Cardinality(B) + 1
      BY <3>1, FS_AddElement
    <3>5. Cardinality(at \cap (1 .. i)) = Cardinality(B) + (IF i \in at THEN 1 ELSE 0)
      <4>1. CASE i \in at
        <5>1. at \cap (1 .. i) = B \cup {i}
          BY <3>2, <4>1
        <5> QED BY <3>1, <3>4, <4>1, <5>1
      <4>2. CASE i \notin at
        <5>1. at \cap (1 .. i) = B
          BY <3>2, <4>2
        <5>2. Cardinality(at \cap (1 .. i)) = Cardinality(B)
          BY <5>1, Zenon
        <5> QED BY <3>1, <4>2, <5>2
      <4> QED BY <4>1, <4>2
    <3> HIDE DEF C
    <3> QED BY <3>1, <3>3, <3>5
  <2> HIDE DEF C, S
  <2>4. ASSUME NEW i \in 1 .. Len(gs), i - 1 \in T PROVE i \in T
    <3>1. S[i - 1] = C[i - 1] * q + (IF Min(at) <= i - 1 THEN r ELSE 0)
      BY <2>4
    <3>2. /\ C[i - 1] * q \in Int /\ (C[i - 1] + 1) * q = C[i - 1] * q + q
      BY <1>4, <2>3, Products
    <3>3. CASE i \notin at
      <4>1. S[i] = S[i - 1] + 0 /\ C[i] = C[i - 1] /\ Min(at) # i
        BY <1>5, <2>1, <2>3, <3>3
      <4>2. Min(at) <= i <=> Min(at) <= i - 1
        BY <1>5, <4>1
      <4> DEFINE a == C[i - 1] * q
      <4>3. a \in Int /\ S[i - 1] = a + (IF Min(at) <= i - 1 THEN r ELSE 0) /\ C[i] * q = a
        BY <3>1, <3>2, <4>1
      <4> HIDE DEF a
      <4>4. S[i] = a + (IF Min(at) <= i THEN r ELSE 0)
        BY <1>4, <4>1, <4>2, <4>3
      <4> QED BY <4>3, <4>4
    <3>4. CASE i \in at
      <4>1. /\ S[i] = S[i - 1] + (q + (IF i = Min(at) THEN r ELSE 0)) /\ C[i] = C[i - 1] + 1
            /\ Min(at) <= i
        <5>1. hs[i].share = part[i] /\ part[i] = q + (IF i = Min(at) THEN r ELSE 0)
          BY <1>2, <1>6, <1>7, <3>4
        <5>2. S[i] = S[i - 1] + hs[i].share /\ C[i] = C[i - 1] + 1
          BY <2>1, <2>3, <3>4
        <5>3. Min(at) <= i
          BY <1>5, <3>4
        <5> QED BY <5>1, <5>2, <5>3
      <4> DEFINE a == C[i - 1] * q
      <4>2. /\ a \in Int /\ S[i - 1] = a + (IF Min(at) <= i - 1 THEN r ELSE 0)
            /\ C[i] * q = a + q
        BY <3>1, <3>2, <4>1
      <4> HIDE DEF a
      <4>3. S[i] = a + q + r
        BY <1>4, <1>5, <4>1, <4>2
      <4> QED BY <1>4, <4>1, <4>2, <4>3
    <3> QED BY <3>3, <3>4
  <2>5. 0 \in T
    <3>1. C[0] * q = 0
      BY <1>4, <2>2, Products
    <3>2. ~(Min(at) <= 0)
      BY <1>5
    <3> QED BY <1>2, <2>1, <3>1, <3>2
  <2> HIDE DEF T
  <2>6. 0 .. Len(gs) \subseteq T
    BY <1>2, <2>4, <2>5, Climb
  <2>7. S[Len(gs)] = C[Len(gs)] * q + (IF Min(at) <= Len(gs) THEN r ELSE 0)
    BY <1>2, <2>6 DEF T
  <2>8. S[Len(gs)] = n * q + r
    BY <1>5, <2>2, <2>7
  <2> QED BY <1>4, <1>9, <2>8 DEF SumAt, S
<1>11. whole >= n => \A i \in at : hs[i].share >= 1
  <2>1. \A i \in at : hs[i].share = q + (IF i = Min(at) THEN r ELSE 0)
    BY <1>6, <1>7
  <2> QED BY <1>4, <2>1
<1>12. /\ hs \in Distribution /\ Len(hs) = Len(gs)
       /\ \A i \in DOMAIN gs : /\ hs[i].id = gs[i].id
                               /\ hs[i].locked = gs[i].locked
                               /\ i \notin at => hs[i] = gs[i]
       /\ SumAt(hs, at) = whole
       /\ whole >= Cardinality(at) => \A i \in at : hs[i].share >= 1
  BY <1>7, <1>9, <1>10, <1>11 DEF n
<1> QED BY <1>1, <1>12

-----------------------------------------------------------------------------
(* The pages.                                                              *)

Update == [to : GroupDoc, was : GroupDoc \cup {None}]
PageDoc == [seen : Distribution, dist : Distribution, saving : SUBSET Update,
            due : {"no", "first", "save", "dialog"}, failed : BOOLEAN]
EditorType ==
  /\ groups \in Distribution /\ made \in Nat /\ page \in [Page -> PageDoc]
  /\ broken \in BOOLEAN /\ clashed \in BOOLEAN

\* The groups of a distribution have numbers of their own, of those given out so far.
Numbered(gs, m) ==
  \A i \in DOMAIN gs : /\ gs[i].id <= m
                       /\ \A j \in DOMAIN gs : gs[j].id = gs[i].id => j = i

\* A page saves what it has, each group once, and does not load meanwhile.
SavesOwn(pg) ==
  /\ \A u \in pg.saving : /\ \E j \in DOMAIN pg.dist : u.to = pg.dist[j]
                          /\ \A w \in pg.saving : w.to.id = u.to.id => w = u
  /\ pg.due # "no" => pg.saving = {}
EditorInv ==
  /\ EditorType
  /\ made <= MaxGroups /\ Len(groups) <= made /\ Numbered(groups, made)
  /\ \A p \in Page : /\ Numbered(page[p].seen, made) /\ Numbered(page[p].dist, made)
                     /\ SavesOwn(page[p]) /\ (page[p].failed => broken)

\* A group gets its share before it can be locked; a page deals in shares of 1 at least.
Parts(gs) == \A i \in DOMAIN gs : gs[i].share >= 1
SharesGiven(gs) ==
  \A i \in DOMAIN gs : gs[i].share >= 1 \/ (gs[i].share = Unset /\ ~gs[i].locked)

\* What a page that is saving has read is what there is, and what it has written is
\* what it has.
Tracks(pg, gs) ==
  /\ \A u \in pg.saving, i \in DOMAIN gs :
       u.was # None /\ gs[i].id = u.to.id => gs[i].share = u.was.share
  /\ \A i \in DOMAIN gs, j \in DOMAIN pg.dist :
       gs[i].id = pg.dist[j].id =>
         gs[i].share = pg.dist[j].share \/ \E u \in pg.saving : u.to = pg.dist[j]

\* A page that has seen groups out of balance has the same groups in balance.
Unsettled(gs) == gs # <<>> /\ ~AllLocked(gs) /\ NeedsBalance(gs)
SameGroups(gs, hs) == Len(gs) = Len(hs) /\ \A i \in DOMAIN gs : gs[i].id = hs[i].id
BalancedAsSeen(pg) == Unsettled(pg.seen) => SameGroups(pg.dist, pg.seen) /\ SumOf(pg.dist) = Total

\* A page is going to look at groups it has not seen.
Looks(pg, gs) == pg.saving # {} \/ pg.due = "first" \/ (pg.due # "no" /\ pg.seen # gs)

\* While no page has failed to save and they saved one at a time: groups out of balance
\* are going to be looked at.
CalmInv ==
  Calm =>
    /\ SharesGiven(groups)
    /\ \A p \in Page : /\ Parts(page[p].dist) /\ BalancedAsSeen(page[p])
                       /\ page[p].saving # {} => Tracks(page[p], groups)
    /\ \A p, q \in Page : page[p].saving # {} /\ page[q].saving # {} => p = q
    /\ Unsettled(groups) /\ Page # {} => \E p \in Page : Looks(page[p], groups)

-----------------------------------------------------------------------------
(* What the web application does to shares.                                *)

LEMMA PlacesOf ==
  ASSUME NEW gs \in Distribution
  PROVE  /\ Len(gs) \in Nat /\ DOMAIN gs = 1 .. Len(gs)
         /\ Locked(gs) \subseteq DOMAIN gs /\ Open(gs) \subseteq DOMAIN gs
         /\ Locked(gs) \cap Open(gs) = {} /\ Locked(gs) \cup Open(gs) = DOMAIN gs
         /\ SumAt(gs, Locked(gs)) \in Int /\ Cardinality(Open(gs)) \in Nat
         /\ \A i \in DOMAIN gs : gs[i].id \in Nat /\ gs[i].share \in Int /\ gs[i].locked \in BOOLEAN
<1>1. Len(gs) \in Nat /\ DOMAIN gs = 1 .. Len(gs)
  BY DEF Distribution
<1>2. Locked(gs) \subseteq DOMAIN gs /\ Open(gs) \subseteq DOMAIN gs
      /\ Locked(gs) \cap Open(gs) = {} /\ Locked(gs) \cup Open(gs) = DOMAIN gs
  BY DEF Locked, Open
<1>3. SumAt(gs, Locked(gs)) \in Int
  BY Sums, SumType
<1>4. Cardinality(Open(gs)) \in Nat
  BY <1>1, <1>2, Counts
<1>5. \A i \in DOMAIN gs : gs[i].id \in Nat /\ gs[i].share \in Int /\ gs[i].locked \in BOOLEAN
  BY Sums DEF GroupDoc
<1> QED BY <1>1, <1>2, <1>3, <1>4, <1>5

\* A share set by a user leaves the whole to the others, and to each of them a part.
LEMMA WithShareKeeps ==
  ASSUME NEW gs \in Distribution, NEW i \in DOMAIN gs, NEW v \in Int, Settable(gs, i, v)
  PROVE  /\ WithShare(gs, i, v) \in Distribution /\ SameGroups(WithShare(gs, i, v), gs)
         /\ SumOf(WithShare(gs, i, v)) = Total
         /\ Parts(gs) => Parts(WithShare(gs, i, v))
<1> DEFINE n == Cardinality(Open(gs))
           w == SumAt(gs, Locked(gs))
           fs == [gs EXCEPT ![i].share = v]
           at == Open(gs) \ {i}
           hs == WithShare(gs, i, v)
<1>1. /\ v >= 1 /\ i \in Open(gs) /\ n > 1 /\ v <= Total - w - (n - 1)
      /\ w \in Int /\ n \in Nat /\ Total \in Nat
  BY PlacesOf, TotalAssumption DEF Settable
<1>2. IsFiniteSet(Open(gs)) /\ IsFiniteSet(at) /\ Cardinality(at) = n - 1 /\ at # {}
  <2>1. IsFiniteSet(Open(gs))
    BY PlacesOf, Counts
  <2>2. IsFiniteSet(at) /\ Cardinality(at) = n - 1
    BY <1>1, <2>1, FS_RemoveElement
  <2> QED BY <1>1, <2>1, <2>2, FS_EmptySet
<1>3. /\ fs \in Distribution /\ DOMAIN fs = DOMAIN gs /\ Len(fs) = Len(gs)
      /\ fs[i].share = v /\ fs[i].id = gs[i].id /\ fs[i].locked = gs[i].locked
      /\ \A j \in DOMAIN gs \ {i} : fs[j] = gs[j]
  <2>1. gs[i] \in GroupDoc
    BY Sums
  <2>2. [gs[i] EXCEPT !.share = v] \in GroupDoc
    BY <2>1 DEF GroupDoc
  <2>3. /\ [gs[i] EXCEPT !.share = v].share = v /\ [gs[i] EXCEPT !.share = v].id = gs[i].id
        /\ [gs[i] EXCEPT !.share = v].locked = gs[i].locked
    BY <2>1 DEF GroupDoc
  <2>4. fs = [gs EXCEPT ![i] = [gs[i] EXCEPT !.share = v]]
    OBVIOUS
  <2>5. gs \in Seq(GroupDoc) /\ gs = [j \in DOMAIN gs |-> gs[j]]
    BY DEF Distribution
  <2>6. fs \in Seq(GroupDoc)
    BY <2>2, <2>4, <2>5
  <2> DEFINE g == [gs[i] EXCEPT !.share = v]
  <2> HIDE DEF fs, g
  <2>7. DOMAIN fs = DOMAIN gs /\ fs[i] = g /\ \A j \in DOMAIN gs \ {i} : fs[j] = gs[j]
    BY <2>4, <2>5 DEF g
  <2>8. g.share = v /\ g.id = gs[i].id /\ g.locked = gs[i].locked
    BY <2>3 DEF g
  <2>9. Len(fs) = Len(gs)
    BY <2>5, <2>6, <2>7
  <2> QED BY <2>6, <2>7, <2>8, <2>9 DEF Distribution
<1>4. hs = Divide(fs, at, Total - w - v)
  BY DEF WithShare
<1>5. /\ at \subseteq DOMAIN fs /\ Total - w - v \in Int /\ Total - w - v >= Cardinality(at)
  <2>1. at \subseteq DOMAIN fs
    BY <1>3, PlacesOf
  <2> HIDE DEF at, w, n
  <2>2. Total - w - v \in Int /\ Total - w - v >= Cardinality(at)
    BY <1>1, <1>2
  <2> QED BY <2>1, <2>2
<1> HIDE DEF fs, hs, n, w, at
<1>6. /\ hs \in Distribution /\ Len(hs) = Len(fs)
      /\ \A j \in DOMAIN fs : hs[j].id = fs[j].id /\ (j \notin at => hs[j] = fs[j])
      /\ SumAt(hs, at) = Total - w - v
      /\ \A j \in at : hs[j].share >= 1
  BY <1>2, <1>3, <1>4, <1>5, Division
<1>7. SameGroups(hs, gs)
  <2>1. DOMAIN hs = DOMAIN gs
    BY <1>3, <1>6 DEF Distribution
  <2> QED BY <1>3, <1>6, <2>1 DEF SameGroups
<1>8. SumOf(hs) = Total
  <2>1. /\ Summable(hs) /\ Summable(gs) /\ Len(hs) = Len(gs) /\ DOMAIN hs = DOMAIN gs
        /\ i \in DOMAIN hs
    BY <1>3, <1>6, Sums DEF Summable
  <2>2. SumAt(hs, Locked(gs)) = w
    <3>1. \A j \in Locked(gs) \cap DOMAIN gs : gs[j].share = hs[j].share
      BY <1>1, <1>3, <1>6, PlacesOf DEF at
    <3> QED BY <2>1, <3>1, SumSame DEF w
  <2>3. SumAt(hs, {i}) = v
    BY <1>3, <1>6, <2>1, SumOne DEF at
  <2>4. SumAt(hs, at \cup {i}) = Total - w
    <3>1. at \cap {i} = {}
      BY DEF at
    <3>2. SumAt(hs, at \cup {i}) = SumAt(hs, at) + SumAt(hs, {i})
      BY <2>1, <3>1, SumJoin
    <3> QED BY <1>1, <1>6, <2>3, <3>2
  <2>5. SumAt(hs, Locked(gs) \cup (at \cup {i})) = w + (Total - w)
    <3>1. Locked(gs) \cap (at \cup {i}) = {}
      BY <1>1, PlacesOf DEF at
    <3>2. SumAt(hs, Locked(gs) \cup (at \cup {i})) = SumAt(hs, Locked(gs)) + SumAt(hs, at \cup {i})
      BY <2>1, <3>1, SumJoin
    <3> QED BY <2>2, <2>4, <3>2
  <2>6. Locked(gs) \cup (at \cup {i}) = DOMAIN hs
    BY <1>1, <2>1, PlacesOf DEF at
  <2>7. SumOf(hs) = w + (Total - w)
    BY <2>5, <2>6 DEF SumOf
  <2> QED BY <1>1, <2>7
<1>9. Parts(gs) => Parts(hs)
  <2>1. DOMAIN hs = DOMAIN gs
    BY <1>3, <1>6 DEF Distribution
  <2> SUFFICES ASSUME Parts(gs), NEW j \in DOMAIN gs PROVE hs[j].share >= 1
    BY <2>1 DEF Parts
  <2>2. CASE j \in at
    BY <1>6, <2>2
  <2>3. CASE j \notin at
    BY <1>1, <1>3, <1>6, <2>3 DEF Parts
  <2> QED BY <2>2, <2>3
<1> QED BY <1>6, <1>7, <1>8, <1>9 DEF hs

\* Shares that are balanced make up the whole, unless all of them are locked, and are
\* 1 at least.
LEMMA BalancedKeeps ==
  ASSUME NEW gs \in Distribution, gs # <<>>, Len(gs) <= Total
  PROVE  /\ Balanced(gs) \in Distribution /\ SameGroups(Balanced(gs), gs)
         /\ ~AllLocked(gs) => SumOf(Balanced(gs)) = Total
         /\ (\A i \in DOMAIN gs : gs[i].share >= 1 \/ ~gs[i].locked) => Parts(Balanced(gs))
<1> DEFINE n == Cardinality(Open(gs))
           w == SumAt(gs, Locked(gs))
           hs == Balanced(gs)
<1>1. w \in Int /\ n \in Nat /\ Total \in Nat /\ DOMAIN gs # {} /\ Cardinality(DOMAIN gs) = Len(gs)
      /\ (n = 0 <=> Open(gs) = {})
  <2>1. DOMAIN gs # {}
    <3>1. gs \in Seq(GroupDoc) /\ Len(gs) # 0 /\ Len(gs) \in Nat
      BY DEF Distribution
    <3>2. 1 \in DOMAIN gs
      BY <3>1
    <3> QED BY <3>2
  <2>2. Cardinality(DOMAIN gs) = Len(gs)
    BY PlacesOf, FS_Interval
  <2>3. n = 0 <=> Open(gs) = {}
    BY PlacesOf, Counts
  <2> QED BY <2>1, <2>2, <2>3, PlacesOf, TotalAssumption
<1>2. CASE LocksFit(gs) /\ Open(gs) = {}
  <2>1. hs = Divide(gs, {}, Total - w)
    BY <1>2 DEF Balanced
  <2>2. Divide(gs, {}, Total - w) = [i \in DOMAIN gs |-> gs[i]]
    BY DEF Divide
  <2>3. hs = gs
    BY <2>1, <2>2 DEF Distribution
  <2>4. \A i \in DOMAIN gs : gs[i].locked
    BY <1>2 DEF Open, Locked
  <2> QED BY <1>2, <2>3, <2>4 DEF AllLocked, SameGroups, Parts
<1>3. CASE LocksFit(gs) /\ Open(gs) # {}
  <2>1. hs = Divide(gs, Open(gs), Total - w) /\ w + n <= Total
    BY <1>3 DEF Balanced, LocksFit
  <2>2. Total - w \in Int /\ Total - w >= n
    BY <1>1, <2>1
  <2> HIDE DEF hs, w, n
  <2>3. /\ hs \in Distribution /\ Len(hs) = Len(gs)
        /\ \A i \in DOMAIN gs : hs[i].id = gs[i].id /\ (i \notin Open(gs) => hs[i] = gs[i])
        /\ SumAt(hs, Open(gs)) = Total - w
        /\ \A i \in Open(gs) : hs[i].share >= 1
    <3>1. Total - w >= Cardinality(Open(gs)) /\ Open(gs) \subseteq DOMAIN gs
      BY <2>2, PlacesOf DEF n
    <3> QED BY <1>3, <2>1, <2>2, <3>1, Division
  <2>4. DOMAIN hs = DOMAIN gs /\ Summable(hs) /\ Summable(gs)
    BY <2>3, Sums DEF Summable
  <2>5. SumAt(hs, Locked(gs)) = w
    <3>1. \A j \in Locked(gs) \cap DOMAIN gs : gs[j].share = hs[j].share
      BY <2>3, PlacesOf
    <3> QED BY <2>3, <2>4, <3>1, SumSame DEF w
  <2>6. SumAt(hs, Locked(gs) \cup Open(gs)) = SumAt(hs, Locked(gs)) + SumAt(hs, Open(gs))
    BY <2>4, PlacesOf, SumJoin
  <2>7. SumOf(hs) = w + (Total - w)
    <3>1. Locked(gs) \cup Open(gs) = DOMAIN hs
      BY <2>4, PlacesOf
    <3> QED BY <2>3, <2>5, <2>6, <3>1 DEF SumOf
  <2>8. (\A i \in DOMAIN gs : gs[i].share >= 1 \/ ~gs[i].locked) => Parts(hs)
    BY <2>3, <2>4 DEF Parts, Open, Locked
  <2> QED BY <1>1, <2>3, <2>4, <2>7, <2>8 DEF SameGroups, hs, w
<1>4. CASE ~LocksFit(gs)
  <2>1. hs = Divide(gs, DOMAIN gs, Total)
    BY <1>4 DEF Balanced
  <2> HIDE DEF hs
  <2>2. /\ hs \in Distribution /\ Len(hs) = Len(gs)
        /\ \A i \in DOMAIN gs : hs[i].id = gs[i].id
        /\ SumAt(hs, DOMAIN gs) = Total
        /\ \A i \in DOMAIN gs : hs[i].share >= 1
    BY <1>1, <2>1, Division
  <2>3. DOMAIN hs = DOMAIN gs
    BY <2>2, PlacesOf DEF Distribution
  <2> QED BY <2>2, <2>3 DEF SameGroups, Parts, SumOf, hs
<1> QED BY <1>2, <1>3, <1>4

-----------------------------------------------------------------------------
(* Steps of the pages.                                                     *)

\* What a step has to see to: the page it changes, the groups, and the other pages that
\* know them.
Steps(p, new) ==
  /\ page' = [page EXCEPT ![p] = new]
  /\ groups' \in Distribution /\ made' \in Nat /\ made <= made' /\ made' <= MaxGroups
  /\ broken' \in BOOLEAN /\ clashed' \in BOOLEAN /\ (broken => broken')
  /\ Len(groups') <= made' /\ Numbered(groups', made')
  /\ Numbered(new.seen, made) /\ Numbered(new.dist, made)
  /\ SavesOwn(new) /\ (new.failed => broken')
CalmSteps(p, new) ==
  /\ Calm
  /\ SharesGiven(groups') /\ Parts(new.dist) /\ BalancedAsSeen(new)
  /\ new.saving # {} => /\ Tracks(new, groups')
                        /\ \A q \in Page \ {p} : page[q].saving = {}
  /\ \A q \in Page \ {p} : page[q].saving # {} => Tracks(page[q], groups')
  /\ Unsettled(groups') => \/ Looks(new, groups')
                           \/ \E q \in Page \ {p} : Looks(page[q], groups')

LEMMA MoreNumbers ==
  ASSUME NEW gs \in Distribution, NEW m \in Nat, NEW n \in Nat, m <= n, Numbered(gs, m)
  PROVE  Numbered(gs, n)
<1>1. \A i \in DOMAIN gs : gs[i].id \in Nat
  BY PlacesOf
<1>2. \A i \in DOMAIN gs : gs[i].id <= n
  BY <1>1 DEF Numbered
<1> QED BY <1>2 DEF Numbered

LEMMA StepKeeps ==
  ASSUME EditorInv, CalmInv, NEW p \in Page, NEW new \in PageDoc, Steps(p, new),
         Calm' => CalmSteps(p, new)
  PROVE  EditorInv' /\ CalmInv'
<1>1. /\ page' \in [Page -> PageDoc] /\ page'[p] = new
      /\ \A q \in Page \ {p} : page'[q] = page[q]
  BY DEF EditorInv, EditorType, Steps
<1>2. \A q \in Page : /\ page'[q].seen \in Distribution /\ page'[q].dist \in Distribution
                      /\ page[q] \in PageDoc
  BY <1>1 DEF PageDoc, EditorInv, EditorType
<1>3. EditorType'
  BY <1>1 DEF Steps, EditorType
<1>4. ASSUME NEW q \in Page
      PROVE  /\ Numbered(page'[q].seen, made') /\ Numbered(page'[q].dist, made')
             /\ SavesOwn(page'[q]) /\ (page'[q].failed => broken')
  <2>1. Numbered(page'[q].seen, made) /\ Numbered(page'[q].dist, made)
        /\ SavesOwn(page'[q]) /\ (page'[q].failed => broken')
    BY <1>1 DEF Steps, EditorInv
  <2>2. made \in Nat /\ made' \in Nat /\ made <= made'
    BY DEF Steps, EditorInv, EditorType
  <2> QED BY <1>2, <2>1, <2>2, MoreNumbers
<1>5. EditorInv'
  BY <1>3, <1>4 DEF EditorInv, Steps
<1>6. ASSUME Calm' PROVE CalmInv'
  <2>1. CalmSteps(p, new) /\ Calm
    BY <1>6 DEF CalmSteps
  <2>2. \A q \in Page : /\ Parts(page'[q].dist) /\ BalancedAsSeen(page'[q])
                        /\ page'[q].saving # {} => Tracks(page'[q], groups')
    BY <1>1, <2>1 DEF CalmSteps, CalmInv
  <2>3. \A q, r \in Page : page'[q].saving # {} /\ page'[r].saving # {} => q = r
    BY <1>1, <2>1 DEF CalmSteps, CalmInv
  <2>4. Unsettled(groups') => \E q \in Page : Looks(page'[q], groups')
    BY <1>1, <2>1 DEF CalmSteps
  <2> QED BY <2>1, <2>2, <2>3, <2>4 DEF CalmSteps, CalmInv
<1> QED BY <1>5, <1>6 DEF CalmInv

\* A page that begins to save all it has.
LEMMA FlushDoc ==
  ASSUME EditorInv, NEW p \in Page, page[p].saving = {}, NEW gs \in Distribution,
         NEW m, Numbered(gs, m)
  PROVE  /\ Flush(p, gs) \in PageDoc
         /\ Flush(p, gs).seen = page[p].seen /\ Flush(p, gs).dist = gs
         /\ Flush(p, gs).failed = page[p].failed
         /\ Flush(p, gs).saving = {} <=> gs = <<>>
         /\ Flush(p, gs).due = IF gs = <<>> THEN "save" ELSE "no"
         /\ SavesOwn(Flush(p, gs))
         /\ \A hs : Tracks(Flush(p, gs), hs)
<1> DEFINE new == Flush(p, gs)
<1>1. page[p] \in PageDoc
  BY DEF EditorInv, EditorType
<1>2. \A i \in DOMAIN gs : gs[i] \in GroupDoc
  BY Sums
<1>3. Updates(gs) \in SUBSET Update
  BY <1>2 DEF Updates, Update
<1>4. /\ new \in PageDoc /\ new.seen = page[p].seen /\ new.dist = gs
      /\ new.failed = page[p].failed /\ new.saving = Updates(gs)
      /\ new.due = IF gs = <<>> THEN "save" ELSE "no"
  <2> DEFINE due == IF gs = <<>> THEN "save" ELSE "no"
  <2>1. new = [page[p] EXCEPT !.dist = gs, !.saving = Updates(gs), !.due = due]
    BY DEF Flush
  <2>2. due \in {"no", "first", "save", "dialog"}
    OBVIOUS
  <2> HIDE DEF new, due
  <2>3. /\ new \in PageDoc /\ new.seen = page[p].seen /\ new.dist = gs
        /\ new.failed = page[p].failed /\ new.saving = Updates(gs)
        /\ new.due = due
    BY <1>1, <1>3, <2>1, <2>2 DEF PageDoc
  <2> QED BY <2>3 DEF due
<1> HIDE DEF new
<1>5. Updates(gs) = {} <=> gs = <<>>
  <2>1. gs = <<>> <=> DOMAIN gs = {}
    <3>1. gs \in Seq(GroupDoc) /\ Len(gs) \in Nat /\ DOMAIN gs = 1 .. Len(gs)
      BY DEF Distribution
    <3>2. Len(gs) # 0 => 1 \in DOMAIN gs
      BY <3>1
    <3>3. Len(gs) = 0 => gs = <<>>
      BY <3>1
    <3> QED BY <3>1, <3>2, <3>3
  <2> QED BY <2>1 DEF Updates
<1>6. \A u \in Updates(gs) : u.was = None /\ \E i \in DOMAIN gs : u = [to |-> gs[i], was |-> None]
  BY DEF Updates
<1>7. SavesOwn(new)
  <2>1. ASSUME NEW u \in Updates(gs), NEW w \in Updates(gs), w.to.id = u.to.id PROVE w = u
    <3>1. PICK i \in DOMAIN gs : u = [to |-> gs[i], was |-> None]
      BY <1>6
    <3>2. PICK j \in DOMAIN gs : w = [to |-> gs[j], was |-> None]
      BY <1>6
    <3>3. gs[j].id = gs[i].id
      BY <2>1, <3>1, <3>2
    <3>4. i = j
      BY <3>3 DEF Numbered
    <3> QED BY <3>1, <3>2, <3>4
  <2>2. \A u \in Updates(gs) : \E j \in DOMAIN gs : u.to = gs[j]
    BY <1>6
  <2> QED BY <1>4, <1>5, <2>1, <2>2 DEF SavesOwn
<1>8. ASSUME NEW hs PROVE Tracks(new, hs)
  <2>1. ASSUME NEW j \in DOMAIN gs PROVE \E u \in Updates(gs) : u.to = gs[j]
    <3>1. [to |-> gs[j], was |-> None] \in Updates(gs)
      BY DEF Updates
    <3> QED BY <3>1
  <2> QED BY <1>4, <1>6, <2>1 DEF Tracks
<1> QED BY <1>4, <1>5, <1>7, <1>8 DEF new

LEMMA Bounds == EditorInv => Len(groups) <= Total
<1>1. EditorInv => Len(groups) \in Nat /\ made \in Nat
  BY PlacesOf DEF EditorInv, EditorType
<1> QED BY <1>1, EditorAssumption, TotalAssumption DEF EditorInv

\* Groups that do not need to be balanced are all given a part.
LEMMA SettledParts ==
  ASSUME NEW gs, SharesGiven(gs), ~(gs # <<>> /\ NeedsBalance(gs)), gs \in Distribution
  PROVE  Parts(gs)
<1>1. CASE gs = <<>>
  BY <1>1 DEF Parts
<1>2. CASE ~NeedsBalance(gs)
  BY <1>2 DEF NeedsBalance, SharesGiven, Parts
<1> QED BY <1>1, <1>2

LEMMA LoadStep ==
  ASSUME EditorInv, CalmInv, NEW p \in Page, Load(p) PROVE EditorInv' /\ CalmInv'
<1> DEFINE old == page[p]
<1>1. /\ page[p].due # "no" /\ Clash(p)
      /\ groups' = groups /\ made' = made /\ broken' = broken
  BY DEF Load
<1>2. PICK anew \in Anew(p) :
        page' = [page EXCEPT ![p] =
          [(IF groups # <<>> /\ NeedsBalance(groups) /\ Changed(p, anew)
            THEN Flush(p, Balanced(groups))
            ELSE [page[p] EXCEPT !.due = "no", !.dist = IF anew THEN groups ELSE @])
           EXCEPT !.seen = groups]]
  BY DEF Load
<1>3. /\ old \in PageDoc /\ groups \in Distribution /\ made \in Nat
      /\ broken \in BOOLEAN /\ clashed \in BOOLEAN /\ page \in [Page -> PageDoc]
      /\ Numbered(groups, made) /\ Len(groups) <= made /\ made <= MaxGroups
      /\ Numbered(old.dist, made) /\ SavesOwn(old) /\ (old.failed => broken)
      /\ old.saving = {} /\ old.dist \in Distribution
  BY <1>1 DEF EditorInv, EditorType, SavesOwn, PageDoc
<1>4. /\ clashed' \in BOOLEAN /\ (Calm' => Calm)
      /\ Calm' => (page'[p].saving # {} => \A q \in Page \ {p} : page[q].saving = {})
  BY <1>1, <1>3 DEF Clash, Calm
<1>5. /\ Calm => \A q \in Page \ {p} : page[q].saving # {} => Tracks(page[q], groups)
      /\ Calm => SharesGiven(groups) /\ Parts(old.dist) /\ BalancedAsSeen(old)
  BY DEF CalmInv
<1>6. CASE groups # <<>> /\ NeedsBalance(groups) /\ Changed(p, anew)
  <2> DEFINE gs == Balanced(groups)
             next == Flush(p, gs)
  <2>1. /\ gs \in Distribution /\ SameGroups(gs, groups) /\ gs # <<>>
        /\ ~AllLocked(groups) => SumOf(gs) = Total
        /\ SharesGiven(groups) => Parts(gs)
    <3>1. /\ gs \in Distribution /\ SameGroups(gs, groups)
          /\ ~AllLocked(groups) => SumOf(gs) = Total
          /\ (\A i \in DOMAIN groups : groups[i].share >= 1 \/ ~groups[i].locked) => Parts(gs)
      BY <1>3, <1>6, Bounds, BalancedKeeps
    <3>2. Len(groups) # 0
      BY <1>3, <1>6 DEF Distribution
    <3> HIDE DEF gs
    <3>3. gs # <<>>
      BY <3>1, <3>2 DEF SameGroups
    <3> QED BY <3>1, <3>3 DEF SharesGiven
  <2> HIDE DEF gs
  <2>2. Numbered(gs, made)
    <3>1. DOMAIN gs = DOMAIN groups /\ \A i \in DOMAIN gs : gs[i].id = groups[i].id
      BY <1>3, <2>1, PlacesOf DEF SameGroups
    <3> QED BY <1>3, <3>1 DEF Numbered
  <2>3. /\ next \in PageDoc /\ next.dist = gs /\ next.failed = old.failed /\ next.saving # {}
        /\ next.due = "no" /\ SavesOwn(next) /\ Tracks(next, groups)
    BY <1>3, <2>1, <2>2, FlushDoc
  <2> HIDE DEF next
  <2>4. PICK new \in PageDoc : new = [next EXCEPT !.seen = groups]
    BY <1>3, <2>3 DEF PageDoc
  <2>5. /\ new.seen = groups /\ new.dist = gs /\ new.failed = old.failed
        /\ new.saving = next.saving /\ new.due = "no"
    BY <2>3, <2>4 DEF PageDoc
  <2>6. page' = [page EXCEPT ![p] = new] /\ page'[p] = new
    BY <1>2, <1>3, <1>6, <2>4 DEF next, gs
  <2>7. SavesOwn(new) /\ Tracks(new, groups)
    BY <2>3, <2>5 DEF SavesOwn, Tracks
  <2>8. Steps(p, new)
    BY <1>1, <1>3, <1>4, <2>2, <2>5, <2>6, <2>7 DEF Steps
  <2>9. ASSUME Calm' PROVE CalmSteps(p, new)
    <3>1. BalancedAsSeen(new)
      BY <2>1, <2>5 DEF BalancedAsSeen, Unsettled
    <3>2. Looks(new, groups')
      BY <2>3, <2>5 DEF Looks
    <3> QED BY <1>1, <1>4, <1>5, <2>1, <2>5, <2>6, <2>7, <2>9, <3>1, <3>2 DEF CalmSteps
  <2> QED BY <2>8, <2>9, StepKeeps
<1>7. CASE ~(groups # <<>> /\ NeedsBalance(groups) /\ Changed(p, anew))
  <2> DEFINE dist == IF anew THEN groups ELSE old.dist
  <2>1. dist \in Distribution /\ Numbered(dist, made)
    BY <1>3
  <2> HIDE DEF dist
  <2>2. page' = [page EXCEPT ![p] = [[old EXCEPT !.due = "no", !.dist = dist] EXCEPT !.seen = groups]]
    BY <1>2, <1>7, ZenonT(30) DEF dist
  <2>3. PICK new \in PageDoc :
          new = [[old EXCEPT !.due = "no", !.dist = dist] EXCEPT !.seen = groups]
    BY <1>3, <2>1 DEF PageDoc
  <2>4. /\ new.seen = groups /\ new.dist = dist /\ new.failed = old.failed
        /\ new.saving = {} /\ new.due = "no"
    BY <1>3, <2>3 DEF PageDoc
  <2>5. page' = [page EXCEPT ![p] = new]
    BY <2>2, <2>3
  <2>6. SavesOwn(new)
    BY <2>4 DEF SavesOwn
  <2>7. Steps(p, new)
    BY <1>1, <1>3, <1>4, <2>1, <2>4, <2>5, <2>6 DEF Steps
  <2>8. Unsettled(groups) => anew = FALSE /\ groups = old.seen
    <3>1. anew \in BOOLEAN
      BY DEF Anew
    <3> QED BY <1>7, <3>1 DEF Unsettled, Changed
  <2>9. ASSUME Calm' PROVE CalmSteps(p, new)
    <3>1. Calm /\ SharesGiven(groups)
      BY <1>4, <1>5, <2>9
    <3>2. Parts(dist)
      <4>1. CASE anew
        <5>1. Changed(p, anew)
          BY <4>1 DEF Changed
        <5> QED BY <1>3, <1>7, <3>1, <4>1, <5>1, SettledParts DEF dist
      <4>2. CASE ~anew
        BY <1>5, <3>1, <4>2 DEF dist
      <4> QED BY <4>1, <4>2
    <3>3. BalancedAsSeen(new)
      BY <1>5, <2>4, <2>8, <3>1 DEF BalancedAsSeen, dist
    <3>4. Unsettled(groups) => \E q \in Page \ {p} : Looks(page[q], groups)
      <4> SUFFICES ASSUME Unsettled(groups) PROVE \E q \in Page \ {p} : Looks(page[q], groups)
        OBVIOUS
      <4>1. PICK q \in Page : Looks(page[q], groups)
        BY <3>1 DEF CalmInv
      <4>2. old.due # "first"
        BY <2>8 DEF Anew
      <4>3. ~Looks(old, groups)
        BY <1>3, <2>8, <4>2 DEF Looks
      <4> QED BY <4>1, <4>3
    <3> QED BY <1>1, <1>5, <2>4, <3>1, <3>2, <3>3, <3>4 DEF CalmSteps
  <2> QED BY <2>7, <2>9, StepKeeps
<1> QED BY <1>6, <1>7

\* What is known of a page, and what of the others while it saves alone.
LEMMA PageFacts ==
  ASSUME EditorInv, NEW p \in Page
  PROVE  /\ page[p] \in PageDoc /\ page \in [Page -> PageDoc]
         /\ page[p].dist \in Distribution /\ page[p].seen \in Distribution
         /\ page[p].saving \in SUBSET Update
         /\ groups \in Distribution /\ made \in Nat /\ broken \in BOOLEAN /\ clashed \in BOOLEAN
         /\ made <= MaxGroups /\ Len(groups) <= made /\ Numbered(groups, made)
         /\ Numbered(page[p].seen, made) /\ Numbered(page[p].dist, made)
         /\ SavesOwn(page[p]) /\ (page[p].failed => broken)
BY DEF EditorInv, EditorType, PageDoc

LEMMA ReadStep ==
  ASSUME EditorInv, CalmInv, NEW p \in Page, ReadGroup(p) PROVE EditorInv' /\ CalmInv'
<1> DEFINE old == page[p]
<1>1. PICK u \in old.saving :
        /\ u.was = None
        /\ IF InDb(u.to.id) # {}
           THEN page' = [page EXCEPT ![p].saving = (old.saving \ {u}) \cup
                           {[u EXCEPT !.was = groups[CHOOSE i \in InDb(u.to.id) : TRUE]]}]
           ELSE page' = [page EXCEPT ![p].saving = old.saving \ {u},
                                     ![p].failed = (old.saving \ {u}) # {}]
        /\ broken' = (broken \/ InDb(u.to.id) = {})
  BY DEF ReadGroup
<1>2. groups' = groups /\ made' = made /\ clashed' = clashed
  BY DEF ReadGroup
<1> DEFINE rest == old.saving \ {u}
<1>3. old \in PageDoc /\ u \in Update /\ rest \in SUBSET Update /\ u \notin rest
  BY PageFacts
<1>4. broken' \in BOOLEAN /\ (broken => broken') /\ (Calm' => Calm /\ InDb(u.to.id) # {})
  BY <1>1, <1>2, PageFacts DEF Calm
<1>5. CASE InDb(u.to.id) # {}
  <2>1. PICK i \in InDb(u.to.id) : i = CHOOSE k \in InDb(u.to.id) : TRUE
    BY <1>5
  <2>2. i \in DOMAIN groups /\ groups[i].id = u.to.id /\ groups[i] \in GroupDoc
    BY <2>1, PageFacts, Sums DEF InDb
  <2>3. PICK w \in Update : w = [u EXCEPT !.was = groups[i]] /\ w.to = u.to /\ w.was = groups[i]
    <3>1. u = [to |-> u.to, was |-> u.was] /\ u.to \in GroupDoc
      BY <1>3 DEF Update
    <3>2. [u EXCEPT !.was = groups[i]] = [to |-> u.to, was |-> groups[i]]
      BY <3>1
    <3>3. [to |-> u.to, was |-> groups[i]] \in Update
      BY <2>2, <3>1 DEF Update
    <3> QED BY <3>2, <3>3
  <2>4. page' = [page EXCEPT ![p].saving = rest \cup {w}]
    BY <1>1, <1>5, <2>1, <2>3
  <2>5. PICK new \in PageDoc : new = [old EXCEPT !.saving = rest \cup {w}]
    BY <1>3 DEF PageDoc
  <2>6. /\ new.seen = old.seen /\ new.dist = old.dist /\ new.failed = old.failed
        /\ new.saving = rest \cup {w} /\ new.due = old.due
    BY <1>3, <2>5 DEF PageDoc
  <2>7. page' = [page EXCEPT ![p] = new]
    BY <2>4, <2>5
  <2>8. SavesOwn(new)
    <3>1. SavesOwn(old) /\ u \in old.saving
      BY PageFacts
    <3>2. \A x \in new.saving : \E y \in old.saving : x.to = y.to /\ (x = y \/ (x = w /\ y = u))
      BY <2>3, <2>6
    <3>3. \A x, y \in new.saving : x.to.id = y.to.id => x = y
      <4> SUFFICES ASSUME NEW x \in new.saving, NEW y \in new.saving, x.to.id = y.to.id PROVE x = y
        OBVIOUS
      <4>1. CASE x \in rest /\ y \in rest
        BY <3>1, <4>1 DEF SavesOwn
      <4>2. CASE x = w /\ y \in rest
        <5>1. y.to.id = u.to.id /\ y \in old.saving
          BY <2>3, <4>2
        <5> QED BY <3>1, <4>2, <5>1 DEF SavesOwn
      <4>3. CASE y = w /\ x \in rest
        <5>1. x.to.id = u.to.id /\ x \in old.saving
          BY <2>3, <4>3
        <5> QED BY <3>1, <4>3, <5>1 DEF SavesOwn
      <4> QED BY <2>6, <4>1, <4>2, <4>3
    <3>4. \A x \in new.saving : \E j \in DOMAIN new.dist : x.to = new.dist[j]
      BY <2>6, <3>1, <3>2 DEF SavesOwn
    <3>5. new.due # "no" => new.saving = {}
      BY <2>6, <3>1 DEF SavesOwn
    <3> QED BY <3>3, <3>4, <3>5 DEF SavesOwn
  <2>9. Steps(p, new)
    BY <1>2, <1>4, <2>6, <2>7, <2>8, PageFacts DEF Steps
  <2>10. ASSUME Calm' PROVE CalmSteps(p, new)
    <3>1. Calm /\ old.saving # {}
      BY <1>4, <2>10
    <3>2. /\ SharesGiven(groups) /\ Parts(old.dist) /\ BalancedAsSeen(old) /\ Tracks(old, groups)
          /\ \A q \in Page \ {p} : page[q].saving = {}
      BY <3>1 DEF CalmInv
    <3>3. Tracks(new, groups)
      <4>1. ASSUME NEW x \in new.saving, NEW k \in DOMAIN groups, x.was # None, groups[k].id = x.to.id
            PROVE  groups[k].share = x.was.share
        <5>1. CASE x \in rest
          BY <3>2, <4>1, <5>1, SMTT(20) DEF Tracks
        <5>2. CASE x = w
          <6>1. groups[k].id = groups[i].id
            BY <2>2, <2>3, <4>1, <5>2
          <6>2. Numbered(groups, made)
            BY PageFacts
          <6>3. k = i
            BY <2>2, <6>1, <6>2 DEF Numbered
          <6> QED BY <2>3, <5>2, <6>3
        <5> QED BY <2>6, <5>1, <5>2
      <4>2. ASSUME NEW k \in DOMAIN groups, NEW j \in DOMAIN new.dist, groups[k].id = new.dist[j].id
            PROVE  groups[k].share = new.dist[j].share \/ \E x \in new.saving : x.to = new.dist[j]
        <5>1. groups[k].share = old.dist[j].share \/ \E x \in old.saving : x.to = old.dist[j]
          BY <2>6, <3>2, <4>2 DEF Tracks
        <5> QED BY <2>3, <2>6, <5>1
      <4> QED BY <4>1, <4>2 DEF Tracks
    <3>4. BalancedAsSeen(new) /\ Looks(new, groups)
      BY <2>6, <3>2 DEF BalancedAsSeen, Looks
    <3> QED BY <1>2, <2>6, <3>1, <3>2, <3>3, <3>4 DEF CalmSteps
  <2> QED BY <2>9, <2>10, StepKeeps
<1>6. CASE InDb(u.to.id) = {}
  <2>1. page' = [page EXCEPT ![p].saving = rest, ![p].failed = rest # {}]
    BY <1>1, <1>6
  <2>2. PICK failed \in BOOLEAN : failed = (rest # {})
    OBVIOUS
  <2>3. PICK new \in PageDoc : new = [old EXCEPT !.saving = rest, !.failed = failed]
    BY <1>3, <2>2 DEF PageDoc
  <2>4. /\ new.seen = old.seen /\ new.dist = old.dist
        /\ new.saving = rest /\ new.due = old.due
    BY <1>3, <2>3 DEF PageDoc
  <2>5. page' = [page EXCEPT ![p] = new]
    BY <2>1, <2>2, <2>3
  <2>6. SavesOwn(new)
    <3>1. SavesOwn(old)
      BY PageFacts
    <3> QED BY <2>4, <3>1 DEF SavesOwn
  <2>7. broken'
    BY <1>1, <1>6
  <2>8. Steps(p, new)
    BY <1>2, <1>4, <2>4, <2>5, <2>6, <2>7, PageFacts DEF Steps
  <2>9. ~Calm'
    BY <2>7 DEF Calm
  <2> QED BY <2>8, <2>9, StepKeeps
<1> QED BY <1>5, <1>6

\* A write of a page that tracks the groups gives a group the share the page has.
LEMMA WriteStep ==
  ASSUME EditorInv, CalmInv, NEW p \in Page, WriteGroup(p) PROVE EditorInv' /\ CalmInv'
<1> DEFINE old == page[p]
<1>1. PICK u \in old.saving :
        /\ u.was # None
        /\ groups' = [i \in DOMAIN groups |->
             IF groups[i].id = u.to.id THEN Merged(groups[i], u) ELSE groups[i]]
        /\ page' = [page EXCEPT ![p].saving = old.saving \ {u},
                      ![p].due = IF old.saving \ {u} = {} /\ Refreshed(p) THEN "save" ELSE "no",
                      ![p].failed = @ /\ old.saving \ {u} # {}]
  BY DEF WriteGroup
<1>2. made' = made /\ broken' = broken /\ clashed' = clashed
  BY DEF WriteGroup
<1> DEFINE rest == old.saving \ {u}
<1>3. /\ old \in PageDoc /\ u \in Update /\ rest \in SUBSET Update /\ u \notin rest
      /\ u.to \in GroupDoc /\ u.was \in GroupDoc
  BY <1>1, PageFacts DEF Update
<1>4. PICK due \in {"save", "no"} : due = IF rest = {} /\ Refreshed(p) THEN "save" ELSE "no"
  OBVIOUS
<1>5. PICK failed \in BOOLEAN : failed = (old.failed /\ rest # {})
  OBVIOUS
<1>6. PICK new \in PageDoc : new = [old EXCEPT !.saving = rest, !.due = due, !.failed = failed]
  BY <1>3 DEF PageDoc
<1>7. /\ new.seen = old.seen /\ new.dist = old.dist /\ new.saving = rest /\ new.due = due
      /\ new.failed = failed
  BY <1>3, <1>6 DEF PageDoc
<1>8. page' = [page EXCEPT ![p] = new]
  BY <1>1, <1>4, <1>5, <1>6
<1>9. SavesOwn(old) /\ u \in old.saving /\ groups \in Distribution /\ Numbered(groups, made)
  BY PageFacts
<1>10. SavesOwn(new)
  BY <1>4, <1>7, <1>9 DEF SavesOwn
<1>11. \A i \in DOMAIN groups :
         /\ groups[i] \in GroupDoc /\ groups'[i] \in GroupDoc /\ groups'[i].id = groups[i].id
         /\ groups[i].id # u.to.id => groups'[i] = groups[i]
         /\ groups[i].id = u.to.id =>
              /\ groups'[i].share = IF u.to.share # u.was.share THEN u.to.share ELSE groups[i].share
              /\ groups'[i].locked \in {u.to.locked, groups[i].locked}
  <2> SUFFICES ASSUME NEW i \in DOMAIN groups
               PROVE  /\ groups[i] \in GroupDoc
                      /\ groups'[i] \in GroupDoc /\ groups'[i].id = groups[i].id
                      /\ groups[i].id # u.to.id => groups'[i] = groups[i]
                      /\ groups[i].id = u.to.id =>
                           /\ groups'[i].share = IF u.to.share # u.was.share THEN u.to.share
                                                 ELSE groups[i].share
                           /\ groups'[i].locked \in {u.to.locked, groups[i].locked}
    OBVIOUS
  <2>1. groups[i] \in GroupDoc
    BY <1>9, Sums
  <2>2. groups'[i] = IF groups[i].id = u.to.id THEN Merged(groups[i], u) ELSE groups[i]
    BY <1>1
  <2> QED BY <1>3, <2>1, <2>2 DEF Merged, GroupDoc
<1>12. DOMAIN groups' = DOMAIN groups /\ groups' = [i \in DOMAIN groups' |-> groups'[i]]
  BY <1>1
<1>13. groups' \in Distribution /\ Len(groups') = Len(groups)
  BY <1>9, <1>11, <1>12, Places
<1>14. Numbered(groups', made)
  BY <1>9, <1>11, <1>12 DEF Numbered
<1>15. Steps(p, new)
  BY <1>2, <1>5, <1>7, <1>8, <1>10, <1>13, <1>14, PageFacts DEF Steps
<1>16. ASSUME Calm' PROVE CalmSteps(p, new)
  <2>1. Calm /\ old.saving # {} /\ ~broken
    BY <1>2, <1>16 DEF Calm
  <2>2. /\ SharesGiven(groups) /\ Parts(old.dist) /\ BalancedAsSeen(old) /\ Tracks(old, groups)
        /\ \A q \in Page \ {p} : page[q].saving = {}
    BY <2>1 DEF CalmInv
  <2>3. PICK j \in DOMAIN old.dist : u.to = old.dist[j]
    BY <1>9 DEF SavesOwn
  <2>4. \A i \in DOMAIN groups : groups[i].id = u.to.id =>
          groups[i].share = u.was.share /\ groups'[i].share = u.to.share
    <3>1. \A i \in DOMAIN groups : groups[i].id = u.to.id => groups[i].share = u.was.share
      BY <1>1, <2>2 DEF Tracks
    <3> QED BY <1>11, <3>1
  <2>5. SharesGiven(groups')
    <3> SUFFICES ASSUME NEW i \in DOMAIN groups
                 PROVE  groups'[i].share >= 1 \/ (groups'[i].share = Unset /\ ~groups'[i].locked)
      BY <1>12 DEF SharesGiven
    <3>1. CASE groups[i].id = u.to.id
      BY <2>2, <2>3, <2>4, <3>1 DEF Parts
    <3>2. CASE groups[i].id # u.to.id
      BY <1>11, <2>2, <3>2 DEF SharesGiven
    <3> QED BY <3>1, <3>2
  <2>6. Tracks(new, groups')
    <3>1. ASSUME NEW x \in rest, NEW k \in DOMAIN groups, x.was # None, groups'[k].id = x.to.id
          PROVE  groups'[k].share = x.was.share
      <4>1. x \in old.saving /\ x # u /\ groups[k].id = x.to.id
        BY <1>11, <3>1
      <4>2. x.to.id # u.to.id
        BY <1>9, <4>1 DEF SavesOwn
      <4> QED BY <1>11, <2>2, <3>1, <4>1, <4>2 DEF Tracks
    <3>2. ASSUME NEW k \in DOMAIN groups, NEW m \in DOMAIN old.dist, groups'[k].id = old.dist[m].id
          PROVE  groups'[k].share = old.dist[m].share \/ \E x \in rest : x.to = old.dist[m]
      <4>1. groups[k].id = old.dist[m].id
        BY <1>11, <3>2
      <4>2. CASE groups[k].id = u.to.id
        <5>1. Numbered(old.dist, made)
          BY PageFacts
        <5>2. m = j
          BY <2>3, <4>1, <4>2, <5>1 DEF Numbered
        <5> QED BY <2>3, <2>4, <4>2, <5>2
      <4>3. CASE groups[k].id # u.to.id
        <5>1. groups'[k] = groups[k]
          BY <1>11, <4>3
        <5>2. groups[k].share = old.dist[m].share \/ \E x \in old.saving : x.to = old.dist[m]
          BY <2>2, <4>1 DEF Tracks
        <5> QED BY <4>1, <4>3, <5>1, <5>2
      <4> QED BY <4>2, <4>3
    <3> QED BY <1>7, <1>12, <3>1, <3>2 DEF Tracks
  <2>7. Unsettled(groups') => Looks(new, groups')
    <3> SUFFICES ASSUME Unsettled(groups'), rest = {}, new.seen = groups' PROVE FALSE
      <4>1. Refreshed(p)
        BY <2>1, PageFacts DEF Refreshed
      <4> QED BY <1>4, <1>7, <4>1 DEF Looks
    <3>1. SameGroups(old.dist, groups') /\ SumOf(old.dist) = Total
      BY <1>7, <2>2 DEF BalancedAsSeen
    <3>2. /\ old.dist \in Distribution /\ DOMAIN old.dist = DOMAIN groups'
          /\ Summable(old.dist) /\ Summable(groups')
      BY <1>13, <3>1, PageFacts, PlacesOf, Sums DEF SameGroups
    <3>3. \A i \in DOMAIN groups' : groups'[i].share = old.dist[i].share
      <4> SUFFICES ASSUME NEW i \in DOMAIN groups' PROVE groups'[i].share = old.dist[i].share
        OBVIOUS
      <4>1. i \in DOMAIN new.dist /\ groups'[i].id = new.dist[i].id /\ new.saving = {}
        BY <1>7, <3>1, <3>2 DEF SameGroups
      <4>2. groups'[i].share = new.dist[i].share \/ \E x \in new.saving : x.to = new.dist[i]
        BY <2>6, <4>1 DEF Tracks
      <4> QED BY <1>7, <4>1, <4>2
    <3>4. SumOf(old.dist) = SumOf(groups')
      <4>1. SumAt(old.dist, DOMAIN groups') = SumAt(groups', DOMAIN groups')
        BY <3>1, <3>2, <3>3, SumSame DEF SameGroups
      <4> QED BY <3>2, <4>1 DEF SumOf
    <3>5. \A i \in DOMAIN groups' : groups'[i].share # Unset
      BY <2>2, <3>2, <3>3 DEF Parts, Unset
    <3> QED BY <3>1, <3>4, <3>5 DEF Unsettled, NeedsBalance
  <2>8. BalancedAsSeen(new)
    BY <1>7, <2>2 DEF BalancedAsSeen
  <2> QED BY <1>7, <2>1, <2>2, <2>5, <2>6, <2>7, <2>8 DEF CalmSteps
<1> QED BY <1>15, <1>16, StepKeeps

\* A user's edit of the shares and locks of a page that is idle.
LEMMA EditStep ==
  ASSUME EditorInv, CalmInv, NEW p \in Page, Idle(p), NEW gs \in Distribution,
         SameGroups(gs, page[p].dist),
         Parts(page[p].dist) => Parts(gs),
         SumOf(page[p].dist) = Total => SumOf(gs) = Total,
         page' = [page EXCEPT ![p] = Flush(p, gs)], Clash(p),
         UNCHANGED <<groups, made, broken>>
  PROVE  EditorInv' /\ CalmInv'
<1> DEFINE old == page[p]
<1>1. /\ old \in PageDoc /\ old.saving = {} /\ old.due = "no" /\ SavesOwn(old)
      /\ old.dist \in Distribution /\ old.seen \in Distribution
      /\ Numbered(old.dist, made) /\ Numbered(old.seen, made)
  BY PageFacts DEF Idle
<1>1a. groups' = groups /\ made' = made /\ broken' = broken
  OBVIOUS
<1>2. Numbered(gs, made)
  <2>1. DOMAIN gs = DOMAIN old.dist /\ \A i \in DOMAIN gs : gs[i].id = old.dist[i].id
    BY <1>1, PlacesOf DEF SameGroups
  <2> QED BY <1>1, <2>1 DEF Numbered
<1>3. PICK new \in PageDoc : new = Flush(p, gs)
  BY <1>1, <1>2, FlushDoc
<1>4. /\ new.seen = old.seen /\ new.dist = gs /\ new.failed = old.failed /\ SavesOwn(new)
      /\ Tracks(new, groups)
  BY <1>1, <1>2, <1>3, FlushDoc
<1>5. page' = [page EXCEPT ![p] = new] /\ page'[p] = new
  BY <1>3, PageFacts
<1>6. /\ clashed' \in BOOLEAN /\ (Calm' => Calm)
      /\ Calm' => (page'[p].saving # {} => \A q \in Page \ {p} : page[q].saving = {})
  BY PageFacts DEF Clash, Calm
<1>7. Steps(p, new)
  <2>1. /\ groups' \in Distribution /\ made' \in Nat /\ made <= made' /\ made' <= MaxGroups
        /\ broken' \in BOOLEAN /\ Len(groups') <= made' /\ Numbered(groups', made')
        /\ (broken => broken') /\ (old.failed => broken')
    BY <1>1a, PageFacts
  <2> HIDE DEF old
  <2> QED BY <1>1, <1>2, <1>4, <1>5, <1>6, <2>1 DEF Steps
<1>8. ASSUME Calm' PROVE CalmSteps(p, new)
  <2>1. /\ Calm /\ SharesGiven(groups) /\ Parts(old.dist) /\ BalancedAsSeen(old)
        /\ \A q \in Page \ {p} : page[q].saving # {} => Tracks(page[q], groups)
    <3>1. Calm
      BY <1>6, <1>8
    <3> QED BY <3>1 DEF CalmInv
  <2>2. BalancedAsSeen(new)
    <3> SUFFICES ASSUME Unsettled(old.seen) PROVE SameGroups(gs, old.seen) /\ SumOf(gs) = Total
      BY <1>4 DEF BalancedAsSeen
    <3>1. SameGroups(old.dist, old.seen) /\ SumOf(old.dist) = Total
      BY <2>1 DEF BalancedAsSeen
    <3>2. DOMAIN gs = DOMAIN old.dist
      BY <1>1, PlacesOf DEF SameGroups
    <3> QED BY <3>1, <3>2 DEF SameGroups
  <2>3. Unsettled(groups) => \E q \in Page \ {p} : Looks(page[q], groups)
    <3>1. ~Looks(old, groups)
      BY <1>1 DEF Looks
    <3> QED BY <2>1, <3>1 DEF CalmInv
  <2> QED BY <1>1a, <1>4, <1>5, <1>6, <1>8, <2>1, <2>2, <2>3 DEF CalmSteps
<1> QED BY <1>7, <1>8, StepKeeps

LEMMA LockStep ==
  ASSUME EditorInv, CalmInv, NEW p \in Page, Lock(p) PROVE EditorInv' /\ CalmInv'
<1> DEFINE old == page[p].dist
<1>1. PICK id \in Shown(p) :
        page' = [page EXCEPT ![p] = Flush(p,
          [i \in DOMAIN old |-> IF old[i].id = id THEN [old[i] EXCEPT !.locked = ~@] ELSE old[i]])]
  BY DEF Lock
<1>2. Idle(p) /\ Clash(p) /\ UNCHANGED <<groups, made, broken>>
  BY DEF Lock, Edit
<1>3. old \in Distribution
  BY PageFacts
<1> DEFINE gs == [i \in DOMAIN old |-> IF old[i].id = id THEN [old[i] EXCEPT !.locked = ~@] ELSE old[i]]
<1> HIDE DEF old
<1>4. \A i \in DOMAIN old : gs[i] \in GroupDoc /\ gs[i].id = old[i].id /\ gs[i].share = old[i].share
  <2> SUFFICES ASSUME NEW i \in DOMAIN old
               PROVE  gs[i] \in GroupDoc /\ gs[i].id = old[i].id /\ gs[i].share = old[i].share
    OBVIOUS
  <2>1. old[i] \in GroupDoc
    BY <1>3, Sums
  <2> QED BY <2>1 DEF GroupDoc
<1>5. DOMAIN gs = DOMAIN old /\ gs = [i \in DOMAIN gs |-> gs[i]]
  OBVIOUS
<1>6. page' = [page EXCEPT ![p] = Flush(p, gs)]
  BY <1>1
<1> HIDE DEF gs
<1>7. gs \in Distribution /\ Len(gs) = Len(old)
  BY <1>3, <1>4, <1>5, Places
<1>8. SumOf(gs) = SumOf(old)
  <2>1. SumAt(gs, DOMAIN old) = SumAt(old, DOMAIN old)
    <3>1. Summable(gs) /\ Summable(old)
      BY <1>3, <1>7, Sums
    <3>2. \A i \in DOMAIN old \cap DOMAIN gs : gs[i].share = old[i].share
      BY <1>4
    <3> QED BY <1>7, <3>1, <3>2, SumSame
  <2> QED BY <1>5, <2>1 DEF SumOf
<1>9. SameGroups(gs, old) /\ (Parts(old) => Parts(gs))
  BY <1>4, <1>5, <1>7 DEF SameGroups, Parts
<1> QED BY <1>2, <1>6, <1>7, <1>8, <1>9, EditStep DEF old

LEMMA SetShareStep ==
  ASSUME EditorInv, CalmInv, NEW p \in Page, SetShare(p) PROVE EditorInv' /\ CalmInv'
<1> DEFINE old == page[p].dist
<1>1. PICK i \in DOMAIN old, v \in 1 .. Total :
        Settable(old, i, v) /\ page' = [page EXCEPT ![p] = Flush(p, WithShare(old, i, v))]
  BY DEF SetShare
<1>2. Idle(p) /\ Clash(p) /\ UNCHANGED <<groups, made, broken>>
  BY DEF SetShare, Edit
<1>3. old \in Distribution /\ v \in Int
  BY PageFacts
<1> HIDE DEF old
<1>4. PICK gs \in Distribution : gs = WithShare(old, i, v)
  BY <1>1, <1>3, WithShareKeeps
<1>5. SameGroups(gs, old) /\ SumOf(gs) = Total /\ (Parts(old) => Parts(gs))
  BY <1>1, <1>3, <1>4, WithShareKeeps
<1> QED BY <1>1, <1>2, <1>4, <1>5, EditStep DEF old

\* A dialog that changed the groups, in a way the page has not seen.
LEMMA DialogStep ==
  ASSUME EditorInv, CalmInv, NEW p \in Page, Idle(p), page' = [page EXCEPT ![p].due = "dialog"],
         broken' = broken, clashed' = clashed,
         groups' \in Distribution, made' \in Nat, made <= made', made' <= MaxGroups,
         Len(groups') <= made', Numbered(groups', made'),
         SharesGiven(groups) => SharesGiven(groups'),
         groups' # page[p].seen,
         \A q \in Page : Tracks(page[q], groups) => Tracks(page[q], groups')
  PROVE  EditorInv' /\ CalmInv'
<1> DEFINE old == page[p]
<1>1. /\ old \in PageDoc /\ old.saving = {} /\ old.due = "no" /\ SavesOwn(old)
  BY PageFacts DEF Idle
<1>2. PICK new \in PageDoc : new = [old EXCEPT !.due = "dialog"]
  BY <1>1 DEF PageDoc
<1>3. /\ new.seen = old.seen /\ new.dist = old.dist /\ new.failed = old.failed
      /\ new.saving = {} /\ new.due = "dialog"
  BY <1>1, <1>2 DEF PageDoc
<1>4. page' = [page EXCEPT ![p] = new]
  BY <1>2
<1>5. SavesOwn(new)
  BY <1>3 DEF SavesOwn
<1>6. Steps(p, new)
  BY <1>3, <1>4, <1>5, PageFacts DEF Steps
<1>7. ASSUME Calm' PROVE CalmSteps(p, new)
  <2>1. Calm
    BY <1>7 DEF Calm
  <2>2. BalancedAsSeen(new) /\ Looks(new, groups')
    BY <1>3, <2>1 DEF CalmInv, BalancedAsSeen, Looks
  <2> QED BY <1>3, <2>1, <2>2 DEF CalmInv, CalmSteps
<1> QED BY <1>6, <1>7, StepKeeps

\* Groups of a page or a request of it have numbers that were given out.
LEMMA TrackedNumbers ==
  ASSUME EditorInv, NEW q \in Page
  PROVE  /\ \A u \in page[q].saving : u.to.id <= made
         /\ \A j \in DOMAIN page[q].dist : page[q].dist[j].id <= made
<1>1. \A j \in DOMAIN page[q].dist : page[q].dist[j].id <= made
  BY PageFacts DEF Numbered
<1> QED BY <1>1, PageFacts DEF SavesOwn

LEMMA AddStep ==
  ASSUME EditorInv, CalmInv, NEW p \in Page, Idle(p), made < MaxGroups, made' = made + 1,
         NEW g \in GroupDoc, g.id = made + 1, groups' = Append(groups, g),
         SharesGiven(groups) => g.share >= 1 \/ (g.share = Unset /\ ~g.locked),
         page' = [page EXCEPT ![p].due = "dialog"], broken' = broken, clashed' = clashed
  PROVE  EditorInv' /\ CalmInv'
<1>1. /\ groups \in Distribution /\ made \in Nat /\ Len(groups) <= made
      /\ Numbered(groups, made) /\ Numbered(page[p].seen, made)
      /\ Len(groups) \in Nat /\ DOMAIN groups = 1 .. Len(groups) /\ MaxGroups \in Nat
  BY PageFacts, PlacesOf, EditorAssumption
<1>2. /\ groups' \in Distribution /\ Len(groups') = Len(groups) + 1
      /\ DOMAIN groups' = DOMAIN groups \cup {Len(groups) + 1}
      /\ \A i \in DOMAIN groups : groups'[i] = groups[i]
      /\ groups'[Len(groups) + 1] = g
  BY <1>1 DEF Distribution
<1>3. \A i \in DOMAIN groups : groups[i].id \in Nat /\ groups[i].id <= made
  BY <1>1, PlacesOf DEF Numbered
<1>4. Numbered(groups', made')
  <2>1. \A i \in DOMAIN groups' : groups'[i].id <= made'
    BY <1>1, <1>2, <1>3
  <2>2. ASSUME NEW i \in DOMAIN groups', NEW j \in DOMAIN groups', groups'[j].id = groups'[i].id
        PROVE  j = i
    <3>1. i \in DOMAIN groups => groups'[i].id # made + 1
      BY <1>1, <1>2, <1>3
    <3>2. j \in DOMAIN groups => groups'[j].id # made + 1
      BY <1>1, <1>2, <1>3
    <3>3. i \in DOMAIN groups /\ j \in DOMAIN groups => i = j
      BY <1>1, <1>2, <2>2 DEF Numbered
    <3> QED BY <1>2, <2>2, <3>1, <3>2, <3>3
  <2> QED BY <2>1, <2>2 DEF Numbered
<1>5. SharesGiven(groups) => SharesGiven(groups')
  BY <1>2 DEF SharesGiven
<1>6. groups' # page[p].seen
  <2>1. Len(groups) + 1 \in DOMAIN groups' /\ groups'[Len(groups) + 1].id = made + 1
    BY <1>2
  <2>2. \A i \in DOMAIN page[p].seen : page[p].seen[i].id # made + 1
    BY <1>1 DEF Numbered
  <2> QED BY <2>1, <2>2
<1>7. ASSUME NEW q \in Page, Tracks(page[q], groups) PROVE Tracks(page[q], groups')
  <2> DEFINE pg == page[q]
  <2>1. /\ \A u \in pg.saving : u.to.id # made + 1
        /\ \A j \in DOMAIN pg.dist : pg.dist[j].id # made + 1
    BY <1>1, TrackedNumbers
  <2>2. Tracks(pg, groups)
    BY <1>7
  <2> HIDE DEF pg
  <2>3. Tracks(pg, groups')
    BY <1>2, <2>1, <2>2 DEF Tracks
  <2> QED BY <2>3 DEF pg
<1>8. made' \in Nat /\ made <= made' /\ made' <= MaxGroups /\ Len(groups') <= made'
  BY <1>1, <1>2
<1> QED BY <1>2, <1>4, <1>5, <1>6, <1>7, <1>8, DialogStep

LEMMA CreateStep ==
  ASSUME EditorInv, CalmInv, NEW p \in Page, Create(p) PROVE EditorInv' /\ CalmInv'
<1>1. made + 1 \in Nat
  BY PageFacts
<1>1a. Unset \in Int
  BY DEF Unset
<1>2. PICK g \in GroupDoc : g = Group(made + 1, Unset, FALSE)
  <2>1. Group(made + 1, Unset, FALSE) \in GroupDoc
    BY <1>1, <1>1a DEF Group, GroupDoc
  <2> QED BY <2>1
<1>3. g.id = made + 1 /\ g.share = Unset /\ ~g.locked
  BY <1>2 DEF Group
<1> QED BY <1>2, <1>3, AddStep DEF Create, Edit

LEMMA DuplicateStep ==
  ASSUME EditorInv, CalmInv, NEW p \in Page, Duplicate(p) PROVE EditorInv' /\ CalmInv'
<1>1. PICK i \in DOMAIN groups :
        groups[i].id \in Shown(p) /\ groups' = Append(groups, Copy(groups[i], made + 1))
  BY DEF Duplicate
<1>2. groups[i] \in GroupDoc
  BY PageFacts, Sums
<1>3. PICK g \in GroupDoc : g = Copy(groups[i], made + 1)
  <2>1. made + 1 \in Nat
    BY PageFacts
  <2>2. Copy(groups[i], made + 1) \in GroupDoc
    BY <1>2, <2>1 DEF Copy, GroupDoc
  <2> QED BY <2>2
<1>4. g.id = made + 1 /\ g.share = groups[i].share /\ g.locked = groups[i].locked
  BY <1>2, <1>3 DEF Copy, GroupDoc
<1>5. SharesGiven(groups) => g.share >= 1 \/ (g.share = Unset /\ ~g.locked)
  BY <1>4 DEF SharesGiven
<1> QED BY <1>1, <1>3, <1>4, <1>5, AddStep DEF Duplicate, Edit

\* What is left when one is taken out of a sequence.
LEMMA Removed ==
  ASSUME NEW S, NEW gs \in Seq(S), NEW i \in DOMAIN gs
  PROVE  /\ RemoveAt(gs, i) \in Seq(S) /\ Len(RemoveAt(gs, i)) = Len(gs) - 1
         /\ \A k \in DOMAIN RemoveAt(gs, i) :
              /\ (IF k < i THEN k ELSE k + 1) \in DOMAIN gs \ {i}
              /\ RemoveAt(gs, i)[k] = gs[IF k < i THEN k ELSE k + 1]
<1>1. Len(gs) \in Nat /\ DOMAIN gs = 1 .. Len(gs) /\ i \in 1 .. Len(gs)
  OBVIOUS
<1> DEFINE a == SubSeq(gs, 1, i - 1)
           b == SubSeq(gs, i + 1, Len(gs))
<1>2. a \in Seq(S) /\ Len(a) = i - 1 /\ \A k \in 1 .. i - 1 : a[k] = gs[k]
  BY <1>1
<1>3. b \in Seq(S) /\ Len(b) = Len(gs) - i /\ \A k \in 1 .. Len(gs) - i : b[k] = gs[i + k]
  BY <1>1
<1>4. RemoveAt(gs, i) = a \o b
  BY DEF RemoveAt
<1> HIDE DEF a, b
<1>5. a \o b \in Seq(S) /\ Len(a \o b) = Len(gs) - 1
  <2>1. a \in Seq(S) /\ b \in Seq(S)
    BY <1>2, <1>3
  <2>2. a \o b \in Seq(S) /\ Len(a \o b) = Len(a) + Len(b)
    BY <2>1
  <2> QED BY <1>1, <1>2, <1>3, <2>2
<1>6. \A k \in 1 .. Len(gs) - 1 : (a \o b)[k] = IF k < i THEN a[k] ELSE b[k - (i - 1)]
  <2>1. a \in Seq(S) /\ b \in Seq(S)
    BY <1>2, <1>3
  <2>2. \A k \in 1 .. Len(a) + Len(b) :
          (a \o b)[k] = IF k <= Len(a) THEN a[k] ELSE b[k - Len(a)]
    BY <2>1
  <2> SUFFICES ASSUME NEW k \in 1 .. Len(gs) - 1
               PROVE  (a \o b)[k] = IF k < i THEN a[k] ELSE b[k - (i - 1)]
    OBVIOUS
  <2>3. k \in 1 .. Len(a) + Len(b) /\ (k <= Len(a) <=> k < i) /\ Len(a) = i - 1
    BY <1>1, <1>2, <1>3
  <2> QED BY <2>2, <2>3
<1>7. ASSUME NEW k \in 1 .. Len(gs) - 1
      PROVE  /\ (IF k < i THEN k ELSE k + 1) \in DOMAIN gs \ {i}
             /\ (a \o b)[k] = gs[IF k < i THEN k ELSE k + 1]
  <2>1. CASE k < i
    BY <1>1, <1>2, <1>6, <2>1
  <2>2. CASE ~(k < i)
    <3>1. k - (i - 1) \in 1 .. Len(gs) - i /\ i + (k - (i - 1)) = k + 1
      BY <1>1, <2>2
    <3>2. b[k - (i - 1)] = gs[k + 1]
      BY <1>3, <3>1
    <3>3. k + 1 \in DOMAIN gs \ {i}
      BY <1>1, <2>2
    <3> QED BY <1>6, <2>2, <3>2, <3>3
  <2> QED BY <2>1, <2>2
<1>8. DOMAIN (a \o b) = 1 .. Len(gs) - 1
  BY <1>5
<1> QED BY <1>4, <1>5, <1>7, <1>8

LEMMA DeleteStep ==
  ASSUME EditorInv, CalmInv, NEW p \in Page, Delete(p) PROVE EditorInv' /\ CalmInv'
<1>1. PICK i \in DOMAIN groups : groups[i].id \in Shown(p) /\ groups' = RemoveAt(groups, i)
  BY DEF Delete
<1>2. /\ Idle(p) /\ page' = [page EXCEPT ![p].due = "dialog"]
      /\ made' = made /\ broken' = broken /\ clashed' = clashed
  BY DEF Delete, Edit
<1>3. /\ groups \in Distribution /\ made \in Nat /\ Len(groups) <= made /\ made <= MaxGroups
      /\ Numbered(groups, made) /\ Len(groups) \in Nat
  BY PageFacts, PlacesOf
<1> DEFINE from(k) == IF k < i THEN k ELSE k + 1
<1>4. /\ groups' \in Distribution /\ Len(groups') = Len(groups) - 1
      /\ \A k \in DOMAIN groups' : from(k) \in DOMAIN groups \ {i} /\ groups'[k] = groups[from(k)]
  BY <1>1, <1>3, Removed DEF Distribution
<1>5. \A k, m \in DOMAIN groups' : from(k) = from(m) => k = m
  <2>1. \A k \in DOMAIN groups' : k \in Nat
    BY <1>4 DEF Distribution
  <2>2. i \in Nat
    BY <1>3 DEF Distribution
  <2> QED BY <2>1, <2>2
<1> HIDE DEF from
<1>6. Numbered(groups', made)
  BY <1>3, <1>4, <1>5 DEF Numbered
<1>7. SharesGiven(groups) => SharesGiven(groups')
  BY <1>4 DEF SharesGiven
<1>8. groups' # page[p].seen
  <2>1. PICK k \in DOMAIN page[p].seen : page[p].seen[k].id = groups[i].id
    BY <1>1 DEF Shown, Range
  <2>2. \A m \in DOMAIN groups' : groups'[m].id # groups[i].id
    BY <1>3, <1>4 DEF Numbered
  <2> QED BY <2>1, <2>2
<1>9. ASSUME NEW q \in Page, Tracks(page[q], groups) PROVE Tracks(page[q], groups')
  <2> DEFINE pg == page[q]
  <2>1. Tracks(pg, groups)
    BY <1>9
  <2> HIDE DEF pg
  <2>2. Tracks(pg, groups')
    BY <1>4, <2>1 DEF Tracks
  <2> QED BY <2>2 DEF pg
<1>10. made' \in Nat /\ made <= made' /\ made' <= MaxGroups /\ Len(groups') <= made'
  BY <1>2, <1>3, <1>4
<1>11. Numbered(groups', made')
  BY <1>2, <1>6
<1> QED BY <1>2, <1>4, <1>7, <1>8, <1>9, <1>10, <1>11, DialogStep

-----------------------------------------------------------------------------
(* The pages and the browser together.                                     *)

\* A page that has not loaded.
BlankOk ==
  /\ Blank \in PageDoc /\ SavesOwn(Blank) /\ ~Blank.failed
  /\ \A m : Numbered(Blank.seen, m) /\ Numbered(Blank.dist, m)
  /\ Parts(Blank.dist) /\ BalancedAsSeen(Blank) /\ Blank.saving = {}
  /\ \A gs : Looks(Blank, gs)
LEMMA BlankKnows == BlankOk
<1>1. <<>> \in Distribution /\ DOMAIN <<>> = {}
  BY DEF Distribution
<1>2. /\ Blank.seen = <<>> /\ Blank.dist = <<>> /\ Blank.saving = {} /\ Blank.due = "first"
      /\ ~Blank.failed
  BY DEF Blank
<1>3. Blank \in PageDoc
  BY <1>1 DEF Blank, PageDoc
<1>4. \A m : Numbered(<<>>, m)
  BY <1>1 DEF Numbered
<1>5. Parts(<<>>) /\ ~Unsettled(<<>>)
  BY <1>1 DEF Parts, Unsettled
<1> QED BY <1>2, <1>3, <1>4, <1>5 DEF BlankOk, SavesOwn, BalancedAsSeen, Looks

LEMMA InitPages == ASSUME Init PROVE EditorInv /\ CalmInv
<1>1. PICK n \in 0 .. MaxGroups : groups = [i \in 1 .. n |-> Group(i, Unset, FALSE)]
  BY DEF Init, EditorInit
<1>2. /\ made = Len(groups) /\ page = [p \in Page |-> Blank]
      /\ broken = FALSE /\ clashed = FALSE /\ n \in Nat
  BY EditorAssumption DEF Init, EditorInit
<1>3. \A i \in 1 .. n : /\ groups[i] \in GroupDoc /\ groups[i].id = i
                        /\ groups[i].share = Unset /\ ~groups[i].locked
  BY <1>1, <1>2 DEF Group, GroupDoc, Unset
<1>4. groups \in Distribution /\ Len(groups) = n /\ DOMAIN groups = 1 .. n
  <2>1. groups = [i \in 1 .. n |-> groups[i]]
    BY <1>1
  <2>2. groups \in Seq(GroupDoc)
    BY <1>2, <1>3, <2>1
  <2> QED BY <1>2, <2>1, <2>2 DEF Distribution
<1>5. Numbered(groups, made)
  BY <1>2, <1>3, <1>4 DEF Numbered
<1>6. BlankOk
  BY BlankKnows
<1>7. EditorInv
  <2>1. made \in Nat /\ made <= MaxGroups /\ Len(groups) <= made
    BY <1>2, <1>4, EditorAssumption
  <2> QED BY <1>2, <1>4, <1>5, <1>6, <2>1 DEF EditorInv, EditorType, BlankOk
<1>8. SharesGiven(groups)
  BY <1>3, <1>4 DEF SharesGiven
<1>9. CalmInv
  BY <1>2, <1>6, <1>8 DEF CalmInv, BlankOk
<1> QED BY <1>7, <1>9

LEMMA StepPages ==
  ASSUME EditorInv, CalmInv, [Next]_vars PROVE EditorInv' /\ CalmInv'
<1>1. CASE UNCHANGED editor
  <2>1. /\ groups' = groups /\ made' = made /\ page' = page
        /\ broken' = broken /\ clashed' = clashed
    BY <1>1 DEF editor
  <2> QED BY <2>1 DEF EditorInv, EditorType, CalmInv, Calm
<1>2. CASE Publish
  <2>1. /\ groups' = <<>> /\ made' = 0 /\ broken' = FALSE /\ clashed' = FALSE
        /\ page' = [p \in Page |-> Blank]
    BY <1>2 DEF Publish
  <2>2. <<>> \in Distribution /\ DOMAIN <<>> = {} /\ Len(<<>>) = 0
    BY DEF Distribution
  <2>3. BlankOk /\ MaxGroups \in Nat
    BY BlankKnows, EditorAssumption
  <2>4. Numbered(groups', made') /\ SharesGiven(groups') /\ ~Unsettled(groups')
    BY <2>1, <2>2 DEF Numbered, SharesGiven, Unsettled
  <2>5. EditorInv'
    <3>1. made' \in Nat /\ made' <= MaxGroups /\ Len(groups') <= made'
      BY <2>1, <2>2, <2>3
    <3> QED BY <2>1, <2>2, <2>3, <2>4, <3>1 DEF EditorInv, EditorType, BlankOk
  <2>6. CalmInv'
    BY <2>1, <2>3, <2>4 DEF CalmInv, BlankOk
  <2> QED BY <2>5, <2>6
<1>3. ASSUME NEW p \in Page,
             \/ Load(p) \/ ReadGroup(p) \/ WriteGroup(p)
             \/ Lock(p) \/ SetShare(p) \/ Create(p) \/ Duplicate(p) \/ Delete(p)
      PROVE  EditorInv' /\ CalmInv'
  BY <1>3, LoadStep, ReadStep, WriteStep, LockStep, SetShareStep, CreateStep,
     DuplicateStep, DeleteStep
<1>4. CASE EditorNext
  BY <1>3, <1>4 DEF EditorNext
<1> QED BY <1>1, <1>2, <1>4 DEF Next, vars

\* Numbers and requests are in order, and groups out of balance are going to be looked
\* at (ActionGroupDistributionSection.tsx:76).
THEOREM PagesCorrect == Spec => [](EditorInv /\ CalmInv)
<1>1. Init => EditorInv /\ CalmInv
  BY InitPages
<1>2. EditorInv /\ CalmInv /\ [Next]_vars => (EditorInv /\ CalmInv)'
  BY StepPages
<1> QED BY <1>1, <1>2, PTL DEF Spec

\* Groups that are given their shares, and in balance.
LEMMA BalancedIsEven ==
  ASSUME NEW gs, SharesGiven(gs), ~NeedsBalance(gs) PROVE Even(gs)
<1>1. SumOf(gs) = Total /\ \A i \in DOMAIN gs : gs[i].share # Unset
  BY DEF NeedsBalance
<1> QED BY <1>1 DEF SharesGiven, Even

\* When all is quiet the shares make up the whole (QuietIsBalanced).
LEMMA QuietEven ==
  ASSUME Page # {}, EditorInv, CalmInv, Quiet, Calm
  PROVE  groups = <<>> \/ AllLocked(groups) \/ Even(groups)
<1>1. \A p \in Page : ~Looks(page[p], groups)
  BY DEF Quiet, Idle, Looks
<1>2. ~Unsettled(groups) /\ SharesGiven(groups)
  BY <1>1 DEF CalmInv
<1>3. ~NeedsBalance(groups) => Even(groups)
  BY <1>2, BalancedIsEven
<1> QED BY <1>2, <1>3 DEF Unsettled

\* Once every page has saved and loaded, the shares in the database make up the whole,
\* of pages that saved one at a time (ActionGroupDistributionSection.tsx:100).
THEOREM QuietIsBalancedCorrect == ASSUME Page # {} PROVE Spec => []QuietIsBalanced
<1>1. EditorInv /\ CalmInv => QuietIsBalanced
  BY QuietEven DEF QuietIsBalanced
<1> QED BY <1>1, PagesCorrect, PTL

\* An edit of the shares loses nothing of the whole (setDistributionValue).
THEOREM EditKeepsWholeCorrect == Spec => EditKeepsWhole
<1> DEFINE Keeps == \A p \in Page : SetShare(p) /\ Even(page[p].dist) => Even(page'[p].dist)
<1>1. ASSUME EditorInv, NEW p \in Page, SetShare(p), Even(page[p].dist) PROVE Even(page'[p].dist)
  <2> DEFINE old == page[p].dist
  <2>1. PICK i \in DOMAIN old, v \in 1 .. Total :
          Settable(old, i, v) /\ page' = [page EXCEPT ![p] = Flush(p, WithShare(old, i, v))]
    BY <1>1 DEF SetShare
  <2>2. /\ old \in Distribution /\ v \in Int /\ Parts(old) /\ page[p] \in PageDoc
        /\ page \in [Page -> PageDoc]
    BY <1>1, PageFacts DEF Even, Parts
  <2>3. page'[p].dist = WithShare(old, i, v)
    <3>1. page'[p] = Flush(p, WithShare(old, i, v))
      BY <2>1, <2>2
    <3> HIDE DEF old
    <3>2. Flush(p, WithShare(old, i, v)).dist = WithShare(old, i, v)
      BY <2>2 DEF Flush, PageDoc
    <3> QED BY <3>1, <3>2
  <2> HIDE DEF old
  <2> QED BY <2>1, <2>2, <2>3, WithShareKeeps DEF Even, Parts
<1>2. EditorInv /\ [Next]_vars => [Keeps]_vars
  BY <1>1
<1> QED BY <1>2, PagesCorrect, PTL DEF Spec, EditKeepsWhole

-----------------------------------------------------------------------------
(* What the browser does with shares that make up the whole.               *)

Edge(gs) == SharesUpTo(gs, DOMAIN gs)

\* The ranges of the groups follow each other from 0 up to the whole.
LEMMA Edges ==
  ASSUME NEW gs \in Distribution, Even(gs)
  PROVE  /\ Edge(gs)[0] = 0 /\ Edge(gs)[Len(gs)] = Total
         /\ \A i \in 0 .. Len(gs) : Edge(gs)[i] \in Int
         /\ \A i \in 1 .. Len(gs) : /\ Edge(gs)[i] = Edge(gs)[i - 1] + gs[i].share
                                    /\ gs[i].share \in Int /\ gs[i].share >= 1
<1>1. Summable(gs) /\ DOMAIN gs = 1 .. Len(gs)
  BY Sums, PlacesOf
<1>2. /\ Edge(gs)[0] = 0 /\ \A i \in 0 .. Len(gs) : Edge(gs)[i] \in Int
      /\ \A i \in 1 .. Len(gs) :
           Edge(gs)[i] = Edge(gs)[i - 1] + (IF i \in DOMAIN gs THEN gs[i].share ELSE 0)
  BY <1>1, SumsAre DEF Edge
<1>3. Edge(gs)[Len(gs)] = Total
  BY DEF Even, SumOf, SumAt, Edge
<1>4. \A i \in 1 .. Len(gs) : gs[i].share \in Int /\ gs[i].share >= 1
  BY <1>1, PlacesOf DEF Even
<1> QED BY <1>1, <1>2, <1>3, <1>4

LEMMA EdgesRise ==
  ASSUME NEW gs \in Distribution, Even(gs), NEW i \in 0 .. Len(gs), NEW j \in 0 .. Len(gs), i <= j
  PROVE  Edge(gs)[i] <= Edge(gs)[j]
<1> DEFINE E == Edge(gs)
           n == Len(gs)
           T == {k \in 0 .. n : k >= i => E[i] <= E[k]}
<1>1. /\ n \in Nat /\ \A k \in 0 .. n : E[k] \in Int
      /\ \A k \in 1 .. n : E[k] = E[k - 1] + gs[k].share /\ gs[k].share \in Int /\ gs[k].share >= 1
  BY Edges, PlacesOf
<1> HIDE DEF E, n
<1>2. ASSUME NEW k \in 1 .. n, k - 1 \in T PROVE k \in T
  <2>1. /\ E[k] \in Int /\ E[k - 1] \in Int /\ E[i] \in Int /\ E[k - 1] <= E[k]
        /\ (k - 1 >= i => E[i] <= E[k - 1]) /\ (k >= i => k = i \/ k - 1 >= i)
    <3>1. k \in 0 .. n /\ k - 1 \in 0 .. n /\ i \in 0 .. n
      BY <1>1 DEF n
    <3>2. E[k] = E[k - 1] + gs[k].share /\ gs[k].share \in Int /\ gs[k].share >= 1
      BY <1>1
    <3>3. E[k] \in Int /\ E[k - 1] \in Int /\ E[i] \in Int
      BY <1>1, <3>1
    <3>4. k - 1 >= i => E[i] <= E[k - 1]
      BY <1>2
    <3> QED BY <3>1, <3>2, <3>3, <3>4
  <2>2. k >= i => E[i] <= E[k]
    BY <2>1
  <2> QED BY <1>1, <2>2
<1>3. 0 \in T
  BY <1>1 DEF n
<1> HIDE DEF T
<1>4. 0 .. n \subseteq T
  BY <1>1, <1>2, <1>3, Climb
<1> QED BY <1>4 DEF T, E, n

\* What is before a group is the edge of the one before it.
LEMMA BeforeIsEdge ==
  ASSUME NEW gs \in Distribution, Even(gs), NEW i \in 1 .. Len(gs)
  PROVE  Before(gs, i) = Edge(gs)[i - 1]
<1> DEFINE at == 1 .. i - 1
           S == SharesUpTo(gs, at)
           n == Len(gs)
           T == {k \in 0 .. n : S[k] = IF k < i THEN Edge(gs)[k] ELSE Edge(gs)[i - 1]}
<1>1. n \in Nat /\ i \in 1 .. n /\ i - 1 \in 0 .. n
  BY PlacesOf
<1>2. /\ S[0] = 0 /\ \A k \in 1 .. n : S[k] = S[k - 1] + (IF k \in at THEN gs[k].share ELSE 0)
      /\ \A k \in 0 .. n : S[k] \in Int
  BY Sums, SumsAre
<1>3. /\ Edge(gs)[0] = 0 /\ \A k \in 1 .. n : Edge(gs)[k] = Edge(gs)[k - 1] + gs[k].share
  BY Edges
<1> HIDE DEF S, n
<1>4. ASSUME NEW k \in 1 .. n, k - 1 \in T PROVE k \in T
  <2>1. S[k - 1] = IF k - 1 < i THEN Edge(gs)[k - 1] ELSE Edge(gs)[i - 1]
    BY <1>4
  <2>2. CASE k < i
    <3>1. k \in at /\ k - 1 < i
      BY <1>1, <2>2
    <3> QED BY <1>1, <1>2, <1>3, <2>1, <2>2, <3>1
  <2>3. CASE ~(k < i)
    <3>1. k \notin at /\ S[k] = S[k - 1] + 0 /\ S[k - 1] \in Int
      <4>1. k \notin at /\ k - 1 \in 0 .. n
        BY <1>1, <2>3
      <4>2. S[k] = S[k - 1] + 0 /\ S[k - 1] \in Int
        BY <1>2, <4>1
      <4> QED BY <4>1, <4>2
    <3>2. S[k - 1] = Edge(gs)[i - 1]
      <4>1. CASE k = i
        BY <1>1, <2>1, <4>1
      <4>2. CASE k # i
        BY <1>1, <2>1, <2>3, <4>2
      <4> QED BY <4>1, <4>2
    <3> QED BY <1>1, <2>3, <3>1, <3>2
  <2> QED BY <2>2, <2>3
<1>5. 0 \in T
  BY <1>1, <1>2, <1>3
<1> HIDE DEF T
<1>6. 0 .. n \subseteq T
  BY <1>1, <1>4, <1>5, Climb
<1>7. S[n] = Edge(gs)[i - 1]
  BY <1>1, <1>6 DEF T
<1> QED BY <1>7 DEF Before, SumAt, S, n

\* Of the values from `first` on, as many as make up the whole, each is in the range of
\* one group.
LEMMA RangesMeet ==
  ASSUME NEW gs \in Distribution, Even(gs), NEW first \in Int, NEW v \in first .. first + Total - 1
  PROVE  \E i \in DOMAIN gs : /\ InRange(gs, first, i, v)
                              /\ \A k \in DOMAIN gs : InRange(gs, first, k, v) => k = i
<1> DEFINE E == Edge(gs)
           n == Len(gs)
           Above == {k \in 0 .. n : v < first + E[k]}
<1>1. /\ n \in Nat /\ DOMAIN gs = 1 .. n /\ Total \in Nat /\ E[0] = 0 /\ E[n] = Total
      /\ \A k \in 0 .. n : E[k] \in Int
      /\ \A k \in 1 .. n : E[k] = E[k - 1] + gs[k].share /\ gs[k].share \in Int
  BY Edges, PlacesOf, TotalAssumption
<1>2. \A k \in 1 .. n : InRange(gs, first, k, v) <=> v >= first + E[k - 1] /\ v < first + E[k]
  <2> SUFFICES ASSUME NEW k \in 1 .. n
               PROVE  InRange(gs, first, k, v) <=> v >= first + E[k - 1] /\ v < first + E[k]
    OBVIOUS
  <2>1. InRange(gs, first, k, v) <=> v >= first + E[k - 1] /\ v <= first + E[k - 1] + gs[k].share - 1
    BY BeforeIsEdge, SMTT(20) DEF InRange
  <2>2. /\ E[k] = E[k - 1] + gs[k].share /\ gs[k].share \in Int /\ E[k - 1] \in Int
        /\ v \in Int
    BY <1>1
  <2> QED BY <2>1, <2>2
<1>3. n \in Above
  BY <1>1
<1>4. PICK i \in Above : \A k \in Above : ~(k < i)
  <2>1. Above \in SUBSET Nat /\ Above # {}
    BY <1>1, <1>3
  <2> HIDE DEF Above
  <2> QED BY <2>1, Least
<1>5. i \in 0 .. n /\ v < first + E[i]
  BY <1>4
<1>6. i # 0
  BY <1>1, <1>5
<1>7. i \in 1 .. n /\ i - 1 \in 0 .. n /\ i - 1 < i
  BY <1>1, <1>5, <1>6
<1>8. v >= first + E[i - 1]
  <2>1. i - 1 \notin Above
    BY <1>4, <1>7
  <2>2. E[i - 1] \in Int /\ v \in Int
    BY <1>1, <1>7
  <2> QED BY <1>7, <2>1, <2>2
<1>9. ASSUME NEW k \in 1 .. n, InRange(gs, first, k, v) PROVE k = i
  <2>1. v >= first + E[k - 1] /\ v < first + E[k] /\ k \in 0 .. n /\ k - 1 \in 0 .. n
    BY <1>1, <1>2, <1>9
  <2>2. ~(k < i)
    <3>1. k \in Above
      BY <2>1
    <3> QED BY <1>4, <3>1
  <2>3. ~(i < k)
    <3> SUFFICES ASSUME i <= k - 1 PROVE FALSE
      BY <1>7
    <3>1. E[i] <= E[k - 1]
      BY <1>5, <2>1, EdgesRise
    <3>2. E[i] \in Int /\ E[k - 1] \in Int /\ v \in Int
      BY <1>1, <1>5, <2>1
    <3> HIDE DEF E
    <3> QED BY <1>5, <2>1, <3>1, <3>2
  <2> QED BY <1>7, <2>2, <2>3
<1> QED BY <1>1, <1>2, <1>5, <1>7, <1>8, <1>9

\* So as many values pick a group as its share says, of those there are.
LEMMA PicksAreShares ==
  ASSUME NEW gs \in Distribution, Even(gs), NEW first \in Int
  PROVE  /\ \A v \in first .. first + Total - 1 : Pick(gs, first, v) \in DOMAIN gs
         /\ Len(gs) > 1 => \A i \in DOMAIN gs :
              Cardinality({v \in first .. first + Total - 1 : Pick(gs, first, v) = i}) = gs[i].share
<1> DEFINE E == Edge(gs)
           n == Len(gs)
           Value == first .. first + Total - 1
<1>1. /\ n \in Nat /\ DOMAIN gs = 1 .. n /\ Total \in Nat \ {0} /\ E[0] = 0 /\ E[n] = Total
      /\ \A k \in 0 .. n : E[k] \in Int
      /\ \A k \in 1 .. n : E[k] = E[k - 1] + gs[k].share /\ gs[k].share \in Int /\ gs[k].share >= 1
  BY Edges, PlacesOf, TotalAssumption
<1>2. n # 0
  BY <1>1
<1>3. ASSUME NEW v \in Value, n > 1
      PROVE  Pick(gs, first, v) \in DOMAIN gs /\ InRange(gs, first, Pick(gs, first, v), v)
             /\ \A k \in DOMAIN gs : InRange(gs, first, k, v) => k = Pick(gs, first, v)
  <2>1. PICK i \in DOMAIN gs : /\ InRange(gs, first, i, v)
                               /\ \A k \in DOMAIN gs : InRange(gs, first, k, v) => k = i
    BY RangesMeet
  <2> DEFINE hit == {k \in DOMAIN gs : InRange(gs, first, k, v)}
  <2>2. hit = {i}
    BY <2>1
  <2>3. Pick(gs, first, v) = Min(hit)
    BY <1>1, <1>3, <2>2 DEF Pick
  <2>4. i \in Nat
    BY <1>1
  <2> HIDE DEF hit
  <2>5. Min(hit) = i
    <3>1. hit \in SUBSET Nat /\ hit # {}
      BY <2>2, <2>4
    <3>2. Min(hit) \in hit
      BY <3>1, FirstOf
    <3> QED BY <2>2, <3>2
  <2> QED BY <2>1, <2>3, <2>5
<1>4. \A v \in Value : Pick(gs, first, v) \in DOMAIN gs
  <2>1. CASE n = 1
    BY <1>1, <2>1 DEF Pick
  <2>2. CASE n > 1
    BY <1>3, <2>2
  <2> QED BY <1>1, <1>2, <2>1, <2>2
<1>5. ASSUME n > 1, NEW i \in DOMAIN gs
      PROVE  Cardinality({v \in Value : Pick(gs, first, v) = i}) = gs[i].share
  <2> DEFINE lo == first + E[i - 1]
             hi == first + E[i] - 1
             Of == {v \in Value : Pick(gs, first, v) = i}
  <2>1. /\ i \in 1 .. n /\ i \in 0 .. n /\ i - 1 \in 0 .. n /\ 0 \in 0 .. n /\ n \in 0 .. n
        /\ 0 <= i - 1 /\ i <= n
    BY <1>1
  <2>2. 0 <= E[i - 1] /\ E[i] <= Total
    BY <1>1, <2>1, EdgesRise
  <2>3. /\ E[i] \in Int /\ E[i - 1] \in Int /\ E[i] = E[i - 1] + gs[i].share
        /\ gs[i].share \in Int /\ gs[i].share >= 1
    BY <1>1, <2>1
  <2>4. ASSUME NEW v \in Int PROVE InRange(gs, first, i, v) <=> v \in lo .. hi
    <3>1. InRange(gs, first, i, v) <=> v >= first + E[i - 1] /\ v <= first + E[i - 1] + gs[i].share - 1
      BY <2>1, BeforeIsEdge, SMTT(20) DEF InRange
    <3> HIDE DEF E
    <3> QED BY <2>3, <3>1
  <2>5. lo .. hi \subseteq Value
    <3>1. lo \in Int /\ hi \in Int /\ first <= lo /\ hi <= first + Total - 1
      <4>1. Total \in Int
        BY <1>1
      <4> HIDE DEF E
      <4> QED BY <2>2, <2>3, <4>1
    <3> HIDE DEF lo, hi
    <3> QED BY <1>1, <3>1
  <2>6. Of = lo .. hi
    <3> HIDE DEF lo, hi
    <3>1. \A v \in Value : v \in Int /\ (Pick(gs, first, v) = i <=> InRange(gs, first, i, v))
      BY <1>3, <1>5
    <3> HIDE DEF Value
    <3> QED BY <2>4, <2>5, <3>1
  <2>7. Cardinality(lo .. hi) = gs[i].share
    <3>1. lo \in Int /\ hi \in Int /\ ~(lo > hi) /\ hi - lo + 1 = gs[i].share
      <4> HIDE DEF E
      <4> QED BY <2>3
    <3> HIDE DEF lo, hi
    <3> QED BY <3>1, FS_Interval
  <2> QED BY <2>6, <2>7
<1> QED BY <1>4, <1>5

LEMMA BothPickShares ==
  ASSUME NEW gs \in Distribution, Even(gs)
  PROVE  /\ \A v \in SessionValue : PickForSession(gs, v) \in DOMAIN gs
         /\ \A v \in RandomValue(gs) : PickAtRandom(gs, v) \in DOMAIN gs
         /\ Len(gs) > 1 => ServedAsShared(gs)
<1>1. Total \in Nat \ {0} /\ SumOf(gs) = Total
  BY TotalAssumption DEF Even
<1>2. SessionValue = 0 .. 0 + Total - 1
  BY <1>1 DEF SessionValue
<1>3. RandomValue(gs) = 1 .. 1 + Total - 1
  BY <1>1 DEF RandomValue
<1>4. /\ \A v \in SessionValue : PickForSession(gs, v) \in DOMAIN gs
      /\ Len(gs) > 1 => \A i \in DOMAIN gs :
           Cardinality({v \in SessionValue : PickForSession(gs, v) = i}) = gs[i].share
  BY <1>2, PicksAreShares DEF PickForSession
<1>5. /\ \A v \in RandomValue(gs) : PickAtRandom(gs, v) \in DOMAIN gs
      /\ Len(gs) > 1 => \A i \in DOMAIN gs :
           Cardinality({v \in RandomValue(gs) : PickAtRandom(gs, v) = i}) = gs[i].share
  BY <1>3, PicksAreShares DEF PickAtRandom
<1> QED BY <1>4, <1>5 DEF ServedAsShared

-----------------------------------------------------------------------------
(* The rule from the pages to the browser.                                 *)

LEMMA EvenSame ==
  ASSUME NEW gs \in Distribution, NEW hs \in Distribution, Len(gs) = Len(hs),
         \A i \in DOMAIN hs : gs[i].share = hs[i].share, Even(hs)
  PROVE  Even(gs)
<1>1. Summable(gs) /\ Summable(hs) /\ DOMAIN gs = DOMAIN hs
  BY Sums, PlacesOf
<1>2. SumAt(gs, DOMAIN hs) = SumAt(hs, DOMAIN hs)
  <2> DEFINE at == DOMAIN hs
  <2>1. \A i \in at \cap DOMAIN gs : gs[i].share = hs[i].share
    OBVIOUS
  <2>2. Len(hs) = Len(gs)
    OBVIOUS
  <2> HIDE DEF at
  <2>3. SumAt(gs, at) = SumAt(hs, at)
    BY <1>1, <2>1, <2>2, SumSame
  <2> QED BY <2>3 DEF at
<1> QED BY <1>1, <1>2 DEF Even, SumOf

LEMMA PublishGroups ==
  ASSUME EditorInv, CalmInv, Page # {},
         NEW gs, gs = [i \in DOMAIN groups |-> Group(groups[i].id, groups[i].share, FALSE)]
  PROVE  /\ gs \in Distribution
         /\ Quiet /\ Calm /\ ~(groups # <<>> /\ AllLocked(groups)) => gs = <<>> \/ Even(gs)
<1>1. groups \in Distribution
  BY DEF EditorInv, EditorType
<1>2. ASSUME NEW i \in DOMAIN groups
      PROVE  gs[i] \in GroupDoc /\ gs[i].share = groups[i].share
  <2>1. groups[i] \in GroupDoc
    BY <1>1, Sums
  <2> QED BY <2>1 DEF Group, GroupDoc
<1>3. DOMAIN gs = DOMAIN groups /\ gs = [i \in DOMAIN gs |-> gs[i]]
  OBVIOUS
<1>4. gs \in Distribution /\ Len(gs) = Len(groups)
  BY <1>1, <1>2, <1>3, Places
<1>5. Even(groups) => Even(gs)
  <2>1. \A i \in DOMAIN groups : gs[i].share = groups[i].share
    BY <1>2
  <2> QED BY <1>1, <1>4, <2>1, EvenSame
<1>6. groups = <<>> => gs = <<>>
  BY <1>4 DEF Distribution
<1> QED BY <1>4, <1>5, <1>6, QuietEven

\* The rule that was published, and its executions.
ServedType == served # None => served.groups \in Distribution
CalmServed ==
  served # None /\ served.calm /\ ~served.locked => served.groups = <<>> \/ Even(served.groups)
RecordedInv ==
  /\ executed \in Nat /\ (served = None => executed = 0)
  /\ served # None /\ served.type = "SESSION" => served.distV \in SessionValue
  /\ served # None /\ served.calm /\ ~served.locked /\ ~served.repeats =>
       executed = 0 \/ (executed = 1 /\ recorded)

LEMMA InitServed == Init => ServedType /\ CalmServed /\ RecordedInv
BY DEF Init, ChainsInit, ServedType, CalmServed, RecordedInv

LEMMA StepType == ASSUME EditorInv, ServedType, [Next]_vars PROVE ServedType'
<1>1. CASE Publish
  <2>1. served'.groups = [i \in DOMAIN groups |-> Group(groups[i].id, groups[i].share, FALSE)]
    BY <1>1 DEF Publish
  <2>2. served'.groups \in Distribution
    <3>1. groups \in Distribution
      BY DEF EditorInv, EditorType
    <3>2. \A i \in DOMAIN groups : Group(groups[i].id, groups[i].share, FALSE) \in GroupDoc
      BY <3>1, Sums DEF Group, GroupDoc
    <3>3. \A i \in DOMAIN groups : served'.groups[i] \in GroupDoc
      BY <2>1, <3>2
    <3> QED BY <2>1, <3>1, <3>3, Places
  <2> QED BY <2>2 DEF ServedType
<1>2. CASE ~Publish
  <2>1. served' = served
    BY <1>2 DEF Next, vars, chains, ChainsNext, Execute, StartAction, Answer, Expire
  <2> QED BY <2>1 DEF ServedType
<1> QED BY <1>1, <1>2

LEMMA StepCalmServed ==
  ASSUME Page # {}, EditorInv, CalmInv, CalmServed, [Next]_vars PROVE CalmServed'
<1>1. CASE Publish
  <2>1. PICK gs : gs = [i \in DOMAIN groups |-> Group(groups[i].id, groups[i].share, FALSE)]
    OBVIOUS
  <2>2. /\ served'.groups = gs /\ served'.calm = (Quiet /\ Calm)
        /\ served'.locked = (groups # <<>> /\ AllLocked(groups))
    BY <1>1, <2>1 DEF Publish
  <2>3. Quiet /\ Calm /\ ~(groups # <<>> /\ AllLocked(groups)) => gs = <<>> \/ Even(gs)
    BY <2>1, PublishGroups
  <2> QED BY <2>2, <2>3 DEF CalmServed
<1>2. CASE ~Publish
  <2>1. served' = served
    BY <1>2 DEF Next, vars, chains, ChainsNext, Execute, StartAction, Answer, Expire
  <2> QED BY <2>1 DEF CalmServed
<1> QED BY <1>1, <1>2

\* In a calm moment's rule a group is picked, or there is none to pick.
LEMMA SomethingPicked ==
  ASSUME ServedType, CalmServed, RecordedInv, served # None, served.calm, ~served.locked,
         NEW i \in Picks
  PROVE  i # 0
<1> DEFINE gs == served.groups
<1>1. gs \in Distribution /\ (gs = <<>> \/ Even(gs))
  BY DEF ServedType, CalmServed
<1>2. CASE gs = <<>>
  <2>1. i = None
    BY <1>2 DEF Picks
  <2> QED BY <2>1, ChainsAssumption
<1>3. CASE gs # <<>> /\ served.type = "SESSION"
  <2>1. i = PickForSession(gs, served.distV) /\ served.distV \in SessionValue
    BY <1>3 DEF Picks, RecordedInv
  <2>2. i \in DOMAIN gs
    BY <1>1, <1>3, <2>1, BothPickShares
  <2>3. DOMAIN gs = 1 .. Len(gs)
    BY <1>1, PlacesOf
  <2> HIDE DEF gs
  <2> QED BY <2>2, <2>3
<1>4. CASE gs # <<>> /\ served.type # "SESSION"
  <2>1. PICK v \in RandomValue(gs) : i = PickAtRandom(gs, v)
    BY <1>4 DEF Picks
  <2>2. i \in DOMAIN gs
    BY <1>1, <1>4, <2>1, BothPickShares
  <2> QED BY <1>1, <2>2, PlacesOf
<1> QED BY <1>2, <1>3, <1>4

LEMMA StepRecorded ==
  ASSUME ServedType, CalmServed, RecordedInv, [Next]_vars PROVE RecordedInv'
<1>1. CASE Publish
  <2>1. executed' = executed /\ executed = 0
    BY <1>1 DEF Publish, RecordedInv
  <2>2. served'.type = "SESSION" => served'.distV \in SessionValue
    BY <1>1 DEF Publish
  <2> QED BY <2>1, <2>2 DEF RecordedInv
<1>2. CASE Execute
  <2>1. /\ served # None /\ served' = served /\ executed' = executed + 1
        /\ recorded => served.repeats
    BY <1>2 DEF Execute, Turn
  <2>2. PICK i \in Picks : recorded' = (recorded \/ i # 0)
    BY <1>2 DEF Execute
  <2>3. executed \in Nat
    BY DEF RecordedInv
  <2>4. ASSUME served.calm, ~served.locked, ~served.repeats PROVE executed' = 1 /\ recorded'
    <3>1. executed = 0
      BY <2>1, <2>4 DEF RecordedInv
    <3>2. i # 0
      BY <2>1, <2>4, SomethingPicked
    <3>3. recorded'
      BY <2>2, <3>2
    <3> QED BY <2>1, <3>1, <3>3
  <2> QED BY <2>1, <2>3, <2>4 DEF RecordedInv
<1>3. CASE ~Publish /\ ~Execute
  <2>1. served' = served /\ executed' = executed /\ recorded' = recorded
    BY <1>3 DEF Next, vars, chains, ChainsNext, StartAction, Answer, Expire
  <2> QED BY <2>1 DEF RecordedInv
<1> QED BY <1>1, <1>2, <1>3

\* Of shares that make up the whole, as many values pick a group as its share says
\* (selectActionGroupForSession, selectActionGroupAtRandom).
THEOREM SharesAreKeptCorrect == Spec => []SharesAreKept
<1>1. Init => ServedType
  BY InitServed
<1>2. EditorInv /\ ServedType /\ [Next]_vars => ServedType'
  BY StepType
<1>3. ServedType => SharesAreKept
  BY BothPickShares DEF ServedType, SharesAreKept
<1> QED BY <1>1, <1>2, <1>3, PagesCorrect, PTL DEF Spec

\* A rule that does not repeat, published in a quiet moment, is executed once
\* (RuleManager.ts:54).
THEOREM CalmRunsOnceCorrect == ASSUME Page # {} PROVE Spec => []CalmRunsOnce
<1> DEFINE All == ServedType /\ CalmServed /\ RecordedInv
<1>1. Init => All
  BY InitServed
<1>2. EditorInv /\ CalmInv /\ All /\ [Next]_vars => All'
  BY StepType, StepCalmServed, StepRecorded
<1>3. All => CalmRunsOnce
  BY DEF RecordedInv, CalmRunsOnce
<1> HIDE DEF All
<1> QED BY <1>1, <1>2, <1>3, PagesCorrect, PTL DEF Spec

-----------------------------------------------------------------------------
(* The chains of actions, whatever groups were published.                  *)

Chain(G) == [group : G, log : Seq(Outcome)]
ChainsType == \E G : chain \in Seq(Chain(G))

\* A timer runs for an action that has not been settled, and of an action that is
\* overdue it is known that it timed out.
At(t) == t[1] \in DOMAIN chain /\ t[2] \in DOMAIN Log(t[1])
TimersInv ==
  /\ timers \subseteq Nat \X Nat
  /\ \A t \in timers : At(t) /\ Log(t[1])[t[2]] = "pending"
  /\ \A t \in overdue : At(t) /\ Log(t[1])[t[2]] = "timeout"
ChainsInv == ChainsType /\ TimersInv

\* A sequence of the elements of a set is one of those of a larger set.
LEMMA Widen ==
  ASSUME NEW S, NEW T, NEW s \in Seq(S), S \subseteq T PROVE s \in Seq(T)
<1>1. \A i \in 1 .. Len(s) : s[i] \in T
  OBVIOUS
<1>2. s = [i \in 1 .. Len(s) |-> s[i]]
  OBVIOUS
<1> QED BY <1>1, <1>2

LEMMA Single == ASSUME NEW S, NEW x \in S PROVE <<x>> \in Seq(S)
OBVIOUS

LEMMA LogTypes ==
  ASSUME ChainsType, NEW c \in DOMAIN chain PROVE c \in Nat /\ Log(c) \in Seq(Outcome)
<1>1. PICK G : chain \in Seq(Chain(G))
  BY DEF ChainsType
<1>2. c \in Nat /\ chain[c] \in Chain(G)
  BY <1>1
<1> QED BY <1>2 DEF Chain, Log

LEMMA InitInv == Init => ChainsInv
<1> SUFFICES ASSUME Init PROVE ChainsInv
  OBVIOUS
<1>1. chain \in Seq(Chain({})) /\ timers = {} /\ overdue = {}
  BY DEF Init, ChainsInit
<1> QED BY <1>1 DEF ChainsInv, ChainsType, TimersInv

\* A step that moves chains on, or starts some: what holds of a log.
Moves ==
  /\ DOMAIN chain \subseteq DOMAIN chain'
  /\ \A c \in DOMAIN chain :
       /\ DOMAIN Log(c) \subseteq DOMAIN Log(c)'
       /\ \A a \in DOMAIN Log(c) : Log(c)[a] # "pending" => Log(c)'[a] = Log(c)[a]
       /\ Len(Log(c)') > Len(Log(c)) => Range(Log(c)) \subseteq {"success"}

LEMMA ExecuteMoves == ASSUME ChainsInv, Execute PROVE ChainsInv' /\ Moves
<1>1. PICK G : chain \in Seq(Chain(G))
  BY DEF ChainsInv, ChainsType
<1>2. PICK i \in Picks :
        chain' = chain \o Started(Ordinary)
                       \o (IF i \in {None, 0} THEN <<>> ELSE Started(served.groups[i].id))
  BY DEF Execute
<1> DEFINE H == G \cup {Ordinary, served.groups[i].id}
<1> DEFINE new == Started(Ordinary)
                  \o (IF i \in {None, 0} THEN <<>> ELSE Started(served.groups[i].id))
<1>2a. /\ G \subseteq H /\ Ordinary \in H /\ served.groups[i].id \in H
  OBVIOUS
<1> HIDE DEF H
<1>3. ASSUME NEW g \in H PROVE Started(g) \in Seq(Chain(H))
  <2>1. [group |-> g, log |-> <<>>] \in Chain(H)
    BY DEF Chain
  <2>2. <<[group |-> g, log |-> <<>>]>> \in Seq(Chain(H))
    BY <2>1, Single
  <2> QED BY <2>2 DEF Started
<1>4. chain \in Seq(Chain(H))
  <2>1. Chain(G) \subseteq Chain(H)
    BY <1>2a DEF Chain
  <2> QED BY <1>1, <2>1, Widen
<1>5. new \in Seq(Chain(H)) /\ chain' = chain \o new
  <2> DEFINE more == IF i \in {None, 0} THEN <<>> ELSE Started(served.groups[i].id)
  <2>1. more \in Seq(Chain(H)) /\ Started(Ordinary) \in Seq(Chain(H))
    BY <1>2a, <1>3
  <2>2. chain' = (chain \o Started(Ordinary)) \o more
    BY <1>2
  <2>3. new = Started(Ordinary) \o more
    OBVIOUS
  <2> HIDE DEF more, new
  <2> QED BY <1>4, <2>1, <2>2, <2>3
<1> HIDE DEF new
<1>7. /\ chain' \in Seq(Chain(H)) /\ DOMAIN chain \subseteq DOMAIN chain'
      /\ \A c \in DOMAIN chain : chain'[c] = chain[c]
  BY <1>4, <1>5
<1>8. timers' = timers /\ overdue' = overdue
  BY DEF Execute
<1>9. \A c \in DOMAIN chain : Log(c)' = Log(c) /\ Log(c) \in Seq(Outcome)
  BY <1>7, LogTypes DEF ChainsInv, Log
<1>10. ChainsType' /\ Moves
  BY <1>7, <1>9 DEF ChainsType, Moves
<1>11. TimersInv'
  BY <1>7, <1>8, <1>9 DEF ChainsInv, TimersInv, At
<1> QED BY <1>10, <1>11 DEF ChainsInv

\* A step that changes the log of one chain.
LEMMA LogMoves ==
  ASSUME ChainsInv, NEW c \in DOMAIN chain, NEW log \in Seq(Outcome),
         chain' = [chain EXCEPT ![c].log = log]
  PROVE  /\ ChainsType' /\ DOMAIN chain' = DOMAIN chain
         /\ Log(c)' = log /\ \A d \in DOMAIN chain \ {c} : Log(d)' = Log(d)
         /\ \A d \in DOMAIN chain : Log(d) \in Seq(Outcome)
<1>1. PICK G : chain \in Seq(Chain(G))
  BY DEF ChainsInv, ChainsType
<1>2. chain[c] \in Chain(G)
  BY <1>1
<1>3. [chain[c] EXCEPT !.log = log] \in Chain(G)
  BY <1>2 DEF Chain
<1>4. chain' = [chain EXCEPT ![c] = [chain[c] EXCEPT !.log = log]]
  OBVIOUS
<1>5. chain' \in Seq(Chain(G)) /\ DOMAIN chain' = DOMAIN chain
  BY <1>1, <1>3, <1>4
<1>6. \A d \in DOMAIN chain : Log(d)' = IF d = c THEN log ELSE Log(d)
  BY <1>1, <1>2, <1>4 DEF Log, Chain
<1> QED BY <1>5, <1>6, LogTypes DEF ChainsType, ChainsInv

LEMMA StartMoves == ASSUME ChainsInv, NEW c, StartAction(c) PROVE ChainsInv' /\ Moves
<1> DEFINE kind == ActionsOf[chain[c].group][NextAction(c)]
<1>1. /\ c \in DOMAIN chain /\ Ready(c) /\ overdue' = overdue
      /\ timers' = timers \cup (IF Timed(kind) THEN {<<c, NextAction(c)>>} ELSE {})
  BY DEF StartAction
<1>2. PICK outcome \in Outcome :
        /\ chain' = [chain EXCEPT ![c].log = Append(@, outcome)]
        /\ Timed(kind) => outcome = "pending"
  BY DEF StartAction, Timed, Outcome
<1>3. c \in Nat /\ Log(c) \in Seq(Outcome)
  BY <1>1, LogTypes DEF ChainsInv
<1>4. chain' = [chain EXCEPT ![c].log = Append(Log(c), outcome)]
  BY <1>2 DEF Log
<1>4a. Append(Log(c), outcome) \in Seq(Outcome)
  BY <1>3
<1>5. /\ ChainsType' /\ DOMAIN chain' = DOMAIN chain
      /\ Log(c)' = Append(Log(c), outcome) /\ \A d \in DOMAIN chain \ {c} : Log(d)' = Log(d)
      /\ \A d \in DOMAIN chain : Log(d) \in Seq(Outcome)
  BY <1>1, <1>4a, <1>4, LogMoves
<1>6. \A d \in DOMAIN chain : /\ DOMAIN Log(d) \subseteq DOMAIN Log(d)'
                              /\ \A a \in DOMAIN Log(d) : Log(d)'[a] = Log(d)[a]
  <2>1. ASSUME NEW a \in DOMAIN Log(c)
        PROVE  a \in DOMAIN Append(Log(c), outcome) /\ Append(Log(c), outcome)[a] = Log(c)[a]
    BY <1>3
  <2> QED BY <1>5, <2>1
<1>7. Range(Log(c)) \subseteq {"success"}
  BY <1>1 DEF Ready, Passed, Range
<1>8. Moves
  BY <1>5, <1>6, <1>7 DEF Moves
<1>9. /\ NextAction(c) \in Nat /\ NextAction(c) \in DOMAIN Log(c)'
      /\ Log(c)'[NextAction(c)] = outcome
  BY <1>3, <1>5 DEF NextAction
<1>10. TimersInv'
  BY <1>1, <1>2, <1>3, <1>5, <1>6, <1>9 DEF ChainsInv, TimersInv, At
<1> QED BY <1>5, <1>8, <1>10 DEF ChainsInv

LEMMA AnswerMoves == ASSUME ChainsInv, NEW c, Answer(c) PROVE ChainsInv' /\ Moves
<1>1. c \in DOMAIN chain /\ overdue' = overdue
  BY DEF Answer
<1>2. PICK a \in DOMAIN Log(c), outcome \in {"success", "failure"} :
        /\ chain' = [chain EXCEPT ![c].log[a] = Settled(@, outcome)]
        /\ timers' = IF Log(c)[a] = "pending" THEN timers \ {<<c, a>>} ELSE timers
  BY DEF Answer, Cleared
<1>3. c \in Nat /\ Log(c) \in Seq(Outcome)
  BY <1>1, LogTypes DEF ChainsInv
<1> DEFINE log == [Log(c) EXCEPT ![a] = Settled(@, outcome)]
<1>4. chain' = [chain EXCEPT ![c].log = log]
  BY <1>2 DEF Log
<1>5. log \in Seq(Outcome) /\ DOMAIN log = DOMAIN Log(c) /\ Len(log) = Len(Log(c))
  BY <1>2, <1>3 DEF Settled, Outcome
<1>6. /\ log[a] = Settled(Log(c)[a], outcome)
      /\ \A b \in DOMAIN Log(c) \ {a} : log[b] = Log(c)[b]
  BY <1>2, <1>3
<1> HIDE DEF log
<1>7. /\ ChainsType' /\ DOMAIN chain' = DOMAIN chain
      /\ Log(c)' = log /\ \A d \in DOMAIN chain \ {c} : Log(d)' = Log(d)
      /\ \A d \in DOMAIN chain : Log(d) \in Seq(Outcome)
  BY <1>1, <1>4, <1>5, LogMoves
<1>8. Moves
  <2>1. \A d \in DOMAIN chain : DOMAIN Log(d)' = DOMAIN Log(d) /\ Len(Log(d)') = Len(Log(d))
    BY <1>5, <1>7
  <2>2. \A d \in DOMAIN chain : Len(Log(d)) \in Nat
    BY <1>7
  <2>3. \A d \in DOMAIN chain : \A b \in DOMAIN Log(d) :
          Log(d)[b] # "pending" => Log(d)'[b] = Log(d)[b]
    BY <1>6, <1>7 DEF Settled
  <2> QED BY <1>7, <2>1, <2>2, <2>3 DEF Moves
<1>9. TimersInv'
  <2>1. ASSUME NEW t \in timers' PROVE At(t)' /\ (Log(t[1])[t[2]])' = "pending"
    <3>1. t \in timers /\ t = <<t[1], t[2]>> /\ At(t) /\ Log(t[1])[t[2]] = "pending"
      BY <1>2, <2>1 DEF ChainsInv, TimersInv
    <3>2. t[1] = c => t[2] # a
      BY <1>2, <2>1, <3>1
    <3> QED BY <1>5, <1>6, <1>7, <3>1, <3>2 DEF At
  <2>2. ASSUME NEW t \in overdue PROVE At(t)' /\ (Log(t[1])[t[2]])' = "timeout"
    <3>1. At(t) /\ Log(t[1])[t[2]] = "timeout"
      BY DEF ChainsInv, TimersInv
    <3> QED BY <1>5, <1>6, <1>7, <3>1 DEF At, Settled
  <2> QED BY <1>1, <1>2, <2>1, <2>2 DEF ChainsInv, TimersInv
<1> QED BY <1>7, <1>8, <1>9 DEF ChainsInv

LEMMA ExpireMoves == ASSUME ChainsInv, NEW c, Expire(c) PROVE ChainsInv' /\ Moves
<1>1. c \in DOMAIN chain
  BY DEF Expire
<1>2. PICK a \in DOMAIN Log(c) :
        /\ <<c, a>> \in timers /\ timers' = timers \ {<<c, a>>}
        /\ overdue' = overdue \cup {<<c, a>>}
        /\ chain' = [chain EXCEPT ![c].log[a] = Settled(@, "timeout")]
  BY DEF Expire
<1>3. c \in Nat /\ Log(c) \in Seq(Outcome) /\ Log(c)[a] = "pending"
  BY <1>1, <1>2, LogTypes DEF ChainsInv, TimersInv
<1> DEFINE log == [Log(c) EXCEPT ![a] = "timeout"]
<1>4. chain' = [chain EXCEPT ![c].log = log]
  BY <1>2, <1>3 DEF Log, Settled
<1>5. log \in Seq(Outcome) /\ DOMAIN log = DOMAIN Log(c) /\ Len(log) = Len(Log(c))
  BY <1>2, <1>3 DEF Outcome
<1>6. log[a] = "timeout" /\ \A b \in DOMAIN Log(c) \ {a} : log[b] = Log(c)[b]
  BY <1>2, <1>3
<1> HIDE DEF log
<1>7. /\ ChainsType' /\ DOMAIN chain' = DOMAIN chain
      /\ Log(c)' = log /\ \A d \in DOMAIN chain \ {c} : Log(d)' = Log(d)
      /\ \A d \in DOMAIN chain : Log(d) \in Seq(Outcome)
  BY <1>1, <1>4, <1>5, LogMoves
<1>8. Moves
  <2>1. \A d \in DOMAIN chain : DOMAIN Log(d)' = DOMAIN Log(d) /\ Len(Log(d)') = Len(Log(d))
    BY <1>5, <1>7
  <2>2. \A d \in DOMAIN chain : Len(Log(d)) \in Nat
    BY <1>7
  <2>3. \A d \in DOMAIN chain : \A b \in DOMAIN Log(d) :
          Log(d)[b] # "pending" => Log(d)'[b] = Log(d)[b]
    BY <1>3, <1>6, <1>7
  <2> QED BY <1>7, <2>1, <2>2, <2>3 DEF Moves
<1>9. TimersInv'
  <2>1. ASSUME NEW t \in timers' PROVE At(t)' /\ (Log(t[1])[t[2]])' = "pending"
    <3>1. t \in timers /\ t = <<t[1], t[2]>> /\ At(t) /\ Log(t[1])[t[2]] = "pending"
      BY <1>2, <2>1 DEF ChainsInv, TimersInv
    <3>2. t[1] = c => t[2] # a
      BY <1>2, <2>1, <3>1
    <3> QED BY <1>5, <1>6, <1>7, <3>1, <3>2 DEF At
  <2>2. ASSUME NEW t \in overdue PROVE At(t)' /\ (Log(t[1])[t[2]])' = "timeout"
    <3>1. At(t) /\ Log(t[1])[t[2]] = "timeout"
      BY DEF ChainsInv, TimersInv
    <3> QED BY <1>5, <1>6, <1>7, <3>1 DEF At
  <2>3. At(<<c, a>>)' /\ (Log(c)[a])' = "timeout"
    BY <1>1, <1>2, <1>5, <1>6, <1>7 DEF At
  <2> QED BY <1>1, <1>2, <2>1, <2>2, <2>3 DEF ChainsInv, TimersInv
<1> QED BY <1>7, <1>8, <1>9 DEF ChainsInv

LEMMA StepMoves == ASSUME ChainsInv, [Next]_vars PROVE ChainsInv' /\ Moves
<1>1. CASE UNCHANGED chains
  <2>1. chain' = chain /\ timers' = timers /\ overdue' = overdue
    BY <1>1 DEF chains
  <2>2. \A c \in DOMAIN chain : Log(c)' = Log(c) /\ Log(c) \in Seq(Outcome)
    BY <2>1, LogTypes DEF Log, ChainsInv
  <2> QED BY <2>1, <2>2 DEF ChainsInv, ChainsType, TimersInv, At, Moves
<1>2. CASE Publish
  <2>1. chain' = chain /\ timers' = timers /\ overdue' = overdue
    BY <1>2 DEF Publish
  <2>2. \A c \in DOMAIN chain : Log(c)' = Log(c) /\ Log(c) \in Seq(Outcome)
    BY <2>1, LogTypes DEF Log, ChainsInv
  <2> QED BY <2>1, <2>2 DEF ChainsInv, ChainsType, TimersInv, At, Moves
<1>3. CASE ChainsNext
  BY <1>3, ExecuteMoves, StartMoves, AnswerMoves, ExpireMoves DEF ChainsNext
<1> QED BY <1>1, <1>2, <1>3 DEF Next, vars

\* Chains are sequences of logs, and timers belong to actions that are not settled.
THEOREM ChainsCorrect == Spec => []ChainsInv
BY InitInv, StepMoves, PTL DEF Spec

\* It is logged only of an action that has not answered that it took too long
\* (createTimeout).
THEOREM OverdueIsTrueCorrect == Spec => []OverdueIsTrue
<1>1. ChainsInv => OverdueIsTrue
  BY DEF ChainsInv, TimersInv, OverdueIsTrue
<1> QED BY <1>1, ChainsCorrect, PTL

\* An outcome stands, and only success lets a chain go on (createActionPromiseWrapper,
\* runInSerial).
THEOREM OutcomeStandsCorrect == Spec => OutcomeStands
<1> DEFINE Stands == \A c \in DOMAIN chain :
             /\ \A a \in DOMAIN Log(c) : Log(c)[a] # "pending" => Log(c)'[a] = Log(c)[a]
             /\ Len(Log(c)') > Len(Log(c)) => Range(Log(c)) \subseteq {"success"}
<1>1. ChainsInv /\ [Next]_vars => [Stands]_vars
  BY StepMoves DEF Moves
<1> QED BY <1>1, ChainsCorrect, PTL DEF Spec, OutcomeStands
=============================================================================
