----------------------------- MODULE MapLemmas -----------------------------
(***************************************************************************)
(* What the proofs about several modules need: what Put, Without and       *)
(* Delete return for the modules that keep their state in Maps, that sets  *)
(* of naturals have a least element, that a function over 0..n can be      *)
(* defined by recursion, and division with a remainder.                    *)
(***************************************************************************)
EXTENDS Naturals, Maps, TLAPS, WellFoundedInduction

\* A key that was put is there with its value, and every other key is as before.
LEMMA PutLookup ==
  ASSUME NEW m, NEW k, NEW v
  PROVE  /\ DOMAIN Put(m, k, v) = DOMAIN m \cup {k}
         /\ Put(m, k, v)[k] = v
         /\ \A x \in DOMAIN m : x # k => Put(m, k, v)[x] = m[x]
BY DEF Put

\* Deleted keys are gone, and every other key is as before.
LEMMA WithoutLookup ==
  ASSUME NEW m, NEW K
  PROVE  /\ DOMAIN Without(m, K) = DOMAIN m \ K
         /\ \A x \in DOMAIN m \ K : Without(m, K)[x] = m[x]
BY DEF Without

LEMMA DeleteLookup ==
  ASSUME NEW m, NEW k
  PROVE  /\ DOMAIN Delete(m, k) = DOMAIN m \ {k}
         /\ \A x \in DOMAIN m : x # k => Delete(m, k)[x] = m[x]
BY DEF Delete, Without

\* The three operations and the empty Map are well typed.
LEMMA EmptyMapType ==
  ASSUME NEW K, NEW V
  PROVE  IsMap(EmptyMap, K, V) /\ DOMAIN EmptyMap = {}
BY DEF IsMap, EmptyMap

LEMMA PutType ==
  ASSUME NEW K, NEW V, NEW m, IsMap(m, K, V), NEW k \in K, NEW v \in V
  PROVE  IsMap(Put(m, k, v), K, V)
BY DEF IsMap, Put

LEMMA WithoutType ==
  ASSUME NEW K, NEW V, NEW m, IsMap(m, K, V), NEW D
  PROVE  IsMap(Without(m, D), K, V)
BY DEF IsMap, Without

LEMMA DeleteType ==
  ASSUME NEW K, NEW V, NEW m, IsMap(m, K, V), NEW k
  PROVE  IsMap(Delete(m, k), K, V)
BY WithoutType DEF Delete

LEMMA IsMapLookup ==
  ASSUME NEW K, NEW V, NEW m, IsMap(m, K, V), NEW x \in DOMAIN m
  PROVE  x \in K /\ m[x] \in V
BY DEF IsMap

-----------------------------------------------------------------------------
(* One key of a Map changes *)

\* The other keys of S have in R the values they have in S.
Rest(R, S, s) == \A t \in DOMAIN S : t # s => t \in DOMAIN R /\ S[t] = R[t]

LEMMA ChangeOne ==
  ASSUME NEW K, NEW V, NEW R, NEW s, s \in DOMAIN R, IsMap(R, K, V), NEW q, q \in V,
         NEW S, S = [R EXCEPT ![s] = q]
  PROVE  /\ IsMap(S, K, V) /\ Rest(R, S, s) /\ Rest(S, R, s)
         /\ DOMAIN S = DOMAIN R /\ S[s] = q
BY DEF IsMap, Rest

LEMMA AddOne ==
  ASSUME NEW K, NEW V, NEW R, NEW s, s \in K, s \notin DOMAIN R, IsMap(R, K, V),
         NEW q, q \in V, NEW S, S = Put(R, s, q)
  PROVE  /\ IsMap(S, K, V) /\ Rest(R, S, s) /\ Rest(S, R, s)
         /\ s \in DOMAIN S /\ S[s] = q
BY DEF IsMap, Rest, Put

LEMMA DropOne ==
  ASSUME NEW K, NEW V, NEW R, NEW s, s \in DOMAIN R, IsMap(R, K, V),
         NEW S, S = Delete(R, s)
  PROVE  IsMap(S, K, V) /\ Rest(R, S, s) /\ Rest(S, R, s) /\ s \notin DOMAIN S
BY DEF IsMap, Rest, Delete, Without

-----------------------------------------------------------------------------
(* Naturals *)

NatBelow == {ss \in Nat \X Nat : ss[1] < ss[2]}

LEMMA NatBelowWellFounded == IsWellFoundedOn(NatBelow, Nat)
<1>1. OpToRel(<, Nat) = NatBelow
  BY Zenon DEF OpToRel, NatBelow
<1> QED
  BY <1>1, NatLessThanWellFounded, Zenon

\* What is false of some natural is false of a least one: the form in which the
\* proofs use induction.
LEMMA LeastNat ==
  ASSUME NEW S, S \subseteq Nat, S # {}
  PROVE  \E n \in S : \A m \in S : n <= m
<1>1. PICK n \in S : \A m \in S : ~(<<m, n>> \in NatBelow)
  BY NatBelowWellFounded, WFMin
<1>2. ASSUME NEW m \in S, m < n
      PROVE  FALSE
  <2>1. <<m, n>> \in NatBelow
    BY <1>2 DEF NatBelow
  <2> QED
    BY <1>1, <2>1
<1> QED
  BY <1>2

-----------------------------------------------------------------------------
(* Recursion over 0..n *)

\* What holds of 0, and of k when it holds of k - 1, holds of all up to n.
LEMMA UpTo ==
  ASSUME NEW n \in Nat, NEW P, 0 \in P, \A k \in 1..n : k - 1 \in P => k \in P
  PROVE  \A k \in 0..n : k \in P
<1> DEFINE Bad == {k \in 0..n : k \notin P}
<1>1. ASSUME Bad # {}
      PROVE  FALSE
  <2>1. Bad \subseteq Nat
    OBVIOUS
  <2> HIDE DEF Bad
  <2>2. PICK k \in Bad : \A m \in Bad : k <= m
    BY <1>1, <2>1, LeastNat
  <2> USE DEF Bad
  <2>3. k \in 0..n /\ k \notin P /\ k # 0
    BY <2>2
  <2>4. k - 1 \in 0..n /\ k \in 1..n /\ ~(k <= k - 1)
    BY <2>3
  <2>5. k - 1 \in P
    BY <2>2, <2>4
  <2> QED
    BY <2>3, <2>4, <2>5
<1> QED
  BY <1>1

\* g begins with a, and its value at k is that of step k on its value at k - 1.
Iterates(g, n, a, step) == g[0] = a /\ \A k \in 1..n : g[k] = step[k][g[k - 1]]

\* Steps that are functions from S to S can be taken one after the other.
LEMMA Recursion ==
  ASSUME NEW n \in Nat, NEW S, NEW a \in S, NEW G, G \in [1..n -> [S -> S]]
  PROVE  \E f \in [0..n -> S] : Iterates(f, n, a, G)
<1> DEFINE Good == {m \in 0..n : \E f \in [0..m -> S] :
                      f[0] = a /\ \A k \in 1..m : f[k] = G[k][f[k - 1]]}
<1>1. 0 \in Good
  <2> DEFINE f == [k \in 0..0 |-> a]
  <2>1. f \in [0..0 -> S] /\ f[0] = a /\ 0 \in 0..n
    OBVIOUS
  <2>2. \A k \in 1..0 : FALSE
    OBVIOUS
  <2> HIDE DEF f
  <2> QED
    BY <2>1, <2>2
<1>2. ASSUME NEW m \in 1..n, m - 1 \in Good
      PROVE  m \in Good
  <2>1. PICK f \in [0..(m - 1) -> S] : f[0] = a /\ \A k \in 1..(m - 1) : f[k] = G[k][f[k - 1]]
    BY <1>2
  <2> DEFINE h == [k \in 0..m |-> IF k = m THEN G[m][f[m - 1]] ELSE f[k]]
  <2>2. f[m - 1] \in S /\ G[m] \in [S -> S]
    BY <2>1
  <2>3. h \in [0..m -> S]
    <3>1. ASSUME NEW k \in 0..m, k # m
          PROVE  k \in 0..(m - 1)
      BY <3>1
    <3> QED
      BY <2>1, <2>2, <3>1
  <2>4. h[0] = a
    BY <2>1
  <2>5. ASSUME NEW k \in 1..m
        PROVE  h[k] = G[k][h[k - 1]]
    <3>1. k - 1 \in 0..m /\ k - 1 # m /\ k \in 0..m
      OBVIOUS
    <3>2. h[k - 1] = f[k - 1]
      BY <3>1
    <3>3. CASE k = m
      BY <3>1, <3>2, <3>3
    <3>4. CASE k # m
      <4>1. k \in 1..(m - 1) /\ h[k] = f[k]
        BY <3>1, <3>4
      <4> HIDE DEF h
      <4> QED
        BY <2>1, <3>2, <4>1
    <3> QED
      BY <3>3, <3>4
  <2> HIDE DEF h
  <2>6. m \in 0..n
    OBVIOUS
  <2> QED
    BY <2>3, <2>4, <2>5, <2>6
<1>3. \A k \in 0..n : k \in Good
  <2> HIDE DEF Good
  <2>1. \A k \in 1..n : k - 1 \in Good => k \in Good
    BY <1>2
  <2> QED
    BY <1>1, <2>1, UpTo
<1>4. n \in Good
  BY <1>3
<1> QED
  BY <1>4 DEF Iterates

\* Division with a rest.
LEMMA DivMod ==
  ASSUME NEW P \in Nat \ {0}, NEW q \in Nat, NEW r \in 0..(P - 1)
  PROVE  (q * P + r) \div P = q /\ (q * P + r) % P = r
OBVIOUS

\* Quotient and rest make up the number.
LEMMA DivIs ==
  ASSUME NEW P \in Nat \ {0}, NEW m \in Nat
  PROVE  /\ m \div P \in Nat /\ m % P \in 0..(P - 1)
         /\ m = ((m \div P) * P) + (m % P)
OBVIOUS

\* A larger number has no smaller quotient.
LEMMA DivMono ==
  ASSUME NEW P \in Nat \ {0}, NEW m \in Nat, NEW n \in Nat, m <= n
  PROVE  m \div P <= n \div P
BY DivIs

=============================================================================
