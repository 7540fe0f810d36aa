---------------------------- MODULE ArraysProofs ----------------------------
(***************************************************************************)
(* What the array methods of Arrays return, for every array.               *)
(*                                                                         *)
(* Induction is over a set of natural numbers in place of a predicate: the *)
(* library proves that < is well-founded, which is a fact and no scheme.   *)
(***************************************************************************)
EXTENDS Arrays, FiniteSetTheorems, SequenceTheorems, WellFoundedInduction, TLAPS

LEMMA Least ==
  ASSUME NEW S \in SUBSET Nat, S # {}
  PROVE  \E m \in S : \A n \in S : m <= n
<1>1. IsWellFoundedOn(OpToRel(<, Nat), Nat)
  BY NatLessThanWellFounded
<1>2. PICK m \in S : ~\E y \in S : <<y, m>> \in OpToRel(<, Nat)
  BY <1>1, WFMin
<1>3. \A y \in S : ~(y < m)
  BY <1>2 DEF OpToRel
<1> QED BY <1>3

\* Induction: a set that has 0, and n + 1 with n, has every number.
LEMMA Induction ==
  ASSUME NEW S, 0 \in S, \A n \in Nat : n \in S => n + 1 \in S
  PROVE  \A n \in Nat : n \in S
<1> SUFFICES ASSUME {n \in Nat : n \notin S} # {} PROVE FALSE
  OBVIOUS
<1>1. PICK m \in {n \in Nat : n \notin S} : \A n \in {k \in Nat : k \notin S} : m <= n
  BY Least
<1>2. m # 0 /\ m - 1 \in Nat
  BY <1>1
<1>3. m - 1 \in S
  BY <1>1, <1>2
<1> QED BY <1>1, <1>2, <1>3

\* The same up to a bound.
LEMMA InductionTo ==
  ASSUME NEW N \in Nat, NEW S, 0 \in S, \A n \in 0..N-1 : n \in S => n + 1 \in S
  PROVE  \A n \in 0..N : n \in S
<1> DEFINE U == {n \in Nat : n <= N => n \in S}
<1>1. 0 \in U /\ \A n \in Nat : n \in U => n + 1 \in U
  OBVIOUS
<1> HIDE DEF U
<1>2. \A n \in Nat : n \in U
  BY <1>1, Induction
<1> QED BY <1>2 DEF U

LEMMA MaxIn ==
  ASSUME NEW n \in Nat, NEW s \in SUBSET (1..n), s # {}
  PROVE  Max(s) \in s /\ \A y \in s : y <= Max(s)
<1> DEFINE bounds == {m \in Nat : \A y \in s : y <= m}
<1>1. n \in bounds
  OBVIOUS
<1>2. PICK m \in bounds : \A k \in bounds : m <= k
  BY <1>1, Least
<1>3. m \in s
  <2> SUFFICES ASSUME m \notin s PROVE FALSE
    OBVIOUS
  <2>1. m \in Nat /\ \A y \in s : y \in Nat /\ y # 0 /\ y <= m /\ y # m
    BY <1>2
  <2>2. PICK z \in s : TRUE
    OBVIOUS
  <2>3. m - 1 \in Nat
    BY <2>1, <2>2
  <2>4. \A y \in s : y <= m - 1
    BY <2>1
  <2>5. ~(m <= m - 1)
    BY <2>1
  <2> QED BY <1>2, <2>3, <2>4, <2>5
<1>4. \E x \in s : \A y \in s : x >= y
  BY <1>3
<1>5. /\ (CHOOSE x \in s : \A y \in s : x >= y) \in s
      /\ \A y \in s : (CHOOSE x \in s : \A z \in s : x >= z) >= y
  BY <1>4
<1> QED BY <1>5 DEF Max

LEMMA MaxOfPrefix ==
  ASSUME NEW n \in Nat, n # 0
  PROVE  Max(1..n) = n /\ (1..n) \ {Max(1..n)} = 1..(n-1)
<1>1. 1..n \in SUBSET (1..n) /\ 1..n # {} /\ n \in 1..n
  OBVIOUS
<1>2. Max(1..n) \in 1..n /\ \A y \in 1..n : y <= Max(1..n)
  BY <1>1, MaxIn
<1>3. Max(1..n) = n
  BY <1>1, <1>2
<1>4. (1..n) \ {n} = 1..(n-1)
  OBVIOUS
<1> QED BY <1>3, <1>4

-----------------------------------------------------------------------------
(***************************************************************************)
(* A fold over the first n positions, its step a function of the value so  *)
(* far and the position.  That the recursive function of MapThenFoldSet    *)
(* exists is proved here, and what it is equal to along the array.         *)
(***************************************************************************)
IsFold(f, n, A, base, op) ==
  /\ f \in [SUBSET (1..n) -> A]
  /\ \A s \in SUBSET (1..n) :
       f[s] = IF s = {} THEN base ELSE op[<<f[s \ {Max(s)}], Max(s)>>]

LEMMA FoldExists ==
  ASSUME NEW n \in Nat, NEW A, NEW base \in A, NEW op \in [A \X (1..n) -> A]
  PROVE  \E f : IsFold(f, n, A, base, op)
<1> DEFINE Ok(k, f) ==
      \A s \in SUBSET (1..k) :
        f[s] = IF s = {} THEN base ELSE op[<<f[s \ {Max(s)}], Max(s)>>]
    S == {k \in 0..n : \E f \in [SUBSET (1..k) -> A] : Ok(k, f)}
<1>1. 0 \in S
  <2> DEFINE f == [s \in SUBSET (1..0) |-> base]
  <2>1. f \in [SUBSET (1..0) -> A] /\ \A s \in SUBSET (1..0) : s = {} /\ f[s] = base
    OBVIOUS
  <2>2. Ok(0, f)
    BY <2>1
  <2> HIDE DEF Ok, f
  <2> QED BY <2>1, <2>2
<1>2. ASSUME NEW k \in 0..n-1, k \in S PROVE k + 1 \in S
  <2>1. PICK f \in [SUBSET (1..k) -> A] : Ok(k, f)
    BY <1>2
  <2> DEFINE g == [s \in SUBSET (1..k+1) |->
                     IF k + 1 \in s THEN op[<<f[s \ {k+1}], k+1>>] ELSE f[s]]
  <2>2. ASSUME NEW s \in SUBSET (1..k+1)
        PROVE  /\ s \ {k+1} \in SUBSET (1..k)
               /\ k + 1 \notin s => s \in SUBSET (1..k)
               /\ k + 1 \in s => Max(s) = k + 1
    <3>0. k + 1 \in Nat
      OBVIOUS
    <3>1. k + 1 \in s => Max(s) \in s /\ k + 1 <= Max(s)
      BY <3>0, MaxIn
    <3>2. Max(s) \in s => Max(s) \in 1..k+1
      OBVIOUS
    <3>3. \A m \in 1..k+1 : k + 1 <= m => m = k + 1
      OBVIOUS
    <3>4. k + 1 \in s => Max(s) = k + 1
      BY <3>1, <3>2, <3>3
    <3>5. s \ {k+1} \in SUBSET (1..k) /\ (k + 1 \notin s => s \in SUBSET (1..k))
      OBVIOUS
    <3> QED BY <3>4, <3>5
  <2>3. g \in [SUBSET (1..k+1) -> A]
    <3> SUFFICES ASSUME NEW s \in SUBSET (1..k+1)
                 PROVE  (IF k + 1 \in s THEN op[<<f[s \ {k+1}], k+1>>] ELSE f[s]) \in A
      OBVIOUS
    <3>1. s \ {k+1} \in SUBSET (1..k) /\ (k + 1 \notin s => s \in SUBSET (1..k))
      BY <2>2
    <3>2. f[s \ {k+1}] \in A /\ k+1 \in 1..n
      BY <2>1, <3>1
    <3> QED BY <2>1, <3>1, <3>2
  <2>4. ASSUME NEW s \in SUBSET (1..k+1)
        PROVE  g[s] = IF s = {} THEN base ELSE op[<<g[s \ {Max(s)}], Max(s)>>]
    <3>1. CASE k + 1 \in s
      <4>1. Max(s) = k + 1 /\ s \ {k+1} \in SUBSET (1..k+1) /\ k + 1 \notin s \ {k+1}
        BY <2>2, <3>1
      <4>2. g[s \ {k+1}] = f[s \ {k+1}]
        BY <4>1
      <4> QED BY <3>1, <4>1, <4>2
    <3>2. CASE k + 1 \notin s
      <4>1. s \in SUBSET (1..k) /\ g[s] = f[s]
        BY <2>2, <3>2
      <4>2. g[s \ {Max(s)}] = f[s \ {Max(s)}]
        BY <3>2
      <4> QED BY <2>1, <4>1, <4>2
    <3> QED BY <3>1, <3>2
  <2>5. Ok(k+1, g)
    BY <2>4
  <2> HIDE DEF g, Ok
  <2> QED BY <2>3, <2>5
<1> HIDE DEF S
<1>3. n \in 0..n /\ \A k \in 0..n : k \in S
  BY <1>1, <1>2, InductionTo
<1> QED BY <1>3 DEF S, IsFold

\* How such a fold is computed: along the prefixes of the array.
LEMMA FoldSteps ==
  ASSUME NEW n \in Nat, NEW base, NEW f, f[{}] = base
  PROVE  /\ f[1..0] = base
         /\ \A k \in 1..n : Max(1..k) = k /\ (1..k) \ {k} = 1..(k-1) /\ 1..k # {}
         /\ \A k \in 0..n : 1..k \in SUBSET (1..n)
<1>1. 1..0 = {}
  OBVIOUS
<1>2. ASSUME NEW k \in 1..n
      PROVE  Max(1..k) = k /\ (1..k) \ {k} = 1..(k-1) /\ 1..k # {}
  <2>1. Max(1..k) = k
    BY MaxOfPrefix
  <2> QED BY <2>1
<1> QED BY <1>1, <1>2

-----------------------------------------------------------------------------
(***************************************************************************)
(* keepAt: the elements at the kept positions, each once and in order.     *)
(***************************************************************************)
\* t is s at the positions that p names.
Picks(t, s, p) == p \in [DOMAIN t -> DOMAIN s] /\ \A r \in DOMAIN t : t[r] = s[p[r]]

Rising(p) == \A q, r \in DOMAIN p : q < r => p[q] < p[r]

\* t is what is kept of s, each element once and in order.
Selects(t, s, kept, p) ==
  /\ Picks(t, s, p) /\ Rising(p)
  /\ \A i \in DOMAIN s : i \in kept <=> \E r \in DOMAIN p : p[r] = i

LEMMA KeepAt ==
  ASSUME NEW T, NEW s \in Seq(T), NEW kept \in SUBSET DOMAIN s
  PROVE  keepAt(s, kept) \in Seq(T) /\ \E p : Selects(keepAt(s, kept), s, kept, p)
<1> DEFINE n == Len(s)
           at == [i \in DOMAIN s |-> i]
           Step(iter, t) == IF t = {} THEN <<>>
                            ELSE IF at[Max(t)] \in kept
                              THEN Append(iter[t \ {Max(t)}], s[at[Max(t)]])
                              ELSE iter[t \ {Max(t)}]
           op == [x \in Seq(T) \X (1..n) |->
                    IF x[2] \in kept THEN Append(x[1], s[x[2]]) ELSE x[1]]
           g == CHOOSE iter : iter = [t \in SUBSET DOMAIN at |-> Step(iter, t)]
<1>1. n \in Nat /\ DOMAIN s = 1..n /\ \A i \in 1..n : s[i] \in T
  OBVIOUS
<1>2. op \in [Seq(T) \X (1..n) -> Seq(T)]
  BY <1>1
<1>3. PICK f : IsFold(f, n, Seq(T), <<>>, op)
  <2>1. <<>> \in Seq(T)
    OBVIOUS
  <2> HIDE DEF op, n
  <2> QED BY <1>1, <1>2, <2>1, FoldExists, Zenon
<1>4. f = [t \in SUBSET DOMAIN at |-> Step(f, t)]
  <2>1. ASSUME NEW t \in SUBSET (1..n) PROVE f[t] = Step(f, t)
    <3>1. CASE t = {}
      BY <1>3, <3>1 DEF IsFold
    <3>2. CASE t # {}
      <4>1. Max(t) \in 1..n /\ t \ {Max(t)} \in SUBSET (1..n)
        BY <1>1, <3>2, MaxIn
      <4>2. f[t \ {Max(t)}] \in Seq(T)
        BY <1>3, <4>1 DEF IsFold
      <4>3. op[<<f[t \ {Max(t)}], Max(t)>>] =
              IF Max(t) \in kept THEN Append(f[t \ {Max(t)}], s[Max(t)]) ELSE f[t \ {Max(t)}]
        BY <4>1, <4>2
      <4>4. at[Max(t)] = Max(t)
        BY <1>1, <4>1
      <4> HIDE DEF op, at
      <4> QED BY <1>3, <3>2, <4>3, <4>4 DEF IsFold
    <3> QED BY <3>1, <3>2
  <2> HIDE DEF Step
  <2> QED BY <1>1, <1>3, <2>1 DEF IsFold
<1>5. g = [t \in SUBSET DOMAIN at |-> Step(g, t)]
  <2> HIDE DEF Step
  <2> QED BY <1>4
<1>6. keepAt(s, kept) = g[DOMAIN at]
  BY Zenon DEF keepAt, FoldLeftDomain, FoldLeft, MapThenFoldSet
<1>7. /\ g[1..0] = <<>>
      /\ \A k \in 1..n : g[1..k] = IF k \in kept THEN Append(g[1..k-1], s[k]) ELSE g[1..k-1]
  <2>1. \A t \in SUBSET (1..n) : g[t] = Step(g, t)
    <3> HIDE DEF Step, g
    <3> QED BY <1>1, <1>5
  <2>2. g[1..0] = <<>>
    <3>1. 1..0 = {} /\ {} \in SUBSET (1..n)
      OBVIOUS
    <3> HIDE DEF g
    <3> QED BY <2>1, <3>1
  <2>3. ASSUME NEW k \in 1..n
        PROVE  g[1..k] = IF k \in kept THEN Append(g[1..k-1], s[k]) ELSE g[1..k-1]
    <3>1. /\ Max(1..k) = k /\ (1..k) \ {k} = 1..(k-1) /\ 1..k # {}
          /\ 1..k \in SUBSET (1..n) /\ at[k] = k
      BY <1>1, MaxOfPrefix
    <3>2. g[1..k] = Step(g, 1..k)
      BY <2>1, <3>1
    <3> HIDE DEF g, at
    <3> QED BY <3>1, <3>2
  <2> QED BY <2>2, <2>3
<1> HIDE DEF g, op, Step
<1> DEFINE Good(k, t, p) ==
             /\ t \in Seq(T) /\ Picks(t, s, p) /\ Rising(p)
             /\ \A i \in DOMAIN s : i \in kept /\ i <= k <=> \E r \in DOMAIN p : p[r] = i
           S == {k \in 0..n : \E p : Good(k, g[1..k], p)}
<1>8. 0 \in S
  <2>1. Good(0, <<>>, <<>>)
    <3>1. DOMAIN <<>> = {}
      OBVIOUS
    <3> QED BY <1>1, <3>1 DEF Picks, Rising
  <2> HIDE DEF Good
  <2> QED BY <1>7, <2>1
<1>9. ASSUME NEW k \in 0..n-1, k \in S PROVE k + 1 \in S
  <2> DEFINE t == g[1..k]
             u == Append(t, s[k+1])
  <2>1. PICK p : Good(k, t, p)
    BY <1>9
  <2>2. k + 1 \in 1..n /\ (k + 1) - 1 = k
    OBVIOUS
  <2>3. CASE k + 1 \notin kept
    <3>1. g[1..k+1] = t
      BY <1>7, <2>2, <2>3
    <3>2. Good(k+1, t, p)
      BY <1>1, <2>1, <2>3
    <3> HIDE DEF Good, t
    <3> QED BY <3>1, <3>2
  <2>4. CASE k + 1 \in kept
    <3>1. g[1..k+1] = u
      BY <1>7, <2>2, <2>4
    <3> DEFINE q == [r \in 1..Len(t)+1 |-> IF r = Len(t) + 1 THEN k + 1 ELSE p[r]]
    <3>2. /\ t \in Seq(T) /\ Len(t) \in Nat /\ DOMAIN t = 1..Len(t) /\ s[k+1] \in T
          /\ p \in [1..Len(t) -> 1..n]
      BY <1>1, <2>1, <2>2 DEF Picks
    <3> HIDE DEF t
    <3>3. /\ u \in Seq(T) /\ DOMAIN u = 1..Len(t)+1
          /\ \A r \in 1..Len(t)+1 : u[r] = IF r = Len(t) + 1 THEN s[k+1] ELSE t[r]
      BY <3>2
    <3> HIDE DEF u
    <3>4. q \in [DOMAIN u -> DOMAIN s] /\ DOMAIN q = 1..Len(t)+1
      BY <1>1, <2>2, <3>2, <3>3
    <3>5. Picks(u, s, q)
      BY <2>1, <3>2, <3>3, <3>4 DEF Picks
    <3>6. \A r \in DOMAIN p : p[r] <= k
      BY <1>1, <2>1, <3>2
    <3>7. Rising(q)
      <4> SUFFICES ASSUME NEW r1 \in 1..Len(t)+1, NEW r2 \in 1..Len(t)+1, r1 < r2
                   PROVE  q[r1] < q[r2]
        BY <3>4 DEF Rising
      <4>1. r1 \in 1..Len(t) /\ q[r1] = p[r1]
        BY <3>2
      <4>2. CASE r2 = Len(t) + 1
        BY <3>2, <3>6, <4>1, <4>2
      <4>3. CASE r2 # Len(t) + 1
        <5>1. r2 \in 1..Len(t)
          BY <3>2, <4>3
        <5>2. q[r2] = p[r2]
          BY <4>3
        <5>3. \A x, y \in 1..Len(t) : x < y => p[x] < p[y]
          BY <2>1, <3>2 DEF Rising
        <5> QED BY <4>1, <5>1, <5>2, <5>3
      <4> QED BY <4>2, <4>3
    <3>8. \A i \in DOMAIN s : i \in kept /\ i <= k + 1 <=> \E r \in DOMAIN q : q[r] = i
      <4> TAKE i \in DOMAIN s
      <4>1. CASE i = k + 1
        <5>1. q[Len(t) + 1] = k + 1 /\ Len(t) + 1 \in DOMAIN q
          BY <3>2, <3>4
        <5> QED BY <2>4, <4>1, <5>1
      <4>2. CASE i # k + 1
        <5>1. (i \in kept /\ i <= k + 1) <=> (i \in kept /\ i <= k)
          BY <1>1, <4>2
        <5>2. (\E r \in DOMAIN q : q[r] = i) <=> (\E r \in DOMAIN p : p[r] = i)
          <6>1. ASSUME NEW r \in DOMAIN q, q[r] = i PROVE r \in DOMAIN p /\ p[r] = i
            BY <3>2, <3>4, <4>2, <6>1
          <6>2. ASSUME NEW r \in DOMAIN p, p[r] = i PROVE r \in DOMAIN q /\ q[r] = i
            BY <3>2, <3>4, <6>2
          <6> QED BY <6>1, <6>2
        <5> QED BY <2>1, <5>1, <5>2
      <4> QED BY <4>1, <4>2
    <3>9. Good(k+1, u, q)
      BY <3>3, <3>5, <3>7, <3>8
    <3> HIDE DEF Good
    <3> QED BY <2>2, <3>1, <3>9
  <2> QED BY <2>3, <2>4
<1>10. n \in 0..n /\ n \in S
  <2> HIDE DEF S, n
  <2>1. \A k \in 0..n-1 : k \in S => k + 1 \in S
    BY <1>9
  <2>2. \A k \in 0..n : k \in S
    BY <1>1, <1>8, <2>1, InductionTo
  <2> QED BY <1>1, <2>2
<1>11. PICK p : Good(n, keepAt(s, kept), p)
  BY <1>1, <1>6, <1>10
<1> QED BY <1>1, <1>11 DEF Selects

-----------------------------------------------------------------------------
(***************************************************************************)
(* stableSort: the place of an element is the number of those that come    *)
(* no later, which is different for each of them.                          *)
(***************************************************************************)
\* The positions that come no later than i, where K is what is sorted by.
NoLater(n, K, i) == {j \in 1..n : K[j] < K[i] \/ (~(K[i] < K[j]) /\ j <= i)}

Place(n, K, i) == Cardinality(NoLater(n, K, i))

LEMMA PlaceBound ==
  ASSUME NEW n \in Nat, NEW K, NEW i \in 1..n
  PROVE  /\ IsFiniteSet(NoLater(n, K, i)) /\ NoLater(n, K, i) \subseteq 1..n
         /\ Place(n, K, i) \in 1..n
<1>1. IsFiniteSet(1..n) /\ Cardinality(1..n) = n
  BY FS_Interval
<1>2. NoLater(n, K, i) \in SUBSET (1..n)
  BY DEF NoLater
<1>3. IsFiniteSet(NoLater(n, K, i)) /\ Cardinality(NoLater(n, K, i)) <= n
  BY <1>1, <1>2, FS_Subset
<1>4. Cardinality(NoLater(n, K, i)) \in Nat
  BY <1>3, FS_CardinalityType
<1>5. Cardinality(NoLater(n, K, i)) # 0
  <2>1. K[i] < K[i] \/ (~(K[i] < K[i]) /\ i <= i)
    OBVIOUS
  <2>2. i \in NoLater(n, K, i)
    BY <2>1 DEF NoLater
  <2> QED BY <1>3, <2>2, FS_EmptySet
<1> QED BY <1>2, <1>3, <1>4, <1>5 DEF Place

LEMMA PlacesRise ==
  ASSUME NEW n \in Nat, NEW K \in [1..n -> Int], NEW i \in 1..n, NEW j \in 1..n,
         K[i] < K[j] \/ (K[i] = K[j] /\ i < j)
  PROVE  Place(n, K, i) < Place(n, K, j)
<1>1. NoLater(n, K, i) \in SUBSET NoLater(n, K, j)
  BY DEF NoLater
<1>2. j \in NoLater(n, K, j) /\ j \notin NoLater(n, K, i)
  BY DEF NoLater
<1>3. Place(n, K, i) <= Place(n, K, j) /\ Place(n, K, i) # Place(n, K, j)
  BY <1>1, <1>2, PlaceBound, FS_Subset DEF Place
<1> QED BY <1>3, PlaceBound

LEMMA PlacesFilled ==
  ASSUME NEW n \in Nat, NEW K \in [1..n -> Int]
  PROVE  \A r \in 1..n : \E i \in 1..n : Place(n, K, i) = r
<1> DEFINE f == [i \in 1..n |-> Place(n, K, i)]
<1>1. f \in [1..n -> 1..n]
  BY PlaceBound
<1>2. ASSUME NEW i \in 1..n, NEW j \in 1..n, f[i] = f[j] PROVE i = j
  <2>1. Place(n, K, i) = Place(n, K, j)
    BY <1>2
  <2>2. Place(n, K, i) \in Int /\ Place(n, K, j) \in Int
    BY PlaceBound
  <2>3. CASE K[i] < K[j] \/ (K[i] = K[j] /\ i < j)
    BY <2>1, <2>2, <2>3, PlacesRise
  <2>4. CASE K[j] < K[i] \/ (K[i] = K[j] /\ j < i)
    BY <2>1, <2>2, <2>4, PlacesRise
  <2> QED BY <2>3, <2>4
<1>3. f \in Injection(1..n, 1..n)
  BY <1>1, <1>2 DEF Injection, IsInjective
<1>4. f \in Surjection(1..n, 1..n)
  BY <1>3, FS_Injection, FS_Interval
<1> QED BY <1>4 DEF Surjection

\* A permutation of the positions that puts what is sorted by in order.
Sorts(p, n, K) ==
  /\ p \in [1..n -> 1..n] /\ \A i \in 1..n : \E r \in 1..n : p[r] = i
  /\ \A q, r \in 1..n : p[q] = p[r] => q = r
  /\ \A q, r \in 1..n : q < r => K[p[q]] <= K[p[r]]

LEMMA PlacesSort ==
  ASSUME NEW n \in Nat, NEW K \in [1..n -> Int], NEW p \in [1..n -> 1..n],
         \A r \in 1..n : Place(n, K, p[r]) = r
  PROVE  Sorts(p, n, K)
<1>1. ASSUME NEW i \in 1..n PROVE \E r \in 1..n : p[r] = i
  <2>1. Place(n, K, i) \in 1..n
    BY PlaceBound
  <2>2. Place(n, K, p[Place(n, K, i)]) = Place(n, K, i) /\ p[Place(n, K, i)] \in 1..n
    BY <2>1
  <2>3. PICK j \in 1..n : j = p[Place(n, K, i)]
    BY <2>2
  <2>4. Place(n, K, i) = Place(n, K, j) /\ Place(n, K, i) \in Int
    BY <2>1, <2>2, <2>3
  <2>5. CASE K[i] < K[j] \/ (K[i] = K[j] /\ i < j)
    <3>1. Place(n, K, i) < Place(n, K, j)
      BY <2>5, PlacesRise
    <3> QED BY <2>4, <3>1
  <2>6. CASE K[j] < K[i] \/ (K[i] = K[j] /\ j < i)
    <3>1. Place(n, K, j) < Place(n, K, i)
      BY <2>6, PlacesRise
    <3> QED BY <2>4, <3>1
  <2>7. CASE i = j
    BY <2>1, <2>3, <2>7
  <2> QED BY <2>5, <2>6, <2>7
<1>2. ASSUME NEW q \in 1..n, NEW r \in 1..n, q < r PROVE K[p[q]] <= K[p[r]]
  <2>1. CASE K[p[r]] < K[p[q]]
    <3>1. Place(n, K, p[r]) < Place(n, K, p[q])
      BY <2>1, PlacesRise
    <3> QED BY <1>2, <3>1
  <2> QED BY <2>1
<1> QED BY <1>1, <1>2 DEF Sorts

LEMMA InOrder ==
  ASSUME NEW T, NEW s \in Seq(T), NEW K \in [DOMAIN s -> Int], NEW before,
         \A i, j \in DOMAIN s : <<i, j>> \in before <=> K[i] < K[j]
  PROVE  /\ inOrder(s, before) \in Seq(T) /\ Len(inOrder(s, before)) = Len(s)
         /\ \E p : Picks(inOrder(s, before), s, p) /\ Sorts(p, Len(s), K)
<1> DEFINE n == Len(s)
           rank(i) == Cardinality({j \in DOMAIN s :
                        <<j, i>> \in before \/ (<<i, j>> \notin before /\ j <= i)})
           p == [r \in 1..n |-> CHOOSE i \in DOMAIN s : rank(i) = r]
           t == [r \in DOMAIN s |-> s[CHOOSE i \in DOMAIN s : rank(i) = r]]
<1>1. n \in Nat /\ DOMAIN s = 1..n /\ \A i \in 1..n : s[i] \in T
  OBVIOUS
<1>2. inOrder(s, before) = t
  BY Zenon DEF inOrder
<1>3. \A i \in 1..n : rank(i) = Place(n, K, i)
  <2> TAKE i \in 1..n
  <2>1. {j \in DOMAIN s : <<j, i>> \in before \/ (<<i, j>> \notin before /\ j <= i)}
          = NoLater(n, K, i)
    BY <1>1 DEF NoLater
  <2> QED BY <2>1, Zenon DEF Place
<1> HIDE DEF rank
<1>4. ASSUME NEW r \in 1..n PROVE p[r] \in 1..n /\ Place(n, K, p[r]) = r
  <2>1. \E i \in 1..n : Place(n, K, i) = r
    BY <1>1, PlacesFilled
  <2>2. \E i \in DOMAIN s : rank(i) = r
    BY <1>1, <1>3, <2>1
  <2>3. p[r] \in DOMAIN s /\ rank(p[r]) = r
    BY <2>2
  <2> QED BY <1>1, <1>3, <2>3
<1>5. \A r \in 1..n : t[r] = s[p[r]]
  BY <1>1
<1>6. p \in [1..n -> 1..n]
  BY <1>4
<1>7. DOMAIN t = 1..n /\ \A r \in 1..n : t[r] \in T
  BY <1>1, <1>4, <1>5
<1> HIDE DEF p
<1>8. Sorts(p, n, K)
  BY <1>1, <1>4, <1>6, PlacesSort
<1>9. t = [r \in 1..n |-> t[r]]
  BY <1>1
<1> HIDE DEF t
<1>10. t \in Seq(T) /\ Len(t) = n
  BY <1>1, <1>7, <1>9
<1>11. Picks(t, s, p)
  BY <1>1, <1>5, <1>6, <1>7 DEF Picks
<1> QED BY <1>2, <1>8, <1>10, <1>11

-----------------------------------------------------------------------------
(***************************************************************************)
(* FlattenSeq: put together piece by piece.                                *)
(***************************************************************************)
\* h[i] is the first i pieces of ss put together.
Pieces(h, ss) ==
  /\ DOMAIN h = 1..Len(ss)
  /\ \A i \in 1..Len(ss) : h[i] = IF i = 1 THEN ss[i] ELSE h[i-1] \o ss[i]

LEMMA PiecesExist ==
  ASSUME NEW T, NEW ss \in Seq(Seq(T))
  PROVE  \E h : h \in [1..Len(ss) -> Seq(T)] /\ Pieces(h, ss)
<1> DEFINE n == Len(ss)
           op == [x \in Seq(T) \X (1..n) |-> x[1] \o ss[x[2]]]
<1>1. n \in Nat /\ \A i \in 1..n : ss[i] \in Seq(T)
  OBVIOUS
<1>2. op \in [Seq(T) \X (1..n) -> Seq(T)]
  BY <1>1
<1>3. PICK f : IsFold(f, n, Seq(T), <<>>, op)
  <2>1. <<>> \in Seq(T)
    OBVIOUS
  <2> HIDE DEF op, n
  <2> QED BY <1>1, <1>2, <2>1, FoldExists, Zenon
<1> DEFINE h == [i \in 1..n |-> f[1..i]]
<1>4. ASSUME NEW i \in 1..n
      PROVE  h[i] \in Seq(T) /\ h[i] = IF i = 1 THEN ss[i] ELSE h[i-1] \o ss[i]
  <2>1. /\ Max(1..i) = i /\ (1..i) \ {i} = 1..(i-1) /\ 1..i # {}
        /\ 1..i \in SUBSET (1..n) /\ 1..(i-1) \in SUBSET (1..n)
    BY <1>1, MaxOfPrefix
  <2>2. f[1..i] \in Seq(T) /\ f[1..(i-1)] \in Seq(T) /\ f[1..i] = op[<<f[1..(i-1)], i>>]
    BY <1>3, <2>1 DEF IsFold
  <2>3. f[1..i] = f[1..(i-1)] \o ss[i]
    BY <2>2
  <2>4. CASE i = 1
    <3>1. 1..(i-1) = {} /\ {} \in SUBSET (1..n)
      BY <2>4
    <3>2. f[1..(i-1)] = <<>>
      BY <1>3, <3>1 DEF IsFold
    <3> QED BY <1>1, <2>2, <2>3, <2>4, <3>2
  <2>5. CASE i # 1
    <3>1. i - 1 \in 1..n /\ h[i-1] = f[1..(i-1)]
      BY <2>5
    <3> QED BY <2>2, <2>3, <2>5, <3>1
  <2> QED BY <2>4, <2>5
<1>5. h \in [1..n -> Seq(T)]
  BY <1>4
<1> QED BY <1>4, <1>5 DEF Pieces

LEMMA PiecesAgree ==
  ASSUME NEW ss, NEW tt, Len(ss) \in Nat, Len(tt) \in Nat, NEW g, NEW h,
         Pieces(g, ss), Pieces(h, tt), NEW n \in Nat, n <= Len(ss), n <= Len(tt),
         \A i \in 1..n : ss[i] = tt[i]
  PROVE  \A i \in 1..n : g[i] = h[i]
<1> DEFINE S == {k \in 0..n : k # 0 => g[k] = h[k]}
<1>1. 0 \in S
  OBVIOUS
<1>2. ASSUME NEW k \in 0..n-1, k \in S PROVE k + 1 \in S
  <2>1. k + 1 \in 1..Len(ss) /\ k + 1 \in 1..Len(tt) /\ ss[k+1] = tt[k+1] /\ (k + 1) - 1 = k
    OBVIOUS
  <2>2. /\ g[k+1] = IF k + 1 = 1 THEN ss[k+1] ELSE g[k] \o ss[k+1]
        /\ h[k+1] = IF k + 1 = 1 THEN tt[k+1] ELSE h[k] \o tt[k+1]
    BY <2>1 DEF Pieces
  <2> QED BY <1>2, <2>1, <2>2
<1> HIDE DEF S
<1>3. \A k \in 0..n : k \in S
  BY <1>1, <1>2, InductionTo
<1> QED BY <1>3 DEF S

LEMMA Flatten ==
  ASSUME NEW T, NEW ss \in Seq(Seq(T)), NEW h, Pieces(h, ss), Len(ss) # 0
  PROVE  FlattenSeq(ss) = h[Len(ss)]
<1> DEFINE n == Len(ss)
           Step(f, i) == IF i = 1 THEN ss[i] ELSE f[i-1] \o ss[i]
           g == CHOOSE f : f = [i \in 1..Len(ss) |-> Step(f, i)]
<1>1. PICK f : f \in [1..n -> Seq(T)] /\ Pieces(f, ss)
  BY PiecesExist
<1>2. f = [i \in 1..Len(ss) |-> Step(f, i)]
  BY <1>1 DEF Pieces
<1>3. g = [i \in 1..Len(ss) |-> Step(g, i)]
  <2> HIDE DEF Step
  <2> QED BY <1>2
<1>4. FlattenSeq(ss) = g[n]
  BY Zenon DEF FlattenSeq
<1>5. Pieces(g, ss)
  <2> HIDE DEF g
  <2> QED BY <1>3 DEF Pieces
<1>6. n \in Nat /\ n \in 1..n /\ \A i \in 1..n : ss[i] = ss[i]
  OBVIOUS
<1> HIDE DEF g
<1>7. g[n] = h[n]
  BY <1>5, <1>6, PiecesAgree
<1> QED BY <1>4, <1>7

\* The array as it grows.
LEMMA FlattenAppend ==
  ASSUME NEW T, NEW ss \in Seq(Seq(T)), NEW x \in Seq(T)
  PROVE  /\ FlattenSeq(ss) \in Seq(T)
         /\ FlattenSeq(Append(ss, x)) = FlattenSeq(ss) \o x
<1> DEFINE n == Len(ss)
           tt == Append(ss, x)
<1>1. /\ n \in Nat /\ tt \in Seq(Seq(T)) /\ Len(tt) = n + 1 /\ tt[n+1] = x
      /\ \A i \in 1..n : tt[i] = ss[i]
  OBVIOUS
<1>2. PICK h : h \in [1..Len(tt) -> Seq(T)] /\ Pieces(h, tt)
  BY <1>1, PiecesExist
<1>3. FlattenSeq(tt) = h[n+1] /\ h[n+1] = IF n = 0 THEN x ELSE h[n] \o x
  <2> HIDE DEF tt, n
  <2>0. Len(tt) # 0
    BY <1>1
  <2>1. FlattenSeq(tt) = h[Len(tt)]
    BY <1>1, <1>2, <2>0, Flatten
  <2>2. n + 1 \in 1..Len(tt) /\ (n + 1) - 1 = n /\ (n + 1 = 1 <=> n = 0)
    BY <1>1
  <2>3. h[n+1] = IF n + 1 = 1 THEN tt[n+1] ELSE h[(n + 1) - 1] \o tt[n+1]
    BY <1>2, <2>2 DEF Pieces
  <2> QED BY <1>1, <2>1, <2>2, <2>3
<1>4. CASE n = 0
  <2>1. ss = <<>> /\ FlattenSeq(ss) = ss
    BY <1>4 DEF FlattenSeq
  <2>2. <<>> \in Seq(T) /\ x = <<>> \o x
    OBVIOUS
  <2> QED BY <1>3, <1>4, <2>1, <2>2
<1>5. CASE n # 0
  <2>1. PICK g : g \in [1..n -> Seq(T)] /\ Pieces(g, ss)
    BY PiecesExist
  <2>2. FlattenSeq(ss) = g[n]
    BY <1>5, <2>1, Flatten
  <2>3. n \in 1..n
    BY <1>1, <1>5
  <2>4. g[n] = h[n]
    <3> HIDE DEF tt
    <3>0. \A i \in 1..n : ss[i] = tt[i]
      BY <1>1
    <3>1. n <= Len(ss) /\ n <= Len(tt) /\ Len(tt) \in Nat /\ Len(ss) \in Nat
      BY <1>1
    <3>2. n \in Nat /\ Pieces(g, ss) /\ Pieces(h, tt)
      BY <1>1, <1>2, <2>1
    <3> HIDE DEF n
    <3>3. \A i \in 1..n : g[i] = h[i]
      BY <3>0, <3>1, <3>2, PiecesAgree
    <3> QED BY <2>3, <3>3
  <2> QED BY <1>3, <1>5, <2>1, <2>2, <2>3, <2>4
<1> QED BY <1>4, <1>5

\* All the elements of the pieces, and no others.
LEMMA FlattenRange ==
  ASSUME NEW T, NEW ss \in Seq(Seq(T))
  PROVE  /\ FlattenSeq(ss) \in Seq(T)
         /\ \A x : (\E i \in DOMAIN FlattenSeq(ss) : FlattenSeq(ss)[i] = x)
                     <=> \E k \in DOMAIN ss : \E i \in DOMAIN ss[k] : ss[k][i] = x
<1> DEFINE n == Len(ss)
           In(x, s) == \E i \in DOMAIN s : s[i] = x
<1>1. n \in Nat /\ DOMAIN ss = 1..n /\ \A k \in 1..n : ss[k] \in Seq(T)
  OBVIOUS
<1>2. PICK h : h \in [1..n -> Seq(T)] /\ Pieces(h, ss)
  BY PiecesExist
<1>3. \A s, t \in Seq(T) : \A x : In(x, s \o t) <=> In(x, s) \/ In(x, t)
  <2> SUFFICES ASSUME NEW s \in Seq(T), NEW t \in Seq(T), NEW x
               PROVE  In(x, s \o t) <=> In(x, s) \/ In(x, t)
    OBVIOUS
  <2> DEFINE u == s \o t
  <2>1. /\ DOMAIN u = 1..(Len(s) + Len(t)) /\ Len(s) \in Nat /\ Len(t) \in Nat
        /\ DOMAIN s = 1..Len(s) /\ DOMAIN t = 1..Len(t)
        /\ \A i \in 1..Len(s) : u[i] = s[i]
        /\ \A i \in 1..Len(t) : u[Len(s) + i] = t[i]
    OBVIOUS
  <2> HIDE DEF u
  <2>2. ASSUME In(x, u) PROVE In(x, s) \/ In(x, t)
    <3>1. PICK i \in 1..(Len(s) + Len(t)) : u[i] = x
      BY <2>1, <2>2
    <3>2. CASE i <= Len(s)
      <4>1. i \in 1..Len(s)
        BY <2>1, <3>2
      <4> QED BY <2>1, <3>1, <4>1
    <3>3. CASE i > Len(s)
      <4>1. i - Len(s) \in 1..Len(t) /\ Len(s) + (i - Len(s)) = i
        BY <2>1, <3>3
      <4>2. t[i - Len(s)] = u[i]
        BY <2>1, <4>1
      <4> QED BY <2>1, <3>1, <4>1, <4>2
    <3>4. i <= Len(s) \/ i > Len(s)
      BY <2>1
    <3> QED BY <3>2, <3>3, <3>4, Zenon
  <2>3. ASSUME In(x, s) PROVE In(x, u)
    <3>1. PICK i \in DOMAIN s : s[i] = x
      BY <2>3
    <3>2. i \in DOMAIN u /\ u[i] = s[i]
      BY <2>1
    <3> QED BY <3>1, <3>2
  <2>4. ASSUME In(x, t) PROVE In(x, u)
    <3>1. PICK i \in DOMAIN t : t[i] = x
      BY <2>4
    <3>2. Len(s) + i \in DOMAIN u /\ u[Len(s) + i] = t[i]
      BY <2>1
    <3> QED BY <3>1, <3>2
  <2> QED BY <2>2, <2>3, <2>4 DEF u
<1> DEFINE S == {k \in 0..n : k # 0 => \A x : In(x, h[k]) <=> \E j \in 1..k : In(x, ss[j])}
<1> HIDE DEF In
<1>4. 0 \in S
  BY <1>1
<1>5. ASSUME NEW k \in 0..n-1, k \in S PROVE k + 1 \in S
  <2>1. /\ k + 1 \in 1..n /\ k \in Nat /\ k + 1 # 0 /\ (k + 1) - 1 = k
        /\ h[k+1] = IF k + 1 = 1 THEN ss[k+1] ELSE h[k] \o ss[k+1]
    <3>1. k + 1 \in 1..n /\ k \in Nat /\ k + 1 # 0 /\ (k + 1) - 1 = k
      BY <1>1
    <3> QED BY <1>2, <3>1 DEF Pieces
  <2> HIDE DEF n
  <2>2. \A j \in 1..k+1 : j \in 1..k \/ j = k + 1
    BY <2>1
  <2>3. \A j \in 1..k : j \in 1..k+1
    BY <2>1
  <2>4. k + 1 \in 1..k+1
    BY <2>1
  <2>5. CASE k = 0
    BY <2>1, <2>2, <2>4, <2>5
  <2>6. CASE k # 0
    <3>1. h[k+1] = h[k] \o ss[k+1]
      <4>1. k \in Nat /\ k # 0
        BY <2>1, <2>6
      <4>2. k + 1 # 1
        BY <4>1
      <4> QED BY <2>1, <4>2, Zenon
    <3>0. k \in 1..n
      BY <1>1, <2>1, <2>6
    <3>2. h[k] \in Seq(T) /\ ss[k+1] \in Seq(T)
      BY <1>1, <1>2, <2>1, <3>0
    <3>3. \A x : In(x, h[k+1]) <=> In(x, h[k]) \/ In(x, ss[k+1])
      BY <1>3, <3>1, <3>2
    <3>4. \A x : In(x, h[k]) <=> \E j \in 1..k : In(x, ss[j])
      BY <1>5, <2>6
    <3>5. \A x : In(x, h[k+1]) <=> \E j \in 1..k+1 : In(x, ss[j])
      BY <2>2, <2>3, <2>4, <3>3, <3>4
    <3> QED BY <2>1, <3>5
  <2> QED BY <2>5, <2>6
<1>6. n \in S
  <2> HIDE DEF S, n
  <2>1. \A k \in 0..n : k \in S
    BY <1>1, <1>4, <1>5, InductionTo
  <2> QED BY <1>1, <2>1
<1>7. CASE n = 0
  <2>1. ss = <<>> /\ FlattenSeq(ss) = <<>>
    BY <1>7 DEF FlattenSeq
  <2> DEFINE e == <<>>
  <2>2. e \in Seq(T) /\ DOMAIN e = {} /\ FlattenSeq(ss) = e /\ DOMAIN ss = {}
    BY <1>1, <1>7, <2>1
  <2> HIDE DEF e
  <2> QED BY <2>2
<1>8. CASE n # 0
  <2>1. FlattenSeq(ss) = h[n]
    BY <1>2, <1>8, Flatten
  <2>2. h[n] \in Seq(T)
    <3>1. n \in 1..n
      BY <1>1, <1>8
    <3> QED BY <1>2, <3>1
  <2>3. \A x : In(x, h[n]) <=> \E j \in 1..n : In(x, ss[j])
    BY <1>6, <1>8
  <2> QED BY <1>1, <2>1, <2>2, <2>3 DEF In
<1> QED BY <1>7, <1>8

-----------------------------------------------------------------------------
(***************************************************************************)
(* SetToSeq, and sorting by a relation that no number is given for.        *)
(***************************************************************************)
LEMMA FromSet ==
  ASSUME NEW S, IsFiniteSet(S)
  PROVE  /\ SetToSeq(S) \in Seq(S)
         /\ \A x \in S : \E i \in DOMAIN SetToSeq(S) : SetToSeq(S)[i] = x
<1> DEFINE n == Cardinality(S)
           s == SetToSeq(S)
<1>1. n \in Nat /\ IsFiniteSet(1..n) /\ Cardinality(1..n) = n
  BY FS_CardinalityType, FS_Interval
<1>2. PICK f : f \in Bijection(1..n, S)
  BY FS_CardinalityType DEF ExistsBijection
<1>3. f \in [1..n -> S] /\ IsInjective(f)
  BY <1>2 DEF Bijection, Injection, IsInjective
<1>4. s \in [1..n -> S] /\ IsInjective(s)
  BY <1>3 DEF SetToSeq
<1> HIDE DEF s, n
<1>5. s \in Injection(1..n, S)
  BY <1>4 DEF Injection, IsInjective
<1>6. s \in Surjection(1..n, S)
  <2>1. Cardinality(1..n) = Cardinality(S)
    BY <1>1 DEF n
  <2> QED BY <1>5, <2>1, FS_Injection
<1>7. s \in Seq(S) /\ DOMAIN s = 1..n
  BY <1>1, <1>4
<1>8. \A x \in S : \E i \in 1..n : s[i] = x
  BY <1>6 DEF Surjection
<1> QED BY <1>7, <1>8 DEF s

\* A strict order with ties numbers the positions: by how many come before.
LEMMA Numbered ==
  ASSUME NEW n \in Nat, NEW before,
         \A i \in 1..n : <<i, i>> \notin before,
         \A i, j, k \in 1..n : <<i, j>> \in before =>
           \/ <<i, k>> \in before
           \/ <<k, j>> \in before,
         \A i, j, k \in 1..n : <<i, j>> \in before /\ <<j, k>> \in before => <<i, k>> \in before
  PROVE  \E K \in [1..n -> Int] : \A i, j \in 1..n : <<i, j>> \in before <=> K[i] < K[j]
<1> DEFINE P(i) == {k \in 1..n : <<k, i>> \in before}
           K == [i \in 1..n |-> Cardinality(P(i))]
<1>1. \A i \in 1..n : IsFiniteSet(P(i)) /\ Cardinality(P(i)) \in Nat
  <2> SUFFICES ASSUME NEW i \in 1..n PROVE IsFiniteSet(P(i)) /\ Cardinality(P(i)) \in Nat
    OBVIOUS
  <2>1. IsFiniteSet(1..n) /\ P(i) \subseteq 1..n
    BY FS_Interval
  <2> QED BY <2>1, FS_Subset, FS_CardinalityType
<1>2. ASSUME NEW i \in 1..n, NEW j \in 1..n, <<i, j>> \in before
      PROVE  Cardinality(P(i)) < Cardinality(P(j))
  <2>1. P(i) \subseteq P(j) \ {i} /\ i \in P(j)
    BY <1>2
  <2> HIDE DEF P
  <2>2. IsFiniteSet(P(j) \ {i}) /\ Cardinality(P(j) \ {i}) = Cardinality(P(j)) - 1
    BY <1>1, <2>1, FS_RemoveElement
  <2>3. Cardinality(P(i)) <= Cardinality(P(j)) - 1
    BY <2>1, <2>2, FS_Subset
  <2> QED BY <1>1, <2>3
<1>3. ASSUME NEW i \in 1..n, NEW j \in 1..n, Cardinality(P(i)) < Cardinality(P(j))
      PROVE  <<i, j>> \in before
  <2>1. ~(P(j) \subseteq P(i))
    <3> HIDE DEF P
    <3>1. P(j) \subseteq P(i) => Cardinality(P(j)) <= Cardinality(P(i))
      BY <1>1, FS_Subset
    <3> QED BY <1>1, <1>3, <3>1
  <2>2. PICK k \in 1..n : <<k, j>> \in before /\ <<k, i>> \notin before
    BY <2>1
  <2> QED BY <2>2
<1>4. K \in [1..n -> Int]
  BY <1>1
<1>5. \A i, j \in 1..n : <<i, j>> \in before <=> K[i] < K[j]
  BY <1>2, <1>3
<1> QED BY <1>4, <1>5
=============================================================================
