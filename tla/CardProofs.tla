----------------------------- MODULE CardProofs -----------------------------
(***************************************************************************)
(* The invariants of Card, proved for any extractions, other issues and    *)
(* limit, under CardAssumption.                                            *)
(***************************************************************************)
EXTENDS Card, ArraysProofs

(***************************************************************************)
(* Which spans are kept: a fold over the spans in order of their priority. *)
(***************************************************************************)
\* The spans kept after the first k are t.
KeptAfter(s, k, t) ==
  /\ t \in Seq(Annotation)
  /\ \A i \in DOMAIN t : \E j \in 1..k : t[i] = s[j] /\ s[j].start < s[j].end
  /\ \A i, j \in DOMAIN t : i # j => ~overlaps(t[i], t[j])
  /\ \A j \in 1..k : s[j].start < s[j].end =>
       \E i \in DOMAIN t :
         \/ t[i] = s[j]
         \/ overlaps(t[i], s[j]) /\ \E h \in 1..j : t[i] = s[h]

LEMMA KeepStep ==
  ASSUME NEW s \in Seq(Annotation), NEW k \in 0..Len(s)-1, NEW t, KeptAfter(s, k, t)
  PROVE  KeptAfter(s, k+1, keep(t, s[k+1]))
<1> DEFINE a == s[k+1]
<1>1. /\ k + 1 \in 1..Len(s) /\ a \in Annotation /\ t \in Seq(Annotation)
      /\ Len(t) \in Nat /\ DOMAIN t = 1..Len(t)
      /\ a.start \in Nat /\ a.end \in Nat
      /\ \A i \in DOMAIN t : t[i] \in Annotation /\ t[i].start \in Nat /\ t[i].end \in Nat
  <2>1. t \in Seq(Annotation)
    BY DEF KeptAfter
  <2>2. /\ k + 1 \in 1..Len(s) /\ a \in Annotation /\ Len(t) \in Nat /\ DOMAIN t = 1..Len(t)
        /\ \A i \in DOMAIN t : t[i] \in Annotation
    BY <2>1
  <2>3. \A x \in Annotation : x.start \in Nat /\ x.end \in Nat
    BY DEF Annotation
  <2> HIDE DEF a
  <2> QED BY <2>1, <2>2, <2>3
<1>2. CASE a.end <= a.start
  <2>1. keep(t, a) = t
    BY <1>2 DEF keep
  <2>2. ~(a.start < a.end)
    BY <1>1, <1>2
  <2> HIDE DEF a
  <2>3. KeptAfter(s, k+1, t)
    <3>1. ASSUME NEW i \in DOMAIN t
          PROVE  \E j \in 1..k+1 : t[i] = s[j] /\ s[j].start < s[j].end
      <4>1. PICK j \in 1..k : t[i] = s[j] /\ s[j].start < s[j].end
        BY DEF KeptAfter
      <4> QED BY <4>1
    <3>2. ASSUME NEW j \in 1..k+1, s[j].start < s[j].end
          PROVE  \E i \in DOMAIN t :
                   t[i] = s[j] \/ (overlaps(t[i], s[j]) /\ \E h \in 1..j : t[i] = s[h])
      <4>1. j \in 1..k
        BY <2>2, <3>2 DEF a
      <4> QED BY <3>2, <4>1 DEF KeptAfter
    <3> QED BY <3>1, <3>2 DEF KeptAfter
  <2> QED BY <2>1, <2>3 DEF a
<1>3. CASE a.start < a.end /\ \E i \in DOMAIN t : overlaps(a, t[i])
  <2>1. keep(t, a) = t
    BY <1>3 DEF keep
  <2>2. PICK i \in DOMAIN t : overlaps(a, t[i])
    BY <1>3
  <2>3. overlaps(t[i], a)
    BY <1>1, <2>2 DEF overlaps
  <2> HIDE DEF a
  <2>4. KeptAfter(s, k+1, t)
    <3>1. ASSUME NEW m \in DOMAIN t
          PROVE  \E j \in 1..k+1 : t[m] = s[j] /\ s[j].start < s[j].end
      <4>1. PICK j \in 1..k : t[m] = s[j] /\ s[j].start < s[j].end
        BY DEF KeptAfter
      <4> QED BY <4>1
    <3>2. ASSUME NEW j \in 1..k+1, s[j].start < s[j].end
          PROVE  \E m \in DOMAIN t :
                   t[m] = s[j] \/ (overlaps(t[m], s[j]) /\ \E h \in 1..j : t[m] = s[h])
      <4>1. CASE j \in 1..k
        BY <3>2, <4>1 DEF KeptAfter
      <4>2. CASE j = k + 1
        <5>1. PICK h \in 1..k : t[i] = s[h]
          BY <2>2 DEF KeptAfter
        <5>2. h \in 1..j
          BY <4>2
        <5> QED BY <2>2, <2>3, <4>2, <5>1, <5>2 DEF a
      <4> QED BY <4>1, <4>2
    <3> QED BY <3>1, <3>2 DEF KeptAfter
  <2> QED BY <2>1, <2>4 DEF a
<1>4. CASE a.start < a.end /\ \A i \in DOMAIN t : ~overlaps(a, t[i])
  <2> DEFINE u == Append(t, a)
  <2>1. keep(t, a) = u
    BY <1>1, <1>4 DEF keep
  <2>2. /\ u \in Seq(Annotation) /\ DOMAIN u = 1..Len(t)+1 /\ u[Len(t)+1] = a
        /\ \A i \in 1..Len(t) : u[i] = t[i]
    BY <1>1
  <2>3. \A i \in DOMAIN t : ~overlaps(t[i], a)
    BY <1>1, <1>4 DEF overlaps
  <2> HIDE DEF a, u
  <2>4. ASSUME NEW i \in DOMAIN u
        PROVE  \E j \in 1..k+1 : u[i] = s[j] /\ s[j].start < s[j].end
    <3>1. CASE i = Len(t) + 1
      BY <1>1, <1>4, <2>2, <3>1 DEF a
    <3>2. CASE i # Len(t) + 1
      <4>1. i \in DOMAIN t /\ u[i] = t[i]
        BY <1>1, <2>2, <3>2
      <4> QED BY <4>1 DEF KeptAfter
    <3> QED BY <3>1, <3>2
  <2>5. ASSUME NEW i \in DOMAIN u, NEW j \in DOMAIN u, i # j
        PROVE  ~overlaps(u[i], u[j])
    <3>1. CASE i = Len(t) + 1
      <4>1. j \in DOMAIN t /\ u[j] = t[j] /\ u[i] = a
        BY <1>1, <2>2, <2>5, <3>1
      <4> QED BY <1>4, <4>1
    <3>2. CASE j = Len(t) + 1
      <4>1. i \in DOMAIN t /\ u[i] = t[i] /\ u[j] = a
        BY <1>1, <2>2, <2>5, <3>2
      <4> QED BY <2>3, <4>1
    <3>3. CASE i # Len(t) + 1 /\ j # Len(t) + 1
      <4>1. i \in DOMAIN t /\ u[i] = t[i] /\ j \in DOMAIN t /\ u[j] = t[j]
        BY <1>1, <2>2, <3>3
      <4> QED BY <2>5, <4>1 DEF KeptAfter
    <3> QED BY <3>1, <3>2, <3>3
  <2>6. ASSUME NEW j \in 1..k+1, s[j].start < s[j].end
        PROVE  \E i \in DOMAIN u :
                 u[i] = s[j] \/ (overlaps(u[i], s[j]) /\ \E h \in 1..j : u[i] = s[h])
    <3>1. CASE j = k + 1
      <4>1. Len(t) + 1 \in DOMAIN u /\ u[Len(t)+1] = s[j]
        BY <1>1, <2>2, <3>1 DEF a
      <4> QED BY <4>1
    <3>2. CASE j # k + 1
      <4>1. j \in 1..k
        BY <3>2
      <4>2. PICK i \in DOMAIN t :
              t[i] = s[j] \/ (overlaps(t[i], s[j]) /\ \E h \in 1..j : t[i] = s[h])
        BY <2>6, <4>1 DEF KeptAfter
      <4>3. i \in DOMAIN u /\ u[i] = t[i]
        BY <1>1, <2>2
      <4> QED BY <4>2, <4>3
    <3> QED BY <3>1, <3>2
  <2>7. KeptAfter(s, k+1, u)
    BY <2>2, <2>4, <2>5, <2>6 DEF KeptAfter
  <2> QED BY <2>1, <2>7 DEF a
<1> QED BY <1>1, <1>2, <1>3, <1>4

LEMMA KeepFold ==
  ASSUME NEW s \in Seq(Annotation)
  PROVE  KeptAfter(s, Len(s), FoldLeft(keep, <<>>, s))
<1> DEFINE n == Len(s)
           T == Seq(Annotation)
           Step(iter, t) == IF t = {} THEN <<>> ELSE keep(iter[t \ {Max(t)}], s[Max(t)])
           op == [x \in T \X (1..n) |-> keep(x[1], s[x[2]])]
           g == CHOOSE iter : iter = [t \in SUBSET DOMAIN s |-> Step(iter, t)]
<1>1. n \in Nat /\ DOMAIN s = 1..n /\ \A i \in 1..n : s[i] \in Annotation
  OBVIOUS
<1>2. op \in [T \X (1..n) -> T]
  <2>1. ASSUME NEW x \in T \X (1..n) PROVE keep(x[1], s[x[2]]) \in T
    BY <1>1 DEF keep
  <2> QED BY <2>1
<1>3. PICK f : IsFold(f, n, T, <<>>, op)
  <2>1. <<>> \in T
    OBVIOUS
  <2> HIDE DEF op, n, T
  <2> QED BY <1>1, <1>2, <2>1, FoldExists, Zenon
<1>4. f = [t \in SUBSET DOMAIN s |-> Step(f, t)]
  <2>1. ASSUME NEW t \in SUBSET (1..n) PROVE f[t] = Step(f, t)
    <3>1. CASE t = {}
      BY <1>3, <3>1 DEF IsFold
    <3>2. CASE t # {}
      <4>1. Max(t) \in 1..n /\ t \ {Max(t)} \in SUBSET (1..n)
        BY <1>1, <3>2, MaxIn
      <4>2. f[t \ {Max(t)}] \in T
        BY <1>3, <4>1 DEF IsFold
      <4>3. op[<<f[t \ {Max(t)}], Max(t)>>] = keep(f[t \ {Max(t)}], s[Max(t)])
        BY <4>1, <4>2
      <4> HIDE DEF op
      <4> QED BY <1>3, <3>2, <4>3 DEF IsFold
    <3> QED BY <3>1, <3>2
  <2> HIDE DEF Step
  <2> QED BY <1>1, <1>3, <2>1 DEF IsFold
<1>5. g = [t \in SUBSET DOMAIN s |-> Step(g, t)]
  <2> HIDE DEF Step
  <2> QED BY <1>4
<1>6. FoldLeft(keep, <<>>, s) = g[DOMAIN s]
  BY Zenon DEF FoldLeft, MapThenFoldSet
<1>7. \A t \in SUBSET (1..n) : g[t] = Step(g, t)
  <2> HIDE DEF Step, g
  <2> QED BY <1>1, <1>5
<1> HIDE DEF g
<1> DEFINE S == {k \in 0..n : KeptAfter(s, k, g[1..k])}
<1>8. 0 \in S
  <2>1. 1..0 = {} /\ {} \in SUBSET (1..n)
    OBVIOUS
  <2>2. g[1..0] = <<>>
    BY <1>7, <2>1
  <2>3. KeptAfter(s, 0, <<>>)
    BY DEF KeptAfter
  <2> QED BY <1>1, <2>2, <2>3
<1>9. ASSUME NEW k \in 0..n-1, k \in S PROVE k + 1 \in S
  <2>1. /\ Max(1..k+1) = k+1 /\ (1..k+1) \ {k+1} = 1..k /\ 1..k+1 # {}
        /\ 1..k+1 \in SUBSET (1..n)
    <3>1. k + 1 \in Nat /\ k + 1 # 0 /\ (k + 1) - 1 = k
      OBVIOUS
    <3>2. Max(1..k+1) = k+1
      BY <3>1, MaxOfPrefix
    <3>3. (1..k+1) \ {k+1} = 1..k
      <4> HIDE DEF n
      <4>1. k \in Nat
        BY <1>1
      <4> QED BY <4>1
    <3>5. k + 1 \in 1..k+1
      BY <3>1
    <3>4. 1..k+1 \subseteq 1..n
      BY <1>1
    <3> QED BY <3>2, <3>3, <3>4, <3>5
  <2>2. g[1..k+1] = keep(g[1..k], s[k+1])
    BY <1>7, <2>1
  <2>3. KeptAfter(s, k+1, g[1..k+1])
    BY <1>9, <2>2, KeepStep
  <2> QED BY <2>3
<1>10. n \in S
  <2> HIDE DEF S, n
  <2>1. \A k \in 0..n-1 : k \in S => k + 1 \in S
    BY <1>9
  <2>2. \A k \in 0..n : k \in S
    BY <1>1, <1>8, <2>1, InductionTo
  <2> QED BY <1>1, <2>2
<1> QED BY <1>1, <1>6, <1>10

-----------------------------------------------------------------------------
(***************************************************************************)
(* resolveOverlaps: spans of some extent, one after another, the strongest *)
(* of those that overlap.                                                  *)
(***************************************************************************)
LEMMA PriorityNat == \A a \in Annotation : priority(a) \in Nat
<1> SUFFICES ASSUME NEW a \in Annotation PROVE priority(a) \in Nat
  OBVIOUS
<1>1. a.kind \in Kinds /\ a.confidence \in 0..10
  BY DEF Annotation
<1>2. KIND_PRIORITY[a.kind] \in Nat
  BY <1>1 DEF KIND_PRIORITY
<1> QED BY <1>1, <1>2 DEF priority

LEMMA ByPriority ==
  ASSUME NEW s \in Seq(Annotation)
  PROVE  \E t \in Seq(Annotation) :
           /\ t = stableSort(s, LAMBDA a, b : priority(a) > priority(b))
           /\ \A i \in DOMAIN t : \E j \in DOMAIN s : t[i] = s[j]
           /\ \A j \in DOMAIN s : \E i \in DOMAIN t : t[i] = s[j]
           /\ \A i, j \in DOMAIN t : i <= j => priority(t[i]) >= priority(t[j])
<1> DEFINE D == {x \in (DOMAIN s) \X (DOMAIN s) : priority(s[x[1]]) > priority(s[x[2]])}
           K == [i \in DOMAIN s |-> 0 - priority(s[i])]
           t == inOrder(s, D)
<1>1. \A i \in DOMAIN s : priority(s[i]) \in Nat
  BY PriorityNat
<1>2. K \in [DOMAIN s -> Int] /\ \A i, j \in DOMAIN s : <<i, j>> \in D <=> K[i] < K[j]
  BY <1>1
<1>3. t = stableSort(s, LAMBDA a, b : priority(a) > priority(b))
  BY Zenon DEF stableSort
<1> HIDE DEF D, K
<1>4. /\ t \in Seq(Annotation) /\ Len(t) = Len(s)
      /\ \E p : Picks(t, s, p) /\ Sorts(p, Len(s), K)
  BY <1>2, InOrder
<1> HIDE DEF t
<1>5. PICK p : Picks(t, s, p) /\ Sorts(p, Len(s), K)
  BY <1>4
<1>6. Len(s) \in Nat /\ DOMAIN t = 1..Len(s) /\ DOMAIN s = 1..Len(s)
  BY <1>4
<1>7. \A i \in DOMAIN t : p[i] \in DOMAIN s /\ t[i] = s[p[i]]
  BY <1>5 DEF Picks
<1>8. \A j \in DOMAIN s : \E i \in DOMAIN t : t[i] = s[j]
  <2>1. \A q \in 1..Len(s) : \E r \in 1..Len(s) : p[r] = q
    BY <1>5, Zenon DEF Sorts
  <2> SUFFICES ASSUME NEW j \in DOMAIN s
               PROVE  \E i \in DOMAIN t : t[i] = s[j]
    OBVIOUS
  <2>2. PICK i \in DOMAIN t : p[i] = j
    BY <1>6, <2>1, Zenon
  <2>3. t[i] = s[j]
    BY <1>7, <2>2, Zenon
  <2> QED BY <2>3
<1>9. \A i, j \in DOMAIN t : i < j => K[p[i]] <= K[p[j]]
  BY <1>5, <1>6 DEF Sorts
<1>10. \A i, j \in DOMAIN t : i <= j => priority(t[i]) >= priority(t[j])
  <2> SUFFICES ASSUME NEW i \in DOMAIN t, NEW j \in DOMAIN t, i <= j
               PROVE  priority(t[i]) >= priority(t[j])
    OBVIOUS
  <2>1. /\ priority(t[i]) \in Nat /\ priority(t[j]) \in Nat
        /\ K[p[i]] = 0 - priority(t[i]) /\ K[p[j]] = 0 - priority(t[j])
    BY <1>1, <1>7 DEF K
  <2>2. i = j \/ i < j
    BY <1>6
  <2> QED BY <1>9, <2>1, <2>2
<1> QED BY <1>3, <1>4, <1>7, <1>8, <1>10

LEMMA ByStart ==
  ASSUME NEW s \in Seq(Annotation)
  PROVE  \E t, p :
           /\ t \in Seq(Annotation)
           /\ t = stableSort(s, LAMBDA a, b : a.start < b.start)
           /\ Picks(t, s, p)
           /\ \A i, j \in DOMAIN p : i # j => p[i] # p[j]
           /\ \A j \in DOMAIN s : \E i \in DOMAIN t : t[i] = s[j]
           /\ \A i, j \in DOMAIN t : i < j => t[i].start <= t[j].start
<1> DEFINE D == {x \in (DOMAIN s) \X (DOMAIN s) : s[x[1]].start < s[x[2]].start}
           K == [i \in DOMAIN s |-> s[i].start]
           t == inOrder(s, D)
<1>1. \A i \in DOMAIN s : s[i].start \in Nat
  <2>1. \A a \in Annotation : a.start \in Nat
    BY DEF Annotation
  <2> QED BY <2>1
<1>2. K \in [DOMAIN s -> Int] /\ \A i, j \in DOMAIN s : <<i, j>> \in D <=> K[i] < K[j]
  BY <1>1
<1>3. t = stableSort(s, LAMBDA a, b : a.start < b.start)
  BY Zenon DEF stableSort
<1> HIDE DEF D, K
<1>4. /\ t \in Seq(Annotation) /\ Len(t) = Len(s)
      /\ \E p : Picks(t, s, p) /\ Sorts(p, Len(s), K)
  BY <1>2, InOrder
<1> HIDE DEF t
<1>5. PICK p : Picks(t, s, p) /\ Sorts(p, Len(s), K)
  BY <1>4
<1>6. Len(s) \in Nat /\ DOMAIN t = 1..Len(s) /\ DOMAIN s = 1..Len(s)
  BY <1>4
<1>7. \A i \in DOMAIN t : p[i] \in DOMAIN s /\ t[i] = s[p[i]]
  BY <1>5 DEF Picks
<1>8. \A j \in DOMAIN s : \E i \in DOMAIN t : t[i] = s[j]
  <2>1. \A q \in 1..Len(s) : \E r \in 1..Len(s) : p[r] = q
    BY <1>5, Zenon DEF Sorts
  <2> SUFFICES ASSUME NEW j \in DOMAIN s
               PROVE  \E i \in DOMAIN t : t[i] = s[j]
    OBVIOUS
  <2>2. PICK i \in DOMAIN t : p[i] = j
    BY <1>6, <2>1, Zenon
  <2>3. t[i] = s[j]
    BY <1>7, <2>2, Zenon
  <2> QED BY <2>3
<1>9. \A i, j \in DOMAIN t : i < j => K[p[i]] <= K[p[j]]
  BY <1>5, <1>6 DEF Sorts
<1>10. \A i, j \in DOMAIN t : i < j => t[i].start <= t[j].start
  BY <1>7, <1>9 DEF K
<1>11. \A i, j \in DOMAIN p : i # j => p[i] # p[j]
  BY <1>5 DEF Sorts
<1> QED BY <1>3, <1>4, <1>5, <1>8, <1>10, <1>11

\* Of the spans, R are the ones to render.
Resolved(spans, R) ==
  /\ R \in Seq(Annotation)
  /\ \A j \in DOMAIN R : R[j].start < R[j].end /\ \E i \in DOMAIN spans : R[j] = spans[i]
  /\ \A i, j \in DOMAIN R : i < j => R[i].end <= R[j].start
  /\ \A i \in DOMAIN spans : spans[i].start < spans[i].end =>
       \E j \in DOMAIN R :
         \/ R[j] = spans[i]
         \/ overlaps(R[j], spans[i]) /\ priority(R[j]) >= priority(spans[i])

LEMMA Resolve ==
  ASSUME NEW spans \in Seq(Annotation)
  PROVE  Resolved(spans, resolveOverlaps(spans))
<1>1. PICK s \in Seq(Annotation) :
        /\ s = stableSort(spans, LAMBDA a, b : priority(a) > priority(b))
        /\ \A i \in DOMAIN s : \E j \in DOMAIN spans : s[i] = spans[j]
        /\ \A j \in DOMAIN spans : \E i \in DOMAIN s : s[i] = spans[j]
        /\ \A i, j \in DOMAIN s : i <= j => priority(s[i]) >= priority(s[j])
  BY ByPriority
<1> DEFINE t == FoldLeft(keep, <<>>, s)
<1>2. KeptAfter(s, Len(s), t)
  BY KeepFold
<1> HIDE DEF t
<1>3. t \in Seq(Annotation) /\ Len(s) \in Nat /\ DOMAIN s = 1..Len(s)
  BY <1>2 DEF KeptAfter
<1>4. PICK R, p :
        /\ R \in Seq(Annotation)
        /\ R = stableSort(t, LAMBDA a, b : a.start < b.start)
        /\ Picks(R, t, p)
        /\ \A i, j \in DOMAIN p : i # j => p[i] # p[j]
        /\ \A j \in DOMAIN t : \E i \in DOMAIN R : R[i] = t[j]
        /\ \A i, j \in DOMAIN R : i < j => R[i].start <= R[j].start
  BY <1>3, ByStart
<1>5. resolveOverlaps(spans) = R
  BY <1>1, <1>4, Zenon DEF resolveOverlaps, t
<1>6. DOMAIN p = DOMAIN R /\ \A r \in DOMAIN R : p[r] \in DOMAIN t /\ R[r] = t[p[r]]
  BY <1>4 DEF Picks
<1>7. ASSUME NEW j \in DOMAIN R
      PROVE  R[j].start < R[j].end /\ \E i \in DOMAIN spans : R[j] = spans[i]
  <2>1. PICK i \in 1..Len(s) : t[p[j]] = s[i] /\ s[i].start < s[i].end
    BY <1>2, <1>6 DEF KeptAfter
  <2>2. i \in DOMAIN s /\ R[j] = t[p[j]]
    BY <1>3, <1>6
  <2>3. PICK h \in DOMAIN spans : s[i] = spans[h]
    BY <1>1, <2>2
  <2> QED BY <2>1, <2>2, <2>3
<1>8. ASSUME NEW i \in DOMAIN R, NEW j \in DOMAIN R, i < j PROVE R[i].end <= R[j].start
  <2>1. DOMAIN R = 1..Len(R) /\ Len(R) \in Nat /\ R[i] \in Annotation /\ R[j] \in Annotation
    <3>1. R \in Seq(Annotation)
      BY <1>4
    <3> QED BY <3>1
  <2>2. i # j /\ p[i] # p[j]
    <3>1. i # j
      BY <1>8, <2>1
    <3>2. i \in DOMAIN p /\ j \in DOMAIN p
      BY <1>6
    <3> QED BY <1>4, <3>1, <3>2
  <2>3. ~overlaps(R[i], R[j])
    BY <1>2, <1>6, <2>2 DEF KeptAfter
  <2>4. /\ R[i].start \in Nat /\ R[i].end \in Nat /\ R[j].start \in Nat /\ R[j].end \in Nat
    BY <2>1 DEF Annotation
  <2>5. R[i].start <= R[j].start /\ R[j].start < R[j].end
    BY <1>4, <1>7, <1>8
  <2> QED BY <2>3, <2>4, <2>5 DEF overlaps
<1>9. ASSUME NEW i \in DOMAIN spans, spans[i].start < spans[i].end
      PROVE  \E j \in DOMAIN R :
               \/ R[j] = spans[i]
               \/ overlaps(R[j], spans[i]) /\ priority(R[j]) >= priority(spans[i])
  <2>1. PICK k \in DOMAIN s : s[k] = spans[i]
    BY <1>1
  <2>2. PICK m \in DOMAIN t :
          t[m] = s[k] \/ (overlaps(t[m], s[k]) /\ \E h \in 1..k : t[m] = s[h])
    BY <1>2, <1>3, <1>9, <2>1 DEF KeptAfter
  <2>3. PICK j \in DOMAIN R : R[j] = t[m]
    BY <1>4
  <2>4. CASE \E h \in 1..k : t[m] = s[h]
    <3>1. PICK h \in 1..k : t[m] = s[h]
      BY <2>4
    <3>2. h \in DOMAIN s /\ h <= k
      BY <1>3
    <3>3. priority(s[h]) >= priority(s[k])
      BY <1>1, <3>2
    <3> QED BY <2>1, <2>2, <2>3, <3>1, <3>3
  <2>5. CASE t[m] = s[k]
    BY <2>1, <2>3, <2>5
  <2> QED BY <2>2, <2>4, <2>5
<1>10. Resolved(spans, R)
  BY <1>4, <1>7, <1>8, <1>9 DEF Resolved
<1> QED BY <1>5, <1>10

-----------------------------------------------------------------------------
(***************************************************************************)
(* toSegments: the text cut at the marks.                                  *)
(***************************************************************************)
LEMMA Slices ==
  ASSUME NEW body \in Seq(Characters), NEW start \in Nat, NEW end \in Nat
  PROVE  /\ slice(body, start, end) \in Seq(Characters)
         /\ end <= Len(body) => slice(body, start, end) = SubSeq(body, start + 1, end)
         /\ start < end /\ end <= Len(body) => Len(slice(body, start, end)) = end - start
         /\ start < end /\ Len(body) < end => Len(slice(body, start, end)) < end - start
<1> DEFINE last == IF end < Len(body) THEN end ELSE Len(body)
<1>1. /\ start + 1 \in Int /\ last \in Int /\ last <= Len(body) /\ start + 1 >= 1
      /\ end <= Len(body) => last = end
      /\ Len(body) < end => last < end
  OBVIOUS
<1>2. slice(body, start, end) = SubSeq(body, start + 1, last)
  BY DEF slice
<1> HIDE DEF last
<1>3. \A i \in start + 1 .. last : body[i] \in Characters
  BY <1>1
<1>4. /\ SubSeq(body, start + 1, last) \in Seq(Characters)
      /\ Len(SubSeq(body, start + 1, last)) =
           IF start + 1 <= last THEN last - (start + 1) + 1 ELSE 0
  BY <1>1, <1>3, SubSeqProperties
<1>5. /\ start < last => Len(slice(body, start, end)) = last - start
      /\ ~(start < last) => Len(slice(body, start, end)) = 0
  BY <1>1, <1>2, <1>4
<1> QED BY <1>1, <1>2, <1>4, <1>5

Segment ==
  [marked : BOOLEAN, text : Seq(Characters), span : Annotation \cup {None}]
Texts(ss) == [i \in DOMAIN ss |-> ss[i].text]

LEMMA OneMore ==
  ASSUME NEW ss \in Seq(Segment), NEW x \in Segment
  PROVE  /\ Append(ss, x) \in Seq(Segment)
         /\ Texts(ss) \in Seq(Seq(Characters))
         /\ FlattenSeq(Texts(ss)) \in Seq(Characters)
         /\ FlattenSeq(Texts(Append(ss, x))) = FlattenSeq(Texts(ss)) \o x.text
<1> DEFINE y == x.text
           tt == Texts(ss)
<1>1. \A z \in Segment : z.text \in Seq(Characters)
  BY DEF Segment
<1>2. \A i \in DOMAIN ss : ss[i].text \in Seq(Characters)
  BY <1>1
<1>3. tt \in Seq(Seq(Characters)) /\ Len(tt) = Len(ss) /\ y \in Seq(Characters)
  BY <1>1, <1>2 DEF Texts
<1>4. Texts(Append(ss, x)) = Append(tt, y)
  <2>1. DOMAIN Append(ss, x) = 1..Len(ss)+1 /\ DOMAIN ss = 1..Len(ss)
    OBVIOUS
  <2>2. \A i \in 1..Len(ss)+1 : Append(ss, x)[i].text = Append(tt, y)[i]
    BY <1>3 DEF Texts
  <2> HIDE DEF y, tt
  <2> DEFINE v == Append(tt, y)
  <2>3. v \in Seq(Seq(Characters)) /\ Len(v) = Len(ss)+1
    BY <1>3
  <2> HIDE DEF v
  <2>4. v = [i \in 1..Len(ss)+1 |-> v[i]]
    BY <2>3
  <2>5. Texts(Append(ss, x)) = [i \in 1..Len(ss)+1 |-> Append(ss, x)[i].text]
    BY <2>1 DEF Texts
  <2> QED BY <2>2, <2>4, <2>5 DEF v
<1> HIDE DEF y, tt
<1>5. FlattenSeq(tt) \in Seq(Characters) /\ FlattenSeq(Append(tt, y)) = FlattenSeq(tt) \o y
  BY <1>3, FlattenAppend
<1> QED BY <1>3, <1>4, <1>5 DEF y, tt

State == [cursor : Nat, segments : Seq(Segment)]

\* The text up to the end of the k-th span, cut at the first k.
Cut(body, R, k, st) ==
  /\ st \in State
  /\ st.cursor = IF k = 0 THEN 0 ELSE R[k].end
  /\ st.cursor <= Len(body)
  /\ FlattenSeq(Texts(st.segments)) = SubSeq(body, 1, st.cursor)
  /\ \A i \in DOMAIN st.segments : st.segments[i].marked =>
       \E j \in 1..k : /\ st.segments[i].span = R[j]
                       /\ st.segments[i].text = slice(body, R[j].start, R[j].end)
  /\ \A j \in 1..k : \E i \in DOMAIN st.segments :
       st.segments[i].marked /\ st.segments[i].span = R[j]

Placeable(body, R) ==
  /\ R \in Seq(Annotation)
  /\ \A j \in DOMAIN R : R[j].start < R[j].end /\ R[j].end <= Len(body)
  /\ \A i, j \in DOMAIN R : i < j => R[i].end <= R[j].start

\* What add appends: the text before the mark, if there is any, and the mark.
With(body, st, a) ==
  IF a.start > st.cursor
    THEN Append(st.segments, Plain(slice(body, st.cursor, a.start)))
    ELSE st.segments

LEMMA AddIs ==
  ASSUME NEW body \in Seq(Characters), NEW st \in State, NEW a \in Annotation
  PROVE  /\ st.cursor \in Nat /\ st.segments \in Seq(Segment)
         /\ a.start \in Nat /\ a.end \in Nat
         /\ Plain(slice(body, st.cursor, a.start)) \in Segment
         /\ Marked(slice(body, a.start, a.end), a) \in Segment
         /\ With(body, st, a) \in Seq(Segment)
         /\ add(body, st, a) =
              IF a.start < st.cursor \/ a.end > Len(body) THEN st
              ELSE [cursor |-> a.end,
                    segments |-> Append(With(body, st, a),
                                        Marked(slice(body, a.start, a.end), a))]
         /\ add(body, st, a) \in State
<1> DEFINE m == Marked(slice(body, a.start, a.end), a)
           q == Plain(slice(body, st.cursor, a.start))
           ss == st.segments
<1>1. st.cursor \in Nat /\ ss \in Seq(Segment) /\ a.start \in Nat /\ a.end \in Nat
  BY DEF State, Annotation
<1>2. /\ slice(body, st.cursor, a.start) \in Seq(Characters)
      /\ slice(body, a.start, a.end) \in Seq(Characters)
  BY <1>1, Slices
<1>3. m \in Segment /\ q \in Segment
  BY <1>2 DEF Segment, Plain, Marked
<1> HIDE DEF m, q, ss
<1>4. /\ (ss \o <<q>>) \o <<m>> = Append(Append(ss, q), m)
      /\ (ss \o <<>>) \o <<m>> = Append(ss, m)
      /\ Append(ss, q) \in Seq(Segment)
  BY <1>1, <1>3
<1>5. With(body, st, a) \in Seq(Segment)
  BY <1>1, <1>4 DEF With, q, ss
<1>6. add(body, st, a) =
        IF a.start < st.cursor \/ a.end > Len(body) THEN st
        ELSE [cursor |-> a.end, segments |-> Append(With(body, st, a), m)]
  <2>1. CASE a.start > st.cursor
    <3>1. With(body, st, a) = Append(ss, q)
      BY <2>1 DEF With, q, ss
    <3>2. (ss \o (IF a.start > st.cursor THEN <<q>> ELSE <<>>)) \o <<m>>
            = Append(With(body, st, a), m)
      BY <1>4, <2>1, <3>1
    <3> QED BY <3>2 DEF add, q, m, ss
  <2>2. CASE ~(a.start > st.cursor)
    <3>1. With(body, st, a) = ss
      BY <2>2 DEF With, ss
    <3>2. (ss \o (IF a.start > st.cursor THEN <<q>> ELSE <<>>)) \o <<m>>
            = Append(With(body, st, a), m)
      BY <1>4, <2>2, <3>1
    <3> QED BY <3>2 DEF add, q, m, ss
  <2> QED BY <2>1, <2>2
<1>7. Append(With(body, st, a), m) \in Seq(Segment)
  BY <1>3, <1>5
<1>8. add(body, st, a) \in State
  BY <1>1, <1>6, <1>7 DEF State
<1> QED BY <1>1, <1>3, <1>5, <1>6, <1>8 DEF m, q, ss

LEMMA AddStep ==
  ASSUME NEW body \in Seq(Characters), NEW R, Placeable(body, R),
         NEW k \in 0..Len(R)-1, NEW st, Cut(body, R, k, st)
  PROVE  Cut(body, R, k+1, add(body, st, R[k+1]))
<1> DEFINE a == R[k+1]
           w == With(body, st, a)
           m == Marked(slice(body, a.start, a.end), a)
           c == st.cursor
           u == Append(w, m)
           r == add(body, st, a)
<1>1. st \in State /\ R \in Seq(Annotation) /\ c <= Len(body)
  BY DEF Cut, Placeable
<1>2. k \in 0..Len(R)-1 /\ k + 1 \in DOMAIN R /\ a \in Annotation /\ k \in Nat
  BY <1>1
<1>3. a.start < a.end /\ a.end <= Len(body)
  BY <1>2 DEF Placeable
<1>4. /\ c \in Nat /\ st.segments \in Seq(Segment) /\ a.start \in Nat /\ a.end \in Nat
      /\ Plain(slice(body, c, a.start)) \in Segment /\ m \in Segment /\ w \in Seq(Segment)
      /\ r = IF a.start < c \/ a.end > Len(body) THEN st
             ELSE [cursor |-> a.end, segments |-> u]
      /\ r \in State
  BY <1>1, <1>2, AddIs
<1>5. c <= a.start
  <2>1. CASE k = 0
    BY <1>4, <2>1 DEF Cut
  <2>2. CASE k # 0
    <3>1. k \in DOMAIN R /\ k < k + 1
      BY <1>1, <1>2, <2>2
    <3>2. R[k].end <= R[k+1].start
      BY <1>2, <3>1 DEF Placeable
    <3> QED BY <2>2, <3>2 DEF Cut
  <2> QED BY <2>1, <2>2
<1>6. /\ slice(body, a.start, a.end) = SubSeq(body, a.start + 1, a.end)
      /\ slice(body, c, a.start) = SubSeq(body, c + 1, a.start)
  <2>1. a.start <= Len(body)
    BY <1>3, <1>4
  <2> QED BY <1>3, <1>4, <2>1, Slices
<1>7. /\ m.marked = TRUE /\ m.span = a /\ m.text = slice(body, a.start, a.end)
      /\ Plain(slice(body, c, a.start)).marked = FALSE
      /\ Plain(slice(body, c, a.start)).text = slice(body, c, a.start)
  BY DEF Marked, Plain
<1>8. FlattenSeq(Texts(st.segments)) = SubSeq(body, 1, c)
  BY DEF Cut
<1>9. r = [cursor |-> a.end, segments |-> u]
  BY <1>3, <1>4, <1>5
<1>10. w = IF a.start > c THEN Append(st.segments, Plain(slice(body, c, a.start)))
           ELSE st.segments
  BY DEF With
<1> HIDE DEF a, w, m, r, c
<1>11. FlattenSeq(Texts(w)) = SubSeq(body, 1, a.start)
  <2>1. CASE a.start > c
    <3> DEFINE q == Plain(slice(body, c, a.start))
    <3>0. w = Append(st.segments, q) /\ q \in Segment /\ q.text = SubSeq(body, c + 1, a.start)
      BY <1>4, <1>6, <1>7, <1>10, <2>1
    <3> HIDE DEF q
    <3>1. FlattenSeq(Texts(w)) = SubSeq(body, 1, c) \o SubSeq(body, c + 1, a.start)
      <4>1. FlattenSeq(Texts(w)) = FlattenSeq(Texts(st.segments)) \o q.text
        BY <1>4, <3>0, OneMore
      <4> QED BY <1>8, <3>0, <4>1
    <3>2. 1 \in 1..Len(body)+1 /\ c \in 1-1..Len(body) /\ a.start \in c..Len(body)
      BY <1>1, <1>3, <1>4, <1>5
    <3>3. SubSeq(body, 1, c) \o SubSeq(body, c + 1, a.start) = SubSeq(body, 1, a.start)
      BY <3>2, ConcatAdjacentSubSeq
    <3> QED BY <3>1, <3>3
  <2>2. CASE a.start = c
    BY <1>4, <1>8, <1>10, <2>2
  <2> QED BY <1>4, <1>5, <2>1, <2>2
<1>12. FlattenSeq(Texts(u)) = SubSeq(body, 1, a.end)
  <2>1. FlattenSeq(Texts(u)) = SubSeq(body, 1, a.start) \o SubSeq(body, a.start + 1, a.end)
    <3>1. FlattenSeq(Texts(u)) = FlattenSeq(Texts(w)) \o m.text
      BY <1>4, OneMore
    <3>2. m.text = SubSeq(body, a.start + 1, a.end)
      BY <1>6, <1>7
    <3> QED BY <1>11, <3>1, <3>2
  <2>2. 1 \in 1..Len(body)+1 /\ a.start \in 1-1..Len(body) /\ a.end \in a.start..Len(body)
    BY <1>3, <1>4
  <2>3. SubSeq(body, 1, a.start) \o SubSeq(body, a.start + 1, a.end) = SubSeq(body, 1, a.end)
    BY <2>2, ConcatAdjacentSubSeq
  <2> QED BY <2>1, <2>3
<1>13. /\ DOMAIN u = 1..Len(w)+1 /\ DOMAIN w = 1..Len(w) /\ Len(w) \in Nat
       /\ u[Len(w)+1] = m /\ \A i \in 1..Len(w) : u[i] = w[i]
  BY <1>4
<1>14. \A i \in DOMAIN st.segments : i \in DOMAIN w /\ w[i] = st.segments[i]
  BY <1>4, <1>10
<1>15. \A i \in DOMAIN w : w[i].marked => i \in DOMAIN st.segments /\ w[i] = st.segments[i]
  <2>1. CASE a.start > c
    <3> DEFINE q == Plain(slice(body, c, a.start))
    <3>1. q.marked = FALSE /\ w = Append(st.segments, q)
      BY <1>7, <1>10, <2>1
    <3> HIDE DEF q
    <3>2. \A i \in DOMAIN w : w[i] = q \/ (i \in DOMAIN st.segments /\ w[i] = st.segments[i])
      BY <1>4, <3>1
    <3> QED BY <3>1, <3>2
  <2>2. CASE ~(a.start > c)
    BY <1>10, <2>2
  <2> QED BY <2>1, <2>2
<1> HIDE DEF u
<1>16. ASSUME NEW i \in DOMAIN u, u[i].marked
       PROVE  \E j \in 1..k+1 :
                u[i].span = R[j] /\ u[i].text = slice(body, R[j].start, R[j].end)
  <2>1. CASE i = Len(w) + 1
    <3>1. k + 1 \in 1..k+1 /\ u[i] = m
      BY <1>2, <1>13, <2>1
    <3> QED BY <1>7, <3>1 DEF a
  <2>2. CASE i # Len(w) + 1
    <3>1. i \in DOMAIN w /\ u[i] = w[i]
      BY <1>13, <2>2
    <3>2. i \in DOMAIN st.segments /\ u[i] = st.segments[i]
      BY <1>15, <1>16, <3>1
    <3>3. PICK j \in 1..k :
            u[i].span = R[j] /\ u[i].text = slice(body, R[j].start, R[j].end)
      BY <1>16, <3>2 DEF Cut
    <3> QED BY <1>2, <3>3
  <2> QED BY <2>1, <2>2
<1>17. ASSUME NEW j \in 1..k+1
       PROVE  \E i \in DOMAIN u : u[i].marked /\ u[i].span = R[j]
  <2>1. CASE j = k + 1
    <3>1. Len(w) + 1 \in DOMAIN u
      BY <1>13
    <3> QED BY <1>7, <1>13, <2>1, <3>1 DEF a
  <2>2. CASE j # k + 1
    <3>1. j \in 1..k
      BY <1>2, <2>2
    <3>2. PICK i \in DOMAIN st.segments : st.segments[i].marked /\ st.segments[i].span = R[j]
      BY <3>1 DEF Cut
    <3>3. i \in DOMAIN u /\ u[i] = st.segments[i]
      BY <1>13, <1>14
    <3> QED BY <3>2, <3>3
  <2> QED BY <2>1, <2>2
<1>18. r.cursor = a.end /\ r.segments = u
  BY <1>9
<1>19. k + 1 # 0 /\ (IF k + 1 = 0 THEN 0 ELSE R[k+1].end) = a.end
  BY <1>2 DEF a
<1>20. Cut(body, R, k+1, r)
  <2>1. r \in State /\ r.cursor <= Len(body)
    BY <1>3, <1>4, <1>18
  <2>2. r.cursor = IF k + 1 = 0 THEN 0 ELSE R[k+1].end
    BY <1>18, <1>19
  <2>3. FlattenSeq(Texts(r.segments)) = SubSeq(body, 1, r.cursor)
    BY <1>12, <1>18
  <2>4. /\ \A i \in DOMAIN r.segments : r.segments[i].marked =>
             \E j \in 1..k+1 : /\ r.segments[i].span = R[j]
                               /\ r.segments[i].text = slice(body, R[j].start, R[j].end)
        /\ \A j \in 1..k+1 : \E i \in DOMAIN r.segments :
             r.segments[i].marked /\ r.segments[i].span = R[j]
    BY <1>16, <1>17, <1>18
  <2> QED BY <2>1, <2>2, <2>3, <2>4 DEF Cut
<1> QED BY <1>20 DEF r, a

\* The array is folded with add along the spans.
LEMMA AddFold ==
  ASSUME NEW body \in Seq(Characters), NEW R, Placeable(body, R)
  PROVE  Cut(body, R, Len(R),
             FoldLeft(LAMBDA state, a : add(body, state, a),
                      [cursor |-> 0, segments |-> <<>>], R))
<1> DEFINE n == Len(R)
           base == [cursor |-> 0, segments |-> <<>>]
           Step(iter, t) == IF t = {} THEN base ELSE add(body, iter[t \ {Max(t)}], R[Max(t)])
           op == [x \in State \X (1..n) |-> add(body, x[1], R[x[2]])]
           g == CHOOSE iter : iter = [t \in SUBSET DOMAIN R |-> Step(iter, t)]
<1>0. R \in Seq(Annotation)
  BY DEF Placeable
<1>1. n \in Nat /\ DOMAIN R = 1..n /\ \A i \in 1..n : R[i] \in Annotation
  BY <1>0
<1>2. op \in [State \X (1..n) -> State]
  <2>1. ASSUME NEW x \in State \X (1..n) PROVE add(body, x[1], R[x[2]]) \in State
    BY <1>1, AddIs
  <2> QED BY <2>1
<1>21. base \in State
  BY DEF State
<1>3. PICK f : IsFold(f, n, State, base, op)
  <2> HIDE DEF op, n, base
  <2> QED BY <1>1, <1>2, <1>21, FoldExists, Zenon
<1> HIDE DEF base
<1>4. f = [t \in SUBSET DOMAIN R |-> Step(f, t)]
  <2>1. ASSUME NEW t \in SUBSET (1..n) PROVE f[t] = Step(f, t)
    <3>1. CASE t = {}
      BY <1>3, <3>1 DEF IsFold
    <3>2. CASE t # {}
      <4>1. Max(t) \in 1..n /\ t \ {Max(t)} \in SUBSET (1..n)
        BY <1>1, <3>2, MaxIn
      <4>2. f[t \ {Max(t)}] \in State
        BY <1>3, <4>1 DEF IsFold
      <4>3. op[<<f[t \ {Max(t)}], Max(t)>>] = add(body, f[t \ {Max(t)}], R[Max(t)])
        BY <4>1, <4>2
      <4> HIDE DEF op
      <4> QED BY <1>3, <3>2, <4>3 DEF IsFold
    <3> QED BY <3>1, <3>2
  <2> HIDE DEF Step
  <2> QED BY <1>1, <1>3, <2>1 DEF IsFold
<1>5. g = [t \in SUBSET DOMAIN R |-> Step(g, t)]
  <2> HIDE DEF Step
  <2> QED BY <1>4
<1>6. FoldLeft(LAMBDA state, a : add(body, state, a), base, R) = g[DOMAIN R]
  BY Zenon DEF FoldLeft, MapThenFoldSet
<1>7. \A t \in SUBSET (1..n) : g[t] = Step(g, t)
  <2> HIDE DEF Step, g
  <2> QED BY <1>1, <1>5
<1> HIDE DEF g
<1> DEFINE S == {k \in 0..n : Cut(body, R, k, g[1..k])}
<1>8. 0 \in S
  <2>1. 1..0 = {} /\ {} \in SUBSET (1..n)
    OBVIOUS
  <2>2. g[1..0] = base
    BY <1>7, <2>1
  <2>3. Cut(body, R, 0, base)
    <3>1. base \in State /\ base.cursor = 0 /\ base.segments = <<>>
      BY <1>21 DEF base
    <3>2. Texts(<<>>) = <<>> /\ FlattenSeq(Texts(<<>>)) = <<>>
      BY DEF Texts, FlattenSeq
    <3>3. SubSeq(body, 1, 0) = <<>>
      BY SubSeqEmpty
    <3>4. Len(body) \in Nat /\ 1..0 = {} /\ DOMAIN base.segments = {}
      BY <3>1
    <3>5. FlattenSeq(Texts(base.segments)) = SubSeq(body, 1, base.cursor)
      BY <3>1, <3>2, <3>3
    <3>6. base.cursor = IF 0 = 0 THEN 0 ELSE R[0].end
      BY <3>1
    <3> QED BY <3>1, <3>4, <3>5, <3>6 DEF Cut
  <2> QED BY <1>1, <2>2, <2>3
<1>9. ASSUME NEW k \in 0..n-1, k \in S PROVE k + 1 \in S
  <2>1. /\ Max(1..k+1) = k+1 /\ (1..k+1) \ {k+1} = 1..k /\ 1..k+1 # {}
        /\ 1..k+1 \in SUBSET (1..n)
    <3>1. k + 1 \in Nat /\ k + 1 # 0 /\ k \in Nat
      BY <1>1
    <3>2. Max(1..k+1) = k+1
      BY <3>1, MaxOfPrefix
    <3>3. (1..k+1) \ {k+1} = 1..k
      <4> HIDE DEF n
      <4> QED BY <3>1
    <3>4. 1..k+1 \subseteq 1..n
      BY <1>1
    <3>5. k + 1 \in 1..k+1
      BY <3>1
    <3> QED BY <3>2, <3>3, <3>4, <3>5
  <2>2. g[1..k+1] = add(body, g[1..k], R[k+1])
    BY <1>7, <2>1
  <2>3. Cut(body, R, k+1, g[1..k+1])
    BY <1>9, <2>2, AddStep
  <2> QED BY <2>3
<1>10. n \in S
  <2> HIDE DEF S, n
  <2>1. \A k \in 0..n-1 : k \in S => k + 1 \in S
    BY <1>9
  <2>2. \A k \in 0..n : k \in S
    BY <1>1, <1>8, <2>1, InductionTo
  <2> QED BY <1>1, <2>2
<1> QED BY <1>1, <1>6, <1>10 DEF base

\* The segments together are the text, and the marked ones are the resolved spans,
\* each on its words.
LEMMA ToSegments ==
  ASSUME NEW body \in Seq(Characters), NEW spans \in Seq(Annotation),
         \A i \in DOMAIN spans : spans[i].start < spans[i].end => spans[i].end <= Len(body)
  PROVE  /\ toSegments(body, spans) \in Seq(Segment)
         /\ FlattenSeq(Texts(toSegments(body, spans))) = body
         /\ \A i \in DOMAIN toSegments(body, spans) :
              LET s == toSegments(body, spans)[i]
              IN s.marked => \E j \in DOMAIN spans :
                   s.span = spans[j] /\ s.text = slice(body, spans[j].start, spans[j].end)
         /\ \A i \in DOMAIN spans : spans[i].start < spans[i].end =>
              \E j \in DOMAIN toSegments(body, spans) :
                LET s == toSegments(body, spans)[j]
                IN /\ s.marked
                   /\ \/ s.span = spans[i]
                      \/ overlaps(s.span, spans[i]) /\ priority(s.span) >= priority(spans[i])
<1> DEFINE R == resolveOverlaps(spans)
           st == FoldLeft(LAMBDA state, a : add(body, state, a),
                          [cursor |-> 0, segments |-> <<>>], R)
           c == st.cursor
           ss == st.segments
           q == Plain(slice(body, c, Len(body)))
           t == IF c < Len(body) THEN Append(ss, q) ELSE ss
<1>1. Resolved(spans, R)
  BY Resolve
<1>2. Placeable(body, R)
  BY <1>1 DEF Resolved, Placeable
<1>3. Cut(body, R, Len(R), st)
  BY <1>2, AddFold
<1> HIDE DEF R
<1>4. toSegments(body, spans) = ss \o (IF c < Len(body) THEN <<q>> ELSE <<>>)
  BY Zenon DEF toSegments, R
<1> HIDE DEF st
<1>5. /\ st \in State /\ c \in Nat /\ ss \in Seq(Segment) /\ c <= Len(body)
      /\ Len(body) \in Nat
  BY <1>3 DEF Cut, State
<1>6. q \in Segment /\ q.marked = FALSE /\ q.text = slice(body, c, Len(body))
  <2>1. slice(body, c, Len(body)) \in Seq(Characters)
    BY <1>5, Slices
  <2> QED BY <2>1 DEF Plain, Segment
<1> HIDE DEF c, ss
<1>7. q.text = SubSeq(body, c + 1, Len(body))
  <2>1. slice(body, c, Len(body)) = SubSeq(body, c + 1, Len(body))
    BY DEF slice
  <2> QED BY <1>6, <2>1
<1> HIDE DEF q
<1>8. toSegments(body, spans) = t /\ t \in Seq(Segment)
  BY <1>4, <1>5, <1>6
<1>9. FlattenSeq(Texts(ss)) = SubSeq(body, 1, c)
  BY <1>3 DEF Cut, ss, c
<1>10. SubSeq(body, 1, Len(body)) = body
  BY SubSeqFull
<1>11. FlattenSeq(Texts(t)) = body
  <2>1. CASE c < Len(body)
    <3>1. FlattenSeq(Texts(Append(ss, q))) = FlattenSeq(Texts(ss)) \o q.text
      BY <1>5, <1>6, OneMore
    <3>2. 1 \in 1..Len(body)+1 /\ c \in 1-1..Len(body) /\ Len(body) \in c..Len(body)
      BY <1>5
    <3>3. SubSeq(body, 1, c) \o SubSeq(body, c + 1, Len(body)) = SubSeq(body, 1, Len(body))
      BY <3>2, ConcatAdjacentSubSeq
    <3> QED BY <1>7, <1>9, <1>10, <2>1, <3>1, <3>3
  <2>2. CASE c = Len(body)
    BY <1>9, <1>10, <2>2
  <2> QED BY <1>5, <2>1, <2>2
<1>12. /\ \A i \in DOMAIN t : t[i].marked => i \in DOMAIN ss /\ t[i] = ss[i]
       /\ \A i \in DOMAIN ss : i \in DOMAIN t /\ t[i] = ss[i]
  <2>1. CASE c < Len(body)
    <3>1. \A i \in DOMAIN t : t[i] = q \/ (i \in DOMAIN ss /\ t[i] = ss[i])
      BY <1>5, <1>6, <2>1
    <3>2. \A i \in DOMAIN ss : i \in DOMAIN t /\ t[i] = ss[i]
      BY <1>5, <1>6, <2>1
    <3> QED BY <1>6, <3>1, <3>2
  <2>2. CASE ~(c < Len(body))
    BY <2>2
  <2> QED BY <2>1, <2>2
<1> HIDE DEF t
<1>13. R \in Seq(Annotation) /\ Len(R) \in Nat /\ DOMAIN R = 1..Len(R)
  BY <1>1 DEF Resolved
<1>14. ASSUME NEW i \in DOMAIN t, t[i].marked
       PROVE  \E j \in DOMAIN spans : /\ t[i].span = spans[j]
                                      /\ t[i].text = slice(body, spans[j].start, spans[j].end)
  <2>1. i \in DOMAIN ss /\ t[i] = ss[i]
    BY <1>12, <1>14
  <2>2. PICK j \in 1..Len(R) :
          ss[i].span = R[j] /\ ss[i].text = slice(body, R[j].start, R[j].end)
    BY <1>3, <1>14, <2>1 DEF Cut, ss
  <2>3. PICK h \in DOMAIN spans : R[j] = spans[h]
    BY <1>1, <1>13 DEF Resolved
  <2> QED BY <2>1, <2>2, <2>3
<1>15. ASSUME NEW i \in DOMAIN spans, spans[i].start < spans[i].end
       PROVE  \E j \in DOMAIN t :
                /\ t[j].marked
                /\ \/ t[j].span = spans[i]
                   \/ overlaps(t[j].span, spans[i]) /\ priority(t[j].span) >= priority(spans[i])
  <2>1. PICK j \in DOMAIN R :
          \/ R[j] = spans[i]
          \/ overlaps(R[j], spans[i]) /\ priority(R[j]) >= priority(spans[i])
    BY <1>1, <1>15 DEF Resolved
  <2>2. PICK h \in DOMAIN ss : ss[h].marked /\ ss[h].span = R[j]
    BY <1>3, <1>13 DEF Cut, ss
  <2>3. h \in DOMAIN t /\ t[h] = ss[h]
    BY <1>12
  <2> QED BY <2>1, <2>2, <2>3
<1> QED BY <1>8, <1>11, <1>14, <1>15

-----------------------------------------------------------------------------
(***************************************************************************)
(* The inductive invariant: what is stored and read comes from extractions *)
(* of the ticket, and every row that was read of another issue is one that *)
(* it has had since the request began.                                     *)
(***************************************************************************)
ContextOf(x) == [annotations |-> x.annotations, order |-> x.order, payment |-> x.payment]

TablesInv ==
  /\ message = None \/ \E x \in Extractions : message \in {[body |-> x.text], [body |-> None]}
  /\ context = None \/ \E x \in Extractions : context = ContextOf(x)
  /\ customer \in BOOLEAN /\ steady \in BOOLEAN
  /\ other \in [Others -> Issue] /\ seen \in [Others -> SUBSET Issue]
  /\ \A i \in Others : other[i] \in seen[i]

ReadInv ==
  /\ pending \subseteq Statements /\ ("subject" \in pending => "history" \in pending)
  /\ DOMAIN read = {"context", "message", "subject", "others", "truncated"}
  /\ \/ read.message = None
     \/ \E x \in Extractions : read.message \in {[body |-> x.text], [body |-> None]}
  /\ read.context = None \/ \E x \in Extractions : read.context = ContextOf(x)

SubjectInv ==
  "subject" \notin pending /\ customer =>
    /\ read.subject \in Subject
    /\ steady /\ context # None =>
         read.subject = [order |-> context.order, payment |-> context.payment]

RowsOf(row) == {<<i, row[i]>> : i \in newest(HISTORY_LIMIT)}

HistoryInv ==
  /\ "history" \in pending \/ read.subject = None => read.others = {}
  /\ "history" \notin pending /\ read.subject # None =>
       /\ read.truncated = (newest(HISTORY_LIMIT + 1) # newest(HISTORY_LIMIT))
       /\ \E row \in [Others -> Issue] :
            (\A i \in Others : row[i] \in seen[i]) /\ read.others = RowsOf(row)

CInv == TablesInv /\ ReadInv /\ SubjectInv /\ HistoryInv

LEMMA ExtractionFields ==
  ASSUME NEW x \in Extractions
  PROVE  /\ x.text \in Seq(Characters) /\ x.order \in Reference /\ x.payment \in Reference
         /\ x.annotations \in Seq(Annotation)
         /\ \A i \in DOMAIN x.annotations :
              /\ x.annotations[i].end <= Len(x.text)
              /\ x.annotations[i].excerpt =
                   slice(x.text, x.annotations[i].start, x.annotations[i].end)
BY CardAssumption DEF IsExtraction

\* What is stored of another issue is a row.
LEMMA OtherRows ==
  ASSUME NEW i \in Others, other \in [Others -> Issue], persistContext(i) \/ rebuildCardState(i)
  PROVE  \E row \in Issue : changeOther(i, row)
<1>1. PICK s \in Subjects, t \in Statuses :
        other[i] = [order |-> s.order, payment |-> s.payment, status |-> t]
  BY DEF Issue
<1>2. CASE persistContext(i)
  <2>1. PICK subject \in Subjects :
          changeOther(i, [order |-> subject.order, payment |-> subject.payment,
                          status |-> other[i].status])
    BY <1>2 DEF persistContext
  <2>2. other[i].status = t
    BY <1>1
  <2>3. [order |-> subject.order, payment |-> subject.payment, status |-> t] \in Issue
    BY DEF Issue
  <2> QED BY <2>1, <2>2, <2>3
<1>3. CASE rebuildCardState(i)
  <2>1. PICK status \in Statuses : changeOther(i, [other[i] EXCEPT !.status = status])
    BY <1>3 DEF rebuildCardState
  <2>2. [other[i] EXCEPT !.status = status]
          = [order |-> s.order, payment |-> s.payment, status |-> status]
    BY <1>1
  <2>3. [order |-> s.order, payment |-> s.payment, status |-> status] \in Issue
    BY DEF Issue
  <2> QED BY <2>1, <2>2, <2>3
<1> QED BY <1>2, <1>3

\* Once the others have been read, what they have had is not forgotten.
LEMMA OtherChanges ==
  ASSUME CInv, NEW i \in Others, NEW row \in Issue, changeOther(i, row)
  PROVE  CInv'
<1> USE DEF CInv
<1>1. /\ other' = [other EXCEPT ![i] = row]
      /\ UNCHANGED <<message, context, customer, pending, read, steady>>
  BY DEF changeOther
<1>2. other \in [Others -> Issue] /\ seen \in [Others -> SUBSET Issue]
      /\ \A k \in Others : other[k] \in seen[k]
  BY DEF TablesInv
<1>3. seen' = [seen EXCEPT ![i] = {row}] \/ seen' = [seen EXCEPT ![i] = @ \cup {row}]
  BY DEF changeOther
<1>4. /\ other' \in [Others -> Issue] /\ seen' \in [Others -> SUBSET Issue]
      /\ \A k \in Others : other'[k] \in seen'[k]
  BY <1>1, <1>2, <1>3
<1>5. TablesInv'
  BY <1>1, <1>4 DEF TablesInv, ContextOf
<1>6. ReadInv' /\ SubjectInv'
  BY <1>1 DEF ReadInv, SubjectInv, ContextOf
<1>7. HistoryInv'
  <2>1. CASE "history" \in pending
    BY <1>1, <2>1 DEF HistoryInv
  <2>2. CASE "history" \notin pending
    <3>1. seen' = [seen EXCEPT ![i] = @ \cup {row}]
      BY <2>2 DEF changeOther, Statements
    <3>2. \A k \in Others : seen[k] \subseteq seen'[k]
      BY <1>2, <3>1
    <3>3. ASSUME read.subject # None
          PROVE  \E r \in [Others -> Issue] :
                   (\A k \in Others : r[k] \in seen'[k]) /\ read.others = RowsOf(r)
      BY <2>2, <3>2, <3>3 DEF HistoryInv
    <3> QED BY <1>1, <2>2, <3>3 DEF HistoryInv, RowsOf
  <2> QED BY <2>1, <2>2
<1> QED BY <1>5, <1>6, <1>7

THEOREM Invariant == Spec => []CInv
<1>1. Init => CInv
  BY DEF Init, CInv, TablesInv, ReadInv, SubjectInv, HistoryInv, NothingRead, Statements
<1>2. CInv /\ [Next]_cardVars => CInv'
  <2> SUFFICES ASSUME CInv, [Next]_cardVars PROVE CInv'
    OBVIOUS
  <2> USE DEF CInv
  <2>1. ASSUME NEW x \in Extractions, ingest(x) PROVE CInv'
    <3>1. TablesInv'
      BY <2>1 DEF ingest, TablesInv, ContextOf
    <3>2. ReadInv'
      BY <2>1 DEF ingest, ReadInv, ContextOf
    <3>3. SubjectInv'
      BY <2>1 DEF ingest, SubjectInv, ReadInv, Statements
    <3>4. HistoryInv'
      BY <2>1 DEF ingest, HistoryInv, RowsOf
    <3> QED BY <3>1, <3>2, <3>3, <3>4
  <2>2. CASE erase
    <3>1. TablesInv'
      BY <2>2 DEF erase, requestVars, TablesInv, ContextOf
    <3>2. ReadInv' /\ SubjectInv' /\ HistoryInv'
      BY <2>2 DEF erase, requestVars, ReadInv, SubjectInv, HistoryInv, ContextOf, RowsOf
    <3> QED BY <3>1, <3>2
  <2>3. ASSUME NEW i \in Others, persistContext(i) \/ rebuildCardState(i) PROVE CInv'
    <3>1. PICK row \in Issue : changeOther(i, row)
      BY <2>3, OtherRows DEF TablesInv
    <3> QED BY <3>1, OtherChanges
  <2>4. CASE readContext
    <3>1. /\ read'.context = context /\ read'.message = read.message
          /\ read'.subject = read.subject /\ read'.others = read.others
          /\ read'.truncated = read.truncated /\ DOMAIN read' = DOMAIN read
      BY <2>4 DEF readContext, ReadInv
    <3>2. /\ pending' \subseteq pending
          /\ "subject" \in pending' <=> "subject" \in pending
          /\ "history" \in pending' <=> "history" \in pending
      BY <2>4 DEF readContext, Ran
    <3>3. UNCHANGED <<message, context, customer, other, seen, steady>>
      BY <2>4 DEF readContext
    <3>4. TablesInv' /\ SubjectInv' /\ HistoryInv'
      BY <3>1, <3>2, <3>3 DEF TablesInv, SubjectInv, HistoryInv, ContextOf, RowsOf
    <3>5. ReadInv'
      BY <3>1, <3>2, <3>3 DEF ReadInv, TablesInv, ContextOf
    <3> QED BY <3>4, <3>5
  <2>5. CASE readMessages
    <3>1. /\ read'.context = read.context /\ read'.message = message
          /\ read'.subject = read.subject /\ read'.others = read.others
          /\ read'.truncated = read.truncated /\ DOMAIN read' = DOMAIN read
      BY <2>5 DEF readMessages, ReadInv
    <3>2. /\ pending' \subseteq pending
          /\ "subject" \in pending' <=> "subject" \in pending
          /\ "history" \in pending' <=> "history" \in pending
      BY <2>5 DEF readMessages, Ran
    <3>3. UNCHANGED <<message, context, customer, other, seen, steady>>
      BY <2>5 DEF readMessages
    <3>4. TablesInv' /\ SubjectInv' /\ HistoryInv'
      BY <3>1, <3>2, <3>3 DEF TablesInv, SubjectInv, HistoryInv, ContextOf, RowsOf
    <3>5. ReadInv'
      BY <3>1, <3>2, <3>3 DEF ReadInv, TablesInv, ContextOf
    <3> QED BY <3>4, <3>5
  <2>6. CASE currentSubject
    <3> DEFINE named == IF context = None THEN [order |-> None, payment |-> None]
                        ELSE [order |-> context.order, payment |-> context.payment]
    <3>1. /\ read'.context = read.context /\ read'.message = read.message
          /\ read'.subject = (IF ~customer THEN None ELSE named)
          /\ read'.others = read.others
          /\ read'.truncated = read.truncated /\ DOMAIN read' = DOMAIN read
      BY <2>6 DEF currentSubject, ReadInv
    <3>2. /\ pending' \subseteq pending /\ "subject" \in pending /\ "subject" \notin pending'
          /\ "history" \in pending' /\ "history" \in pending
      BY <2>6 DEF currentSubject, Ran, ReadInv
    <3>3. UNCHANGED <<message, context, customer, other, seen, steady>>
      BY <2>6 DEF currentSubject
    <3>4. named \in Subject
      <4>1. CASE context = None
        BY <4>1 DEF Subject, Reference
      <4>2. CASE context # None
        <5>1. PICK x \in Extractions : context = ContextOf(x)
          BY <4>2 DEF TablesInv
        <5>2. context.order \in Reference /\ context.payment \in Reference
          BY <5>1, ExtractionFields DEF ContextOf
        <5> QED BY <4>2, <5>2 DEF Subject
      <4> QED BY <4>1, <4>2
    <3>5. TablesInv' /\ HistoryInv'
      BY <3>1, <3>2, <3>3 DEF TablesInv, HistoryInv, ContextOf
    <3>6. SubjectInv'
      BY <3>1, <3>2, <3>3, <3>4 DEF SubjectInv
    <3>7. ReadInv'
      BY <3>1, <3>2, <3>3 DEF ReadInv, ContextOf
    <3> QED BY <3>5, <3>6, <3>7
  <2>7. CASE assembleCustomerHistory
    <3>1. /\ "subject" \notin pending /\ "history" \in pending /\ "history" \notin pending'
          /\ "subject" \notin pending' /\ pending' \subseteq pending
      BY <2>7 DEF assembleCustomerHistory, Ran
    <3>2. UNCHANGED <<message, context, customer, other, seen, steady>>
      BY <2>7 DEF assembleCustomerHistory
    <3>3. CASE read.subject = None
      <4>1. read' = read
        BY <2>7, <3>3 DEF assembleCustomerHistory
      <4> QED BY <3>1, <3>2, <3>3, <4>1
              DEF TablesInv, ReadInv, SubjectInv, HistoryInv, ContextOf
    <3>4. CASE read.subject # None
      <4>1. /\ read'.context = read.context /\ read'.message = read.message
            /\ read'.subject = read.subject /\ read'.others = RowsOf(other)
            /\ read'.truncated = (newest(HISTORY_LIMIT + 1) # newest(HISTORY_LIMIT))
            /\ DOMAIN read' = DOMAIN read
        BY <2>7, <3>4 DEF assembleCustomerHistory, ReadInv, RowsOf
      <4>2. TablesInv' /\ ReadInv' /\ SubjectInv'
        BY <3>1, <3>2, <4>1 DEF TablesInv, ReadInv, SubjectInv, ContextOf
      <4>3. other \in [Others -> Issue] /\ \A i \in Others : other[i] \in seen[i]
        BY DEF TablesInv
      <4>4. HistoryInv'
        BY <3>1, <3>2, <3>4, <4>1, <4>3 DEF HistoryInv, RowsOf
      <4> QED BY <4>2, <4>4
    <3> QED BY <3>3, <3>4
  <2>8. CASE UNCHANGED cardVars
    BY <2>8 DEF cardVars, requestVars, TablesInv, ReadInv, SubjectInv, HistoryInv, ContextOf, RowsOf
  <2> QED BY <2>1, <2>2, <2>3, <2>4, <2>5, <2>6, <2>7, <2>8 DEF Next
<1> QED BY <1>1, <1>2, PTL DEF Spec

-----------------------------------------------------------------------------
(***************************************************************************)
(* What is rendered: the marks fit the text that they are shown on.        *)
(***************************************************************************)
LEMMA KeptFrom ==
  ASSUME NEW T, NEW s \in Seq(T), NEW kept \in SUBSET DOMAIN s
  PROVE  /\ keepAt(s, kept) \in Seq(T)
         /\ \A r \in DOMAIN keepAt(s, kept) : \E i \in kept : keepAt(s, kept)[r] = s[i]
<1> DEFINE t == keepAt(s, kept)
<1>1. t \in Seq(T)
  BY KeepAt
<1>2. PICK p : Selects(t, s, kept, p)
  BY KeepAt
<1> HIDE DEF t
<1>3. \A r \in DOMAIN t : p[r] \in kept /\ t[r] = s[p[r]]
  BY <1>2 DEF Selects, Picks
<1> QED BY <1>1, <1>3 DEF t

\* The marks are spans of an extraction that fit the text, which is one's.
LEMMA MarksFit ==
  ASSUME CInv, Rendered
  PROVE  /\ read.message.body \in Seq(Characters)
         /\ marks \in Seq(Annotation)
         /\ \A i \in DOMAIN marks :
              /\ marks[i].start < marks[i].end
              /\ marks[i].end <= Len(read.message.body)
              /\ slice(read.message.body, marks[i].start, marks[i].end) = marks[i].excerpt
<1> DEFINE body == read.message.body
           found == read.context.annotations
           s1 == usable(found)
           s2 == filter(s1, LAMBDA a : fits(a, body))
           s3 == apiSpans
           s4 == normalizedSpans
<1>1. PICK x \in Extractions : read.context = ContextOf(x)
  BY DEF CInv, ReadInv, Rendered, hasThread
<1>2. PICK y \in Extractions : read.message \in {[body |-> y.text], [body |-> None]}
  BY DEF CInv, ReadInv, Rendered, hasThread
<1>3. body \in Seq(Characters) /\ body # None /\ Len(body) \in Nat
  BY <1>2, ExtractionFields DEF Rendered
<1>4. found = x.annotations /\ found \in Seq(Annotation)
  BY <1>1, ExtractionFields DEF ContextOf
<1> HIDE DEF body, found
<1> DEFINE k1 == {i \in DOMAIN found : found[i].end > found[i].start}
<1>5. s1 = keepAt(found, k1)
  BY Zenon DEF usable, filter
<1>6. /\ s1 \in Seq(Annotation)
      /\ \A r \in DOMAIN s1 : s1[r].end > s1[r].start /\ \E i \in DOMAIN found : s1[r] = found[i]
  <2> HIDE DEF s1
  <2>1. k1 \in SUBSET DOMAIN found
    OBVIOUS
  <2>2. /\ s1 \in Seq(Annotation)
        /\ \A r \in DOMAIN s1 : \E i \in k1 : s1[r] = found[i]
    <3> HIDE DEF k1
    <3> QED BY <1>4, <1>5, <2>1, KeptFrom
  <2> QED BY <2>2
<1> HIDE DEF s1, k1
<1> DEFINE k2 == {i \in DOMAIN s1 : fits(s1[i], body)}
<1>7. s2 = keepAt(s1, k2)
  BY Zenon DEF filter
<1>8. /\ s2 \in Seq(Annotation)
      /\ \A r \in DOMAIN s2 : fits(s2[r], body) /\ \E i \in DOMAIN s1 : s2[r] = s1[i]
  <2> HIDE DEF s2
  <2>1. k2 \in SUBSET DOMAIN s1
    OBVIOUS
  <2>2. /\ s2 \in Seq(Annotation)
        /\ \A r \in DOMAIN s2 : \E i \in k2 : s2[r] = s1[i]
    <3> HIDE DEF k2
    <3> QED BY <1>6, <1>7, <2>1, KeptFrom
  <2> QED BY <2>2
<1>9. s3 = stableSort(s2, LAMBDA a, b : a.start < b.start)
  BY <1>3, Zenon DEF apiSpans, validateSpans, body, found, s1
<1> HIDE DEF s2, k2
<1>10. s3 \in Seq(Annotation) /\ \A r \in DOMAIN s3 : \E i \in DOMAIN s2 : s3[r] = s2[i]
  <2>1. PICK t, p :
          /\ t \in Seq(Annotation)
          /\ t = stableSort(s2, LAMBDA a, b : a.start < b.start) /\ Picks(t, s2, p)
    BY <1>8, ByStart
  <2> QED BY <1>9, <2>1 DEF Picks
<1> HIDE DEF s3
<1> DEFINE k4 == {i \in DOMAIN s3 : read.message.body # None /\ fits(s3[i], read.message.body)}
<1>11. s4 = keepAt(s3, k4)
  BY Zenon DEF normalizedSpans, filter, s3
<1>12. s4 \in Seq(Annotation) /\ \A r \in DOMAIN s4 : \E i \in DOMAIN s3 : s4[r] = s3[i]
  <2> HIDE DEF s4
  <2>1. k4 \in SUBSET DOMAIN s3
    OBVIOUS
  <2>2. s4 \in Seq(Annotation) /\ \A r \in DOMAIN s4 : \E i \in k4 : s4[r] = s3[i]
    <3> HIDE DEF k4
    <3> QED BY <1>10, <1>11, <2>1, KeptFrom
  <2> QED BY <2>2
<1> HIDE DEF s4, k4
<1> DEFINE k5 == {i \in DOMAIN s4 : s4[i].kind \in ResolvableKind}
<1>13. marks = keepAt(s4, k5)
  BY Zenon DEF marks, filter, s4
<1>14. marks \in Seq(Annotation) /\ \A r \in DOMAIN marks : \E i \in DOMAIN s4 : marks[r] = s4[i]
  <2>1. k5 \in SUBSET DOMAIN s4
    OBVIOUS
  <2>2. marks \in Seq(Annotation) /\ \A r \in DOMAIN marks : \E i \in k5 : marks[r] = s4[i]
    <3> HIDE DEF k5
    <3> QED BY <1>12, <1>13, <2>1, KeptFrom
  <2> QED BY <2>2
<1>15. ASSUME NEW r \in DOMAIN marks
       PROVE  /\ marks[r].start < marks[r].end /\ marks[r].end <= Len(body)
              /\ slice(body, marks[r].start, marks[r].end) = marks[r].excerpt
  <2> DEFINE a == marks[r]
  <2>1. \E i \in DOMAIN s2 : a = s2[i]
    BY <1>10, <1>12, <1>14
  <2>2. fits(a, body) /\ \E i \in DOMAIN s1 : a = s1[i]
    BY <1>8, <2>1
  <2>3. a.end > a.start /\ \E i \in DOMAIN found : a = found[i]
    BY <1>6, <2>2
  <2>4. a \in Annotation
    BY <1>14
  <2> HIDE DEF a
  <2>5. a.end <= Len(x.text) /\ a.excerpt = slice(x.text, a.start, a.end)
        /\ x.text \in Seq(Characters) /\ Len(x.text) \in Nat
    BY <1>4, <2>3, ExtractionFields
  <2>6. a.start \in Nat /\ a.end \in Nat
    BY <2>4 DEF Annotation
  <2>7. Len(slice(x.text, a.start, a.end)) = a.end - a.start
    BY <2>3, <2>5, <2>6, Slices
  <2>8. slice(body, a.start, a.end) = a.excerpt
    BY <2>2 DEF fits
  <2>9. Len(body) < a.end => Len(slice(body, a.start, a.end)) < a.end - a.start
    BY <1>3, <2>3, <2>6, Slices
  <2>10. a.end <= Len(body)
    BY <1>3, <2>5, <2>6, <2>7, <2>8, <2>9
  <2> QED BY <2>3, <2>8, <2>10 DEF a
<1> QED BY <1>3, <1>14, <1>15 DEF body

\* Whatever is ingested or erased between the statements of a request, the segments
\* put together are the message, and every mark stands on the words it was made from.
THEOREM MarksStandOnTheirWords == Spec => []MarksAreTrue
<1>1. CInv => MarksAreTrue
  <2> SUFFICES ASSUME CInv, Rendered
               PROVE  /\ FlattenSeq(Texts(segments)) = read.message.body
                      /\ \A i \in DOMAIN segments :
                           segments[i].marked => segments[i].text = segments[i].span.excerpt
    BY DEF MarksAreTrue, Texts
  <2>1. /\ read.message.body \in Seq(Characters) /\ marks \in Seq(Annotation)
        /\ \A i \in DOMAIN marks :
             /\ marks[i].end <= Len(read.message.body)
             /\ slice(read.message.body, marks[i].start, marks[i].end) = marks[i].excerpt
    BY MarksFit
  <2>2. /\ FlattenSeq(Texts(segments)) = read.message.body
        /\ \A i \in DOMAIN segments : segments[i].marked =>
             \E j \in DOMAIN marks :
               /\ segments[i].span = marks[j]
               /\ segments[i].text = slice(read.message.body, marks[j].start, marks[j].end)
    BY <2>1, ToSegments DEF segments
  <2> QED BY <2>1, <2>2
<1> QED BY <1>1, Invariant, PTL

\* A mark that fits the text is shown, or gives way to an overlapping one of at
\* least its priority that is.
THEOREM StrongestShown == Spec => []StrongestReadingShown
<1>1. CInv => StrongestReadingShown
  <2> SUFFICES ASSUME CInv, Rendered, NEW i \in DOMAIN marks
               PROVE  \E j \in DOMAIN segments :
                        /\ segments[j].marked
                        /\ \/ segments[j].span = marks[i]
                           \/ /\ overlaps(segments[j].span, marks[i])
                              /\ priority(segments[j].span) >= priority(marks[i])
    BY DEF StrongestReadingShown
  <2>1. /\ read.message.body \in Seq(Characters) /\ marks \in Seq(Annotation)
        /\ \A k \in DOMAIN marks : /\ marks[k].start < marks[k].end
                                   /\ marks[k].end <= Len(read.message.body)
    BY MarksFit
  <2> QED BY <2>1, ToSegments DEF segments
<1> QED BY <1>1, Invariant, PTL

-----------------------------------------------------------------------------
(***************************************************************************)
(* The customer's other issues: the newest are no more than the limit, and *)
(* asking for one more tells whether there is one.                         *)
(***************************************************************************)
After(i) == {j \in Others : j > i}

LEMMA AfterFinite ==
  \A i : IsFiniteSet(After(i)) /\ Cardinality(After(i)) \in Nat
<1> SUFFICES ASSUME NEW i PROVE IsFiniteSet(After(i)) /\ Cardinality(After(i)) \in Nat
  OBVIOUS
<1>1. After(i) \subseteq Others /\ IsFiniteSet(Others)
  BY CardAssumption DEF After
<1> QED BY <1>1, FS_Subset, FS_CardinalityType

LEMMA AfterShrinks ==
  ASSUME NEW k \in Others, NEW j \in After(k)
  PROVE  Cardinality(After(j)) < Cardinality(After(k))
<1>1. j \in Others /\ j > k /\ k \in Nat /\ j \in Nat
  BY CardAssumption DEF After
<1>2. After(j) \subseteq After(k) \ {j}
  <2> SUFFICES ASSUME NEW y \in After(j) PROVE y \in After(k) /\ y # j
    OBVIOUS
  <2>1. y \in Others /\ y > j /\ y \in Nat
    BY CardAssumption DEF After
  <2>2. y > k /\ y # j
    BY <1>1, <2>1
  <2> QED BY <2>1, <2>2 DEF After
<1>3. IsFiniteSet(After(k) \ {j}) /\ Cardinality(After(k) \ {j}) = Cardinality(After(k)) - 1
  BY AfterFinite, FS_RemoveElement
<1>4. Cardinality(After(j)) <= Cardinality(After(k)) - 1
  BY <1>2, <1>3, FS_Subset
<1> QED BY <1>4, AfterFinite

\* Of some issues one is the newest.
LEMMA NewestOf ==
  ASSUME NEW S \in SUBSET Others, S # {}
  PROVE  \E k \in S : \A j \in S : j <= k
<1> DEFINE C == {Cardinality(After(j)) : j \in S}
<1>1. C \in SUBSET Nat /\ C # {}
  BY AfterFinite
<1>2. PICK c \in C : \A d \in C : c <= d
  <2> HIDE DEF C
  <2> QED BY <1>1, Least
<1>3. PICK k \in S : c = Cardinality(After(k))
  BY <1>2
<1>4. ASSUME NEW j \in S, j > k PROVE FALSE
  <2>1. j \in After(k)
    BY <1>4 DEF After
  <2>2. Cardinality(After(j)) < Cardinality(After(k))
    BY <2>1, AfterShrinks
  <2>3. Cardinality(After(k)) <= Cardinality(After(j))
    BY <1>2, <1>3
  <2> QED BY <2>2, <2>3, AfterFinite
<1>5. S \subseteq Nat
  BY CardAssumption
<1> QED BY <1>4, <1>5

LEMMA NewestIs ==
  \A n : newest(n) = {i \in Others : Cardinality(After(i)) < n}
BY DEF newest, After

LEMMA NewestBound ==
  ASSUME NEW n \in Nat
  PROVE  /\ newest(n) \in SUBSET Others /\ IsFiniteSet(newest(n))
         /\ Cardinality(newest(n)) \in Nat /\ Cardinality(newest(n)) <= n
<1> DEFINE N == newest(n)
<1>1. N \in SUBSET Others /\ N \in SUBSET Nat /\ IsFiniteSet(Others)
      /\ \A i \in N : Cardinality(After(i)) < n
  BY NewestIs, CardAssumption
<1> HIDE DEF N
<1>2. IsFiniteSet(N) /\ Cardinality(N) \in Nat
  BY <1>1, FS_Subset, FS_CardinalityType
<1>3. CASE N = {}
  BY <1>1, <1>2, <1>3, FS_EmptySet DEF N
<1>4. CASE N # {}
  <2>1. PICK m \in N : \A i \in N : m <= i
    BY <1>1, <1>4, Least
  <2>2. N \ {m} \subseteq After(m)
    BY <1>1, <2>1 DEF After
  <2>3. Cardinality(N \ {m}) = Cardinality(N) - 1
    BY <1>2, <2>1, FS_RemoveElement
  <2>4. Cardinality(N \ {m}) <= Cardinality(After(m))
    BY <2>2, AfterFinite, FS_Subset
  <2>5. Cardinality(After(m)) < n /\ Cardinality(After(m)) \in Nat
    BY <1>1, <2>1, AfterFinite
  <2> QED BY <1>1, <1>2, <2>3, <2>4, <2>5 DEF N
<1> QED BY <1>3, <1>4

LEMMA OneMoreTells ==
  ASSUME NEW n \in Nat, NEW i \in Others, i \notin newest(n)
  PROVE  newest(n + 1) # newest(n) /\ Cardinality(After(i)) >= n
<1> DEFINE count(j) == Cardinality(After(j))
           C == {count(j) : j \in Others \ newest(n)}
<1>1. C \in SUBSET Nat /\ C # {}
  BY AfterFinite
<1>2. PICK c \in C : \A d \in C : c <= d
  <2> HIDE DEF C
  <2> QED BY <1>1, Least
<1>3. PICK k \in Others \ newest(n) : c = count(k)
  BY <1>2
<1>4. \A j \in Others : count(j) \in Nat
  BY AfterFinite
<1>5. ASSUME NEW j \in After(k) PROVE j \in newest(n)
  <2> SUFFICES ASSUME j \notin newest(n) PROVE FALSE
    OBVIOUS
  <2>1. j \in Others
    BY DEF After
  <2>2. count(j) < count(k)
    BY <1>3, AfterShrinks
  <2>3. count(k) <= count(j)
    BY <1>2, <1>3, <2>1
  <2> QED BY <1>3, <1>4, <2>1, <2>2, <2>3
<1>6. count(k) <= n
  <2>1. After(k) \subseteq newest(n)
    BY <1>5
  <2>2. count(k) <= Cardinality(newest(n))
    BY <2>1, NewestBound, FS_Subset
  <2> QED BY <1>3, <1>4, <2>2, NewestBound
<1>7. k \in newest(n + 1)
  BY <1>3, <1>4, <1>6, NewestIs
<1>8. count(i) >= n
  BY <1>4, NewestIs
<1> QED BY <1>3, <1>7, <1>8

\* Unless the ticket is ingested anew while its card is read, every refund about the
\* same order or charge that is there all the time is listed and announced, or the
\* answer says that it looks no further back; and none is listed that was not one at
\* any time since it was asked.
THEOREM RefundsAreNamed == Spec => []RefundsAreNoticed
<1>1. CInv => RefundsAreNoticed
  <2> SUFFICES ASSUME CInv, Answered, steady, customer, context # None
               PROVE  RefundsAreNoticed
    BY DEF RefundsAreNoticed
  <2> DEFINE subject == [order |-> context.order, payment |-> context.payment]
             Refund(row) ==
               /\ \/ row.order = context.order /\ context.order # None
                  \/ row.payment = context.payment /\ context.payment # None
               /\ row.status = "succeeded"
  <2>1. pending = {} /\ read.subject = subject /\ read.subject \in Subject
    BY DEF Answered, CInv, SubjectInv
  <2>2. read.subject # None
    BY <2>1, CardAssumption
  <2>3. PICK row \in [Others -> Issue] :
          (\A i \in Others : row[i] \in seen[i]) /\ read.others = RowsOf(row)
    BY <2>1, <2>2 DEF CInv, HistoryInv
  <2>4. read.truncated = (newest(HISTORY_LIMIT + 1) # newest(HISTORY_LIMIT))
    BY <2>1, <2>2 DEF CInv, HistoryInv
  <2>5. HISTORY_LIMIT \in Nat
    BY CardAssumption
  <2>6. \A r : isSameSubject(read.subject, r) /\ wasRefunded(r) <=> Refund(r)
    BY <2>1 DEF isSameSubject, wasRefunded
  <2>7. refundedSameSubject = {i \in newest(HISTORY_LIMIT) : Refund(row[i])}
    <3> HIDE DEF Refund
    <3>1. sameSubject = {x \in RowsOf(row) : isSameSubject(read.subject, x[2])}
      BY <2>3 DEF sameSubject
    <3>2. refundedSameSubject = {x[1] : x \in {y \in sameSubject : wasRefunded(y[2])}}
      BY DEF refundedSameSubject
    <3>3. ASSUME NEW i \in refundedSameSubject
          PROVE  i \in newest(HISTORY_LIMIT) /\ Refund(row[i])
      <4>1. PICK x \in sameSubject : wasRefunded(x[2]) /\ i = x[1]
        BY <3>2
      <4>2. PICK k \in newest(HISTORY_LIMIT) : x = <<k, row[k]>>
        BY <3>1 DEF RowsOf
      <4>3. k = i /\ x[2] = row[i] /\ isSameSubject(read.subject, x[2])
        BY <3>1, <4>1, <4>2
      <4> QED BY <2>6, <4>1, <4>2, <4>3
    <3>4. ASSUME NEW i \in newest(HISTORY_LIMIT), Refund(row[i])
          PROVE  i \in refundedSameSubject
      <4> DEFINE x == <<i, row[i]>>
      <4>1. x \in RowsOf(row) /\ x[1] = i /\ x[2] = row[i]
        BY DEF RowsOf
      <4>2. x \in sameSubject /\ wasRefunded(x[2])
        BY <2>6, <3>1, <3>4, <4>1
      <4> QED BY <3>2, <4>1, <4>2
    <3> QED BY <3>3, <3>4
  <2> HIDE DEF Refund
  <2>8. refundedSameSubject \in SUBSET Others
    BY <2>5, <2>7, NewestBound
  <2>9. ASSUME NEW i \in refundedSameSubject PROVE \E r \in seen[i] : Refund(r)
    BY <2>3, <2>7, <2>8
  <2>10. ASSUME NEW i \in Others, \A r \in seen[i] : Refund(r)
         PROVE  \/ /\ i \in refundedSameSubject
                   /\ \E j \in priorRefundSameSubject : j >= i
                \/ read.truncated /\ Cardinality({j \in Others : j > i}) >= HISTORY_LIMIT
    <3>1. CASE i \in newest(HISTORY_LIMIT)
      <4>1. i \in refundedSameSubject
        BY <2>3, <2>7, <2>10, <3>1
      <4>2. PICK j \in refundedSameSubject : \A k \in refundedSameSubject : k <= j
        BY <2>8, <4>1, NewestOf
      <4>3. j \in priorRefundSameSubject /\ i <= j
        BY <4>1, <4>2 DEF priorRefundSameSubject
      <4>4. i \in Nat /\ j \in Nat
        BY <2>8, CardAssumption
      <4> QED BY <4>1, <4>3, <4>4
    <3>2. CASE i \notin newest(HISTORY_LIMIT)
      BY <2>4, <2>5, <3>2, OneMoreTells DEF After
    <3> QED BY <3>1, <3>2
  <2> QED BY <2>9, <2>10 DEF RefundsAreNoticed, Refund
<1> QED BY <1>1, Invariant, PTL

\* Every variable keeps its type, and no more rows are read than the limit.
THEOREM TypeCorrect == Spec => []TypeOK
<1>1. CInv => TypeOK
  <2> SUFFICES ASSUME CInv PROVE TypeOK
    OBVIOUS
  <2>1. message = None \/ message.body \in {x.text : x \in Extractions} \cup {None}
    BY DEF CInv, TablesInv
  <2>2. HISTORY_LIMIT \in Nat
    BY CardAssumption
  <2>3. read.others \subseteq Others \X Issue /\ Cardinality(read.others) <= HISTORY_LIMIT
    <3>1. CASE "history" \in pending \/ read.subject = None
      BY <2>2, <3>1, FS_EmptySet DEF CInv, HistoryInv
    <3>2. CASE "history" \notin pending /\ read.subject # None
      <4>1. PICK row \in [Others -> Issue] : read.others = RowsOf(row)
        BY <3>2 DEF CInv, HistoryInv
      <4> DEFINE N == newest(HISTORY_LIMIT)
                 f == [i \in N |-> <<i, row[i]>>]
      <4>2. /\ N \in SUBSET Others /\ IsFiniteSet(N)
            /\ Cardinality(N) \in Nat /\ Cardinality(N) <= HISTORY_LIMIT
        BY <2>2, NewestBound
      <4> HIDE DEF N
      <4>3. RowsOf(row) = {f[i] : i \in N} /\ f \in Surjection(N, RowsOf(row))
        BY DEF RowsOf, Surjection, N
      <4>4. /\ IsFiniteSet(RowsOf(row)) /\ Cardinality(RowsOf(row)) <= Cardinality(N)
        BY <4>2, <4>3, FS_Surjection
      <4>5. Cardinality(RowsOf(row)) \in Nat
        BY <4>4, FS_CardinalityType
      <4>6. RowsOf(row) \subseteq Others \X Issue
        BY <4>1, <4>2 DEF RowsOf, N
      <4> QED BY <2>2, <4>1, <4>2, <4>4, <4>5, <4>6
    <3> QED BY <3>1, <3>2
  <2> QED BY <2>1, <2>3 DEF CInv, TablesInv, ReadInv, TypeOK
<1> QED BY <1>1, Invariant, PTL
=============================================================================
