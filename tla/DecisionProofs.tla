--------------------------- MODULE DecisionProofs ---------------------------
(***************************************************************************)
(* Proofs about the causal filter and the trigger's decision, for every    *)
(* window of hits, every file of distances and every configuration.        *)
(***************************************************************************)
EXTENDS TriggerDecision, FiniteSetTheorems, SequenceTheorems, WellFoundedInduction, TLAPS

-----------------------------------------------------------------------------
(***************************************************************************)
(* Numbers, recursion and folds                                            *)
(***************************************************************************)
LEMMA LeastNumber ==
  ASSUME NEW S \in SUBSET Nat, S # {}
  PROVE  \E m \in S : \A n \in S : m <= n
<1>1. IsWellFoundedOn(OpToRel(<, Nat), Nat)
  BY NatLessThanWellFounded
<1>2. PICK m \in S : \A n \in S : ~(<<n, m>> \in OpToRel(<, Nat))
  BY <1>1, WFMin
<1>3. \A n \in S : ~(n < m)
  BY <1>2 DEF OpToRel
<1> QED
  BY <1>3

\* Induction, for the members of a set.
LEMMA UpTo ==
  ASSUME NEW n \in Nat, NEW S, 0 \in S, \A k \in 0..(n - 1) : k \in S => k + 1 \in S
  PROVE  \A k \in 0..n : k \in S
<1> SUFFICES ASSUME NEW k0 \in 0..n, k0 \notin S
             PROVE  FALSE
  OBVIOUS
<1> DEFINE Out == {k \in 0..n : k \notin S}
<1>1. Out \in SUBSET Nat /\ Out # {}
  OBVIOUS
<1>2. PICK k \in Out : \A j \in Out : k <= j
  BY <1>1, LeastNumber
<1>3. k # 0 /\ k \in 0..n /\ k \notin S
  BY <1>2
<1>4. k - 1 \in 0..(n - 1) /\ k - 1 \in 0..n /\ (k - 1) + 1 = k
  BY <1>3
<1>5. k - 1 \in S
  <2>1. k - 1 \notin Out
    BY <1>2, <1>3, <1>4
  <2> QED
    BY <1>4, <2>1
<1> QED
  BY <1>3, <1>4, <1>5

\* What refers to itself at smaller measures only has a solution.
Descends(L, T, t, D, m) ==
  /\ t \in T /\ D \in [[L -> T] \X L -> T] /\ m \in [L -> Nat]
  /\ \A g, h \in [L -> T] : \A l \in L :
       (\A k \in L : m[k] < m[l] => g[k] = h[k]) => D[<<g, l>>] = D[<<h, l>>]
Solves(f, L, T, D) == f \in [L -> T] /\ \A l \in L : f[l] = D[<<f, l>>]

LEMMA Recursion ==
  ASSUME NEW L, NEW T, NEW t, NEW D, NEW m, Descends(L, T, t, D, m)
  PROVE  \E f : Solves(f, L, T, D)
<1> DEFINE A(n) == {g \in [L -> T] : \A l \in L : m[l] < n => g[l] = D[<<g, l>>]}
<1>t. t \in T /\ m \in [L -> Nat]
  BY DEF Descends
<1>0. /\ \A l \in L : m[l] \in Nat
      /\ \A n : \A g \in A(n) : /\ g \in [L -> T]
                               /\ \A l \in L : m[l] < n => g[l] = D[<<g, l>>]
  BY <1>t
<1>a. \A n : \A g \in [L -> T] : (\A l \in L : m[l] < n => g[l] = D[<<g, l>>]) => g \in A(n)
  OBVIOUS
<1> HIDE DEF A
<1>c. ASSUME NEW k \in Nat, NEW n \in Nat, k <= n, NEW g \in A(n)
      PROVE  g \in A(k)
  <2>1. \A l \in L : m[l] < k => m[l] < n
    BY <1>0, <1>c
  <2>2. g \in [L -> T] /\ \A l \in L : m[l] < k => g[l] = D[<<g, l>>]
    BY <1>0, <2>1
  <2> QED
    BY <1>a, <2>2
<1>d. \A g, h \in [L -> T] : \A l \in L :
        (\A k \in L : m[k] < m[l] => g[k] = h[k]) => D[<<g, l>>] = D[<<h, l>>]
  BY DEF Descends
<1>e. \A g \in [L -> T] : \A l \in L : D[<<g, l>>] \in T
  BY DEF Descends
<1>1. ASSUME NEW n \in Nat, NEW g \in A(n), NEW h \in A(n), NEW l \in L, m[l] < n
      PROVE  g[l] = h[l]
  <2> SUFFICES ASSUME g[l] # h[l]
               PROVE  FALSE
    OBVIOUS
  <2> DEFINE S == {c \in Nat : \E j \in L : m[j] = c /\ c < n /\ g[j] # h[j]}
  <2>0. m[l] \in S
    BY <1>0, <1>1
  <2>1. S \in SUBSET Nat /\ S # {}
    BY <1>0, <2>0
  <2>2. PICK a \in S : \A b \in S : a <= b
    BY <2>1, LeastNumber
  <2>3. PICK k \in L : m[k] = a /\ m[k] < n /\ g[k] # h[k]
    BY <2>2
  <2>4. \A j \in L : m[j] < m[k] => g[j] = h[j]
    <3> SUFFICES ASSUME NEW j \in L, m[j] < m[k], g[j] # h[j]
                 PROVE  FALSE
      OBVIOUS
    <3>1. m[j] \in Nat /\ m[k] \in Nat
      BY <1>0
    <3>a. m[j] < n
      BY <1>1, <2>3, <3>1
    <3>2. m[j] \in S
      BY <3>1, <3>a
    <3> HIDE DEF S
    <3> QED
      BY <2>2, <2>3, <3>1, <3>2
  <2>5. D[<<g, k>>] = D[<<h, k>>]
    BY <1>0, <1>d, <2>4
  <2> QED
    BY <1>0, <2>3, <2>5
<1>2. A(0) # {}
  <2>1. [l \in L |-> t] \in A(0)
    BY <1>t, <1>0, <1>a
  <2> QED
    BY <2>1
<1>3. ASSUME NEW n \in Nat, A(n) # {}
      PROVE  A(n + 1) # {}
  <2>1. PICK g \in A(n) : g \in [L -> T]
    BY <1>0, <1>3
  <2> DEFINE h == [l \in L |-> IF m[l] < n + 1 THEN D[<<g, l>>] ELSE g[l]]
  <2>2. h \in [L -> T]
    BY <1>e, <2>1
  <2>3. \A k \in L : m[k] < n => h[k] = g[k]
    BY <1>0, <2>1
  <2>a. \A l \in L : m[l] < n + 1 => h[l] = D[<<g, l>>]
    OBVIOUS
  <2> HIDE DEF h
  <2>4. ASSUME NEW l \in L, m[l] < n + 1
        PROVE  h[l] = D[<<h, l>>]
    <3>1. \A k \in L : m[k] < m[l] => g[k] = h[k]
      BY <1>0, <2>3, <2>4
    <3>2. D[<<g, l>>] = D[<<h, l>>]
      BY <1>d, <2>1, <2>2, <3>1
    <3> QED
      BY <2>4, <2>a, <3>2
  <2>5. h \in A(n + 1)
    BY <1>a, <2>2, <2>4
  <2> QED
    BY <2>5
<1>4. ASSUME NEW n \in Nat
      PROVE  A(n) # {}
  <2> DEFINE S == {k \in 0..n : A(k) # {}}
  <2>1. 0 \in S
    BY <1>2
  <2>2. \A k \in 0..(n - 1) : k \in S => k + 1 \in S
    BY <1>3
  <2>3. n \in S
    <3> HIDE DEF S
    <3> QED
      BY <2>1, <2>2, UpTo
  <2> QED
    BY <2>3
<1> DEFINE G(n) == CHOOSE g \in A(n) : TRUE
           f == [l \in L |-> G(m[l] + 1)[l]]
<1>5. \A n \in Nat : G(n) \in A(n)
  BY <1>4
<1>b. \A l \in L : f[l] = G(m[l] + 1)[l]
  OBVIOUS
<1> HIDE DEF G
<1>6. f \in [L -> T]
  <2>1. \A l \in L : G(m[l] + 1) \in [L -> T]
    BY <1>0, <1>5
  <2> QED
    BY <2>1
<1> HIDE DEF f
<1>7. ASSUME NEW l \in L
      PROVE  f[l] = D[<<f, l>>]
  <2>1. m[l] \in Nat /\ m[l] + 1 \in Nat /\ m[l] < m[l] + 1
    BY <1>0
  <2>2. G(m[l] + 1) \in [L -> T] /\ G(m[l] + 1)[l] = D[<<G(m[l] + 1), l>>]
    BY <1>0, <1>5, <2>1
  <2>3. ASSUME NEW k \in L, m[k] < m[l]
        PROVE  f[k] = G(m[l] + 1)[k]
    <3>1. m[k] \in Nat /\ m[k] + 1 \in Nat /\ m[k] < m[k] + 1
      BY <1>0
    <3>b. m[k] + 1 <= m[l] + 1
      BY <2>1, <2>3, <3>1
    <3>2. G(m[l] + 1) \in A(m[k] + 1)
      BY <1>c, <1>5, <2>1, <3>1, <3>b
    <3>3. G(m[k] + 1) \in A(m[k] + 1)
      BY <1>5, <3>1
    <3>4. G(m[k] + 1)[k] = G(m[l] + 1)[k]
      BY <1>1, <3>1, <3>2, <3>3
    <3> QED
      BY <1>b, <3>4
  <2>4. f[l] = G(m[l] + 1)[l]
    BY <1>b
  <2>5. D[<<f, l>>] = D[<<G(m[l] + 1), l>>]
    BY <1>d, <1>6, <2>2, <2>3
  <2> QED
    BY <2>2, <2>4, <2>5
<1> QED
  BY <1>6, <1>7 DEF Solves

LEMMA HighestNumber ==
  ASSUME NEW n \in Nat, NEW d \in SUBSET (1..n), d # {}
  PROVE  \E m \in d : \A k \in d : m >= k
<1> DEFINE U == {k \in Nat : \A y \in d : y <= k}
<1>1. U \in SUBSET Nat /\ n \in U
  OBVIOUS
<1>2. PICK x \in U : \A k \in U : x <= k
  BY <1>1, LeastNumber
<1>3. x \in d
  <2> SUFFICES ASSUME x \notin d
               PROVE  FALSE
    OBVIOUS
  <2>1. \A y \in d : y \in Nat /\ y >= 1 /\ y <= x /\ y # x
    BY <1>2
  <2>0. PICK y0 \in d : TRUE
    OBVIOUS
  <2>2. x - 1 \in Nat
    <3>1. x \in Nat /\ x >= 1
      BY <1>2, <2>0, <2>1
    <3> QED
      BY <3>1
  <2>3. \A y \in d : y <= x - 1
    BY <1>2, <2>1
  <2>4. x - 1 \in U
    BY <2>2, <2>3
  <2> QED
    BY <1>2, <2>2, <2>4
<1>4. \A y \in d : x >= y
  BY <1>2
<1> QED
  BY <1>3, <1>4

LEMMA LastIn ==
  ASSUME NEW n \in Nat, NEW d \in SUBSET (1..n), d # {}
  PROVE  Max(d) \in d
BY HighestNumber DEF Max

\* A fold of a sequence goes through its indices from the last one down.
FoldOf(g, T, op, base, s) ==
  /\ g \in [SUBSET DOMAIN s -> T]
  /\ g = [d \in SUBSET DOMAIN s |->
            IF d = {} THEN base ELSE op[<<g[d \ {Max(d)}], s[Max(d)]>>]]

LEMMA FoldSolves ==
  ASSUME NEW E, NEW T, NEW op \in [T \X E -> T], NEW base \in T, NEW s \in Seq(E)
  PROVE  \E g : FoldOf(g, T, op, base, s)
<1> DEFINE L == SUBSET DOMAIN s
           m == [d \in L |-> Cardinality(d)]
           D == [q \in [L -> T] \X L |->
                   IF q[2] = {} THEN base
                   ELSE op[<<q[1][q[2] \ {Max(q[2])}], s[Max(q[2])]>>]]
<1>0. Len(s) \in Nat /\ DOMAIN s = 1..Len(s) /\ \A z \in DOMAIN s : s[z] \in E
  OBVIOUS
<1>f. \A d \in L : IsFiniteSet(d)
  <2>1. IsFiniteSet(1..Len(s))
    BY <1>0, FS_Interval
  <2> QED
    BY <1>0, <2>1, FS_Subset
<1>1. ASSUME NEW d \in L, d # {}
      PROVE  Max(d) \in d /\ d \ {Max(d)} \in L /\ m[d \ {Max(d)}] < m[d]
  <2>2. Max(d) \in d
    BY <1>0, <1>1, LastIn
  <2>3. IsFiniteSet(d)
    BY <1>f
  <2>4. Cardinality(d \ {Max(d)}) = Cardinality(d) - 1 /\ Cardinality(d) \in Nat
    BY <2>2, <2>3, FS_RemoveElement, FS_CardinalityType
  <2> QED
    BY <2>2, <2>4
<1>2. D \in [[L -> T] \X L -> T]
  <2>1. ASSUME NEW g \in [L -> T], NEW d \in L, d # {}
        PROVE  op[<<g[d \ {Max(d)}], s[Max(d)]>>] \in T
    <3>1. g[d \ {Max(d)}] \in T /\ s[Max(d)] \in E
      BY <1>0, <1>1, <2>1
    <3> QED
      BY <3>1
  <2>2. \A q \in [L -> T] \X L : q[1] \in [L -> T] /\ q[2] \in L
    OBVIOUS
  <2> HIDE DEF L
  <2> QED
    BY <2>1, <2>2
<1>3. m \in [L -> Nat]
  <2> QED
    BY <1>f, FS_CardinalityType
<1>d. \A g \in [L -> T] : \A d \in L :
        D[<<g, d>>] = IF d = {} THEN base ELSE op[<<g[d \ {Max(d)}], s[Max(d)]>>]
  <2> HIDE DEF L
  <2> QED
    OBVIOUS
<1> HIDE DEF D
<1>4. Descends(L, T, base, D, m)
  <2> SUFFICES ASSUME NEW g \in [L -> T], NEW h \in [L -> T], NEW d \in L,
                      \A k \in L : m[k] < m[d] => g[k] = h[k]
               PROVE  D[<<g, d>>] = D[<<h, d>>]
    <3> HIDE DEF L, m
    <3> QED
      BY <1>2, <1>3 DEF Descends
  <2>1. d # {} => g[d \ {Max(d)}] = h[d \ {Max(d)}]
    BY <1>1
  <2> HIDE DEF L
  <2> QED
    BY <1>d, <2>1
<1> HIDE DEF L, m
<1>5. PICK f : Solves(f, L, T, D)
  BY <1>4, Recursion
<1>6. f \in [L -> T] /\ \A d \in L : f[d] = D[<<f, d>>]
  BY <1>5 DEF Solves
<1>7. f = [d \in L |-> IF d = {} THEN base ELSE op[<<f[d \ {Max(d)}], s[Max(d)]>>]]
  <2>1. f = [d \in L |-> f[d]]
    BY <1>6
  <2> QED
    BY <1>6, <1>d, <2>1
<1> QED
  BY <1>6, <1>7 DEF L, FoldOf

LEMMA LastOf ==
  ASSUME NEW k \in Nat, k # 0
  PROVE  Max(1..k) = k
<1>1. k \in 1..k /\ \A y \in 1..k : k >= y
  OBVIOUS
<1>2. Max(1..k) \in 1..k
  BY <1>1 DEF Max
<1>3. \A y \in 1..k : Max(1..k) >= y
  BY <1>1 DEF Max
<1> QED
  BY <1>1, <1>2, <1>3

\* A fold over the indices of a sequence, as the sequence of its results.
LEMMA KeepSteps ==
  ASSUME NEW V, NEW s \in Seq(V), NEW S
  PROVE  \E h : /\ h[0] = <<>>
                /\ \A k \in 1..Len(s) :
                     h[k] = IF s[k] \in S THEN Append(h[k - 1], s[k]) ELSE h[k - 1]
                /\ Keep(s, S) = h[Len(s)]
<1> DEFINE L == SUBSET DOMAIN s
           add(q, e) == IF e \in S THEN Append(q, e) ELSE q
           iter[d \in L] == IF d = {} THEN <<>> ELSE add(iter[d \ {Max(d)}], s[Max(d)])
           op == [q \in Seq(V) \X V |-> add(q[1], q[2])]
<1>1. Keep(s, S) = iter[DOMAIN s]
  BY DEF Keep, FoldLeft, MapThenFoldSet
<1>2. iter = CHOOSE g : g = [d \in L |-> IF d = {} THEN <<>> ELSE add(g[d \ {Max(d)}], s[Max(d)])]
  BY DEF iter
<1> HIDE DEF iter
<1>3. op \in [Seq(V) \X V -> Seq(V)] /\ <<>> \in Seq(V)
  <2>1. ASSUME NEW q \in Seq(V), NEW e \in V
        PROVE  add(q, e) \in Seq(V)
    OBVIOUS
  <2> HIDE DEF add
  <2> QED
    BY <2>1
<1>a. PICK g : FoldOf(g, Seq(V), op, <<>>, s)
  <2> HIDE DEF op
  <2> QED
    BY <1>3, FoldSolves
<1>4. /\ g \in [L -> Seq(V)]
      /\ g = [d \in L |-> IF d = {} THEN <<>> ELSE op[<<g[d \ {Max(d)}], s[Max(d)]>>]]
  BY <1>a DEF FoldOf
<1>5. ASSUME NEW d \in L, d # {}
      PROVE  s[Max(d)] \in V /\ g[d \ {Max(d)}] \in Seq(V)
  <2>1. Len(s) \in Nat /\ DOMAIN s = 1..Len(s) /\ \A z \in DOMAIN s : s[z] \in V
    OBVIOUS
  <2>2. Max(d) \in d
    BY <1>5, <2>1, LastIn
  <2>3. d \ {Max(d)} \in L /\ Max(d) \in DOMAIN s
    BY <2>2
  <2> HIDE DEF L
  <2> QED
    BY <1>4, <2>1, <2>3
<1>6. \A d \in L : d # {} => op[<<g[d \ {Max(d)}], s[Max(d)]>>] = add(g[d \ {Max(d)}], s[Max(d)])
  <2> HIDE DEF add, L
  <2> QED
    BY <1>5
<1>7. g = [d \in L |-> IF d = {} THEN <<>> ELSE add(g[d \ {Max(d)}], s[Max(d)])]
  <2> HIDE DEF add, L, op
  <2> QED
    BY <1>4, <1>6
<1>8. iter = [d \in L |-> IF d = {} THEN <<>> ELSE add(iter[d \ {Max(d)}], s[Max(d)])]
  <2> HIDE DEF add, L
  <2> QED
    BY <1>2, <1>7
<1> DEFINE h == [k \in 0..Len(s) |-> iter[1..k]]
<1>9. Len(s) \in Nat /\ DOMAIN s = 1..Len(s)
  OBVIOUS
<1>10. h[0] = <<>>
  <2>1. 1..0 = {} /\ {} \in L
    OBVIOUS
  <2> QED
    BY <1>8, <1>9, <2>1
<1>11. ASSUME NEW k \in 1..Len(s)
       PROVE  h[k] = add(h[k - 1], s[k])
  <2>1. k \in Nat /\ k # 0 /\ 1..k # {} /\ 1..k \in L /\ k - 1 \in 0..Len(s) /\ k \in 0..Len(s)
    BY <1>9
  <2>2. Max(1..k) = k /\ (1..k) \ {k} = 1..(k - 1)
    BY <2>1, LastOf
  <2> HIDE DEF add, L
  <2>3. iter[1..k] = add(iter[1..(k - 1)], s[k])
    BY <1>8, <2>1, <2>2
  <2> QED
    BY <2>1, <2>3
<1>12. h[Len(s)] = iter[DOMAIN s]
  BY <1>9
<1> HIDE DEF h
<1> QED
  BY <1>1, <1>10, <1>11, <1>12

LEMMA ToSetIs ==
  ASSUME NEW V, NEW q \in Seq(V), NEW v \in V
  PROVE  /\ Append(q, v) \in Seq(V) /\ Len(Append(q, v)) = Len(q) + 1
         /\ \A u : u \in ToSet(Append(q, v)) <=> u \in ToSet(q) \/ u = v
<1>1. /\ Append(q, v) \in Seq(V) /\ Len(Append(q, v)) = Len(q) + 1 /\ Len(q) \in Nat
      /\ \A z \in 1..Len(q) : Append(q, v)[z] = q[z]
      /\ Append(q, v)[Len(q) + 1] = v
      /\ DOMAIN q = 1..Len(q) /\ DOMAIN Append(q, v) = 1..(Len(q) + 1)
  OBVIOUS
<1> DEFINE a == Append(q, v)
           n == Len(q)
<1> HIDE DEF a, n
<1>2. ASSUME NEW u, u \in ToSet(a)
      PROVE  u \in ToSet(q) \/ u = v
  <2>1. PICK z \in 1..(n + 1) : u = a[z]
    BY <1>1, <1>2 DEF ToSet, a, n
  <2>2. z \in 1..n \/ z = n + 1
    BY <1>1, <2>1 DEF n
  <2> QED
    BY <1>1, <2>1, <2>2 DEF ToSet, a, n
<1>3. ASSUME NEW u, u \in ToSet(q) \/ u = v
      PROVE  u \in ToSet(a)
  <2>1. n + 1 \in DOMAIN a /\ a[n + 1] = v /\ \A z \in DOMAIN q : z \in DOMAIN a /\ a[z] = q[z]
    BY <1>1 DEF a, n
  <2> QED
    BY <1>3, <2>1 DEF ToSet
<1> QED
  BY <1>1, <1>2, <1>3 DEF a

LEMMA KeepIs ==
  ASSUME NEW V, NEW s \in Seq(V), NEW S
  PROVE  /\ Keep(s, S) \in Seq(V) /\ Len(Keep(s, S)) <= Len(s)
         /\ \A u : u \in ToSet(Keep(s, S)) <=> u \in ToSet(s) /\ u \in S
         /\ (\E u \in ToSet(s) : u \notin S) => Len(Keep(s, S)) < Len(s)
<1>1. PICK h : /\ h[0] = <<>>
               /\ \A k \in 1..Len(s) :
                    h[k] = IF s[k] \in S THEN Append(h[k - 1], s[k]) ELSE h[k - 1]
               /\ Keep(s, S) = h[Len(s)]
  BY KeepSteps
<1> DEFINE n == Len(s)
           Kept(k) ==
             /\ h[k] \in Seq(V) /\ Len(h[k]) <= k
             /\ \A u : u \in ToSet(h[k]) <=> u \in S /\ \E z \in 1..k : s[z] = u
             /\ (\E z \in 1..k : s[z] \notin S) => Len(h[k]) < k
           G == {k \in 0..n : Kept(k)}
<1>2. n \in Nat /\ DOMAIN s = 1..n /\ \A z \in 1..n : s[z] \in V
  OBVIOUS
<1> HIDE DEF n
<1>3. Kept(0)
  <2>1. h[0] \in Seq(V) /\ Len(h[0]) = 0 /\ ToSet(h[0]) = {}
    BY <1>1 DEF ToSet
  <2> QED
    BY <2>1
<1>4. ASSUME NEW k \in 0..(n - 1), Kept(k)
      PROVE  Kept(k + 1)
  <2>1. /\ k + 1 \in 1..n /\ (k + 1) - 1 = k /\ k \in Nat
        /\ \A z : z \in 1..(k + 1) <=> z \in 1..k \/ z = k + 1
    BY <1>2
  <2>2. s[k + 1] \in V
    BY <1>2, <2>1
  <2>3. h[k + 1] = IF s[k + 1] \in S THEN Append(h[k], s[k + 1]) ELSE h[k]
    BY <1>1, <2>1 DEF n
  <2>4. h[k] \in Seq(V) /\ Len(h[k]) \in Nat
    BY <1>4
  <2>5. CASE s[k + 1] \in S
    <3>1. /\ h[k + 1] \in Seq(V) /\ Len(h[k + 1]) = Len(h[k]) + 1
          /\ \A u : u \in ToSet(h[k + 1]) <=> u \in ToSet(h[k]) \/ u = s[k + 1]
      BY <2>2, <2>3, <2>4, <2>5, ToSetIs
    <3>2. \A u : u \in ToSet(h[k + 1]) <=> u \in S /\ \E z \in 1..(k + 1) : s[z] = u
      BY <1>4, <2>1, <2>5, <3>1
    <3>3. (\E z \in 1..(k + 1) : s[z] \notin S) => Len(h[k + 1]) < k + 1
      BY <1>4, <2>1, <2>4, <2>5, <3>1
    <3>4. Len(h[k + 1]) <= k + 1
      BY <1>4, <2>1, <2>4, <3>1
    <3> QED
      BY <3>1, <3>2, <3>3, <3>4
  <2>6. CASE s[k + 1] \notin S
    <3>1. h[k + 1] = h[k]
      BY <2>3, <2>6
    <3>2. \A u : u \in ToSet(h[k + 1]) <=> u \in S /\ \E z \in 1..(k + 1) : s[z] = u
      BY <1>4, <2>1, <2>6, <3>1
    <3>3. Len(h[k + 1]) < k + 1
      BY <1>4, <2>1, <2>4, <3>1
    <3>4. Len(h[k + 1]) <= k + 1
      BY <2>1, <2>4, <3>1, <3>3
    <3> QED
      BY <2>4, <3>1, <3>2, <3>3, <3>4
  <2> QED
    BY <2>5, <2>6
<1>5. Kept(n)
  <2>1. 0 \in G
    BY <1>2, <1>3
  <2> HIDE DEF Kept
  <2>2. \A k \in 0..(n - 1) : k \in G => k + 1 \in G
    BY <1>2, <1>4
  <2>3. n \in G
    <3> HIDE DEF G
    <3> QED
      BY <1>2, <2>1, <2>2, UpTo
  <2> QED
    BY <2>3
<1>6. \A u : u \in ToSet(s) <=> \E z \in 1..n : s[z] = u
  BY <1>2 DEF ToSet
<1> HIDE DEF G
<1>7. Keep(s, S) = h[n] /\ Len(s) = n
  BY <1>1 DEF n
<1> QED
  BY <1>5, <1>6, <1>7

-----------------------------------------------------------------------------
(***************************************************************************)
(* Order                                                                   *)
(***************************************************************************)
StrictOrder(R, S) ==
  /\ \A a \in S : <<a, a>> \notin R
  /\ \A a, b \in S : a # b => <<a, b>> \in R \/ <<b, a>> \in R
  /\ \A a, b, c \in S : <<a, b>> \in R /\ <<b, c>> \in R => <<a, c>> \in R

RankOf(e, R, S) == Cardinality({d \in S : <<d, e>> \in R})

\* s has at place k a member with k - 1 before it, if there is one.
Ranks(s, R, S) ==
  /\ s = [k \in 1..Cardinality(S) |-> s[k]]
  /\ \A k \in 1..Cardinality(S) : \A e \in S :
       RankOf(e, R, S) = k - 1 => s[k] \in S /\ RankOf(s[k], R, S) = k - 1

LEMMA RankGrows ==
  ASSUME NEW S, IsFiniteSet(S), NEW R, StrictOrder(R, S),
         NEW a \in S, NEW b \in S, <<a, b>> \in R
  PROVE  RankOf(a, R, S) < RankOf(b, R, S)
<1> DEFINE A == {d \in S : <<d, a>> \in R}
           B == {d \in S : <<d, b>> \in R}
<1>1. A \subseteq B /\ a \in B /\ a \notin A
  BY DEF StrictOrder
<1>2. IsFiniteSet(A) /\ IsFiniteSet(B) /\ Cardinality(A) \in Nat /\ Cardinality(B) \in Nat
  BY FS_Subset, FS_CardinalityType
<1>3. Cardinality(A) <= Cardinality(B) /\ (Cardinality(A) = Cardinality(B) => A = B)
  BY <1>1, <1>2, FS_Subset
<1> QED
  BY <1>1, <1>2, <1>3 DEF RankOf

LEMMA FunIsSeq ==
  ASSUME NEW S, NEW n \in Nat, NEW s \in [1..n -> S]
  PROVE  s \in Seq(S) /\ Len(s) = n /\ DOMAIN s = 1..n
  OBVIOUS

LEMMA Ranked ==
  ASSUME NEW S, IsFiniteSet(S), NEW R, StrictOrder(R, S), NEW s, Ranks(s, R, S)
  PROVE  /\ s \in Seq(S) /\ Len(s) = Cardinality(S) /\ ToSet(s) = S
         /\ \A j, k \in 1..Len(s) : j < k => <<s[j], s[k]>> \in R
<1> DEFINE n == Cardinality(S)
           rank == [e \in S |-> RankOf(e, R, S)]
<1>1. n \in Nat
  BY FS_CardinalityType
<1>2. ASSUME NEW e \in S
      PROVE  RankOf(e, R, S) \in 0..(n - 1)
  <2> DEFINE A == {d \in S : <<d, e>> \in R}
  <2>1. A \subseteq S /\ e \notin A
    BY DEF StrictOrder
  <2>2. IsFiniteSet(A) /\ Cardinality(A) \in Nat
    BY FS_Subset, FS_CardinalityType
  <2>3. Cardinality(A) <= n /\ (Cardinality(A) = n => A = S)
    BY <2>1, FS_Subset
  <2>4. Cardinality(A) \in 0..(n - 1)
    BY <1>1, <2>1, <2>2, <2>3
  <2> QED
    BY <2>4 DEF RankOf
<1>3. ASSUME NEW a \in S, NEW b \in S, RankOf(a, R, S) = RankOf(b, R, S)
      PROVE  a = b
  <2> SUFFICES ASSUME a # b
               PROVE  FALSE
    OBVIOUS
  <2>1. <<a, b>> \in R \/ <<b, a>> \in R
    BY DEF StrictOrder
  <2>2. RankOf(a, R, S) < RankOf(b, R, S) \/ RankOf(b, R, S) < RankOf(a, R, S)
    BY <2>1, RankGrows
  <2>3. RankOf(a, R, S) \in Int /\ RankOf(b, R, S) \in Int
    BY <1>2
  <2> QED
    BY <1>3, <2>2, <2>3
<1> HIDE DEF n
<1>4. \A k \in 0..(n - 1) : \E e \in S : RankOf(e, R, S) = k
  <2>1. rank \in Injection(S, 0..(n - 1))
    BY <1>2, <1>3 DEF Injection, IsInjective
  <2>2. IsFiniteSet(0..(n - 1)) /\ Cardinality(0..(n - 1)) = n
    <3>1. 0 \in Int /\ n - 1 \in Int
      BY <1>1
    <3>2. Cardinality(0..(n - 1)) = IF 0 > n - 1 THEN 0 ELSE (n - 1) - 0 + 1
      BY <3>1, FS_Interval
    <3> QED
      BY <1>1, <3>1, <3>2, FS_Interval
  <2> HIDE DEF rank
  <2>3. rank \in Surjection(S, 0..(n - 1))
    BY <2>1, <2>2, FS_Injection DEF n
  <2>4. \A k \in 0..(n - 1) : \E e \in S : rank[e] = k
    BY <2>3 DEF Surjection
  <2> QED
    BY <2>4 DEF rank
<1>5. ASSUME NEW k \in 1..n
      PROVE  s[k] \in S /\ RankOf(s[k], R, S) = k - 1
  <2>1. k - 1 \in 0..(n - 1)
    BY <1>1
  <2>2. \E e \in S : RankOf(e, R, S) = k - 1
    BY <1>4, <2>1
  <2> QED
    BY <2>2 DEF Ranks, n
<1>6. s \in Seq(S) /\ Len(s) = n /\ DOMAIN s = 1..n
  <2>1. s = [k \in 1..n |-> s[k]]
    BY DEF Ranks, n
  <2>2. s \in [1..n -> S]
    BY <1>5, <2>1
  <2> QED
    BY <1>1, <2>2, FunIsSeq, Zenon
<1>7. ASSUME NEW e \in S
      PROVE  e \in ToSet(s)
  <2>1. RankOf(e, R, S) + 1 \in 1..n /\ (RankOf(e, R, S) + 1) - 1 = RankOf(e, R, S)
    BY <1>1, <1>2
  <2>2. s[RankOf(e, R, S) + 1] = e
    BY <1>3, <1>5, <2>1
  <2> QED
    BY <1>6, <2>1, <2>2 DEF ToSet
<1>8. ToSet(s) = S
  BY <1>5, <1>6, <1>7 DEF ToSet
<1>9. ASSUME NEW j \in 1..n, NEW k \in 1..n, j < k
      PROVE  <<s[j], s[k]>> \in R
  <2>1. /\ s[j] \in S /\ RankOf(s[j], R, S) = j - 1
        /\ s[k] \in S /\ RankOf(s[k], R, S) = k - 1
    BY <1>5
  <2>2. s[j] # s[k]
    BY <1>9, <2>1
  <2>3. ~(<<s[k], s[j]>> \in R)
    <3> SUFFICES ASSUME <<s[k], s[j]>> \in R
                 PROVE  FALSE
      OBVIOUS
    <3>1. k - 1 < j - 1
      BY <2>1, RankGrows
    <3> QED
      BY <1>9, <3>1
  <2> QED
    BY <2>1, <2>2, <2>3 DEF StrictOrder
<1> QED
  BY <1>6, <1>8, <1>9 DEF n

-----------------------------------------------------------------------------
(***************************************************************************)
(* Cliques                                                                 *)
(***************************************************************************)
Graph(near, V) ==
  /\ IsFiniteSet(V) /\ near \in [V -> SUBSET V]
  /\ \A u, v \in V : u \in near[v] => v \in near[u]
  /\ \A v \in V : v \notin near[v]

Clique(near, V, Q) == Q \subseteq V /\ \A u, v \in Q : u # v => u \in near[v]

\* When bron_kerbosch is called: no larger set has a node of x.
Ready(near, V, current, p, x, best) ==
  /\ Clique(near, V, current) /\ Clique(near, V, best)
  /\ p \in Seq(V) /\ x \in Seq(V)
  /\ \A u \in ToSet(p) \cup ToSet(x), c \in current : u \in near[c]
  /\ \A w \in ToSet(x) : \A Q \in SUBSET V :
       Clique(near, V, Q) /\ w \in Q /\ (\A q \in Q : q \in current \/ q \in ToSet(p) \/ q = w)
         => Cardinality(Q) <= Cardinality(best)

\* What it is to find, and what is left of it to the loop.
Covers(near, V, current, p, best, r) ==
  /\ Clique(near, V, r) /\ Cardinality(best) <= Cardinality(r)
  /\ \A Q \in SUBSET V : Clique(near, V, Q) /\ (\A q \in Q : q \in current \/ q \in ToSet(p))
       => Cardinality(Q) <= Cardinality(r)

LoopCovers(near, V, l, r) ==
  /\ Clique(near, V, r) /\ Cardinality(l.best) <= Cardinality(r)
  /\ \A Q \in SUBSET V :
       /\ Clique(near, V, Q) /\ (\A q \in Q : q \in l.current \/ q \in ToSet(l.p))
       /\ \E q \in Q : q \in ToSet(l.nodes) /\ q \in ToSet(l.p)
       => Cardinality(Q) <= Cardinality(r)

CoversWith(near, V, current, p, v, r) ==
  \A Q \in SUBSET V :
    Clique(near, V, Q) /\ v \in Q /\ (\A q \in Q : q \in current \/ q \in ToSet(p))
      => Cardinality(Q) <= Cardinality(r)

LoopReady(near, V, l) == Ready(near, V, l.current, l.p, l.x, l.best)
Size(l) == Len(l.p) * Len(l.p) + Len(l.nodes)

LEMMA SizeFalls ==
  ASSUME NEW n \in Nat, NEW n2 \in Nat, NEW k \in Nat, NEW k2 \in Nat,
         n2 < n, k2 <= n2 \/ k2 <= k
  PROVE  n2 * n2 + k2 < n * n + k
<1>1. PICK e \in Nat : n = n2 + 1 + e
  <2>1. n - n2 - 1 \in Nat /\ n = n2 + 1 + (n - n2 - 1)
    OBVIOUS
  <2> QED
    BY <2>1
<1>2. n * n = n2 * n2 + 2 * n2 + 1 + 2 * (n2 * e) + 2 * e + e * e
  BY <1>1
<1>3. n2 * e \in Nat /\ e * e \in Nat /\ n2 * n2 \in Nat
  OBVIOUS
<1>4. n * n >= n2 * n2 + 2 * n2 + 1
  BY <1>2, <1>3
<1>5. n * n \in Nat
  OBVIOUS
<1> DEFINE a == n * n
           b == n2 * n2
<1> HIDE DEF a, b
<1>6. a >= b + 2 * n2 + 1 /\ a \in Nat /\ b \in Nat
  BY <1>3, <1>4, <1>5 DEF a, b
<1>7. b + k2 < a + k
  BY <1>6
<1> QED
  BY <1>7 DEF a, b

LEMMA ToSetFinite ==
  ASSUME NEW V, NEW p \in Seq(V)
  PROVE  IsFiniteSet(ToSet(p)) /\ Cardinality(ToSet(p)) <= Len(p) /\ ToSet(p) \subseteq V
<1>1. p \in [1..Len(p) -> ToSet(p)] /\ Len(p) \in Nat /\ DOMAIN p = 1..Len(p)
  BY DEF ToSet
<1>2. p \in Surjection(1..Len(p), ToSet(p))
  BY <1>1 DEF Surjection, ToSet
<1>3. IsFiniteSet(1..Len(p)) /\ Cardinality(1..Len(p)) = Len(p)
  <2>1. Cardinality(1..Len(p)) = IF 1 > Len(p) THEN 0 ELSE Len(p) - 1 + 1
    BY <1>1, FS_Interval
  <2> QED
    BY <1>1, <2>1, FS_Interval
<1> QED
  BY <1>2, <1>3, FS_Surjection DEF ToSet

LEMMA FewEnough ==
  ASSUME NEW V, IsFiniteSet(V), NEW current \in SUBSET V, NEW p \in Seq(V), NEW Q \in SUBSET V,
         \A q \in Q : q \in current \/ q \in ToSet(p)
  PROVE  /\ Cardinality(Q) <= Cardinality(current) + Len(p)
         /\ Cardinality(Q) \in Nat /\ Cardinality(current) \in Nat
<1>1. IsFiniteSet(ToSet(p)) /\ Cardinality(ToSet(p)) <= Len(p) /\ ToSet(p) \subseteq V
  BY ToSetFinite
<1>2. IsFiniteSet(current) /\ IsFiniteSet(Q)
  BY FS_Subset
<1>3. /\ IsFiniteSet(current \cup ToSet(p))
      /\ Cardinality(current \cup ToSet(p)) =
           Cardinality(current) + Cardinality(ToSet(p)) - Cardinality(current \cap ToSet(p))
  BY <1>1, <1>2, FS_Union
<1>4. IsFiniteSet(current \cap ToSet(p))
  BY <1>2, FS_Subset
<1>5. /\ Cardinality(current) \in Nat /\ Cardinality(ToSet(p)) \in Nat /\ Cardinality(Q) \in Nat
      /\ Cardinality(current \cap ToSet(p)) \in Nat
  BY <1>1, <1>2, <1>4, FS_CardinalityType
<1>6. Q \subseteq current \cup ToSet(p)
  OBVIOUS
<1>7. Cardinality(Q) <= Cardinality(current \cup ToSet(p))
  BY <1>3, <1>6, FS_Subset
<1>8. Len(p) \in Nat
  OBVIOUS
<1> QED
  BY <1>1, <1>3, <1>5, <1>7, <1>8

LEMMA OneMore ==
  ASSUME NEW V, IsFiniteSet(V), NEW Q \in SUBSET V, NEW u \in V
  PROVE  /\ Cardinality(Q) <= Cardinality(Q \cup {u})
         /\ Cardinality(Q) \in Nat /\ Cardinality(Q \cup {u}) \in Nat
<1>1. IsFiniteSet(Q) /\ IsFiniteSet(Q \cup {u})
  BY FS_Subset, FS_AddElement
<1> QED
  BY <1>1, FS_Subset, FS_CardinalityType

LEMMA PivotIs ==
  ASSUME NEW V, NEW near, Graph(near, V), NEW p \in Seq(V), NEW x \in Seq(V), p \o x # <<>>
  PROVE  Pivot(near, p, x) \in ToSet(p) \/ Pivot(near, p, x) \in ToSet(x)
<1> DEFINE nodes == p \o x
           score(v) == Cardinality(near[v] \cap ToSet(p))
           N == Len(nodes)
           First(z) == /\ \A j \in DOMAIN nodes : score(nodes[j]) <= score(nodes[z])
                       /\ \A j \in 1..(z - 1) : score(nodes[j]) < score(nodes[z])
<1>1. /\ nodes \in Seq(V) /\ N \in Nat /\ N # 0 /\ DOMAIN nodes = 1..N
      /\ \A z \in 1..N : nodes[z] \in V
  BY EmptySeq
<1>2. \A v \in V : score(v) \in 0..Cardinality(V)
  <2> SUFFICES ASSUME NEW v \in V
               PROVE  score(v) \in 0..Cardinality(V)
    OBVIOUS
  <2>1. near[v] \cap ToSet(p) \subseteq V /\ IsFiniteSet(V)
    BY DEF Graph
  <2>2. IsFiniteSet(near[v] \cap ToSet(p)) /\ score(v) <= Cardinality(V)
    BY <2>1, FS_Subset
  <2> QED
    BY <2>1, <2>2, FS_CardinalityType
<1>3. Cardinality(V) \in Nat
  BY FS_CardinalityType DEF Graph
<1> HIDE DEF nodes, score, N
<1>4. \E z \in 1..N : First(z)
  <2> DEFINE U == {c \in Nat : \A j \in 1..N : score(nodes[j]) <= c}
             I == {z \in 1..N : \A j \in 1..N : score(nodes[j]) <= score(nodes[z])}
  <2>1. U \in SUBSET Nat /\ Cardinality(V) \in U
    BY <1>1, <1>2, <1>3
  <2>2. PICK c \in U : \A d \in U : c <= d
    BY <2>1, LeastNumber
  <2>3. I # {}
    <3> SUFFICES ASSUME I = {}
                 PROVE  FALSE
      OBVIOUS
    <3>1. \A j \in 1..N : score(nodes[j]) \in Nat /\ score(nodes[j]) <= c
      BY <1>1, <1>2, <1>3, <2>2
    <3>2. \A j \in 1..N : score(nodes[j]) # c
      BY <3>1
    <3>3. 1 \in 1..N
      BY <1>1
    <3>4. c - 1 \in Nat
      BY <2>2, <3>1, <3>2, <3>3
    <3>5. \A j \in 1..N : score(nodes[j]) <= c - 1
      BY <2>2, <3>1, <3>2
    <3>6. c - 1 \in U
      BY <3>4, <3>5
    <3> QED
      BY <2>2, <3>4, <3>6
  <2>4. I \in SUBSET Nat
    OBVIOUS
  <2>5. PICK z \in I : \A j \in I : z <= j
    <3> HIDE DEF I
    <3> QED
      BY <2>3, <2>4, LeastNumber
  <2>6. ASSUME NEW j \in 1..(z - 1)
        PROVE  score(nodes[j]) < score(nodes[z])
    <3>1. j \in 1..N /\ j < z
      BY <1>1, <2>5
    <3>2. j \notin I
      BY <2>5, <3>1
    <3>3. PICK k \in 1..N : ~(score(nodes[k]) <= score(nodes[j]))
      BY <3>1, <3>2
    <3>4. score(nodes[k]) <= score(nodes[z])
      BY <2>5, <3>3
    <3>5. /\ score(nodes[k]) \in Nat /\ score(nodes[j]) \in Nat /\ score(nodes[z]) \in Nat
      BY <1>1, <1>2, <1>3, <2>5, <3>1
    <3> QED
      BY <3>3, <3>4, <3>5
  <2> QED
    BY <1>1, <2>5, <2>6
<1>5. (CHOOSE z \in DOMAIN nodes : First(z)) \in 1..N
  <2> HIDE DEF First
  <2> QED
    BY <1>1, <1>4
<1>6. Pivot(near, p, x) = nodes[CHOOSE z \in DOMAIN nodes : First(z)]
  BY DEF Pivot, nodes, score
<1>7. \A z \in 1..N : nodes[z] \in ToSet(p) \/ nodes[z] \in ToSet(x)
  <2> SUFFICES ASSUME NEW z \in 1..N
               PROVE  nodes[z] \in ToSet(p) \/ nodes[z] \in ToSet(x)
    OBVIOUS
  <2>1. /\ Len(p) \in Nat /\ Len(x) \in Nat /\ N = Len(p) + Len(x)
        /\ DOMAIN p = 1..Len(p) /\ DOMAIN x = 1..Len(x)
        /\ nodes[z] = IF z <= Len(p) THEN p[z] ELSE x[z - Len(p)]
    BY DEF nodes, N
  <2>2. CASE z <= Len(p)
    <3>1. z \in DOMAIN p
      BY <2>1, <2>2
    <3> QED
      BY <2>1, <2>2, <3>1 DEF ToSet
  <2>3. CASE ~(z <= Len(p))
    <3>1. z - Len(p) \in DOMAIN x
      BY <2>1, <2>3
    <3> QED
      BY <2>1, <2>3, <3>1 DEF ToSet
  <2> QED
    BY <2>2, <2>3
<1> QED
  BY <1>5, <1>6, <1>7

\* The pivot joins a clique that has no branch node.
LEMMA PivotJoins ==
  ASSUME NEW V, NEW near, Graph(near, V), NEW current, NEW p, NEW x, NEW best,
         Ready(near, V, current, p, x, best), p \o x # <<>>,
         NEW Q \in SUBSET V, Clique(near, V, Q), \A q \in Q : q \in current \/ q \in ToSet(p),
         NEW nodes, nodes = BranchNodes(near, p, x), \A q \in Q : q \notin ToSet(nodes)
  PROVE  \E u \in V :
           /\ Clique(near, V, Q \cup {u})
           /\ u \in ToSet(x) \/ (u \in ToSet(p) /\ u \in ToSet(nodes))
<1> DEFINE u == Pivot(near, p, x)
           away == Keep(p, ToSet(p) \ near[u])
<1>1. /\ p \in Seq(V) /\ x \in Seq(V) /\ near \in [V -> SUBSET V]
      /\ \A v, w \in V : v \in near[w] => w \in near[v]
      /\ \A v \in V : v \notin near[v]
      /\ current \subseteq V /\ ToSet(p) \subseteq V /\ ToSet(x) \subseteq V
      /\ \A v \in ToSet(p) \cup ToSet(x), c \in current : v \in near[c]
  BY ToSetFinite DEF Graph, Ready, Clique
<1>2. u \in ToSet(p) \/ u \in ToSet(x)
  BY <1>1, PivotIs
<1>3. nodes = IF away = <<>> THEN p ELSE away
  BY DEF BranchNodes
<1> HIDE DEF u
<1>4. /\ \A v : v \in ToSet(away) <=> v \in ToSet(p) /\ v \notin near[u]
      /\ away \in Seq(V)
  BY <1>1, KeepIs
<1> HIDE DEF away
<1>5. away = <<>> <=> \A v : v \notin ToSet(away)
  <2>1. away # <<>> => Len(away) # 0 /\ away[1] \in ToSet(away)
    <3>1. away # <<>> => Len(away) # 0 /\ Len(away) \in Nat /\ DOMAIN away = 1..Len(away)
      BY <1>4, EmptySeq
    <3>2. away # <<>> => 1 \in DOMAIN away
      BY <3>1
    <3> QED
      BY <3>1, <3>2 DEF ToSet
  <2>2. away = <<>> => ToSet(away) = {}
    BY DEF ToSet
  <2> QED
    BY <2>1, <2>2
<1>6. \A q \in Q : q \in ToSet(p) => q \in near[u]
  <2> SUFFICES ASSUME NEW q \in Q, q \in ToSet(p), q \notin near[u]
               PROVE  FALSE
    OBVIOUS
  <2>1. q \in ToSet(away)
    BY <1>4
  <2> QED
    BY <1>3, <1>5, <2>1
<1>7. \A q \in Q : q \in near[u] /\ u \in near[q]
  <2> SUFFICES ASSUME NEW q \in Q
               PROVE  q \in near[u] /\ u \in near[q]
    OBVIOUS
  <2>1. q \in V /\ u \in V
    BY <1>1, <1>2
  <2> QED
    BY <1>1, <1>2, <1>6, <2>1
<1>8. u \in V /\ Clique(near, V, Q \cup {u})
  BY <1>1, <1>2, <1>7 DEF Clique
<1>9. u \in ToSet(p) => u \in ToSet(nodes)
  <2>1. u \in ToSet(p) => u \in ToSet(away)
    BY <1>1, <1>4
  <2> QED
    BY <1>3, <1>5, <2>1
<1> QED
  BY <1>2, <1>8, <1>9

LEMMA SearchCovers ==
  ASSUME NEW V, NEW near, Graph(near, V), NEW current, NEW p, NEW x, NEW best,
         Ready(near, V, current, p, x, best), NEW branch, NEW l,
         l = [current |-> current, nodes |-> BranchNodes(near, p, x),
              p |-> p, x |-> x, best |-> best],
         p \o x # <<>> => LoopCovers(near, V, l, branch[l])
  PROVE  Covers(near, V, current, p, best, Search(branch, near, current, p, x, best))
<1>1. /\ IsFiniteSet(V) /\ p \in Seq(V) /\ x \in Seq(V)
      /\ ToSet(p) \subseteq V /\ ToSet(x) \subseteq V
      /\ Clique(near, V, current) /\ Clique(near, V, best)
      /\ current \in SUBSET V /\ best \in SUBSET V
  BY ToSetFinite DEF Graph, Ready, Clique
<1>2. /\ Len(p) \in Nat /\ Cardinality(current) \in Nat /\ Cardinality(best) \in Nat
  BY <1>1, FS_Subset, FS_CardinalityType
<1> DEFINE r == Search(branch, near, current, p, x, best)
           Few == Cardinality(current) + Len(p) <= Cardinality(best)
<1> SUFFICES Covers(near, V, current, p, best, r)
  OBVIOUS
<1>3. CASE Few
  <2>1. r = best
    BY <1>2, <1>3 DEF Search
  <2>2. ASSUME NEW Q \in SUBSET V, \A q \in Q : q \in current \/ q \in ToSet(p)
        PROVE  Cardinality(Q) <= Cardinality(best)
    <3>1. Cardinality(Q) <= Cardinality(current) + Len(p) /\ Cardinality(Q) \in Nat
      BY <1>1, <2>2, FewEnough
    <3> QED
      BY <1>2, <1>3, <3>1
  <2> HIDE DEF r
  <2> QED
    BY <1>1, <1>2, <2>1, <2>2 DEF Covers
<1>4. CASE ~Few /\ p \o x = <<>>
  <2>1. r = current
    BY <1>2, <1>4 DEF Search
  <2>2. Len(p) = 0
    <3>1. Len(p \o x) = Len(p) + Len(x) /\ Len(x) \in Nat
      BY <1>1
    <3>2. Len(p \o x) = 0
      BY <1>4
    <3> QED
      BY <1>2, <3>1, <3>2
  <2>3. ASSUME NEW Q \in SUBSET V, \A q \in Q : q \in current \/ q \in ToSet(p)
        PROVE  Cardinality(Q) <= Cardinality(current)
    <3>1. Cardinality(Q) <= Cardinality(current) + Len(p) /\ Cardinality(Q) \in Nat
      BY <1>1, <2>3, FewEnough
    <3> QED
      BY <1>2, <2>2, <3>1
  <2>4. Cardinality(best) <= Cardinality(current)
    BY <1>2, <1>4, <2>2
  <2> HIDE DEF r
  <2> QED
    BY <1>1, <2>1, <2>3, <2>4 DEF Covers
<1>5. CASE ~Few /\ p \o x # <<>>
  <2>1. r = branch[l]
    BY <1>2, <1>5 DEF Search
  <2>2. LoopCovers(near, V, l, r)
    BY <1>5, <2>1
  <2> DEFINE nodes == BranchNodes(near, p, x)
  <2> HIDE DEF r, nodes
  <2>3. l.current = current /\ l.nodes = nodes /\ l.p = p /\ l.best = best
    BY DEF nodes
  <2>4. /\ Clique(near, V, r) /\ Cardinality(best) <= Cardinality(r)
        /\ r \in SUBSET V
    BY <2>2, <2>3 DEF LoopCovers, Clique
  <2>5. Cardinality(r) \in Nat
    BY <1>1, <2>4, FS_Subset, FS_CardinalityType
  <2>6. ASSUME NEW Q \in SUBSET V, Clique(near, V, Q),
               \A q \in Q : q \in current \/ q \in ToSet(p)
        PROVE  Cardinality(Q) <= Cardinality(r)
    <3>1. ASSUME NEW P \in SUBSET V, Clique(near, V, P),
                 \A q \in P : q \in current \/ q \in ToSet(p),
                 \E q \in P : q \in ToSet(nodes) /\ q \in ToSet(p)
          PROVE  Cardinality(P) <= Cardinality(r)
      BY <2>2, <2>3, <3>1 DEF LoopCovers
    <3>2. CASE \E q \in Q : q \in ToSet(nodes) /\ q \in ToSet(p)
      BY <2>6, <3>1, <3>2
    <3>3. CASE ~ \E q \in Q : q \in ToSet(nodes) /\ q \in ToSet(p)
      <4>1. \A q \in Q : q \notin ToSet(nodes)
        <5>1. \A q \in ToSet(nodes) : q \in ToSet(p)
          BY <1>1, KeepIs DEF nodes, BranchNodes
        <5> QED
          BY <3>3, <5>1
      <4>2. PICK u \in V : /\ Clique(near, V, Q \cup {u})
                           /\ u \in ToSet(x) \/ (u \in ToSet(p) /\ u \in ToSet(nodes))
        BY <1>5, <2>6, <4>1, PivotJoins DEF nodes
      <4>3. /\ Cardinality(Q) <= Cardinality(Q \cup {u})
            /\ Cardinality(Q) \in Nat /\ Cardinality(Q \cup {u}) \in Nat
        BY <1>1, OneMore
      <4> DEFINE P == Q \cup {u}
      <4>4. P \in SUBSET V /\ Clique(near, V, P) /\ u \in P
        BY <4>2
      <4>5. \A q \in P : q \in current \/ q \in ToSet(p) \/ q = u
        BY <2>6
      <4>6. u \in ToSet(p) => \A q \in P : q \in current \/ q \in ToSet(p)
        BY <4>5
      <4> HIDE DEF P
      <4>7. CASE u \in ToSet(x)
        <5>1. Cardinality(P) <= Cardinality(best)
          BY <4>4, <4>5, <4>7 DEF Ready
        <5> QED
          BY <1>2, <2>4, <2>5, <4>3, <5>1 DEF P
      <4>8. CASE u \in ToSet(p) /\ u \in ToSet(nodes)
        <5>1. Cardinality(P) <= Cardinality(r)
          BY <3>1, <4>4, <4>6, <4>8
        <5> QED
          BY <2>5, <4>3, <5>1 DEF P
      <4> QED
        BY <4>2, <4>7, <4>8
    <3> QED
      BY <3>2, <3>3
  <2> QED
    BY <2>4, <2>6 DEF Covers
<1> QED
  BY <1>3, <1>4, <1>5

LEMMA NodesOfP ==
  ASSUME NEW V, NEW near, NEW p \in Seq(V), NEW x
  PROVE  /\ BranchNodes(near, p, x) \in Seq(V)
         /\ Len(BranchNodes(near, p, x)) <= Len(p)
<1> DEFINE S == ToSet(p) \ near[Pivot(near, p, x)]
<1> HIDE DEF S
<1>1. Keep(p, S) \in Seq(V) /\ Len(Keep(p, S)) <= Len(p)
  BY KeepIs
<1>2. BranchNodes(near, p, x) = IF Keep(p, S) = <<>> THEN p ELSE Keep(p, S)
  BY DEF BranchNodes, S
<1>3. Len(p) \in Nat
  OBVIOUS
<1> QED
  BY <1>1, <1>2, <1>3

LEMMA TailIs ==
  ASSUME NEW V, NEW s \in Seq(V), s # <<>>
  PROVE  /\ Tail(s) \in Seq(V) /\ Head(s) \in V /\ Len(Tail(s)) = Len(s) - 1 /\ Len(s) \in Nat \ {0}
         /\ \A u : u \in ToSet(s) <=> u = Head(s) \/ u \in ToSet(Tail(s))
<1>1. /\ Tail(s) \in Seq(V) /\ Head(s) \in V /\ Head(s) = s[1]
      /\ Len(Tail(s)) = Len(s) - 1 /\ Len(s) \in Nat \ {0}
      /\ \A z \in 1..(Len(s) - 1) : Tail(s)[z] = s[z + 1]
      /\ DOMAIN s = 1..Len(s) /\ DOMAIN Tail(s) = 1..(Len(s) - 1)
  BY EmptySeq
<1> DEFINE n == Len(s)
           t == Tail(s)
<1> HIDE DEF n, t
<1>2. ASSUME NEW u, u \in ToSet(s)
      PROVE  u = s[1] \/ u \in ToSet(t)
  <2>1. PICK z \in 1..n : u = s[z]
    BY <1>1, <1>2 DEF ToSet, n
  <2>2. z # 1 => z - 1 \in 1..(n - 1) /\ (z - 1) + 1 = z
    BY <1>1, <2>1 DEF n
  <2>3. z # 1 => t[z - 1] = s[z]
    BY <1>1, <2>2 DEF n, t
  <2> QED
    BY <1>1, <2>1, <2>2, <2>3 DEF ToSet, n, t
<1>3. ASSUME NEW u, u = s[1] \/ u \in ToSet(t)
      PROVE  u \in ToSet(s)
  <2>1. CASE u = s[1]
    <3>1. 1 \in DOMAIN s
      BY <1>1
    <3> QED
      BY <2>1, <3>1 DEF ToSet
  <2>2. CASE u \in ToSet(t)
    <3>1. PICK z \in 1..(n - 1) : u = t[z]
      BY <1>1, <2>2 DEF ToSet, n, t
    <3>2. z + 1 \in 1..n /\ t[z] = s[z + 1]
      BY <1>1, <3>1 DEF n, t
    <3> QED
      BY <1>1, <3>1, <3>2 DEF ToSet, n
  <2> QED
    BY <1>3, <2>1, <2>2
<1> QED
  BY <1>1, <1>2, <1>3 DEF t

\* What the node that is branched on leaves to the call and to the loop.
LEMMA CallReady ==
  ASSUME NEW V, NEW near, Graph(near, V), NEW current, NEW p, NEW x, NEW best,
         Ready(near, V, current, p, x, best), NEW v \in ToSet(p)
  PROVE  /\ Ready(near, V, current \cup {v}, Meet(p, near, v), Meet(x, near, v), best)
         /\ Len(Meet(p, near, v)) < Len(p)
<1>1. /\ p \in Seq(V) /\ x \in Seq(V) /\ near \in [V -> SUBSET V]
      /\ \A u, w \in V : u \in near[w] => w \in near[u]
      /\ \A w \in V : w \notin near[w]
      /\ current \subseteq V /\ ToSet(p) \subseteq V /\ ToSet(x) \subseteq V
      /\ Clique(near, V, current) /\ Clique(near, V, best)
      /\ \A u \in ToSet(p) \cup ToSet(x), c \in current : u \in near[c]
  BY ToSetFinite DEF Graph, Ready, Clique
<1> DEFINE p2 == Meet(p, near, v)
           x2 == Meet(x, near, v)
           current2 == current \cup {v}
<1>2. /\ p2 \in Seq(V) /\ x2 \in Seq(V)
      /\ \A u : u \in ToSet(p2) <=> u \in ToSet(p) /\ u \in near[v]
      /\ \A u : u \in ToSet(x2) <=> u \in ToSet(x) /\ u \in near[v]
      /\ (\E u \in ToSet(p) : u \notin near[v]) => Len(p2) < Len(p)
  BY <1>1, KeepIs DEF Meet
<1>3. Len(p2) < Len(p)
  BY <1>1, <1>2
<1> HIDE DEF p2, x2
<1>4. Clique(near, V, current2)
  BY <1>1 DEF Clique
<1>5. \A u \in ToSet(p2) \cup ToSet(x2), c \in current2 : u \in near[c]
  BY <1>1, <1>2
<1>6. ASSUME NEW w \in ToSet(x2), NEW Q \in SUBSET V, Clique(near, V, Q), w \in Q,
             \A q \in Q : q \in current2 \/ q \in ToSet(p2) \/ q = w
      PROVE  Cardinality(Q) <= Cardinality(best)
  <2>1. w \in ToSet(x) /\ \A q \in Q : q \in current \/ q \in ToSet(p) \/ q = w
    BY <1>2, <1>6
  <2> QED
    BY <1>6, <2>1 DEF Ready
<1> HIDE DEF current2
<1>7. Ready(near, V, current2, p2, x2, best)
  BY <1>1, <1>2, <1>4, <1>5, <1>6 DEF Ready
<1> QED
  BY <1>3, <1>7 DEF p2, x2, current2

LEMMA RestReady ==
  ASSUME NEW V, NEW near, Graph(near, V), NEW current, NEW p, NEW x, NEW best,
         Ready(near, V, current, p, x, best), NEW v \in ToSet(p), NEW found,
         Covers(near, V, current \cup {v}, Meet(p, near, v), best, found),
         NEW rest, rest = Keep(p, ToSet(p) \ {v})
  PROVE  /\ Ready(near, V, current, rest, Append(x, v), found)
         /\ \A u : u \in ToSet(rest) <=> u \in ToSet(p) /\ u # v
         /\ CoversWith(near, V, current, p, v, found)
<1>1. /\ p \in Seq(V) /\ x \in Seq(V) /\ near \in [V -> SUBSET V] /\ IsFiniteSet(V)
      /\ current \subseteq V /\ ToSet(p) \subseteq V /\ ToSet(x) \subseteq V
      /\ Clique(near, V, current) /\ Clique(near, V, best) /\ Clique(near, V, found)
      /\ \A u \in ToSet(p) \cup ToSet(x), c \in current : u \in near[c]
      /\ Cardinality(best) <= Cardinality(found)
  BY ToSetFinite DEF Graph, Ready, Clique, Covers
<1> DEFINE x2 == Append(x, v)
           p2 == Meet(p, near, v)
<1>2. /\ rest \in Seq(V)
      /\ \A u : u \in ToSet(rest) <=> u \in ToSet(p) /\ u # v
  BY <1>1, KeepIs
<1>3. x2 \in Seq(V) /\ \A u : u \in ToSet(x2) <=> u \in ToSet(x) \/ u = v
  BY <1>1, ToSetIs
<1>4. \A u : u \in ToSet(p2) <=> u \in ToSet(p) /\ u \in near[v]
  BY <1>1, KeepIs DEF Meet
<1>5. /\ Cardinality(best) \in Nat /\ Cardinality(found) \in Nat
  <2>1. best \in SUBSET V /\ found \in SUBSET V
    BY <1>1 DEF Clique
  <2> QED
    BY <1>1, <2>1, FS_Subset, FS_CardinalityType
<1> HIDE DEF x2, p2
<1>6. ASSUME NEW Q \in SUBSET V, Clique(near, V, Q), v \in Q,
             \A q \in Q : q \in current \/ q \in ToSet(p)
      PROVE  Cardinality(Q) <= Cardinality(found)
  <2>1. \A q \in Q : q \in current \cup {v} \/ q \in ToSet(p2)
    BY <1>4, <1>6 DEF Clique
  <2> QED
    BY <1>6, <2>1 DEF Covers, p2
<1>7. \A u \in ToSet(rest) \cup ToSet(x2), c \in current : u \in near[c]
  BY <1>1, <1>2, <1>3
<1>8. ASSUME NEW w \in ToSet(x2), NEW Q \in SUBSET V, Clique(near, V, Q), w \in Q,
             \A q \in Q : q \in current \/ q \in ToSet(rest) \/ q = w
      PROVE  Cardinality(Q) <= Cardinality(found)
  <2>1. CASE w = v
    <3>1. \A q \in Q : q \in current \/ q \in ToSet(p)
      BY <1>2, <1>8, <2>1
    <3> QED
      BY <1>6, <1>8, <2>1, <3>1
  <2>2. CASE w \in ToSet(x)
    <3>1. \A q \in Q : q \in current \/ q \in ToSet(p) \/ q = w
      BY <1>2, <1>8
    <3>2. Cardinality(Q) <= Cardinality(best)
      BY <1>8, <2>2, <3>1 DEF Ready
    <3>3. Cardinality(Q) \in Nat
      BY <1>1, FS_Subset, FS_CardinalityType
    <3> QED
      BY <1>1, <1>5, <3>2, <3>3
  <2> QED
    BY <1>3, <1>8, <2>1, <2>2
<1>9. Ready(near, V, current, rest, x2, found)
  BY <1>1, <1>2, <1>3, <1>7, <1>8 DEF Ready
<1> QED
  BY <1>2, <1>6, <1>9 DEF x2, CoversWith

-----------------------------------------------------------------------------
(***************************************************************************)
(* The search                                                              *)
(***************************************************************************)
Skip(l) == [l EXCEPT !.nodes = Tail(@)]
Rest(l, v) == Keep(l.p, ToSet(l.p) \ {v})
NextRound(l, v, found) ==
  [current |-> l.current, nodes |-> Tail(l.nodes),
   p |-> Rest(l, v), x |-> Append(l.x, v), best |-> found]
Called(near, l, v) ==
  [current |-> l.current \cup {v},
   nodes |-> BranchNodes(near, Meet(l.p, near, v), Meet(l.x, near, v)),
   p |-> Meet(l.p, near, v), x |-> Meet(l.x, near, v), best |-> l.best]
FoundBy(branch, near, l, v) ==
  Search(branch, near, l.current \cup {v}, Meet(l.p, near, v), Meet(l.x, near, v), l.best)

LEMMA BranchIs ==
  ASSUME NEW branch, NEW near, NEW l, NEW v, v = Head(l.nodes),
         NEW found, found = FoundBy(branch, near, l, v)
  PROVE  Branch(branch, near, l) =
           IF l.nodes = <<>> THEN l.best
           ELSE IF v \notin ToSet(l.p) THEN branch[Skip(l)]
           ELSE IF Cardinality(l.current) + Len(Rest(l, v)) <= Cardinality(found) THEN found
           ELSE branch[NextRound(l, v, found)]
<1>1. CASE l.nodes = <<>>
  BY <1>1 DEF Branch
<1>2. CASE l.nodes # <<>> /\ v \notin ToSet(l.p)
  BY <1>2 DEF Branch, Skip
<1>3. CASE l.nodes # <<>> /\ v \in ToSet(l.p)
  BY <1>3 DEF Branch, FoundBy, Rest, NextRound
<1> QED
  BY <1>1, <1>2, <1>3

LEMMA SkipIs ==
  ASSUME NEW V, NEW l \in Loops(V)
  PROVE  Skip(l) = [current |-> l.current, nodes |-> Tail(l.nodes), p |-> l.p, x |-> l.x,
                    best |-> l.best]
<1>1. PICK a, b, c, d, e : l = [current |-> a, nodes |-> b, p |-> c, x |-> d, best |-> e]
  BY DEF Loops
<1>2. Skip(l) = [current |-> a, nodes |-> Tail(b), p |-> c, x |-> d, best |-> e]
  <2>1. l.nodes = b
    BY <1>1
  <2>2. Skip(l) = [l EXCEPT !.nodes = Tail(b)]
    BY <2>1 DEF Skip
  <2> QED
    BY <1>1, <2>2
<1> QED
  BY <1>1, <1>2

LEMMA LoopsFall ==
  ASSUME NEW V, NEW near, Graph(near, V), NEW l \in Loops(V), l.nodes # <<>>,
         NEW v, v = Head(l.nodes)
  PROVE  /\ v \in V
         /\ Skip(l) \in Loops(V) /\ Size(Skip(l)) < Size(l)
         /\ v \in ToSet(l.p) => /\ Called(near, l, v) \in Loops(V)
                                /\ Size(Called(near, l, v)) < Size(l)
         /\ v \in ToSet(l.p) => \A found \in SUBSET V :
                                  /\ NextRound(l, v, found) \in Loops(V)
                                  /\ Size(NextRound(l, v, found)) < Size(l)
<1> DEFINE n == Len(l.p)
           k == Len(l.nodes)
<1>1. /\ l.current \in SUBSET V /\ l.nodes \in Seq(V) /\ l.p \in Seq(V) /\ l.x \in Seq(V)
      /\ l.best \in SUBSET V
      /\ l = [current |-> l.current, nodes |-> l.nodes, p |-> l.p, x |-> l.x, best |-> l.best]
  BY DEF Loops
<1>2. /\ Tail(l.nodes) \in Seq(V) /\ v \in V /\ Len(Tail(l.nodes)) = k - 1 /\ k \in Nat \ {0}
      /\ n \in Nat
  BY <1>1, TailIs
<1>3. Skip(l) \in Loops(V) /\ Size(Skip(l)) < Size(l)
  <2>1. Skip(l) = [current |-> l.current, nodes |-> Tail(l.nodes), p |-> l.p, x |-> l.x,
                   best |-> l.best]
    BY SkipIs
  <2> DEFINE c == Skip(l)
  <2>5. c.p = l.p /\ c.nodes = Tail(l.nodes)
    BY <2>1
  <2>2. Skip(l) \in Loops(V)
    BY <1>1, <1>2, <2>1 DEF Loops
  <2> HIDE DEF c
  <2>3. Size(c) = n * n + (k - 1) /\ Size(l) = n * n + k
    BY <1>2, <2>5 DEF Size
  <2>4. n * n \in Nat
    BY <1>2
  <2> DEFINE a == n * n
  <2> HIDE DEF a, k
  <2>6. Size(c) = a + (k - 1) /\ Size(l) = a + k /\ a \in Nat /\ k \in Nat
    BY <1>2, <2>3, <2>4 DEF a
  <2>7. Size(c) < Size(l)
    BY <2>6
  <2> QED
    BY <2>2, <2>7 DEF c
<1>4. ASSUME v \in ToSet(l.p)
      PROVE  Called(near, l, v) \in Loops(V) /\ Size(Called(near, l, v)) < Size(l)
  <2> DEFINE p2 == Meet(l.p, near, v)
             x2 == Meet(l.x, near, v)
             nodes2 == BranchNodes(near, p2, x2)
             c == Called(near, l, v)
  <2>1. /\ p2 \in Seq(V) /\ x2 \in Seq(V)
        /\ Len(p2) <= n
    BY <1>1, KeepIs DEF Meet
  <2>2. nodes2 \in Seq(V) /\ Len(nodes2) <= Len(p2)
    BY <2>1, NodesOfP
  <2> HIDE DEF p2, x2, nodes2
  <2>3. /\ c = [current |-> l.current \cup {v}, nodes |-> nodes2, p |-> p2, x |-> x2,
                best |-> l.best]
    BY DEF Called, p2, x2, nodes2
  <2> HIDE DEF c
  <2>4. c \in Loops(V)
    <3>1. l.current \cup {v} \in SUBSET V
      BY <1>1, <1>2
    <3> QED
      BY <1>1, <2>1, <2>2, <2>3, <3>1 DEF Loops
  <2>5. Size(c) = Len(p2) * Len(p2) + Len(nodes2)
    BY <2>3 DEF Size
  <2>6. Size(l) = n * n + k
    BY DEF Size
  <2>7. Len(p2) \in Nat /\ Len(nodes2) \in Nat
    BY <2>1, <2>2
  <2>8. Len(p2) < n
    <3>1. v \notin near[v]
      BY <1>2 DEF Graph
    <3> QED
      BY <1>1, <1>4, <3>1, KeepIs DEF p2, Meet
  <2> HIDE DEF n, k
  <2>9. Len(p2) * Len(p2) + Len(nodes2) < n * n + k
    BY <1>2, <2>2, <2>7, <2>8, SizeFalls
  <2> QED
    BY <2>4, <2>5, <2>6, <2>9 DEF c
<1>5. ASSUME v \in ToSet(l.p), NEW found \in SUBSET V
      PROVE  NextRound(l, v, found) \in Loops(V) /\ Size(NextRound(l, v, found)) < Size(l)
  <2> DEFINE rest == Rest(l, v)
             c == NextRound(l, v, found)
  <2>1. rest \in Seq(V) /\ Len(rest) < n
    BY <1>1, <1>5, KeepIs DEF Rest
  <2>2. Append(l.x, v) \in Seq(V)
    BY <1>1, <1>2
  <2> HIDE DEF rest
  <2>3. c = [current |-> l.current, nodes |-> Tail(l.nodes), p |-> rest, x |-> Append(l.x, v),
             best |-> found]
    BY DEF NextRound, rest
  <2> HIDE DEF c
  <2>4. c \in Loops(V)
    BY <1>1, <1>2, <2>1, <2>2, <2>3 DEF Loops
  <2>5. Size(c) = Len(rest) * Len(rest) + (k - 1) /\ Size(l) = n * n + k
    BY <1>2, <2>3 DEF Size
  <2>6. Len(rest) \in Nat /\ k - 1 \in Nat /\ k - 1 <= k
    BY <1>2, <2>1
  <2> HIDE DEF n, k
  <2>7. Len(rest) * Len(rest) + (k - 1) < n * n + k
    BY <1>2, <2>1, <2>6, SizeFalls
  <2> QED
    BY <2>4, <2>5, <2>7 DEF c
<1> QED
  BY <1>2, <1>3, <1>4, <1>5

LEMMA BranchCovers ==
  ASSUME NEW V, NEW near, Graph(near, V), NEW branch, NEW l \in Loops(V), LoopReady(near, V, l),
         \A k \in Loops(V) : Size(k) < Size(l) /\ LoopReady(near, V, k)
                               => LoopCovers(near, V, k, branch[k])
  PROVE  LoopCovers(near, V, l, Branch(branch, near, l))
<1> DEFINE v == Head(l.nodes)
           found == FoundBy(branch, near, l, v)
           r == Branch(branch, near, l)
<1>1. /\ l.current \in SUBSET V /\ l.nodes \in Seq(V) /\ l.p \in Seq(V) /\ l.x \in Seq(V)
      /\ l.best \in SUBSET V /\ IsFiniteSet(V)
      /\ Ready(near, V, l.current, l.p, l.x, l.best)
      /\ Clique(near, V, l.best)
  BY DEF Loops, LoopReady, Ready, Graph
<1>2. r = IF l.nodes = <<>> THEN l.best
          ELSE IF v \notin ToSet(l.p) THEN branch[Skip(l)]
          ELSE IF Cardinality(l.current) + Len(Rest(l, v)) <= Cardinality(found) THEN found
          ELSE branch[NextRound(l, v, found)]
  BY BranchIs
<1> HIDE DEF r, found
<1> SUFFICES LoopCovers(near, V, l, r)
  BY DEF r
<1>3. CASE l.nodes = <<>>
  <2>1. r = l.best
    BY <1>2, <1>3
  <2>2. ToSet(l.nodes) = {}
    BY <1>3 DEF ToSet
  <2>3. Cardinality(l.best) \in Nat
    BY <1>1, FS_Subset, FS_CardinalityType
  <2> QED
    BY <1>1, <2>1, <2>2, <2>3 DEF LoopCovers
<1>4. ASSUME l.nodes # <<>>
      PROVE  /\ \A u : u \in ToSet(l.nodes) <=> u = v \/ u \in ToSet(Tail(l.nodes))
             /\ v \in V
             /\ Skip(l) \in Loops(V) /\ Size(Skip(l)) < Size(l)
             /\ v \in ToSet(l.p) => /\ Called(near, l, v) \in Loops(V)
                                    /\ Size(Called(near, l, v)) < Size(l)
             /\ v \in ToSet(l.p) => \A f \in SUBSET V : /\ NextRound(l, v, f) \in Loops(V)
                                                      /\ Size(NextRound(l, v, f)) < Size(l)
  BY <1>1, <1>4, LoopsFall, TailIs
<1> HIDE DEF v
<1>5. CASE l.nodes # <<>> /\ v \notin ToSet(l.p)
  <2> DEFINE s == Skip(l)
  <2>1. r = branch[s] /\ s \in Loops(V) /\ Size(s) < Size(l)
    BY <1>2, <1>4, <1>5
  <2>2. /\ s.current = l.current /\ s.nodes = Tail(l.nodes) /\ s.p = l.p /\ s.x = l.x
        /\ s.best = l.best
    <3>1. s = [current |-> l.current, nodes |-> Tail(l.nodes), p |-> l.p, x |-> l.x,
               best |-> l.best]
      BY SkipIs
    <3> HIDE DEF s
    <3> QED
      BY <3>1
  <2> HIDE DEF s
  <2>3. LoopReady(near, V, s)
    BY <1>1, <2>2 DEF LoopReady
  <2>4. LoopCovers(near, V, s, r)
    BY <2>1, <2>3
  <2>5. \A u : u \in ToSet(l.nodes) /\ u \in ToSet(l.p) => u \in ToSet(s.nodes)
    BY <1>4, <1>5, <2>2
  <2> QED
    BY <2>2, <2>4, <2>5 DEF LoopCovers
<1>6. CASE l.nodes # <<>> /\ v \in ToSet(l.p)
  <2> DEFINE c == Called(near, l, v)
             p2 == Meet(l.p, near, v)
             x2 == Meet(l.x, near, v)
             current2 == l.current \cup {v}
  <2>1. c \in Loops(V) /\ Size(c) < Size(l)
    BY <1>4, <1>6
  <2>2. Ready(near, V, current2, p2, x2, l.best)
    BY <1>1, <1>6, CallReady
  <2>3. c = [current |-> current2, nodes |-> BranchNodes(near, p2, x2),
             p |-> p2, x |-> x2, best |-> l.best]
    BY DEF Called
  <2>4. found = Search(branch, near, current2, p2, x2, l.best)
    BY DEF found, FoundBy
  <2> HIDE DEF c, p2, x2, current2
  <2>5. LoopReady(near, V, c)
    BY <2>2, <2>3 DEF LoopReady
  <2>6. LoopCovers(near, V, c, branch[c])
    BY <2>1, <2>5
  <2>7. Covers(near, V, current2, p2, l.best, found)
    BY <2>2, <2>3, <2>4, <2>6, SearchCovers
  <2> DEFINE rest == Rest(l, v)
             x3 == Append(l.x, v)
             d == NextRound(l, v, found)
  <2>8. /\ Ready(near, V, l.current, rest, x3, found)
        /\ \A u : u \in ToSet(rest) <=> u \in ToSet(l.p) /\ u # v
        /\ rest \in Seq(V)
        /\ \A Q \in SUBSET V :
             Clique(near, V, Q) /\ v \in Q /\ (\A q \in Q : q \in l.current \/ q \in ToSet(l.p))
               => Cardinality(Q) <= Cardinality(found)
    <3>1. Covers(near, V, l.current \cup {v}, Meet(l.p, near, v), l.best, found)
      BY <2>7 DEF current2, p2
    <3>2. /\ Ready(near, V, l.current, rest, x3, found)
          /\ \A u : u \in ToSet(rest) <=> u \in ToSet(l.p) /\ u # v
          /\ CoversWith(near, V, l.current, l.p, v, found)
      BY <1>1, <1>6, <3>1, RestReady DEF Rest
    <3> HIDE DEF rest, x3
    <3> QED
      BY <3>2 DEF CoversWith, Ready
  <2>9. Clique(near, V, found) /\ Cardinality(l.best) <= Cardinality(found) /\ found \in SUBSET V
    BY <2>7 DEF Covers, Clique
  <2>10. Cardinality(found) \in Nat /\ Cardinality(l.best) \in Nat
    BY <1>1, <2>9, FS_Subset, FS_CardinalityType
  <2>11. d \in Loops(V) /\ Size(d) < Size(l)
    BY <1>4, <1>6, <2>9
  <2>12. /\ d.current = l.current /\ d.nodes = Tail(l.nodes) /\ d.p = rest /\ d.x = x3
         /\ d.best = found
    BY DEF NextRound
  <2> HIDE DEF rest, x3, d
  <2>13. ASSUME NEW Q \in SUBSET V, v \notin Q,
                \A q \in Q : q \in l.current \/ q \in ToSet(l.p)
         PROVE  \A q \in Q : q \in l.current \/ q \in ToSet(rest)
    BY <2>8, <2>13
  <2>14. CASE Cardinality(l.current) + Len(rest) <= Cardinality(found)
    <3>1. r = found
      BY <1>2, <1>6, <2>14 DEF rest
    <3>2. ASSUME NEW Q \in SUBSET V, Clique(near, V, Q),
                 \A q \in Q : q \in l.current \/ q \in ToSet(l.p)
          PROVE  Cardinality(Q) <= Cardinality(found)
      <4>1. CASE v \in Q
        BY <2>8, <3>2, <4>1
      <4>2. CASE v \notin Q
        <5>1. \A q \in Q : q \in l.current \/ q \in ToSet(rest)
          BY <2>13, <3>2, <4>2
        <5>2. /\ Cardinality(Q) <= Cardinality(l.current) + Len(rest)
              /\ Cardinality(Q) \in Nat /\ Cardinality(l.current) \in Nat
          BY <1>1, <2>8, <5>1, FewEnough
        <5>3. Len(rest) \in Nat
          BY <2>8
        <5> QED
          BY <2>10, <2>14, <5>2, <5>3
      <4> QED
        BY <4>1, <4>2
    <3> QED
      BY <2>9, <3>1, <3>2 DEF LoopCovers
  <2>15. CASE ~(Cardinality(l.current) + Len(rest) <= Cardinality(found))
    <3>1. r = branch[d]
      BY <1>2, <1>6, <2>15 DEF rest, d
    <3>2. LoopReady(near, V, d)
      BY <2>8, <2>12 DEF LoopReady
    <3>3. LoopCovers(near, V, d, r)
      BY <2>11, <3>1, <3>2
    <3>4. Clique(near, V, r) /\ r \in SUBSET V /\ Cardinality(found) <= Cardinality(r)
      BY <2>12, <3>3 DEF LoopCovers, Clique
    <3>5. Cardinality(r) \in Nat
      BY <1>1, <3>4, FS_Subset, FS_CardinalityType
    <3>6. ASSUME NEW Q \in SUBSET V, Clique(near, V, Q),
                 \A q \in Q : q \in l.current \/ q \in ToSet(l.p),
                 \E q \in Q : q \in ToSet(l.nodes) /\ q \in ToSet(l.p)
          PROVE  Cardinality(Q) <= Cardinality(r)
      <4>0. Cardinality(Q) \in Nat
        BY <1>1, FS_Subset, FS_CardinalityType
      <4>1. CASE v \in Q
        <5>1. Cardinality(Q) <= Cardinality(found)
          BY <2>8, <3>6, <4>1
        <5> QED
          BY <2>10, <3>4, <3>5, <4>0, <5>1
      <4>2. CASE v \notin Q
        <5>1. \A q \in Q : q \in l.current \/ q \in ToSet(rest)
          BY <2>13, <3>6, <4>2
        <5>2. \E q \in Q : q \in ToSet(Tail(l.nodes)) /\ q \in ToSet(rest)
          BY <1>4, <1>6, <2>8, <3>6, <4>2
        <5> QED
          BY <2>12, <3>3, <3>6, <5>1, <5>2 DEF LoopCovers
      <4> QED
        BY <4>1, <4>2
    <3>7. Cardinality(l.best) <= Cardinality(r)
      BY <2>9, <2>10, <3>4, <3>5
    <3> QED
      BY <3>4, <3>6, <3>7 DEF LoopCovers
  <2> QED
    BY <2>14, <2>15
<1> QED
  BY <1>3, <1>5, <1>6

LEMMA FoundIs ==
  ASSUME NEW V, NEW near, Graph(near, V), NEW branch, NEW l \in Loops(V), NEW v \in ToSet(l.p)
  PROVE  \/ /\ FoundBy(branch, near, l, v) \in SUBSET V
            /\ \A b : FoundBy(b, near, l, v) = FoundBy(branch, near, l, v)
         \/ \A b : FoundBy(b, near, l, v) = b[Called(near, l, v)]
<1> DEFINE current2 == l.current \cup {v}
           p2 == Meet(l.p, near, v)
           x2 == Meet(l.x, near, v)
           c == [current |-> current2, nodes |-> BranchNodes(near, p2, x2),
                 p |-> p2, x |-> x2, best |-> l.best]
           Few == Cardinality(current2) + Len(p2) <= Cardinality(l.best)
<1>1. /\ l.current \in SUBSET V /\ l.p \in Seq(V) /\ l.x \in Seq(V) /\ l.best \in SUBSET V
      /\ IsFiniteSet(V) /\ ToSet(l.p) \subseteq V
  BY ToSetFinite DEF Loops, Graph
<1>2. current2 \in SUBSET V /\ p2 \in Seq(V)
  BY <1>1, KeepIs DEF Meet
<1>3. Cardinality(current2) \in Nat /\ Cardinality(l.best) \in Nat /\ Len(p2) \in Nat
  <2> HIDE DEF current2, p2
  <2> QED
    BY <1>1, <1>2, FS_Subset, FS_CardinalityType
<1>4. \A b : FoundBy(b, near, l, v) = Search(b, near, current2, p2, x2, l.best)
  BY DEF FoundBy
<1>5. Called(near, l, v) = c
  BY DEF Called
<1> HIDE DEF current2, p2, x2
<1>6. CASE Few
  <2>1. \A b : FoundBy(b, near, l, v) = l.best
    BY <1>3, <1>4, <1>6 DEF Search
  <2> QED
    BY <1>1, <2>1
<1>7. CASE ~Few /\ p2 \o x2 = <<>>
  <2>1. \A b : FoundBy(b, near, l, v) = current2
    BY <1>3, <1>4, <1>7 DEF Search
  <2> QED
    BY <1>2, <2>1
<1>8. CASE ~Few /\ p2 \o x2 # <<>>
  <2>1. \A b : FoundBy(b, near, l, v) = b[c]
    BY <1>3, <1>4, <1>8 DEF Search
  <2> QED
    BY <1>5, <2>1
<1> QED
  BY <1>6, <1>7, <1>8

LEMMA BranchSolves ==
  ASSUME NEW V, NEW near, Graph(near, V)
  PROVE  \E f : f = [l \in Loops(V) |-> Branch(f, near, l)]
<1> DEFINE L == Loops(V)
           T == SUBSET V
           D == [q \in [L -> T] \X L |-> Branch(q[1], near, q[2])]
           m == [l \in L |-> Size(l)]
<1>1. ASSUME NEW g \in [L -> T], NEW h \in [L -> T], NEW l \in L,
             \A k \in L : Size(k) < Size(l) => g[k] = h[k]
      PROVE  Branch(g, near, l) = Branch(h, near, l) /\ Branch(g, near, l) \in T
  <2> DEFINE v == Head(l.nodes)
             gf == FoundBy(g, near, l, v)
             hf == FoundBy(h, near, l, v)
  <2>1. Branch(g, near, l) =
          IF l.nodes = <<>> THEN l.best
          ELSE IF v \notin ToSet(l.p) THEN g[Skip(l)]
          ELSE IF Cardinality(l.current) + Len(Rest(l, v)) <= Cardinality(gf) THEN gf
          ELSE g[NextRound(l, v, gf)]
    BY BranchIs
  <2>2. Branch(h, near, l) =
          IF l.nodes = <<>> THEN l.best
          ELSE IF v \notin ToSet(l.p) THEN h[Skip(l)]
          ELSE IF Cardinality(l.current) + Len(Rest(l, v)) <= Cardinality(hf) THEN hf
          ELSE h[NextRound(l, v, hf)]
    BY BranchIs
  <2>3. l.nodes # <<>> =>
             /\ Skip(l) \in L /\ Size(Skip(l)) < Size(l)
             /\ v \in ToSet(l.p) => /\ Called(near, l, v) \in L
                                    /\ Size(Called(near, l, v)) < Size(l)
             /\ v \in ToSet(l.p) => \A f \in T : /\ NextRound(l, v, f) \in L
                                               /\ Size(NextRound(l, v, f)) < Size(l)
    BY LoopsFall
  <2>4. l.best \in T
    BY DEF Loops
  <2>5. l.nodes # <<>> /\ v \in ToSet(l.p) => gf = hf /\ gf \in T
    <3> SUFFICES ASSUME l.nodes # <<>>, v \in ToSet(l.p)
                 PROVE  gf = hf /\ gf \in T
      OBVIOUS
    <3>1. \/ gf \in T /\ hf = gf
          \/ gf = g[Called(near, l, v)] /\ hf = h[Called(near, l, v)]
      BY FoundIs
    <3>2. g[Called(near, l, v)] = h[Called(near, l, v)] /\ g[Called(near, l, v)] \in T
      <4> HIDE DEF L, T, v
      <4> QED
        BY <1>1, <2>3
    <3> QED
      BY <3>1, <3>2
  <2> HIDE DEF v, gf, hf, L, T
  <2>6. CASE l.nodes = <<>>
    BY <2>1, <2>2, <2>4, <2>6
  <2>7. CASE l.nodes # <<>> /\ v \notin ToSet(l.p)
    BY <1>1, <2>1, <2>2, <2>3, <2>7
  <2>8. CASE l.nodes # <<>> /\ v \in ToSet(l.p)
    <3>1. g[NextRound(l, v, gf)] = h[NextRound(l, v, gf)] /\ g[NextRound(l, v, gf)] \in T
      BY <1>1, <2>3, <2>5, <2>8
    <3> QED
      BY <2>1, <2>2, <2>5, <2>8, <3>1
  <2> QED
    BY <2>6, <2>7, <2>8
<1>2. m \in [L -> Nat]
  <2>1. \A l \in L : Len(l.p) \in Nat /\ Len(l.nodes) \in Nat
    BY DEF Loops
  <2>2. \A a, b \in Nat : a * a + b \in Nat
    OBVIOUS
  <2>3. \A l \in L : Size(l) \in Nat
    BY <2>1, <2>2 DEF Size
  <2> HIDE DEF L
  <2> QED
    BY <2>3
<1>3. \A g \in [L -> T] : \A l \in L : D[<<g, l>>] = Branch(g, near, l)
  <2> HIDE DEF L, T
  <2> QED
    OBVIOUS
<1>4. \A g \in [L -> T] : \A l \in L : Branch(g, near, l) \in T
  BY <1>1
<1>5. D \in [[L -> T] \X L -> T]
  <2> HIDE DEF L, T
  <2> QED
    BY <1>4
<1>6. {} \in T
  OBVIOUS
<1>7. \A l \in L : m[l] = Size(l)
  OBVIOUS
<1> HIDE DEF L, T, D, m
<1>8. Descends(L, T, {}, D, m)
  <2> SUFFICES ASSUME NEW g \in [L -> T], NEW h \in [L -> T], NEW l \in L,
                      \A k \in L : m[k] < m[l] => g[k] = h[k]
               PROVE  D[<<g, l>>] = D[<<h, l>>]
    BY <1>2, <1>5, <1>6 DEF Descends
  <2>1. \A k \in L : Size(k) < Size(l) => g[k] = h[k]
    BY <1>7
  <2>2. Branch(g, near, l) = Branch(h, near, l)
    BY <1>1, <2>1
  <2> QED
    BY <1>3, <2>2
<1>9. PICK f : Solves(f, L, T, D)
  BY <1>8, Recursion
<1>10. f \in [L -> T] /\ \A l \in L : f[l] = Branch(f, near, l)
  BY <1>3, <1>9 DEF Solves
<1>11. f = [l \in L |-> Branch(f, near, l)]
  BY <1>10
<1> QED
  BY <1>11 DEF L

LEMMA LoopsCover ==
  ASSUME NEW V, NEW near, Graph(near, V), NEW branch,
         branch = [l \in Loops(V) |-> Branch(branch, near, l)],
         NEW l0 \in Loops(V), LoopReady(near, V, l0)
  PROVE  LoopCovers(near, V, l0, branch[l0])
<1> DEFINE Bad(l) == LoopReady(near, V, l) /\ ~LoopCovers(near, V, l, branch[l])
           S == {n \in Nat : \E l \in Loops(V) : Size(l) = n /\ Bad(l)}
<1>1. \A l \in Loops(V) : branch[l] = Branch(branch, near, l)
  OBVIOUS
<1>2. \A l \in Loops(V) : Size(l) \in Nat
  <2>1. \A l \in Loops(V) : Len(l.p) \in Nat /\ Len(l.nodes) \in Nat
    BY DEF Loops
  <2>2. \A a, b \in Nat : a * a + b \in Nat
    OBVIOUS
  <2> QED
    BY <2>1, <2>2 DEF Size
<1> SUFFICES ASSUME Bad(l0)
             PROVE  FALSE
  OBVIOUS
<1> HIDE DEF Bad
<1>3. S \in SUBSET Nat /\ S # {}
  BY <1>2
<1>4. PICK n \in S : \A k \in S : n <= k
  BY <1>3, LeastNumber
<1>5. PICK l \in Loops(V) : Size(l) = n /\ Bad(l)
  BY <1>4
<1>6. ASSUME NEW k \in Loops(V), Size(k) < Size(l), LoopReady(near, V, k)
      PROVE  LoopCovers(near, V, k, branch[k])
  <2> SUFFICES ASSUME Bad(k)
               PROVE  FALSE
    BY <1>6 DEF Bad
  <2>1. Size(k) \in S
    BY <1>2
  <2>2. n <= Size(k) /\ Size(k) \in Nat /\ n \in Nat
    BY <1>2, <1>4, <2>1
  <2> QED
    BY <1>5, <1>6, <2>2
<1>7. LoopCovers(near, V, l, Branch(branch, near, l))
  BY <1>5, <1>6, BranchCovers DEF Bad
<1> QED
  BY <1>1, <1>5, <1>7 DEF Bad

-----------------------------------------------------------------------------
(***************************************************************************)
(* The causal filter keeps a largest compatible set                        *)
(***************************************************************************)
LEMMA CompatibleGraph ==
  ASSUME NEW w, w \in Seq(Hit)
  PROVE  Graph(Neighbours(w), DOMAIN w)
<1> DEFINE V == DOMAIN w
           near == Neighbours(w)
<1>1. V = 1..Len(w) /\ Len(w) \in Nat /\ \A v \in V : w[v] \in Hit
  OBVIOUS
<1>2. IsFiniteSet(V)
  BY <1>1, FS_Interval
<1>3. near = [v \in V |-> {u \in V : Compatible(w[u], w[v])}]
  BY DEF Neighbours
<1>4. near \in [V -> SUBSET V] /\ \A u, v \in V : u \in near[v] <=> Compatible(w[u], w[v])
  BY <1>3
<1>5. ASSUME NEW a \in Hit, NEW b \in Hit, Compatible(a, b)
      PROVE  Compatible(b, a)
  <2>1. {a.du, b.du} = {b.du, a.du} /\ a.t \in Int /\ b.t \in Int
    BY DEF Hit
  <2>2. (IF a.t >= b.t THEN a.t - b.t ELSE b.t - a.t)
          = (IF b.t >= a.t THEN b.t - a.t ELSE a.t - b.t)
    BY <2>1
  <2> QED
    BY <1>5, <2>1, <2>2 DEF Compatible
<1>6. \A a : ~Compatible(a, a)
  BY DEF Compatible
<1> HIDE DEF V, near
<1>7. \A u, v \in V : u \in near[v] => v \in near[u]
  BY <1>1, <1>4, <1>5
<1>8. \A v \in V : v \notin near[v]
  BY <1>4, <1>6
<1>9. Graph(near, V)
  BY <1>2, <1>4, <1>7, <1>8 DEF Graph
<1> QED
  BY <1>9 DEF near, V

LEMMA Lexicographic ==
  ASSUME NEW a, NEW b
  PROVE  (\E k \in 1..4 : a[k] < b[k] /\ \A l \in 1..(k - 1) : a[l] = b[l])
         <=> \/ a[1] < b[1]
             \/ (a[1] = b[1] /\ a[2] < b[2])
             \/ (a[1] = b[1] /\ a[2] = b[2] /\ a[3] < b[3])
             \/ (a[1] = b[1] /\ a[2] = b[2] /\ a[3] = b[3] /\ a[4] < b[4])
<1> DEFINE P(k) == a[k] < b[k] /\ \A l \in 1..(k - 1) : a[l] = b[l]
<1>1. P(1) <=> a[1] < b[1]
  OBVIOUS
<1>2. P(2) <=> (a[1] = b[1] /\ a[2] < b[2])
  OBVIOUS
<1>3. P(3) <=> (a[1] = b[1] /\ a[2] = b[2] /\ a[3] < b[3])
  OBVIOUS
<1>4. P(4) <=> (a[1] = b[1] /\ a[2] = b[2] /\ a[3] = b[3] /\ a[4] < b[4])
  OBVIOUS
<1> HIDE DEF P
<1>5. (\E k \in 1..4 : P(k)) <=> (P(1) \/ P(2) \/ P(3) \/ P(4))
  OBVIOUS
<1>6. (\E k \in 1..4 : P(k)) <=> \/ a[1] < b[1]
                                \/ (a[1] = b[1] /\ a[2] < b[2])
                                \/ (a[1] = b[1] /\ a[2] = b[2] /\ a[3] < b[3])
                                \/ (a[1] = b[1] /\ a[2] = b[2] /\ a[3] = b[3] /\ a[4] < b[4])
  BY <1>1, <1>2, <1>3, <1>4, <1>5
<1> QED
  BY <1>6 DEF P

LEMMA CandidatesAre ==
  ASSUME NEW w \in Seq(Hit), NEW near, Graph(near, DOMAIN w)
  PROVE  Candidates(w, near) \in Seq(DOMAIN w) /\ ToSet(Candidates(w, near)) = DOMAIN w
<1> DEFINE V == DOMAIN w
           degree == [v \in V |-> Cardinality(near[v])]
           key(v) == <<-degree[v], w[v].t, w[v].du, v>>
           before(u, v) == \E k \in 1..4 : /\ key(u)[k] < key(v)[k]
                                           /\ \A l \in 1..(k - 1) : key(u)[l] = key(v)[l]
           R == {q \in V \X V : before(q[1], q[2])}
           s == Candidates(w, near)
<1>1. IsFiniteSet(V) /\ near \in [V -> SUBSET V]
  BY DEF Graph
<1>2. \A v \in V : -degree[v] \in Int /\ w[v].t \in Int /\ w[v].du \in Int /\ v \in Int
  <2>1. \A v \in V : near[v] \subseteq V
    BY <1>1
  <2>2. \A v \in V : IsFiniteSet(near[v])
    BY <1>1, <2>1, FS_Subset
  <2>3. \A v \in V : degree[v] \in Nat
    BY <2>2, FS_CardinalityType
  <2>4. V = 1..Len(w) /\ \A v \in V : w[v] \in Hit
    OBVIOUS
  <2> HIDE DEF degree, V
  <2> QED
    BY <2>3, <2>4 DEF Hit
<1> HIDE DEF degree
<1>3. ASSUME NEW u, NEW v
      PROVE  before(u, v) <=>
               \/ -degree[u] < -degree[v]
               \/ (-degree[u] = -degree[v] /\ w[u].t < w[v].t)
               \/ (-degree[u] = -degree[v] /\ w[u].t = w[v].t /\ w[u].du < w[v].du)
               \/ (-degree[u] = -degree[v] /\ w[u].t = w[v].t /\ w[u].du = w[v].du /\ u < v)
  <2>1. /\ key(u)[1] = -degree[u] /\ key(u)[2] = w[u].t /\ key(u)[3] = w[u].du /\ key(u)[4] = u
        /\ key(v)[1] = -degree[v] /\ key(v)[2] = w[v].t /\ key(v)[3] = w[v].du /\ key(v)[4] = v
    OBVIOUS
  <2> HIDE DEF key
  <2>2. before(u, v) <=>
             \/ key(u)[1] < key(v)[1]
             \/ (key(u)[1] = key(v)[1] /\ key(u)[2] < key(v)[2])
             \/ (key(u)[1] = key(v)[1] /\ key(u)[2] = key(v)[2] /\ key(u)[3] < key(v)[3])
             \/ (/\ key(u)[1] = key(v)[1] /\ key(u)[2] = key(v)[2] /\ key(u)[3] = key(v)[3]
                 /\ key(u)[4] < key(v)[4])
    BY Lexicographic
  <2> HIDE DEF before
  <2> QED
    BY <2>1, <2>2
<1>4. \A u, v \in V : <<u, v>> \in R <=> before(u, v)
  <2> HIDE DEF before, V
  <2> QED
    OBVIOUS
<1>5. s = [k \in 1..Cardinality(V) |->
               CHOOSE e \in V : Cardinality({d \in V : before(d, e)}) = k - 1]
  BY DEF Candidates, Ordered, degree
<1> HIDE DEF before, R, V, s
<1>6. \A e \in V : RankOf(e, R, V) = Cardinality({d \in V : before(d, e)})
  <2> SUFFICES ASSUME NEW e \in V
               PROVE  RankOf(e, R, V) = Cardinality({d \in V : before(d, e)})
    OBVIOUS
  <2>1. {d \in V : <<d, e>> \in R} = {d \in V : before(d, e)}
    BY <1>4
  <2> QED
    BY <2>1 DEF RankOf
<1>7. StrictOrder(R, V)
  <2>1. \A a \in V : <<a, a>> \notin R
    BY <1>2, <1>3, <1>4
  <2>2. ASSUME NEW a \in V, NEW b \in V, a # b
        PROVE  <<a, b>> \in R \/ <<b, a>> \in R
    BY <1>2, <1>3, <1>4, <2>2
  <2>3. ASSUME NEW a \in V, NEW b \in V, NEW c \in V, <<a, b>> \in R, <<b, c>> \in R
        PROVE  <<a, c>> \in R
    <3>1. before(a, b) /\ before(b, c)
      BY <1>4, <2>3
    <3>2. before(a, c)
      BY <1>2, <1>3, <3>1
    <3> QED
      BY <1>4, <3>2
  <2> QED
    BY <2>1, <2>2, <2>3 DEF StrictOrder
<1>8. Ranks(s, R, V)
  <2>1. ASSUME NEW k \in 1..Cardinality(V), NEW e \in V, RankOf(e, R, V) = k - 1
        PROVE  s[k] \in V /\ RankOf(s[k], R, V) = k - 1
    <3>1. Cardinality({d \in V : before(d, e)}) = k - 1
      BY <1>6, <2>1
    <3>2. s[k] = CHOOSE f \in V : Cardinality({d \in V : before(d, f)}) = k - 1
      BY <1>5
    <3>3. s[k] \in V /\ Cardinality({d \in V : before(d, s[k])}) = k - 1
      BY <3>1, <3>2
    <3> QED
      BY <1>6, <3>3
  <2>2. s = [k \in 1..Cardinality(V) |-> s[k]]
    <3> DEFINE F(k) == CHOOSE e \in V : Cardinality({d \in V : before(d, e)}) = k - 1
    <3>1. s = [k \in 1..Cardinality(V) |-> F(k)]
      BY <1>5
    <3> HIDE DEF F
    <3> QED
      BY <3>1
  <2> QED
    BY <2>1, <2>2 DEF Ranks
<1>9. s \in Seq(V) /\ ToSet(s) = V
  BY <1>1, <1>7, <1>8, Ranked
<1> QED
  BY <1>9 DEF s, V

\* Whatever the hits and the distances, the pruned search of t3_filter.h
\* finds a largest set of hits each two of which are compatible.
THEOREM SearchFindsLargest ==
  ASSUME NEW w \in Seq(Hit)
  PROVE  IsLargestCompatible(w, MaximumCausalSubset(w))
<1> DEFINE V == DOMAIN w
           near == Neighbours(w)
           p == Candidates(w, near)
           branch[loop \in Loops(V)] == Branch(branch, near, loop)
           r == Search(branch, near, {}, p, <<>>, {})
           l == [current |-> {}, nodes |-> BranchNodes(near, p, <<>>),
                 p |-> p, x |-> <<>>, best |-> {}]
<1>1. Graph(near, V)
  BY CompatibleGraph
<1>2. p \in Seq(V) /\ ToSet(p) = V
  BY <1>1, CandidatesAre
<1>3. MaximumCausalSubset(w) = r
  BY DEF MaximumCausalSubset
<1>4. branch = CHOOSE f : f = [loop \in Loops(V) |-> Branch(f, near, loop)]
  BY DEF branch
<1>5. \A u, v \in V : u \in near[v] <=> Compatible(w[u], w[v])
  BY DEF Neighbours
<1> HIDE DEF branch, near, p, V, r
<1>6. branch = [loop \in Loops(V) |-> Branch(branch, near, loop)]
  BY <1>1, <1>4, BranchSolves
<1>7. Ready(near, V, {}, p, <<>>, {})
  <2>1. ToSet(<<>>) = {} /\ <<>> \in Seq(V)
    BY DEF ToSet
  <2> QED
    BY <1>2, <2>1 DEF Ready, Clique
<1>8. l \in Loops(V)
  <2>1. BranchNodes(near, p, <<>>) \in Seq(V) /\ <<>> \in Seq(V)
    BY <1>2, NodesOfP
  <2> QED
    BY <1>2, <2>1 DEF Loops
<1>9. LoopReady(near, V, l)
  BY <1>7 DEF LoopReady
<1>10. LoopCovers(near, V, l, branch[l])
  <2> HIDE DEF l
  <2> QED
    BY <1>1, <1>6, <1>8, <1>9, LoopsCover
<1>11. Covers(near, V, {}, p, {}, r)
  BY <1>1, <1>7, <1>10, SearchCovers DEF r
<1>12. \A Q \in SUBSET V : Clique(near, V, Q) <=> PairwiseCompatible(w, Q)
  BY <1>5 DEF Clique, PairwiseCompatible
<1>13. r \in SUBSET V /\ PairwiseCompatible(w, r)
  BY <1>11, <1>12 DEF Covers, Clique
<1>14. ASSUME NEW Q \in SUBSET V, PairwiseCompatible(w, Q)
       PROVE  Cardinality(Q) <= Cardinality(r)
  BY <1>2, <1>11, <1>12, <1>14 DEF Covers
<1>15. IsLargestCompatible(w, r)
  BY <1>13, <1>14 DEF IsLargestCompatible, V
<1> QED
  BY <1>3, <1>15

-----------------------------------------------------------------------------
(***************************************************************************)
(* The window and its counts                                               *)
(***************************************************************************)
Counts == UNION {[D -> Nat] : D \in SUBSET Nat}
Tally == [w : Seq(Hit), c : Counts, u : Int]

\* The DUs that hits a to b of q are from; what a window of them counts.
Within(q, a, b) == {q[k].du : k \in a..b}
From(q, a, b, d) == {k \in a..b : q[k].du = d}
Number(q, a, b, d) == Cardinality(From(q, a, b, d))
Tallies(s, q, a, b) ==
  /\ s \in Tally
  /\ s.c = [d \in Within(q, a, b) |-> Number(q, a, b, d)]
  /\ s.u = Cardinality(Within(q, a, b))

LEMMA CountIs ==
  ASSUME NEW c \in Counts, NEW d
  PROVE  Count(c, d) \in Nat /\ (d \notin DOMAIN c => Count(c, d) = 0)
<1>1. PICK D \in SUBSET Nat : c \in [D -> Nat]
  BY DEF Counts
<1> QED
  BY <1>1 DEF Count

LEMMA InCounts ==
  ASSUME NEW D \in SUBSET Nat, NEW c \in [D -> Nat]
  PROVE  c \in Counts
BY DEF Counts

LEMMA AddHitIs ==
  ASSUME NEW s \in Tally, NEW h \in Hit
  PROVE  /\ AddHit(s, h) \in Tally
         /\ AddHit(s, h).w = Append(s.w, h)
         /\ AddHit(s, h).u = IF Count(s.c, h.du) = 0 THEN s.u + 1 ELSE s.u
         /\ AddHit(s, h).c = [d \in DOMAIN s.c \cup {h.du} |->
                                IF d = h.du THEN Count(s.c, d) + 1 ELSE s.c[d]]
<1>1. s.w \in Seq(Hit) /\ s.c \in Counts /\ s.u \in Int /\ h.du \in Nat
  BY DEF Tally, Hit
<1>2. PICK D \in SUBSET Nat : s.c \in [D -> Nat]
  BY <1>1 DEF Counts
<1>3. Count(s.c, h.du) \in Nat
  BY <1>1, CountIs
<1> DEFINE c == [d \in DOMAIN s.c \cup {h.du} |->
                   IF d = h.du THEN Count(s.c, d) + 1 ELSE s.c[d]]
           r == AddHit(s, h)
<1>4. c \in [D \cup {h.du} -> Nat] /\ D \cup {h.du} \in SUBSET Nat
  <2>1. DOMAIN s.c = D /\ \A d \in D : s.c[d] \in Nat
    BY <1>2
  <2>2. \A d \in D \cup {h.du} : (IF d = h.du THEN Count(s.c, d) + 1 ELSE s.c[d]) \in Nat
    BY <1>3, <2>1
  <2> QED
    BY <1>1, <2>1, <2>2
<1>5. c \in Counts
  <2> HIDE DEF c
  <2> QED
    BY <1>4, InCounts
<1>7. /\ r = [w |-> Append(s.w, h), c |-> c,
              u |-> IF Count(s.c, h.du) = 0 THEN s.u + 1 ELSE s.u]
  <2> HIDE DEF c
  <2> QED
    BY DEF AddHit, c
<1>8. Append(s.w, h) \in Seq(Hit)
  BY <1>1
<1> HIDE DEF c, r
<1>9. r \in Tally
  BY <1>1, <1>5, <1>7, <1>8 DEF Tally
<1> QED
  BY <1>7, <1>9 DEF c, r

LEMMA RemoveHitIs ==
  ASSUME NEW s \in Tally, NEW h \in Hit
  PROVE  /\ RemoveHit(s, h) \in Tally
         /\ RemoveHit(s, h).w = s.w
         /\ RemoveHit(s, h).u = IF Count(s.c, h.du) = 1 THEN s.u - 1 ELSE s.u
         /\ Count(s.c, h.du) = 1 =>
              RemoveHit(s, h).c = [d \in DOMAIN s.c \ {h.du} |-> s.c[d]]
         /\ Count(s.c, h.du) > 1 =>
              RemoveHit(s, h).c = [d \in DOMAIN s.c |->
                                     IF d = h.du THEN s.c[d] - 1 ELSE s.c[d]]
<1>1. s.w \in Seq(Hit) /\ s.c \in Counts /\ s.u \in Int /\ h.du \in Nat
  BY DEF Tally, Hit
<1>2. PICK D \in SUBSET Nat : s.c \in [D -> Nat]
  BY <1>1 DEF Counts
<1>3. Count(s.c, h.du) \in Nat
  BY <1>1, CountIs
<1>4. s = [w |-> s.w, c |-> s.c, u |-> s.u]
  BY DEF Tally
<1> DEFINE r == RemoveHit(s, h)
           less == [d \in DOMAIN s.c \ {h.du} |-> s.c[d]]
           one == [d \in DOMAIN s.c |-> IF d = h.du THEN s.c[d] - 1 ELSE s.c[d]]
<1>5. CASE Count(s.c, h.du) = 0
  BY <1>1, <1>5 DEF RemoveHit
<1>6. CASE Count(s.c, h.du) = 1
  <2>1. less \in [D \ {h.du} -> Nat] /\ D \ {h.du} \in SUBSET Nat
    BY <1>2
  <2> HIDE DEF less
  <2>2. less \in Counts
    BY <2>1, InCounts
  <2>3. Restrict(s.c, DOMAIN s.c \ {h.du}) = less
    BY DEF Restrict, less
  <2>4. r = [s EXCEPT !.c = less, !.u = @ - 1]
    <3>1. Count(s.c, h.du) = 1 /\ ~(Count(s.c, h.du) = 0)
      BY <1>6
    <3> QED
      BY <3>1, <2>3, Zenon DEF RemoveHit
  <2>5. r = [w |-> s.w, c |-> less, u |-> s.u - 1]
    BY <1>4, <2>4
  <2>6. r \in Tally /\ r.w = s.w /\ r.u = s.u - 1 /\ r.c = less
    BY <1>1, <2>2, <2>5 DEF Tally
  <2> QED
    BY <1>6, <2>6 DEF less
<1>7. CASE Count(s.c, h.du) > 1
  <2>a. DOMAIN s.c = D /\ \A d \in D : s.c[d] \in Nat
    BY <1>2
  <2>b. ~(Count(s.c, h.du) = 0) /\ ~(Count(s.c, h.du) = 1)
    BY <1>7
  <2>c. h.du \in DOMAIN s.c
    BY <1>1, <2>b, CountIs
  <2>0. h.du \in DOMAIN s.c /\ s.c[h.du] > 1 /\ s.c[h.du] \in Nat
    BY <2>a, <2>c, <1>7 DEF Count
  <2>1. one \in [D -> Nat]
    BY <1>2, <2>0
  <2>3. [s.c EXCEPT ![h.du] = @ - 1] = one
    BY <1>2
  <2> HIDE DEF one
  <2>2. one \in Counts
    BY <2>1, InCounts
  <2>4. r = [s EXCEPT !.c[h.du] = @ - 1]
    BY <2>b, Zenon DEF RemoveHit
  <2>5. r = [s EXCEPT !.c = [s.c EXCEPT ![h.du] = @ - 1]]
    BY <2>4
  <2>6. r = [w |-> s.w, c |-> one, u |-> s.u]
    BY <1>4, <2>3, <2>5
  <2>7. r \in Tally /\ r.w = s.w /\ r.u = s.u /\ r.c = one
    BY <1>1, <2>2, <2>6 DEF Tally
  <2> QED
    BY <1>7, <2>7 DEF one
<1> QED
  BY <1>3, <1>5, <1>6, <1>7

LEMMA WithinIs ==
  ASSUME NEW q \in Seq(Hit), NEW a \in 1..(Len(q) + 1), NEW b \in 0..Len(q)
  PROVE  /\ Within(q, a, b) \in SUBSET Nat /\ IsFiniteSet(Within(q, a, b))
         /\ \A d : IsFiniteSet(From(q, a, b, d))
         /\ \A d : d \in Within(q, a, b) <=> Number(q, a, b, d) > 0
         /\ \A d : Number(q, a, b, d) \in Nat
<1>1. a..b \subseteq 1..Len(q) /\ \A k \in 1..Len(q) : q[k] \in Hit
  OBVIOUS
<1>2. \A k \in a..b : q[k].du \in Nat
  BY <1>1 DEF Hit
<1>3. IsFiniteSet(a..b)
  BY FS_Interval
<1>4. IsFiniteSet(Within(q, a, b))
  <2> DEFINE f == [k \in a..b |-> q[k].du]
  <2>1. f \in Surjection(a..b, Within(q, a, b))
    BY DEF Within, Surjection
  <2> HIDE DEF f
  <2> QED
    BY <1>3, <2>1, FS_Surjection
<1>5. \A d : From(q, a, b, d) \in SUBSET (a..b)
  BY DEF From
<1>6. \A d : IsFiniteSet(From(q, a, b, d))
  BY <1>3, <1>5, FS_Subset
<1>7. \A d : Number(q, a, b, d) \in Nat
  BY <1>6, FS_CardinalityType DEF Number
<1>8. \A d : Number(q, a, b, d) = 0 <=> From(q, a, b, d) = {}
  BY <1>6, FS_EmptySet DEF Number
<1>9. \A d : d \in Within(q, a, b) <=> From(q, a, b, d) # {}
  BY DEF Within, From
<1>10. \A d : d \in Within(q, a, b) <=> Number(q, a, b, d) > 0
  BY <1>7, <1>8, <1>9
<1>11. Within(q, a, b) \in SUBSET Nat
  BY <1>2 DEF Within
<1> QED
  BY <1>4, <1>6, <1>7, <1>10, <1>11

\* A hit more at the end of the window.
LEMMA AddTallies ==
  ASSUME NEW q \in Seq(Hit), NEW a \in 1..(Len(q) + 1), NEW b \in 0..(Len(q) - 1), a <= b + 1,
         NEW s, Tallies(s, q, a, b)
  PROVE  Tallies(AddHit(s, q[b + 1]), q, a, b + 1)
<1> DEFINE h == q[b + 1]
           r == AddHit(s, h)
           n(d) == Number(q, a, b, d)
           m(d) == Number(q, a, b + 1, d)
<1>1. h \in Hit /\ b + 1 \in 0..Len(q) /\ b \in 0..Len(q)
  OBVIOUS
<1>2. /\ s \in Tally /\ s.u = Cardinality(Within(q, a, b))
      /\ s.c = [d \in Within(q, a, b) |-> n(d)]
  BY DEF Tallies
<1>3. a..(b + 1) = (a..b) \cup {b + 1} /\ b + 1 \notin a..b
  OBVIOUS
<1>4. Within(q, a, b + 1) = Within(q, a, b) \cup {h.du}
  BY <1>3 DEF Within
<1>5. /\ IsFiniteSet(Within(q, a, b)) /\ Cardinality(Within(q, a, b)) \in Nat
      /\ \A d : n(d) \in Nat /\ IsFiniteSet(From(q, a, b, d))
      /\ \A d : d \in Within(q, a, b) <=> n(d) > 0
  <2>1. /\ IsFiniteSet(Within(q, a, b))
        /\ \A d : n(d) \in Nat /\ IsFiniteSet(From(q, a, b, d))
        /\ \A d : d \in Within(q, a, b) <=> n(d) > 0
    BY <1>1, WithinIs
  <2> QED
    BY <2>1, FS_CardinalityType
<1>6. \A d : d # h.du => m(d) = n(d)
  <2> SUFFICES ASSUME NEW d, d # h.du
               PROVE  m(d) = n(d)
    OBVIOUS
  <2>1. From(q, a, b + 1, d) = From(q, a, b, d)
    BY <1>3 DEF From
  <2> QED
    BY <2>1 DEF Number
<1>7. m(h.du) = n(h.du) + 1
  <2>1. From(q, a, b + 1, h.du) = From(q, a, b, h.du) \cup {b + 1}
    BY <1>3 DEF From
  <2>2. b + 1 \notin From(q, a, b, h.du) /\ IsFiniteSet(From(q, a, b, h.du))
    BY <1>3, <1>5 DEF From
  <2> QED
    BY <2>1, <2>2, FS_AddElement DEF Number
<1>8. Count(s.c, h.du) = n(h.du)
  <2> HIDE DEF n
  <2> QED
    BY <1>2, <1>5 DEF Count
<1>9. /\ r \in Tally
      /\ r.u = IF Count(s.c, h.du) = 0 THEN s.u + 1 ELSE s.u
      /\ r.c = [d \in DOMAIN s.c \cup {h.du} |->
                  IF d = h.du THEN Count(s.c, d) + 1 ELSE s.c[d]]
  BY <1>1, <1>2, AddHitIs
<1> HIDE DEF h, r, n, m
<1>10. r.c = [d \in Within(q, a, b + 1) |-> m(d)]
  <2>1. DOMAIN s.c = Within(q, a, b) /\ \A d \in Within(q, a, b) : s.c[d] = n(d)
    BY <1>2
  <2>2. \A d \in Within(q, a, b) \cup {h.du} :
          (IF d = h.du THEN Count(s.c, d) + 1 ELSE s.c[d]) = m(d)
    BY <1>6, <1>7, <1>8, <2>1
  <2> QED
    BY <1>4, <1>9, <2>1, <2>2
<1>11. r.u = Cardinality(Within(q, a, b + 1))
  <2>1. Cardinality(Within(q, a, b) \cup {h.du}) =
          IF h.du \in Within(q, a, b) THEN Cardinality(Within(q, a, b))
                                      ELSE Cardinality(Within(q, a, b)) + 1
    BY <1>5, FS_AddElement
  <2>2. h.du \in Within(q, a, b) <=> Count(s.c, h.du) # 0
    BY <1>5, <1>8
  <2> QED
    BY <1>2, <1>4, <1>9, <2>1, <2>2
<1> QED
  BY <1>9, <1>10, <1>11 DEF Tallies, r, m, h

\* A hit less at its front.
LEMMA RemoveTallies ==
  ASSUME NEW q \in Seq(Hit), NEW b \in 0..Len(q), NEW a \in 1..b,
         NEW s, Tallies(s, q, a, b)
  PROVE  Tallies(RemoveHit(s, q[a]), q, a + 1, b)
<1> DEFINE h == q[a]
           r == RemoveHit(s, h)
           n(d) == Number(q, a, b, d)
           m(d) == Number(q, a + 1, b, d)
<1>1. h \in Hit /\ a + 1 \in 1..(Len(q) + 1) /\ a \in 1..(Len(q) + 1)
  OBVIOUS
<1>2. /\ s \in Tally /\ s.u = Cardinality(Within(q, a, b))
      /\ s.c = [d \in Within(q, a, b) |-> n(d)]
  BY DEF Tallies
<1>3. a..b = ((a + 1)..b) \cup {a} /\ a \notin (a + 1)..b
  OBVIOUS
<1>4. Within(q, a, b) = Within(q, a + 1, b) \cup {h.du}
  BY <1>3 DEF Within
<1>5. /\ IsFiniteSet(Within(q, a + 1, b)) /\ Cardinality(Within(q, a + 1, b)) \in Nat
      /\ \A d : m(d) \in Nat /\ IsFiniteSet(From(q, a + 1, b, d))
      /\ \A d : d \in Within(q, a + 1, b) <=> m(d) > 0
  <2>1. /\ IsFiniteSet(Within(q, a + 1, b))
        /\ \A d : m(d) \in Nat /\ IsFiniteSet(From(q, a + 1, b, d))
        /\ \A d : d \in Within(q, a + 1, b) <=> m(d) > 0
    BY <1>1, WithinIs
  <2> QED
    BY <2>1, FS_CardinalityType
<1>6. \A d : d # h.du => m(d) = n(d)
  <2> SUFFICES ASSUME NEW d, d # h.du
               PROVE  m(d) = n(d)
    OBVIOUS
  <2>1. From(q, a, b, d) = From(q, a + 1, b, d)
    BY <1>3 DEF From
  <2> QED
    BY <2>1 DEF Number
<1>7. n(h.du) = m(h.du) + 1
  <2>1. From(q, a, b, h.du) = From(q, a + 1, b, h.du) \cup {a}
    BY <1>3 DEF From
  <2>2. a \notin From(q, a + 1, b, h.du) /\ IsFiniteSet(From(q, a + 1, b, h.du))
    BY <1>3, <1>5 DEF From
  <2> QED
    BY <2>1, <2>2, FS_AddElement DEF Number
<1> HIDE DEF h, r, n, m
<1>8. /\ DOMAIN s.c = Within(q, a + 1, b) \cup {h.du}
      /\ \A d \in DOMAIN s.c : s.c[d] = n(d)
      /\ Count(s.c, h.du) = n(h.du)
  BY <1>2, <1>4 DEF Count
<1>9. /\ r \in Tally
      /\ r.u = IF Count(s.c, h.du) = 1 THEN s.u - 1 ELSE s.u
      /\ Count(s.c, h.du) = 1 => r.c = [d \in DOMAIN s.c \ {h.du} |-> s.c[d]]
      /\ Count(s.c, h.du) > 1 =>
           r.c = [d \in DOMAIN s.c |-> IF d = h.du THEN s.c[d] - 1 ELSE s.c[d]]
  BY <1>1, <1>2, RemoveHitIs DEF r
<1>10. s.u = IF h.du \in Within(q, a + 1, b) THEN Cardinality(Within(q, a + 1, b))
                                            ELSE Cardinality(Within(q, a + 1, b)) + 1
  <2>1. Cardinality(Within(q, a + 1, b) \cup {h.du}) =
          IF h.du \in Within(q, a + 1, b) THEN Cardinality(Within(q, a + 1, b))
                                          ELSE Cardinality(Within(q, a + 1, b)) + 1
    <3>1. IsFiniteSet(Within(q, a + 1, b))
      BY <1>5
    <3> QED
      BY <3>1, FS_AddElement
  <2> QED
    BY <1>2, <1>4, <2>1
<1>11. CASE h.du \in Within(q, a + 1, b)
  <2>1. Count(s.c, h.du) > 1 /\ ~(Count(s.c, h.du) = 1)
    BY <1>5, <1>7, <1>8, <1>11
  <2>2. DOMAIN s.c = Within(q, a + 1, b)
    BY <1>8, <1>11
  <2>3. \A d \in Within(q, a + 1, b) : (IF d = h.du THEN s.c[d] - 1 ELSE s.c[d]) = m(d)
    BY <1>5, <1>6, <1>7, <1>8, <2>2
  <2>4. r.c = [d \in Within(q, a + 1, b) |-> m(d)]
    BY <1>9, <2>1, <2>2, <2>3
  <2>5. r.u = Cardinality(Within(q, a + 1, b))
    BY <1>9, <1>10, <1>11, <2>1
  <2> QED
    BY <1>9, <2>4, <2>5 DEF Tallies, r, m, h
<1>12. CASE h.du \notin Within(q, a + 1, b)
  <2>1. Count(s.c, h.du) = 1
    BY <1>5, <1>7, <1>8, <1>12
  <2>2. DOMAIN s.c \ {h.du} = Within(q, a + 1, b)
    BY <1>8, <1>12
  <2>3. \A d \in Within(q, a + 1, b) : s.c[d] = m(d)
    BY <1>6, <1>8, <1>12
  <2>4. r.c = [d \in Within(q, a + 1, b) |-> m(d)]
    BY <1>9, <2>1, <2>2, <2>3
  <2>5. r.u = Cardinality(Within(q, a + 1, b))
    BY <1>5, <1>9, <1>10, <1>12, <2>1
  <2> QED
    BY <1>9, <2>4, <2>5 DEF Tallies, r, m, h
<1> QED
  BY <1>11, <1>12

LEMMA AppendSubSeq ==
  ASSUME NEW V, NEW q \in Seq(V), NEW a \in Nat, 1 <= a, NEW m \in Nat, a <= m + 1, m + 1 <= Len(q)
  PROVE  Append(SubSeq(q, a, m), q[m + 1]) = SubSeq(q, a, m + 1)
<1>1. Len(q) \in Nat /\ m + 1 \in a..Len(q) /\ a \in 1..Len(q) /\ q[m + 1] \in V
  OBVIOUS
<1>2. SubSeq(q, a, m + 1) = SubSeq(q, a, (m + 1) - 1) \o <<q[m + 1]>>
  BY <1>1, SubSeqRecursiveSecond
<1>3. (m + 1) - 1 = m
  OBVIOUS
<1>4. \A k \in a..m : q[k] \in V
  OBVIOUS
<1>5. SubSeq(q, a, m) \in Seq(V)
  BY <1>4, SubSeqProperties
<1>6. Append(SubSeq(q, a, m), q[m + 1]) = SubSeq(q, a, m) \o <<q[m + 1]>>
  BY <1>1, <1>5, AppendIsConcat
<1> QED
  BY <1>2, <1>3, <1>6

LEMMA AddSteps ==
  ASSUME NEW base \in Tally, NEW s \in Seq(Hit)
  PROVE  \E h : /\ h[0] = base
                /\ \A k \in 1..Len(s) : h[k] = AddHit(h[k - 1], s[k])
                /\ FoldLeft(AddHit, base, s) = h[Len(s)]
<1> DEFINE L == SUBSET DOMAIN s
           iter[d \in L] == IF d = {} THEN base ELSE AddHit(iter[d \ {Max(d)}], s[Max(d)])
           op == [q \in Tally \X Hit |-> AddHit(q[1], q[2])]
<1>1. FoldLeft(AddHit, base, s) = iter[DOMAIN s]
  BY DEF FoldLeft, MapThenFoldSet
<1>2. iter = CHOOSE g : g = [d \in L |->
                IF d = {} THEN base ELSE AddHit(g[d \ {Max(d)}], s[Max(d)])]
  BY DEF iter
<1> HIDE DEF iter
<1>3. op \in [Tally \X Hit -> Tally]
  <2>1. \A q \in Tally, e \in Hit : AddHit(q, e) \in Tally
    BY AddHitIs
  <2>2. \A q \in Tally \X Hit : q[1] \in Tally /\ q[2] \in Hit
    OBVIOUS
  <2> QED
    BY <2>1, <2>2
<1>a. PICK g : FoldOf(g, Tally, op, base, s)
  <2> HIDE DEF op
  <2> QED
    BY <1>3, FoldSolves
<1>4. /\ g \in [L -> Tally]
      /\ g = [d \in L |-> IF d = {} THEN base ELSE op[<<g[d \ {Max(d)}], s[Max(d)]>>]]
  BY <1>a DEF FoldOf
<1>5. ASSUME NEW d \in L, d # {}
      PROVE  s[Max(d)] \in Hit /\ g[d \ {Max(d)}] \in Tally
  <2>1. Len(s) \in Nat /\ DOMAIN s = 1..Len(s) /\ \A k \in DOMAIN s : s[k] \in Hit
    OBVIOUS
  <2>2. Max(d) \in d
    BY <1>5, <2>1, LastIn
  <2>3. d \ {Max(d)} \in L /\ Max(d) \in DOMAIN s
    BY <2>2
  <2> HIDE DEF L
  <2> QED
    BY <1>4, <2>1, <2>3
<1>6. \A d \in L : d # {} => op[<<g[d \ {Max(d)}], s[Max(d)]>>] = AddHit(g[d \ {Max(d)}], s[Max(d)])
  <2> HIDE DEF L
  <2> QED
    BY <1>5
<1>7. g = [d \in L |-> IF d = {} THEN base ELSE AddHit(g[d \ {Max(d)}], s[Max(d)])]
  <2> HIDE DEF L, op
  <2> QED
    BY <1>4, <1>6
<1>8. iter = [d \in L |-> IF d = {} THEN base ELSE AddHit(iter[d \ {Max(d)}], s[Max(d)])]
  <2> HIDE DEF L
  <2> QED
    BY <1>2, <1>7
<1> DEFINE h == [k \in 0..Len(s) |-> iter[1..k]]
<1>9. Len(s) \in Nat /\ DOMAIN s = 1..Len(s)
  OBVIOUS
<1>10. h[0] = base
  <2>1. 1..0 = {} /\ {} \in L
    OBVIOUS
  <2> QED
    BY <1>8, <1>9, <2>1
<1>11. ASSUME NEW k \in 1..Len(s)
       PROVE  h[k] = AddHit(h[k - 1], s[k])
  <2>1. k \in Nat /\ k # 0 /\ 1..k # {} /\ 1..k \in L /\ k - 1 \in 0..Len(s) /\ k \in 0..Len(s)
    <3> HIDE DEF op, h
    <3>1. k \in Nat /\ k # 0 /\ k - 1 \in 0..Len(s) /\ k \in 0..Len(s) /\ k \in 1..k
      BY <1>9
    <3>2. \A j \in 1..k : j \in DOMAIN s
      BY <1>9
    <3> QED
      BY <3>1, <3>2
  <2>2. Max(1..k) = k /\ (1..k) \ {k} = 1..(k - 1)
    BY <2>1, LastOf
  <2> HIDE DEF L
  <2>3. iter[1..k] = AddHit(iter[1..(k - 1)], s[k])
    BY <1>8, <2>1, <2>2
  <2> QED
    BY <2>1, <2>3
<1>12. h[Len(s)] = iter[DOMAIN s]
  BY <1>9
<1> HIDE DEF h
<1> QED
  BY <1>1, <1>10, <1>11, <1>12

LEMMA RemoveSteps ==
  ASSUME NEW base \in Tally, NEW s \in Seq(Hit)
  PROVE  \E h : /\ h[0] = base
                /\ \A k \in 1..Len(s) : h[k] = RemoveHit(h[k - 1], s[k])
                /\ FoldLeft(RemoveHit, base, s) = h[Len(s)]
<1> DEFINE L == SUBSET DOMAIN s
           iter[d \in L] == IF d = {} THEN base ELSE RemoveHit(iter[d \ {Max(d)}], s[Max(d)])
           op == [q \in Tally \X Hit |-> RemoveHit(q[1], q[2])]
<1>1. FoldLeft(RemoveHit, base, s) = iter[DOMAIN s]
  BY DEF FoldLeft, MapThenFoldSet
<1>2. iter = CHOOSE g : g = [d \in L |->
                IF d = {} THEN base ELSE RemoveHit(g[d \ {Max(d)}], s[Max(d)])]
  BY DEF iter
<1> HIDE DEF iter
<1>3. op \in [Tally \X Hit -> Tally]
  <2>1. \A q \in Tally, e \in Hit : RemoveHit(q, e) \in Tally
    BY RemoveHitIs
  <2>2. \A q \in Tally \X Hit : q[1] \in Tally /\ q[2] \in Hit
    OBVIOUS
  <2> QED
    BY <2>1, <2>2
<1>a. PICK g : FoldOf(g, Tally, op, base, s)
  <2> HIDE DEF op
  <2> QED
    BY <1>3, FoldSolves
<1>4. /\ g \in [L -> Tally]
      /\ g = [d \in L |-> IF d = {} THEN base ELSE op[<<g[d \ {Max(d)}], s[Max(d)]>>]]
  BY <1>a DEF FoldOf
<1>5. ASSUME NEW d \in L, d # {}
      PROVE  s[Max(d)] \in Hit /\ g[d \ {Max(d)}] \in Tally
  <2>1. Len(s) \in Nat /\ DOMAIN s = 1..Len(s) /\ \A k \in DOMAIN s : s[k] \in Hit
    OBVIOUS
  <2>2. Max(d) \in d
    BY <1>5, <2>1, LastIn
  <2>3. d \ {Max(d)} \in L /\ Max(d) \in DOMAIN s
    BY <2>2
  <2> HIDE DEF L
  <2> QED
    BY <1>4, <2>1, <2>3
<1>6. \A d \in L : d # {} => op[<<g[d \ {Max(d)}], s[Max(d)]>>]
                                 = RemoveHit(g[d \ {Max(d)}], s[Max(d)])
  <2> HIDE DEF L
  <2> QED
    BY <1>5
<1>7. g = [d \in L |-> IF d = {} THEN base ELSE RemoveHit(g[d \ {Max(d)}], s[Max(d)])]
  <2> HIDE DEF L, op
  <2> QED
    BY <1>4, <1>6
<1>8. iter = [d \in L |-> IF d = {} THEN base ELSE RemoveHit(iter[d \ {Max(d)}], s[Max(d)])]
  <2> HIDE DEF L
  <2> QED
    BY <1>2, <1>7
<1> DEFINE h == [k \in 0..Len(s) |-> iter[1..k]]
<1>9. Len(s) \in Nat /\ DOMAIN s = 1..Len(s)
  OBVIOUS
<1>10. h[0] = base
  <2>1. 1..0 = {} /\ {} \in L
    OBVIOUS
  <2> QED
    BY <1>8, <1>9, <2>1
<1>11. ASSUME NEW k \in 1..Len(s)
       PROVE  h[k] = RemoveHit(h[k - 1], s[k])
  <2>1. k \in Nat /\ k # 0 /\ 1..k # {} /\ 1..k \in L /\ k - 1 \in 0..Len(s) /\ k \in 0..Len(s)
    <3> HIDE DEF op, h
    <3>1. k \in Nat /\ k # 0 /\ k - 1 \in 0..Len(s) /\ k \in 0..Len(s) /\ k \in 1..k
      BY <1>9
    <3>2. \A j \in 1..k : j \in DOMAIN s
      BY <1>9
    <3> QED
      BY <3>1, <3>2
  <2>2. Max(1..k) = k /\ (1..k) \ {k} = 1..(k - 1)
    BY <2>1, LastOf
  <2> HIDE DEF L
  <2>3. iter[1..k] = RemoveHit(iter[1..(k - 1)], s[k])
    BY <1>8, <2>1, <2>2
  <2> QED
    BY <2>1, <2>3
<1>12. h[Len(s)] = iter[DOMAIN s]
  BY <1>9
<1> HIDE DEF h
<1> QED
  BY <1>1, <1>10, <1>11, <1>12

\* Hits b to e - 1 are added to a window of the hits a to b - 1.
LEMMA AddFold ==
  ASSUME NEW q \in Seq(Hit), NEW a \in 1..(Len(q) + 1), NEW b \in a..(Len(q) + 1),
         NEW e \in b..(Len(q) + 1),
         NEW s, Tallies(s, q, a, b - 1), s.w = SubSeq(q, a, b - 1)
  PROVE  LET r == FoldLeft(AddHit, s, SubSeq(q, b, e - 1))
         IN  Tallies(r, q, a, e - 1) /\ r.w = SubSeq(q, a, e - 1)
<1> DEFINE p == SubSeq(q, b, e - 1)
           r == FoldLeft(AddHit, s, p)
<1>1. /\ Len(q) \in Nat /\ a \in Nat /\ b \in Nat /\ e \in Nat /\ 1 <= a /\ a <= b /\ b <= e
      /\ e <= Len(q) + 1 /\ \A k \in 1..Len(q) : q[k] \in Hit
  OBVIOUS
<1>2. p \in Seq(Hit) /\ Len(p) = e - b /\ \A k \in 1..(e - b) : p[k] = q[b + k - 1]
  <2>1. b \in Int /\ e - 1 \in Int /\ \A k \in b..(e - 1) : q[k] \in Hit
    BY <1>1
  <2>2. /\ p \in Seq(Hit)
        /\ Len(p) = IF b <= e - 1 THEN (e - 1) - b + 1 ELSE 0
        /\ \A k \in 1..((e - 1) - b + 1) : p[k] = q[b + k - 1]
    BY <2>1, SubSeqProperties
  <2>3. (e - 1) - b + 1 = e - b /\ ((b <= e - 1) \/ e - b = 0)
    BY <1>1
  <2> HIDE DEF p
  <2> QED
    BY <2>2, <2>3
<1>3. s \in Tally
  BY DEF Tallies
<1> HIDE DEF p
<1>4. PICK h : /\ h[0] = s
               /\ \A k \in 1..Len(p) : h[k] = AddHit(h[k - 1], p[k])
               /\ r = h[Len(p)]
  BY <1>2, <1>3, AddSteps
<1> DEFINE Right(k) == Tallies(h[k], q, a, b - 1 + k) /\ h[k].w = SubSeq(q, a, b - 1 + k)
           G == {k \in 0..(e - b) : Right(k)}
<1>5. 0 \in G
  <2>1. b - 1 + 0 = b - 1 /\ 0 \in 0..(e - b)
    BY <1>1
  <2> QED
    BY <1>4, <2>1
<1>6. ASSUME NEW k \in 0..((e - b) - 1), k \in G
      PROVE  k + 1 \in G
  <2> DEFINE m == b - 1 + k
  <2>1. /\ m \in 0..(Len(q) - 1) /\ a <= m + 1 /\ m + 1 = b + (k + 1) - 1 /\ m + 1 = b - 1 + (k + 1)
        /\ k + 1 \in 1..(e - b) /\ k + 1 \in 0..(e - b) /\ (k + 1) - 1 = k /\ m + 1 \in 1..Len(q)
    BY <1>1
  <2>2. Tallies(h[k], q, a, m) /\ h[k].w = SubSeq(q, a, m)
    BY <1>6
  <2> HIDE DEF m
  <2>3. h[k + 1] = AddHit(h[k], q[m + 1])
    BY <1>2, <1>4, <2>1
  <2>4. Tallies(h[k + 1], q, a, m + 1)
    BY <2>1, <2>2, <2>3, AddTallies
  <2>5. h[k] \in Tally /\ q[m + 1] \in Hit
    BY <1>1, <2>1, <2>2 DEF Tallies
  <2>6. h[k + 1].w = Append(SubSeq(q, a, m), q[m + 1])
    <3>1. AddHit(h[k], q[m + 1]).w = Append(h[k].w, q[m + 1])
      BY <2>5, AddHitIs
    <3> QED
      BY <2>2, <2>3, <3>1
  <2>7. Append(SubSeq(q, a, m), q[m + 1]) = SubSeq(q, a, m + 1)
    BY <1>1, <2>1, AppendSubSeq
  <2> QED
    BY <2>1, <2>4, <2>6, <2>7
<1>7. e - b \in G
  <2>1. e - b \in Nat /\ e - b \in 0..(e - b)
    BY <1>1
  <2> HIDE DEF G
  <2> QED
    BY <1>5, <1>6, <2>1, UpTo
<1>8. b - 1 + (e - b) = e - 1
  BY <1>1
<1>9. Right(e - b)
  BY <1>7
<1> QED
  BY <1>2, <1>4, <1>8, <1>9 DEF p

\* All the hits of a window are taken from its counts.
LEMMA RemoveFold ==
  ASSUME NEW q \in Seq(Hit), NEW a \in 1..(Len(q) + 1), NEW e \in a..(Len(q) + 1),
         NEW s, Tallies(s, q, a, e - 1)
  PROVE  Tallies(FoldLeft(RemoveHit, s, SubSeq(q, a, e - 1)), q, e, e - 1)
<1> DEFINE p == SubSeq(q, a, e - 1)
           r == FoldLeft(RemoveHit, s, p)
<1>1. /\ Len(q) \in Nat /\ a \in Nat /\ e \in Nat /\ 1 <= a /\ a <= e
      /\ e <= Len(q) + 1 /\ \A k \in 1..Len(q) : q[k] \in Hit
  OBVIOUS
<1>2. p \in Seq(Hit) /\ Len(p) = e - a /\ \A k \in 1..(e - a) : p[k] = q[a + k - 1]
  <2>1. a \in Int /\ e - 1 \in Int /\ \A k \in a..(e - 1) : q[k] \in Hit
    BY <1>1
  <2>2. /\ p \in Seq(Hit)
        /\ Len(p) = IF a <= e - 1 THEN (e - 1) - a + 1 ELSE 0
        /\ \A k \in 1..((e - 1) - a + 1) : p[k] = q[a + k - 1]
    BY <2>1, SubSeqProperties
  <2>3. (e - 1) - a + 1 = e - a /\ ((a <= e - 1) \/ e - a = 0)
    BY <1>1
  <2> HIDE DEF p
  <2> QED
    BY <2>2, <2>3
<1>3. s \in Tally
  BY DEF Tallies
<1> HIDE DEF p
<1>4. PICK h : /\ h[0] = s
               /\ \A k \in 1..Len(p) : h[k] = RemoveHit(h[k - 1], p[k])
               /\ r = h[Len(p)]
  BY <1>2, <1>3, RemoveSteps
<1> DEFINE Right(k) == Tallies(h[k], q, a + k, e - 1)
           G == {k \in 0..(e - a) : Right(k)}
<1>5. 0 \in G
  <2>1. a + 0 = a /\ 0 \in 0..(e - a)
    BY <1>1
  <2> QED
    BY <1>4, <2>1
<1>6. ASSUME NEW k \in 0..((e - a) - 1), k \in G
      PROVE  k + 1 \in G
  <2> DEFINE m == a + k
  <2>1. /\ e - 1 \in 0..Len(q) /\ m \in 1..(e - 1) /\ m = a + (k + 1) - 1 /\ m + 1 = a + (k + 1)
        /\ k + 1 \in 1..(e - a) /\ k + 1 \in 0..(e - a) /\ (k + 1) - 1 = k
    BY <1>1
  <2>2. Tallies(h[k], q, m, e - 1)
    BY <1>6
  <2> HIDE DEF m
  <2>3. h[k + 1] = RemoveHit(h[k], q[m])
    BY <1>2, <1>4, <2>1
  <2>4. Tallies(h[k + 1], q, m + 1, e - 1)
    BY <2>1, <2>2, <2>3, RemoveTallies
  <2> QED
    BY <2>1, <2>4
<1>7. e - a \in G
  <2>1. e - a \in Nat /\ e - a \in 0..(e - a)
    BY <1>1
  <2> HIDE DEF G
  <2> QED
    BY <1>5, <1>6, <2>1, UpTo
<1>8. a + (e - a) = e
  BY <1>1
<1>9. Right(e - a)
  BY <1>7
<1> QED
  BY <1>2, <1>4, <1>8, <1>9 DEF p

LEMMA NoTally ==
  ASSUME NEW q, NEW a \in Int, NEW b \in Int, b < a
  PROVE  Tallies([w |-> <<>>, c |-> <<>>, u |-> 0], q, a, b)
<1> DEFINE s == [w |-> <<>>, c |-> <<>>, u |-> 0]
           none == [d \in {} |-> Number(q, a, b, d)]
<1>1. a..b = {}
  OBVIOUS
<1>2. Within(q, a, b) = {}
  BY <1>1 DEF Within
<1>3. <<>> \in [{} -> Nat]
  OBVIOUS
<1>4. <<>> = none
  BY <1>3
<1>5. <<>> \in Counts
  BY <1>3, InCounts
<1>6. s \in Tally
  <2>1. <<>> \in Seq(Hit) /\ 0 \in Int
    OBVIOUS
  <2> QED
    BY <1>5, <2>1 DEF Tally
<1>7. Cardinality({}) = 0
  BY FS_EmptySet
<1>8. s.u = Cardinality(Within(q, a, b)) /\ s.c = [d \in Within(q, a, b) |-> Number(q, a, b, d)]
  BY <1>2, <1>4, <1>7
<1> QED
  BY <1>6, <1>8 DEF Tallies

InOrder(q) == \A j, k \in DOMAIN q : j < k => q[j].t <= q[k].t
Distinct(q) == \A j, k \in DOMAIN q : q[j] = q[k] => j = k

\* The bucket's hits are put in the order of time, each once.
LEMMA SortedIs ==
  ASSUME NEW b, IsFiniteSet(b), b \subseteq Hit
  PROVE  Sorted(b) \in Seq(Hit) /\ InOrder(Sorted(b)) /\ Distinct(Sorted(b))
<1> DEFINE before(g, h) == g.t < h.t \/ (g.t = h.t /\ g.du < h.du)
           R == {q \in b \X b : before(q[1], q[2])}
           s == Sorted(b)
<1>1. \A g \in b : g.t \in Int /\ g.du \in Int /\ g = [du |-> g.du, t |-> g.t]
  BY DEF Hit
<1>2. \A g, h \in b : <<g, h>> \in R <=> before(g, h)
  <2> HIDE DEF before
  <2> QED
    OBVIOUS
<1>3. s = [k \in 1..Cardinality(b) |->
               CHOOSE e \in b : Cardinality({d \in b : before(d, e)}) = k - 1]
  BY DEF Sorted, Ordered
<1> HIDE DEF R, s
<1>4. StrictOrder(R, b)
  <2>1. \A g \in b : <<g, g>> \notin R
    BY <1>1, <1>2
  <2>2. ASSUME NEW g \in b, NEW h \in b, g # h
        PROVE  <<g, h>> \in R \/ <<h, g>> \in R
    <3>1. ~(g.t = h.t /\ g.du = h.du)
      BY <1>1, <2>2
    <3>2. before(g, h) \/ before(h, g)
      BY <1>1, <3>1
    <3> QED
      BY <1>2, <3>2
  <2>3. ASSUME NEW g \in b, NEW h \in b, NEW e \in b, <<g, h>> \in R, <<h, e>> \in R
        PROVE  <<g, e>> \in R
    <3>1. before(g, h) /\ before(h, e)
      BY <1>2, <2>3
    <3>2. before(g, e)
      BY <1>1, <3>1
    <3> QED
      BY <1>2, <3>2
  <2> QED
    BY <2>1, <2>2, <2>3 DEF StrictOrder
<1> HIDE DEF before
<1>5. \A e \in b : RankOf(e, R, b) = Cardinality({d \in b : before(d, e)})
  <2> SUFFICES ASSUME NEW e \in b
               PROVE  RankOf(e, R, b) = Cardinality({d \in b : before(d, e)})
    OBVIOUS
  <2>1. {d \in b : <<d, e>> \in R} = {d \in b : before(d, e)}
    BY <1>2
  <2> QED
    BY <2>1 DEF RankOf
<1>6. Ranks(s, R, b)
  <2>1. ASSUME NEW k \in 1..Cardinality(b), NEW e \in b, RankOf(e, R, b) = k - 1
        PROVE  s[k] \in b /\ RankOf(s[k], R, b) = k - 1
    <3>1. Cardinality({d \in b : before(d, e)}) = k - 1
      BY <1>5, <2>1
    <3>2. s[k] = CHOOSE f \in b : Cardinality({d \in b : before(d, f)}) = k - 1
      BY <1>3
    <3>3. s[k] \in b /\ Cardinality({d \in b : before(d, s[k])}) = k - 1
      BY <3>1, <3>2
    <3> QED
      BY <1>5, <3>3
  <2>2. s = [k \in 1..Cardinality(b) |-> s[k]]
    <3> DEFINE F(k) == CHOOSE e \in b : Cardinality({d \in b : before(d, e)}) = k - 1
    <3>1. s = [k \in 1..Cardinality(b) |-> F(k)]
      BY <1>3
    <3> HIDE DEF F
    <3> QED
      BY <3>1
  <2> QED
    BY <2>1, <2>2 DEF Ranks
<1>7. s \in Seq(b) /\ \A j, k \in 1..Len(s) : j < k => <<s[j], s[k]>> \in R
  BY <1>4, <1>6, Ranked
<1>8. /\ Len(s) \in Nat /\ DOMAIN s = 1..Len(s)
      /\ \A k \in 1..Len(s) : s[k] \in b /\ s[k] \in Hit
  BY <1>7
<1>9. \A j, k \in 1..Len(s) : j < k => s[j].t <= s[k].t /\ s[j] # s[k]
  <2> SUFFICES ASSUME NEW j \in 1..Len(s), NEW k \in 1..Len(s), j < k
               PROVE  s[j].t <= s[k].t /\ s[j] # s[k]
    OBVIOUS
  <2>1. before(s[j], s[k]) /\ s[j] \in b /\ s[k] \in b
    BY <1>2, <1>7, <1>8
  <2> QED
    BY <1>1, <2>1 DEF before
<1>10. s \in Seq(Hit)
  BY <1>7, SeqMonotonic
<1>11. InOrder(s) /\ Distinct(s)
  <2>1. \A j, k \in 1..Len(s) : s[j] = s[k] => j = k
    BY <1>8, <1>9
  <2> QED
    BY <1>8, <1>9, <2>1 DEF InOrder, Distinct
<1> QED
  BY <1>10, <1>11 DEF s

LEMMA EndIs ==
  ASSUME hits \in Seq(Hit), i \in 1..Len(hits), NEW j \in 1..(Len(hits) + 1)
  PROVE  /\ WindowEnd(j) \in j..(Len(hits) + 1)
         /\ \A k \in j..(WindowEnd(j) - 1) : hits[k].t - hits[i].t <= Window
         /\ WindowEnd(j) <= Len(hits) => hits[WindowEnd(j)].t - hits[i].t > Window
<1> DEFINE n == Len(hits)
           late == {k \in j..(n + 1) : k <= n => hits[k].t - hits[i].t > Window}
           Fits(e) == /\ \A k \in j..(e - 1) : hits[k].t - hits[i].t <= Window
                      /\ e <= n => hits[e].t - hits[i].t > Window
<1>1. /\ n \in Nat /\ j \in Nat /\ j <= n + 1 /\ i \in 1..n
      /\ \A k \in 1..n : hits[k] \in Hit
  OBVIOUS
<1>2. \A k \in 1..n : hits[k].t - hits[i].t \in Int
  BY <1>1 DEF Hit
<1> HIDE DEF n
<1>3. late \in SUBSET Nat /\ n + 1 \in late
  BY <1>1
<1>4. PICK e \in late : \A k \in late : e <= k
  BY <1>3, LeastNumber
<1>5. e \in j..(n + 1) /\ (e <= n => hits[e].t - hits[i].t > Window)
  BY <1>4
<1>6. ASSUME NEW k \in j..(e - 1)
      PROVE  hits[k].t - hits[i].t <= Window
  <2>1. k \notin late /\ k \in j..(n + 1) /\ k \in 1..n
    BY <1>1, <1>4, <1>5
  <2>2. Window \in Nat
    BY DecisionConstants
  <2> QED
    BY <1>2, <2>1, <2>2
<1>7. e \in j..(n + 1) /\ Fits(e)
  BY <1>5, <1>6
<1>8. WindowEnd(j) = CHOOSE f \in j..(n + 1) : Fits(f)
  BY DEF WindowEnd, n
<1> HIDE DEF Fits
<1>9. WindowEnd(j) \in j..(n + 1) /\ Fits(WindowEnd(j))
  BY <1>7, <1>8
<1> QED
  BY <1>9 DEF Fits, n

-----------------------------------------------------------------------------
(***************************************************************************)
(* The scan of a bucket                                                    *)
(***************************************************************************)
\* What is in the window between two rounds, and what is counted of it.
Sliding ==
  /\ i <= jEnd
  /\ window = SubSeq(hits, i, jEnd - 1)
  /\ Tallies([w |-> window, c |-> counts, u |-> uniqueDu], hits, i, jEnd - 1)
  /\ \A k \in i..(jEnd - 1) : hits[k].t - hits[i].t <= Window

ScanInv ==
  /\ config \in Configs
  /\ hits \in Seq(Hit) /\ InOrder(hits) /\ Distinct(hits)
  /\ i \in 1..(Len(hits) + 1) /\ jEnd \in 1..(Len(hits) + 1)
  /\ config.trigger_type # 0 => Sliding

\* The window that begins with hit i holds all that is not too late for it.
LEMMA FilledIs ==
  ASSUME ScanInv, ~Scanned, config.trigger_type # 0
  PROVE  /\ Filled.j \in (i + 1)..(Len(hits) + 1)
         /\ Filled.s.w = SubSeq(hits, i, Filled.j - 1)
         /\ Tallies(Filled.s, hits, i, Filled.j - 1)
         /\ \A k \in i..(Filled.j - 1) : hits[k].t - hits[i].t <= Window
         /\ Filled.j <= Len(hits) => hits[Filled.j].t - hits[i].t > Window
<1> DEFINE e == WindowEnd(jEnd)
           s0 == [w |-> window, c |-> counts, u |-> uniqueDu]
           r == FoldLeft(AddHit, s0, SubSeq(hits, jEnd, e - 1))
<1>1. /\ hits \in Seq(Hit) /\ i \in 1..Len(hits) /\ jEnd \in 1..(Len(hits) + 1) /\ i <= jEnd
      /\ Len(hits) \in Nat
  BY DEF ScanInv, Scanned, Sliding
<1>2. /\ Tallies(s0, hits, i, jEnd - 1) /\ s0.w = SubSeq(hits, i, jEnd - 1)
      /\ \A k \in i..(jEnd - 1) : hits[k].t - hits[i].t <= Window
  BY DEF ScanInv, Sliding
<1>3. /\ e \in jEnd..(Len(hits) + 1)
      /\ \A k \in jEnd..(e - 1) : hits[k].t - hits[i].t <= Window
      /\ e <= Len(hits) => hits[e].t - hits[i].t > Window
  BY <1>1, EndIs
<1> HIDE DEF e, s0
<1>4. Filled = [s |-> r, j |-> e]
  BY <1>1 DEF Filled, e, s0
<1>5. Tallies(r, hits, i, e - 1) /\ r.w = SubSeq(hits, i, e - 1)
  <2>1. i \in 1..(Len(hits) + 1) /\ jEnd \in i..(Len(hits) + 1)
    BY <1>1
  <2> QED
    BY <1>1, <1>2, <1>3, <2>1, AddFold
<1>6. \A k \in i..(e - 1) : hits[k].t - hits[i].t <= Window
  BY <1>1, <1>2, <1>3
<1>7. e \in (i + 1)..(Len(hits) + 1)
  <2> SUFFICES ASSUME ~(e > i)
               PROVE  FALSE
    BY <1>1, <1>3
  <2>1. e = i /\ i <= Len(hits)
    BY <1>1, <1>3
  <2>2. hits[i].t - hits[i].t > Window
    BY <1>3, <2>1
  <2>3. hits[i] \in Hit
    BY <1>1
  <2>4. hits[i].t \in Int
    BY <2>3 DEF Hit
  <2>5. Window \in Nat
    BY DecisionConstants
  <2> QED
    BY <2>2, <2>4, <2>5
<1> HIDE DEF r
<1> QED
  BY <1>3, <1>4, <1>5, <1>6, <1>7

LEMMA InitScan == Init => ScanInv
<1> SUFFICES ASSUME Init
             PROVE  ScanInv
  OBVIOUS
<1>1. /\ config \in Configs /\ hits = <<>> /\ i = 1 /\ jEnd = 1
      /\ window = <<>> /\ counts = <<>> /\ uniqueDu = 0
  BY DEF Init
<1>2. hits \in Seq(Hit) /\ Len(hits) = 0 /\ DOMAIN hits = {}
  BY <1>1
<1>3. InOrder(hits) /\ Distinct(hits)
  BY <1>2 DEF InOrder, Distinct
<1>4. SubSeq(hits, 1, 1 - 1) = <<>>
  BY SubSeqEmpty
<1>5. Tallies([w |-> <<>>, c |-> <<>>, u |-> 0], hits, 1, 1 - 1)
  BY NoTally
<1>6. Sliding
  BY <1>1, <1>4, <1>5 DEF Sliding
<1> QED
  BY <1>1, <1>2, <1>3, <1>6 DEF ScanInv

\* Before a scan begins nothing is in the window.
LEMMA AtStart ==
  ASSUME config' = config, config \in Configs,
         hits' \in Seq(Hit), InOrder(hits'), Distinct(hits'),
         i' = 1, jEnd' = 1, window' = <<>>, counts' = <<>>, uniqueDu' = 0
  PROVE  ScanInv'
<1>1. SubSeq(hits', 1, 1 - 1) = <<>>
  BY SubSeqEmpty
<1>2. Tallies([w |-> <<>>, c |-> <<>>, u |-> 0], hits', 1, 1 - 1)
  BY NoTally
<1>3. Sliding'
  BY <1>1, <1>2 DEF Sliding
<1>4. Len(hits') \in Nat
  OBVIOUS
<1> QED
  BY <1>3, <1>4 DEF ScanInv

LEMMA SlideScan ==
  ASSUME ScanInv, Slide
  PROVE  ScanInv'
<1> DEFINE f == Filled
           s == RemoveHit(f.s, hits[i])
<1>1. /\ ~Scanned /\ config.trigger_type # 0
      /\ KeepWindow([s EXCEPT !.w = IF @ = <<>> THEN @ ELSE Tail(@)])
      /\ i' = i + 1 /\ jEnd' = f.j /\ config' = config /\ hits' = hits
  BY DEF Slide
<1>2. /\ f.j \in (i + 1)..(Len(hits) + 1)
      /\ f.s.w = SubSeq(hits, i, f.j - 1)
      /\ Tallies(f.s, hits, i, f.j - 1)
      /\ \A k \in i..(f.j - 1) : hits[k].t - hits[i].t <= Window
  BY <1>1, FilledIs
<1>3. /\ config \in Configs /\ hits \in Seq(Hit) /\ InOrder(hits) /\ Distinct(hits)
      /\ i \in 1..Len(hits) /\ Len(hits) \in Nat /\ hits[i] \in Hit
  BY <1>1 DEF ScanInv, Scanned
<1> HIDE DEF f
<1>4. PICK e \in (i + 1)..(Len(hits) + 1) : e = f.j
  BY <1>2
<1>5. e - 1 \in 0..Len(hits) /\ i \in 1..(e - 1) /\ e - 1 \in i..Len(hits)
  BY <1>3, <1>4
<1>6. Tallies(s, hits, i + 1, e - 1)
  BY <1>2, <1>3, <1>4, <1>5, RemoveTallies
<1>7. s.w = SubSeq(hits, i, e - 1) /\ s \in Tally
  <2>1. f.s \in Tally
    BY <1>2 DEF Tallies
  <2>2. RemoveHit(f.s, hits[i]).w = f.s.w /\ RemoveHit(f.s, hits[i]) \in Tally
    BY <1>3, <2>1, RemoveHitIs
  <2> QED
    BY <1>2, <1>4, <2>2
<1> HIDE DEF s
<1>8. s.w # <<>> /\ Tail(s.w) = SubSeq(hits, i + 1, e - 1)
  <2>1. Tail(SubSeq(hits, i, e - 1)) = SubSeq(hits, i + 1, e - 1)
    BY <1>3, <1>5, HeadTailOfSubSeq
  <2>2. Len(SubSeq(hits, i, e - 1)) = (e - 1) - i + 1
    <3>1. \A k \in i..(e - 1) : hits[k] \in Hit
      BY <1>3, <1>5
    <3>2. Len(SubSeq(hits, i, e - 1)) = IF i <= e - 1 THEN (e - 1) - i + 1 ELSE 0
      BY <1>3, <1>5, <3>1, SubSeqProperties
    <3> QED
      BY <1>5, <3>2
  <2>3. SubSeq(hits, i, e - 1) # <<>>
    BY <1>5, <2>2
  <2> QED
    BY <1>7, <2>1, <2>3
<1>9. window' = SubSeq(hits, i + 1, e - 1) /\ counts' = s.c /\ uniqueDu' = s.u
  <2>1. s = [w |-> s.w, c |-> s.c, u |-> s.u]
    BY <1>7 DEF Tally
  <2>2. [s EXCEPT !.w = IF @ = <<>> THEN @ ELSE Tail(@)]
          = [w |-> SubSeq(hits, i + 1, e - 1), c |-> s.c, u |-> s.u]
    <3> DEFINE t == IF s.w = <<>> THEN s.w ELSE Tail(s.w)
    <3>1. t = SubSeq(hits, i + 1, e - 1)
      BY <1>8
    <3>2. [s EXCEPT !.w = t] = [w |-> t, c |-> s.c, u |-> s.u]
      <4> HIDE DEF t
      <4>1. PICK x, y, z : s = [w |-> x, c |-> y, u |-> z]
        BY <2>1
      <4> QED
        BY <4>1
    <3> QED
      BY <3>1, <3>2
  <2> QED
    BY <1>1, <2>2 DEF KeepWindow
<1>10. Tallies([w |-> window', c |-> counts', u |-> uniqueDu'], hits, i + 1, e - 1)
  <2>1. window' \in Seq(Hit)
    <3>1. \A k \in (i + 1)..(e - 1) : hits[k] \in Hit
      BY <1>3, <1>5
    <3> QED
      BY <1>3, <1>5, <1>9, <3>1, SubSeqProperties
  <2>2. s.c \in Counts /\ s.u \in Int
    BY <1>7 DEF Tally
  <2>3. [w |-> window', c |-> s.c, u |-> s.u] \in Tally
    BY <2>1, <2>2 DEF Tally
  <2> QED
    BY <1>6, <1>9, <2>3 DEF Tallies
<1>11. ASSUME NEW k \in (i + 1)..(e - 1)
       PROVE  hits[k].t - hits[i + 1].t <= Window
  <2>1. k \in DOMAIN hits /\ i + 1 \in DOMAIN hits /\ k \in i..(e - 1) /\ i \in DOMAIN hits
    BY <1>3, <1>5
  <2>2. hits[k].t \in Int /\ hits[i].t \in Int /\ hits[i + 1].t \in Int
    <3>1. hits[k] \in Hit /\ hits[i] \in Hit /\ hits[i + 1] \in Hit
      BY <1>3, <2>1
    <3> QED
      BY <3>1 DEF Hit
  <2>3. hits[k].t - hits[i].t <= Window
    BY <1>2, <1>4, <2>1
  <2>4. hits[i].t <= hits[i + 1].t
    BY <1>3, <2>1 DEF InOrder
  <2>5. Window \in Nat
    BY DecisionConstants
  <2> QED
    BY <2>2, <2>3, <2>4, <2>5
<1>12. Sliding'
  <2>1. i' <= jEnd' /\ i' = i + 1 /\ jEnd' = e
    BY <1>1, <1>3, <1>4
  <2> QED
    BY <1>1, <1>9, <1>10, <1>11, <2>1 DEF Sliding
<1>13. i' \in 1..(Len(hits) + 1) /\ jEnd' \in 1..(Len(hits) + 1)
  BY <1>1, <1>3, <1>4
<1> QED
  BY <1>1, <1>3, <1>12, <1>13 DEF ScanInv

LEMMA JudgeScan ==
  ASSUME ScanInv, Judge
  PROVE  ScanInv'
<1> DEFINE f == Filled
           r == FoldLeft(RemoveHit, f.s, SubSeq(hits, i, f.j - 1))
<1>1. /\ ~Scanned /\ config.trigger_type # 0
      /\ KeepWindow([r EXCEPT !.w = <<>>])
      /\ i' = f.j /\ jEnd' = f.j /\ config' = config /\ hits' = hits
  BY DEF Judge, Consumed
<1>2. /\ f.j \in (i + 1)..(Len(hits) + 1)
      /\ Tallies(f.s, hits, i, f.j - 1)
  BY <1>1, FilledIs
<1>3. /\ config \in Configs /\ hits \in Seq(Hit) /\ InOrder(hits) /\ Distinct(hits)
      /\ i \in 1..Len(hits) /\ Len(hits) \in Nat
  BY <1>1 DEF ScanInv, Scanned
<1> HIDE DEF f
<1>4. PICK e \in (i + 1)..(Len(hits) + 1) : e = f.j
  BY <1>2
<1>5. Tallies(r, hits, e, e - 1)
  <2>1. i \in 1..(Len(hits) + 1) /\ e \in i..(Len(hits) + 1)
    BY <1>3, <1>4
  <2> QED
    BY <1>2, <1>3, <1>4, <2>1, RemoveFold
<1> HIDE DEF r
<1>6. r \in Tally
  BY <1>5 DEF Tallies
<1>7. window' = <<>> /\ counts' = r.c /\ uniqueDu' = r.u
  <2>1. r = [w |-> r.w, c |-> r.c, u |-> r.u]
    BY <1>6 DEF Tally
  <2>2. [r EXCEPT !.w = <<>>] = [w |-> <<>>, c |-> r.c, u |-> r.u]
    BY <2>1
  <2> QED
    BY <1>1, <2>2 DEF KeepWindow
<1>8. Tallies([w |-> window', c |-> counts', u |-> uniqueDu'], hits, e, e - 1)
  <2>1. <<>> \in Seq(Hit)
    OBVIOUS
  <2>2. r.c \in Counts /\ r.u \in Int
    BY <1>6 DEF Tally
  <2>3. [w |-> <<>>, c |-> r.c, u |-> r.u] \in Tally
    BY <2>1, <2>2 DEF Tally
  <2> QED
    BY <1>5, <1>7, <2>3 DEF Tallies
<1>9. e \in Nat /\ e - 1 < e /\ e \in 1..(Len(hits) + 1)
  BY <1>3, <1>4
<1>10. SubSeq(hits, e, e - 1) = <<>>
  BY <1>9, SubSeqEmpty
<1>11. e..(e - 1) = {}
  BY <1>9
<1>12. Sliding'
  <2>1. i' = e /\ jEnd' = e
    BY <1>1, <1>4
  <2> QED
    BY <1>1, <1>7, <1>8, <1>9, <1>10, <1>11, <2>1 DEF Sliding
<1> QED
  BY <1>1, <1>3, <1>4, <1>9, <1>12 DEF ScanInv

LEMMA StepScan == ScanInv /\ [Next]_vars => ScanInv'
<1> SUFFICES ASSUME ScanInv, [Next]_vars
             PROVE  ScanInv'
  OBVIOUS
<1>1. CASE TakeBucket
  <2>1. /\ config' = config /\ i' = 1 /\ jEnd' = 1
        /\ window' = <<>> /\ counts' = <<>> /\ uniqueDu' = 0
    BY <1>1 DEF TakeBucket
  <2>2. config \in Configs
    BY DEF ScanInv
  <2>3. PICK b \in Buckets(config) : hits' = Sorted(b)
    BY <1>1 DEF TakeBucket
  <2>4. IsFiniteSet(b) /\ b \subseteq Hit
    BY <2>2, <2>3, DecisionConstants
  <2>5. hits' \in Seq(Hit) /\ InOrder(hits') /\ Distinct(hits')
    BY <2>3, <2>4, SortedIs
  <2> QED
    BY <2>1, <2>2, <2>5, AtStart
<1>2. CASE ReturnResults
  <2>1. /\ config' = config /\ i' = 1 /\ jEnd' = 1 /\ hits' = <<>>
        /\ window' = <<>> /\ counts' = <<>> /\ uniqueDu' = 0
    BY <1>2 DEF ReturnResults
  <2>2. config \in Configs
    BY DEF ScanInv
  <2>3. <<>> \in Seq(Hit) /\ InOrder(<<>>) /\ Distinct(<<>>)
    BY DEF InOrder, Distinct
  <2> QED
    BY <2>1, <2>2, <2>3, AtStart
<1>3. CASE PassThrough
  <2>1. /\ config' = config /\ hits' = hits /\ jEnd' = jEnd /\ i' = Len(hits) + 1
        /\ config.trigger_type = 0
    BY <1>3 DEF PassThrough
  <2>2. Len(hits) \in Nat
    BY DEF ScanInv
  <2> QED
    BY <2>1, <2>2 DEF ScanInv
<1>4. CASE Slide
  BY <1>4, SlideScan
<1>5. CASE Judge
  BY <1>5, JudgeScan
<1>6. CASE UNCHANGED vars
  BY <1>6 DEF vars, scan, ScanInv, Sliding
<1> QED
  BY <1>1, <1>2, <1>3, <1>4, <1>5, <1>6 DEF Next

\* What the window is counted by never drifts from its hits: between two
\* rounds the window is a stretch of the sorted hits no longer than
\* time_window_ns, du_counts has an entry for the DUs in it and for no other,
\* with the number of their hits, and unique_du is the number of entries.
THEOREM RunningCounts == Spec => [](config.trigger_type # 0 => Sliding)
<1>1. ScanInv => (config.trigger_type # 0 => Sliding)
  BY DEF ScanInv
<1> QED
  BY <1>1, InitScan, StepScan, PTL DEF Spec

-----------------------------------------------------------------------------
(***************************************************************************)
(* What the causal filter keeps                                            *)
(***************************************************************************)
Verdicts == [window : Seq(Hit), kept : SUBSET Nat,
             outcome : {"accepted", "causal", "template", "repeat"}]

ByTheFilter(j) ==
  CausalFilters => /\ j.outcome = "accepted" => j.kept = Selected(j.window)
                   /\ j.outcome = "causal" => TooFew(j.window)

JudgedInv ==
  /\ judged \in Seq(Verdicts)
  /\ \A k \in 1..Len(judged) : ByTheFilter(judged[k])

LEMMA SelectedIn ==
  ASSUME NEW w \in Seq(Hit)
  PROVE  Selected(w) \subseteq DOMAIN w /\ DOMAIN w \subseteq Nat
<1>1. IsLargestCompatible(w, MaximumCausalSubset(w))
  BY SearchFindsLargest
<1>2. MaximumCausalSubset(w) \subseteq DOMAIN w
  BY <1>1 DEF IsLargestCompatible
<1>3. DOMAIN w = 1..Len(w) /\ Len(w) \in Nat
  OBVIOUS
<1> QED
  BY <1>2, <1>3 DEF Selected

\* One verdict more.
LEMMA MoreJudged ==
  ASSUME JudgedInv, config' = config, NEW v \in Verdicts, ByTheFilter(v),
         judged' = Append(judged, v)
  PROVE  JudgedInv'
<1>1. /\ judged \in Seq(Verdicts) /\ Len(judged) \in Nat
      /\ \A k \in 1..Len(judged) : ByTheFilter(judged[k])
  BY DEF JudgedInv
<1>2. /\ judged' \in Seq(Verdicts) /\ Len(judged') = Len(judged) + 1
      /\ \A k \in 1..Len(judged) : judged'[k] = judged[k]
      /\ judged'[Len(judged) + 1] = v
  BY <1>1, AppendProperties
<1>3. \A k \in 1..Len(judged') : ByTheFilter(judged'[k])
  BY <1>1, <1>2
<1> QED
  BY <1>2, <1>3 DEF JudgedInv, ByTheFilter, CausalFilters, Selected, TooFew

LEMMA StepJudged == ScanInv /\ JudgedInv /\ [Next]_vars => JudgedInv'
<1> SUFFICES ASSUME ScanInv, JudgedInv, [Next]_vars
             PROVE  JudgedInv'
  OBVIOUS
<1> USE DEF Verdicts
<1>1. CASE TakeBucket \/ Slide \/ UNCHANGED vars
  BY <1>1 DEF TakeBucket, Slide, vars, history, JudgedInv, ByTheFilter,
              CausalFilters, Selected, TooFew
<1>2. CASE ReturnResults
  <2>1. judged' = <<>>
    BY <1>2 DEF ReturnResults
  <2> QED
    BY <2>1 DEF JudgedInv
<1>3. CASE PassThrough
  <2> DEFINE v == [window |-> hits, kept |-> DOMAIN hits, outcome |-> "accepted"]
  <2>1. judged' = <<v>> /\ config' = config /\ config.trigger_type = 0
    BY <1>3 DEF PassThrough
  <2>2. v \in Verdicts
    <3>1. hits \in Seq(Hit) /\ DOMAIN hits \subseteq Nat
      BY DEF ScanInv
    <3> QED
      BY <3>1
  <2>3. ~CausalFilters'
    BY <2>1 DEF CausalFilters
  <2> HIDE DEF v, Verdicts
  <2>4. judged' \in Seq(Verdicts)
    BY <2>1, <2>2
  <2> QED
    BY <2>3, <2>4 DEF JudgedInv, ByTheFilter
<1>4. CASE Judge
  <2> DEFINE w == Filled.s.w
  <2>1. ~Scanned /\ config.trigger_type # 0 /\ config' = config
    BY <1>4 DEF Judge
  <2>2. Tallies(Filled.s, hits, i, Filled.j - 1)
    BY <2>1, FilledIs
  <2>3. w \in Seq(Hit)
    BY <2>2 DEF Tallies, Tally
  <2>4. RejectUnseen(w) \/ PassFilters(w)
    BY <1>4 DEF Judge
  <2> HIDE DEF w
  <2>5. Selected(w) \in SUBSET Nat
    BY <2>3, SelectedIn
  <2> DEFINE v(kept, outcome) == [window |-> w, kept |-> kept, outcome |-> outcome]
  <2>6. \/ TooFew(w) /\ judged' = Append(judged, v({}, "causal"))
        \/ judged' = Append(judged, v({}, "template"))
        \/ judged' = Append(judged, v({}, "repeat"))
        \/ judged' = Append(judged, v(Selected(w), "accepted"))
    BY <2>4 DEF RejectUnseen, PassFilters, Verdict
  <2>7. /\ v({}, "causal") \in Verdicts /\ v({}, "template") \in Verdicts
        /\ v({}, "repeat") \in Verdicts /\ v(Selected(w), "accepted") \in Verdicts
    BY <2>3, <2>5
  <2>8. /\ TooFew(w) => ByTheFilter(v({}, "causal"))
        /\ ByTheFilter(v({}, "template")) /\ ByTheFilter(v({}, "repeat"))
        /\ ByTheFilter(v(Selected(w), "accepted"))
    BY DEF ByTheFilter
  <2> HIDE DEF v, Verdicts
  <2> QED
    BY <2>1, <2>6, <2>7, <2>8, MoreJudged
<1> QED
  BY <1>1, <1>2, <1>3, <1>4 DEF Next

LEMMA JudgedSelects ==
  ASSUME JudgedInv
  PROVE  SelectsLargestCompatible
<1> SUFFICES ASSUME config.trigger_type = 2, config.causal, NEW k \in DOMAIN judged,
                    Cardinality(DUs(judged[k].window)) < Bypass
             PROVE  /\ judged[k].outcome = "accepted" =>
                         IsLargestCompatible(judged[k].window, judged[k].kept)
                    /\ judged[k].outcome = "causal" =>
                         \A s \in SUBSET DOMAIN judged[k].window :
                           PairwiseCompatible(judged[k].window, s) => Cardinality(s) < Nhit
  BY DEF SelectsLargestCompatible
<1> DEFINE w == judged[k].window
<1>1. judged[k] \in Verdicts /\ ByTheFilter(judged[k])
  BY DEF JudgedInv
<1>2. w \in Seq(Hit)
  BY <1>1 DEF Verdicts
<1>3. CausalFilters /\ Selected(w) = MaximumCausalSubset(w)
  BY DEF CausalFilters, Selected
<1>4. /\ judged[k].outcome = "accepted" => judged[k].kept = MaximumCausalSubset(w)
      /\ judged[k].outcome = "causal" => Cardinality(MaximumCausalSubset(w)) < Nhit
  BY <1>1, <1>3 DEF ByTheFilter, TooFew
<1> HIDE DEF w
<1>5. IsLargestCompatible(w, MaximumCausalSubset(w))
  BY <1>2, SearchFindsLargest
<1>6. /\ MaximumCausalSubset(w) \subseteq DOMAIN w
      /\ \A s \in SUBSET DOMAIN w :
           PairwiseCompatible(w, s) => Cardinality(s) <= Cardinality(MaximumCausalSubset(w))
  BY <1>5 DEF IsLargestCompatible
<1>7. \A s \in SUBSET DOMAIN w : Cardinality(s) \in Nat
  <2>1. DOMAIN w = 1..Len(w) /\ Len(w) \in Nat
    BY <1>2
  <2>2. IsFiniteSet(DOMAIN w)
    BY <2>1, FS_Interval
  <2> QED
    BY <2>2, FS_Subset, FS_CardinalityType
<1>8. Nhit \in Nat
  BY DecisionConstants
<1>9. ASSUME judged[k].outcome = "causal", NEW s \in SUBSET DOMAIN w, PairwiseCompatible(w, s)
      PROVE  Cardinality(s) < Nhit
  <2>1. /\ Cardinality(s) <= Cardinality(MaximumCausalSubset(w))
        /\ Cardinality(MaximumCausalSubset(w)) < Nhit
        /\ Cardinality(s) \in Nat /\ Cardinality(MaximumCausalSubset(w)) \in Nat
    BY <1>4, <1>6, <1>7, <1>9
  <2> QED
    BY <1>8, <2>1
<1> QED
  BY <1>4, <1>5, <1>9 DEF w

\* SelectsLargestCompatible of the decision: whatever a bucket holds, the
\* causal filter keeps a largest set of compatible hits of a candidate, and
\* rejects it only when no set of enough hits is compatible.
THEOREM KeepsLargest == Spec => []SelectsLargestCompatible
<1>1. Init => ScanInv /\ JudgedInv
  <2>1. Init => JudgedInv
    BY DEF Init, JudgedInv
  <2> QED
    BY <2>1, InitScan
<1>2. ScanInv /\ JudgedInv /\ [Next]_vars => ScanInv' /\ JudgedInv'
  BY StepScan, StepJudged
<1>3. JudgedInv => SelectsLargestCompatible
  BY JudgedSelects
<1> QED
  BY <1>1, <1>2, <1>3, PTL DEF Spec

-----------------------------------------------------------------------------
(***************************************************************************)
(* Every coincidence is met                                                *)
(***************************************************************************)
\* The hits the scan has gone past.
Behind == {hits[k] : k \in 1..(i - 1)}

MetInv ==
  config.trigger_type # 0 =>
    /\ \A k \in DOMAIN judged : Coincident(Judged(k)) /\ Judged(k) \subseteq Behind
    /\ \A k, l \in DOMAIN judged : k # l => Judged(k) \cap Judged(l) = {}
    /\ \A S \in SUBSET Hits :
         Coincident(S) /\ S \cap Behind # {} => \E k \in DOMAIN judged : Judged(k) \cap S # {}

\* What fits into one window and has the scan's next hit, but none behind
\* it, is in the window.
LEMMA CoincidenceInWindow ==
  ASSUME ScanInv, ~Scanned, config.trigger_type # 0,
         NEW S \in SUBSET Hits, Coincident(S), S \cap Behind = {}, hits[i] \in S
  PROVE  Filled.s.u >= Nhit
<1>1. PICK e \in (i + 1)..(Len(hits) + 1) :
        /\ e = Filled.j /\ Tallies(Filled.s, hits, i, e - 1)
        /\ e <= Len(hits) => hits[e].t - hits[i].t > Window
  BY FilledIs
<1>2. /\ hits \in Seq(Hit) /\ InOrder(hits) /\ i \in 1..Len(hits) /\ Len(hits) \in Nat
      /\ DOMAIN hits = 1..Len(hits)
  BY DEF ScanInv, Scanned
<1>3. \A k \in 1..Len(hits) : hits[k].t \in Int
  <2>1. \A k \in 1..Len(hits) : hits[k] \in Hit
    BY <1>2
  <2> QED
    BY <2>1 DEF Hit
<1>4. Window \in Nat /\ Nhit \in Nat
  BY DecisionConstants
<1>5. ASSUME NEW h \in S
      PROVE  h.du \in Within(hits, i, e - 1)
  <2>1. PICK k \in 1..Len(hits) : h = hits[k]
    BY <1>2 DEF Hits
  <2>2. ~(k < i)
    <3> SUFFICES ASSUME k < i
                 PROVE  FALSE
      OBVIOUS
    <3>1. k \in 1..(i - 1)
      BY <1>2
    <3> QED
      BY <2>1, <3>1 DEF Behind
  <2>3. hits[k].t - hits[i].t <= Window
    BY <2>1 DEF Coincident
  <2>4. ~(e <= k)
    <3> SUFFICES ASSUME e <= k
                 PROVE  FALSE
      OBVIOUS
    <3>1. e \in 1..Len(hits) /\ e <= Len(hits)
      BY <1>1, <1>2
    <3>2. hits[e].t <= hits[k].t
      BY <1>2, <1>3, <3>1 DEF InOrder
    <3>3. hits[e].t - hits[i].t > Window
      BY <1>1, <3>1
    <3> QED
      BY <1>2, <1>3, <1>4, <2>3, <3>1, <3>2, <3>3
  <2>5. k \in i..(e - 1)
    BY <1>1, <1>2, <2>2, <2>4
  <2> QED
    BY <2>1, <2>5 DEF Within
<1>6. /\ IsFiniteSet(Within(hits, i, e - 1)) /\ Cardinality(Within(hits, i, e - 1)) = Filled.s.u
  <2>1. i \in 1..(Len(hits) + 1) /\ e - 1 \in 0..Len(hits)
    BY <1>1, <1>2
  <2>2. IsFiniteSet(Within(hits, i, e - 1))
    BY <1>2, <2>1, WithinIs
  <2> QED
    BY <1>1, <2>2 DEF Tallies
<1>7. {h.du : h \in S} \in SUBSET Within(hits, i, e - 1)
  BY <1>5
<1>8. /\ Cardinality({h.du : h \in S}) <= Filled.s.u
      /\ Cardinality({h.du : h \in S}) \in Nat /\ Filled.s.u \in Nat
  BY <1>6, <1>7, FS_Subset, FS_CardinalityType
<1>9. Cardinality({h.du : h \in S}) >= Nhit
  BY DEF Coincident
<1> QED
  BY <1>4, <1>8, <1>9

\* A window that has enough DUs is a coincidence.
LEMMA WindowCoincides ==
  ASSUME ScanInv, ~Scanned, config.trigger_type # 0, Filled.s.u >= Nhit
  PROVE  LET W == {hits[k] : k \in i..(Filled.j - 1)}
             w == Filled.s.w
         IN  Coincident(W) /\ W = {w[j] : j \in DOMAIN w}
<1>1. PICK e \in (i + 1)..(Len(hits) + 1) :
        /\ e = Filled.j /\ Tallies(Filled.s, hits, i, e - 1)
        /\ Filled.s.w = SubSeq(hits, i, e - 1)
        /\ \A k \in i..(e - 1) : hits[k].t - hits[i].t <= Window
  BY FilledIs
<1>2. /\ hits \in Seq(Hit) /\ InOrder(hits) /\ i \in 1..Len(hits) /\ Len(hits) \in Nat
      /\ DOMAIN hits = 1..Len(hits)
  BY DEF ScanInv, Scanned
<1>3. \A k \in 1..Len(hits) : hits[k] \in Hit /\ hits[k].t \in Int
  <2>1. \A k \in 1..Len(hits) : hits[k] \in Hit
    BY <1>2
  <2> QED
    BY <2>1 DEF Hit
<1>4. Window \in Nat
  BY DecisionConstants
<1> DEFINE W == {hits[k] : k \in i..(e - 1)}
           w == SubSeq(hits, i, e - 1)
<1>5. ASSUME NEW g \in W, NEW h \in W
      PROVE  g.t - h.t <= Window
  <2>1. PICK a \in i..(e - 1), b \in i..(e - 1) : g = hits[a] /\ h = hits[b]
    OBVIOUS
  <2>2. a \in 1..Len(hits) /\ b \in 1..Len(hits) /\ i <= b
    BY <1>1, <1>2
  <2>3. hits[i].t <= hits[b].t
    BY <1>2, <1>3, <2>2 DEF InOrder
  <2>4. hits[a].t - hits[i].t <= Window
    BY <1>1
  <2> QED
    BY <1>2, <1>3, <1>4, <2>1, <2>2, <2>3, <2>4
<1>6. {h.du : h \in W} = Within(hits, i, e - 1)
  BY DEF Within
<1>7. Cardinality({h.du : h \in W}) >= Nhit
  BY <1>1, <1>6 DEF Tallies
<1>8. Coincident(W)
  BY <1>5, <1>7 DEF Coincident
<1>9. Len(w) = e - i /\ DOMAIN w = 1..(e - i) /\ \A k \in 1..(e - i) : w[k] = hits[i + k - 1]
  <2>1. i \in Int /\ e - 1 \in Int /\ \A k \in i..(e - 1) : hits[k] \in Hit
    BY <1>1, <1>2, <1>3
  <2>2. /\ w \in Seq(Hit)
        /\ Len(w) = IF i <= e - 1 THEN (e - 1) - i + 1 ELSE 0
        /\ \A k \in 1..((e - 1) - i + 1) : w[k] = hits[i + k - 1]
    BY <2>1, SubSeqProperties
  <2>3. (e - 1) - i + 1 = e - i /\ i <= e - 1
    BY <1>1, <1>2
  <2> HIDE DEF w
  <2> QED
    BY <2>2, <2>3
<1> HIDE DEF w
<1>10. W = {w[j] : j \in DOMAIN w}
  <2>1. \A k \in i..(e - 1) : k - i + 1 \in 1..(e - i) /\ i + (k - i + 1) - 1 = k
    BY <1>1, <1>2
  <2>2. \A j \in 1..(e - i) : i + j - 1 \in i..(e - 1)
    BY <1>1, <1>2
  <2>3. \A k \in i..(e - 1) : hits[k] \in {w[j] : j \in DOMAIN w}
    BY <1>9, <2>1
  <2>4. \A j \in 1..(e - i) : w[j] \in W
    BY <1>9, <2>2
  <2> QED
    BY <1>9, <2>3, <2>4
<1> QED
  BY <1>1, <1>8, <1>10 DEF w

\* No hits, no coincidence.
LEMMA SomeHit ==
  ASSUME NEW S, Coincident(S)
  PROVE  S # {}
<1> SUFFICES ASSUME S = {}
             PROVE  FALSE
  OBVIOUS
<1>1. {h.du : h \in S} = {}
  OBVIOUS
<1>2. Cardinality({h.du : h \in S}) = 0
  BY <1>1, FS_EmptySet
<1>3. Cardinality({h.du : h \in S}) >= Nhit
  BY DEF Coincident
<1>4. Nhit \in Nat \ {0}
  BY DecisionConstants
<1> QED
  BY <1>2, <1>3, <1>4

LEMMA SlideMet ==
  ASSUME ScanInv, MetInv, Slide
  PROVE  MetInv'
<1>1. /\ ~Scanned /\ config.trigger_type # 0 /\ ~(Filled.s.u >= Nhit)
      /\ i' = i + 1 /\ config' = config /\ hits' = hits /\ judged' = judged
  <2>1. /\ ~Scanned /\ config.trigger_type # 0 /\ Filled.s.u < Nhit
        /\ i' = i + 1 /\ config' = config /\ hits' = hits /\ judged' = judged
    BY DEF Slide, history
  <2>2. Tallies(Filled.s, hits, i, Filled.j - 1)
    BY <2>1, FilledIs
  <2>3. Filled.s.u \in Int /\ Nhit \in Nat
    BY <2>2, DecisionConstants DEF Tallies, Tally
  <2> QED
    BY <2>1, <2>3
<1>2. i \in 1..Len(hits) /\ Len(hits) \in Nat
  BY <1>1 DEF ScanInv, Scanned
<1>3. Behind' = Behind \cup {hits[i]}
  <2>1. \A k : k \in 1..((i + 1) - 1) <=> k \in 1..(i - 1) \/ k = i
    BY <1>2
  <2> QED
    BY <1>1, <2>1 DEF Behind
<1>4. Hits' = Hits /\ \A k : Judged(k)' = Judged(k)
  BY <1>1 DEF Hits, Judged
<1>5. ASSUME NEW S \in SUBSET Hits, Coincident(S), S \cap (Behind \cup {hits[i]}) # {}
      PROVE  \E k \in DOMAIN judged : Judged(k) \cap S # {}
  <2>1. S \cap Behind # {}
    BY <1>1, <1>5, CoincidenceInWindow
  <2> QED
    BY <1>1, <1>5, <2>1 DEF MetInv
<1>6. \A k \in DOMAIN judged : Coincident(Judged(k)) /\ Judged(k) \subseteq Behind
  BY <1>1 DEF MetInv
<1>7. \A k, l \in DOMAIN judged : k # l => Judged(k) \cap Judged(l) = {}
  BY <1>1 DEF MetInv
<1>8. \A k \in DOMAIN judged' : Coincident(Judged(k)') /\ Judged(k)' \subseteq Behind'
  BY <1>1, <1>3, <1>4, <1>6
<1>9. \A k, l \in DOMAIN judged' : k # l => Judged(k)' \cap Judged(l)' = {}
  BY <1>1, <1>4, <1>7
<1>10. \A S \in SUBSET Hits' :
         Coincident(S) /\ S \cap Behind' # {} => \E k \in DOMAIN judged' : Judged(k)' \cap S # {}
  BY <1>1, <1>3, <1>4, <1>5
<1> QED
  BY <1>8, <1>9, <1>10 DEF MetInv, Coincident

LEMMA JudgeMet ==
  ASSUME ScanInv, JudgedInv, MetInv, Judge
  PROVE  MetInv'
<1> DEFINE w == Filled.s.w
<1>1. /\ ~Scanned /\ config.trigger_type # 0 /\ Filled.s.u >= Nhit
      /\ i' = Filled.j /\ config' = config /\ hits' = hits
      /\ RejectUnseen(w) \/ PassFilters(w)
  BY DEF Judge
<1>2. PICK v : judged' = Append(judged, v) /\ v.window = w
  BY <1>1 DEF RejectUnseen, PassFilters, Verdict
<1>3. judged \in Seq(Verdicts)
  BY DEF JudgedInv
<1>4. PICK e \in (i + 1)..(Len(hits) + 1) : e = Filled.j
  BY <1>1, FilledIs
<1> DEFINE W == {hits[k] : k \in i..(e - 1)}
<1>5. Coincident(W) /\ W = {w[j] : j \in DOMAIN w}
  BY <1>1, <1>4, WindowCoincides
<1>6. /\ i \in 1..Len(hits) /\ Len(hits) \in Nat /\ Distinct(hits)
      /\ hits \in Seq(Hit) /\ DOMAIN hits = 1..Len(hits)
  BY <1>1 DEF ScanInv, Scanned
<1> HIDE DEF w
<1>7. Behind' = Behind \cup W
  <2>1. \A k : k \in 1..(e - 1) <=> k \in 1..(i - 1) \/ k \in i..(e - 1)
    BY <1>4, <1>6
  <2>2. Behind' = {hits[k] : k \in 1..(e - 1)}
    BY <1>1, <1>4 DEF Behind
  <2> QED
    BY <2>1, <2>2 DEF Behind
<1>8. Behind \cap W = {}
  <2> SUFFICES ASSUME NEW j \in 1..(i - 1), NEW k \in i..(e - 1), hits[j] = hits[k]
               PROVE  FALSE
    BY DEF Behind
  <2>1. j \in DOMAIN hits /\ k \in DOMAIN hits /\ j # k
    BY <1>4, <1>6
  <2> QED
    BY <1>6, <2>1 DEF Distinct
<1> HIDE DEF W
<1>m. PICK m \in Nat : m = Len(judged)
  BY <1>3
<1>9. /\ DOMAIN judged = 1..m /\ DOMAIN judged' = 1..(m + 1)
      /\ \A k \in 1..m : judged'[k] = judged[k]
      /\ judged'[m + 1] = v
  BY <1>2, <1>3, <1>m
<1>10. Hits' = Hits /\ (\A k \in 1..m : Judged(k)' = Judged(k)) /\ Judged(m + 1)' = W
  <2>1. Hits' = Hits
    BY <1>1 DEF Hits
  <2>2. ASSUME NEW k \in 1..m
        PROVE  Judged(k)' = Judged(k)
    BY <1>9 DEF Judged
  <2>3. {judged'[m + 1].window[j] : j \in DOMAIN judged'[m + 1].window} = W
    BY <1>2, <1>5, <1>9
  <2>4. Judged(m + 1)' = W
    BY <2>3 DEF Judged
  <2> QED
    BY <2>1, <2>2, <2>4
<1>11. \A k \in 1..m : Coincident(Judged(k)) /\ Judged(k) \subseteq Behind
  BY <1>1, <1>9 DEF MetInv
<1>12. \A k, l \in 1..m : k # l => Judged(k) \cap Judged(l) = {}
  BY <1>1, <1>9 DEF MetInv
<1>13. \A S \in SUBSET Hits :
         Coincident(S) /\ S \cap Behind # {} => \E k \in 1..m : Judged(k) \cap S # {}
  BY <1>1, <1>9 DEF MetInv
<1>14. \A k : k \in 1..(m + 1) <=> k \in 1..m \/ k = m + 1
  BY <1>9
<1>15. \A k \in DOMAIN judged' : Coincident(Judged(k)') /\ Judged(k)' \subseteq Behind'
  <2> SUFFICES ASSUME NEW k \in DOMAIN judged'
               PROVE  Coincident(Judged(k)') /\ Judged(k)' \subseteq Behind'
    OBVIOUS
  <2>1. CASE k \in 1..m
    BY <1>7, <1>10, <1>11, <2>1
  <2>2. CASE k = m + 1
    BY <1>5, <1>7, <1>10, <2>2
  <2> QED
    BY <1>9, <1>14, <2>1, <2>2
<1>16. \A k, l \in DOMAIN judged' : k # l => Judged(k)' \cap Judged(l)' = {}
  <2> SUFFICES ASSUME NEW k \in DOMAIN judged', NEW l \in DOMAIN judged', k # l
               PROVE  Judged(k)' \cap Judged(l)' = {}
    OBVIOUS
  <2>1. CASE k \in 1..m /\ l \in 1..m
    BY <1>10, <1>12, <2>1
  <2>2. CASE k \in 1..m /\ l = m + 1
    BY <1>8, <1>10, <1>11, <2>2
  <2>3. CASE k = m + 1 /\ l \in 1..m
    BY <1>8, <1>10, <1>11, <2>3
  <2> QED
    BY <1>9, <1>14, <2>1, <2>2, <2>3
<1>17. \A S \in SUBSET Hits' :
         Coincident(S) /\ S \cap Behind' # {} => \E k \in DOMAIN judged' : Judged(k)' \cap S # {}
  <2> SUFFICES ASSUME NEW S \in SUBSET Hits', Coincident(S), S \cap Behind' # {}
               PROVE  \E k \in DOMAIN judged' : Judged(k)' \cap S # {}
    OBVIOUS
  <2>1. CASE S \cap Behind # {}
    BY <1>9, <1>10, <1>13, <1>14, <2>1
  <2>2. CASE S \cap W # {}
    BY <1>9, <1>10, <1>14, <2>2
  <2> QED
    BY <1>7, <2>1, <2>2
<1> QED
  BY <1>15, <1>16, <1>17 DEF MetInv, Coincident

\* At the start of a bucket nothing is behind the scan.
LEMMA StartMet ==
  ASSUME i' = 1, judged' = <<>>
  PROVE  MetInv'
<1>1. Behind' = {}
  <2>1. 1..(1 - 1) = {}
    OBVIOUS
  <2> QED
    BY <2>1 DEF Behind
<1>2. DOMAIN judged' = {}
  OBVIOUS
<1> QED
  BY <1>1, <1>2 DEF MetInv

LEMMA StepMet == ScanInv /\ JudgedInv /\ MetInv /\ [Next]_vars => MetInv'
<1> SUFFICES ASSUME ScanInv, JudgedInv, MetInv, [Next]_vars
             PROVE  MetInv'
  OBVIOUS
<1>1. CASE TakeBucket
  <2>1. i' = 1 /\ judged' = judged /\ hits = <<>> /\ config' = config
    BY <1>1 DEF TakeBucket, history
  <2>2. CASE config.trigger_type = 0
    BY <2>1, <2>2 DEF MetInv
  <2>3. CASE config.trigger_type # 0
    <3>1. Behind = {}
      <4>1. i \in 1..(0 + 1)
        BY <2>1 DEF ScanInv
      <4>2. 1..(i - 1) = {}
        BY <4>1
      <4> QED
        BY <4>2 DEF Behind
    <3>2. \A k \in DOMAIN judged : Coincident(Judged(k)) /\ Judged(k) \subseteq Behind
      BY <2>3 DEF MetInv
    <3>3. DOMAIN judged = {}
      BY <3>1, <3>2, SomeHit
    <3>4. judged \in Seq(Verdicts)
      BY DEF JudgedInv
    <3>5. judged = <<>>
      BY <3>3, <3>4
    <3> QED
      BY <2>1, <3>5, StartMet
  <2> QED
    BY <2>2, <2>3
<1>2. CASE ReturnResults
  <2>1. i' = 1 /\ judged' = <<>>
    BY <1>2 DEF ReturnResults
  <2> QED
    BY <2>1, StartMet
<1>3. CASE PassThrough
  BY <1>3 DEF PassThrough, MetInv
<1>4. CASE Slide
  BY <1>4, SlideMet
<1>5. CASE Judge
  BY <1>5, JudgeMet
<1>6. CASE UNCHANGED vars
  <2>1. config' = config /\ hits' = hits /\ i' = i /\ judged' = judged
    BY <1>6 DEF vars, scan, history
  <2>2. Behind' = Behind /\ Hits' = Hits /\ \A k : Judged(k)' = Judged(k)
    BY <2>1 DEF Behind, Hits, Judged
  <2> QED
    BY <2>1, <2>2 DEF MetInv, Coincident
<1> QED
  BY <1>1, <1>2, <1>3, <1>4, <1>5, <1>6 DEF Next

LEMMA MetFinds ==
  ASSUME ScanInv, MetInv
  PROVE  FindsEveryCoincidence
<1> SUFFICES ASSUME config.trigger_type # 0
             PROVE  FindsEveryCoincidence
  BY DEF FindsEveryCoincidence
<1>1. /\ i \in 1..(Len(hits) + 1) /\ Len(hits) \in Nat /\ DOMAIN hits = 1..Len(hits)
  BY DEF ScanInv
<1>2. Behind \subseteq Hits
  <2>1. 1..(i - 1) \subseteq DOMAIN hits
    BY <1>1
  <2> QED
    BY <2>1 DEF Behind, Hits
<1>3. Scanned => Behind = Hits
  <2>1. Scanned => 1..(i - 1) = DOMAIN hits
    BY <1>1 DEF Scanned
  <2> QED
    BY <2>1 DEF Behind, Hits
<1>4. \A k \in DOMAIN judged : Coincident(Judged(k)) /\ Judged(k) \subseteq Hits
  BY <1>2 DEF MetInv
<1>5. \A k, l \in DOMAIN judged : k # l => Judged(k) \cap Judged(l) = {}
  BY DEF MetInv
<1>6. ASSUME Scanned, NEW S \in SUBSET Hits, Coincident(S)
      PROVE  \E k \in DOMAIN judged : Judged(k) \cap S # {}
  <2>1. S # {}
    BY <1>6, SomeHit
  <2>2. S \cap Behind # {}
    BY <1>3, <1>6, <2>1
  <2> QED
    BY <1>6, <2>2 DEF MetInv
<1> QED
  BY <1>4, <1>5, <1>6 DEF FindsEveryCoincidence

\* FindsEveryCoincidence of the decision, for every bucket, threshold and
\* time window: the window that slides with running counts passes over no
\* coincidence.
THEOREM FindsCoincidences == Spec => []FindsEveryCoincidence
<1>1. Init => ScanInv /\ JudgedInv /\ MetInv
  <2>1. Init => JudgedInv
    BY DEF Init, JudgedInv
  <2>2. Init => MetInv
    <3> SUFFICES ASSUME Init
                 PROVE  MetInv
      OBVIOUS
    <3>1. i = 1 /\ judged = <<>>
      BY DEF Init
    <3>2. Behind = {} /\ DOMAIN judged = {}
      <4>1. 1..(1 - 1) = {}
        OBVIOUS
      <4> QED
        BY <3>1, <4>1 DEF Behind
    <3> QED
      BY <3>2 DEF MetInv
  <2> QED
    BY <2>1, <2>2, InitScan
<1>2. ScanInv /\ JudgedInv /\ MetInv /\ [Next]_vars => ScanInv' /\ JudgedInv' /\ MetInv'
  BY StepScan, StepJudged, StepMet
<1>3. ScanInv /\ MetInv => FindsEveryCoincidence
  BY MetFinds
<1> QED
  BY <1>1, <1>2, <1>3, PTL DEF Spec

-----------------------------------------------------------------------------
(***************************************************************************)
(* Wave fronts and the differences of their pairs                          *)
(***************************************************************************)
\* Selections in the order of time.
Fronts == {q \in Seq(Hit) : InOrder(q)}

PairsOf(s, k) ==
  {p \in (DOMAIN s) \X (DOMAIN s) : p[1] < p[2] /\ {s[p[1]].du, s[p[2]].du} = k}
Later(p, q) == p[1] > q[1] \/ (p[1] = q[1] /\ p[2] >= q[2])
LastPair(p, s, k) == p \in PairsOf(s, k) /\ \A q \in PairsOf(s, k) : Later(p, q)

LEMMA SomeLast ==
  ASSUME NEW s \in Seq(Hit), NEW k, PairsOf(s, k) # {}
  PROVE  \E p : LastPair(p, s, k)
<1> DEFINE P == PairsOf(s, k)
           A == {a \in DOMAIN s : \E p \in P : p[1] = a}
           B(a) == {b \in DOMAIN s : \E p \in P : p[1] = a /\ p[2] = b}
<1>1. DOMAIN s = 1..Len(s) /\ Len(s) \in Nat
  OBVIOUS
<1>2. \A p \in P : p[1] \in DOMAIN s /\ p[2] \in DOMAIN s
  BY DEF PairsOf
<1> HIDE DEF P
<1>3. A # {} /\ A \subseteq 1..Len(s)
  BY <1>1, <1>2 DEF P
<1>4. PICK a \in A : \A c \in A : a >= c
  <2> HIDE DEF A
  <2> QED
    BY <1>1, <1>3, HighestNumber
<1>5. B(a) # {} /\ B(a) \subseteq 1..Len(s)
  BY <1>1, <1>2
<1>6. PICK b \in B(a) : \A c \in B(a) : b >= c
  <2> HIDE DEF B
  <2> QED
    BY <1>1, <1>5, HighestNumber
<1>7. PICK p \in P : p[1] = a /\ p[2] = b
  BY <1>6
<1>8. ASSUME NEW q \in P
       PROVE  Later(p, q)
  <2>1. q[1] \in A /\ q[2] \in B(q[1])
    BY <1>2
  <2>2. a >= q[1] /\ (q[1] = a => b >= q[2])
    BY <1>4, <1>6, <2>1
  <2>3. a \in Nat /\ q[1] \in Nat
    BY <1>1, <1>2
  <2> QED
    BY <1>7, <2>2, <2>3 DEF Later
<1> QED
  BY <1>7, <1>8 DEF LastPair, P

LEMMA OneLast ==
  ASSUME NEW s \in Seq(Hit), NEW k, NEW p, NEW q, LastPair(p, s, k), LastPair(q, s, k)
  PROVE  p = q
<1>1. Later(p, q) /\ Later(q, p)
  BY DEF LastPair
<1>2. p \in (DOMAIN s) \X (DOMAIN s) /\ q \in (DOMAIN s) \X (DOMAIN s) /\ DOMAIN s \subseteq Nat
  <2>1. DOMAIN s = 1..Len(s)
    OBVIOUS
  <2> QED
    BY <2>1 DEF LastPair, PairsOf
<1>3. p[1] = q[1] /\ p[2] = q[2]
  BY <1>1, <1>2 DEF Later
<1>4. p = <<p[1], p[2]>> /\ q = <<q[1], q[2]>>
  BY <1>2
<1> QED
  BY <1>3, <1>4

\* calculatePairDifferences, by the last pair of hits of two DUs.
LEMMA PairDiffsAre ==
  ASSUME NEW s \in Seq(Hit)
  PROVE  /\ PairDiffs(s) = [k \in DOMAIN PairDiffs(s) |-> PairDiffs(s)[k]]
         /\ \A k : k \in DOMAIN PairDiffs(s) <=> PairsOf(s, k) # {}
         /\ \A k \in DOMAIN PairDiffs(s) : \A p :
              LastPair(p, s, k) => PairDiffs(s)[k] = s[p[1]].t - s[p[2]].t
<1> DEFINE pairs == {p \in (DOMAIN s) \X (DOMAIN s) : p[1] < p[2]}
           key(p) == {s[p[1]].du, s[p[2]].du}
           later(p, q) == p[1] > q[1] \/ (p[1] = q[1] /\ p[2] >= q[2])
           Kept(k) == CHOOSE q \in pairs :
                        key(q) = k /\ \A r \in pairs : key(r) = k => later(q, r)
           D == PairDiffs(s)
<1>1. D = [k \in {key(p) : p \in pairs} |-> s[Kept(k)[1]].t - s[Kept(k)[2]].t]
  BY DEF PairDiffs
<1> HIDE DEF D
<1>2. \A k : PairsOf(s, k) = {p \in pairs : key(p) = k}
  BY DEF PairsOf
<1> HIDE DEF pairs, key
<1>3. \A k : k \in DOMAIN D <=> PairsOf(s, k) # {}
  <2>1. DOMAIN D = {key(p) : p \in pairs}
    <3> HIDE DEF Kept
    <3> QED
      BY <1>1
  <2>2. \A k : k \in {key(p) : p \in pairs} <=> \E p \in pairs : key(p) = k
    OBVIOUS
  <2>3. \A k : PairsOf(s, k) # {} <=> \E p \in pairs : key(p) = k
    BY <1>2
  <2> QED
    BY <2>1, <2>2, <2>3
<1>4. ASSUME NEW k \in DOMAIN D, NEW p, LastPair(p, s, k)
      PROVE  D[k] = s[p[1]].t - s[p[2]].t
  <2>1. /\ p \in pairs /\ key(p) = k
        /\ \A r \in pairs : key(r) = k => later(p, r)
    BY <1>2, <1>4 DEF LastPair, Later
  <2>2. /\ Kept(k) \in pairs /\ key(Kept(k)) = k
        /\ \A r \in pairs : key(r) = k => later(Kept(k), r)
    <3> HIDE DEF later
    <3> QED
      BY <2>1
  <2> HIDE DEF Kept
  <2>3. LastPair(Kept(k), s, k)
    BY <1>2, <2>2 DEF LastPair, Later
  <2>4. Kept(k) = p
    BY <1>4, <2>3, OneLast
  <2>5. D[k] = s[Kept(k)[1]].t - s[Kept(k)[2]].t
    BY <1>1, <1>4
  <2> QED
    BY <2>4, <2>5
<1>5. D = [k \in DOMAIN D |-> D[k]]
  <2> DEFINE F(k) == s[Kept(k)[1]].t - s[Kept(k)[2]].t
  <2>1. D = [k \in {key(p) : p \in pairs} |-> F(k)]
    BY <1>1
  <2> HIDE DEF F
  <2> QED
    BY <2>1
<1> QED
  BY <1>3, <1>4, <1>5 DEF D

LEMMA FromZeroIs ==
  ASSUME NEW s \in Fronts
  PROVE  /\ FromZero(s) \in Fronts /\ DOMAIN FromZero(s) = DOMAIN s
         /\ \A k \in DOMAIN s : /\ FromZero(s)[k].du = s[k].du
                                /\ FromZero(s)[k].t = s[k].t - s[1].t
<1> DEFINE z == FromZero(s)
<1>1. s \in Seq(Hit) /\ InOrder(s) /\ DOMAIN s = 1..Len(s) /\ Len(s) \in Nat
  BY DEF Fronts
<1>2. z = [k \in DOMAIN s |-> [s[k] EXCEPT !.t = @ - s[1].t]]
  BY DEF FromZero
<1> HIDE DEF z
<1>3. ASSUME NEW k \in DOMAIN s
      PROVE  /\ z[k] \in Hit /\ z[k].du = s[k].du /\ z[k].t = s[k].t - s[1].t
             /\ s[k].t \in Int /\ s[1].t \in Int
  <2>1. s[k] \in Hit /\ s[1] \in Hit
    BY <1>1
  <2>2. s[k].du \in Nat /\ s[k].t \in Int /\ s[1].t \in Int /\ s[k] = [du |-> s[k].du, t |-> s[k].t]
    BY <2>1 DEF Hit
  <2>3. z[k] = [s[k] EXCEPT !.t = s[k].t - s[1].t]
    BY <1>2
  <2>4. PICK a, b : s[k] = [du |-> a, t |-> b]
    BY <2>2
  <2>5. z[k] = [du |-> a, t |-> b - s[1].t] /\ s[k].du = a /\ s[k].t = b
    BY <2>3, <2>4
  <2> QED
    BY <2>2, <2>5 DEF Hit
<1>4. DOMAIN z = DOMAIN s /\ z \in Seq(Hit)
  <2>1. z \in [1..Len(s) -> Hit]
    <3>1. DOMAIN z = DOMAIN s /\ z = [k \in DOMAIN s |-> z[k]]
      BY <1>2
    <3> QED
      BY <1>1, <1>3, <3>1
  <2> QED
    BY <1>1, <2>1, FunIsSeq, Zenon
<1>5. InOrder(z)
  <2> SUFFICES ASSUME NEW j \in DOMAIN s, NEW k \in DOMAIN s, j < k
               PROVE  z[j].t <= z[k].t
    BY <1>4 DEF InOrder
  <2>1. s[j].t <= s[k].t
    BY <1>1 DEF InOrder
  <2> QED
    BY <1>3, <2>1
<1> QED
  BY <1>3, <1>4, <1>5 DEF Fronts, z

\* Where in its second an event lies does not matter to the history.
LEMMA DiffsFromZero ==
  ASSUME NEW s \in Fronts
  PROVE  PairDiffs(FromZero(s)) = PairDiffs(s)
<1> DEFINE z == FromZero(s)
<1>1. s \in Seq(Hit) /\ z \in Seq(Hit)
  BY FromZeroIs DEF Fronts
<1>2. /\ DOMAIN z = DOMAIN s
      /\ \A k \in DOMAIN s : z[k].du = s[k].du /\ z[k].t = s[k].t - s[1].t
  BY FromZeroIs
<1> HIDE DEF z
<1>3. \A k \in DOMAIN s : s[k].t \in Int /\ s[1].t \in Int
  <2>1. DOMAIN s = 1..Len(s) /\ Len(s) \in Nat
    BY <1>1
  <2>2. \A k \in DOMAIN s : s[k] \in Hit /\ s[1] \in Hit
    BY <1>1, <2>1
  <2> QED
    BY <2>2 DEF Hit
<1>4. \A k : PairsOf(z, k) = PairsOf(s, k)
  BY <1>2 DEF PairsOf
<1>5. \A p, k : LastPair(p, z, k) <=> LastPair(p, s, k)
  BY <1>4 DEF LastPair
<1>6. /\ PairDiffs(s) = [k \in DOMAIN PairDiffs(s) |-> PairDiffs(s)[k]]
      /\ \A k : k \in DOMAIN PairDiffs(s) <=> PairsOf(s, k) # {}
      /\ \A k \in DOMAIN PairDiffs(s) : \A p :
           LastPair(p, s, k) => PairDiffs(s)[k] = s[p[1]].t - s[p[2]].t
  BY <1>1, PairDiffsAre
<1>7. /\ PairDiffs(z) = [k \in DOMAIN PairDiffs(z) |-> PairDiffs(z)[k]]
      /\ \A k : k \in DOMAIN PairDiffs(z) <=> PairsOf(z, k) # {}
      /\ \A k \in DOMAIN PairDiffs(z) : \A p :
           LastPair(p, z, k) => PairDiffs(z)[k] = z[p[1]].t - z[p[2]].t
  BY <1>1, PairDiffsAre
<1>8. DOMAIN PairDiffs(z) = DOMAIN PairDiffs(s)
  BY <1>4, <1>6, <1>7
<1>9. ASSUME NEW k \in DOMAIN PairDiffs(s)
      PROVE  PairDiffs(z)[k] = PairDiffs(s)[k]
  <2>1. PairsOf(s, k) # {}
    BY <1>6
  <2>2. PICK p : LastPair(p, s, k)
    BY <1>1, <2>1, SomeLast
  <2>3. p[1] \in DOMAIN s /\ p[2] \in DOMAIN s
    BY <2>2 DEF LastPair, PairsOf
  <2>4. PairDiffs(s)[k] = s[p[1]].t - s[p[2]].t
    BY <1>6, <2>2
  <2>5. PairDiffs(z)[k] = z[p[1]].t - z[p[2]].t
    BY <1>5, <1>7, <1>8, <2>2
  <2> QED
    BY <1>2, <1>3, <2>3, <2>4, <2>5
<1> QED
  BY <1>6, <1>7, <1>8, <1>9 DEF z

Magnitude(x) == IF x >= 0 THEN x ELSE -x

LEMMA OneHitEach ==
  ASSUME NEW s \in Seq(Hit), OncePerDu(s)
  PROVE  \A j, k \in DOMAIN s : s[j].du = s[k].du => j = k
<1> DEFINE f == [k \in DOMAIN s |-> s[k].du]
<1>1. DOMAIN s = 1..Len(s) /\ Len(s) \in Nat
  OBVIOUS
<1>2. IsFiniteSet(DOMAIN s) /\ Cardinality(DOMAIN s) = Len(s)
  <2>1. Cardinality(1..Len(s)) = IF 1 > Len(s) THEN 0 ELSE Len(s) - 1 + 1
    BY <1>1, FS_Interval
  <2>2. IsFiniteSet(1..Len(s))
    BY <1>1, FS_Interval
  <2> QED
    BY <1>1, <2>1, <2>2
<1>3. f \in Surjection(DOMAIN s, DUs(s))
  BY DEF Surjection, DUs
<1>4. Cardinality(DOMAIN s) = Cardinality(DUs(s))
  BY <1>2 DEF OncePerDu
<1> HIDE DEF f
<1>5. f \in Injection(DOMAIN s, DUs(s))
  BY <1>2, <1>3, <1>4, FS_SurjSameCardinalityImpliesInj
<1>6. \A j, k \in DOMAIN s : f[j] = f[k] => j = k
  BY <1>5 DEF Injection, IsInjective
<1> QED
  BY <1>6 DEF f

LEMMA TimeIs ==
  ASSUME NEW s \in Seq(Hit), OncePerDu(s), NEW d \in DUs(s)
  PROVE  \E k \in DOMAIN s : s[k].du = d /\ TimeOf(s, d) = s[k].t /\ s[k].t \in Int
<1>1. PICK k \in DOMAIN s : s[k].du = d
  BY DEF DUs
<1> DEFINE m == CHOOSE j \in DOMAIN s : s[j].du = d
<1>2. m \in DOMAIN s /\ s[m].du = d
  BY <1>1
<1>3. TimeOf(s, d) = s[m].t
  BY DEF TimeOf
<1> HIDE DEF m
<1>4. s[m] \in Hit
  BY <1>2
<1> QED
  BY <1>2, <1>3, <1>4 DEF Hit

\* Where each DU has one hit, the difference that the code keeps of a pair
\* is the time between its hits, the earlier one first.
LEMMA DiffIs ==
  ASSUME NEW s \in Fronts, OncePerDu(s), NEW d \in DUs(s), NEW e \in DUs(s), d # e
  PROVE  /\ {d, e} \in DOMAIN PairDiffs(s)
         /\ PairDiffs(s)[{d, e}] = -Magnitude(TimeOf(s, d) - TimeOf(s, e))
         /\ TimeOf(s, d) \in Int /\ TimeOf(s, e) \in Int
<1>1. s \in Seq(Hit) /\ InOrder(s) /\ DOMAIN s \subseteq Nat
  <2>1. s \in Seq(Hit) /\ InOrder(s)
    BY DEF Fronts
  <2>2. DOMAIN s = 1..Len(s)
    BY <2>1
  <2> QED
    BY <2>1, <2>2
<1>2. PICK a \in DOMAIN s : s[a].du = d /\ TimeOf(s, d) = s[a].t /\ s[a].t \in Int
  BY <1>1, TimeIs
<1>3. PICK b \in DOMAIN s : s[b].du = e /\ TimeOf(s, e) = s[b].t /\ s[b].t \in Int
  BY <1>1, TimeIs
<1>4. \A j \in DOMAIN s : (s[j].du = d => j = a) /\ (s[j].du = e => j = b)
  BY <1>1, <1>2, <1>3, OneHitEach
<1>5. a \in Nat /\ b \in Nat /\ a # b
  BY <1>1, <1>2, <1>3
<1> DEFINE p == IF a < b THEN <<a, b>> ELSE <<b, a>>
<1>6. /\ p \in (DOMAIN s) \X (DOMAIN s) /\ p[1] < p[2]
      /\ p[1] \in {a, b} /\ p[2] \in {a, b}
      /\ (p[1] = a /\ p[2] = b) \/ (p[1] = b /\ p[2] = a)
  BY <1>5
<1> HIDE DEF p
<1>7. p \in PairsOf(s, {d, e})
  <2>1. {s[p[1]].du, s[p[2]].du} = {d, e}
    BY <1>2, <1>3, <1>6
  <2> QED
    BY <1>6, <2>1 DEF PairsOf
<1>8. ASSUME NEW q \in PairsOf(s, {d, e})
      PROVE  q[1] = p[1] /\ q[2] = p[2]
  <2>1. /\ q[1] \in DOMAIN s /\ q[2] \in DOMAIN s /\ q[1] < q[2]
        /\ {s[q[1]].du, s[q[2]].du} = {d, e}
    BY DEF PairsOf
  <2>2. (q[1] = a /\ q[2] = b) \/ (q[1] = b /\ q[2] = a)
    <3>1. \/ (s[q[1]].du = d /\ s[q[2]].du = e)
          \/ (s[q[1]].du = e /\ s[q[2]].du = d)
      BY <2>1
    <3> QED
      BY <1>4, <2>1, <3>1
  <2> QED
    BY <1>5, <1>6, <2>1, <2>2
<1>9. LastPair(p, s, {d, e})
  <2>1. p[1] \in Nat /\ p[2] \in Nat
    BY <1>5, <1>6
  <2>2. \A q \in PairsOf(s, {d, e}) : Later(p, q)
    BY <1>8, <2>1 DEF Later
  <2> QED
    BY <1>7, <2>2 DEF LastPair
<1>10. {d, e} \in DOMAIN PairDiffs(s)
  BY <1>1, <1>7, PairDiffsAre
<1>11. PairDiffs(s)[{d, e}] = s[p[1]].t - s[p[2]].t
  BY <1>1, <1>9, <1>10, PairDiffsAre
<1>12. s[p[1]].t <= s[p[2]].t
  BY <1>1, <1>6 DEF InOrder
<1>13. PairDiffs(s)[{d, e}] = -Magnitude(s[a].t - s[b].t)
  <2>1. CASE p[1] = a /\ p[2] = b
    BY <1>2, <1>3, <1>11, <1>12, <2>1 DEF Magnitude
  <2>2. CASE p[1] = b /\ p[2] = a
    BY <1>2, <1>3, <1>11, <1>12, <2>2 DEF Magnitude
  <2> QED
    BY <1>6, <2>1, <2>2
<1> QED
  BY <1>2, <1>3, <1>10, <1>13

LEMMA TwoOf ==
  ASSUME NEW p, IsFiniteSet(p), Cardinality(p) = 2
  PROVE  \E d, e \in p : d # e /\ p = {d, e}
<1>1. p # {}
  BY FS_EmptySet
<1>2. PICK d \in p : TRUE
  BY <1>1
<1>3. IsFiniteSet(p \ {d}) /\ Cardinality(p \ {d}) = 1
  <2>1. /\ IsFiniteSet(p \ {d})
        /\ Cardinality(p \ {d}) = IF d \in p THEN Cardinality(p) - 1 ELSE Cardinality(p)
    BY FS_RemoveElement
  <2> QED
    BY <2>1
<1>4. PICK e : p \ {d} = {e}
  BY <1>3, FS_Singleton
<1>5. e \in p /\ d # e /\ p = {d, e}
  BY <1>4
<1> QED
  BY <1>5

\* Selections that show the same wave front have similar differences.
LEMMA FrontsAreSimilar ==
  ASSUME NEW s \in Fronts, NEW r \in Fronts, SameFront(s, r)
  PROVE  Similar(PairDiffs(s), PairDiffs(r))
<1> DEFINE pairs == {p \in SUBSET (DUs(s) \cap DUs(r)) : Cardinality(p) = 2}
           alike(p) == \A d, e \in p : Near(TimeOf(s, d) - TimeOf(s, e),
                                            TimeOf(r, d) - TimeOf(r, e))
           same == {p \in pairs : alike(p)}
           A == PairDiffs(s)
           B == PairDiffs(r)
           close == {k \in DOMAIN A \cap DOMAIN B : Near(A[k], B[k])}
<1>1. OncePerDu(s) /\ OncePerDu(r) /\ same # {} /\ Cardinality(same) >= MinPair
  BY DEF SameFront
<1>2. IsFiniteSet(DUs(s))
  <2>1. s \in Seq(Hit)
    BY DEF Fronts
  <2>2. DOMAIN s = 1..Len(s) /\ Len(s) \in Nat
    BY <2>1
  <2>3. DUs(s) = Within(s, 1, Len(s))
    BY <2>2 DEF DUs, Within
  <2>4. 1 \in 1..(Len(s) + 1) /\ Len(s) \in 0..Len(s)
    BY <2>2
  <2> QED
    BY <2>1, <2>3, <2>4, WithinIs
<1> HIDE DEF A, B
<1>3. ASSUME NEW p \in same
      PROVE  p \in close
  <2>1. /\ p \subseteq DUs(s) /\ p \subseteq DUs(r) /\ Cardinality(p) = 2
        /\ \A d, e \in p : Near(TimeOf(s, d) - TimeOf(s, e), TimeOf(r, d) - TimeOf(r, e))
    OBVIOUS
  <2>2. IsFiniteSet(p)
    BY <1>2, <2>1, FS_Subset
  <2>3. PICK d \in p, e \in p : d # e /\ p = {d, e}
    BY <2>1, <2>2, TwoOf
  <2>4. /\ {d, e} \in DOMAIN A /\ A[{d, e}] = -Magnitude(TimeOf(s, d) - TimeOf(s, e))
        /\ TimeOf(s, d) \in Int /\ TimeOf(s, e) \in Int
    BY <1>1, <2>1, <2>3, DiffIs DEF A
  <2>5. /\ {d, e} \in DOMAIN B /\ B[{d, e}] = -Magnitude(TimeOf(r, d) - TimeOf(r, e))
        /\ TimeOf(r, d) \in Int /\ TimeOf(r, e) \in Int
    BY <1>1, <2>1, <2>3, DiffIs DEF B
  <2>6. Near(TimeOf(s, d) - TimeOf(s, e), TimeOf(r, d) - TimeOf(r, e))
    BY <2>1
  <2>7. DiffLimit \in Nat
    BY DecisionConstants
  <2>8. ASSUME NEW x \in Int, NEW y \in Int, Near(x, y)
        PROVE  Near(-Magnitude(x), -Magnitude(y))
    BY <2>7, <2>8 DEF Near, Magnitude
  <2>9. /\ TimeOf(s, d) - TimeOf(s, e) \in Int
        /\ TimeOf(r, d) - TimeOf(r, e) \in Int
    BY <2>4, <2>5
  <2>10. Near(-Magnitude(TimeOf(s, d) - TimeOf(s, e)), -Magnitude(TimeOf(r, d) - TimeOf(r, e)))
    BY <2>6, <2>8, <2>9
  <2> QED
    BY <2>3, <2>4, <2>5, <2>10
<1>4. IsFiniteSet(close)
  <2>1. DOMAIN A \subseteq SUBSET DUs(s)
    <3> SUFFICES ASSUME NEW k \in DOMAIN A
                 PROVE  k \in SUBSET DUs(s)
      OBVIOUS
    <3>1. s \in Seq(Hit)
      BY DEF Fronts
    <3>2. PairsOf(s, k) # {}
      BY <3>1, PairDiffsAre DEF A
    <3> QED
      BY <3>2 DEF PairsOf, DUs
  <2>2. IsFiniteSet(SUBSET DUs(s))
    BY <1>2, FS_SUBSET
  <2>3. close \in SUBSET (SUBSET DUs(s))
    BY <2>1
  <2> HIDE DEF close
  <2> QED
    BY <2>2, <2>3, FS_Subset
<1> HIDE DEF same, close
<1>5. same \in SUBSET close
  BY <1>3
<1>6. /\ Cardinality(same) <= Cardinality(close)
      /\ Cardinality(same) \in Nat /\ Cardinality(close) \in Nat
  BY <1>4, <1>5, FS_Subset, FS_CardinalityType
<1>7. MinPair \in Nat
  BY DecisionConstants
<1>8. close # {} /\ Cardinality(close) >= MinPair
  BY <1>1, <1>5, <1>6, <1>7
<1> QED
  BY <1>8 DEF Similar, close, A, B

\* The indices that are kept rise.
LEMMA IndicesRise ==
  ASSUME NEW n \in Nat, NEW S
  PROVE  LET q == Keep([k \in 1..n |-> k], S)
         IN  /\ q \in Seq(1..n)
             /\ \A j, k \in DOMAIN q : j < k => q[j] < q[k]
<1> DEFINE s == [k \in 1..n |-> k]
<1>1. s \in Seq(1..n) /\ Len(s) = n /\ \A k \in 1..n : s[k] = k
  <2>1. s \in [1..n -> 1..n] /\ \A k \in 1..n : s[k] = k
    OBVIOUS
  <2> HIDE DEF s
  <2> QED
    BY <2>1, FunIsSeq
<1> HIDE DEF s
<1>2. PICK h : /\ h[0] = <<>>
               /\ \A k \in 1..Len(s) :
                    h[k] = IF s[k] \in S THEN Append(h[k - 1], s[k]) ELSE h[k - 1]
               /\ Keep(s, S) = h[Len(s)]
  BY <1>1, KeepSteps
<1> DEFINE Rises(k) == /\ h[k] \in Seq(1..n)
                       /\ \A j \in DOMAIN h[k] : h[k][j] <= k
                       /\ \A j, l \in DOMAIN h[k] : j < l => h[k][j] < h[k][l]
           G == {k \in 0..n : Rises(k)}
<1>3. 0 \in G
  <2>1. <<>> \in Seq(1..n) /\ DOMAIN <<>> = {}
    OBVIOUS
  <2>2. Rises(0)
    BY <1>2, <2>1
  <2>3. 0 \in 0..n
    OBVIOUS
  <2> HIDE DEF Rises
  <2> QED
    BY <2>2, <2>3
<1>4. ASSUME NEW k \in 0..(n - 1), k \in G
      PROVE  k + 1 \in G
  <2>1. k \in Nat /\ k + 1 \in 1..n /\ k + 1 \in 0..n /\ (k + 1) - 1 = k
    OBVIOUS
  <2>2. Rises(k)
    BY <1>4
  <2>3. h[k + 1] = IF k + 1 \in S THEN Append(h[k], k + 1) ELSE h[k]
    BY <1>1, <1>2, <2>1
  <2> DEFINE a == h[k]
             b == h[k + 1]
  <2>4. /\ a \in Seq(1..n) /\ Len(a) \in Nat /\ DOMAIN a = 1..Len(a)
        /\ \A j \in 1..Len(a) : a[j] <= k /\ a[j] \in 1..n
        /\ \A j, l \in 1..Len(a) : j < l => a[j] < a[l]
    <3>1. a \in Seq(1..n)
      BY <2>2
    <3>2. Len(a) \in Nat /\ DOMAIN a = 1..Len(a) /\ \A j \in 1..Len(a) : a[j] \in 1..n
      BY <3>1
    <3> QED
      BY <2>2, <3>1, <3>2
  <2>5. CASE k + 1 \notin S
    <3>1. b = a
      BY <2>3, <2>5
    <3> HIDE DEF a, b
    <3>2. /\ b \in Seq(1..n)
          /\ \A j \in DOMAIN b : b[j] <= k + 1
          /\ \A j, l \in DOMAIN b : j < l => b[j] < b[l]
      BY <2>1, <2>4, <3>1
    <3> QED
      BY <2>1, <3>2 DEF b
  <2>6. CASE k + 1 \in S
    <3>1. b = Append(a, k + 1)
      BY <2>3, <2>6
    <3> HIDE DEF a, b
    <3>2. /\ b \in Seq(1..n) /\ Len(b) = Len(a) + 1
          /\ \A j \in 1..Len(a) : b[j] = a[j]
          /\ b[Len(a) + 1] = k + 1
      BY <2>1, <2>4, <3>1, AppendProperties
    <3>3. DOMAIN b = 1..(Len(a) + 1) /\ \A j \in DOMAIN b : j \in 1..Len(a) \/ j = Len(a) + 1
      BY <2>4, <3>2
    <3>4. \A j \in DOMAIN b : b[j] <= k + 1
      BY <2>1, <2>4, <3>2, <3>3
    <3>5. \A j, l \in DOMAIN b : j < l => b[j] < b[l]
      <4> SUFFICES ASSUME NEW j \in DOMAIN b, NEW l \in DOMAIN b, j < l
                   PROVE  b[j] < b[l]
        OBVIOUS
      <4>1. j \in 1..Len(a)
        BY <2>4, <3>3
      <4>2. CASE l \in 1..Len(a)
        BY <2>4, <3>2, <4>1, <4>2
      <4>3. CASE l = Len(a) + 1
        BY <2>1, <2>4, <3>2, <4>1, <4>3
      <4> QED
        BY <3>3, <4>2, <4>3
    <3> QED
      BY <2>1, <3>2, <3>4, <3>5 DEF b
  <2> QED
    BY <2>5, <2>6
<1>5. n \in G
  <2> HIDE DEF G
  <2> QED
    BY <1>3, <1>4, UpTo
<1>6. Keep(s, S) = h[n]
  BY <1>1, <1>2
<1> QED
  BY <1>5, <1>6 DEF s

LEMMA SelectionIs ==
  ASSUME NEW w \in Fronts, NEW S
  PROVE  Selection(w, S) \in Fronts
<1> DEFINE n == Len(w)
           q == Keep([k \in DOMAIN w |-> k], S)
           r == [k \in DOMAIN q |-> w[q[k]]]
<1>1. w \in Seq(Hit) /\ InOrder(w) /\ n \in Nat /\ DOMAIN w = 1..n
  BY DEF Fronts
<1>2. q \in Seq(1..n) /\ \A j, k \in DOMAIN q : j < k => q[j] < q[k]
  BY <1>1, IndicesRise
<1> HIDE DEF q, n
<1>3. Len(q) \in Nat /\ DOMAIN q = 1..Len(q) /\ \A k \in DOMAIN q : q[k] \in 1..n
  <2>1. q \in Seq(1..n)
    BY <1>2
  <2>2. Len(q) \in Nat /\ DOMAIN q = 1..Len(q)
    BY <2>1
  <2>3. \A k \in 1..Len(q) : q[k] \in 1..n
    BY <2>1, ElementOfSeq
  <2> QED
    BY <2>2, <2>3
<1>4. \A k \in DOMAIN q : w[q[k]] \in Hit
  BY <1>1, <1>3 DEF n
<1>5. r \in [1..Len(q) -> Hit] /\ \A k \in DOMAIN q : r[k] = w[q[k]]
  BY <1>3, <1>4
<1> HIDE DEF r
<1>6. r \in Seq(Hit) /\ DOMAIN r = 1..Len(q)
  BY <1>3, <1>5, FunIsSeq
<1>7. InOrder(r)
  <2> SUFFICES ASSUME NEW j \in DOMAIN q, NEW k \in DOMAIN q, j < k
               PROVE  r[j].t <= r[k].t
    BY <1>3, <1>6 DEF InOrder
  <2>1. q[j] < q[k] /\ q[j] \in DOMAIN w /\ q[k] \in DOMAIN w
    BY <1>1, <1>2, <1>3
  <2>2. w[q[j]].t <= w[q[k]].t
    BY <1>1, <2>1 DEF InOrder
  <2> QED
    BY <1>5, <2>2
<1>8. Selection(w, S) = r
  BY DEF Selection, q, r
<1> QED
  BY <1>6, <1>7, <1>8 DEF Fronts

-----------------------------------------------------------------------------
(***************************************************************************)
(* Repeats                                                                 *)
(***************************************************************************)
Diffs == {PairDiffs(q) : q \in Fronts}

\* p holds what the filter keeps of the selections in q.
Recalls(p, q) ==
  /\ q \in Seq(Fronts) /\ p \in Seq(Diffs) /\ Len(p) = Len(q)
  /\ \A k \in 1..Len(q) : p[k] = PairDiffs(q[k])

RepeatInv ==
  config.duplicate => /\ accepted \in Fronts /\ prev = PairDiffs(accepted)
                      /\ Recalls(past, repelled)

LEMMA RecallsMore ==
  ASSUME NEW p, NEW q, Recalls(p, q), NEW s \in Fronts
  PROVE  Recalls(Bounded(Append(p, PairDiffs(s))), Bounded(Append(q, s)))
<1> DEFINE a == Append(p, PairDiffs(s))
           b == Append(q, s)
           n == Len(q)
<1>1. /\ q \in Seq(Fronts) /\ p \in Seq(Diffs) /\ Len(p) = n /\ n \in Nat
      /\ \A k \in 1..n : p[k] = PairDiffs(q[k])
  BY DEF Recalls
<1>2. PairDiffs(s) \in Diffs
  BY DEF Diffs
<1>3. /\ a \in Seq(Diffs) /\ Len(a) = n + 1 /\ a[n + 1] = PairDiffs(s)
      /\ \A k \in 1..n : a[k] = p[k]
  BY <1>1, <1>2, AppendProperties
<1>4. /\ b \in Seq(Fronts) /\ Len(b) = n + 1 /\ b[n + 1] = s
      /\ \A k \in 1..n : b[k] = q[k]
  BY <1>1, AppendProperties
<1> HIDE DEF a, b, n
<1>5. \A k \in 1..(n + 1) : a[k] = PairDiffs(b[k])
  <2>1. \A k \in 1..(n + 1) : k \in 1..n \/ k = n + 1
    BY <1>1
  <2> QED
    BY <1>1, <1>3, <1>4, <2>1
<1>6. CASE n + 1 > HistorySize
  <2>1. Bounded(a) = Tail(a) /\ Bounded(b) = Tail(b)
    BY <1>3, <1>4, <1>6 DEF Bounded
  <2>2. a # <<>> /\ b # <<>>
    BY <1>1, <1>3, <1>4
  <2>3. Tail(a) \in Seq(Diffs) /\ Len(Tail(a)) = n /\ \A k \in 1..n : Tail(a)[k] = a[k + 1]
    <3>1. /\ Tail(a) \in Seq(Diffs) /\ Len(Tail(a)) = Len(a) - 1
          /\ \A k \in 1..Len(Tail(a)) : Tail(a)[k] = a[k + 1]
      BY <1>3, <2>2, HeadTailProperties
    <3> QED
      BY <1>1, <1>3, <3>1
  <2>4. Tail(b) \in Seq(Fronts) /\ Len(Tail(b)) = n /\ \A k \in 1..n : Tail(b)[k] = b[k + 1]
    <3>1. /\ Tail(b) \in Seq(Fronts) /\ Len(Tail(b)) = Len(b) - 1
          /\ \A k \in 1..Len(Tail(b)) : Tail(b)[k] = b[k + 1]
      BY <1>4, <2>2, HeadTailProperties
    <3> QED
      BY <1>1, <1>4, <3>1
  <2>5. \A k \in 1..n : k + 1 \in 1..(n + 1)
    BY <1>1
  <2>6. \A k \in 1..n : Tail(a)[k] = PairDiffs(Tail(b)[k])
    BY <1>5, <2>3, <2>4, <2>5
  <2> QED
    BY <2>1, <2>3, <2>4, <2>6 DEF Recalls, a, b
<1>7. CASE ~(n + 1 > HistorySize)
  <2>1. Bounded(a) = a /\ Bounded(b) = b
    BY <1>3, <1>4, <1>7 DEF Bounded
  <2> QED
    BY <1>3, <1>4, <1>5, <2>1 DEF Recalls, a, b
<1> QED
  BY <1>6, <1>7

LEMMA WindowIsFront ==
  ASSUME ScanInv, ~Scanned, config.trigger_type # 0
  PROVE  Filled.s.w \in Fronts
<1>1. PICK e \in (i + 1)..(Len(hits) + 1) :
        e = Filled.j /\ Filled.s.w = SubSeq(hits, i, e - 1)
  BY FilledIs
<1>2. /\ hits \in Seq(Hit) /\ InOrder(hits) /\ i \in 1..Len(hits) /\ Len(hits) \in Nat
      /\ DOMAIN hits = 1..Len(hits)
  BY DEF ScanInv, Scanned
<1> DEFINE w == SubSeq(hits, i, e - 1)
<1>3. /\ w \in Seq(Hit) /\ DOMAIN w = 1..(e - i)
      /\ \A k \in 1..(e - i) : w[k] = hits[i + k - 1]
  <2>1. i \in Int /\ e - 1 \in Int /\ \A k \in i..(e - 1) : hits[k] \in Hit
    BY <1>1, <1>2
  <2>2. /\ w \in Seq(Hit)
        /\ Len(w) = IF i <= e - 1 THEN (e - 1) - i + 1 ELSE 0
        /\ \A k \in 1..((e - 1) - i + 1) : w[k] = hits[i + k - 1]
    BY <2>1, SubSeqProperties
  <2>3. (e - 1) - i + 1 = e - i /\ i <= e - 1
    BY <1>1, <1>2
  <2> HIDE DEF w
  <2> QED
    BY <2>2, <2>3
<1> HIDE DEF w
<1>4. InOrder(w)
  <2> SUFFICES ASSUME NEW j \in 1..(e - i), NEW k \in 1..(e - i), j < k
               PROVE  w[j].t <= w[k].t
    BY <1>3 DEF InOrder
  <2>1. i + j - 1 \in DOMAIN hits /\ i + k - 1 \in DOMAIN hits /\ i + j - 1 < i + k - 1
    BY <1>1, <1>2
  <2> QED
    BY <1>2, <1>3, <2>1 DEF InOrder
<1> QED
  BY <1>1, <1>3, <1>4 DEF Fronts, w

\* What happens to the history, and what it says of a selection accepted.
LEMMA JudgeRepeats ==
  ASSUME ScanInv, JudgedInv, RepeatInv, config.duplicate, Judge
  PROVE  /\ RepeatInv'
         /\ Accepts =>
              /\ ~SameFront(accepted', accepted)
              /\ \A k \in DOMAIN repelled : ~SameFront(accepted', repelled[k])
<1> DEFINE w == Filled.s.w
           s == Selection(w, Selected(w))
           z == FromZero(s)
<1>1. /\ ~Scanned /\ config.trigger_type # 0 /\ config' = config
      /\ RejectUnseen(w) \/ PassFilters(w)
  BY DEF Judge
<1>2. accepted \in Fronts /\ prev = PairDiffs(accepted) /\ Recalls(past, repelled)
  BY DEF RepeatInv
<1>3. w \in Fronts
  BY <1>1, WindowIsFront
<1> HIDE DEF w
<1>4. s \in Fronts
  BY <1>3, SelectionIs
<1> HIDE DEF s
<1>5. z \in Fronts /\ PairDiffs(z) = PairDiffs(s)
  BY <1>4, FromZeroIs, DiffsFromZero
<1> DEFINE v(outcome) == [window |-> w, kept |-> {}, outcome |-> outcome]
<1>a. ASSUME NEW outcome \in {"causal", "template", "repeat"},
             judged' = Append(judged, v(outcome))
      PROVE  ~Accepts
  <2>1. w \in Seq(Hit)
    BY <1>3 DEF Fronts
  <2>2. v(outcome) \in Verdicts /\ v(outcome).outcome # "accepted"
    BY <2>1 DEF Verdicts
  <2> HIDE DEF v
  <2>3. Len(judged') = Len(judged) + 1 /\ judged'[Len(judged) + 1] = v(outcome)
    BY <1>a, <2>2, AppendProperties DEF JudgedInv
  <2> QED
    BY <2>2, <2>3 DEF Accepts
<1>6. CASE RejectUnseen(w)
  <2>1. prev' = prev /\ past' = past /\ accepted' = accepted /\ repelled' = repelled
    BY <1>6 DEF RejectUnseen, filter
  <2>2. judged' = Append(judged, v("causal")) \/ judged' = Append(judged, v("template"))
    BY <1>6 DEF RejectUnseen, Verdict
  <2> HIDE DEF v
  <2>3. ~Accepts
    BY <1>a, <2>2
  <2> QED
    BY <1>1, <1>2, <2>1, <2>3 DEF RepeatInv, Recalls
<1>7. CASE PassFilters(w) /\ IsDuplicate(PairDiffs(s))
  <2>1. /\ Remember(PairDiffs(s))
        /\ repelled' = Bounded(Append(repelled, z)) /\ accepted' = accepted
        /\ judged' = Append(judged, v("repeat"))
    BY <1>7 DEF PassFilters, Verdict, s
  <2>2. prev' = prev /\ past' = Bounded(Append(past, PairDiffs(s)))
    BY <1>7, <2>1 DEF Remember
  <2> HIDE DEF z, v
  <2>3. Recalls(past', repelled')
    BY <1>2, <1>5, <2>1, <2>2, RecallsMore
  <2>4. ~Accepts
    BY <1>a, <2>1
  <2> QED
    BY <1>1, <1>2, <2>1, <2>2, <2>3, <2>4 DEF RepeatInv
<1>8. CASE PassFilters(w) /\ ~IsDuplicate(PairDiffs(s))
  <2>1. /\ Remember(PairDiffs(s)) /\ accepted' = z /\ repelled' = repelled
    BY <1>8 DEF PassFilters, s
  <2>2. prev' = PairDiffs(s) /\ past' = past
    BY <1>8, <2>1 DEF Remember
  <2> HIDE DEF z
  <2>3. RepeatInv'
    BY <1>1, <1>2, <1>5, <2>1, <2>2 DEF RepeatInv, Recalls
  <2>4. /\ ~Similar(PairDiffs(z), prev)
        /\ \A k \in DOMAIN past : ~Similar(PairDiffs(z), past[k])
    BY <1>5, <1>8 DEF IsDuplicate
  <2>5. ~SameFront(z, accepted)
    BY <1>2, <1>5, <2>4, FrontsAreSimilar
  <2>6. ASSUME NEW k \in DOMAIN repelled
        PROVE  ~SameFront(z, repelled[k])
    <3>1. /\ repelled \in Seq(Fronts) /\ past \in Seq(Diffs) /\ Len(past) = Len(repelled)
          /\ \A l \in 1..Len(repelled) : past[l] = PairDiffs(repelled[l])
      BY <1>2 DEF Recalls
    <3>2. k \in 1..Len(repelled) /\ k \in DOMAIN past /\ repelled[k] \in Fronts
      BY <3>1
    <3>3. ~Similar(PairDiffs(z), PairDiffs(repelled[k]))
      BY <2>4, <3>1, <3>2
    <3> QED
      BY <1>5, <3>2, <3>3, FrontsAreSimilar
  <2> QED
    BY <2>1, <2>3, <2>5, <2>6
<1> QED
  BY <1>1, <1>6, <1>7, <1>8

\* Nothing else accepts a candidate that the filter is asked about.
LEMMA OthersKeepHistory ==
  ASSUME JudgedInv,
         TakeBucket \/ ReturnResults \/ PassThrough \/ Slide \/ UNCHANGED vars
  PROVE  /\ config' = config /\ prev' = prev /\ past' = past
         /\ accepted' = accepted /\ repelled' = repelled
         /\ config.trigger_type # 0 => ~Accepts
<1>1. config.trigger_type # 0 => judged' = judged \/ judged' = <<>>
  BY DEF TakeBucket, ReturnResults, PassThrough, Slide, vars, history
<1>2. Len(judged) \in Nat /\ Len(<<>>) = 0
  BY DEF JudgedInv
<1>3. config.trigger_type # 0 => ~Accepts
  BY <1>1, <1>2 DEF Accepts
<1> QED
  BY <1>3 DEF TakeBucket, ReturnResults, PassThrough, Slide, vars, filter, history

LEMMA InitRepeats == Init => RepeatInv
<1> SUFFICES ASSUME Init
             PROVE  RepeatInv
  OBVIOUS
<1>1. prev = <<>> /\ past = <<>> /\ accepted = <<>> /\ repelled = <<>>
  BY DEF Init
<1>2. <<>> \in Fronts
  BY DEF Fronts, InOrder
<1>3. PairDiffs(<<>>) = <<>>
  <2> DEFINE D == PairDiffs(<<>>)
  <2>1. <<>> \in Seq(Hit)
    OBVIOUS
  <2>2. D = [k \in DOMAIN D |-> D[k]] /\ \A k : k \in DOMAIN D <=> PairsOf(<<>>, k) # {}
    BY <2>1, PairDiffsAre
  <2>3. \A k : PairsOf(<<>>, k) = {}
    BY DEF PairsOf
  <2> HIDE DEF D
  <2>4. DOMAIN D = {}
    BY <2>2, <2>3
  <2>5. D \in [{} -> {}] /\ <<>> \in [{} -> {}]
    BY <2>2, <2>4
  <2> QED
    BY <2>5 DEF D
<1>4. Recalls(<<>>, <<>>)
  BY DEF Recalls
<1> QED
  BY <1>1, <1>2, <1>3, <1>4 DEF RepeatInv

LEMMA StepRepeats == ScanInv /\ JudgedInv /\ RepeatInv /\ [Next]_vars => RepeatInv'
<1> SUFFICES ASSUME ScanInv, JudgedInv, RepeatInv, [Next]_vars
             PROVE  RepeatInv'
  OBVIOUS
<1>1. CASE Judge
  <2>1. config' = config
    BY <1>1 DEF Judge
  <2>2. CASE config.duplicate
    BY <1>1, <2>2, JudgeRepeats
  <2>3. CASE ~config.duplicate
    BY <2>1, <2>3 DEF RepeatInv
  <2> QED
    BY <2>2, <2>3
<1>2. CASE TakeBucket \/ ReturnResults \/ PassThrough \/ Slide \/ UNCHANGED vars
  <2>1. /\ config' = config /\ prev' = prev /\ past' = past
        /\ accepted' = accepted /\ repelled' = repelled
    BY <1>2, OthersKeepHistory
  <2> QED
    BY <2>1 DEF RepeatInv, Recalls
<1> QED
  BY <1>1, <1>2 DEF Next

\* RepeatsAreRejected of the decision, for any number of buckets and any
\* size of the history: the differences that the filter keeps are enough to
\* know a wave front again, exactly repeated or nearly so, in whatever order
\* its hits come.
THEOREM RejectsRepeats == Spec => RepeatsAreRejected
<1> DEFINE Inv == ScanInv /\ JudgedInv /\ RepeatInv
<1>1. Init => Inv
  <2>1. Init => JudgedInv
    BY DEF Init, JudgedInv
  <2> QED
    BY <2>1, InitScan, InitRepeats
<1>2. Inv /\ [Next]_vars => Inv'
  BY StepScan, StepJudged, StepRepeats
<1>3. Inv /\ [Next]_vars =>
        [Accepts /\ config.duplicate /\ config.trigger_type # 0 =>
           /\ ~SameFront(accepted', accepted)
           /\ \A k \in DOMAIN repelled : ~SameFront(accepted', repelled[k])]_vars
  <2> SUFFICES ASSUME Inv, [Next]_vars, Accepts, config.duplicate, config.trigger_type # 0
               PROVE  /\ ~SameFront(accepted', accepted)
                      /\ \A k \in DOMAIN repelled : ~SameFront(accepted', repelled[k])
    OBVIOUS
  <2>1. Judge
    BY OthersKeepHistory DEF Next
  <2> QED
    BY <2>1, JudgeRepeats
<1> QED
  BY <1>1, <1>2, <1>3, PTL DEF Spec, RepeatsAreRejected

=============================================================================
