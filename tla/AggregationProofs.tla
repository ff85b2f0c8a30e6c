--------------------------- MODULE AggregationProofs ---------------------------
(***************************************************************************)
(* Proofs about Aggregation: a fill is part of one order at most, and the  *)
(* batches of a cycle are the windows of their groups' newest fills, for   *)
(* any fills and windows and in whatever order fills of a moment come.     *)
(***************************************************************************)
EXTENDS Aggregation, FiniteSetTheorems, WellFoundedInduction, TLAPS

\* What fails for some subset of a finite set fails for a least one.
LEMMA LeastSubset ==
  ASSUME NEW S, IsFiniteSet(S), NEW Bad \in SUBSET SUBSET S, Bad # {}
  PROVE  \E T \in Bad : T \in SUBSET S /\ \A U \in Bad : U \subseteq T => U = T
<1>1. Bad \subseteq FiniteSubsetsOf(S)
  <2> SUFFICES ASSUME NEW T \in Bad PROVE T \in FiniteSubsetsOf(S)
    OBVIOUS
  <2>1. T \in SUBSET S
    OBVIOUS
  <2>2. IsFiniteSet(T)
    BY <2>1, FS_Subset
  <2> QED BY <2>1, <2>2 DEF FiniteSubsetsOf
<1>2. IsWellFoundedOn(StrictSubsetOrdering(S), FiniteSubsetsOf(S))
  BY FS_StrictSubsetOrderingWellFounded
<1>3. PICK T \in Bad : \A U \in Bad : ~(<<U, T>> \in StrictSubsetOrdering(S))
  BY <1>1, <1>2, WFMin
<1>4. \A U \in Bad : U \subseteq T => U = T
  <2> SUFFICES ASSUME NEW U \in Bad, U \subseteq T, U # T PROVE FALSE
    OBVIOUS
  <2>1. <<U, T>> \in StrictSubsetOrdering(S)
    BY DEF StrictSubsetOrdering
  <2> QED BY <1>3, <2>1
<1> QED BY <1>4

\* What fails for some number fails for a least one.
LEMMA LeastNat ==
  ASSUME NEW Bad \in SUBSET Nat, Bad # {}
  PROVE  \E n \in Bad : \A m \in Bad : n <= m
<1>1. PICK top \in Nat : top \in Bad
  OBVIOUS
<1> DEFINE Below == {X \in SUBSET (0..top) : \E k \in Bad : X = 0..k}
<1>2. Below \in SUBSET SUBSET (0..top) /\ Below # {}
  <2> DEFINE I == 0..top
  <2>1. I \in SUBSET I /\ \E k \in Bad : I = 0..k
    BY <1>1
  <2>2. I \in Below
    BY <2>1
  <2>3. \A X \in Below : X \in SUBSET I
    OBVIOUS
  <2> HIDE DEF Below
  <2> QED BY <2>2, <2>3
<1>3. PICK T \in Below : \A U \in Below : U \subseteq T => U = T
  <2> DEFINE I == 0..top
  <2>0. IsFiniteSet(I)
    BY FS_Interval
  <2>1. Below \in SUBSET SUBSET I /\ Below # {}
    <3> HIDE DEF Below
    <3> QED BY <1>2
  <2> HIDE DEF Below, I
  <2>2. \E X \in Below : X \in SUBSET I /\ \A U \in Below : U \subseteq X => U = X
    BY <2>0, <2>1, LeastSubset
  <2> QED BY <2>2
<1>4. PICK n \in Nat : n \in Bad /\ T = 0..n /\ 0..n \subseteq 0..top
  BY <1>3
<1>5. ASSUME NEW m \in Bad, m < n PROVE FALSE
  <2>1. m \in Nat /\ 0..m \subseteq 0..n /\ 0..m \subseteq 0..top
    BY <1>4, <1>5
  <2>2. 0..m \in Below
    BY <2>1
  <2>3. 0..m = 0..n
    BY <1>3, <1>4, <2>1, <2>2
  <2>4. n \in 0..m
    BY <1>4, <2>3
  <2> QED BY <1>5, <2>1, <2>4
<1>6. \A m \in Bad : n <= m
  BY <1>4, <1>5
<1> QED BY <1>4, <1>6

-----------------------------------------------------------------------------
(* Sums over finite sets                                                   *)

\* The equation that SumFunctionOnSet takes a solution of.
AnyOf(T) == CHOOSE x \in T : TRUE
IsSum(f, S, g) == g = [T \in SUBSET S |-> IF T = {} THEN 0 ELSE f[AnyOf(T)] + g[T \ {AnyOf(T)}]]

LEMMA AnyIn ==
  ASSUME NEW T, T # {}
  PROVE  AnyOf(T) \in T
  BY DEF AnyOf

LEMMA SumAt ==
  ASSUME NEW f, NEW S, NEW g, IsSum(f, S, g), NEW T \in SUBSET S
  PROVE  /\ T = {} => g[T] = 0
         /\ T # {} => g[T] = f[AnyOf(T)] + g[T \ {AnyOf(T)}]
<1> DEFINE h == [X \in SUBSET S |-> IF X = {} THEN 0 ELSE f[AnyOf(X)] + g[X \ {AnyOf(X)}]]
<1>1. /\ T = {} => h[T] = 0
      /\ T # {} => h[T] = f[AnyOf(T)] + g[T \ {AnyOf(T)}]
  OBVIOUS
<1>2. g = h
  BY DEF IsSum
<1> HIDE DEF h
<1> QED BY <1>1, <1>2

\* Two solutions agree where both are defined.
LEMMA SumsAgree ==
  ASSUME NEW f, NEW S, NEW R, NEW g, NEW h, IsFiniteSet(S), IsSum(f, S, g), IsSum(f, R, h)
  PROVE  \A T \in SUBSET S : T \in SUBSET R => g[T] = h[T]
<1> DEFINE Bad == {T \in SUBSET S : T \in SUBSET R /\ g[T] # h[T]}
<1> SUFFICES ASSUME Bad # {} PROVE FALSE
  OBVIOUS
<1>0. Bad \in SUBSET SUBSET S
  OBVIOUS
<1>1. PICK T \in Bad : \A U \in Bad : U \subseteq T => U = T
  <2> HIDE DEF Bad
  <2> QED BY <1>0, LeastSubset
<1> DEFINE X == T \ {AnyOf(T)}
<1>2. T \in SUBSET S /\ T \in SUBSET R /\ g[T] # h[T]
  BY <1>1
<1>3. /\ T = {} => g[T] = 0 /\ h[T] = 0
      /\ T # {} => g[T] = f[AnyOf(T)] + g[X] /\ h[T] = f[AnyOf(T)] + h[X]
  <2> HIDE DEF Bad
  <2>1. (T = {} => g[T] = 0) /\ (T # {} => g[T] = f[AnyOf(T)] + g[X])
    BY <1>2, SumAt
  <2>2. (T = {} => h[T] = 0) /\ (T # {} => h[T] = f[AnyOf(T)] + h[X])
    BY <1>2, SumAt
  <2> QED BY <2>1, <2>2
<1>4. T # {}
  BY <1>2, <1>3
<1>5. X \subseteq T /\ X # T
  BY <1>4, AnyIn
<1> HIDE DEF X
<1>6. g[X] = h[X]
  BY <1>1, <1>2, <1>5
<1> QED BY <1>2, <1>3, <1>4, <1>6

\* The equation solved for the subsets of k elements at most.
SumsUpTo(f, S, k, g) ==
  \A T \in SUBSET S : Cardinality(T) <= k =>
    g[T] = IF T = {} THEN 0 ELSE f[AnyOf(T)] + g[T \ {AnyOf(T)}]

LEMMA SumExists ==
  ASSUME NEW f, NEW S, IsFiniteSet(S)
  PROVE  \E g : IsSum(f, S, g)
<1>0. /\ Cardinality(S) \in Nat
      /\ \A T \in SUBSET S : Cardinality(T) \in Nat /\ Cardinality(T) <= Cardinality(S)
  BY FS_Subset, FS_CardinalityType
<1>1. \A T \in SUBSET S : T # {} => /\ T \ {AnyOf(T)} \in SUBSET S
                                   /\ Cardinality(T \ {AnyOf(T)}) = Cardinality(T) - 1
  BY AnyIn, FS_Subset, FS_RemoveElement
<1>2. \E g : SumsUpTo(f, S, 0, g)
  <2> DEFINE g == [T \in SUBSET S |-> 0]
  <2>1. \A T \in SUBSET S : Cardinality(T) <= 0 => T = {}
    BY <1>0, FS_Subset, FS_EmptySet
  <2>2. SumsUpTo(f, S, 0, g)
    BY <2>1 DEF SumsUpTo
  <2> QED BY <2>2
<1>3. ASSUME NEW k \in Nat, NEW g, SumsUpTo(f, S, k, g)
      PROVE  \E h : SumsUpTo(f, S, k + 1, h)
  <2> DEFINE h == [T \in SUBSET S |-> IF T = {} THEN 0 ELSE f[AnyOf(T)] + g[T \ {AnyOf(T)}]]
  <2>1. \A T \in SUBSET S : Cardinality(T) <= k => h[T] = g[T]
    BY <1>3 DEF SumsUpTo
  <2>2. ASSUME NEW T \in SUBSET S, Cardinality(T) <= k + 1, T # {}
        PROVE  h[T \ {AnyOf(T)}] = g[T \ {AnyOf(T)}]
    <3> DEFINE X == T \ {AnyOf(T)}
    <3>1. X \in SUBSET S /\ Cardinality(X) <= k
      BY <1>0, <1>1, <2>2
    <3> HIDE DEF X, h
    <3>2. h[X] = g[X]
      BY <2>1, <3>1
    <3> QED BY <3>2 DEF X
  <2>3. \A T \in SUBSET S : h[T] = IF T = {} THEN 0 ELSE f[AnyOf(T)] + g[T \ {AnyOf(T)}]
    OBVIOUS
  <2> HIDE DEF h
  <2>4. SumsUpTo(f, S, k + 1, h)
    BY <2>2, <2>3 DEF SumsUpTo
  <2> QED BY <2>4
<1> DEFINE Bad == {k \in Nat : ~ \E g : SumsUpTo(f, S, k, g)}
<1>4. Bad = {}
  <2> SUFFICES ASSUME Bad # {} PROVE FALSE
    OBVIOUS
  <2>1. PICK k \in Bad : \A m \in Bad : k <= m
    BY LeastNat
  <2>2. k \in Nat \ {0}
    BY <1>2
  <2>3. k - 1 \in Nat /\ k - 1 \notin Bad
    BY <2>1, <2>2
  <2>4. PICK g : SumsUpTo(f, S, k - 1, g)
    BY <2>3
  <2>5. \E h : SumsUpTo(f, S, (k - 1) + 1, h)
    BY <1>3, <2>3, <2>4
  <2> QED BY <2>2, <2>5
<1>5. PICK g : SumsUpTo(f, S, Cardinality(S), g)
  BY <1>0, <1>4
<1> DEFINE h == [T \in SUBSET S |-> g[T]]
<1>6. h = [T \in SUBSET S |-> IF T = {} THEN 0 ELSE f[AnyOf(T)] + h[T \ {AnyOf(T)}]]
  <2>1. ASSUME NEW T \in SUBSET S
        PROVE  h[T] = IF T = {} THEN 0 ELSE f[AnyOf(T)] + h[T \ {AnyOf(T)}]
    <3>1. g[T] = IF T = {} THEN 0 ELSE f[AnyOf(T)] + g[T \ {AnyOf(T)}]
      BY <1>0, <1>5 DEF SumsUpTo
    <3>2. T # {} => h[T \ {AnyOf(T)}] = g[T \ {AnyOf(T)}]
      BY <1>1
    <3> QED BY <3>1, <3>2
  <2>2. h = [T \in SUBSET S |-> h[T]]
    OBVIOUS
  <2> HIDE DEF h
  <2> QED BY <2>1, <2>2
<1>7. IsSum(f, S, h)
  BY <1>6 DEF IsSum
<1> QED BY <1>7

\* SumFunctionOnSet is the solution's value.
LEMMA SumIs ==
  ASSUME NEW f, NEW S, IsFiniteSet(S)
  PROVE  \E g : IsSum(f, S, g) /\ SumFunctionOnSet(f, S) = g[S]
<1> DEFINE g == CHOOSE g : IsSum(f, S, g)
<1>1. IsSum(f, S, g)
  BY SumExists
<1>2. SumFunctionOnSet(f, S) = g[S]
  BY DEF SumFunctionOnSet, FoldFunctionOnSet, MapThenFoldSet, IsSum, AnyOf
<1> QED BY <1>1, <1>2

\* The sum over T is what any x in T adds to the sum over the others.
LEMMA SumLess ==
  ASSUME NEW S, IsFiniteSet(S), NEW f, \A y \in S : f[y] \in Int, NEW g, IsSum(f, S, g)
  PROVE  \A T \in SUBSET S : g[T] \in Int /\ \A x \in T : g[T] = f[x] + g[T \ {x}]
<1> DEFINE Good(T) == g[T] \in Int /\ \A x \in T : g[T] = f[x] + g[T \ {x}]
           Bad == {T \in SUBSET S : ~Good(T)}
<1> SUFFICES ASSUME Bad # {} PROVE FALSE
  OBVIOUS
<1>0. Bad \in SUBSET SUBSET S
  OBVIOUS
<1>1. PICK T \in Bad : T \in SUBSET S /\ \A U \in Bad : U \subseteq T => U = T
  <2> HIDE DEF Bad
  <2> QED BY <1>0, LeastSubset
<1> DEFINE a == AnyOf(T)
<1>2. ~Good(T)
  BY <1>1
<1>3. T # {}
  <2> SUFFICES ASSUME T = {} PROVE FALSE
    OBVIOUS
  <2>1. g[T] = 0
    BY <1>1, SumAt
  <2>2. \A x \in T : FALSE
    OBVIOUS
  <2>3. g[T] \in Int
    BY <2>1
  <2> HIDE DEF Bad
  <2> QED BY <1>2, <2>2, <2>3
<1>4. a \in T /\ a \in S /\ g[T] = f[a] + g[T \ {a}]
  BY <1>1, <1>3, AnyIn, SumAt
<1> HIDE DEF a
<1>5. \A x \in T : T \ {x} \in SUBSET S /\ T \ {x} \notin Bad
  BY <1>1
<1>6. \A x \in T : Good(T \ {x})
  BY <1>5
<1> HIDE DEF Bad
<1>7. g[T] \in Int
  BY <1>4, <1>6
<1>8. ASSUME NEW x \in T PROVE g[T] = f[x] + g[T \ {x}]
  <2>1. CASE x = a
    BY <1>4, <2>1
  <2>2. CASE x # a
    <3>1. x \in T \ {a} /\ a \in T \ {x} /\ x \in S
      BY <1>1, <1>4, <2>2
    <3>2. g[T \ {a}] = f[x] + g[(T \ {a}) \ {x}]
      BY <1>4, <1>6, <3>1
    <3>3. g[T \ {x}] = f[a] + g[(T \ {x}) \ {a}]
      BY <1>6, <3>1
    <3>4. (T \ {a}) \ {x} = (T \ {x}) \ {a}
      OBVIOUS
    <3> DEFINE rest == (T \ {x}) \ {a}
    <3>5. rest = (T \ {x}) \ {a} /\ rest = (T \ {a}) \ {x}
      BY <3>4
    <3>6. g[T \ {x}] \in Int /\ f[a] \in Int /\ f[x] \in Int
      BY <1>4, <1>6, <3>1
    <3> HIDE DEF rest
    <3>7. g[T] = f[a] + (f[x] + g[rest]) /\ g[T \ {x}] = f[a] + g[rest]
      BY <1>4, <3>2, <3>3, <3>5
    <3>8. g[rest] \in Int
      <4>1. rest \in SUBSET S /\ rest \subseteq T /\ rest # T
        BY <1>1, <1>4, <3>5
      <4>2. rest \notin Bad
        BY <1>1, <4>1
      <4> QED BY <4>1, <4>2 DEF Bad
    <3> QED BY <3>6, <3>7, <3>8
  <2> QED BY <2>1, <2>2
<1> QED BY <1>2, <1>7, <1>8

LEMMA SumDrops ==
  ASSUME NEW S, IsFiniteSet(S), NEW f, \A y \in S : f[y] \in Int, NEW g, IsSum(f, S, g),
         NEW x \in S
  PROVE  g[S] = f[x] + g[S \ {x}] /\ g[S \ {x}] \in Int
BY SumLess

\* What SumFunctionOnSet is for one more index.
LEMMA SumAdd ==
  ASSUME NEW D, NEW f, \A y \in D : f[y] \in Int, NEW K \in SUBSET D, IsFiniteSet(K),
         NEW x \in D, x \notin K
  PROVE  /\ SumFunctionOnSet(f, K) \in Int
         /\ SumFunctionOnSet(f, K \cup {x}) = SumFunctionOnSet(f, K) + f[x]
         /\ SumFunctionOnSet(f, {x}) = f[x]
<1> DEFINE S == K \cup {x}
<1>1. IsFiniteSet(S) /\ IsFiniteSet({x}) /\ \A y \in S : f[y] \in Int
  BY FS_AddElement, FS_Singleton
<1>2. PICK g : IsSum(f, S, g) /\ SumFunctionOnSet(f, S) = g[S]
  BY <1>1, SumIs
<1>3. PICK k : IsSum(f, K, k) /\ SumFunctionOnSet(f, K) = k[K]
  BY SumIs
<1>4. PICK m : IsSum(f, {x}, m) /\ SumFunctionOnSet(f, {x}) = m[{x}]
  BY <1>1, SumIs
<1>5. S \in SUBSET S /\ K \in SUBSET S /\ K \in SUBSET K /\ x \in S /\ S \ {x} = K
  OBVIOUS
<1> HIDE DEF S
<1>6. g[S] = f[x] + g[K] /\ g[K] \in Int
  <2>1. IsSum(f, S, g) /\ IsFiniteSet(S) /\ \A y \in S : f[y] \in Int
    BY <1>1, <1>2
  <2>2. g[S] = f[x] + g[S \ {x}] /\ g[S \ {x}] \in Int
    BY <1>5, <2>1, SumDrops
  <2> QED BY <1>5, <2>2
<1>7. g[K] = k[K]
  BY <1>1, <1>2, <1>3, <1>5, SumsAgree
<1>8. m[{x}] = f[x]
  <2> DEFINE X == {x}
  <2>1. X \in SUBSET X /\ X # {} /\ {} \in SUBSET X /\ X \ {AnyOf(X)} = {}
    BY AnyIn
  <2>2. IsSum(f, X, m)
    BY <1>4
  <2> HIDE DEF X
  <2>3. m[X] = f[AnyOf(X)] + m[{}]
    <3>1. m[X] = f[AnyOf(X)] + m[X \ {AnyOf(X)}]
      BY <2>1, <2>2, SumAt
    <3> QED BY <2>1, <3>1
  <2>5. m[{}] = 0
    BY <2>1, <2>2, SumAt
  <2>4. AnyOf(X) = x
    BY <2>1, AnyIn DEF X
  <2> QED BY <2>3, <2>4, <2>5 DEF X
<1>9. f[x] \in Int
  OBVIOUS
<1> QED BY <1>2, <1>3, <1>4, <1>6, <1>7, <1>8, <1>9 DEF S

\* What the size of a batch is for one more fill.
LEMMA SharesAdd ==
  ASSUME NEW K \in SUBSET Fills, IsFiniteSet(K), NEW f \in Fills, f \notin K
  PROVE  /\ SumFunctionOnSet(Shares, K) \in Int
         /\ SumFunctionOnSet(Shares, K \cup {f}) = SumFunctionOnSet(Shares, K) + Shares[f]
         /\ SumFunctionOnSet(Shares, {f}) = Shares[f]
<1> DEFINE s == Shares
<1>1. \A y \in Fills : s[y] \in Int
  BY ConstantsOK
<1> HIDE DEF s
<1>2. /\ SumFunctionOnSet(s, K) \in Int
      /\ SumFunctionOnSet(s, K \cup {f}) = SumFunctionOnSet(s, K) + s[f]
      /\ SumFunctionOnSet(s, {f}) = s[f]
  BY <1>1, SumAdd
<1> QED BY <1>2 DEF s

-----------------------------------------------------------------------------
(* The buckets a queue of fills is put into                                *)

\* The buckets after each of the first k fills of q.
Buckets(q, k, B) == B[0] = <<>> /\ \A i \in 1..k : B[i] = AddFill(B[i - 1], q[i])

LEMMA BucketsExist ==
  ASSUME NEW q, NEW n \in Nat
  PROVE  \E B : Buckets(q, n, B)
<1>1. \E B : Buckets(q, 0, B)
  <2> DEFINE B == [i \in {0} |-> <<>>]
  <2>1. B[0] = <<>>
    OBVIOUS
  <2>2. Buckets(q, 0, B)
    BY <2>1 DEF Buckets
  <2> QED BY <2>2
<1>2. ASSUME NEW k \in Nat, NEW B, Buckets(q, k, B) PROVE \E C : Buckets(q, k + 1, C)
  <2> DEFINE next == AddFill(B[k], q[k + 1])
             C == [i \in 0..(k + 1) |-> IF i = k + 1 THEN next ELSE B[i]]
  <2> HIDE DEF next
  <2>1. C[k + 1] = next /\ \A i \in 0..k : C[i] = B[i]
    OBVIOUS
  <2> HIDE DEF C
  <2>2. C[0] = <<>>
    BY <1>2, <2>1 DEF Buckets
  <2>3. ASSUME NEW i \in 1..(k + 1) PROVE C[i] = AddFill(C[i - 1], q[i])
    <3>1. C[i - 1] = B[i - 1]
      BY <2>1
    <3>2. CASE i = k + 1
      <4>1. C[i] = next /\ i - 1 = k
        BY <2>1, <3>2
      <4> QED BY <3>1, <3>2, <4>1 DEF next
    <3>3. CASE i # k + 1
      <4>1. i \in 1..k /\ C[i] = B[i]
        BY <2>1, <3>3
      <4>2. B[i] = AddFill(B[i - 1], q[i])
        BY <1>2, <4>1 DEF Buckets
      <4> QED BY <3>1, <4>1, <4>2
    <3> QED BY <3>2, <3>3
  <2>4. Buckets(q, k + 1, C)
    BY <2>2, <2>3 DEF Buckets
  <2> QED BY <2>4
<1> DEFINE Bad == {k \in Nat : ~ \E B : Buckets(q, k, B)}
<1>3. Bad = {}
  <2> SUFFICES ASSUME Bad # {} PROVE FALSE
    OBVIOUS
  <2>1. PICK k \in Bad : \A m \in Bad : k <= m
    BY LeastNat
  <2>2. k \in Nat \ {0}
    BY <1>1
  <2>3. k - 1 \in Nat /\ k - 1 \notin Bad
    BY <2>1, <2>2
  <2>4. PICK B : Buckets(q, k - 1, B)
    BY <2>3
  <2>5. \E C : Buckets(q, (k - 1) + 1, C)
    BY <1>2, <2>3, <2>4
  <2> QED BY <2>2, <2>5
<1> QED BY <1>3

LEMMA MergeIs ==
  ASSUME NEW q, Len(q) \in Nat
  PROVE  \E B : /\ Buckets(q, Len(q), B)
                /\ MergeAll(q) = {B[Len(q)][k] : k \in DOMAIN B[Len(q)]}
<1> DEFINE n == Len(q)
           Solves(C) == C = [i \in 0..n |-> IF i = 0 THEN <<>> ELSE AddFill(C[i - 1], q[i])]
<1>1. PICK B : Buckets(q, n, B)
  BY BucketsExist
<1> DEFINE D == [i \in 0..n |-> B[i]]
<1>2. Solves(D)
  <2>1. ASSUME NEW i \in 0..n
        PROVE  D[i] = IF i = 0 THEN <<>> ELSE AddFill(D[i - 1], q[i])
    <3>1. CASE i = 0
      BY <1>1, <3>1 DEF Buckets
    <3>2. CASE i # 0
      <4>1. i \in 1..n /\ D[i] = B[i] /\ D[i - 1] = B[i - 1]
        BY <3>2
      <4>2. B[i] = AddFill(B[i - 1], q[i])
        BY <1>1, <4>1 DEF Buckets
      <4> HIDE DEF D
      <4> QED BY <3>2, <4>1, <4>2
    <3> QED BY <3>1, <3>2
  <2>2. D = [i \in 0..n |-> D[i]]
    OBVIOUS
  <2> HIDE DEF D, n
  <2> QED BY <2>1, <2>2
<1> DEFINE C == CHOOSE C : Solves(C)
<1>3. Solves(C)
  <2>1. \E E : Solves(E)
    BY <1>2
  <2> HIDE DEF Solves
  <2> QED BY <2>1
<1>4. MergeAll(q) = {C[n][k] : k \in DOMAIN C[n]}
  BY DEF MergeAll
<1> HIDE DEF C
<1>5. \A i \in 0..n : C[i] = IF i = 0 THEN <<>> ELSE AddFill(C[i - 1], q[i])
  <2> DEFINE E == [i \in 0..n |-> IF i = 0 THEN <<>> ELSE AddFill(C[i - 1], q[i])]
  <2>1. C = E /\ \A i \in 0..n : E[i] = IF i = 0 THEN <<>> ELSE AddFill(C[i - 1], q[i])
    BY <1>3
  <2> HIDE DEF E
  <2> QED BY <2>1
<1>6. Buckets(q, n, C)
  BY <1>5 DEF Buckets
<1> QED BY <1>4, <1>6

\* The buckets of the fills P, newest first: for every group the window of its
\* newest fill; and a bucket of its own for an older fill, by its timestamp.
InWindow(a, P) == {g \in P : Group[g] = Group[a] /\ At[a] - At[g] <= window}
Newest(a, P) == a \in P /\ \A g \in P : Group[g] = Group[a] => At[g] <= At[a]
WindowBatch(a, P) ==
  [anchor |-> a, keys |-> InWindow(a, P), size |-> SumFunctionOnSet(Shares, InWindow(a, P))]

IsMain(key, b, P) == \E a \in P : key = <<Group[a]>> /\ Newest(a, P) /\ b = WindowBatch(a, P)
IsLate(key, b, P) ==
  \E a, f \in P : /\ key = <<Group[f], At[f]>> /\ b = Single(f)
                  /\ Newest(a, P) /\ Group[a] = Group[f] /\ At[a] - At[f] > window

\* A fill beyond the window of its group.
LateOf(f, P) == \E a \in P : Newest(a, P) /\ Group[a] = Group[f] /\ At[a] - At[f] > window

BucketsOf(all, P) ==
  /\ \A f \in P : <<Group[f]>> \in DOMAIN all
  /\ \A f \in P : LateOf(f, P) => <<Group[f], At[f]>> \in DOMAIN all
  /\ \A key \in DOMAIN all : IsMain(key, all[key], P) \/ IsLate(key, all[key], P)

LEMMA KeysDiffer ==
  /\ \A x, y, z : <<x>> # <<y, z>>
  /\ \A x, y : <<x>> = <<y>> => x = y
<1>1. ASSUME NEW x, NEW y, NEW z PROVE <<x>> # <<y, z>>
  <2>1. Len(<<x>>) = 1 /\ Len(<<y, z>>) = 2
    OBVIOUS
  <2> QED BY <2>1
<1>2. ASSUME NEW x, NEW y, <<x>> = <<y>> PROVE x = y
  <2>1. <<x>>[1] = x /\ <<y>>[1] = y
    OBVIOUS
  <2> QED BY <1>2, <2>1
<1> QED BY <1>1, <1>2

\* A fill that is no newer than the others leaves the newest ones, and what it
\* is not put into, alone.
LEMMA OlderFill ==
  ASSUME window \in Nat, NEW P \in SUBSET Fills, NEW f \in Fills, f \notin P,
         \A g \in P : At[g] >= At[f]
  PROVE  /\ \A a \in P : Newest(a, P) => Newest(a, P \cup {f})
         /\ \A a \in P : Group[a] # Group[f] \/ At[a] - At[f] > window
              => WindowBatch(a, P \cup {f}) = WindowBatch(a, P)
         /\ \A key, b : IsLate(key, b, P) => IsLate(key, b, P \cup {f})
<1>1. \A g \in Fills : At[g] \in Nat
  BY ConstantsOK
<1>2. ASSUME NEW a \in P, Newest(a, P) PROVE Newest(a, P \cup {f})
  BY <1>1, <1>2 DEF Newest
<1>3. ASSUME NEW a \in P, Group[a] # Group[f] \/ At[a] - At[f] > window
      PROVE  WindowBatch(a, P \cup {f}) = WindowBatch(a, P)
  <2>1. ~(Group[f] = Group[a] /\ At[a] - At[f] <= window)
    <3>1. At[a] \in Nat /\ At[f] \in Nat
      BY <1>1
    <3> QED BY <1>3, <3>1
  <2>2. InWindow(a, P \cup {f}) = InWindow(a, P)
    BY <2>1 DEF InWindow
  <2> QED BY <2>2 DEF WindowBatch
<1>4. ASSUME NEW key, NEW b, IsLate(key, b, P) PROVE IsLate(key, b, P \cup {f})
  BY <1>2, <1>4 DEF IsLate
<1> QED BY <1>2, <1>3, <1>4

\* What is left to show when the bucket of one key is set for one more fill.
LEMMA OneBucketSet ==
  ASSUME window \in Nat, NEW P \in SUBSET Fills, NEW f \in Fills, f \notin P,
         \A g \in P : At[g] >= At[f],
         NEW all, BucketsOf(all, P), NEW k, NEW b, NEW new, new = Put(all, k, b),
         <<Group[f]>> \in DOMAIN all \/ <<Group[f]>> = k,
         IsMain(k, b, P \cup {f}) \/ IsLate(k, b, P \cup {f}),
         \A a \in P : Newest(a, P) /\ <<Group[a]>> # k
           => Group[a] # Group[f] \/ At[a] - At[f] > window,
         LateOf(f, P \cup {f}) => k = <<Group[f], At[f]>>
  PROVE  BucketsOf(new, P \cup {f})
<1> DEFINE Q == P \cup {f}
<1>1. /\ DOMAIN new = DOMAIN all \cup {k} /\ new[k] = b
      /\ \A x \in DOMAIN all : x # k => new[x] = all[x]
  <2> DEFINE D == DOMAIN all \cup {k}
  <2>1. new = [x \in D |-> IF x = k THEN b ELSE all[x]]
    BY DEF Put
  <2> HIDE DEF D
  <2>2. DOMAIN new = D /\ \A x \in D : new[x] = IF x = k THEN b ELSE all[x]
    BY <2>1
  <2> QED BY <2>2 DEF D
<1>2. \A g \in Q : <<Group[g]>> \in DOMAIN new
  BY <1>1 DEF BucketsOf
<1>3. ASSUME NEW x \in DOMAIN all, x # k PROVE IsMain(x, new[x], Q) \/ IsLate(x, new[x], Q)
  <2>1. new[x] = all[x] /\ (IsMain(x, all[x], P) \/ IsLate(x, all[x], P))
    BY <1>1, <1>3 DEF BucketsOf
  <2>2. CASE IsMain(x, all[x], P)
    <3>1. PICK a \in P : x = <<Group[a]>> /\ Newest(a, P) /\ all[x] = WindowBatch(a, P)
      BY <2>2 DEF IsMain
    <3>2. Newest(a, Q) /\ WindowBatch(a, Q) = WindowBatch(a, P)
      BY <1>3, <3>1, OlderFill
    <3> QED BY <2>1, <3>1, <3>2 DEF IsMain
  <2>3. CASE IsLate(x, all[x], P)
    BY <2>1, <2>3, OlderFill
  <2> QED BY <2>1, <2>2, <2>3
<1>4. \A x \in DOMAIN new : IsMain(x, new[x], Q) \/ IsLate(x, new[x], Q)
  BY <1>1, <1>3
<1>5. ASSUME NEW g \in Q, LateOf(g, Q) PROVE <<Group[g], At[g]>> \in DOMAIN new
  <2>1. CASE g = f
    BY <1>1, <1>5, <2>1
  <2>2. CASE g # f
    <3>1. PICK a \in Q : Newest(a, Q) /\ Group[a] = Group[g] /\ At[a] - At[g] > window
      BY <1>5 DEF LateOf
    <3>2. a \in P /\ g \in P
      <4>1. At[f] \in Nat /\ At[g] \in Nat /\ g \in P /\ At[g] >= At[f]
        BY <2>2, ConstantsOK
      <4> QED BY <3>1, <4>1
    <3>3. Newest(a, P)
      BY <3>1, <3>2 DEF Newest
    <3> QED BY <1>1, <3>1, <3>2, <3>3 DEF BucketsOf, LateOf
  <2> QED BY <2>1, <2>2
<1> QED BY <1>2, <1>4, <1>5 DEF BucketsOf

\* A fill that joins a batch from within its window.
LEMMA Joins ==
  ASSUME NEW P \in SUBSET Fills, IsFiniteSet(P), NEW f \in Fills, f \notin P,
         NEW a \in P, Group[a] = Group[f], At[a] - At[f] <= window
  PROVE  Merged(WindowBatch(a, P), f) = WindowBatch(a, P \cup {f})
<1> DEFINE K == InWindow(a, P)
           sum == SumFunctionOnSet(Shares, K)
<1>1. InWindow(a, P \cup {f}) = K \cup {f}
  BY DEF InWindow
<1>2. K \in SUBSET Fills /\ IsFiniteSet(K) /\ f \notin K
  <2>1. K \in SUBSET P
    BY DEF InWindow
  <2> QED BY <2>1, FS_Subset
<1>3. SumFunctionOnSet(Shares, K \cup {f}) = sum + Shares[f]
  BY <1>2, SharesAdd
<1>4. WindowBatch(a, P) = [anchor |-> a, keys |-> K, size |-> sum]
  BY DEF WindowBatch
<1> HIDE DEF K, sum
<1>5. Merged(WindowBatch(a, P), f) = [anchor |-> a, keys |-> K \cup {f}, size |-> sum + Shares[f]]
  <2> DEFINE w == [anchor |-> a, keys |-> K, size |-> sum]
  <2>1. w.anchor = a /\ w.keys = K /\ w.size = sum
    OBVIOUS
  <2>2. Merged(w, f) = [w EXCEPT !.keys = K \cup {f}, !.size = sum + Shares[f]]
    BY <2>1, Zenon DEF Merged
  <2> DEFINE more == K \cup {f}
             total == sum + Shares[f]
  <2>3. [w EXCEPT !.keys = more, !.size = total] = [anchor |-> a, keys |-> more, size |-> total]
    <3> HIDE DEF more, total
    <3> DEFINE r == [w EXCEPT !.keys = more]
    <3>1. r = [anchor |-> a, keys |-> more, size |-> sum]
      OBVIOUS
    <3>2. [r EXCEPT !.size = total] = [anchor |-> a, keys |-> more, size |-> total]
      <4> HIDE DEF r
      <4> QED BY <3>1
    <3>3. [w EXCEPT !.keys = more, !.size = total] = [r EXCEPT !.size = total]
      OBVIOUS
    <3> QED BY <3>2, <3>3
  <2>4. Merged(w, f) = [anchor |-> a, keys |-> K \cup {f}, size |-> sum + Shares[f]]
    BY <2>2, <2>3, Zenon
  <2> QED BY <1>4, <2>4
<1> QED BY <1>1, <1>3, <1>5 DEF WindowBatch

\* aggregateTrades goes on: the next older fill.
LEMMA AddFillKeeps ==
  ASSUME window \in Nat, NEW P \in SUBSET Fills, IsFiniteSet(P), NEW f \in Fills, f \notin P,
         \A g \in P : At[g] >= At[f], NEW all, BucketsOf(all, P)
  PROVE  BucketsOf(AddFill(all, f), P \cup {f})
<1> DEFINE Q == P \cup {f}
<1>1. At[f] \in Nat /\ (\A g \in P : At[g] \in Nat /\ At[g] >= At[f])
  BY ConstantsOK
<1>4. CASE <<Group[f]>> \notin DOMAIN all
  <2>1. AddFill(all, f) = Put(all, <<Group[f]>>, Single(f))
    BY <1>4 DEF AddFill
  <2>2. \A g \in P : Group[g] # Group[f]
    BY <1>4 DEF BucketsOf
  <2>3. IsMain(<<Group[f]>>, Single(f), Q)
    <3>1. Newest(f, Q)
      BY <1>1, <2>2 DEF Newest
    <3>2. InWindow(f, Q) = {f}
      BY <1>1, <2>2 DEF InWindow
    <3>3. SumFunctionOnSet(Shares, {f}) = Shares[f]
      <4>1. {} \in SUBSET Fills /\ IsFiniteSet({}) /\ f \notin {}
        BY FS_EmptySet
      <4> QED BY <4>1, SharesAdd
    <3>4. Single(f) = WindowBatch(f, Q)
      BY <3>2, <3>3 DEF WindowBatch, Single
    <3> QED BY <3>1, <3>4 DEF IsMain
  <2>4. ~LateOf(f, Q)
    BY <1>1, <2>2 DEF LateOf
  <2> QED BY <2>1, <2>2, <2>3, <2>4, OneBucketSet
<1>5. CASE <<Group[f]>> \in DOMAIN all
  <2>1. PICK a \in P : /\ Group[a] = Group[f] /\ Newest(a, P)
                       /\ all[<<Group[f]>>] = WindowBatch(a, P)
    <3>1. ~IsLate(<<Group[f]>>, all[<<Group[f]>>], P)
      BY KeysDiffer DEF IsLate
    <3>2. IsMain(<<Group[f]>>, all[<<Group[f]>>], P)
      BY <1>5, <3>1 DEF BucketsOf
    <3>3. PICK a \in P : /\ <<Group[f]>> = <<Group[a]>> /\ Newest(a, P)
                         /\ all[<<Group[f]>>] = WindowBatch(a, P)
      BY <3>2 DEF IsMain
    <3> QED BY <3>3, KeysDiffer
  <2>2. Distance(all[<<Group[f]>>], f) = At[a] - At[f] /\ At[a] \in Nat
    BY <1>1, <2>1 DEF Distance, WindowBatch
  <2>3. ASSUME NEW c \in P, Newest(c, P), Group[c] = Group[f] PROVE At[c] = At[a]
    BY <1>1, <2>1, <2>3 DEF Newest
  <2>6. Newest(a, Q) /\ a \in Q /\ f \in Q
    BY <2>1, OlderFill
  <2>4. CASE Distance(all[<<Group[f]>>], f) > window
    <3>1. AddFill(all, f) = Put(all, <<Group[f], At[f]>>, Single(f))
      BY <1>5, <2>4 DEF AddFill
    <3>2. IsLate(<<Group[f], At[f]>>, Single(f), Q)
      <4>1. At[a] - At[f] > window
        BY <2>2, <2>4
      <4> QED BY <2>1, <2>6, <4>1 DEF IsLate
    <3>3. \A c \in P : Newest(c, P) => Group[c] # Group[f] \/ At[c] - At[f] > window
      BY <2>2, <2>3, <2>4
    <3> QED BY <1>5, <3>1, <3>2, <3>3, OneBucketSet
  <2>5. CASE ~(Distance(all[<<Group[f]>>], f) > window)
    <3>1. AddFill(all, f) = Put(all, <<Group[f]>>, Merged(all[<<Group[f]>>], f))
      BY <1>5, <2>5 DEF AddFill
    <3>2. IsMain(<<Group[f]>>, Merged(all[<<Group[f]>>], f), Q)
      <4>1. At[a] - At[f] <= window
        BY <1>1, <2>2, <2>5
      <4>2. Merged(all[<<Group[f]>>], f) = WindowBatch(a, Q)
        BY <2>1, <4>1, Joins
      <4> QED BY <2>1, <2>6, <4>2 DEF IsMain
    <3>3. \A c \in P : Newest(c, P) /\ <<Group[c]>> # <<Group[f]>> => Group[c] # Group[f]
      OBVIOUS
    <3>4. ~LateOf(f, Q)
      <4> SUFFICES ASSUME NEW c \in Q, Newest(c, Q), Group[c] = Group[f], At[c] - At[f] > window
                   PROVE  FALSE
        BY DEF LateOf
      <4>1. c \in P
        BY <1>1
      <4>2. At[c] = At[a]
        BY <1>1, <2>1, <2>6, <4>1 DEF Newest
      <4> QED BY <2>2, <2>5, <4>2
    <3> QED BY <1>5, <3>1, <3>2, <3>3, <3>4, OneBucketSet
  <2> QED BY <2>4, <2>5
<1> QED BY <1>4, <1>5

\* A queue lists every fill of the feed once, the newest first.
LEMMA QueueListsAll ==
  ASSUME NEW S, IsFiniteSet(S), NEW q \in NewestFirst(S)
  PROVE  /\ Cardinality(S) \in Nat /\ Len(q) = Cardinality(S)
         /\ DOMAIN q = 1..Len(q) /\ (\A i \in 1..Len(q) : q[i] \in S)
         /\ \A i, j \in 1..Len(q) : i < j => q[i] # q[j] /\ At[q[i]] >= At[q[j]]
         /\ {q[j] : j \in 1..Len(q)} = S
<1> DEFINE n == Cardinality(S)
           D == 1..n
<1>1. n \in Nat /\ IsFiniteSet(D) /\ Cardinality(D) = n
  BY FS_CardinalityType, FS_Interval
<1>2. q \in [D -> S] /\ (\A i, j \in D : i # j => q[i] # q[j])
      /\ \A i, j \in D : i < j => At[q[i]] >= At[q[j]]
  BY DEF NewestFirst, SetToSeqs
<1>3. Len(q) = n
  BY <1>1, <1>2
<1>4. \A i, j \in D : i < j => i # j
  BY <1>1
<1>5. {q[j] : j \in D} = S
  <2> HIDE DEF D, n
  <2>1. q \in Injection(D, S)
    BY <1>2 DEF Injection, IsInjective
  <2>2. q \in Surjection(D, S)
    BY <1>1, <2>1, FS_Injection DEF n
  <2>3. \A y \in S : \E x \in D : q[x] = y
    BY <2>2 DEF Surjection
  <2> QED BY <1>2, <2>3
<1> QED BY <1>1, <1>2, <1>3, <1>4, <1>5

\* aggregateTrades leaves the buckets of the whole feed.
LEMMA MergeKeeps ==
  ASSUME window \in Nat, NEW S \in SUBSET Fills, IsFiniteSet(S), NEW q \in NewestFirst(S)
  PROVE  \E all : BucketsOf(all, S) /\ MergeAll(q) = {all[k] : k \in DOMAIN all}
<1> DEFINE n == Len(q)
           First(i) == {q[j] : j \in 1..i}
<1>1. /\ n \in Nat /\ (\A i \in 1..n : q[i] \in S)
      /\ \A i, j \in 1..n : i < j => q[i] # q[j] /\ At[q[i]] >= At[q[j]]
      /\ First(n) = S
  BY QueueListsAll
<1>2. PICK B : Buckets(q, n, B) /\ MergeAll(q) = {B[n][k] : k \in DOMAIN B[n]}
  BY <1>1, MergeIs
<1>3. BucketsOf(B[0], First(0))
  <2>1. B[0] = <<>> /\ First(0) = {} /\ DOMAIN <<>> = {}
    BY <1>2 DEF Buckets
  <2> HIDE DEF First
  <2>2. DOMAIN B[0] = {}
    BY <2>1
  <2> QED BY <2>1, <2>2 DEF BucketsOf
<1>4. ASSUME NEW i \in 1..n, BucketsOf(B[i - 1], First(i - 1)) PROVE BucketsOf(B[i], First(i))
  <2> DEFINE P == First(i - 1)
             f == q[i]
  <2>1. B[i] = AddFill(B[i - 1], f)
    BY <1>2 DEF Buckets
  <2>2. First(i) = P \cup {f}
    <3>1. 1..i = 1..(i - 1) \cup {i}
      BY <1>1
    <3> QED BY <3>1
  <2>3. P \in SUBSET Fills /\ P \subseteq S /\ f \in Fills
    BY <1>1
  <2>4. f \notin P /\ \A g \in P : At[g] >= At[f]
    <3>1. \A j \in 1..(i - 1) : j \in 1..n /\ j < i
      BY <1>1
    <3> QED BY <1>1, <3>1
  <2>5. IsFiniteSet(P)
    BY <2>3, FS_Subset
  <2>6. BucketsOf(B[i - 1], P)
    BY <1>4
  <2> HIDE DEF P, f, n, First
  <2>7. BucketsOf(AddFill(B[i - 1], f), P \cup {f})
    BY <2>3, <2>4, <2>5, <2>6, AddFillKeeps
  <2> QED BY <2>1, <2>2, <2>7
<1> DEFINE Bad == {i \in Nat : i <= n /\ ~BucketsOf(B[i], First(i))}
<1>5. Bad = {}
  <2> SUFFICES ASSUME Bad # {} PROVE FALSE
    OBVIOUS
  <2>1. PICK k \in Bad : \A m \in Bad : k <= m
    BY LeastNat
  <2> HIDE DEF First
  <2>2. k \in 1..n
    BY <1>1, <1>3, <2>1
  <2>3. k - 1 \in Nat /\ k - 1 <= n /\ k - 1 \notin Bad
    BY <1>1, <2>1, <2>2
  <2>4. BucketsOf(B[k], First(k))
    BY <1>4, <2>2, <2>3
  <2> QED BY <2>1, <2>4
<1>6. BucketsOf(B[n], First(n))
  <2> HIDE DEF First, n
  <2>1. n <= n
    BY <1>1
  <2> QED BY <1>1, <1>5, <2>1
<1> QED BY <1>1, <1>2, <1>6

-----------------------------------------------------------------------------
(* The batches of a cycle                                                  *)

\* The queue holds buckets of the feed, and the feed is of what the API listed.
QueueInv ==
  IF window = 0 THEN queue \subseteq {Single(f) : f \in feed}
  ELSE \E all : BucketsOf(all, feed) /\ queue \subseteq {all[k] : k \in DOMAIN all}
FeedInv ==
  /\ window \in Nat /\ listed \in SUBSET Fills /\ IsFiniteSet(listed) /\ feed \subseteq listed
  /\ \A l \in Leaders : cache[l] \subseteq listed
BatchInv == FeedInv /\ QueueInv

\* A bucket of the feed is a batch as BatchesAreWindows has it.
LEMMA BucketsAreBatches ==
  ASSUME window \in Nat, feed \in SUBSET Fills, IsFiniteSet(feed),
         NEW key, NEW b, IsMain(key, b, feed) \/ IsLate(key, b, feed)
  PROVE  /\ b.keys \subseteq feed
         /\ IF b.keys \cap Core(b.anchor) = {} THEN b = Single(b.anchor)
            ELSE b.keys = Core(b.anchor)
         /\ b.size = SumFunctionOnSet(Shares, b.keys)
<1>1. \A g \in feed : At[g] \in Nat
  BY ConstantsOK
<1>2. ASSUME NEW a \in feed, NEW f \in feed, Newest(a, feed), Group[a] = Group[f]
      PROVE  Core(f) = InWindow(a, feed)
  <2>1. \A g \in feed : Group[g] = Group[a] =>
          (At[a] - At[g] <= window
             <=> \A h \in feed : Group[h] = Group[a] => At[h] - At[g] <= window)
    BY <1>1, <1>2 DEF Newest
  <2> QED BY <1>2, <2>1 DEF Core, InWindow
<1>3. CASE IsMain(key, b, feed)
  <2>1. PICK a \in feed : Newest(a, feed) /\ b = WindowBatch(a, feed)
    BY <1>3 DEF IsMain
  <2>2. b.anchor = a /\ b.keys = InWindow(a, feed) /\ b.size = SumFunctionOnSet(Shares, b.keys)
    BY <2>1 DEF WindowBatch
  <2>3. b.keys = Core(b.anchor) /\ b.keys \subseteq feed
    BY <1>2, <2>1, <2>2 DEF InWindow
  <2>4. a \in b.keys
    BY <1>1, <2>2 DEF InWindow
  <2> QED BY <2>2, <2>3, <2>4
<1>4. CASE IsLate(key, b, feed)
  <2>1. PICK a \in feed, f \in feed :
          b = Single(f) /\ Newest(a, feed) /\ Group[a] = Group[f] /\ At[a] - At[f] > window
    BY <1>4 DEF IsLate
  <2>2. b.anchor = f /\ b.keys = {f} /\ b.size = Shares[f]
    BY <2>1 DEF Single
  <2>3. f \notin Core(f)
    <3>1. f \notin InWindow(a, feed)
      BY <1>1, <2>1 DEF InWindow
    <3> QED BY <1>2, <2>1, <3>1
  <2>4. SumFunctionOnSet(Shares, {f}) = Shares[f]
    <3>1. {} \in SUBSET Fills /\ IsFiniteSet({}) /\ f \notin {} /\ f \in Fills
      BY FS_EmptySet
    <3> QED BY <3>1, SharesAdd
  <2> QED BY <2>1, <2>2, <2>3, <2>4
<1> QED BY <1>3, <1>4

\* What buckets of the feed are depends on the feed and the window only.
LEMMA BucketsNext ==
  ASSUME UNCHANGED window, NEW all, NEW P, P = feed', BucketsOf(all, P)
  PROVE  BucketsOf(all, feed)'
<1>1. \A a : InWindow(a, feed)' = InWindow(a, P) /\ (Newest(a, feed)' <=> Newest(a, P))
  BY DEF InWindow, Newest
<1>2. \A a : WindowBatch(a, feed)' = WindowBatch(a, P)
  BY <1>1 DEF WindowBatch
<1>3. \A key, b : IsMain(key, b, P) => IsMain(key, b, feed)'
  BY <1>1, <1>2 DEF IsMain
<1>4. \A key, b : IsLate(key, b, P) => IsLate(key, b, feed)'
  BY <1>1 DEF IsLate, Single
<1>5. \A f : LateOf(f, feed)' => LateOf(f, P)
  BY <1>1 DEF LateOf
<1> QED BY <1>3, <1>4, <1>5 DEF BucketsOf

\* The queue stays or loses batches, and its feed and window stay.
LEMMA QueueShrinks ==
  ASSUME QueueInv, queue' \subseteq queue, UNCHANGED <<window, feed>>
  PROVE  QueueInv'
<1>1. CASE window = 0
  BY <1>1 DEF QueueInv, Single
<1>2. CASE window # 0
  <2>1. PICK all : BucketsOf(all, feed) /\ queue \subseteq {all[k] : k \in DOMAIN all}
    BY <1>2 DEF QueueInv
  <2>2. BucketsOf(all, feed)'
    BY <2>1, BucketsNext
  <2>3. queue' \subseteq {all[k] : k \in DOMAIN all}
    BY <2>1
  <2> QED BY <1>2, <2>2, <2>3 DEF QueueInv
<1> QED BY <1>1, <1>2

\* There is nothing to handle.
LEMMA NothingQueued == queue = {} /\ feed = {} => QueueInv
<1> DEFINE none == [k \in {} |-> k]
<1>1. DOMAIN none = {}
  OBVIOUS
<1> HIDE DEF none
<1>2. BucketsOf(none, {})
  BY <1>1 DEF BucketsOf
<1> QED BY <1>2 DEF QueueInv

LEMMA BatchFirst == Init => BatchInv
<1> SUFFICES ASSUME Init PROVE BatchInv
  OBVIOUS
<1>1. window \in Nat
  BY ConstantsOK DEF Init
<1>2. IsFiniteSet({})
  BY FS_EmptySet
<1>3. FeedInv
  BY <1>1, <1>2 DEF Init, FeedInv
<1>4. QueueInv
  BY NothingQueued DEF Init
<1> QED BY <1>3, <1>4 DEF BatchInv

\* Every fill of the feed is in a batch, or an older one that its like of the
\* same moment has taken the bucket of.
Covered(batches, f) ==
  \E b \in batches :
    \/ f \in b.keys
    \/ window > 0 /\ LateOf(f, feed) /\ b = Single(b.anchor)
       /\ Group[b.anchor] = Group[f] /\ At[b.anchor] = At[f]

LEMMA BucketsCover ==
  ASSUME window \in Nat \ {0}, feed \in SUBSET Fills, IsFiniteSet(feed), NEW all, BucketsOf(all, feed),
         NEW f \in feed
  PROVE  Covered({all[k] : k \in DOMAIN all}, f)
<1>1. \A g \in feed : At[g] \in Nat
  BY ConstantsOK
<1>2. CASE LateOf(f, feed)
  <2> DEFINE key == <<Group[f], At[f]>>
  <2>1. key \in DOMAIN all
    BY <1>2 DEF BucketsOf
  <2>2. ~IsMain(key, all[key], feed)
    BY KeysDiffer DEF IsMain
  <2>3. IsLate(key, all[key], feed)
    BY <2>1, <2>2 DEF BucketsOf
  <2>4. PICK g \in feed : key = <<Group[g], At[g]>> /\ all[key] = Single(g)
    BY <2>3 DEF IsLate
  <2>5. Group[g] = Group[f] /\ At[g] = At[f]
    BY <2>4
  <2>6. all[key].anchor = g
    BY <2>4 DEF Single
  <2> HIDE DEF key
  <2> QED BY <1>2, <2>1, <2>4, <2>5, <2>6 DEF Covered
<1>3. CASE ~LateOf(f, feed)
  <2> DEFINE key == <<Group[f]>>
  <2>1. key \in DOMAIN all
    BY DEF BucketsOf
  <2>2. ~IsLate(key, all[key], feed)
    BY KeysDiffer DEF IsLate
  <2>3. IsMain(key, all[key], feed)
    BY <2>1, <2>2 DEF BucketsOf
  <2>4. PICK a \in feed : key = <<Group[a]>> /\ Newest(a, feed) /\ all[key] = WindowBatch(a, feed)
    BY <2>3 DEF IsMain
  <2>5. Group[a] = Group[f] /\ At[a] - At[f] <= window
    <3>1. Group[a] = Group[f]
      BY <2>4, KeysDiffer
    <3> QED BY <1>1, <1>3, <2>4, <3>1 DEF LateOf
  <2>6. f \in all[key].keys
    BY <2>4, <2>5 DEF WindowBatch, InWindow
  <2> HIDE DEF key
  <2> QED BY <2>1, <2>6 DEF Covered
<1> QED BY <1>2, <1>3

\* The same of the next state.
CoverHolds(all, f) ==
  /\ window \in Nat \ {0} /\ feed \in SUBSET Fills /\ IsFiniteSet(feed)
  /\ BucketsOf(all, feed) /\ f \in feed
Covers(all, f) == Covered({all[k] : k \in DOMAIN all}, f)

LEMMA CoverNext ==
  ASSUME NEW all, NEW f
  PROVE  CoverHolds(all, f)' => Covers(all, f)'
<1>1. CoverHolds(all, f) => Covers(all, f)
  BY BucketsCover DEF CoverHolds, Covers
<1> QED BY <1>1, PTL

\* What a poll makes of the queue.
LEMMA PollKeeps ==
  ASSUME BatchInv, NEW F \in SUBSET Leaders, Poll(F)
  PROVE  BatchInv' /\ \A f \in feed' : Covered(queue, f)'
<1>1. \A l \in Leaders : cache'[l] \subseteq listed
  <2>1. PICK page \in [F -> UNION {FetchActivityUncached(l) : l \in F}] :
          /\ \A l \in F : page[l] \in FetchActivityUncached(l)
          /\ cache' = [l \in Leaders |-> IF l \in F THEN page[l] ELSE cache[l]]
    BY DEF Poll, GetActivity
  <2>2. \A l : \A P \in FetchActivityUncached(l) : P \subseteq listed
    BY DEF FetchActivityUncached, FetchActivityPage, FetchActivityPageRest, MapRawActivity,
           Pages, RowsOf
  <2> QED BY <2>1, <2>2 DEF BatchInv, FeedInv
<1>2. feed' \subseteq listed /\ UNCHANGED <<window, listed>>
  BY <1>1 DEF Poll
<1>3. FeedInv'
  BY <1>1, <1>2 DEF BatchInv, FeedInv
<1> DEFINE S == feed'
<1>4. window \in Nat /\ S \in SUBSET Fills /\ IsFiniteSet(S)
  BY <1>2, FS_Subset DEF BatchInv, FeedInv
<1>5. PICK q \in NewestFirst(S) : queue' = AggregateTrades(q)
  BY DEF Poll
<1>6. CASE window = 0
  <2>1. queue' = {Single(q[i]) : i \in 1..Len(q)}
    BY <1>5, <1>6 DEF AggregateTrades
  <2>2. queue' = {Single(f) : f \in S}
    <3> HIDE DEF S
    <3>1. {q[i] : i \in 1..Len(q)} = S
      BY <1>4, <1>5, QueueListsAll
    <3> QED BY <2>1, <3>1
  <2>3. QueueInv'
    BY <1>2, <1>6, <2>2 DEF QueueInv, Single
  <2>4. ASSUME NEW f \in S PROVE Covered(queue, f)'
    <3>1. Single(f) \in queue' /\ f \in Single(f).keys
      BY <2>2 DEF Single
    <3> QED BY <3>1 DEF Covered
  <2> QED BY <1>3, <2>3, <2>4 DEF BatchInv
<1>7. CASE window # 0
  <2>1. queue' = MergeAll(q)
    BY <1>5, <1>7 DEF AggregateTrades
  <2>2. PICK all : BucketsOf(all, S) /\ MergeAll(q) = {all[k] : k \in DOMAIN all}
    <3> HIDE DEF S
    <3> QED BY <1>4, <1>5, MergeKeeps
  <2>3. BucketsOf(all, feed)' /\ queue' = {all[k] : k \in DOMAIN all}
    BY <1>2, <2>1, <2>2, BucketsNext
  <2>4. QueueInv'
    BY <1>2, <1>7, <2>3 DEF QueueInv
  <2>5. ASSUME NEW f \in S PROVE Covered(queue, f)'
    <3>1. CoverHolds(all, f)'
      BY <1>2, <1>4, <1>7, <2>3, <2>5 DEF CoverHolds
    <3>2. Covers(all, f)'
      BY <3>1, CoverNext
    <3> QED BY <2>3, <3>2 DEF Covers
  <2> QED BY <1>3, <2>4, <2>5 DEF BatchInv
<1> QED BY <1>6, <1>7

LEMMA BatchStep == BatchInv /\ [Next]_vars => BatchInv'
<1> SUFFICES ASSUME BatchInv, [Next]_vars PROVE BatchInv'
  OBVIOUS
<1>1. ASSUME UNCHANGED <<window, listed, feed>>, queue' \subseteq queue,
             UNCHANGED cache \/ cache' = [l \in Leaders |-> {}]
      PROVE  BatchInv'
  <2>1. FeedInv'
    BY <1>1 DEF BatchInv, FeedInv
  <2> QED BY <1>1, <2>1, QueueShrinks DEF BatchInv
<1>2. ASSUME NEW F \in SUBSET Leaders, Poll(F) PROVE BatchInv'
  BY <1>2, PollKeeps
<1>3. ASSUME NEW b, Handle(b) PROVE BatchInv'
  BY <1>1, <1>3 DEF Handle, PassOver, Refuse, Settle, Copy, Drop
<1>4. CASE Restart
  <2>1. queue' = {} /\ feed' = {}
    BY <1>4 DEF Restart
  <2>3. (queue = {} /\ feed = {})' => QueueInv'
    BY NothingQueued, PTL
  <2>2. FeedInv'
    BY <1>4 DEF Restart, BatchInv, FeedInv
  <2> QED BY <2>1, <2>2, <2>3 DEF BatchInv
<1>5. ASSUME NEW f \in Fills, Trade(f) PROVE BatchInv'
  <2>1. listed' = listed \cup {f} /\ UNCHANGED <<window, cache, queue, feed>>
    BY <1>5 DEF Trade
  <2>2. IsFiniteSet(listed')
    BY <2>1, FS_AddElement DEF BatchInv, FeedInv
  <2>3. FeedInv'
    BY <2>1, <2>2 DEF BatchInv, FeedInv
  <2> QED BY <2>1, <2>3, QueueShrinks DEF BatchInv
<1>6. ASSUME NEW f \in Fills, Age(f) PROVE BatchInv'
  BY <1>1, <1>6 DEF Age
<1>7. CASE UNCHANGED vars
  BY <1>1, <1>7 DEF vars
<1> QED BY <1>2, <1>3, <1>4, <1>5, <1>6, <1>7 DEF Next, Cycle

LEMMA BatchesFollow == BatchInv => BatchesAreWindows
<1> SUFFICES ASSUME BatchInv, window > 0, NEW b \in queue
             PROVE  /\ b.keys \subseteq feed
                    /\ IF b.keys \cap Core(b.anchor) = {} THEN b = Single(b.anchor)
                       ELSE b.keys = Core(b.anchor)
                    /\ b.size = SumFunctionOnSet(Shares, b.keys)
  BY DEF BatchesAreWindows
<1>1. window \in Nat /\ feed \in SUBSET Fills /\ IsFiniteSet(feed)
  BY FS_Subset DEF BatchInv, FeedInv
<1>2. PICK all : BucketsOf(all, feed) /\ queue \subseteq {all[k] : k \in DOMAIN all}
  BY <1>1 DEF BatchInv, QueueInv
<1>3. PICK key \in DOMAIN all : b = all[key]
  BY <1>2
<1>4. IsMain(key, b, feed) \/ IsLate(key, b, feed)
  BY <1>2, <1>3 DEF BucketsOf
<1> QED BY <1>1, <1>4, BucketsAreBatches

\* Whatever fills a page lists, in whatever order those of one moment come, a cycle's
\* batches are the whole windows of their groups' newest fills, each with the sum of
\* its sizes, and older fills by themselves (engine/aggregate.ts, aggregateTrades).
THEOREM BatchesStayWindows == Spec => []BatchesAreWindows
BY BatchFirst, BatchStep, BatchesFollow, PTL DEF Spec

\* No fill of a cycle is in two of its batches.
BatchesDisjoint == \A b, c \in queue : b # c => b.keys \cap c.keys = {}

LEMMA BatchesApart == BatchInv => BatchesDisjoint
<1> SUFFICES ASSUME BatchInv, NEW b \in queue, NEW c \in queue, b # c
             PROVE  b.keys \cap c.keys = {}
  BY DEF BatchesDisjoint
<1>1. window \in Nat /\ \A g \in feed : At[g] \in Nat
  BY ConstantsOK DEF BatchInv, FeedInv
<1>2. CASE window = 0
  BY <1>2 DEF BatchInv, QueueInv, Single
<1>3. CASE window # 0
  <2>1. PICK all : BucketsOf(all, feed) /\ queue \subseteq {all[k] : k \in DOMAIN all}
    BY <1>3 DEF BatchInv, QueueInv
  <2>2. PICK x \in DOMAIN all, y \in DOMAIN all : b = all[x] /\ c = all[y]
    BY <2>1
  <2>3. x # y
    BY <2>2
  <2>4. (IsMain(x, b, feed) \/ IsLate(x, b, feed)) /\ (IsMain(y, c, feed) \/ IsLate(y, c, feed))
    BY <2>1, <2>2 DEF BucketsOf
  <2>5. ASSUME NEW u, NEW v, NEW d, NEW e, u # v, IsMain(u, d, feed), IsMain(v, e, feed)
        PROVE  d.keys \cap e.keys = {}
    <3>1. PICK a \in feed : u = <<Group[a]>> /\ d.keys = InWindow(a, feed)
      BY <2>5 DEF IsMain, WindowBatch
    <3>2. PICK h \in feed : v = <<Group[h]>> /\ e.keys = InWindow(h, feed)
      BY <2>5 DEF IsMain, WindowBatch
    <3>3. Group[a] # Group[h]
      BY <2>5, <3>1, <3>2
    <3> QED BY <3>1, <3>2, <3>3 DEF InWindow
  <2>6. ASSUME NEW u, NEW v, NEW d, NEW e, IsMain(u, d, feed), IsLate(v, e, feed)
        PROVE  d.keys \cap e.keys = {}
    <3>1. PICK a \in feed : Newest(a, feed) /\ d.keys = InWindow(a, feed)
      BY <2>6 DEF IsMain, WindowBatch
    <3>2. PICK h \in feed, f \in feed : /\ e.keys = {f} /\ Newest(h, feed)
                                       /\ Group[h] = Group[f] /\ At[h] - At[f] > window
      BY <2>6 DEF IsLate, Single
    <3>3. f \notin InWindow(a, feed)
      <4>1. Group[f] = Group[a] => At[a] = At[h]
        BY <1>1, <3>1, <3>2 DEF Newest
      <4> QED BY <1>1, <3>2, <4>1 DEF InWindow
    <3> QED BY <3>1, <3>2, <3>3
  <2>7. ASSUME NEW u, NEW v, NEW d, NEW e, u # v, IsLate(u, d, feed), IsLate(v, e, feed)
        PROVE  d.keys \cap e.keys = {}
    <3>1. PICK f \in feed : u = <<Group[f], At[f]>> /\ d.keys = {f}
      BY <2>7 DEF IsLate, Single
    <3>2. PICK g \in feed : v = <<Group[g], At[g]>> /\ e.keys = {g}
      BY <2>7 DEF IsLate, Single
    <3> QED BY <2>7, <3>1, <3>2
  <2> QED BY <2>3, <2>4, <2>5, <2>6, <2>7
<1> QED BY <1>2, <1>3

\* A cycle that copies all its batches orders no fill twice, whatever their order
\* (engine/aggregate.ts, aggregateTrades).
THEOREM BatchesShareNothing == Spec => []BatchesDisjoint
BY BatchFirst, BatchStep, BatchesApart, PTL DEF Spec

\* A poll leaves no fill of its feed out of the queue, but for one case: of the
\* fills older than the window that a group has at one moment a single one has the
\* bucket (buckets.set in engine/aggregate.ts).
PollCovers == (\E F \in SUBSET Leaders : Poll(F)) => \A f \in feed' : Covered(queue, f)'

THEOREM PollsLoseTiesOnly == Spec => [][PollCovers]_vars
<1>1. BatchInv /\ [Next]_vars => [PollCovers]_vars
  BY PollKeeps DEF PollCovers
<1> QED BY <1>1, BatchFirst, BatchStep, PTL DEF Spec

-----------------------------------------------------------------------------
(* A fill is copied once                                                   *)

\* A fill that was copied is seen for good.
SeenInv ==
  /\ copies \in [Fills -> Nat]
  /\ \A f \in Fills : copies[f] <= 1 /\ (copies[f] = 1 => f \in seen)

LEMMA SeenFirst == Init => SeenInv
BY DEF Init, SeenInv

LEMMA CopyMarks ==
  ASSUME SeenInv, NEW b, Copy(b)
  PROVE  SeenInv'
<1>1. /\ b.keys \cap seen = {} /\ seen' = seen \cup b.keys
      /\ copies' = [f \in Fills |-> IF f \in b.keys THEN copies[f] + 1 ELSE copies[f]]
  BY DEF Copy, AnySeen, MarkSeenMany
<1>2. ASSUME NEW f \in Fills
      PROVE  copies'[f] \in Nat /\ copies'[f] <= 1 /\ (copies'[f] = 1 => f \in seen')
  <2>1. copies[f] \in Nat /\ copies[f] <= 1 /\ (copies[f] = 1 => f \in seen)
    BY DEF SeenInv
  <2>2. CASE f \in b.keys
    <3>1. copies[f] = 0 /\ copies'[f] = copies[f] + 1
      BY <1>1, <2>1, <2>2
    <3> QED BY <1>1, <2>2, <3>1
  <2>3. CASE f \notin b.keys
    BY <1>1, <2>1, <2>3
  <2> QED BY <2>2, <2>3
<1> QED BY <1>1, <1>2 DEF SeenInv

LEMMA SeenStep == SeenInv /\ [Next]_vars => SeenInv'
<1> SUFFICES ASSUME SeenInv, [Next]_vars PROVE SeenInv'
  OBVIOUS
<1>1. ASSUME UNCHANGED copies, seen \subseteq seen' PROVE SeenInv'
  BY <1>1 DEF SeenInv
<1>2. ASSUME NEW F, Poll(F) PROVE SeenInv'
  BY <1>1, <1>2 DEF Poll
<1>3. ASSUME NEW b, Handle(b) PROVE SeenInv'
  <2>1. CASE PassOver(b) \/ Refuse(b)
    BY <1>1, <2>1 DEF PassOver, Refuse
  <2>2. CASE Settle(b)
    BY <1>1, <2>2 DEF Settle, MarkSeenMany
  <2>3. CASE Copy(b)
    BY <2>3, CopyMarks
  <2> QED BY <1>3, <2>1, <2>2, <2>3 DEF Handle
<1>4. CASE Restart
  BY <1>1, <1>4 DEF Restart
<1>5. ASSUME NEW f \in Fills, Trade(f) \/ Age(f) PROVE SeenInv'
  BY <1>1, <1>5 DEF Trade, Age
<1>6. CASE UNCHANGED vars
  BY <1>1, <1>6 DEF vars
<1> QED BY <1>2, <1>3, <1>4, <1>5, <1>6 DEF Next, Cycle

\* However polls batch the fills of a leader, out of order, late or once more after a
\* restart, each is part of one order at most (engine/aggregate.ts, isAnyTradeKeySeen).
THEOREM FillsCopiedOnce == Spec => []NoFillCopiedTwice
<1>1. SeenInv => NoFillCopiedTwice
  BY DEF SeenInv, NoFillCopiedTwice
<1> QED BY SeenFirst, SeenStep, <1>1, PTL DEF Spec
=============================================================================
