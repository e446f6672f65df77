----------------------------- MODULE ProofLemmas ----------------------------
(***************************************************************************)
(* Lemmas that the proofs of several components share: minimal sets, sums  *)
(* over finite sets, rings, flow keys, timestamps, TCP states and records. *)
(***************************************************************************)
EXTENDS FlowRecord, Sequences, FiniteSets, FiniteSetsExt, FiniteSetTheorems, SequenceTheorems,
        WellFoundedInduction, TLAPS

-----------------------------------------------------------------------------
(* Least numbers and minimal sets. *)

(* A nonempty set of natural numbers has a least element. *)
LEMMA LeastElement ==
  ASSUME NEW S, S \subseteq Nat, S # {}
  PROVE  /\ Min(S) \in S
         /\ \A m \in S : Min(S) <= m
<1>1. IsWellFoundedOn(OpToRel(<, Nat), Nat)
  BY NatLessThanWellFounded
<1>2. PICK n \in S : \A m \in S : ~(<<m, n>> \in OpToRel(<, Nat))
  <2> HIDE DEF OpToRel
  <2> QED BY <1>1, WFMin
<1>3. \A m \in S : n <= m
  <2> SUFFICES ASSUME NEW m \in S, ~(n <= m) PROVE FALSE
    OBVIOUS
  <2>1. m \in Nat /\ n \in Nat /\ m < n
    OBVIOUS
  <2>2. <<m, n>> \in OpToRel(<, Nat)
    BY <2>1 DEF OpToRel
  <2> QED BY <1>2, <2>2
<1> QED BY <1>3 DEF Min

(* There are n natural numbers below n. *)
LEMMA NumbersBelow ==
  ASSUME NEW n \in Nat PROVE IsFiniteSet(0 .. n - 1) /\ Cardinality(0 .. n - 1) = n
<1>1. 0 \in Int /\ n - 1 \in Int
  OBVIOUS
<1>2. /\ IsFiniteSet(0 .. n - 1)
      /\ Cardinality(0 .. n - 1) = IF 0 > n - 1 THEN 0 ELSE n - 1 - 0 + 1
  BY <1>1, FS_Interval
<1> QED BY <1>2

(* A nonempty set of finite sets has a minimal member. *)
LEMMA MinimalSet ==
  ASSUME NEW S, IsFiniteSet(S), NEW C, C \subseteq SUBSET S, C # {}
  PROVE  \E T \in C : \A U \in C : U \subseteq T => U = T
<1> DEFINE Sizes == {Cardinality(T) : T \in C}
<1>1. \A T \in C : IsFiniteSet(T) /\ Cardinality(T) \in Nat
  BY FS_Subset, FS_CardinalityType
<1>2. Min(Sizes) \in Sizes /\ \A m \in Sizes : Min(Sizes) <= m
  <2>1. Sizes \subseteq Nat /\ Sizes # {}
    BY <1>1
  <2> HIDE DEF Sizes
  <2> QED BY <2>1, LeastElement
<1>3. PICK T \in C : Cardinality(T) = Min(Sizes)
  BY <1>2
<1>4. ASSUME NEW U \in C, U \subseteq T PROVE U = T
  <2>1. Cardinality(U) <= Cardinality(T) /\ (Cardinality(U) = Cardinality(T) => U = T)
    BY <1>1, <1>4, FS_Subset
  <2>2. Cardinality(T) <= Cardinality(U)
    BY <1>2, <1>3
  <2> QED BY <1>1, <2>1, <2>2
<1> QED BY <1>4

-----------------------------------------------------------------------------
(* Sums.  A sum over a finite set is a fold, hence a recursive function;   *)
(* every fact about it is shown on a smallest set that contradicts it.     *)

(* The element that a fold takes first, and what the fold's function is.   *)
Pick(s) == CHOOSE x \in s : TRUE

IsSum(g, f, S) ==
  g = [s \in SUBSET S |-> IF s = {} THEN 0 ELSE f[Pick(s)] + g[s \ {Pick(s)}]]

LEMMA SumIsFold ==
  ASSUME NEW f, NEW S
  PROVE  SumFunctionOnSet(f, S) = (CHOOSE g : IsSum(g, f, S))[S]
BY DEF SumFunctionOnSet, FoldFunctionOnSet, MapThenFoldSet, IsSum, Pick

LEMMA IsSumAt ==
  ASSUME NEW f, NEW S, NEW g, IsSum(g, f, S), NEW s \in SUBSET S
  PROVE  /\ g[s] = IF s = {} THEN 0 ELSE f[Pick(s)] + g[s \ {Pick(s)}]
         /\ s # {} => Pick(s) \in s /\ s \ {Pick(s)} \in SUBSET S
<1>1. g[s] = IF s = {} THEN 0 ELSE f[Pick(s)] + g[s \ {Pick(s)}]
  BY DEF IsSum
<1>2. s # {} => Pick(s) \in s
  BY DEF Pick
<1> QED BY <1>1, <1>2

(* Two such functions agree wherever both are defined. *)
LEMMA SumsAgree ==
  ASSUME NEW f, NEW S, NEW T, IsFiniteSet(S), NEW g, NEW h, IsSum(g, f, S), IsSum(h, f, T),
         NEW s \in SUBSET (S \cap T)
  PROVE  g[s] = h[s]
<1> DEFINE Bad == {u \in SUBSET (S \cap T) : g[u] # h[u]}
<1> SUFFICES ASSUME Bad # {} PROVE FALSE
  OBVIOUS
<1>1. PICK u \in Bad : \A v \in Bad : v \subseteq u => v = u
  <2>1. Bad \subseteq SUBSET S
    OBVIOUS
  <2> HIDE DEF Bad
  <2> QED BY <2>1, MinimalSet
<1>2. /\ g[u] = IF u = {} THEN 0 ELSE f[Pick(u)] + g[u \ {Pick(u)}]
      /\ h[u] = IF u = {} THEN 0 ELSE f[Pick(u)] + h[u \ {Pick(u)}]
      /\ u # {} => Pick(u) \in u
  <2>1. u \in SUBSET S /\ u \in SUBSET T
    OBVIOUS
  <2> QED BY <2>1, IsSumAt
<1>3. u # {} => g[u \ {Pick(u)}] = h[u \ {Pick(u)}]
  BY <1>1, <1>2
<1> QED BY <1>2, <1>3

(* The function exists. *)
LEMMA SumExists ==
  ASSUME NEW f, NEW S, IsFiniteSet(S)
  PROVE  IsSum(CHOOSE g : IsSum(g, f, S), f, S)
<1> DEFINE The(s) == CHOOSE g : IsSum(g, f, s)
           Bad == {s \in SUBSET S : ~IsSum(The(s), f, s)}
<1> SUFFICES ASSUME Bad # {} PROVE FALSE
  OBVIOUS
<1>1. PICK T \in Bad : \A u \in Bad : u \subseteq T => u = T
  <2> HIDE DEF Bad
  <2>1. Bad \subseteq SUBSET S
    BY DEF Bad
  <2> QED BY <2>1, MinimalSet
<1>2. \A u \in SUBSET T : u # T => IsSum(The(u), f, u)
  BY <1>1
<1> HIDE DEF The
<1> DEFINE h == [s \in SUBSET T |->
                   IF s = {} THEN 0 ELSE f[Pick(s)] + The(s \ {Pick(s)})[s \ {Pick(s)}]]
<1>3. ASSUME NEW s \in SUBSET T, s # {} PROVE h[s \ {Pick(s)}] = The(s \ {Pick(s)})[s \ {Pick(s)}]
  <2> DEFINE u == s \ {Pick(s)}
             v == u \ {Pick(u)}
  <2>1. Pick(s) \in s
    BY <1>3 DEF Pick
  <2>2. u \in SUBSET T /\ u # T
    BY <2>1
  <2>3. IsSum(The(u), f, u)
    BY <1>2, <2>2
  <2>4. The(u)[u] = IF u = {} THEN 0 ELSE f[Pick(u)] + The(u)[v]
    <3>1. u \in SUBSET u
      OBVIOUS
    <3> HIDE DEF u
    <3> QED BY <2>3, <3>1, IsSumAt
  <2>5. u # {} => The(u)[v] = The(v)[v]
    <3> HAVE u # {}
    <3>1. Pick(u) \in u
      BY DEF Pick
    <3>2. v \in SUBSET T /\ v # T /\ v \in SUBSET (u \cap v)
      BY <2>2, <3>1
    <3>3. IsSum(The(v), f, v)
      BY <1>2, <3>2
    <3>4. IsFiniteSet(u)
      <4> HIDE DEF u
      <4> QED BY <2>2, FS_Subset
    <3> HIDE DEF u, v
    <3> QED BY <2>3, <3>2, <3>3, <3>4, SumsAgree
  <2>6. h[u] = IF u = {} THEN 0 ELSE f[Pick(u)] + The(v)[v]
    BY <2>2
  <2> HIDE DEF u, v, h
  <2>7. h[u] = The(u)[u]
    BY <2>4, <2>5, <2>6
  <2> QED BY <2>7 DEF u
<1>4. IsSum(h, f, T)
  <2>1. h = [s \in SUBSET T |-> IF s = {} THEN 0 ELSE f[Pick(s)] + h[s \ {Pick(s)}]]
    <3>1. \A s \in SUBSET T : h[s] = IF s = {} THEN 0 ELSE f[Pick(s)] + h[s \ {Pick(s)}]
      <4> TAKE s \in SUBSET T
      <4>1. h[s] = IF s = {} THEN 0 ELSE f[Pick(s)] + The(s \ {Pick(s)})[s \ {Pick(s)}]
        OBVIOUS
      <4> HIDE DEF h
      <4> QED BY <1>3, <4>1
    <3>2. h = [s \in SUBSET T |-> h[s]]
      OBVIOUS
    <3> HIDE DEF h
    <3> QED BY <3>1, <3>2
  <2> HIDE DEF h
  <2> QED BY <2>1 DEF IsSum
<1>5. IsSum(The(T), f, T)
  BY <1>4 DEF The
<1> QED BY <1>5

LEMMA SumEmpty == ASSUME NEW f PROVE SumFunctionOnSet(f, {}) = 0
<1> DEFINE g == CHOOSE g : IsSum(g, f, {})
<1>1. IsSum(g, f, {})
  BY SumExists, FS_EmptySet
<1> HIDE DEF g
<1>2. g[{}] = 0
  BY <1>1, IsSumAt
<1> QED BY <1>2, SumIsFold DEF g

LEMMA SumPick ==
  ASSUME NEW f, NEW S, IsFiniteSet(S), S # {}
  PROVE  /\ Pick(S) \in S
         /\ SumFunctionOnSet(f, S) = f[Pick(S)] + SumFunctionOnSet(f, S \ {Pick(S)})
<1> DEFINE g == CHOOSE g : IsSum(g, f, S)
           T == S \ {Pick(S)}
           h == CHOOSE h : IsSum(h, f, T)
<1>1. IsFiniteSet(T) /\ T \in SUBSET (S \cap T)
  BY FS_Subset
<1>2. IsSum(g, f, S) /\ IsSum(h, f, T)
  BY <1>1, SumExists
<1>3. SumFunctionOnSet(f, S) = g[S] /\ SumFunctionOnSet(f, T) = h[T]
  BY SumIsFold
<1> HIDE DEF g, h
<1>4. g[S] = f[Pick(S)] + g[T] /\ Pick(S) \in S
  BY <1>2, IsSumAt
<1>5. g[T] = h[T]
  <2> HIDE DEF T
  <2> QED BY <1>1, <1>2, SumsAgree
<1> QED BY <1>3, <1>4, <1>5

(* A sum of integers is an integer, one of natural numbers a natural one.  *)
LEMMA SumType ==
  ASSUME NEW S, IsFiniteSet(S), NEW f, \A x \in S : f[x] \in Int
  PROVE  /\ SumFunctionOnSet(f, S) \in Int
         /\ (\A x \in S : f[x] >= 0) => SumFunctionOnSet(f, S) >= 0
<1> DEFINE Good(T) == /\ SumFunctionOnSet(f, T) \in Int
                      /\ (\A x \in T : f[x] >= 0) => SumFunctionOnSet(f, T) >= 0
           Bad == {T \in SUBSET S : ~Good(T)}
<1> SUFFICES ASSUME Bad # {} PROVE FALSE
  OBVIOUS
<1>1. PICK T \in Bad : \A U \in Bad : U \subseteq T => U = T
  <2> HIDE DEF Bad
  <2>1. Bad \subseteq SUBSET S
    BY DEF Bad
  <2> QED BY <2>1, MinimalSet
<1>2. T # {}
  BY SumEmpty
<1>3. /\ Pick(T) \in T
      /\ SumFunctionOnSet(f, T) = f[Pick(T)] + SumFunctionOnSet(f, T \ {Pick(T)})
  BY <1>2, SumPick, FS_Subset
<1>4. Good(T \ {Pick(T)})
  BY <1>1, <1>3
<1> QED BY <1>3, <1>4

(* Any element may be taken first. *)
LEMMA SumRemove ==
  ASSUME NEW S, IsFiniteSet(S), NEW f, \A y \in S : f[y] \in Int, NEW x \in S
  PROVE  SumFunctionOnSet(f, S) = f[x] + SumFunctionOnSet(f, S \ {x})
<1> DEFINE Sum(T) == SumFunctionOnSet(f, T)
           Bad == {T \in SUBSET S : \E y \in T : Sum(T) # f[y] + Sum(T \ {y})}
<1> SUFFICES ASSUME Bad # {} PROVE FALSE
  OBVIOUS
<1>1. PICK T \in Bad : \A U \in Bad : U \subseteq T => U = T
  <2> HIDE DEF Bad
  <2>1. Bad \subseteq SUBSET S
    BY DEF Bad
  <2> QED BY <2>1, MinimalSet
<1>2. PICK y \in T : Sum(T) # f[y] + Sum(T \ {y})
  OBVIOUS
<1> DEFINE z == Pick(T)
<1>3. z \in T /\ Sum(T) = f[z] + Sum(T \ {z})
  BY SumPick, FS_Subset
<1>4. y # z
  BY <1>2, <1>3
<1>5. Sum(T \ {z}) = f[y] + Sum((T \ {z}) \ {y})
  <2>1. T \ {z} \in SUBSET S /\ T \ {z} # T /\ y \in T \ {z} /\ T \ {z} \subseteq T
    BY <1>3, <1>4
  <2> HIDE DEF z, Sum
  <2> QED BY <1>1, <2>1
<1>6. Sum(T \ {y}) = f[z] + Sum((T \ {y}) \ {z})
  <2>1. T \ {y} \in SUBSET S /\ T \ {y} # T /\ z \in T \ {y} /\ T \ {y} \subseteq T
    BY <1>3, <1>4
  <2> HIDE DEF z, Sum
  <2> QED BY <1>1, <2>1
<1>7. (T \ {z}) \ {y} = (T \ {y}) \ {z}
  OBVIOUS
<1>8. f[y] \in Int /\ f[z] \in Int /\ Sum((T \ {y}) \ {z}) \in Int
  <2>1. (T \ {y}) \ {z} \in SUBSET S /\ \A w \in (T \ {y}) \ {z} : f[w] \in Int
    OBVIOUS
  <2>2. IsFiniteSet((T \ {y}) \ {z})
    BY <2>1, FS_Subset
  <2>3. SumFunctionOnSet(f, (T \ {y}) \ {z}) \in Int
    BY <2>1, <2>2, SumType
  <2> QED BY <1>3, <2>3
<1>9. Sum((T \ {z}) \ {y}) = Sum((T \ {y}) \ {z})
  BY <1>7
<1> DEFINE a == Sum(T)
           b == Sum(T \ {y})
           c == Sum(T \ {z})
           e == Sum((T \ {y}) \ {z})
<1>10. /\ a # f[y] + b /\ a = f[z] + c /\ c = f[y] + e /\ b = f[z] + e
       /\ f[y] \in Int /\ f[z] \in Int /\ e \in Int
  BY <1>2, <1>3, <1>5, <1>6, <1>8, <1>9
<1> HIDE DEF a, b, c, e
<1> QED BY <1>10

LEMMA SumAdd ==
  ASSUME NEW S, IsFiniteSet(S), NEW x, x \notin S, NEW f,
         \A y \in S \cup {x} : f[y] \in Int
  PROVE  SumFunctionOnSet(f, S \cup {x}) = f[x] + SumFunctionOnSet(f, S)
<1>1. IsFiniteSet(S \cup {x}) /\ x \in S \cup {x} /\ (S \cup {x}) \ {x} = S
  BY FS_AddElement
<1>2. SumFunctionOnSet(f, S \cup {x}) = f[x] + SumFunctionOnSet(f, (S \cup {x}) \ {x})
  BY <1>1, SumRemove
<1> QED BY <1>1, <1>2

(* A sum depends on what is added only. *)
LEMMA SumSame ==
  ASSUME NEW S, IsFiniteSet(S), NEW f, NEW g, \A x \in S : f[x] = g[x]
  PROVE  SumFunctionOnSet(f, S) = SumFunctionOnSet(g, S)
<1> DEFINE Bad == {T \in SUBSET S : SumFunctionOnSet(f, T) # SumFunctionOnSet(g, T)}
<1> SUFFICES ASSUME Bad # {} PROVE FALSE
  OBVIOUS
<1>1. PICK T \in Bad : \A U \in Bad : U \subseteq T => U = T
  <2> HIDE DEF Bad
  <2>1. Bad \subseteq SUBSET S
    BY DEF Bad
  <2> QED BY <2>1, MinimalSet
<1>2. T # {}
  BY SumEmpty
<1>3. /\ Pick(T) \in T
      /\ SumFunctionOnSet(f, T) = f[Pick(T)] + SumFunctionOnSet(f, T \ {Pick(T)})
      /\ SumFunctionOnSet(g, T) = g[Pick(T)] + SumFunctionOnSet(g, T \ {Pick(T)})
  BY <1>2, SumPick, FS_Subset
<1>4. SumFunctionOnSet(f, T \ {Pick(T)}) = SumFunctionOnSet(g, T \ {Pick(T)})
  BY <1>1, <1>3
<1> QED BY <1>3, <1>4

(* One more summand at the end. *)
LEMMA SumAppended ==
  ASSUME NEW n \in Nat, NEW f, NEW g,
         \A i \in 1 .. n : f[i] \in Int /\ g[i] = f[i], g[n + 1] \in Int
  PROVE  SumFunctionOnSet(g, 1 .. n + 1) = g[n + 1] + SumFunctionOnSet(f, 1 .. n)
<1>0. IsFiniteSet(1 .. n)
  BY FS_Interval
<1>1. IsFiniteSet(1 .. n) /\ n + 1 \notin 1 .. n /\ 1 .. n + 1 = (1 .. n) \cup {n + 1}
  BY <1>0
<1>2. \A i \in (1 .. n) \cup {n + 1} : g[i] \in Int
  OBVIOUS
<1>3. SumFunctionOnSet(g, (1 .. n) \cup {n + 1}) = g[n + 1] + SumFunctionOnSet(g, 1 .. n)
  BY <1>1, <1>2, SumAdd
<1>4. SumFunctionOnSet(f, 1 .. n) = SumFunctionOnSet(g, 1 .. n)
  <2>1. \A i \in 1 .. n : f[i] = g[i]
    OBVIOUS
  <2> QED BY <1>1, <2>1, SumSame
<1> QED BY <1>1, <1>3, <1>4

(* A sum over the rest of a set is not larger. *)
LEMMA SumSubset ==
  ASSUME NEW S, IsFiniteSet(S), NEW f, \A x \in S : f[x] \in Nat, NEW T \in SUBSET S
  PROVE  SumFunctionOnSet(f, T) <= SumFunctionOnSet(f, S)
<1> DEFINE Sum(U) == SumFunctionOnSet(f, U)
           Bad == {R \in SUBSET S : T \subseteq R /\ ~(Sum(T) <= Sum(R))}
<1> SUFFICES ASSUME Bad # {} PROVE FALSE
  OBVIOUS
<1>0. \A U \in SUBSET S : IsFiniteSet(U) /\ Sum(U) \in Int
  BY SumType, FS_Subset
<1>1. PICK R \in Bad : \A U \in Bad : U \subseteq R => U = R
  <2> HIDE DEF Bad
  <2>1. Bad \subseteq SUBSET S
    BY DEF Bad
  <2> QED BY <2>1, MinimalSet
<1>2. R # T
  BY <1>0
<1>3. PICK x \in R : x \notin T
  BY <1>2
<1>4. Sum(R) = f[x] + Sum(R \ {x})
  BY <1>0, SumRemove
<1>5. Sum(T) <= Sum(R \ {x})
  <2>1. R \ {x} \in SUBSET S /\ T \subseteq R \ {x} /\ R \ {x} \subseteq R /\ R \ {x} # R
    BY <1>3
  <2> HIDE DEF Sum
  <2> QED BY <1>1, <2>1
<1>6. Sum(R \ {x}) \in Int /\ Sum(T) \in Int /\ f[x] \in Nat
  BY <1>0
<1> HIDE DEF Sum
<1> QED BY <1>1, <1>4, <1>5, <1>6

(* Adding zeros gives zero. *)
LEMMA SumOfZeros ==
  ASSUME NEW S, IsFiniteSet(S), NEW f, \A x \in S : f[x] = 0
  PROVE  SumFunctionOnSet(f, S) = 0
<1> DEFINE Bad == {T \in SUBSET S : SumFunctionOnSet(f, T) # 0}
<1> SUFFICES ASSUME Bad # {} PROVE FALSE
  OBVIOUS
<1>1. PICK T \in Bad : \A U \in Bad : U \subseteq T => U = T
  <2> HIDE DEF Bad
  <2>1. Bad \subseteq SUBSET S
    BY DEF Bad
  <2> QED BY <2>1, MinimalSet
<1>2. T # {}
  BY SumEmpty
<1>3. /\ Pick(T) \in T
      /\ SumFunctionOnSet(f, T) = 0 + SumFunctionOnSet(f, T \ {Pick(T)})
  BY <1>2, SumPick, FS_Subset
<1>4. SumFunctionOnSet(f, T \ {Pick(T)}) = 0
  BY <1>1, <1>3
<1> QED BY <1>3, <1>4

(* Adding ones counts. *)
LEMMA SumOfOnes ==
  ASSUME NEW S, IsFiniteSet(S), NEW f, \A x \in S : f[x] = 1
  PROVE  SumFunctionOnSet(f, S) = Cardinality(S)
<1> DEFINE Bad == {T \in SUBSET S : SumFunctionOnSet(f, T) # Cardinality(T)}
<1> SUFFICES ASSUME Bad # {} PROVE FALSE
  OBVIOUS
<1>1. PICK T \in Bad : \A U \in Bad : U \subseteq T => U = T
  <2> HIDE DEF Bad
  <2>1. Bad \subseteq SUBSET S
    BY DEF Bad
  <2> QED BY <2>1, MinimalSet
<1>2. T # {}
  BY SumEmpty, FS_EmptySet
<1>3. IsFiniteSet(T) /\ Cardinality(T) \in Nat
  BY FS_Subset, FS_CardinalityType
<1>4. /\ Pick(T) \in T
      /\ SumFunctionOnSet(f, T) = 1 + SumFunctionOnSet(f, T \ {Pick(T)})
  BY <1>2, <1>3, SumPick
<1>5. SumFunctionOnSet(f, T \ {Pick(T)}) = Cardinality(T \ {Pick(T)})
  BY <1>1, <1>4
<1>6. Cardinality(T \ {Pick(T)}) = Cardinality(T) - 1
  BY <1>3, <1>4, FS_RemoveElement
<1> QED BY <1>3, <1>4, <1>5, <1>6

(* A sum over two disjoint sets. *)
LEMMA SumDisjoint ==
  ASSUME NEW S, IsFiniteSet(S), NEW T, IsFiniteSet(T), S \cap T = {},
         NEW f, \A x \in S \cup T : f[x] \in Int
  PROVE  SumFunctionOnSet(f, S \cup T) = SumFunctionOnSet(f, S) + SumFunctionOnSet(f, T)
<1> DEFINE Sum(U) == SumFunctionOnSet(f, U)
           Bad == {U \in SUBSET T : Sum(S \cup U) # Sum(S) + Sum(U)}
<1> SUFFICES ASSUME Bad # {} PROVE FALSE
  OBVIOUS
<1>1. PICK U \in Bad : \A V \in Bad : V \subseteq U => V = U
  <2> HIDE DEF Bad
  <2>1. Bad \subseteq SUBSET T
    BY DEF Bad
  <2> QED BY <2>1, MinimalSet
<1>2. IsFiniteSet(U) /\ IsFiniteSet(S \cup U) /\ Sum(S) \in Int
  BY FS_Subset, FS_Union, SumType
<1>3. U # {}
  <2>1. S \cup {} = S
    OBVIOUS
  <2> QED BY <1>2, <2>1, SumEmpty
<1>4. PICK x \in U : TRUE
  BY <1>3
<1> DEFINE V == U \ {x}
<1>5. Sum(U) = f[x] + Sum(V) /\ Sum(V) \in Int /\ f[x] \in Int
  <2>1. IsFiniteSet(V) /\ (\A y \in V : f[y] \in Int) /\ \A y \in U : f[y] \in Int
    BY <1>2, FS_Subset
  <2> QED BY <1>2, <2>1, SumRemove, SumType
<1>6. Sum(S \cup U) = f[x] + Sum(S \cup V)
  <2>1. (S \cup U) \ {x} = S \cup V /\ x \in S \cup U /\ \A y \in S \cup U : f[y] \in Int
    OBVIOUS
  <2>2. SumFunctionOnSet(f, S \cup U) = f[x] + SumFunctionOnSet(f, (S \cup U) \ {x})
    BY <1>2, <2>1, SumRemove
  <2> QED BY <2>1, <2>2
<1>7. Sum(S \cup V) = Sum(S) + Sum(V)
  <2>1. V \in SUBSET T /\ V \subseteq U /\ V # U
    OBVIOUS
  <2> HIDE DEF Sum, V
  <2> QED BY <1>1, <2>1
<1>8. Sum(S \cup U) # Sum(S) + Sum(U)
  OBVIOUS
<1> HIDE DEF Sum, V
<1> QED BY <1>2, <1>5, <1>6, <1>7, <1>8

(* b takes S to T one to one, and f to g. *)
Renames(b, S, f, T, g) ==
  /\ \A x \in S : f[x] \in Int /\ g[b[x]] = f[x] /\ b[x] \in T
  /\ \A x, y \in S : b[x] = b[y] => x = y
  /\ \A y \in T : \E x \in S : b[x] = y

(* A sum over a set that another one renames. *)
LEMMA SumRenamed ==
  ASSUME NEW S, IsFiniteSet(S), NEW f, NEW g, NEW b, NEW T, Renames(b, S, f, T, g)
  PROVE  SumFunctionOnSet(g, T) = SumFunctionOnSet(f, S)
<1> USE DEF Renames
<1> DEFINE Image(U) == {b[x] : x \in U}
           Bad == {U \in SUBSET S : SumFunctionOnSet(g, Image(U)) # SumFunctionOnSet(f, U)}
<1>0. T = Image(S)
  OBVIOUS
<1> SUFFICES ASSUME Bad # {} PROVE FALSE
  BY <1>0
<1>1. PICK U \in Bad : \A V \in Bad : V \subseteq U => V = U
  <2> HIDE DEF Bad
  <2>1. Bad \subseteq SUBSET S
    BY DEF Bad
  <2> QED BY <2>1, MinimalSet
<1>2. IsFiniteSet(U) /\ U \subseteq S
  BY FS_Subset
<1>3. U # {}
  <2>1. Image({}) = {}
    OBVIOUS
  <2> QED BY <2>1, SumEmpty
<1>4. PICK x \in U : TRUE
  BY <1>3
<1> DEFINE V == U \ {x}
<1>5. SumFunctionOnSet(f, U) = f[x] + SumFunctionOnSet(f, V)
  BY <1>2, SumRemove
<1>6. SumFunctionOnSet(g, Image(U)) = g[b[x]] + SumFunctionOnSet(g, Image(V))
  <2>1. IsFiniteSet(Image(U))
    <3> DEFINE h == [y \in U |-> b[y]]
               I == Image(U)
    <3>1. h \in Surjection(U, I)
      BY DEF Surjection
    <3> HIDE DEF h, I
    <3>2. IsFiniteSet(I)
      BY <1>2, <3>1, FS_Surjection
    <3> QED BY <3>2 DEF I
  <2>2. /\ Image(U) \ {b[x]} = Image(V) /\ b[x] \in Image(U)
        /\ \A z \in Image(U) : g[z] \in Int
    BY <1>2
  <2> DEFINE I == Image(U)
             c == b[x]
  <2>3. IsFiniteSet(I) /\ c \in I /\ \A z \in I : g[z] \in Int
    BY <2>1, <2>2
  <2> HIDE DEF I, c
  <2>4. SumFunctionOnSet(g, I) = g[c] + SumFunctionOnSet(g, I \ {c})
    BY <2>3, SumRemove
  <2> QED BY <2>2, <2>4 DEF I, c
<1>7. SumFunctionOnSet(g, Image(V)) = SumFunctionOnSet(f, V)
  <2>1. V \in SUBSET S /\ V \subseteq U /\ V # U
    OBVIOUS
  <2> QED BY <1>1, <2>1
<1>8. g[b[x]] = f[x]
  BY <1>2
<1> QED BY <1>5, <1>6, <1>7, <1>8

(* A sum over one element. *)
LEMMA SumOne ==
  ASSUME NEW x, NEW f, f[x] \in Int PROVE SumFunctionOnSet(f, {x}) = f[x]
<1>1. IsFiniteSet({}) /\ x \notin {} /\ {} \cup {x} = {x}
  BY FS_EmptySet
<1>2. SumFunctionOnSet(f, {} \cup {x}) = f[x] + SumFunctionOnSet(f, {})
  BY <1>1, SumAdd
<1> QED BY <1>1, <1>2, SumEmpty

-----------------------------------------------------------------------------
(* Rings. *)

(* The rings of C cells that hold members of S, and the i-th cell from h.  *)
RingOf(S, C) == [0 .. C - 1 -> S]

Cell(h, i, C) == (h + i - 1) % C

(* The queue in a ring of C cells, read over n cells from h. *)
RingSeq(r, h, n, C) == [i \in 1 .. n |-> r[Cell(h, i, C)]]

(* A ring after v was stored in cell c. *)
Stored(r, c, v) == [r EXCEPT ![c] = v]

(* The cells from h on are distinct until the ring is closed, and those    *)
(* from the next cell on are the same ones, counted from one less.         *)
LEMMA RingCells ==
  ASSUME NEW C \in Nat, 0 < C, NEW h \in 0 .. C - 1
  PROVE  /\ \A i \in 1 .. C + 1 : Cell(h, i, C) \in 0 .. C - 1
         /\ \A i, j \in 1 .. C : i # j => Cell(h, i, C) # Cell(h, j, C)
         /\ Cell(h, 1, C) = h
         /\ (h + 1) % C \in 0 .. C - 1
         /\ \A i \in 1 .. C : Cell((h + 1) % C, i, C) = Cell(h, i + 1, C)
         /\ \A i \in 1 .. C : (Cell(h, i, C) + 1) % C = Cell(h, i + 1, C)
<1> DEFINE Wrap(x) == IF x < C THEN x ELSE x - C
<1>1. ASSUME NEW x \in Nat, x < 2 * C PROVE x % C = Wrap(x)
  BY <1>1, SMT
<1>2. ASSUME NEW x \in 0 .. C - 1, NEW i \in 1 .. C + 1
      PROVE  Cell(x, i, C) = Wrap(x + i - 1)
  <2>1. x + i - 1 \in Nat /\ x + i - 1 < 2 * C
    BY <1>2
  <2> HIDE DEF Wrap
  <2> QED BY <1>1, <2>1 DEF Cell
<1>3. (h + 1) % C = Wrap(h + 1)
  <2>1. h + 1 \in Nat /\ h + 1 < 2 * C
    OBVIOUS
  <2> HIDE DEF Wrap
  <2> QED BY <1>1, <2>1
<1>4. ASSUME NEW i \in 1 .. C + 1 PROVE Cell(h, i, C) \in 0 .. C - 1
  BY <1>2, <1>4
<1>5. ASSUME NEW i \in 1 .. C, NEW j \in 1 .. C, i # j PROVE Cell(h, i, C) # Cell(h, j, C)
  BY <1>2, <1>5
<1>6. Cell(h, 1, C) = h
  BY <1>2
<1>7. (h + 1) % C \in 0 .. C - 1
  BY <1>3
<1>8. ASSUME NEW i \in 1 .. C PROVE Cell((h + 1) % C, i, C) = Cell(h, i + 1, C)
  <2>1. Cell((h + 1) % C, i, C) = Wrap(Wrap(h + 1) + i - 1)
    <3>1. i \in 1 .. C + 1
      OBVIOUS
    <3> QED BY <1>2, <1>3, <1>7, <3>1
  <2>2. Cell(h, i + 1, C) = Wrap(h + i)
    <3>1. i + 1 \in 1 .. C + 1 /\ h + (i + 1) - 1 = h + i
      OBVIOUS
    <3> HIDE DEF Wrap
    <3> QED BY <1>2, <3>1
  <2> QED BY <2>1, <2>2
<1>9. ASSUME NEW i \in 1 .. C PROVE (Cell(h, i, C) + 1) % C = Cell(h, i + 1, C)
  <2> DEFINE x == Cell(h, i, C)
  <2>1. i \in 1 .. C + 1 /\ x \in 0 .. C - 1 /\ x = Wrap(h + i - 1)
    BY <1>2, <1>4
  <2>2. x + 1 \in Nat /\ x + 1 < 2 * C
    <3> HIDE DEF x
    <3> QED BY <2>1
  <2>3. (x + 1) % C = Wrap(x + 1)
    <3> HIDE DEF x, Wrap
    <3> QED BY <1>1, <2>2
  <2>4. Cell(h, i + 1, C) = Wrap(h + i)
    <3>1. i + 1 \in 1 .. C + 1 /\ h + (i + 1) - 1 = h + i
      OBVIOUS
    <3> HIDE DEF Wrap
    <3> QED BY <1>2, <3>1
  <2>5. (x + 1) % C = Cell(h, i + 1, C)
    <3> HIDE DEF x
    <3> QED BY <2>1, <2>3, <2>4
  <2> QED BY <2>5
<1> QED BY <1>4, <1>5, <1>6, <1>7, <1>8, <1>9

(* A ring holds a sequence of its cells. *)
LEMMA RingIsSequence ==
  ASSUME NEW C \in Nat, 0 < C, NEW S, NEW r, r \in RingOf(S, C),
         NEW h \in 0 .. C - 1, NEW n \in Nat, n <= C
  PROVE  /\ RingSeq(r, h, n, C) \in Seq(S)
         /\ Len(RingSeq(r, h, n, C)) = n
         /\ \A i \in 1 .. n : RingSeq(r, h, n, C)[i] = r[Cell(h, i, C)]
<1>1. ASSUME NEW i \in 1 .. n PROVE r[Cell(h, i, C)] \in S
  <2>1. Cell(h, i, C) \in 0 .. C - 1
    BY RingCells
  <2> QED BY <2>1 DEF RingOf
<1> QED BY <1>1 DEF RingSeq

(* Writing at the tail appends. *)
LEMMA RingPush ==
  ASSUME NEW C \in Nat, 0 < C, NEW S, NEW r, r \in RingOf(S, C),
         NEW h \in 0 .. C - 1, NEW n \in Nat, n < C, NEW v \in S
  PROVE  LET r2 == Stored(r, Cell(h, n + 1, C), v) IN
         /\ r2 \in RingOf(S, C)
         /\ RingSeq(r2, h, n + 1, C) = Append(RingSeq(r, h, n, C), v)
<1> DEFINE t == Cell(h, n + 1, C)
           r2 == Stored(r, t, v)
           old == RingSeq(r, h, n, C)
           new == RingSeq(r2, h, n + 1, C)
<1>1. t \in 0 .. C - 1
  BY RingCells
<1>2. r2 \in RingOf(S, C) /\ r2[t] = v /\ \A s \in (0 .. C - 1) \ {t} : r2[s] = r[s]
  <2> HIDE DEF t
  <2> QED BY <1>1 DEF RingOf, Stored
<1>3. /\ old \in Seq(S) /\ Len(old) = n
      /\ \A i \in 1 .. n : old[i] = r[Cell(h, i, C)]
  <2>1. n \in Nat /\ n <= C /\ h \in 0 .. C - 1 /\ r \in RingOf(S, C)
    OBVIOUS
  <2> QED BY <2>1, RingIsSequence
<1>4. /\ new \in Seq(S) /\ Len(new) = n + 1
      /\ \A i \in 1 .. n + 1 : new[i] = r2[Cell(h, i, C)]
  <2>1. n + 1 \in Nat /\ n + 1 <= C
    OBVIOUS
  <2> HIDE DEF r2
  <2> QED BY <2>1, <1>2, RingIsSequence
<1>5. new[n + 1] = v
  <2>1. n + 1 \in 1 .. n + 1
    OBVIOUS
  <2> HIDE DEF new, r2
  <2> QED BY <2>1, <1>2, <1>4
<1>6. ASSUME NEW i \in 1 .. n PROVE new[i] = old[i]
  <2>1. Cell(h, i, C) \in (0 .. C - 1) \ {t}
    <3>1. i \in 1 .. C /\ n + 1 \in 1 .. C /\ i # n + 1 /\ i \in 1 .. C + 1
      OBVIOUS
    <3> QED BY <3>1, RingCells
  <2>2. i \in 1 .. n + 1
    OBVIOUS
  <2> HIDE DEF new, old, r2, t
  <2> QED BY <2>1, <2>2, <1>2, <1>3, <1>4
<1>7. new = Append(old, v)
  <2> HIDE DEF new, old, r2
  <2> DEFINE app == Append(old, v)
  <2>1. /\ app \in Seq(S) /\ Len(app) = n + 1 /\ app[n + 1] = v
        /\ \A i \in 1 .. n : app[i] = old[i]
    BY <1>3
  <2> HIDE DEF app
  <2>2. \A i \in 1 .. n + 1 : new[i] = app[i]
    BY <2>1, <1>5, <1>6
  <2>3. new = app
    BY <2>1, <2>2, <1>4, SeqEqual
  <2> QED BY <2>3 DEF app
<1> QED BY <1>2, <1>7

(* Advancing the head takes the first element. *)
LEMMA RingPop ==
  ASSUME NEW C \in Nat, 0 < C, NEW S, NEW r, r \in RingOf(S, C),
         NEW h \in 0 .. C - 1, NEW n \in Nat, 0 < n, n <= C
  PROVE  /\ RingSeq(r, h, n, C) # <<>>
         /\ RingSeq(r, (h + 1) % C, n - 1, C) = Tail(RingSeq(r, h, n, C))
<1> DEFINE k == (h + 1) % C
           old == RingSeq(r, h, n, C)
           new == RingSeq(r, k, n - 1, C)
<1>1. k \in 0 .. C - 1
  BY RingCells
<1>2. /\ old \in Seq(S) /\ Len(old) = n
      /\ \A i \in 1 .. n : old[i] = r[Cell(h, i, C)]
  <2>1. n \in Nat /\ n <= C /\ h \in 0 .. C - 1 /\ r \in RingOf(S, C)
    OBVIOUS
  <2> QED BY <2>1, RingIsSequence
<1>3. /\ new \in Seq(S) /\ Len(new) = n - 1
      /\ \A i \in 1 .. n - 1 : new[i] = r[Cell(k, i, C)]
  <2> DEFINE m == n - 1
  <2>1. m \in Nat /\ m <= C
    OBVIOUS
  <2> HIDE DEF k, m
  <2>2. /\ RingSeq(r, k, m, C) \in Seq(S) /\ Len(RingSeq(r, k, m, C)) = m
        /\ \A i \in 1 .. m : RingSeq(r, k, m, C)[i] = r[Cell(k, i, C)]
    BY <2>1, <1>1, RingIsSequence
  <2> QED BY <2>2 DEF m
<1>4. ASSUME NEW i \in 1 .. n - 1 PROVE new[i] = old[i + 1]
  <2>1. i \in 1 .. C /\ i + 1 \in 1 .. n
    OBVIOUS
  <2>2. Cell(k, i, C) = Cell(h, i + 1, C)
    BY <2>1, RingCells
  <2> HIDE DEF new, old, k
  <2> QED BY <2>1, <2>2, <1>2, <1>3
<1>5. old # <<>> /\ new = Tail(old)
  <2> HIDE DEF old, new, k
  <2>1. old # <<>>
    BY <1>2
  <2> DEFINE rest == Tail(old)
  <2>2. /\ rest \in Seq(S) /\ Len(rest) = n - 1
        /\ \A i \in 1 .. n - 1 : rest[i] = old[i + 1]
    BY <2>1, <1>2, HeadTailProperties
  <2> HIDE DEF rest
  <2>3. \A i \in 1 .. n - 1 : new[i] = rest[i]
    BY <2>2, <1>4
  <2>4. new = rest
    BY <2>2, <2>3, <1>3, SeqEqual
  <2> QED BY <2>1, <2>4 DEF rest
<1> QED BY <1>5

-----------------------------------------------------------------------------
(* Types of keys and records. *)

(* A packet that passes flow_key_from_packet has a key and a direction. *)
LEMMA KeyType ==
  ASSUME NEW p \in PacketInfo, KeyError(p) = "0"
  PROVE  KeyOf(p) \in FlowKeys /\ DirectionOf(p) \in Directions
<1>1. p.protocol \in Transports
  BY DEF KeyError, PacketInfo, Transports
<1>2. SourceEndpoint(p) \in Endpoint /\ DestinationEndpoint(p) \in Endpoint
  BY PortsAssumption DEF SourceEndpoint, DestinationEndpoint, FlowEndpoint, Endpoint, PacketInfo
<1>3. KeyOf(p) \in FlowKeys
  BY <1>1, <1>2 DEF KeyOf, FlowKeys
<1>4. DirectionOf(p) \in Directions
  BY DEF DirectionOf, Directions
<1> QED BY <1>3, <1>4

(* One packet takes a TCP state to a TCP state. *)
LEMMA ObserveType ==
  ASSUME NEW s \in TcpState, NEW d \in Directions, NEW flags
  PROVE  tcp_flow_state_observe(s, d, flags) \in TcpState
<1> DEFINE e == tcp_flow_event_from_flags(flags)
<1>1. ObserveFin(s, d) \in TcpState
  BY DEF ObserveFin, TcpState, Phases
<1>2. ObserveHandshake(s, d, e) \in TcpState
  <2> HIDE DEF e
  <2> QED BY DEF ObserveHandshake, TcpState, Phases
<1>3. /\ [s EXCEPT !.phase = "RESET"] \in TcpState
      /\ [s EXCEPT !.phase = "CLOSED"] \in TcpState
  BY DEF TcpState, Phases
<1> QED
  <2> HIDE DEF e
  <2> QED BY <1>1, <1>2, <1>3 DEF tcp_flow_state_observe, e

(* The counters of a direction stay within their range unless the packet   *)
(* is refused.                                                             *)
LEMMA StatsType ==
  ASSUME NEW s \in DirectionStats, NEW p \in PacketInfo, ~StatsOverflow(s, p)
  PROVE  flow_direction_stats_add_packet(s, p) \in DirectionStats
BY CounterMaxAssumption
   DEF StatsOverflow, flow_direction_stats_add_packet, DirectionStats, Counter, PacketInfo

(* The all-zero values of an initialised record are well typed. *)
LEMMA ZeroTypes ==
  /\ ZeroStats \in DirectionStats
  /\ ZeroTcpState \in TcpState
  /\ tcp_flow_state_init \in TcpState
<1>1. ZeroStats \in DirectionStats
  BY CounterMaxAssumption DEF ZeroStats, DirectionStats, Counter
<1>2. ZeroTcpState \in TcpState
  BY DEF ZeroTcpState, TcpState, Phases
<1>3. tcp_flow_state_init \in TcpState
  BY <1>2 DEF tcp_flow_state_init, TcpState
<1> QED BY <1>1, <1>2, <1>3

(* flow_record_init makes a record of the packet's key. *)
LEMMA RecordInitType ==
  ASSUME NEW p \in PacketInfo, RecordInitError(p) = "0"
  PROVE  /\ flow_record_init(p) \in FlowRecords
         /\ flow_record_init(p).key = KeyOf(p)
<1>1. KeyError(p) = "0" /\ ~StatsOverflow(ZeroStats, p)
  BY DEF RecordInitError
<1>2. KeyOf(p) \in FlowKeys /\ DirectionOf(p) \in Directions
  BY <1>1, KeyType
<1>3. flow_direction_stats_add_packet(ZeroStats, p) \in DirectionStats
  BY <1>1, StatsType, ZeroTypes
<1>4. tcp_flow_state_observe(tcp_flow_state_init, DirectionOf(p), p.tcp_flags) \in TcpState
  BY <1>2, ObserveType, ZeroTypes
<1>5. p.timestamp \in Timestamp
  BY DEF PacketInfo
<1> QED BY <1>2, <1>3, <1>4, <1>5, ZeroTypes DEF flow_record_init, FlowRecords

(* flow_record_update keeps the key and the type of a record. *)
LEMMA RecordUpdateType ==
  ASSUME NEW r \in FlowRecords, NEW p \in PacketInfo, RecordUpdateError(r, p) = "0"
  PROVE  /\ flow_record_update(r, p) \in FlowRecords
         /\ flow_record_update(r, p).key = r.key
<1>1. KeyError(p) = "0" /\ ~StatsOverflow(r.stats[DirectionOf(p)], p)
  BY DEF RecordUpdateError
<1>2. DirectionOf(p) \in Directions
  BY <1>1, KeyType
<1>3. r.stats[DirectionOf(p)] \in DirectionStats
  BY <1>2 DEF FlowRecords
<1>4. flow_direction_stats_add_packet(r.stats[DirectionOf(p)], p) \in DirectionStats
  BY <1>1, <1>3, StatsType
<1>5. tcp_flow_state_observe(r.tcp_state, DirectionOf(p), p.tcp_flags) \in TcpState
  BY <1>2, ObserveType DEF FlowRecords
<1>6. p.timestamp \in Timestamp
  BY DEF PacketInfo
<1> QED BY <1>2, <1>4, <1>5, <1>6 DEF flow_record_update, FlowRecords

(* The fields of a timestamp are integers, so that times are ordered by    *)
(* integer arithmetic.                                                     *)
LEMMA TimestampParts ==
  ASSUME NEW t \in Timestamp PROVE t.seconds \in Int /\ t.microseconds \in Int
<1>1. MicrosecondsPerSecond \in Int
  BY DEF MicrosecondsPerSecond
<1> QED BY <1>1 DEF Timestamp
=============================================================================
