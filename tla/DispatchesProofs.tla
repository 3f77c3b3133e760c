-------------------------- MODULE DispatchesProofs --------------------------
(***************************************************************************)
(* Type correctness of Dispatches, its custody invariants and the way its  *)
(* copies came, for every tree, set of issues, quantities and number of    *)
(* overlapping requests; for requests that run one at a time, the stock,   *)
(* the history and the refinement of CustodyLedger; and what the walks     *)
(* through the tree yield.                                                 *)
(*                                                                         *)
(* The invariants are not inductive by themselves: a write is as sound as  *)
(* what its request read some queries earlier.  CustodyInv adds what each  *)
(* unfinished request may still rely on (RequestSound), and that survives  *)
(* the other requests because the table only grows: no entry disappears or *)
(* changes its route, and no receipt is erased (Grows).                    *)
(*                                                                         *)
(* With one slot nothing changes between a check and its write: SerialInv  *)
(* adds that whatever a request has found is still true (RequestFresh).    *)
(***************************************************************************)
EXTENDS Dispatches, TreeQueries, FiniteSetTheorems, WellFoundedInduction, TLAPS

-----------------------------------------------------------------------------
(* Sums over finite sets *)

\* A family of subsets of a finite set has a smallest member: induction, as a
\* fact about sets.
LEMMA SmallestSubset ==
    ASSUME NEW S, IsFiniteSet(S), NEW F \in SUBSET SUBSET S, F # {}
    PROVE  \E U \in F : \A V \in F : V \subseteq U => V = U
  <1>1. IsWellFoundedOn(StrictSubsetOrdering(S), SUBSET S)
    BY FS_StrictSubsetOrderingWellFounded, FS_FiniteSubsetsOfFinite
  <1>2. PICK U \in F : \A V \in F : ~(<<V, U>> \in StrictSubsetOrdering(S))
    BY <1>1, WFMin
  <1>3. ASSUME NEW V \in F, V \subseteq U PROVE V = U
    BY <1>2, <1>3 DEF StrictSubsetOrdering
  <1> QED
    BY <1>3

\* A set of numbers up to n has a smallest one.
LEMMA SmallestNumber ==
    ASSUME NEW n \in Nat, NEW B \in SUBSET (1..n), B # {}
    PROVE  \E d \in B : \A c \in B : d <= c
  <1> DEFINE S == 1..n
             F == {1..d : d \in B}
  <1>1. IsFiniteSet(S)
    BY FS_Interval, 1 \in Int
  <1>2. F \in SUBSET SUBSET S /\ F # {}
    <2>1. \A d \in B : 1..d \subseteq S
      OBVIOUS
    <2> QED
      BY <2>1
  <1>3. PICK U \in F : \A V \in F : V \subseteq U => V = U
    <2> HIDE DEF F, S
    <2> QED
      BY <1>1, <1>2, SmallestSubset
  <1>4. PICK d \in B : U = 1..d
    BY <1>3
  <1>5. ASSUME NEW c \in B, c < d PROVE FALSE
    <2>1. 1..c \subseteq 1..d /\ 1..c \in F
      BY <1>5
    <2>2. 1..c = 1..d
      BY <1>3, <1>4, <2>1
    <2> QED
      BY <1>5, <2>2
  <1> QED
    BY <1>5

\* The element a sum takes next.
First(s) == CHOOSE x \in s : TRUE

\* g adds up f over every subset of U.
Adds(g, f, U) ==
    g = [s \in SUBSET U |-> IF s = {} THEN 0 ELSE f[First(s)] + g[s \ {First(s)}]]

\* A sum over S is the value at S of some function that adds up f.
LEMMA SumIsChosen ==
    ASSUME NEW f, NEW S
    PROVE SumFunctionOnSet(f, S) = (CHOOSE g : Adds(g, f, S))[S]
  BY DEF SumFunctionOnSet, FoldFunctionOnSet, MapThenFoldSet, Adds, First

\* The next element a sum takes is an element.
LEMMA FirstIn == \A s : s # {} => First(s) \in s
  BY DEF First

\* One step of the recursion.
LEMMA AddsAt ==
    ASSUME NEW f, NEW U, NEW g, Adds(g, f, U), NEW s \in SUBSET U
    PROVE  g[s] = IF s = {} THEN 0 ELSE f[First(s)] + g[s \ {First(s)}]
  BY DEF Adds

\* Two functions that add up f agree wherever both are defined.
LEMMA AddsAgree ==
    ASSUME NEW S, IsFiniteSet(S), NEW f, NEW U \in SUBSET S, NEW V \in SUBSET S,
           NEW g, Adds(g, f, U), NEW h, Adds(h, f, V), NEW s \in SUBSET (U \cap V)
    PROVE  g[s] = h[s]
  <1> DEFINE F == {t \in SUBSET (U \cap V) : g[t] # h[t]}
  <1>1. SUFFICES ASSUME F # {} PROVE FALSE
    OBVIOUS
  <1>2. F \in SUBSET SUBSET S
    OBVIOUS
  <1>3. PICK t \in F : \A r \in F : r \subseteq t => r = t
    <2> HIDE DEF F
    <2> QED
      BY <1>1, <1>2, SmallestSubset
  <1>4. t \in SUBSET U /\ t \in SUBSET V /\ g[t] # h[t]
    OBVIOUS
  <1>5. CASE t = {}
    BY <1>4, <1>5, AddsAt
  <1>6. CASE t # {}
    <2>1. g[t] = f[First(t)] + g[t \ {First(t)}] /\ h[t] = f[First(t)] + h[t \ {First(t)}]
      BY <1>4, <1>6, AddsAt
    <2>2. t \ {First(t)} \subseteq t /\ t \ {First(t)} # t
      BY <1>6, FirstIn
    <2>3. t \ {First(t)} \notin F
      BY <1>3, <2>2
    <2>4. g[t \ {First(t)}] = h[t \ {First(t)}]
      BY <2>2, <2>3
    <2> QED
      BY <1>4, <2>1, <2>4
  <1> QED
    BY <1>5, <1>6

\* A function that adds up f exists: the recursion ends on finite sets.
LEMMA AddsExists ==
    ASSUME NEW S, IsFiniteSet(S), NEW f, NEW X \in SUBSET S
    PROVE  \E g : Adds(g, f, X)
  <1> DEFINE F == {U \in SUBSET S : ~ \E g : Adds(g, f, U)}
  <1>1. SUFFICES ASSUME F # {} PROVE FALSE
    OBVIOUS
  <1>2. F \in SUBSET SUBSET S
    OBVIOUS
  <1>3. PICK U \in F : \A V \in F : V \subseteq U => V = U
    <2> HIDE DEF F
    <2> QED
      BY <1>1, <1>2, SmallestSubset
  <1> DEFINE G(V) == CHOOSE g : Adds(g, f, V)
             rest(s) == s \ {First(s)}
             h == [s \in SUBSET U |-> IF s = {} THEN 0 ELSE f[First(s)] + G(rest(s))[rest(s)]]
  <1>4. ASSUME NEW V \in SUBSET U, V # U PROVE Adds(G(V), f, V)
    <2>1. V \notin F /\ V \in SUBSET S
      BY <1>3, <1>4
    <2>2. \E g : Adds(g, f, V)
      BY <2>1
    <2> HIDE DEF F
    <2> QED
      BY <2>2
  <1>5. ASSUME NEW s \in SUBSET U, s # {} PROVE h[rest(s)] = G(rest(s))[rest(s)]
    <2> DEFINE v == rest(s)
               w == rest(v)
    <2>1. v \in SUBSET U /\ v # U
      BY <1>5, FirstIn
    <2>2. Adds(G(v), f, v)
      BY <1>4, <2>1
    <2>3. CASE v = {}
      <3>1. G(v)[v] = 0
        <4> HIDE DEF G, v
        <4> QED
          BY <2>2, <2>3, AddsAt
      <3>2. h[v] = 0
        BY <2>1, <2>3
      <3> QED
        BY <3>1, <3>2
    <2>4. CASE v # {}
      <3>1. w \in SUBSET U /\ w # U /\ w \in SUBSET v
        BY <2>1, <2>4, FirstIn
      <3>2. Adds(G(w), f, w)
        BY <1>4, <3>1
      <3>3. G(v)[v] = f[First(v)] + G(v)[w]
        <4> HIDE DEF G, v
        <4> QED
          BY <2>2, <2>4, AddsAt
      <3>4. G(v)[w] = G(w)[w]
        <4>1. U \in SUBSET S
          OBVIOUS
        <4>2. v \in SUBSET S /\ w \in SUBSET S /\ w \in SUBSET (v \cap w)
          BY <2>1, <3>1, <4>1
        <4> HIDE DEF G, v, w
        <4> QED
          BY <2>2, <3>2, <4>2, AddsAgree
      <3>5. h[v] = f[First(v)] + G(w)[w]
        <4> HIDE DEF G
        <4> QED
          BY <2>1, <2>4
      <3> QED
        BY <3>3, <3>4, <3>5
    <2> QED
      BY <2>3, <2>4
  <1>6. Adds(h, f, U)
    <2>1. ASSUME NEW s \in SUBSET U
          PROVE  h[s] = IF s = {} THEN 0 ELSE f[First(s)] + h[rest(s)]
      <3>1. h[s] = IF s = {} THEN 0 ELSE f[First(s)] + G(rest(s))[rest(s)]
        <4> HIDE DEF G, rest
        <4> QED
          OBVIOUS
      <3> HIDE DEF h
      <3> QED
        BY <1>5, <3>1
    <2>2. h = [s \in SUBSET U |-> h[s]]
      <3> HIDE DEF G, rest
      <3> QED
        OBVIOUS
    <2>3. h = [s \in SUBSET U |-> IF s = {} THEN 0 ELSE f[First(s)] + h[rest(s)]]
      <3> HIDE DEF h
      <3> QED
        BY <2>1, <2>2
    <2> HIDE DEF h
    <2> QED
      BY <2>3 DEF Adds
  <1>7. U \notin F
    <2> HIDE DEF h
    <2> QED
      BY <1>6
  <1> QED
    BY <1>7

\* A sum is its first element's value and the sum of the others.
LEMMA SumUnfolds ==
    ASSUME NEW S, IsFiniteSet(S), NEW f
    PROVE  SumFunctionOnSet(f, S) =
             IF S = {} THEN 0 ELSE f[First(S)] + SumFunctionOnSet(f, S \ {First(S)})
  <1>r. PICK R : R = S \ {First(S)}
    OBVIOUS
  <1>1. PICK g : g = (CHOOSE x : Adds(x, f, S)) /\ Adds(g, f, S)
    BY AddsExists
  <1>2. PICK h : h = (CHOOSE x : Adds(x, f, R)) /\ Adds(h, f, R)
    BY <1>r, AddsExists
  <1>3. SumFunctionOnSet(f, S) = g[S] /\ SumFunctionOnSet(f, R) = h[R]
    BY <1>1, <1>2, SumIsChosen
  <1>4. g[S] = IF S = {} THEN 0 ELSE f[First(S)] + g[R]
    BY <1>1, <1>r, AddsAt
  <1>5. g[R] = h[R]
    BY <1>1, <1>2, <1>r, AddsAgree
  <1> QED
    BY <1>3, <1>4, <1>5, <1>r

\* The empty sum.
LEMMA SumEmpty == \A f : SumFunctionOnSet(f, {}) = 0
  BY SumUnfolds, FS_EmptySet

\* Integers add up to an integer.
LEMMA SumInt ==
    ASSUME NEW S, IsFiniteSet(S), NEW f, \A x \in S : f[x] \in Int
    PROVE  SumFunctionOnSet(f, S) \in Int
  <1> DEFINE F == {T \in SUBSET S : SumFunctionOnSet(f, T) \notin Int}
  <1>1. SUFFICES ASSUME F # {} PROVE FALSE
    OBVIOUS
  <1>2. PICK U \in F : \A V \in F : V \subseteq U => V = U
    <2>1. F \in SUBSET SUBSET S
      OBVIOUS
    <2> HIDE DEF F
    <2> QED
      BY <1>1, <2>1, SmallestSubset
  <1>3. IsFiniteSet(U)
    BY FS_Subset
  <1>4. U # {}
    BY SumEmpty
  <1>5. SumFunctionOnSet(f, U) = f[First(U)] + SumFunctionOnSet(f, U \ {First(U)})
    BY <1>3, <1>4, SumUnfolds
  <1>6. U \ {First(U)} \notin F /\ First(U) \in S
    BY <1>2, <1>4, FirstIn
  <1> QED
    BY <1>5, <1>6

\* Any element can be taken out of a sum, whichever the recursion takes first.
LEMMA SumRemove ==
    ASSUME NEW S, IsFiniteSet(S), NEW f, \A x \in S : f[x] \in Int, NEW a \in S
    PROVE  SumFunctionOnSet(f, S) = f[a] + SumFunctionOnSet(f, S \ {a})
  <1> DEFINE s(T) == SumFunctionOnSet(f, T)
             F == {T \in SUBSET S : \E x \in T : s(T) # f[x] + s(T \ {x})}
  <1>1. SUFFICES ASSUME F # {} PROVE FALSE
    OBVIOUS
  <1>2. PICK U \in F : \A V \in F : V \subseteq U => V = U
    <2>1. F \in SUBSET SUBSET S
      OBVIOUS
    <2> HIDE DEF F
    <2> QED
      BY <1>1, <2>1, SmallestSubset
  <1> DEFINE b == First(U)
  <1>0. PICK c \in U : s(U) # f[c] + s(U \ {c})
    OBVIOUS
  <1>3. U \in SUBSET S /\ c \in U /\ b \in U
    BY FirstIn
  <1>4. \A T \in SUBSET S : IsFiniteSet(T) /\ s(T) \in Int
    BY FS_Subset, SumInt
  <1>5. s(U) = f[b] + s(U \ {b})
    BY <1>3, <1>4, SumUnfolds
  <1>6. b # c
    BY <1>0, <1>5
  <1>7. s(U \ {b}) = f[c] + s((U \ {b}) \ {c})
    <2>1. U \ {b} \notin F /\ U \ {b} \in SUBSET S /\ c \in U \ {b}
      BY <1>2, <1>3, <1>6
    <2> QED
      BY <2>1
  <1>8. s(U \ {c}) = f[b] + s((U \ {c}) \ {b})
    <2>1. U \ {c} \notin F /\ U \ {c} \in SUBSET S /\ b \in U \ {c}
      BY <1>2, <1>3, <1>6
    <2> QED
      BY <2>1
  <1>9. (U \ {b}) \ {c} = (U \ {c}) \ {b} /\ (U \ {b}) \ {c} \in SUBSET S
    BY <1>3
  <1>10. f[c] \in Int /\ f[b] \in Int /\ s((U \ {b}) \ {c}) \in Int
    BY <1>3, <1>4, <1>9
  <1>11. s((U \ {b}) \ {c}) = s((U \ {c}) \ {b})
    BY <1>9
  <1>12. \A m, n, k \in Int : m + (n + k) = n + (m + k)
    OBVIOUS
  <1>13. f[b] + (f[c] + s((U \ {b}) \ {c})) = f[c] + (f[b] + s((U \ {b}) \ {c}))
    <2> HIDE DEF s, b, F
    <2> QED
      BY <1>10, <1>12
  <1> QED
    BY <1>0, <1>5, <1>7, <1>8, <1>11, <1>13

\* A sum depends on the values at its elements only.
LEMMA SumSame ==
    ASSUME NEW S, IsFiniteSet(S), NEW f, NEW g, \A x \in S : f[x] = g[x]
    PROVE  SumFunctionOnSet(f, S) = SumFunctionOnSet(g, S)
  <1> DEFINE F == {T \in SUBSET S : SumFunctionOnSet(f, T) # SumFunctionOnSet(g, T)}
  <1>1. SUFFICES ASSUME F # {} PROVE FALSE
    OBVIOUS
  <1>2. PICK U \in F : \A V \in F : V \subseteq U => V = U
    <2>1. F \in SUBSET SUBSET S
      OBVIOUS
    <2> HIDE DEF F
    <2> QED
      BY <1>1, <2>1, SmallestSubset
  <1>3. IsFiniteSet(U)
    BY FS_Subset
  <1>4. U # {}
    BY SumEmpty
  <1>5. /\ SumFunctionOnSet(f, U) = f[First(U)] + SumFunctionOnSet(f, U \ {First(U)})
        /\ SumFunctionOnSet(g, U) = g[First(U)] + SumFunctionOnSet(g, U \ {First(U)})
    BY <1>3, <1>4, SumUnfolds
  <1>6. U \ {First(U)} \notin F /\ First(U) \in S /\ U \ {First(U)} \in SUBSET S
    BY <1>2, <1>4, FirstIn
  <1> QED
    BY <1>5, <1>6

\* Numbers of copies add up to a number of copies.
LEMMA SumNat ==
    ASSUME NEW S, IsFiniteSet(S), NEW f, \A x \in S : f[x] \in Nat
    PROVE  SumFunctionOnSet(f, S) \in Nat
  <1> DEFINE F == {T \in SUBSET S : SumFunctionOnSet(f, T) \notin Nat}
  <1>1. SUFFICES ASSUME F # {} PROVE FALSE
    OBVIOUS
  <1>2. PICK U \in F : \A V \in F : V \subseteq U => V = U
    <2>1. F \in SUBSET SUBSET S
      OBVIOUS
    <2> HIDE DEF F
    <2> QED
      BY <1>1, <2>1, SmallestSubset
  <1>3. IsFiniteSet(U)
    BY FS_Subset
  <1>4. U # {}
    BY SumEmpty
  <1>5. SumFunctionOnSet(f, U) = f[First(U)] + SumFunctionOnSet(f, U \ {First(U)})
    BY <1>3, <1>4, SumUnfolds
  <1>6. U \ {First(U)} \notin F /\ First(U) \in S
    BY <1>2, <1>4, FirstIn
  <1> QED
    BY <1>5, <1>6

\* Elements of value 0 do not count.
LEMMA SumZeros ==
    ASSUME NEW S, IsFiniteSet(S), NEW f, \A x \in S : f[x] \in Int,
           NEW T \in SUBSET S, \A x \in S \ T : f[x] = 0
    PROVE  SumFunctionOnSet(f, S) = SumFunctionOnSet(f, T)
  <1> DEFINE F == {X \in SUBSET S : T \subseteq X /\ SumFunctionOnSet(f, X) # SumFunctionOnSet(f, T)}
  <1>1. SUFFICES ASSUME F # {} PROVE FALSE
    OBVIOUS
  <1>2. PICK U \in F : \A V \in F : V \subseteq U => V = U
    <2>1. F \in SUBSET SUBSET S
      OBVIOUS
    <2> HIDE DEF F
    <2> QED
      BY <1>1, <2>1, SmallestSubset
  <1>3. /\ IsFiniteSet(U) /\ U \in SUBSET S /\ T \subseteq U
        /\ SumFunctionOnSet(f, U) # SumFunctionOnSet(f, T)
    BY FS_Subset
  <1>4. PICK a \in U : a \notin T
    BY <1>3
  <1>5. SumFunctionOnSet(f, U) = f[a] + SumFunctionOnSet(f, U \ {a}) /\ f[a] = 0
    BY <1>3, <1>4, SumRemove
  <1>6. SumFunctionOnSet(f, U \ {a}) \in Int
    BY <1>3, FS_Subset, SumInt
  <1>7. U \ {a} \in F
    BY <1>3, <1>4, <1>5, <1>6
  <1> QED
    BY <1>2, <1>4, <1>7

\* A sum after one element came, went or changed its value.
LEMMA SumChanged ==
    ASSUME NEW S, IsFiniteSet(S), NEW f, \A x \in S : f[x] \in Int,
           NEW T, IsFiniteSet(T), NEW g, \A x \in T : g[x] \in Int,
           NEW a, S \ {a} = T \ {a}, \A x \in S \ {a} : g[x] = f[x]
    PROVE  SumFunctionOnSet(g, T) = SumFunctionOnSet(f, S)
                                    + (IF a \in T THEN g[a] ELSE 0)
                                    - (IF a \in S THEN f[a] ELSE 0)
  <1> DEFINE s == SumFunctionOnSet(f, S \ {a})
             t == SumFunctionOnSet(g, T \ {a})
  <1>1. IsFiniteSet(S \ {a}) /\ IsFiniteSet(T \ {a})
    BY FS_Subset
  <1>2. s = t /\ s \in Int
    BY <1>1, SumSame, SumInt
  <1>3. SumFunctionOnSet(f, S) = (IF a \in S THEN f[a] ELSE 0) + s
    <2>1. CASE a \in S
      BY <2>1, SumRemove
    <2>2. CASE a \notin S
      <3>1. S \ {a} = S
        BY <2>2
      <3>2. SumFunctionOnSet(f, S) = s
        BY <3>1
      <3> HIDE DEF s, t
      <3> QED
        BY <2>2, <3>2, <1>2
    <2> QED
      BY <2>1, <2>2
  <1>4. SumFunctionOnSet(g, T) = (IF a \in T THEN g[a] ELSE 0) + t
    <2>1. CASE a \in T
      BY <2>1, SumRemove
    <2>2. CASE a \notin T
      <3>1. T \ {a} = T
        BY <2>2
      <3>2. SumFunctionOnSet(g, T) = t
        BY <3>1
      <3> HIDE DEF s, t
      <3> QED
        BY <2>2, <3>2, <1>2
    <2> QED
      BY <2>1, <2>2
  <1> HIDE DEF s, t
  <1> QED
    BY <1>2, <1>3, <1>4

-----------------------------------------------------------------------------
(* The tree *)

\* Among nodes there is one nearest to the roots, and one farthest from them:
\* induction down the tree, and up, as facts about sets of nodes.
LEMMA Topmost ==
    ASSUME NEW B \in SUBSET Nodes, B # {}
    PROVE  \E n \in B : \A m \in B : Rank[n] <= Rank[m]
  <1> DEFINE ranks == {Rank[n] : n \in B}
  <1>1. ranks \in SUBSET (1..6) /\ ranks # {} /\ 6 \in Nat
    BY RankAssumption
  <1>2. PICK k \in ranks : \A l \in ranks : k <= l
    <2> HIDE DEF ranks
    <2> QED
      BY <1>1, SmallestNumber
  <1> QED
    BY <1>2

LEMMA Bottommost ==
    ASSUME NEW B \in SUBSET Nodes, B # {}
    PROVE  \E n \in B : \A m \in B : Rank[m] <= Rank[n]
  <1> DEFINE depths == {7 - Rank[n] : n \in B}
  <1>1. depths \in SUBSET (1..6) /\ depths # {} /\ 6 \in Nat
    BY RankAssumption
  <1>2. PICK k \in depths : \A l \in depths : k <= l
    <2> HIDE DEF depths
    <2> QED
      BY <1>1, SmallestNumber
  <1>3. PICK n \in B : k = 7 - Rank[n]
    BY <1>2
  <1>4. \A m \in B : 7 - Rank[n] <= 7 - Rank[m] /\ Rank[m] \in Int /\ Rank[n] \in Int
    BY <1>2, <1>3, RankAssumption
  <1> QED
    BY <1>4

LEMMA ParentAbove ==
    ASSUME NEW n \in Nodes, Parent[n] # Null
    PROVE  Parent[n] \in Nodes /\ Rank[Parent[n]] = Rank[n] - 1 /\ Rank[n] \in Int
  BY LevelAssumption, RankAssumption

\* What holds of a node when it holds of its parent holds of all nodes.
LEMMA DownTheTree ==
    ASSUME NEW S \in SUBSET Nodes,
           \A n \in Nodes : Parent[n] = Null \/ Parent[n] \in S => n \in S
    PROVE  S = Nodes
  <1> SUFFICES ASSUME Nodes \ S # {}
               PROVE  FALSE
    OBVIOUS
  <1>1. PICK n \in Nodes \ S : \A m \in Nodes \ S : Rank[n] <= Rank[m]
    BY Topmost
  <1>2. Parent[n] \in Nodes \ S /\ Rank[Parent[n]] = Rank[n] - 1 /\ Rank[n] \in Int
    BY ParentAbove
  <1> QED
    BY <1>1, <1>2

\* What holds of a node when it holds of its children does, too.
LEMMA UpTheTree ==
    ASSUME NEW S \in SUBSET Nodes,
           \A n \in Nodes : (\A c \in Nodes : Parent[c] = n => c \in S) => n \in S
    PROVE  S = Nodes
  <1> SUFFICES ASSUME Nodes \ S # {}
               PROVE  FALSE
    OBVIOUS
  <1>1. PICK n \in Nodes \ S : \A m \in Nodes \ S : Rank[m] <= Rank[n]
    BY Bottommost
  <1>2. PICK c \in Nodes \ S : Parent[c] = n
    OBVIOUS
  <1>3. Rank[n] = Rank[c] - 1 /\ Rank[c] \in Int
    BY <1>2, ParentAbove, NullAssumption
  <1> QED
    BY <1>1, <1>2, <1>3

\* The walk up is well defined: the nodes on it are the smallest set that has
\* the parent of n and of every node in it.
LEMMA AncestorsUnfold ==
    \A n \in Nodes :
        Ancestors[n] = IF Parent[n] = Null THEN {} ELSE {Parent[n]} \cup Ancestors[Parent[n]]
  <1> DEFINE Walk(S) == \A m \in S : Parent[m] = Null \/ Parent[m] \in S
             Starts(n, S) == Parent[n] = Null \/ Parent[n] \in S
             Up(n) == {m \in Nodes : \A S \in SUBSET Nodes : Walk(S) /\ Starts(n, S) => m \in S}
             anc == [n \in Nodes |-> Up(n)]
             body(f) == [n \in Nodes |-> IF Parent[n] = Null THEN {}
                                         ELSE {Parent[n]} \cup f[Parent[n]]]
  <1>1. ASSUME NEW n \in Nodes, Parent[n] = Null
        PROVE  Up(n) = {}
    <2>1. Walk({}) /\ Starts(n, {}) /\ {} \in SUBSET Nodes
      BY <1>1
    <2> QED
      BY <2>1
  <1>2. ASSUME NEW n \in Nodes, Parent[n] # Null
        PROVE  Up(n) = {Parent[n]} \cup Up(Parent[n])
    <2>1. PICK p \in Nodes : p = Parent[n]
      BY <1>2, ParentAssumption
    <2>2. p \in Up(n)
      BY <1>2, <2>1
    <2>3. Up(p) \subseteq Up(n)
      BY <1>2, <2>1
    <2>4. Walk({p} \cup Up(p))
      BY ParentAssumption
    <2>5. Starts(n, {p} \cup Up(p)) /\ {p} \cup Up(p) \in SUBSET Nodes
      BY <2>1
    <2>6. Up(n) \subseteq {p} \cup Up(p)
      <3> HIDE DEF Walk, Starts
      <3> QED
        BY <2>4, <2>5
    <2> QED
      BY <2>1, <2>2, <2>3, <2>6
  <1>3. anc = body(anc)
    <2>1. ASSUME NEW n \in Nodes
          PROVE  anc[n] = IF Parent[n] = Null THEN {} ELSE {Parent[n]} \cup anc[Parent[n]]
      <3> HIDE DEF Up
      <3>1. CASE Parent[n] = Null
        BY <1>1, <3>1
      <3>2. CASE Parent[n] # Null
        BY <1>2, <3>2, ParentAssumption
      <3> QED
        BY <3>1, <3>2
    <2> HIDE DEF Up
    <2> QED
      BY <2>1
  <1>4. Ancestors = CHOOSE f : f = body(f)
    BY DEF Ancestors
  <1>5. Ancestors = body(Ancestors)
    <2> HIDE DEF body, anc
    <2> QED
      BY <1>3, <1>4
  <1> QED
    BY <1>5

\* The walk up meets nodes of ever higher levels, and so never the one it
\* began at.
LEMMA AncestorsAbove ==
    \A n \in Nodes : \A m \in Ancestors[n] : m \in Nodes /\ Rank[m] < Rank[n]
  <1> DEFINE S == {n \in Nodes : \A m \in Ancestors[n] : m \in Nodes /\ Rank[m] < Rank[n]}
  <1>1. ASSUME NEW n \in Nodes, Parent[n] = Null \/ Parent[n] \in S
        PROVE  n \in S
    <2>1. CASE Parent[n] = Null
      BY <2>1, AncestorsUnfold
    <2>2. CASE Parent[n] # Null
      <3>1. PICK p \in S : p = Parent[n]
        BY <1>1, <2>2
      <3>2. Ancestors[n] = {p} \cup Ancestors[p]
        BY <2>2, <3>1, AncestorsUnfold
      <3>3. Rank[p] = Rank[n] - 1 /\ Rank[n] \in Int
        BY <2>2, <3>1, ParentAbove
      <3>4. \A m \in Nodes : Rank[m] \in Int
        BY RankAssumption
      <3> QED
        BY <3>1, <3>2, <3>3, <3>4
    <2> QED
      BY <2>1, <2>2
  <1>2. S = Nodes
    <2> HIDE DEF S
    <2>1. S \in SUBSET Nodes
      BY DEF S
    <2> QED
      BY <1>1, <2>1, DownTheTree
  <1> QED
    BY <1>2

\* What is above a node on the walk is on the walk.
LEMMA AncestorsTransitive ==
    \A n \in Nodes : \A m \in Ancestors[n] : Ancestors[m] \subseteq Ancestors[n]
  <1> DEFINE S == {n \in Nodes : \A m \in Ancestors[n] : Ancestors[m] \subseteq Ancestors[n]}
  <1>1. ASSUME NEW n \in Nodes, Parent[n] = Null \/ Parent[n] \in S
        PROVE  n \in S
    BY <1>1, AncestorsUnfold
  <1>2. S = Nodes
    <2> HIDE DEF S
    <2>1. S \in SUBSET Nodes
      BY DEF S
    <2> QED
      BY <1>1, <2>1, DownTheTree
  <1> QED
    BY <1>2

\* Two nodes on the walk are one above the other.
LEMMA AncestorsInLine ==
    \A n \in Nodes : \A a, b \in Ancestors[n] :
        a = b \/ a \in Ancestors[b] \/ b \in Ancestors[a]
  <1> DEFINE InLine(a, b) == a = b \/ a \in Ancestors[b] \/ b \in Ancestors[a]
             S == {n \in Nodes : \A a, b \in Ancestors[n] : InLine(a, b)}
  <1>1. ASSUME NEW n \in Nodes, Parent[n] = Null \/ Parent[n] \in S
        PROVE  n \in S
    BY <1>1, AncestorsUnfold
  <1>2. S = Nodes
    <2> HIDE DEF S
    <2>1. S \in SUBSET Nodes
      BY DEF S
    <2> QED
      BY <1>1, <2>1, DownTheTree
  <1> QED
    BY <1>2

\* The walk to m comes through a child of m.
LEMMA ChildOnTheWay ==
    \A n \in Nodes : \A m \in Ancestors[n] :
        Parent[n] = m \/ \E c \in Ancestors[n] : Parent[c] = m
  <1> DEFINE S == {n \in Nodes : \A m \in Ancestors[n] :
                      Parent[n] = m \/ \E c \in Ancestors[n] : Parent[c] = m}
  <1>1. ASSUME NEW n \in Nodes, Parent[n] = Null \/ Parent[n] \in S
        PROVE  n \in S
    BY <1>1, AncestorsUnfold
  <1>2. S = Nodes
    <2> HIDE DEF S
    <2>1. S \in SUBSET Nodes
      BY DEF S
    <2> QED
      BY <1>1, <2>1, DownTheTree
  <1> QED
    BY <1>2

\* The nodes of S below n with nothing outside S between.
Reached(n, S) ==
    {to \in S : n \in Ancestors[to] /\ \A m \in Ancestors[to] : n \in Ancestors[m] => m \in S}

\* They are the children of n in S, and what lies below these in turn.
LEMMA ReachedByStep ==
    ASSUME NEW n \in Nodes, NEW S \in SUBSET Nodes
    PROVE  Reached(n, S) = Children(n, S) \cup UNION {Reached(c, S) : c \in Children(n, S)}
  <1>1. ASSUME NEW to \in Children(n, S)
        PROVE  to \in Reached(n, S)
    <2>1. to \in S /\ to \in Nodes /\ Parent[to] = n
      BY <1>1 DEF Children
    <2>2. Ancestors[to] = {n} \cup Ancestors[n]
      BY <2>1, AncestorsUnfold, NullAssumption
    <2>3. ASSUME NEW m \in Ancestors[to], n \in Ancestors[m]
          PROVE  FALSE
      <3>1. m \in Nodes /\ Rank[n] < Rank[m]
        BY <2>1, <2>3, AncestorsAbove
      <3>2. m = n \/ Rank[m] < Rank[n]
        BY <2>2, <2>3, AncestorsAbove
      <3> QED
        BY <3>1, <3>2, RankAssumption
    <2> QED
      BY <2>1, <2>2, <2>3 DEF Reached
  <1>2. ASSUME NEW c \in Children(n, S), NEW to \in Reached(c, S)
        PROVE  to \in Reached(n, S)
    <2>1. /\ c \in S /\ c \in Nodes /\ Parent[c] = n
          /\ to \in S /\ to \in Nodes /\ c \in Ancestors[to]
      BY <1>2 DEF Children, Reached
    <2>2. Ancestors[c] = {n} \cup Ancestors[n]
      BY <2>1, AncestorsUnfold, NullAssumption
    <2>3. n \in Ancestors[to]
      BY <2>1, <2>2, AncestorsTransitive
    <2>4. ASSUME NEW m \in Ancestors[to], n \in Ancestors[m]
          PROVE  m \in S
      <3>1. m \in Nodes /\ Rank[n] < Rank[m]
        BY <2>1, <2>4, AncestorsAbove
      <3>2. m \notin Ancestors[c]
        <4>1. m \in Ancestors[c] => m = n \/ Rank[m] < Rank[n]
          BY <2>2, AncestorsAbove
        <4> QED
          BY <3>1, <4>1, RankAssumption
      <3>3. m = c \/ c \in Ancestors[m]
        BY <2>1, <2>4, <3>2, AncestorsInLine
      <3> QED
        BY <1>2, <2>1, <2>4, <3>3 DEF Reached
    <2> QED
      BY <2>1, <2>3, <2>4 DEF Reached
  <1>3. ASSUME NEW to \in Reached(n, S), to \notin Children(n, S)
        PROVE  \E c \in Children(n, S) : to \in Reached(c, S)
    <2>1. /\ to \in S /\ to \in Nodes /\ n \in Ancestors[to]
          /\ \A m \in Ancestors[to] : n \in Ancestors[m] => m \in S
      BY <1>3 DEF Reached
    <2>2. PICK c \in Ancestors[to] : Parent[c] = n
      BY <1>3, <2>1, ChildOnTheWay DEF Children
    <2>3. c \in Nodes
      BY <2>1, <2>2, AncestorsAbove
    <2>4. n \in Ancestors[c]
      BY <2>2, <2>3, AncestorsUnfold, NullAssumption
    <2>5. c \in Children(n, S)
      BY <2>1, <2>2, <2>4 DEF Children
    <2>6. ASSUME NEW m \in Ancestors[to], c \in Ancestors[m]
          PROVE  m \in S
      <3>1. m \in Nodes
        BY <2>1, <2>6, AncestorsAbove
      <3> QED
        BY <2>1, <2>4, <2>6, <3>1, AncestorsTransitive
    <2> QED
      BY <2>1, <2>2, <2>5, <2>6 DEF Reached
  <1> QED
    BY <1>1, <1>2, <1>3

\* The walk down through S finds exactly these.
LEMMA WalkDown ==
    ASSUME NEW S \in SUBSET Nodes, NEW n \in Nodes
    PROVE  collectDescendants(n, S) = Reached(n, S)
  <1> DEFINE body(f) == [m \in Nodes |-> Children(m, S) \cup UNION {f[c] : c \in Children(m, S)}]
             reached == [m \in Nodes |-> Reached(m, S)]
             collect == CHOOSE f : f = body(f)
  <1>1. collectDescendants(n, S) = collect[n]
    BY DEF collectDescendants
  <1>2. \A m \in Nodes : Children(m, S) \subseteq Nodes
    BY DEF Children
  <1>3. reached = body(reached)
    <2>1. ASSUME NEW m \in Nodes
          PROVE  reached[m] = Children(m, S) \cup UNION {reached[c] : c \in Children(m, S)}
      <3>1. Reached(m, S) = Children(m, S) \cup UNION {Reached(c, S) : c \in Children(m, S)}
        BY ReachedByStep
      <3>2. \A c \in Nodes : reached[c] = Reached(c, S)
        OBVIOUS
      <3> HIDE DEF reached
      <3>3. {reached[c] : c \in Children(m, S)} = {Reached(c, S) : c \in Children(m, S)}
        BY <1>2, <3>2
      <3> QED
        BY <3>1, <3>2, <3>3
    <2> QED
      BY <2>1
  <1>4. collect = body(collect)
    <2> HIDE DEF body, reached
    <2> QED
      BY <1>3
  <1> DEFINE Same == {m \in Nodes : collect[m] = reached[m]}
  <1>5. ASSUME NEW m \in Nodes, \A c \in Nodes : Parent[c] = m => c \in Same
        PROVE  m \in Same
    <2>1. collect[m] = Children(m, S) \cup UNION {collect[c] : c \in Children(m, S)}
      <3> HIDE DEF collect
      <3> QED
        BY <1>4
    <2>2. reached[m] = Children(m, S) \cup UNION {reached[c] : c \in Children(m, S)}
      <3> HIDE DEF reached
      <3> QED
        BY <1>3
    <2>3. \A c \in Children(m, S) : collect[c] = reached[c]
      BY <1>2, <1>5 DEF Children
    <2> HIDE DEF collect, reached
    <2> QED
      BY <2>1, <2>2, <2>3
  <1>6. Same = Nodes
    <2> HIDE DEF Same
    <2>1. Same \in SUBSET Nodes
      BY DEF Same
    <2> QED
      BY <1>5, <2>1, UpTheTree
  <1> QED
    BY <1>1, <1>6

\* What getMyDispatchContext offers a sender is what create and forward accept
\* as a destination, less what lies behind an inactive node: in every tree, and
\* whatever nodes of it are active.
THEOREM OfferedDestinations ==
    \A from \in Nodes \cup {Null}, active \in SUBSET Nodes :
        OfferedThroughActive(from, active) /\ OfferedIsAccepted(from, active)
  <1> SUFFICES ASSUME NEW from \in Nodes \cup {Null}, NEW active \in SUBSET Nodes
               PROVE  OfferedThroughActive(from, active) /\ OfferedIsAccepted(from, active)
    OBVIOUS
  <1>1. CASE from = Null
    <2>1. AllowedDestinations(from, active) = {n \in active : Rank[n] = PrantRank}
      BY <1>1 DEF AllowedDestinations
    <2>2. \A n \in Nodes : Rank[n] = PrantRank => IsRoot(n)
      BY LevelAssumption DEF IsRoot, PrantRank
    <2> QED
      BY <1>1, <2>1, <2>2 DEF OfferedThroughActive, OfferedIsAccepted
  <1>2. CASE from # Null /\ Rank[from] = GramRank
    BY <1>2 DEF OfferedThroughActive, OfferedIsAccepted, AllowedDestinations
  <1>3. CASE from # Null /\ Rank[from] # GramRank
    <2>1. AllowedDestinations(from, active) = Reached(from, active)
      BY <1>3, WalkDown DEF AllowedDestinations
    <2> QED
      BY <1>3, <2>1 DEF OfferedThroughActive, OfferedIsAccepted, Reached, InBranch
  <1> QED
    BY <1>1, <1>2, <1>3

-----------------------------------------------------------------------------
(* One write, whatever the other requests have read *)

\* An idle slot relies on nothing.
LEMMA IdleIsSound == RequestSound(Idle) /\ Idle \in Request
  BY DEF RequestSound, Idle, PlacingPc, Request

\* A step that leaves the tables alone and gives one slot a sound request.
LEMMA SlotStep ==
    ASSUME CustodyInv, NEW p \in Procs, NEW r \in Request, RequestSound(r),
           req' = [req EXCEPT ![p] = r], available' \in [Procs -> Nat],
           UNCHANGED <<issueStatus, dispatches>>
    PROVE  CustodyInv'
  <1>1. TypeOK'
    BY DEF CustodyInv, TypeOK
  <1>2. CustodyRecorded' /\ Provenance' /\ ForwardedWasSent' /\ OnlyPublishedIssues'
    BY DEF CustodyInv, CustodyRecorded, Provenance, ForwardedWasSent, HasDownstream,
           OnlyPublishedIssues, Ids
  <1>3. ASSUME NEW q \in Procs PROVE RequestSound(req[q])'
    <2>1. req'[q] = r \/ req'[q] = req[q]
      BY DEF CustodyInv, TypeOK
    <2>2. RequestSound(req'[q])
      BY <2>1 DEF CustodyInv
    <2> QED
      BY <2>2 DEF RequestSound, PlacingSound, ReceiveSound, CompleteSound, Delivered,
                  HasDownstream, Ids
  <1> QED
    BY <1>1, <1>2, <1>3 DEF CustodyInv

\* A request that is not the one writing stays sound while the table grows.
LEMMA OthersSurvive ==
    ASSUME CustodyInv, Grows, dispatches' \in Seq(DispatchEntry), UNCHANGED issueStatus,
           NEW r \in Request, RequestSound(r)
    PROVE  RequestSound(r)'
  <1> USE DEF Ids
  <1>1. \A d \in Ids : /\ d \in Ids'
                       /\ dispatches'[d].issue = dispatches[d].issue
                       /\ dispatches'[d].from = dispatches[d].from
                       /\ dispatches'[d].to = dispatches[d].to
                       /\ dispatches'[d].quantity = dispatches[d].quantity
                       /\ dispatches[d].received # NotReceived
                            => dispatches'[d].received # NotReceived
    BY DEF Grows
  <1>2. r.pc \in PlacingPc => PlacingSound(r)'
    BY <1>1 DEF RequestSound, PlacingSound, Delivered
  <1>3. r.pc = "receive" => ReceiveSound(r)'
    BY <1>1 DEF RequestSound, ReceiveSound, PlacingPc
  <1>4. r.pc = "complete" => CompleteSound(r)'
    BY <1>1 DEF RequestSound, CompleteSound, HasDownstream, PlacingPc
  <1> QED
    BY <1>1, <1>2, <1>3, <1>4 DEF RequestSound

\* A write leaves every request sound.
LEMMA WriteKeepsRequests ==
    ASSUME CustodyInv, Grows, dispatches' \in Seq(DispatchEntry), UNCHANGED issueStatus,
           NEW p \in Procs, req' = [req EXCEPT ![p] = Idle]
    PROVE  /\ req' \in [Procs -> Request]
           /\ \A q \in Procs : RequestSound(req[q])'
  <1>1. req' \in [Procs -> Request]
    BY IdleIsSound DEF CustodyInv, TypeOK
  <1>2. ASSUME NEW q \in Procs PROVE RequestSound(req[q])'
    <2>1. req'[q] = Idle \/ req'[q] = req[q]
      BY DEF CustodyInv, TypeOK
    <2>2. RequestSound(req'[q]) /\ req'[q] \in Request
      BY <2>1, IdleIsSound DEF CustodyInv, TypeOK
    <2>3. PICK r \in Request : r = req'[q] /\ RequestSound(r)
      BY <2>2
    <2>4. RequestSound(r)'
      BY <2>3, OthersSurvive
    <2> QED
      BY <2>3, <2>4 DEF RequestSound, PlacingSound, ReceiveSound, CompleteSound,
                        Delivered, HasDownstream, Ids
  <1> QED
    BY <1>1, <1>2

\* The write of every handler but create and forward: one entry is replaced,
\* its route and quantity stay, its receipt is not erased.
LEMMA EntryWritten ==
    ASSUME CustodyInv, NEW p \in Procs, NEW id \in Ids, NEW e \in DispatchEntry,
           req' = [req EXCEPT ![p] = Idle], UNCHANGED <<issueStatus, available>>,
           dispatches' = [dispatches EXCEPT ![id] = e],
           e.issue = dispatches[id].issue, e.from = dispatches[id].from,
           e.to = dispatches[id].to, e.quantity = dispatches[id].quantity,
           dispatches[id].received # NotReceived => e.received # NotReceived,
           Recorded(e),
           ClaimsOnward(e) => HasDownstream(dispatches[id])
    PROVE  CustodyInv' /\ Grows
  <1> USE DEF Ids
  <1>1. dispatches \in Seq(DispatchEntry)
    BY DEF CustodyInv, TypeOK
  <1>2. /\ dispatches' \in Seq(DispatchEntry)
        /\ Ids' = Ids
        /\ dispatches'[id] = e
        /\ \A d \in Ids : d # id => dispatches'[d] = dispatches[d]
    BY <1>1
  <1>3. Grows
    BY <1>1, <1>2 DEF Grows
  <1>4. TypeOK' /\ \A q \in Procs : RequestSound(req[q])'
    BY <1>2, <1>3, WriteKeepsRequests DEF CustodyInv, TypeOK
  <1>5. CustodyRecorded'
    BY <1>2 DEF CustodyInv, CustodyRecorded, Recorded
  <1>6. Provenance'
    BY <1>2, <1>3 DEF CustodyInv, Provenance, Grows
  <1>7. ForwardedWasSent'
    BY <1>2, <1>3 DEF CustodyInv, ForwardedWasSent, ClaimsOnward, HasDownstream, Grows
  <1>8. OnlyPublishedIssues'
    BY <1>2, <1>3 DEF CustodyInv, OnlyPublishedIssues, Grows
  <1> QED
    BY <1>3, <1>4, <1>5, <1>6, <1>7, <1>8 DEF CustodyInv

\* The table after an insert: one entry more, and at most the source entry
\* marked.
LEMMA InsertedTable ==
    ASSUME CustodyInv, NEW p \in Procs, Insert(p)
    PROVE  /\ dispatches \in Seq(DispatchEntry) /\ dispatches' \in Seq(DispatchEntry)
           /\ req[p] \in Placing /\ PlacingSound(req[p]) /\ req[p].pc = "insert"
           /\ req[p].entry \in DispatchEntry /\ req[p].source \in Nat
           /\ Len(dispatches') = Len(dispatches) + 1
           /\ dispatches'[Len(dispatches) + 1] = req[p].entry
           /\ \A d \in Ids : \/ dispatches'[d] = dispatches[d]
                             \/ /\ d = req[p].source /\ req[p].source # 0
                                /\ req[p].seen # "Forwarded"
                                /\ dispatches'[d] = [dispatches[d] EXCEPT !.status = "Forwarded"]
           /\ req[p].source # 0 /\ req[p].seen # "Forwarded" =>
                  dispatches'[req[p].source]
                    = [dispatches[req[p].source] EXCEPT !.status = "Forwarded"]
  <1> USE DEF Ids
  <1> DEFINE r == req[p]
             n == Len(dispatches)
  <1>1. /\ dispatches \in Seq(DispatchEntry)
        /\ req \in [Procs -> Request]
        /\ r.pc = "insert"
        /\ dispatches' = Placed(r)
        /\ req' = [req EXCEPT ![p] = Idle]
        /\ UNCHANGED <<issueStatus, available>>
    BY DEF CustodyInv, TypeOK, Insert, Commit
  <1>2. r \in Placing
    BY <1>1 DEF Request, Idle
  <1>3. PlacingSound(r)
    BY <1>1 DEF CustodyInv, RequestSound, PlacingPc
  <1>4. r.entry \in DispatchEntry /\ r.source \in Nat
    BY <1>2 DEF Placing
  <1>5. CASE r.source = 0 \/ r.seen = "Forwarded"
    BY <1>1, <1>2, <1>3, <1>4, <1>5 DEF Placed
  <1>6. CASE ~(r.source = 0 \/ r.seen = "Forwarded")
    <2> DEFINE marked == [dispatches EXCEPT ![r.source].status = "Forwarded"]
    <2>1. r.source \in Ids
      BY <1>3, <1>6 DEF PlacingSound
    <2>2. marked \in Seq(DispatchEntry) /\ Len(marked) = n
      <3> DEFINE e == [dispatches[r.source] EXCEPT !.status = "Forwarded"]
      <3>1. dispatches[r.source] \in DispatchEntry
        BY <1>1, <2>1
      <3>2. e \in DispatchEntry
        BY <3>1 DEF DispatchEntry, Status, Received
      <3>3. marked = [dispatches EXCEPT ![r.source] = e]
        OBVIOUS
      <3> HIDE DEF e, marked
      <3> QED
        BY <1>1, <2>1, <3>2, <3>3
    <2>3. dispatches' = Append(marked, r.entry)
      BY <1>1, <1>6 DEF Placed
    <2> HIDE DEF marked
    <2>4. /\ dispatches' \in Seq(DispatchEntry)
          /\ Len(dispatches') = n + 1
          /\ dispatches'[n + 1] = r.entry
          /\ \A d \in Ids : dispatches'[d] = marked[d]
      BY <1>1, <1>4, <2>2, <2>3
    <2> QED
      BY <1>1, <1>2, <1>3, <1>4, <1>6, <2>1, <2>4 DEF marked
  <1> QED
    BY <1>5, <1>6

\* The insert of create, and forward's transaction.
LEMMA InsertPreserves ==
    ASSUME CustodyInv, NEW p \in Procs, Insert(p)
    PROVE  CustodyInv' /\ Grows
  <1> USE DEF Ids
  <1> DEFINE r == req[p]
             n == Len(dispatches)
  <1>1. /\ dispatches \in Seq(DispatchEntry)
        /\ req \in [Procs -> Request]
        /\ r.pc = "insert"
        /\ dispatches' = Placed(r)
        /\ req' = [req EXCEPT ![p] = Idle]
        /\ UNCHANGED <<issueStatus, available>>
    BY DEF CustodyInv, TypeOK, Insert, Commit
  <1>2. r \in Placing
    BY <1>1 DEF Request, Idle
  <1>3. PlacingSound(r)
    BY <1>1 DEF CustodyInv, RequestSound, PlacingPc
  <1>4. r.entry \in DispatchEntry /\ r.source \in Nat
    BY <1>2 DEF Placing
  <1>5. /\ dispatches' \in Seq(DispatchEntry)
        /\ Len(dispatches') = n + 1
        /\ dispatches'[n + 1] = r.entry
        /\ \A d \in Ids : \/ dispatches'[d] = dispatches[d]
                          \/ /\ d = r.source /\ r.source # 0
                             /\ dispatches'[d] = [dispatches[d] EXCEPT !.status = "Forwarded"]
    BY InsertedTable
  <1>6. Ids' = Ids \cup {n + 1} /\ Ids = 1..n /\ n \in Nat
    BY <1>1, <1>5
  <1> HIDE DEF n, r, Ids
  <1>7. \A d \in Ids : /\ d \in Ids'
                       /\ dispatches'[d].issue = dispatches[d].issue
                       /\ dispatches'[d].from = dispatches[d].from
                       /\ dispatches'[d].to = dispatches[d].to
                       /\ dispatches'[d].quantity = dispatches[d].quantity
                       /\ dispatches'[d].received = dispatches[d].received
                       /\ \/ dispatches'[d].status = dispatches[d].status
                          \/ d = r.source /\ r.source # 0 /\ dispatches'[d].status = "Forwarded"
                       /\ dispatches[d] \in DispatchEntry
    <2> TAKE d \in Ids
    <2>1. dispatches[d] \in DispatchEntry /\ d \in Ids'
      BY <1>1, <1>6 DEF Ids
    <2>2. CASE dispatches'[d] = dispatches[d]
      BY <2>1, <2>2
    <2>3. CASE /\ d = r.source /\ r.source # 0
               /\ dispatches'[d] = [dispatches[d] EXCEPT !.status = "Forwarded"]
      BY <2>1, <2>3 DEF DispatchEntry
    <2> QED
      BY <1>5, <2>2, <2>3
  <1>8. Grows
    BY <1>7 DEF Grows, Ids
  <1>9. TypeOK' /\ \A q \in Procs : RequestSound(req[q])'
    BY <1>1, <1>5, <1>8, WriteKeepsRequests DEF CustodyInv, TypeOK
  <1>10. CustodyRecorded'
    <2>1. Recorded(r.entry)
      BY <1>3, <1>4 DEF PlacingSound, Recorded, Received, DispatchEntry, NotReceived
    <2>2. ASSUME NEW d \in Ids PROVE Recorded(dispatches'[d])
      <3>1. Recorded(dispatches[d])
        BY DEF CustodyInv, CustodyRecorded
      <3>2. d = r.source /\ r.source # 0 => dispatches[d].received # NotReceived
        BY <1>3 DEF PlacingSound
      <3> QED
        BY <1>7, <3>1, <3>2 DEF Recorded, Received
    <2> QED
      BY <2>1, <2>2, <1>5, <1>6 DEF CustodyRecorded, Recorded
  <1>11. Provenance'
    <2>1. ASSUME NEW d \in Ids, dispatches'[d].from # Null, ~IsRoot(dispatches'[d].from)
          PROVE  \E u \in Ids' : /\ u < d
                                 /\ dispatches'[u].issue = dispatches'[d].issue
                                 /\ dispatches'[u].to = dispatches'[d].from
                                 /\ dispatches'[u].received # NotReceived
      BY <2>1, <1>7 DEF CustodyInv, Provenance
    <2>2. ASSUME r.entry.from # Null, ~IsRoot(r.entry.from)
          PROVE  \E u \in Ids' : /\ u < n + 1
                                 /\ dispatches'[u].issue = r.entry.issue
                                 /\ dispatches'[u].to = r.entry.from
                                 /\ dispatches'[u].received # NotReceived
      <3>1. Delivered(r.entry.issue, r.entry.from)
        BY <2>2, <1>1, <1>3 DEF PlacingSound
      <3>2. PICK u \in Ids : /\ dispatches[u].issue = r.entry.issue
                             /\ dispatches[u].to = r.entry.from
                             /\ dispatches[u].received # NotReceived
        BY <3>1 DEF Delivered
      <3> QED
        BY <3>2, <1>6, <1>7
    <2> QED
      BY <2>1, <2>2, <1>5, <1>6 DEF Provenance, IsRoot
  <1>12. ForwardedWasSent'
    <2>1. ~ClaimsOnward(r.entry)
      BY <1>3 DEF PlacingSound, ClaimsOnward
    <2>2. ASSUME NEW d \in Ids, ClaimsOnward(dispatches'[d])
          PROVE  \E m \in Ids' : /\ dispatches'[m].issue = dispatches'[d].issue
                                 /\ dispatches'[m].from = dispatches'[d].to
      <3>1. CASE dispatches'[d].status = dispatches[d].status
        BY <2>2, <3>1, <1>7 DEF CustodyInv, ForwardedWasSent, ClaimsOnward, HasDownstream
      <3>2. CASE d = r.source /\ r.source # 0
        BY <3>2, <1>3, <1>5, <1>6, <1>7 DEF PlacingSound
      <3> QED
        BY <3>1, <3>2, <1>7
    <2> QED
      BY <2>1, <2>2, <1>5, <1>6 DEF ForwardedWasSent, ClaimsOnward, HasDownstream
  <1>13. OnlyPublishedIssues'
    BY <1>1, <1>3, <1>5, <1>6, <1>7 DEF CustodyInv, OnlyPublishedIssues, PlacingSound
  <1> QED
    BY <1>8, <1>9, <1>10, <1>11, <1>12, <1>13 DEF CustodyInv

-----------------------------------------------------------------------------
(* One lemma per group of actions *)

\* create's reads: a request starts with what the issue and the nodes say.
LEMMA CreatePreserves ==
    ASSUME CustodyInv, NEW p \in Procs, Create(p)
    PROVE  CustodyInv'
  <1>1. PICK i \in Issues, q \in Quantities \ {0}, to \in Points, d \in Details :
            /\ issueStatus[i] = "Published"
            /\ \/ Begin(p, Place("central", 0, "Dispatched", NewEntry(i, Null, to, q, d)))
               \/ \E from \in Points :
                    Begin(p, Place(IF IsRoot(from) THEN "duplicate" ELSE "upstream",
                                   0, "Dispatched", NewEntry(i, from, to, q, d)))
    BY DEF Create, Dispatchable
  <1>2. PICK from \in Points \cup {Null}, pc \in {"central", "duplicate", "upstream"} :
            /\ Begin(p, Place(pc, 0, "Dispatched", NewEntry(i, from, to, q, d)))
            /\ pc = "central" => from = Null
            /\ pc = "duplicate" => IsRoot(from)
    BY <1>1
  <1> DEFINE r == Place(pc, 0, "Dispatched", NewEntry(i, from, to, q, d))
  <1>3. NewEntry(i, from, to, q, d) \in DispatchEntry
    BY PointsAssumption, QuantitiesAssumption DEF NewEntry, DispatchEntry, Status, Active
  <1>4. r \in Request
    BY <1>3 DEF Place, Placing, PlacingPc, Request, Status, Active
  <1>5. RequestSound(r)
    BY <1>1, <1>2 DEF Place, NewEntry, RequestSound, PlacingSound, PlacingPc
  <1> HIDE DEF r
  <1> QED
    BY <1>2, <1>4, <1>5, SlotStep DEF Begin, CustodyInv, TypeOK, r

\* forward's first read: it relies on the receipt it finds, which stays.
LEMMA ForwardPreserves ==
    ASSUME CustodyInv, NEW p \in Procs, Forward(p)
    PROVE  CustodyInv'
  <1>1. PICK s \in Ids, q \in Quantities \ {0}, to \in Points, d \in Details :
            /\ dispatches[s].status \in {"Received", "Discrepancy", "Forwarded"}
            /\ Begin(p, Place("upstream", s, dispatches[s].status,
                              NewEntry(dispatches[s].issue, dispatches[s].to, to, q, d)))
    BY DEF Forward
  <1> DEFINE e == NewEntry(dispatches[s].issue, dispatches[s].to, to, q, d)
             r == Place("upstream", s, dispatches[s].status, e)
  <1>2. dispatches[s] \in DispatchEntry /\ s \in Nat \ {0}
    BY DEF CustodyInv, TypeOK, Ids
  <1>3. e \in DispatchEntry
    BY <1>2, PointsAssumption, QuantitiesAssumption
       DEF NewEntry, DispatchEntry, Status, Active
  <1>4. r \in Request
    BY <1>2, <1>3 DEF Place, Placing, PlacingPc, Request, DispatchEntry
  <1>5. dispatches[s].received # NotReceived
    BY <1>1 DEF CustodyInv, CustodyRecorded, Recorded, Received
  <1>6. issueStatus[dispatches[s].issue] # "Draft"
    BY DEF CustodyInv, OnlyPublishedIssues
  <1>7. RequestSound(r)
    BY <1>5, <1>6 DEF Place, NewEntry, RequestSound, PlacingSound, PlacingPc
  <1> HIDE DEF r
  <1> QED
    BY <1>1, <1>4, <1>7, SlotStep DEF Begin, CustodyInv, TypeOK, r

\* What a request sums up is a number of copies.
LEMMA SumsAreNumbers ==
    ASSUME CustodyInv, NEW i, NEW n
    PROVE  QuantitySent(i, n) \in Nat /\ QuantityReceived(i, n) \in Nat
  <1>1. /\ IsFiniteSet(Ids)
        /\ \A d \in Ids : dispatches[d] \in DispatchEntry
    BY FS_Interval DEF CustodyInv, TypeOK, Ids
  <1>2. /\ Sent(i, n) \subseteq Ids
        /\ InCustody(i, n) \subseteq Ids
    BY DEF Sent, InCustody, Consignments
  <1>3. IsFiniteSet(Sent(i, n)) /\ IsFiniteSet(InCustody(i, n))
    BY <1>1, <1>2, FS_Subset
  <1>4. \A d \in Ids : QuantityOf[d] \in Nat /\ ReceiptOf[d] \in Nat
    BY <1>1 DEF QuantityOf, ReceiptOf, DispatchEntry
  <1> QED
    BY <1>2, <1>3, <1>4, SumNat DEF QuantitySent, QuantityReceived

\* The four queries between the first one and the insert.
LEMMA CheckPreserves ==
    ASSUME CustodyInv, NEW p \in Procs,
           CheckCentral(p) \/ CheckUpstream(p) \/ CheckDownstream(p) \/ CheckDuplicate(p)
    PROVE  CustodyInv'
  <1> DEFINE Next_(pc) == [req[p] EXCEPT !.pc = pc]
  <1>1. req[p] \in Placing /\ PlacingSound(req[p])
    BY DEF CustodyInv, TypeOK, RequestSound, PlacingPc, Request, Idle,
           CheckCentral, CheckUpstream, CheckDownstream, CheckDuplicate
  <1>2. PICK pc \in {"downstream", "duplicate", "insert"}, check \in BOOLEAN :
            /\ req' = [req EXCEPT ![p] = IF check THEN Next_(pc) ELSE Idle]
            /\ UNCHANGED <<issueStatus, dispatches>>
            /\ req[p].pc = "upstream" /\ check =>
                    InCustody(req[p].entry.issue, req[p].entry.from) # {}
    <2>1. CASE CheckCentral(p)
      BY <2>1 DEF CheckCentral, Continue
    <2>2. CASE CheckUpstream(p)
      BY <2>2 DEF CheckUpstream, Continue
    <2>3. CASE CheckDownstream(p)
      BY <2>3 DEF CheckDownstream, Continue
    <2>4. CASE CheckDuplicate(p)
      BY <2>4 DEF CheckDuplicate, Continue
    <2> QED
      BY <2>1, <2>2, <2>3, <2>4
  <1>a. available' \in [Procs -> Nat]
    <2>1. QuantityReceived(req[p].entry.issue, req[p].entry.from) \in Nat
      BY SumsAreNumbers
    <2>2. PICK sum \in Nat : available' = [available EXCEPT ![p] = sum]
      <3>1. CASE CheckUpstream(p)
        BY <2>1, <3>1 DEF CheckUpstream, Continue
      <3>2. CASE CheckCentral(p) \/ CheckDownstream(p) \/ CheckDuplicate(p)
        BY <3>2 DEF CheckCentral, CheckDownstream, CheckDuplicate, Continue
      <3> QED
        BY <3>1, <3>2
    <2> QED
      BY <2>2 DEF CustodyInv, TypeOK
  <1>3. CASE check
    <2>1. Next_(pc) \in Placing /\ Next_(pc) \in Request
      BY <1>1 DEF Placing, PlacingPc, Request
    <2>2. PlacingSound(Next_(pc))
      <3>1. CASE req[p].pc = "upstream"
        <4>1. Delivered(req[p].entry.issue, req[p].entry.from)
          BY <1>2, <1>3, <3>1
             DEF InCustody, Consignments, Delivered, CustodyInv, CustodyRecorded, Recorded
        <4> QED
          BY <1>1, <4>1 DEF PlacingSound, Delivered, Placing
      <3>2. CASE req[p].pc # "upstream"
        BY <1>1, <3>2 DEF PlacingSound, Placing, PlacingPc, Delivered
      <3> QED
        BY <3>1, <3>2
    <2>3. RequestSound(Next_(pc))
      BY <1>1, <2>2 DEF RequestSound, Placing, PlacingPc
    <2> HIDE DEF Next_
    <2> QED
      BY <1>2, <1>a, <1>3, <2>1, <2>3, SlotStep
  <1>4. CASE ~check
    BY <1>2, <1>a, <1>4, IdleIsSound, SlotStep
  <1> QED
    BY <1>3, <1>4

\* The first query of the five handlers that update one entry.
LEMMA ReadPreserves ==
    ASSUME CustodyInv, NEW p \in Procs,
           SetInTransit(p) \/ Receive(p) \/ Cancel(p) \/ Complete(p) \/ Update(p)
    PROVE  CustodyInv'
  <1> USE DEF PlacingPc
  <1>0. \A d \in Ids : dispatches[d] \in DispatchEntry /\ d \in Nat
    BY DEF CustodyInv, TypeOK, Ids
  <1>1. CASE SetInTransit(p)
    <2>1. PICK d \in Ids, v \in Details :
              Begin(p, [pc |-> "inTransit", id |-> d, details |-> v])
      BY <1>1 DEF SetInTransit
    <2> DEFINE r == [pc |-> "inTransit", id |-> d, details |-> v]
    <2>2. r \in Request /\ RequestSound(r)
      BY <1>0 DEF Request, RequestSound
    <2> QED
      BY <2>1, <2>2, SlotStep DEF Begin, CustodyInv, TypeOK
  <1>2. CASE Receive(p)
    <2>1. PICK d \in Ids, q \in Quantities \cup {0} :
              /\ q <= dispatches[d].quantity
              /\ Begin(p, [pc |-> "receive", id |-> d, received |-> q,
                           status |-> IF q = dispatches[d].quantity THEN "Received"
                                      ELSE "Discrepancy"])
      BY <1>2 DEF Receive
    <2> DEFINE r == [pc |-> "receive", id |-> d, received |-> q,
                     status |-> IF q = dispatches[d].quantity THEN "Received"
                                ELSE "Discrepancy"]
    <2>2. r \in Request
      BY <1>0, QuantitiesAssumption DEF Request, Status, Received
    <2>3. RequestSound(r)
      BY <2>1 DEF RequestSound, ReceiveSound
    <2> QED
      BY <2>1, <2>2, <2>3, SlotStep DEF Begin, CustodyInv, TypeOK
  <1>3. CASE Cancel(p)
    <2>1. PICK d \in Ids : Begin(p, [pc |-> "cancel", id |-> d])
      BY <1>3 DEF Cancel
    <2>2. /\ [pc |-> "cancel", id |-> d] \in Request
          /\ RequestSound([pc |-> "cancel", id |-> d])
      BY <1>0 DEF Request, RequestSound
    <2> QED
      BY <2>1, <2>2, SlotStep DEF Begin, CustodyInv, TypeOK
  <1>4. CASE Complete(p)
    <2>1. PICK d \in Ids : /\ Completable(dispatches[d])
                           /\ Begin(p, [pc |-> "complete", id |-> d])
      BY <1>4 DEF Complete
    <2> DEFINE r == [pc |-> "complete", id |-> d]
    <2>2. CompleteSound(r)
      BY <2>1 DEF Completable, CompleteSound, CustodyInv, CustodyRecorded, Recorded, Received,
                  ForwardedWasSent, ClaimsOnward
    <2>3. r \in Request /\ RequestSound(r)
      BY <1>0, <2>2 DEF Request, RequestSound
    <2> QED
      BY <2>1, <2>3, SlotStep DEF Begin, CustodyInv, TypeOK
  <1>5. CASE Update(p)
    <2>1. PICK d \in Ids, v \in Details :
              Begin(p, [pc |-> "update", id |-> d, details |-> v])
      BY <1>5 DEF Update
    <2> DEFINE r == [pc |-> "update", id |-> d, details |-> v]
    <2>2. r \in Request /\ RequestSound(r)
      BY <1>0 DEF Request, RequestSound
    <2> QED
      BY <2>1, <2>2, SlotStep DEF Begin, CustodyInv, TypeOK
  <1> QED
    BY <1>1, <1>2, <1>3, <1>4, <1>5

\* The writes of those five handlers.
LEMMA WritePreserves ==
    ASSUME CustodyInv, NEW p \in Procs,
           \/ SetInTransitWrite(p) \/ ReceiveWrite(p) \/ CancelWrite(p)
           \/ CompleteWrite(p) \/ UpdateWrite(p)
    PROVE  CustodyInv' /\ Grows
  <1> DEFINE r == req[p]
             old == dispatches[r.id]
  <1>1. /\ r \in Request /\ RequestSound(r)
        /\ req' = [req EXCEPT ![p] = Idle]
        /\ UNCHANGED <<issueStatus, available>>
    BY DEF CustodyInv, TypeOK, SetInTransitWrite, ReceiveWrite, CancelWrite,
           CompleteWrite, UpdateWrite, Commit
  <1>2. r.id \in Ids
    BY <1>1 DEF RequestSound, PlacingPc, SetInTransitWrite, ReceiveWrite, CancelWrite,
                CompleteWrite, UpdateWrite
  <1>3. /\ old \in DispatchEntry /\ Recorded(old) /\ dispatches \in Seq(DispatchEntry)
        /\ ClaimsOnward(old) => HasDownstream(old)
    BY <1>2 DEF CustodyInv, TypeOK, CustodyRecorded, ForwardedWasSent, Ids
  <1> HIDE DEF old
  <1>4. CASE SetInTransitWrite(p)
    <2> DEFINE e == [old EXCEPT !.status = "InTransit", !.details = r.details]
    <2>1. dispatches' = [dispatches EXCEPT ![r.id] = e]
      BY <1>2, <1>3, <1>4 DEF SetInTransitWrite, Commit, old, Ids, DispatchEntry
    <2>2. r.details \in Details
      BY <1>1, <1>4 DEF SetInTransitWrite, Request, Placing, PlacingPc, Idle
    <2>3. e \in DispatchEntry
      BY <1>3, <2>2 DEF DispatchEntry, Status, Active
    <2>4. Recorded(e) /\ ~ClaimsOnward(e)
      BY <1>3 DEF DispatchEntry, Recorded, ClaimsOnward, Received
    <2>5. /\ e.issue = old.issue /\ e.from = old.from /\ e.to = old.to
          /\ e.quantity = old.quantity /\ e.received = old.received
      BY <1>3 DEF DispatchEntry
    <2> HIDE DEF e, r
    <2> QED
      BY <1>1, <1>2, <2>1, <2>3, <2>4, <2>5, EntryWritten DEF old
  <1>5. CASE ReceiveWrite(p)
    <2> DEFINE e == [old EXCEPT !.received = r.received, !.status = r.status]
    <2>1. dispatches' = [dispatches EXCEPT ![r.id] = e]
      BY <1>2, <1>3, <1>5 DEF ReceiveWrite, Commit, old, Ids, DispatchEntry
    <2>2. /\ r.received \in Nat /\ r.received <= old.quantity
          /\ r.status = IF r.received = old.quantity THEN "Received" ELSE "Discrepancy"
      BY <1>1, <1>5
         DEF ReceiveWrite, Request, Placing, PlacingPc, Idle, RequestSound, ReceiveSound, old
    <2>3. e \in DispatchEntry
      BY <1>3, <2>2 DEF DispatchEntry, Status, Received
    <2>4. Recorded(e) /\ ~ClaimsOnward(e) /\ e.received # NotReceived
      BY <1>3, <2>2 DEF DispatchEntry, Recorded, ClaimsOnward, Received, NotReceived
    <2>5. /\ e.issue = old.issue /\ e.from = old.from /\ e.to = old.to
          /\ e.quantity = old.quantity
      BY <1>3 DEF DispatchEntry
    <2> HIDE DEF e, r
    <2> QED
      BY <1>1, <1>2, <2>1, <2>3, <2>4, <2>5, EntryWritten DEF old
  <1>6. CASE CancelWrite(p)
    <2> DEFINE e == [old EXCEPT !.status = "Cancelled"]
    <2>1. dispatches' = [dispatches EXCEPT ![r.id] = e]
      BY <1>2, <1>3, <1>6 DEF CancelWrite, Commit, old
    <2>2. e \in DispatchEntry
      BY <1>3 DEF DispatchEntry, Status
    <2>3. Recorded(e) /\ ~ClaimsOnward(e)
      BY <1>3 DEF DispatchEntry, Recorded, ClaimsOnward, Received
    <2>4. /\ e.issue = old.issue /\ e.from = old.from /\ e.to = old.to
          /\ e.quantity = old.quantity /\ e.received = old.received
      BY <1>3 DEF DispatchEntry
    <2> HIDE DEF e, r
    <2> QED
      BY <1>1, <1>2, <2>1, <2>2, <2>3, <2>4, EntryWritten DEF old
  <1>7. CASE CompleteWrite(p)
    <2> DEFINE e == [old EXCEPT !.status = "Completed"]
    <2>1. dispatches' = [dispatches EXCEPT ![r.id] = e]
      BY <1>2, <1>3, <1>7 DEF CompleteWrite, Commit, old
    <2>2. e \in DispatchEntry
      BY <1>3 DEF DispatchEntry, Status, Received
    <2>3. old.received # NotReceived /\ (Rank[old.to] = GramRank \/ HasDownstream(old))
      BY <1>1, <1>7 DEF CompleteWrite, RequestSound, CompleteSound, old
    <2>4. /\ e.issue = old.issue /\ e.from = old.from /\ e.to = old.to
          /\ e.quantity = old.quantity /\ e.received = old.received /\ e.status = "Completed"
      BY <1>3 DEF DispatchEntry
    <2>5. Recorded(e) /\ (ClaimsOnward(e) => HasDownstream(old))
      BY <1>3, <2>3, <2>4 DEF Recorded, ClaimsOnward
    <2> HIDE DEF e, r
    <2> QED
      BY <1>1, <1>2, <2>1, <2>2, <2>4, <2>5, EntryWritten DEF old
  <1>8. CASE UpdateWrite(p)
    <2> DEFINE e == [old EXCEPT !.details = r.details]
    <2>1. dispatches' = [dispatches EXCEPT ![r.id] = e]
      BY <1>2, <1>3, <1>8 DEF UpdateWrite, Commit, old
    <2>2. r.details \in Details
      BY <1>1, <1>8 DEF UpdateWrite, Request, Placing, PlacingPc, Idle
    <2>3. e \in DispatchEntry
      BY <1>3, <2>2 DEF DispatchEntry
    <2>4. /\ e.issue = old.issue /\ e.from = old.from /\ e.to = old.to
          /\ e.quantity = old.quantity /\ e.received = old.received /\ e.status = old.status
      BY <1>3 DEF DispatchEntry
    <2>5. Recorded(e) /\ (ClaimsOnward(e) => HasDownstream(old))
      BY <1>3, <2>4 DEF Recorded, ClaimsOnward
    <2> HIDE DEF e, r
    <2> QED
      BY <1>1, <1>2, <2>1, <2>3, <2>4, <2>5, EntryWritten DEF old
  <1> QED
    BY <1>4, <1>5, <1>6, <1>7, <1>8

\* Publishing and archiving never bring an issue back to Draft.
LEMMA IssueStepPreserves ==
    ASSUME CustodyInv, NEW i \in Issues, PublishIssue(i) \/ ArchiveIssue(i)
    PROVE  CustodyInv'
  <1>1. /\ UNCHANGED <<dispatches, req, available>>
        /\ issueStatus' \in [Issues -> IssueStatus]
        /\ \A j \in Issues : issueStatus[j] # "Draft" => issueStatus'[j] # "Draft"
    BY DEF CustodyInv, TypeOK, PublishIssue, ArchiveIssue, IssueStatus
  <1>2. TypeOK' /\ CustodyRecorded' /\ Provenance' /\ ForwardedWasSent'
    BY <1>1 DEF CustodyInv, TypeOK, CustodyRecorded, Provenance, ForwardedWasSent,
                HasDownstream, Ids
  <1>3. OnlyPublishedIssues'
    <2>1. ASSUME NEW d \in Ids PROVE dispatches[d].issue \in Issues
      <3>1. dispatches[d] \in DispatchEntry
        BY DEF CustodyInv, TypeOK, Ids
      <3> QED
        BY <3>1 DEF DispatchEntry
    <2> QED
      BY <1>1, <2>1 DEF CustodyInv, OnlyPublishedIssues, Ids
  <1>4. ASSUME NEW p \in Procs PROVE RequestSound(req[p])'
    <2>1. req[p] \in Request /\ RequestSound(req[p])
      BY DEF CustodyInv, TypeOK
    <2>2. req[p].pc \in PlacingPc => req[p].entry.issue \in Issues
      BY <2>1 DEF Request, Placing, PlacingPc, Idle, DispatchEntry
    <2> QED
      BY <1>1, <2>1, <2>2 DEF RequestSound, PlacingSound, ReceiveSound, CompleteSound,
                              Delivered, HasDownstream, Ids
  <1> QED
    BY <1>2, <1>3, <1>4 DEF CustodyInv

-----------------------------------------------------------------------------

\* The empty table.
LEMMA InitCustody == Init => CustodyInv
  <1> SUFFICES ASSUME Init PROVE CustodyInv
    OBVIOUS
  <1>1. TypeOK
    BY IdleIsSound DEF Init, TypeOK, IssueStatus
  <1>2. Ids = {}
    BY DEF Init, Ids
  <1>3. \A p \in Procs : RequestSound(req[p])
    BY IdleIsSound DEF Init
  <1> QED
    BY <1>1, <1>2, <1>3
       DEF CustodyInv, CustodyRecorded, Provenance, ForwardedWasSent, OnlyPublishedIssues

\* Every step preserves the invariant.
LEMMA NextCustody ==
    ASSUME CustodyInv, [Next]_vars
    PROVE  CustodyInv' /\ Grows
  <1>1. ASSUME UNCHANGED <<dispatches>> PROVE Grows
    BY <1>1 DEF Grows, Ids
  <1>2. ASSUME NEW p \in Procs, Handle(p)
        PROVE  CustodyInv' /\ Grows
    <2>1. CASE Create(p)
      BY <2>1, <1>1, CreatePreserves DEF Create, Begin
    <2>2. CASE Forward(p)
      BY <2>2, <1>1, ForwardPreserves DEF Forward, Begin
    <2>3. CASE CheckCentral(p) \/ CheckUpstream(p) \/ CheckDownstream(p) \/ CheckDuplicate(p)
      <3>1. UNCHANGED dispatches
        BY <2>3 DEF CheckCentral, CheckUpstream, CheckDownstream, CheckDuplicate, Continue
      <3> QED
        BY <2>3, <3>1, <1>1, CheckPreserves
    <2>4. CASE Insert(p)
      BY <2>4, InsertPreserves
    <2>5. CASE SetInTransit(p) \/ Receive(p) \/ Cancel(p) \/ Complete(p) \/ Update(p)
      <3>1. UNCHANGED dispatches
        BY <2>5 DEF SetInTransit, Receive, Cancel, Complete, Update, Begin
      <3> QED
        BY <2>5, <3>1, <1>1, ReadPreserves
    <2>6. CASE \/ SetInTransitWrite(p) \/ ReceiveWrite(p) \/ CancelWrite(p)
               \/ CompleteWrite(p) \/ UpdateWrite(p)
      BY <2>6, WritePreserves
    <2> QED
      BY <1>2, <2>1, <2>2, <2>3, <2>4, <2>5, <2>6 DEF Handle
  <1>3. ASSUME NEW i \in Issues, PublishIssue(i) \/ ArchiveIssue(i)
        PROVE  CustodyInv' /\ Grows
    BY <1>1, <1>3, IssueStepPreserves DEF PublishIssue, ArchiveIssue
  <1>4. CASE UNCHANGED vars
    <2>1. CustodyInv'
      BY <1>4 DEF vars, CustodyInv, TypeOK, CustodyRecorded, Provenance, ForwardedWasSent,
                  OnlyPublishedIssues, RequestSound, PlacingSound, ReceiveSound,
                  CompleteSound, Delivered, HasDownstream, Ids
    <2> QED
      BY <1>1, <1>4, <2>1 DEF vars
  <1> QED
    BY <1>2, <1>3, <1>4 DEF Next

\* The inductive invariant holds of every behaviour, with any number of
\* overlapping requests.
THEOREM CustodyInvariant == Spec => []CustodyInv
  <1>1. CustodyInv /\ [Next]_vars => CustodyInv'
    BY NextCustody
  <1> QED
    BY InitCustody, <1>1, PTL DEF Spec

\* Type correctness: the tables and every request slot keep their shape.
THEOREM TypeCorrect == Spec => []TypeOK
  <1>1. CustodyInv => TypeOK
    BY DEF CustodyInv
  <1> QED
    BY CustodyInvariant, <1>1, PTL

\* A received status always comes with a receipt that agrees with it.
THEOREM ReceiptsRecorded == Spec => []CustodyRecorded
  <1>1. CustodyInv => CustodyRecorded
    BY DEF CustodyInv
  <1> QED
    BY CustodyInvariant, <1>1, PTL

\* No node but a root sends copies of an issue it has no receipt for.
THEOREM CustodyHasProvenance == Spec => []Provenance
  <1>1. CustodyInv => Provenance
    BY DEF CustodyInv
  <1> QED
    BY CustodyInvariant, <1>1, PTL

\* An entry that claims to have been passed on has a consignment to show.
THEOREM ForwardingIsBacked == Spec => []ForwardedWasSent
  <1>1. CustodyInv => ForwardedWasSent
    BY DEF CustodyInv
  <1> QED
    BY CustodyInvariant, <1>1, PTL

\* No entry is made for an issue that was never published.
THEOREM DispatchedWasPublished == Spec => []OnlyPublishedIssues
  <1>1. CustodyInv => OnlyPublishedIssues
    BY DEF CustodyInv
  <1> QED
    BY CustodyInvariant, <1>1, PTL

\* A status never claims a receipt or an onward consignment that is not there.
THEOREM StatusesAreBacked == Spec => []StatusesAreTrue
  <1>1. CustodyRecorded /\ ForwardedWasSent => StatusesAreTrue
    BY DEF StatusesAreTrue
  <1> QED
    BY ReceiptsRecorded, ForwardingIsBacked, <1>1, PTL

\* No step, however stale what it acts on, erases a receipt or an entry.
THEOREM ReceiptsAreKept == Spec => ReceiptKept
  <1>1. CustodyInv /\ [Next]_vars => [Grows]_vars
    BY NextCustody
  <1> QED
    BY CustodyInvariant, <1>1, PTL DEF Spec, ReceiptKept

-----------------------------------------------------------------------------
(* The way of the copies *)

\* Writes keep the routes of the entries there are, and the only new entry is
\* one that a request had ready.
LEMMA TableRoutes ==
    ASSUME RoutesInv, [Next]_vars
    PROVE  \A d \in Ids' : RouteHolds(dispatches'[d])
  <1>1. CustodyInv /\ Grows /\ dispatches \in Seq(DispatchEntry)
    BY NextCustody DEF RoutesInv, CustodyInv, TypeOK
  <1>2. ASSUME NEW d \in Ids
        PROVE  RouteHolds(dispatches'[d])
    <2>1. RouteHolds(dispatches[d])
      BY DEF RoutesInv
    <2>2. dispatches'[d].from = dispatches[d].from /\ dispatches'[d].to = dispatches[d].to
      BY <1>1 DEF Grows
    <2> QED
      BY <2>1, <2>2 DEF RouteHolds
  <1>3. CASE \E p \in Procs : Insert(p)
    <2>1. PICK p \in Procs : Insert(p)
      BY <1>3
    <2>2. /\ dispatches' \in Seq(DispatchEntry)
          /\ req[p].pc = "insert"
          /\ Len(dispatches') = Len(dispatches) + 1
          /\ dispatches'[Len(dispatches) + 1] = req[p].entry
      BY <1>1, <2>1, InsertedTable
    <2>3. RouteHolds(req[p].entry)
      BY <2>2 DEF RoutesInv, PlacingPc
    <2>4. \A d \in Ids' : d \in Ids \/ d = Len(dispatches) + 1
      BY <1>1, <2>2 DEF Ids
    <2> QED
      BY <1>2, <2>2, <2>3, <2>4
  <1>4. CASE ~\E p \in Procs : Insert(p)
    <2>1. Ids' = Ids
      <3>1. CASE UNCHANGED dispatches
        BY <3>1 DEF Ids
      <3>2. ASSUME NEW p \in Procs,
                   \/ SetInTransitWrite(p) \/ ReceiveWrite(p) \/ CancelWrite(p)
                   \/ CompleteWrite(p) \/ UpdateWrite(p)
            PROVE  Ids' = Ids
        BY <1>1, <3>2 DEF Ids, Commit, SetInTransitWrite, ReceiveWrite, CancelWrite,
                          CompleteWrite, UpdateWrite
      <3>3. CASE dispatches' # dispatches
        <4>1. PICK p \in Procs :
                \/ SetInTransitWrite(p) \/ ReceiveWrite(p) \/ CancelWrite(p)
                \/ CompleteWrite(p) \/ UpdateWrite(p)
          BY <1>4, <3>3 DEF Next, Handle, vars, Create, Forward, Begin, CheckCentral,
             CheckUpstream, CheckDownstream, CheckDuplicate, Continue, SetInTransit, Receive,
             Cancel, Complete, Update, PublishIssue, ArchiveIssue
        <4> QED
          BY <3>2, <4>1
      <3> QED
        BY <3>1, <3>3
    <2> QED
      BY <1>2, <2>1
  <1> QED
    BY <1>3, <1>4

\* create and forward check the route before anything else, and no later query
\* touches it.
LEMMA RequestRoutes ==
    ASSUME RoutesInv, [Next]_vars, NEW q \in Procs, req'[q].pc \in PlacingPc
    PROVE  RouteHolds(req'[q].entry)
  <1>1. req \in [Procs -> Request]
    BY DEF RoutesInv, CustodyInv, TypeOK
  <1>2. req[q].pc \in PlacingPc => RouteHolds(req[q].entry)
    BY DEF RoutesInv
  <1>3. CASE req'[q] = req[q]
    BY <1>2, <1>3
  <1>4. ASSUME NEW p \in Procs, Create(p)
        PROVE  RouteHolds(req'[q].entry)
    <2>1. PICK e, pc, source, seen :
            /\ req' = [req EXCEPT ![p] = Place(pc, source, seen, e)]
            /\ RouteHolds(e)
      <3>1. PICK i \in Issues, n \in Quantities \ {0}, to \in Points, v \in Details :
              \/ /\ Rank[to] = PrantRank
                 /\ Begin(p, Place("central", 0, "Dispatched", NewEntry(i, Null, to, n, v)))
              \/ \E from \in Points :
                   /\ DownstreamRoute(from, to)
                   /\ Begin(p, Place(IF IsRoot(from) THEN "duplicate" ELSE "upstream",
                                     0, "Dispatched", NewEntry(i, from, to, n, v)))
        BY <1>4 DEF Create
      <3>2. CASE /\ Rank[to] = PrantRank
                 /\ Begin(p, Place("central", 0, "Dispatched", NewEntry(i, Null, to, n, v)))
        <4>1. RouteHolds(NewEntry(i, Null, to, n, v))
          BY <3>2 DEF RouteHolds, NewEntry
        <4> QED
          BY <3>2, <4>1 DEF Begin
      <3>3. ASSUME NEW from \in Points, DownstreamRoute(from, to),
                   Begin(p, Place(IF IsRoot(from) THEN "duplicate" ELSE "upstream",
                                  0, "Dispatched", NewEntry(i, from, to, n, v)))
            PROVE  \E e, pc, source, seen :
                     /\ req' = [req EXCEPT ![p] = Place(pc, source, seen, e)]
                     /\ RouteHolds(e)
        <4>1. RouteHolds(NewEntry(i, from, to, n, v))
          BY <3>3, PointsAssumption, NullAssumption DEF RouteHolds, NewEntry
        <4> QED
          BY <3>3, <4>1 DEF Begin
      <3> QED
        BY <3>1, <3>2, <3>3
    <2>2. CASE q = p
      BY <1>1, <2>1, <2>2 DEF Place
    <2>3. CASE q # p
      BY <1>1, <1>3, <2>1, <2>3
    <2> QED
      BY <2>2, <2>3
  <1>5. ASSUME NEW p \in Procs, Forward(p)
        PROVE  RouteHolds(req'[q].entry)
    <2>1. PICK s \in Ids, n \in Quantities \ {0}, to \in Points, v \in Details :
            /\ DownstreamRoute(dispatches[s].to, to)
            /\ Begin(p, Place("upstream", s, dispatches[s].status,
                              NewEntry(dispatches[s].issue, dispatches[s].to, to, n, v)))
      BY <1>5 DEF Forward
    <2>2. dispatches[s].to # Null
      <3>1. dispatches[s] \in DispatchEntry
        BY DEF RoutesInv, CustodyInv, TypeOK, Ids
      <3> QED
        BY <3>1, NullAssumption DEF DispatchEntry
    <2>3. RouteHolds(NewEntry(dispatches[s].issue, dispatches[s].to, to, n, v))
      BY <2>1, <2>2 DEF RouteHolds, NewEntry
    <2>4. CASE q = p
      BY <1>1, <2>1, <2>3, <2>4 DEF Begin, Place
    <2>5. CASE q # p
      BY <1>1, <1>3, <2>1, <2>5 DEF Begin
    <2> QED
      BY <2>4, <2>5
  <1>6. ASSUME NEW p \in Procs,
               CheckCentral(p) \/ CheckUpstream(p) \/ CheckDownstream(p) \/ CheckDuplicate(p)
        PROVE  RouteHolds(req'[q].entry)
    <2>1. PICK check, next :
            /\ req[p].pc \in PlacingPc
            /\ req' = [req EXCEPT ![p] = IF check THEN [@ EXCEPT !.pc = next] ELSE Idle]
      BY <1>6 DEF CheckCentral, CheckUpstream, CheckDownstream, CheckDuplicate, Continue,
                  PlacingPc
    <2>2. CASE q = p
      <3>1. req[p] \in Placing
        BY <1>1, <2>1 DEF Request, PlacingPc, Idle
      <3>2. req'[q] = Idle \/ req'[q].entry = req[q].entry
        BY <1>1, <2>1, <2>2, <3>1 DEF Placing
      <3> QED
        BY <1>2, <2>1, <2>2, <3>2 DEF Idle, PlacingPc
    <2>3. CASE q # p
      BY <1>1, <1>3, <2>1, <2>3
    <2> QED
      BY <2>2, <2>3
  <1>7. ASSUME NEW p \in Procs,
               SetInTransit(p) \/ Receive(p) \/ Cancel(p) \/ Complete(p) \/ Update(p)
        PROVE  RouteHolds(req'[q].entry)
    <2>1. ASSUME NEW r, Begin(p, r), r.pc \notin PlacingPc
          PROVE  RouteHolds(req'[q].entry)
      BY <1>1, <1>3, <2>1 DEF Begin
    <2>2. PICK r : Begin(p, r) /\ r.pc \in {"inTransit", "receive", "cancel", "complete", "update"}
      <3>1. ASSUME NEW d, NEW v, Begin(p, [pc |-> "inTransit", id |-> d, details |-> v])
            PROVE  \E r : Begin(p, r) /\ r.pc = "inTransit"
        BY <3>1
      <3>2. ASSUME NEW d, NEW n, NEW st,
                   Begin(p, [pc |-> "receive", id |-> d, received |-> n, status |-> st])
            PROVE  \E r : Begin(p, r) /\ r.pc = "receive"
        BY <3>2
      <3>3. ASSUME NEW d, Begin(p, [pc |-> "cancel", id |-> d])
            PROVE  \E r : Begin(p, r) /\ r.pc = "cancel"
        BY <3>3
      <3>4. ASSUME NEW d, Begin(p, [pc |-> "complete", id |-> d])
            PROVE  \E r : Begin(p, r) /\ r.pc = "complete"
        BY <3>4
      <3>5. ASSUME NEW d, NEW v, Begin(p, [pc |-> "update", id |-> d, details |-> v])
            PROVE  \E r : Begin(p, r) /\ r.pc = "update"
        BY <3>5
      <3>6. CASE SetInTransit(p)
        BY <3>1, <3>6 DEF SetInTransit
      <3>7. CASE Receive(p)
        BY <3>2, <3>7 DEF Receive
      <3>8. CASE Cancel(p)
        BY <3>3, <3>8 DEF Cancel
      <3>9. CASE Complete(p)
        BY <3>4, <3>9 DEF Complete
      <3>10. CASE Update(p)
        BY <3>5, <3>10 DEF Update
      <3> QED
        BY <1>7, <3>6, <3>7, <3>8, <3>9, <3>10
    <2> QED
      BY <2>1, <2>2 DEF PlacingPc
  <1>8. ASSUME NEW p \in Procs,
               \/ Insert(p) \/ SetInTransitWrite(p) \/ ReceiveWrite(p) \/ CancelWrite(p)
               \/ CompleteWrite(p) \/ UpdateWrite(p)
        PROVE  RouteHolds(req'[q].entry)
    <2>1. req' = [req EXCEPT ![p] = Idle]
      BY <1>8 DEF Insert, SetInTransitWrite, ReceiveWrite, CancelWrite, CompleteWrite,
                  UpdateWrite, Commit
    <2> QED
      BY <1>1, <1>3, <2>1 DEF Idle, PlacingPc
  <1>9. CASE UNCHANGED req
    BY <1>3, <1>9
  <1> QED
    BY <1>4, <1>5, <1>6, <1>7, <1>8, <1>9
       DEF Next, Handle, vars, PublishIssue, ArchiveIssue

\* Copies move down the tree, from every sender to a node of its own branch.
THEOREM RoutesInvariant == Spec => []RoutesInv
  <1>1. Init => RoutesInv
    BY InitCustody DEF Init, RoutesInv, Ids, Idle, PlacingPc
  <1>2. RoutesInv /\ [Next]_vars => RoutesInv'
    <2> SUFFICES ASSUME RoutesInv, [Next]_vars
                 PROVE  RoutesInv'
      OBVIOUS
    <2>1. CustodyInv'
      BY NextCustody DEF RoutesInv
    <2>2. (\A d \in Ids : RouteHolds(dispatches[d]))'
      BY TableRoutes DEF RouteHolds
    <2>3. (\A p \in Procs : req[p].pc \in PlacingPc => RouteHolds(req[p].entry))'
      BY RequestRoutes DEF RouteHolds
    <2> QED
      BY <2>1, <2>2, <2>3 DEF RoutesInv
  <1> QED
    BY <1>1, <1>2, PTL DEF Spec

\* From receipt to receipt, the way back ends at the publisher or a root.
LEMMA WayBack ==
    ASSUME RoutesInv
    PROVE  Traceable
  <1> DEFINE Origin(d, o) ==
                 /\ o <= d
                 /\ dispatches[o].issue = dispatches[d].issue
                 /\ dispatches[o].from = Null \/ IsRoot(dispatches[o].from)
                 /\ o # d => /\ InBranch(dispatches[d].to, dispatches[o].to)
                             /\ dispatches[o].received # NotReceived
             Lost == {d \in Ids : ~\E o \in Ids : Origin(d, o)}
  <1>1. /\ dispatches \in Seq(DispatchEntry)
        /\ Ids = 1..Len(dispatches) /\ Len(dispatches) \in Nat
    BY DEF RoutesInv, CustodyInv, TypeOK, Ids
  <1>2. SUFFICES ASSUME Lost # {}
                 PROVE  FALSE
    BY DEF Traceable
  <1>3. PICK d \in Lost : \A c \in Lost : d <= c
    BY <1>1, <1>2, SmallestNumber
  <1>4. dispatches[d] \in DispatchEntry /\ RouteHolds(dispatches[d]) /\ d \in Ids
    BY <1>1 DEF RoutesInv
  <1>5. dispatches[d].from # Null /\ ~IsRoot(dispatches[d].from)
    BY <1>1, <1>4
  <1>6. PICK u \in Ids : /\ u < d
                         /\ dispatches[u].issue = dispatches[d].issue
                         /\ dispatches[u].to = dispatches[d].from
                         /\ dispatches[u].received # NotReceived
    BY <1>4, <1>5 DEF RoutesInv, CustodyInv, Provenance
  <1>7. u \notin Lost
    BY <1>1, <1>3, <1>6
  <1>8. PICK o \in Ids : Origin(u, o)
    BY <1>7
  <1>9. InBranch(dispatches[d].to, dispatches[u].to)
    BY <1>4, <1>5, <1>6 DEF RouteHolds, DownstreamRoute
  <1>10. dispatches[o].to \in Nodes /\ dispatches[u].to \in Nodes /\ dispatches[d].to \in Nodes
    <2>1. \A c \in Ids : dispatches[c] \in DispatchEntry
      BY <1>1
    <2> QED
      BY <1>4, <2>1 DEF DispatchEntry
  <1>11. InBranch(dispatches[d].to, dispatches[o].to) /\ dispatches[o].received # NotReceived
    <2>1. CASE o = u
      BY <1>6, <1>9, <2>1
    <2>2. CASE o # u
      BY <1>8, <1>9, <1>10, <2>2, AncestorsTransitive DEF InBranch
    <2> QED
      BY <2>1, <2>2
  <1>12. Origin(d, o)
    BY <1>1, <1>6, <1>8, <1>11
  <1> QED
    BY <1>12

\* Every entry is about an issue that was published, and the way its copies
\* came leads back, receipt by receipt, to the publisher or a root of this
\* branch: however many requests overlap, and however stale their checks.
THEOREM OriginsAreKnown == Spec => []CopiesHaveOrigin
  <1>1. RoutesInv => CopiesHaveOrigin
    BY WayBack DEF RoutesInv, CustodyInv, CopiesHaveOrigin
  <1> QED
    BY RoutesInvariant, <1>1, PTL

-----------------------------------------------------------------------------
(* One request at a time *)

\* What a write whose read is still true does to its entry.
Moves(e, f) ==
    /\ <<f.issue, f.from, f.to, f.quantity>> = <<e.issue, e.from, e.to, e.quantity>>
    /\ \/ /\ e.status \in Active /\ f.status \in Active
          /\ f.received = e.received
       \/ /\ e.status \in Active /\ f.status \in {"Received", "Discrepancy"}
          /\ f.received \in Nat /\ f.received <= e.quantity
       \/ /\ e.status \in Active /\ f.status = "Cancelled"
          /\ f.received = e.received
       \/ /\ Completable(e) /\ f.status = "Completed"
          /\ f.received = e.received /\ f.details = e.details

\* The two sums of validateUpstreamReceiptAndStock after a write that concerns
\* entry a alone, but for Received, Discrepancy and Forwarded among the others.
LEMMA SumsAfterWrite ==
    ASSUME CustodyInv, CustodyInv', NEW a, Ids' = Ids \cup {a},
           \A d \in Ids \ {a} :
               /\ <<dispatches'[d].issue, dispatches'[d].from, dispatches'[d].to>>
                  = <<dispatches[d].issue, dispatches[d].from, dispatches[d].to>>
               /\ dispatches'[d].quantity = dispatches[d].quantity
               /\ dispatches'[d].received = dispatches[d].received
               /\ \/ dispatches'[d].status = dispatches[d].status
                  \/ {dispatches'[d].status, dispatches[d].status} \subseteq Received,
           NEW i, NEW n
    PROVE  /\ QuantitySent(i, n)' = QuantitySent(i, n)
                                    + (IF a \in Sent(i, n)' THEN QuantityOf'[a] ELSE 0)
                                    - (IF a \in Sent(i, n) THEN QuantityOf[a] ELSE 0)
           /\ QuantityReceived(i, n)' = QuantityReceived(i, n)
                                    + (IF a \in InCustody(i, n)' THEN ReceiptOf'[a] ELSE 0)
                                    - (IF a \in InCustody(i, n) THEN ReceiptOf[a] ELSE 0)
  <1>1. /\ IsFiniteSet(Ids) /\ IsFiniteSet(Ids')
        /\ \A d \in Ids : dispatches[d] \in DispatchEntry
        /\ \A d \in Ids' : dispatches'[d] \in DispatchEntry
    <2>1. dispatches \in Seq(DispatchEntry) /\ dispatches' \in Seq(DispatchEntry)
      BY DEF CustodyInv, TypeOK
    <2>2. /\ Ids = 1..Len(dispatches) /\ Len(dispatches) \in Nat
          /\ Ids' = 1..Len(dispatches') /\ Len(dispatches') \in Nat
      BY <2>1 DEF Ids
    <2>3. IsFiniteSet(Ids) /\ IsFiniteSet(Ids')
      <3>1. \A m \in Nat : IsFiniteSet(1..m)
        BY FS_Interval
      <3> QED
        BY <2>2, <3>1
    <2> QED
      BY <2>1, <2>3 DEF Ids
  <1>2. /\ \A d \in Ids : QuantityOf[d] \in Int /\ ReceiptOf[d] \in Int
        /\ \A d \in Ids' : QuantityOf'[d] \in Int /\ ReceiptOf'[d] \in Int
        /\ \A d \in Ids \ {a} : QuantityOf'[d] = QuantityOf[d] /\ ReceiptOf'[d] = ReceiptOf[d]
    BY <1>1 DEF QuantityOf, ReceiptOf, DispatchEntry
  <1>3. /\ Sent(i, n) \subseteq Ids /\ Sent(i, n)' \subseteq Ids'
        /\ Sent(i, n)' \ {a} = Sent(i, n) \ {a}
    BY DEF Sent, Received
  <1>4. /\ InCustody(i, n) \subseteq Ids /\ InCustody(i, n)' \subseteq Ids'
        /\ InCustody(i, n)' \ {a} = InCustody(i, n) \ {a}
    BY DEF InCustody, Consignments
  <1>5. /\ IsFiniteSet(Sent(i, n)) /\ IsFiniteSet(Sent(i, n)')
        /\ IsFiniteSet(InCustody(i, n)) /\ IsFiniteSet(InCustody(i, n)')
    BY <1>1, <1>3, <1>4, FS_Subset
  <1>6. QuantitySent(i, n)' = QuantitySent(i, n)
                              + (IF a \in Sent(i, n)' THEN QuantityOf'[a] ELSE 0)
                              - (IF a \in Sent(i, n) THEN QuantityOf[a] ELSE 0)
    BY <1>2, <1>3, <1>5, SumChanged DEF QuantitySent
  <1>7. QuantityReceived(i, n)' = QuantityReceived(i, n)
                              + (IF a \in InCustody(i, n)' THEN ReceiptOf'[a] ELSE 0)
                              - (IF a \in InCustody(i, n) THEN ReceiptOf[a] ELSE 0)
    BY <1>2, <1>4, <1>5, SumChanged DEF QuantityReceived
  <1> QED
    BY <1>6, <1>7

\* A query leaves the promise as it was; only its own request can learn.
LEMMA QueryKeeps ==
    ASSUME OneAtATime, SerialInv, CustodyInv', UNCHANGED dispatches,
           NEW p \in Procs, RequestFresh(req'[p], available'[p])
    PROVE  SerialInv'
  <1>1. \A i, n : /\ QuantitySent(i, n)' = QuantitySent(i, n)
                  /\ QuantityReceived(i, n)' = QuantityReceived(i, n)
    BY DEF QuantitySent, QuantityReceived, QuantityOf, ReceiptOf, Sent, InCustody,
           Consignments, Ids
  <1>2. UnreceivedIsOpen' /\ NoDuplicateActive'
    BY DEF SerialInv, UnreceivedIsOpen, NoDuplicateActive, Ids
  <1>3. StockKept'
    BY <1>1 DEF SerialInv, StockKept, CentralStock, NodeStock, Senders, Ids
  <1>4. ASSUME NEW q \in Procs PROVE RequestFresh(req[q], available[q])'
    <2>1. RequestFresh(req'[q], available'[q])
      BY DEF OneAtATime
    <2>2. PICK r, stock : r = req'[q] /\ stock = available'[q]
      OBVIOUS
    <2>3. RequestFresh(r, stock)
      BY <2>1, <2>2
    <2>4. InStock(r.entry)' = InStock(r.entry)
      BY <1>1 DEF InStock
    <2>5. ActiveDuplicate(r.entry)' = ActiveDuplicate(r.entry)
      BY DEF ActiveDuplicate, Ids
    <2>6. RequestFresh(r, stock)'
      BY <2>3, <2>4, <2>5, <1>1 DEF RequestFresh, PlacingFresh, EditFresh
    <2> QED
      BY <2>2, <2>6 DEF RequestFresh, PlacingFresh, EditFresh, InStock, ActiveDuplicate
  <1> QED
    BY <1>2, <1>3, <1>4 DEF SerialInv

\* What a handler has read of its one entry is still so, hence its write is a
\* move of that entry.
LEMMA WriteMoves ==
    ASSUME SerialInv, NEW p \in Procs,
           \/ SetInTransitWrite(p) \/ ReceiveWrite(p) \/ CancelWrite(p)
           \/ CompleteWrite(p) \/ UpdateWrite(p)
    PROVE  \E id \in Ids, e \in DispatchEntry :
               /\ dispatches[id] \in DispatchEntry
               /\ dispatches' = [dispatches EXCEPT ![id] = e]
               /\ Moves(dispatches[id], e)
  <1> DEFINE r == req[p]
             old == dispatches[r.id]
  <1>1. r \in Request /\ RequestSound(r) /\ EditFresh(r)
    BY DEF SerialInv, CustodyInv, TypeOK, RequestFresh
  <1>2. r.id \in Ids
    BY <1>1 DEF RequestSound, PlacingPc, SetInTransitWrite, ReceiveWrite, CancelWrite,
                CompleteWrite, UpdateWrite
  <1>3. old \in DispatchEntry /\ dispatches \in Seq(DispatchEntry)
    BY <1>2 DEF SerialInv, CustodyInv, TypeOK, Ids
  <1> HIDE DEF old
  <1>4. CASE SetInTransitWrite(p)
    <2> DEFINE e == [old EXCEPT !.status = "InTransit", !.details = r.details]
    <2>1. dispatches' = [dispatches EXCEPT ![r.id] = e]
      BY <1>2, <1>3, <1>4 DEF SetInTransitWrite, Commit, old, Ids, DispatchEntry
    <2>2. r.details \in Details /\ old.status = "Dispatched"
      BY <1>1, <1>4 DEF SetInTransitWrite, Request, Placing, PlacingPc, Idle, EditFresh, old
    <2>3. e \in DispatchEntry
      BY <1>3, <2>2 DEF DispatchEntry, Status, Active
    <2>4. Moves(old, e)
      BY <1>3, <2>2 DEF DispatchEntry, Moves, Active
    <2> QED
      BY <1>2, <1>3, <2>1, <2>3, <2>4 DEF old
  <1>5. CASE ReceiveWrite(p)
    <2> DEFINE e == [old EXCEPT !.received = r.received, !.status = r.status]
    <2>1. dispatches' = [dispatches EXCEPT ![r.id] = e]
      BY <1>2, <1>3, <1>5 DEF ReceiveWrite, Commit, old, Ids, DispatchEntry
    <2>2. /\ r.received \in Nat /\ r.received <= old.quantity
          /\ r.status \in {"Received", "Discrepancy"}
          /\ old.status \in Active
      BY <1>1, <1>5 DEF ReceiveWrite, Request, Placing, PlacingPc, Idle, RequestSound,
                        ReceiveSound, EditFresh, old
    <2>3. e \in DispatchEntry
      BY <1>3, <2>2 DEF DispatchEntry, Status, Received
    <2>4. Moves(old, e)
      BY <1>3, <2>2 DEF DispatchEntry, Moves
    <2> QED
      BY <1>2, <1>3, <2>1, <2>3, <2>4 DEF old
  <1>6. CASE CancelWrite(p)
    <2> DEFINE e == [old EXCEPT !.status = "Cancelled"]
    <2>1. dispatches' = [dispatches EXCEPT ![r.id] = e]
      BY <1>2, <1>3, <1>6 DEF CancelWrite, Commit, old
    <2>2. old.status \in Active
      BY <1>1, <1>6 DEF CancelWrite, EditFresh, old
    <2>3. e \in DispatchEntry
      BY <1>3 DEF DispatchEntry, Status
    <2>4. Moves(old, e)
      BY <1>3, <2>2 DEF DispatchEntry, Moves
    <2> QED
      BY <1>2, <1>3, <2>1, <2>3, <2>4 DEF old
  <1>7. CASE CompleteWrite(p)
    <2> DEFINE e == [old EXCEPT !.status = "Completed"]
    <2>1. dispatches' = [dispatches EXCEPT ![r.id] = e]
      BY <1>2, <1>3, <1>7 DEF CompleteWrite, Commit, old
    <2>2. Completable(old)
      BY <1>1, <1>7 DEF CompleteWrite, EditFresh, old
    <2>3. e \in DispatchEntry
      BY <1>3 DEF DispatchEntry, Status, Received
    <2>4. Moves(old, e)
      BY <1>3, <2>2 DEF DispatchEntry, Moves
    <2> QED
      BY <1>2, <1>3, <2>1, <2>3, <2>4 DEF old
  <1>8. CASE UpdateWrite(p)
    <2> DEFINE e == [old EXCEPT !.details = r.details]
    <2>1. dispatches' = [dispatches EXCEPT ![r.id] = e]
      BY <1>2, <1>3, <1>8 DEF UpdateWrite, Commit, old
    <2>2. r.details \in Details /\ old.status \in Active
      BY <1>1, <1>8 DEF UpdateWrite, Request, Placing, PlacingPc, Idle, EditFresh, old
    <2>3. e \in DispatchEntry
      BY <1>3, <2>2 DEF DispatchEntry
    <2>4. Moves(old, e)
      BY <1>3, <2>2 DEF DispatchEntry, Moves
    <2> QED
      BY <1>2, <1>3, <2>1, <2>3, <2>4 DEF old
  <1> QED
    BY <1>4, <1>5, <1>6, <1>7, <1>8

\* With no other request under way, nothing is left to rely on after a write.
LEMMA NothingPending ==
    ASSUME OneAtATime, CustodyInv, NEW p \in Procs, req' = [req EXCEPT ![p] = Idle]
    PROVE  \A q \in Procs : RequestFresh(req[q], available[q])'
  <1>1. \A q \in Procs : req'[q] = Idle
    BY DEF OneAtATime, CustodyInv, TypeOK
  <1> QED
    BY <1>1 DEF RequestFresh, EditFresh, Idle, PlacingPc

\* A move of one entry keeps the promise, and past entries as they were.
LEMMA MoveKeeps ==
    ASSUME OneAtATime, SerialInv, CustodyInv', NEW id \in Ids, NEW e \in DispatchEntry,
           dispatches[id] \in DispatchEntry,
           dispatches' = [dispatches EXCEPT ![id] = e], Moves(dispatches[id], e),
           NEW p \in Procs, req' = [req EXCEPT ![p] = Idle]
    PROVE  SerialInv' /\ PastKept
  <1>1. /\ Ids' = Ids
        /\ dispatches'[id] = e
        /\ \A d \in Ids : d # id => dispatches'[d] = dispatches[d]
    BY DEF SerialInv, CustodyInv, TypeOK, Ids
  <1>2. UnreceivedIsOpen'
    <2>1. UnreceivedIsOpen /\ (e.status \in Active \cup {"Cancelled"} => e.received = NotReceived)
      BY DEF SerialInv, UnreceivedIsOpen, Moves, Completable, Active
    <2> QED
      BY <1>1, <2>1 DEF UnreceivedIsOpen
  <1>3. NoDuplicateActive'
    <2>1. NoDuplicateActive /\ (e.status \in Active => dispatches[id].status \in Active)
      BY DEF SerialInv, Moves, Active
    <2> QED
      BY <1>1, <2>1 DEF NoDuplicateActive, Moves
  <1>4. ASSUME NEW i, NEW n
        PROVE  /\ QuantitySent(i, n)' <= QuantitySent(i, n)
               /\ QuantityReceived(i, n) <= QuantityReceived(i, n)'
               /\ QuantitySent(i, n)' \in Nat /\ QuantitySent(i, n) \in Nat
               /\ QuantityReceived(i, n)' \in Nat /\ QuantityReceived(i, n) \in Nat
    <2>1. /\ QuantitySent(i, n) \in Nat /\ QuantityReceived(i, n) \in Nat
          /\ QuantitySent(i, n)' \in Nat /\ QuantityReceived(i, n)' \in Nat
      <3>1. CustodyInv => QuantitySent(i, n) \in Nat /\ QuantityReceived(i, n) \in Nat
        BY SumsAreNumbers
      <3>2. (CustodyInv => QuantitySent(i, n) \in Nat /\ QuantityReceived(i, n) \in Nat)'
        BY SumsAreNumbers, PTL
      <3> QED
        BY <3>1, <3>2 DEF SerialInv
    <2>2. QuantitySent(i, n)' = QuantitySent(i, n)
                                + (IF id \in Sent(i, n)' THEN QuantityOf'[id] ELSE 0)
                                - (IF id \in Sent(i, n) THEN QuantityOf[id] ELSE 0)
      BY <1>1, SumsAfterWrite DEF SerialInv
    <2>3. QuantityReceived(i, n)' = QuantityReceived(i, n)
                                + (IF id \in InCustody(i, n)' THEN ReceiptOf'[id] ELSE 0)
                                - (IF id \in InCustody(i, n) THEN ReceiptOf[id] ELSE 0)
      BY <1>1, SumsAfterWrite DEF SerialInv
    <2>4. /\ QuantityOf'[id] = QuantityOf[id] /\ QuantityOf[id] \in Nat
          /\ id \in Sent(i, n)' => id \in Sent(i, n)
      BY <1>1 DEF QuantityOf, Sent, Moves, DispatchEntry, Active, Completable, Received
    <2>5. /\ ReceiptOf'[id] \in Nat /\ ReceiptOf[id] \in Nat
          /\ id \in InCustody(i, n) => /\ id \in InCustody(i, n)'
                                       /\ ReceiptOf'[id] = ReceiptOf[id]
      BY <1>1 DEF ReceiptOf, InCustody, Consignments, Moves, DispatchEntry, Active,
                  Completable, Received
    <2> HIDE DEF QuantityOf, ReceiptOf
    <2>6. QuantitySent(i, n)' <= QuantitySent(i, n)
      BY <2>1, <2>2, <2>4
    <2>7. QuantityReceived(i, n) <= QuantityReceived(i, n)'
      BY <2>1, <2>3, <2>5
    <2> QED
      BY <2>1, <2>6, <2>7
  <1>5. StockKept'
    <2>1. \A i \in Issues : Senders(i)' = Senders(i)
      BY <1>1 DEF Senders, Moves
    <2> QED
      BY <1>4, <2>1, TotalCopiesAssumption
         DEF SerialInv, StockKept, CentralStock, NodeStock, IsRoot
  <1>6. \A q \in Procs : RequestFresh(req[q], available[q])'
    BY NothingPending DEF SerialInv
  <1>7. PastKept
    <2>1. ASSUME dispatches[id].status \in Received \cup {"Cancelled"}
          PROVE  /\ e.received = dispatches[id].received /\ e.details = dispatches[id].details
                 /\ \/ /\ dispatches[id].status \in {"Received", "Discrepancy"}
                       /\ e.status = "Completed"
                    \/ dispatches[id].status = "Forwarded" /\ e.status = "Completed"
      BY <2>1 DEF Moves, Active, Completable, Received
    <2> QED
      BY <1>1, <2>1 DEF PastKept
  <1> QED
    BY <1>2, <1>3, <1>5, <1>6, <1>7 DEF SerialInv

\* After an insert: the new entry is the last, and at most one entry, which the
\* forward had found received, is now marked Forwarded.
LEMMA InsertShape ==
    ASSUME SerialInv, NEW p \in Procs, Insert(p)
    PROVE  \E r \in Placing, a \in Nat :
               /\ r = req[p] /\ r.pc = "insert" /\ PlacingSound(r)
               /\ PlacingFresh(r, available[p])
               /\ a = Len(dispatches) + 1
               /\ Ids' = Ids \cup {a} /\ a \notin Ids
               /\ r.entry \in DispatchEntry
               /\ dispatches'[a] = r.entry
               /\ r.source # 0 => r.source \in Ids /\ dispatches'[r.source].status = "Forwarded"
               /\ \A d \in Ids :
                      /\ dispatches[d] \in DispatchEntry /\ dispatches'[d] \in DispatchEntry
                      /\ <<dispatches'[d].issue, dispatches'[d].from, dispatches'[d].to>>
                         = <<dispatches[d].issue, dispatches[d].from, dispatches[d].to>>
                      /\ dispatches'[d].quantity = dispatches[d].quantity
                      /\ dispatches'[d].received = dispatches[d].received
                      /\ dispatches'[d].details = dispatches[d].details
                      /\ \/ dispatches'[d].status = dispatches[d].status
                         \/ /\ r.source # 0 /\ d = r.source
                            /\ dispatches[d].status \in {"Received", "Discrepancy"}
                            /\ dispatches'[d].status = "Forwarded"
  <1>0. CustodyInv
    BY DEF SerialInv
  <1>1. /\ dispatches \in Seq(DispatchEntry) /\ dispatches' \in Seq(DispatchEntry)
        /\ req[p] \in Placing /\ PlacingSound(req[p]) /\ req[p].pc = "insert"
        /\ req[p].entry \in DispatchEntry /\ req[p].source \in Nat
        /\ Len(dispatches') = Len(dispatches) + 1
        /\ dispatches'[Len(dispatches) + 1] = req[p].entry
    BY <1>0, InsertedTable
  <1>2. /\ \A d \in Ids : \/ dispatches'[d] = dispatches[d]
                          \/ /\ d = req[p].source /\ req[p].source # 0
                             /\ req[p].seen # "Forwarded"
                             /\ dispatches'[d] = [dispatches[d] EXCEPT !.status = "Forwarded"]
        /\ req[p].source # 0 /\ req[p].seen # "Forwarded" =>
               dispatches'[req[p].source]
                 = [dispatches[req[p].source] EXCEPT !.status = "Forwarded"]
    BY <1>0, InsertedTable
  <1>3. PlacingFresh(req[p], available[p])
    BY <1>1 DEF SerialInv, RequestFresh, PlacingPc
  <1>4. PICK r \in Placing, a \in Nat : r = req[p] /\ a = Len(dispatches) + 1
    BY <1>1
  <1>5. Ids' = Ids \cup {a} /\ a \notin Ids
    BY <1>1, <1>4 DEF Ids
  <1>6. \A d \in Ids : dispatches[d] \in DispatchEntry /\ dispatches'[d] \in DispatchEntry
    BY <1>1, <1>5 DEF Ids
  <1>7. r.source # 0 => /\ r.source \in Ids
                        /\ dispatches[r.source].status = r.seen
                        /\ r.seen \in {"Received", "Discrepancy", "Forwarded"}
    BY <1>1, <1>3, <1>4 DEF PlacingSound, PlacingFresh
  <1>8. r.source # 0 => dispatches'[r.source].status = "Forwarded"
    <2>1. CASE r.seen = "Forwarded"
      BY <1>2, <1>4, <1>7, <2>1
    <2>2. CASE r.seen # "Forwarded"
      BY <1>2, <1>4, <1>6, <1>7, <2>2 DEF DispatchEntry
    <2> QED
      BY <2>1, <2>2
  <1>9. ASSUME NEW d \in Ids
        PROVE  /\ <<dispatches'[d].issue, dispatches'[d].from, dispatches'[d].to>>
                  = <<dispatches[d].issue, dispatches[d].from, dispatches[d].to>>
               /\ dispatches'[d].quantity = dispatches[d].quantity
               /\ dispatches'[d].received = dispatches[d].received
               /\ dispatches'[d].details = dispatches[d].details
               /\ \/ dispatches'[d].status = dispatches[d].status
                  \/ /\ r.source # 0 /\ d = r.source
                     /\ dispatches[d].status \in {"Received", "Discrepancy"}
                     /\ dispatches'[d].status = "Forwarded"
    <2>1. CASE dispatches'[d] = dispatches[d]
      BY <2>1
    <2>2. CASE /\ d = r.source /\ r.source # 0 /\ r.seen # "Forwarded"
               /\ dispatches'[d] = [dispatches[d] EXCEPT !.status = "Forwarded"]
      BY <1>6, <1>7, <2>2 DEF DispatchEntry
    <2> QED
      BY <1>2, <1>4, <2>1, <2>2
  <1> QED
    BY <1>1, <1>3, <1>4, <1>5, <1>6, <1>7, <1>8, <1>9

\* What the two sums become when a consignment is entered.
LEMMA SumsAfterInsert ==
    ASSUME SerialInv, CustodyInv', NEW p \in Procs, Insert(p), NEW i, NEW n
    PROVE  /\ QuantitySent(i, n) \in Nat /\ QuantityReceived(i, n) \in Nat
           /\ QuantityReceived(i, n)' = QuantityReceived(i, n)
           /\ QuantitySent(i, n)' = QuantitySent(i, n)
                + (IF req[p].entry.issue = i /\ req[p].entry.from = n
                   THEN req[p].entry.quantity ELSE 0)
  <1>1. PICK r \in Placing, a \in Nat :
            /\ r = req[p] /\ PlacingSound(r)
            /\ Ids' = Ids \cup {a} /\ a \notin Ids
            /\ r.entry \in DispatchEntry
            /\ dispatches'[a] = r.entry
            /\ \A d \in Ids :
                   /\ <<dispatches'[d].issue, dispatches'[d].from, dispatches'[d].to>>
                      = <<dispatches[d].issue, dispatches[d].from, dispatches[d].to>>
                   /\ dispatches'[d].quantity = dispatches[d].quantity
                   /\ dispatches'[d].received = dispatches[d].received
                   /\ \/ dispatches'[d].status = dispatches[d].status
                      \/ /\ dispatches[d].status \in {"Received", "Discrepancy"}
                         /\ dispatches'[d].status = "Forwarded"
    BY InsertShape
  <1>2. CustodyInv
    BY DEF SerialInv
  <1>3. QuantitySent(i, n) \in Nat /\ QuantityReceived(i, n) \in Nat
    BY <1>2, SumsAreNumbers
  <1>4. /\ QuantitySent(i, n)' = QuantitySent(i, n)
                                 + (IF a \in Sent(i, n)' THEN QuantityOf'[a] ELSE 0)
                                 - (IF a \in Sent(i, n) THEN QuantityOf[a] ELSE 0)
        /\ QuantityReceived(i, n)' = QuantityReceived(i, n)
                                 + (IF a \in InCustody(i, n)' THEN ReceiptOf'[a] ELSE 0)
                                 - (IF a \in InCustody(i, n) THEN ReceiptOf[a] ELSE 0)
    <2>1. \A d \in Ids \ {a} :
               /\ <<dispatches'[d].issue, dispatches'[d].from, dispatches'[d].to>>
                  = <<dispatches[d].issue, dispatches[d].from, dispatches[d].to>>
               /\ dispatches'[d].quantity = dispatches[d].quantity
               /\ dispatches'[d].received = dispatches[d].received
               /\ \/ dispatches'[d].status = dispatches[d].status
                  \/ {dispatches'[d].status, dispatches[d].status} \subseteq Received
      BY <1>1 DEF Received
    <2> QED
      BY <1>1, <1>2, <2>1, SumsAfterWrite
  <1>5. /\ a \notin Sent(i, n) /\ a \notin InCustody(i, n) /\ a \notin InCustody(i, n)'
        /\ a \in Sent(i, n)' <=> r.entry.issue = i /\ r.entry.from = n
        /\ QuantityOf'[a] = r.entry.quantity /\ r.entry.quantity \in Nat
    BY <1>1 DEF Sent, InCustody, Consignments, QuantityOf, PlacingSound, Received, DispatchEntry
  <1> QED
    BY <1>1, <1>3, <1>4, <1>5

\* An insert whose checks are still true keeps the promise.
LEMMA InsertKeeps ==
    ASSUME OneAtATime, SerialInv, CustodyInv', NEW p \in Procs, Insert(p)
    PROVE  SerialInv' /\ PastKept
  <1>1. PICK r \in Placing, a \in Nat :
            /\ r = req[p] /\ r.pc = "insert" /\ PlacingSound(r)
            /\ PlacingFresh(r, available[p])
            /\ Ids' = Ids \cup {a} /\ a \notin Ids
            /\ r.entry \in DispatchEntry
            /\ dispatches'[a] = r.entry
            /\ \A d \in Ids :
                   /\ <<dispatches'[d].issue, dispatches'[d].from, dispatches'[d].to>>
                      = <<dispatches[d].issue, dispatches[d].from, dispatches[d].to>>
                   /\ dispatches'[d].received = dispatches[d].received
                   /\ dispatches'[d].details = dispatches[d].details
                   /\ \/ dispatches'[d].status = dispatches[d].status
                      \/ /\ dispatches[d].status \in {"Received", "Discrepancy"}
                         /\ dispatches'[d].status = "Forwarded"
    BY InsertShape
  <1>2. UnreceivedIsOpen'
    BY <1>1 DEF SerialInv, UnreceivedIsOpen, PlacingSound, Active
  <1>3. NoDuplicateActive'
    <2>1. NoDuplicateActive /\ ~ActiveDuplicate(r.entry)
      BY <1>1 DEF SerialInv, PlacingFresh
    <2>2. \A d \in Ids : dispatches'[d].status \in Active => dispatches[d].status \in Active
      BY <1>1 DEF Active
    <2> QED
      BY <1>1, <2>1, <2>2 DEF NoDuplicateActive, ActiveDuplicate
  <1>4. \/ InStock(r.entry)
        \/ r.entry.from # Null /\ IsRoot(r.entry.from)
    BY <1>1 DEF PlacingFresh
  <1>5. r.entry.quantity \in Nat
    BY <1>1 DEF DispatchEntry
  <1>6. CentralStock'
    <2> SUFFICES ASSUME NEW i \in Issues PROVE QuantitySent(i, Null)' <= TotalCopies[i]
      BY DEF CentralStock
    <2>1. QuantitySent(i, Null) <= TotalCopies[i] /\ TotalCopies[i] \in Nat
      BY TotalCopiesAssumption DEF SerialInv, StockKept, CentralStock
    <2> QED
      BY <1>1, <1>4, <1>5, <2>1, SumsAfterInsert DEF InStock
  <1>7. NodeStock'
    <2> SUFFICES ASSUME NEW i \in Issues, NEW n \in Senders(i)' \ {Null}, ~IsRoot(n)
                 PROVE  QuantitySent(i, n)' <= QuantityReceived(i, n)'
      BY DEF NodeStock, IsRoot
    <2>1. CASE r.entry.issue = i /\ r.entry.from = n
      BY <1>1, <1>4, <1>5, <2>1, SumsAfterInsert DEF InStock
    <2>2. CASE ~(r.entry.issue = i /\ r.entry.from = n)
      <3>1. n \in Senders(i)
        BY <1>1, <2>2 DEF Senders
      <3>2. QuantitySent(i, n) <= QuantityReceived(i, n)
        BY <3>1 DEF SerialInv, StockKept, NodeStock
      <3> QED
        BY <1>1, <2>2, <3>2, SumsAfterInsert
    <2> QED
      BY <2>1, <2>2
  <1>8. \A q \in Procs : RequestFresh(req[q], available[q])'
    BY NothingPending DEF SerialInv, Insert, Commit
  <1>9. PastKept
    BY <1>1 DEF PastKept
  <1> QED
    BY <1>2, <1>3, <1>6, <1>7, <1>8, <1>9 DEF SerialInv, StockKept

\* The first query of create and forward: the route they name is a route.
LEMMA PlacingBegins ==
    ASSUME OneAtATime, SerialInv, CustodyInv', NEW p \in Procs, Create(p) \/ Forward(p)
    PROVE  SerialInv'
  <1>1. CASE Create(p)
    <2>1. PICK i \in Issues, q \in Quantities \ {0}, to \in Points, d \in Details :
            \/ /\ Rank[to] = PrantRank
               /\ Begin(p, Place("central", 0, "Dispatched", NewEntry(i, Null, to, q, d)))
            \/ \E from \in Points :
                 /\ DownstreamRoute(from, to)
                 /\ Begin(p, Place(IF IsRoot(from) THEN "duplicate" ELSE "upstream",
                                   0, "Dispatched", NewEntry(i, from, to, q, d)))
      BY <1>1 DEF Create
    <2>2. PICK from \in Nodes \cup {Null}, pc \in {"central", "duplicate", "upstream"} :
            /\ Begin(p, Place(pc, 0, "Dispatched", NewEntry(i, from, to, q, d)))
            /\ <<from, to>> \in Routes
            /\ pc = "upstream" => from # Null
            /\ pc = "duplicate" => from # Null /\ IsRoot(from)
      <3>1. CASE /\ Rank[to] = PrantRank
                 /\ Begin(p, Place("central", 0, "Dispatched", NewEntry(i, Null, to, q, d)))
        BY <3>1, PointsAssumption DEF Routes
      <3>2. ASSUME NEW from \in Points, DownstreamRoute(from, to)
            PROVE  from \in Nodes /\ from # Null /\ <<from, to>> \in Routes
        BY <3>2, PointsAssumption, NullAssumption DEF Routes, DownstreamRoute
      <3>3. CASE \E from \in Points :
                   /\ DownstreamRoute(from, to)
                   /\ Begin(p, Place(IF IsRoot(from) THEN "duplicate" ELSE "upstream",
                                     0, "Dispatched", NewEntry(i, from, to, q, d)))
        BY <3>2, <3>3
      <3> QED
        BY <2>1, <3>1, <3>3
    <2> DEFINE r == Place(pc, 0, "Dispatched", NewEntry(i, from, to, q, d))
    <2>3. RequestFresh(r, available'[p])
      BY <2>2 DEF RequestFresh, PlacingFresh, EditFresh, Place, NewEntry, PlacingPc
    <2> HIDE DEF r
    <2>4. req'[p] = r /\ UNCHANGED dispatches
      BY <2>2 DEF Begin, SerialInv, CustodyInv, TypeOK, r
    <2> QED
      BY <2>3, <2>4, QueryKeeps
  <1>2. CASE Forward(p)
    <2>1. PICK s \in Ids, q \in Quantities \ {0}, to \in Points, d \in Details :
            /\ dispatches[s].status \in {"Received", "Discrepancy", "Forwarded"}
            /\ DownstreamRoute(dispatches[s].to, to)
            /\ Begin(p, Place("upstream", s, dispatches[s].status,
                              NewEntry(dispatches[s].issue, dispatches[s].to, to, q, d)))
      BY <1>2 DEF Forward
    <2> DEFINE r == Place("upstream", s, dispatches[s].status,
                          NewEntry(dispatches[s].issue, dispatches[s].to, to, q, d))
    <2>2. dispatches[s].to \in Nodes
      <3>1. dispatches[s] \in DispatchEntry
        BY DEF SerialInv, CustodyInv, TypeOK, Ids
      <3> QED
        BY <3>1 DEF DispatchEntry
    <2>3. <<dispatches[s].to, to>> \in Routes /\ dispatches[s].to # Null
      BY <2>1, <2>2, PointsAssumption, NullAssumption DEF Routes, DownstreamRoute
    <2>4. RequestFresh(r, available'[p])
      BY <2>1, <2>3 DEF RequestFresh, PlacingFresh, EditFresh, Place, NewEntry, PlacingPc
    <2> HIDE DEF r
    <2>5. req'[p] = r /\ UNCHANGED dispatches
      BY <2>1 DEF Begin, SerialInv, CustodyInv, TypeOK, r
    <2> QED
      BY <2>4, <2>5, QueryKeeps
  <1> QED
    BY <1>1, <1>2

\* The queries between the first one and the insert: each finds out what the
\* insert will rely on, and nobody else can make it untrue.
LEMMA ChecksLearn ==
    ASSUME OneAtATime, SerialInv, CustodyInv', NEW p \in Procs,
           CheckCentral(p) \/ CheckUpstream(p) \/ CheckDownstream(p) \/ CheckDuplicate(p)
    PROVE  SerialInv'
  <1> DEFINE r == req[p]
             e == r.entry
             next(pc) == [r EXCEPT !.pc = pc]
  <1>1. r \in Placing /\ PlacingSound(r) /\ PlacingFresh(r, available[p])
    <2>1. r.pc \in {"central", "upstream", "downstream", "duplicate"}
      BY DEF CheckCentral, CheckUpstream, CheckDownstream, CheckDuplicate
    <2>2. r \in Request /\ RequestSound(r) /\ RequestFresh(r, available[p])
      BY DEF SerialInv, CustodyInv, TypeOK
    <2> QED
      BY <2>1, <2>2 DEF RequestSound, RequestFresh, PlacingPc, Request, Idle
  <1>2. /\ req \in [Procs -> Request] /\ available \in [Procs -> Nat]
        /\ UNCHANGED dispatches
    BY DEF SerialInv, CustodyInv, TypeOK, CheckCentral, CheckUpstream, CheckDownstream,
           CheckDuplicate, Continue
  <1>3. \A pc \in PlacingPc : /\ next(pc).pc = pc
                              /\ next(pc).entry = e
                              /\ next(pc).source = r.source
                              /\ next(pc).seen = r.seen
    BY <1>1 DEF Placing
  <1>4. /\ <<e.from, e.to>> \in Routes
        /\ r.source # 0 => /\ dispatches[r.source].status = r.seen
                           /\ r.seen \in {"Received", "Discrepancy", "Forwarded"}
    BY <1>1 DEF PlacingFresh
  <1>5. RequestFresh(Idle, available'[p])
    BY DEF RequestFresh, EditFresh, Idle, PlacingPc
  <1> HIDE DEF next
  <1>6. CASE CheckCentral(p)
    <2>1. e.from = Null
      BY <1>1, <1>6 DEF CheckCentral, PlacingSound
    <2>2. \/ req'[p] = next("duplicate") /\ InStock(e)
          \/ req'[p] = Idle
      BY <1>2, <1>6, <2>1 DEF CheckCentral, Continue, InStock, next
    <2>3. InStock(e) => RequestFresh(next("duplicate"), available'[p])
      BY <1>3, <1>4 DEF RequestFresh, PlacingFresh, EditFresh, PlacingPc
    <2> QED
      BY <1>2, <1>5, <2>2, <2>3, QueryKeeps
  <1>7. CASE CheckUpstream(p)
    <2>1. e.from # Null
      BY <1>1, <1>7 DEF CheckUpstream, PlacingFresh
    <2>2. \/ /\ req'[p] = next("downstream")
             /\ available'[p] = QuantityReceived(e.issue, e.from)
          \/ req'[p] = Idle
      BY <1>2, <1>7 DEF CheckUpstream, Continue, next
    <2>3. available'[p] = QuantityReceived(e.issue, e.from)
            => RequestFresh(next("downstream"), available'[p])
      BY <1>3, <1>4, <2>1 DEF RequestFresh, PlacingFresh, EditFresh, PlacingPc
    <2> QED
      BY <1>2, <1>5, <2>2, <2>3, QueryKeeps
  <1>8. CASE CheckDownstream(p)
    <2>1. e.from # Null /\ available[p] = QuantityReceived(e.issue, e.from)
      BY <1>1, <1>8 DEF CheckDownstream, PlacingFresh
    <2>2. \/ req'[p] = next("duplicate") /\ InStock(e)
          \/ req'[p] = Idle
      BY <1>2, <1>8, <2>1 DEF CheckDownstream, Continue, InStock, next
    <2>3. InStock(e) => RequestFresh(next("duplicate"), available'[p])
      BY <1>3, <1>4 DEF RequestFresh, PlacingFresh, EditFresh, PlacingPc
    <2> QED
      BY <1>2, <1>5, <2>2, <2>3, QueryKeeps
  <1>9. CASE CheckDuplicate(p)
    <2>1. \/ InStock(e)
          \/ r.source = 0 /\ e.from # Null /\ IsRoot(e.from)
      BY <1>1, <1>9 DEF CheckDuplicate, PlacingFresh
    <2>2. \/ req'[p] = next("insert") /\ ~ActiveDuplicate(e)
          \/ req'[p] = Idle
      BY <1>2, <1>9 DEF CheckDuplicate, Continue, next
    <2>3. ~ActiveDuplicate(e) => RequestFresh(next("insert"), available'[p])
      BY <1>3, <1>4, <2>1 DEF RequestFresh, PlacingFresh, EditFresh, PlacingPc
    <2> QED
      BY <1>2, <1>5, <2>2, <2>3, QueryKeeps
  <1> QED
    BY <1>6, <1>7, <1>8, <1>9

\* The first query of the other handlers: the entry has the status it asks for.
LEMMA EditBegins ==
    ASSUME OneAtATime, SerialInv, CustodyInv', NEW p \in Procs,
           SetInTransit(p) \/ Receive(p) \/ Cancel(p) \/ Complete(p) \/ Update(p)
    PROVE  SerialInv'
  <1>1. /\ req \in [Procs -> Request] /\ UNCHANGED dispatches
        /\ \A d \in Ids : dispatches[d].status \in Status
    <2>1. req \in [Procs -> Request] /\ \A d \in Ids : dispatches[d] \in DispatchEntry
      BY DEF SerialInv, CustodyInv, TypeOK, Ids
    <2>2. UNCHANGED dispatches
      BY DEF SetInTransit, Receive, Cancel, Complete, Update, Begin
    <2> QED
      BY <2>1, <2>2 DEF DispatchEntry
  <1>2. RequestFresh(req'[p], available'[p])
    <2> USE DEF RequestFresh, EditFresh, PlacingPc, Begin
    <2>1. CASE SetInTransit(p)
      BY <1>1, <2>1 DEF SetInTransit
    <2>2. CASE Receive(p)
      BY <1>1, <2>2 DEF Receive
    <2>3. CASE Cancel(p)
      BY <1>1, <2>3 DEF Cancel, Status
    <2>4. CASE Complete(p)
      BY <1>1, <2>4 DEF Complete
    <2>5. CASE Update(p)
      BY <1>1, <2>5 DEF Update, Status
    <2> QED
      BY <2>1, <2>2, <2>3, <2>4, <2>5
  <1> QED
    BY <1>1, <1>2, QueryKeeps

-----------------------------------------------------------------------------
(* One request at a time implements the atomic ledger *)

\* What each status is called in the ledger.
LEMMA Stages ==
    /\ \A s \in Active : Stage[s] = "moving"
    /\ Stage["Received"] = "held" /\ Stage["Discrepancy"] = "held"
    /\ Stage["Forwarded"] = "passed"
    /\ Stage["Completed"] = "closed"
    /\ Stage["Cancelled"] = "void"
  BY DEF Stage, Status, Active, Received

\* The lines an entry can be.
Lines == {Line(e) : e \in DispatchEntry}

\* The book is the table, line by line.
LEMMA BookIsTable ==
    CustodyInv => /\ Book \in Seq(Lines) /\ DOMAIN Book = Ids
                  /\ Len(Book) = Len(dispatches)
                  /\ \A d \in Ids : Book[d] = Line(dispatches[d])
  <1> SUFFICES ASSUME CustodyInv
               PROVE  /\ Book \in Seq(Lines) /\ DOMAIN Book = Ids
                      /\ Len(Book) = Len(dispatches)
                      /\ \A d \in Ids : Book[d] = Line(dispatches[d])
    OBVIOUS
  <1>1. dispatches \in Seq(DispatchEntry)
    BY DEF CustodyInv, TypeOK
  <1>2. PICK n \in Nat : n = Len(dispatches) /\ Ids = 1..n
    BY <1>1 DEF Ids
  <1>3. \A d \in 1..n : Line(dispatches[d]) \in Lines
    BY <1>1, <1>2 DEF Lines
  <1>4. Book \in [1..n -> Lines]
    BY <1>2, <1>3 DEF Book
  <1>5. Book \in Seq(Lines) /\ Len(Book) = n
    BY <1>4
  <1> QED
    BY <1>2, <1>5 DEF Book

\* The fields of a line.
LEMMA LineFields ==
    ASSUME NEW e
    PROVE  /\ Line(e).issue = e.issue
           /\ Line(e).route = <<e.from, e.to>>
           /\ Line(e).copies = e.quantity
           /\ Line(e).taken = IF e.received = NotReceived THEN 0 ELSE e.received
           /\ Line(e).state = Stage[e.status]
  BY DEF Line

\* The ledger's sums are these sums.
LEMMA LedgerSum == \A f, S : Ledger!SumFunctionOnSet(f, S) = SumFunctionOnSet(f, S)
  BY DEF Ledger!SumFunctionOnSet, Ledger!FoldFunctionOnSet, Ledger!MapThenFoldSet,
         SumFunctionOnSet, FoldFunctionOnSet, MapThenFoldSet

\* The ledger counts the same copies as validateUpstreamReceiptAndStock.
LEMMA LedgerCounts ==
    ASSUME SerialInv, NEW i, NEW n
    PROVE  /\ Ledger!SentFrom(i, n) = QuantitySent(i, n)
           /\ Ledger!TakenAt(i, n) = QuantityReceived(i, n)
  <1>1. /\ DOMAIN Book = Ids
        /\ \A d \in Ids : Book[d] = Line(dispatches[d])
    BY BookIsTable DEF SerialInv
  <1>2. \A d \in Ids : dispatches[d] \in DispatchEntry
    BY DEF SerialInv, CustodyInv, TypeOK, Ids
  <1>3. IsFiniteSet(Ids)
    <2>1. dispatches \in Seq(DispatchEntry)
      BY DEF SerialInv, CustodyInv, TypeOK
    <2>2. Ids = 1..Len(dispatches) /\ Len(dispatches) \in Nat
      BY <2>1 DEF Ids
    <2>3. \A m \in Nat : IsFiniteSet(1..m)
      BY FS_Interval
    <2> QED
      BY <2>2, <2>3
  <1>4. \A d \in Ids : Stage[dispatches[d].status] = "void" <=> dispatches[d].status = "Cancelled"
    BY <1>2, Stages DEF DispatchEntry, Status, Received
  <1>5. Ledger!SentFrom(i, n) = QuantitySent(i, n)
    <2> DEFINE T == {l \in DOMAIN Book : /\ Book[l].issue = i
                                         /\ Book[l].route[1] = n
                                         /\ Book[l].state # "void"}
               f == [l \in DOMAIN Book |-> Book[l].copies]
    <2>1. Ledger!SentFrom(i, n) = SumFunctionOnSet(f, T)
      BY LedgerSum DEF Ledger!SentFrom, Ledger!Lines, Ledger!Source
    <2>2. T = Sent(i, n)
      BY <1>1, <1>4, LineFields DEF Sent
    <2>3. f = QuantityOf
      BY <1>1, LineFields DEF QuantityOf
    <2> QED
      BY <2>1, <2>2, <2>3 DEF QuantitySent
  <1>6. Ledger!TakenAt(i, n) = QuantityReceived(i, n)
    <2> DEFINE T == {l \in DOMAIN Book : Book[l].issue = i /\ Book[l].route[2] = n}
               f == [l \in DOMAIN Book |-> Book[l].taken]
    <2>1. Ledger!TakenAt(i, n) = SumFunctionOnSet(f, T)
      BY LedgerSum DEF Ledger!TakenAt, Ledger!Lines, Ledger!Target
    <2>2. T = Consignments(i, n)
      BY <1>1, LineFields DEF Consignments
    <2>3. f = ReceiptOf
      BY <1>1, LineFields DEF ReceiptOf
    <2>4. /\ IsFiniteSet(Consignments(i, n))
          /\ InCustody(i, n) \subseteq Consignments(i, n)
          /\ \A d \in Consignments(i, n) : ReceiptOf[d] \in Int
      <3>1. Consignments(i, n) \subseteq Ids
        BY DEF Consignments
      <3> QED
        BY <1>2, <1>3, <3>1, FS_Subset DEF InCustody, ReceiptOf, DispatchEntry
    <2>5. \A d \in Consignments(i, n) \ InCustody(i, n) : ReceiptOf[d] = 0
      BY <1>2 DEF Consignments, InCustody, ReceiptOf, DispatchEntry, Status,
                  SerialInv, UnreceivedIsOpen
    <2> QED
      BY <2>1, <2>2, <2>3, <2>4, <2>5, SumZeros DEF QuantityReceived
  <1> QED
    BY <1>5, <1>6

\* A move of one entry is a step of the ledger, or none.
LEMMA MoveIsLedgerStep ==
    ASSUME CustodyInv, CustodyInv', UnreceivedIsOpen, NEW id \in Ids, NEW e \in DispatchEntry,
           dispatches[id] \in DispatchEntry,
           dispatches' = [dispatches EXCEPT ![id] = e], Moves(dispatches[id], e)
    PROVE  [Ledger!Next]_Book
  <1> DEFINE old == dispatches[id]
  <1>1. /\ Book \in Seq(Lines) /\ DOMAIN Book = Ids
        /\ \A d \in Ids : Book[d] = Line(dispatches[d])
    BY BookIsTable
  <1>2. Book' = [Book EXCEPT ![id] = Line(e)]
    <2>1. /\ Ids' = Ids
          /\ \A d \in Ids : dispatches'[d] = IF d = id THEN e ELSE dispatches[d]
      BY DEF CustodyInv, TypeOK, Ids
    <2>2. Book' = [d \in Ids |-> Line(dispatches'[d])]
      BY <2>1 DEF Book, Line
    <2>3. Book = [d \in Ids |-> Line(dispatches[d])]
      BY DEF Book
    <2> QED
      BY <2>1, <2>2, <2>3
  <1>3. Book[id] = Line(old) /\ id \in DOMAIN Book
    BY <1>1
  <1>4. ASSUME Stage[e.status] # Stage[old.status]
        PROVE  id \in {k \in Ledger!Lines : Book'[k] # Book[k]}
    <2>1. Book'[id] = Line(e)
      BY <1>1, <1>2, <1>3
    <2>2. Line(e).state # Line(old).state
      BY <1>4, LineFields
    <2> QED
      BY <1>3, <2>1, <2>2 DEF Ledger!Lines
  <1>5. CASE /\ old.status \in Active /\ e.status \in Active
             /\ e.received = old.received
    <2>1. Line(e) = Line(old)
      BY <1>5, Stages DEF Line, Moves
    <2> QED
      BY <1>1, <1>2, <1>3, <2>1
  <1>6. CASE /\ old.status \in Active /\ e.status \in {"Received", "Discrepancy"}
             /\ e.received \in Nat /\ e.received <= old.quantity
    <2>1. Line(e) = [Line(old) EXCEPT !.state = "held", !.taken = e.received]
      <3>1. /\ Stage[e.status] = "held"
            /\ (IF e.received = NotReceived THEN 0 ELSE e.received) = e.received
        BY <1>6, Stages DEF NotReceived
      <3>2. /\ e.issue = old.issue /\ e.from = old.from /\ e.to = old.to
            /\ e.quantity = old.quantity
        BY DEF Moves
      <3>3. Line(e) = [issue |-> old.issue, route |-> <<old.from, old.to>>,
                       copies |-> old.quantity, taken |-> e.received, state |-> "held"]
        BY <3>1, <3>2 DEF Line
      <3>4. PICK held : held = [Line(old) EXCEPT !.state = "held"]
        OBVIOUS
      <3>5. PICK t : held = [issue |-> old.issue, route |-> <<old.from, old.to>>,
                             copies |-> old.quantity, taken |-> t, state |-> "held"]
        BY <3>4 DEF Line
      <3>6. [Line(old) EXCEPT !.state = "held", !.taken = e.received]
              = [[Line(old) EXCEPT !.state = "held"] EXCEPT !.taken = e.received]
        OBVIOUS
      <3>7. [held EXCEPT !.taken = e.received] = Line(e)
        <4> HIDE DEF old
        <4> QED
          BY <3>3, <3>5
      <3> QED
        BY <3>4, <3>6, <3>7
    <2>2. Line(old).state = "moving" /\ Line(old).copies = old.quantity
      BY <1>6, Stages, LineFields
    <2>3. Book' = [Book EXCEPT ![id].state = "held", ![id].taken = e.received]
      BY <1>1, <1>2, <1>3, <2>1
    <2>4. Ledger!TakeIn(id, e.received)
      BY <1>3, <1>6, <2>2, <2>3 DEF Ledger!TakeIn, DispatchEntry
    <2>5. Book'[id].taken = e.received
      BY <1>1, <1>2, <1>3, <1>6, LineFields DEF NotReceived
    <2> QED
      BY <1>6, <1>4, <2>4, <2>5, Stages DEF Ledger!Next
  <1>7. CASE /\ old.status \in Active /\ e.status = "Cancelled"
             /\ e.received = old.received
    <2>1. Line(e) = [Line(old) EXCEPT !.state = "void"]
      BY <1>7, Stages DEF Line, Moves
    <2>2. Line(old).state = "moving"
      BY <1>7, Stages, LineFields
    <2>3. Book' = [Book EXCEPT ![id].state = "void"]
      BY <1>1, <1>2, <1>3, <2>1
    <2>4. Ledger!Void(id)
      BY <1>3, <2>2, <2>3 DEF Ledger!Void
    <2> QED
      BY <1>7, <1>4, <2>4, Stages DEF Ledger!Next
  <1>8. CASE Completable(old) /\ e.status = "Completed" /\ e.received = old.received
    <2>1. Line(e) = [Line(old) EXCEPT !.state = "closed"]
      BY <1>8, Stages DEF Line, Moves
    <2>2. \/ Line(old).state = "passed"
          \/ /\ Line(old).state = "held"
             /\ Line(old).route[2] \in {n \in Nodes : Rank[n] = GramRank}
      BY <1>8, Stages, LineFields DEF Completable, DispatchEntry
    <2>3. Book' = [Book EXCEPT ![id].state = "closed"]
      BY <1>1, <1>2, <1>3, <2>1
    <2>4. Ledger!Close(id)
      BY <1>3, <2>2, <2>3 DEF Ledger!Close, Ledger!Target
    <2> QED
      BY <1>4, <2>2, <2>4, <1>8, Stages, LineFields DEF Ledger!Next
  <1> QED
    BY <1>5, <1>6, <1>7, <1>8 DEF Moves

\* An insert is a Send, or for a forward a PassOn.
LEMMA InsertIsLedgerStep ==
    ASSUME SerialInv, CustodyInv', NEW p \in Procs, Insert(p)
    PROVE  Ledger!Next
  <1>1. PICK r \in Placing, a \in Nat :
            /\ r.pc = "insert" /\ PlacingSound(r)
            /\ PlacingFresh(r, available[p])
            /\ a = Len(dispatches) + 1
            /\ Ids' = Ids \cup {a} /\ a \notin Ids
            /\ r.entry \in DispatchEntry
            /\ dispatches'[a] = r.entry
            /\ r.source # 0 => r.source \in Ids /\ dispatches'[r.source].status = "Forwarded"
            /\ \A d \in Ids :
                   /\ <<dispatches'[d].issue, dispatches'[d].from, dispatches'[d].to>>
                      = <<dispatches[d].issue, dispatches[d].from, dispatches[d].to>>
                   /\ dispatches'[d].quantity = dispatches[d].quantity
                   /\ dispatches'[d].received = dispatches[d].received
                   /\ \/ dispatches'[d].status = dispatches[d].status
                      \/ /\ r.source # 0 /\ d = r.source
                         /\ dispatches[d].status \in {"Received", "Discrepancy"}
                         /\ dispatches'[d].status = "Forwarded"
    BY InsertShape
  <1>2. /\ Book \in Seq(Lines) /\ DOMAIN Book = Ids /\ Len(Book) = Len(dispatches)
        /\ \A d \in Ids : Book[d] = Line(dispatches[d])
    BY BookIsTable DEF SerialInv
  <1>3. /\ Book' \in Seq(Lines) /\ DOMAIN Book' = Ids' /\ Len(Book') = Len(dispatches')
        /\ \A d \in Ids' : Book'[d] = Line(dispatches'[d])
    <2>1. (CustodyInv => /\ Book \in Seq(Lines) /\ DOMAIN Book = Ids
                         /\ Len(Book) = Len(dispatches)
                         /\ \A d \in Ids : Book[d] = Line(dispatches[d]))'
      BY BookIsTable, PTL
    <2> QED
      BY <2>1 DEF Line, Lines
  <1> DEFINE e == Line(r.entry)
  <1>4. Len(Book') = Len(Book) + 1 /\ Book'[Len(Book')] = e
    <2>1. Len(dispatches') = a
      <3>1. dispatches \in Seq(DispatchEntry) /\ dispatches' \in Seq(DispatchEntry)
        BY DEF SerialInv, CustodyInv, TypeOK
      <3> QED
        BY <1>1, <3>1 DEF Ids
    <2> QED
      BY <1>1, <1>2, <1>3, <2>1
  <1>5. /\ e.issue = r.entry.issue /\ e.route = <<r.entry.from, r.entry.to>>
        /\ e.copies = r.entry.quantity /\ e.taken = 0 /\ e.state = "moving"
    BY <1>1, Stages, LineFields DEF PlacingSound, Active
  <1>6. e \in Ledger!Entry
    BY <1>1, <1>5 DEF Line, Ledger!Entry, PlacingFresh, DispatchEntry
  <1>7. Ledger!RouteFree(e)
    <2>1. ~ActiveDuplicate(r.entry)
      BY <1>1 DEF PlacingFresh
    <2>2. ASSUME NEW d \in Ids, Stage[dispatches[d].status] = "moving"
          PROVE  dispatches[d].status \in Active
      <3>1. dispatches[d] \in DispatchEntry
        BY DEF SerialInv, CustodyInv, TypeOK, Ids
      <3> QED
        BY <2>2, <3>1, Stages DEF DispatchEntry, Status, Received
    <2> HIDE DEF e
    <2> QED
      BY <1>2, <1>5, <2>1, <2>2, LineFields DEF ActiveDuplicate, Ledger!RouteFree, Ledger!Lines
  <1>8. \/ e.copies <= Ledger!Stock(e.issue, e.route[1])
        \/ r.source = 0 /\ e.route[1] \in {n \in Nodes : IsRoot(n)}
    <2>1. \/ InStock(r.entry)
          \/ r.source = 0 /\ r.entry.from \in Nodes /\ IsRoot(r.entry.from)
      BY <1>1 DEF PlacingFresh, DispatchEntry
    <2>2. InStock(r.entry) => e.copies <= Ledger!Stock(e.issue, e.route[1])
      BY <1>5, LedgerCounts DEF InStock, Ledger!Stock
    <2> QED
      BY <1>5, <2>1, <2>2
  <1>9. CASE r.source = 0
    <2>1. Book' = Append(Book, e)
      <3>1. \A d \in Ids : Book'[d] = Book[d]
        BY <1>1, <1>2, <1>3, <1>9 DEF Line
      <3> QED
        BY <1>2, <1>3, <1>4, <3>1
    <2>2. Ledger!Send(e)
      BY <1>7, <1>8, <2>1 DEF Ledger!Send, Ledger!Source
    <2> HIDE DEF e
    <2> QED
      BY <1>4, <1>5, <1>6, <2>2 DEF Ledger!Next
  <1>10. CASE r.source # 0
    <2> DEFINE l == r.source
               marked == [Book EXCEPT ![l].state = "passed"]
    <2>1. /\ l \in Ids /\ dispatches'[l].status = "Forwarded"
          /\ dispatches[l].status \in {"Received", "Discrepancy", "Forwarded"}
          /\ dispatches[l].issue = r.entry.issue /\ dispatches[l].to = r.entry.from
      BY <1>1, <1>10 DEF PlacingSound, PlacingFresh
    <2>2. /\ Book[l].state \in {"held", "passed"}
          /\ e.route[1] = Book[l].route[2]
          /\ e.issue = Book[l].issue
      BY <1>2, <1>5, <2>1, Stages, LineFields
    <2>3. \A d \in Ids : d # l => Book'[d] = Book[d]
      BY <1>1, <1>2, <1>3 DEF Line
    <2>4. Book'[l] = [Book[l] EXCEPT !.state = "passed"]
      <3> DEFINE old == dispatches[l]
                 new == dispatches'[l]
      <3>1. /\ Stage[new.status] = "passed" /\ new.received = old.received
            /\ new.issue = old.issue /\ new.from = old.from /\ new.to = old.to
            /\ new.quantity = old.quantity
        BY <1>1, <2>1, Stages
      <3>2. Book'[l] = Line(new) /\ Book[l] = Line(old)
        BY <1>1, <1>2, <1>3, <2>1
      <3> HIDE DEF old, new
      <3> QED
        BY <3>1, <3>2 DEF Line
    <2>5. Book' = Append(marked, e)
      <3>1. /\ marked \in Seq(Lines \cup {Book'[l]}) /\ Len(marked) = Len(Book)
            /\ \A d \in Ids : marked[d] = Book'[d]
        BY <1>2, <2>1, <2>3, <2>4
      <3> HIDE DEF marked, e
      <3> QED
        BY <1>2, <1>3, <1>4, <3>1
    <2>6. Ledger!PassOn(l, e)
      BY <1>7, <1>8, <1>10, <2>2, <2>5 DEF Ledger!PassOn, Ledger!Source, Ledger!Target
    <2>7. l \in Ledger!Lines
      BY <1>2, <2>1 DEF Ledger!Lines
    <2> HIDE DEF e
    <2> QED
      BY <1>4, <1>5, <1>6, <2>6, <2>7 DEF Ledger!Next
  <1> QED
    BY <1>9, <1>10

-----------------------------------------------------------------------------

\* A step that leaves the table alone leaves the book alone.
LEMMA TableAlone ==
    ASSUME UNCHANGED dispatches
    PROVE  PastKept /\ [Ledger!Next]_Book
  BY DEF PastKept, Received, Book, Ids, Line

\* Nothing sent, nothing received, no line in the book.
LEMMA InitSerial == Init => SerialInv /\ Book = <<>>
  <1> SUFFICES ASSUME Init PROVE SerialInv /\ Book = <<>>
    OBVIOUS
  <1>1. CustodyInv
    BY InitCustody
  <1>2. Ids = {} /\ dispatches = <<>> /\ \A p \in Procs : req[p] = Idle
    BY DEF Init, Ids
  <1>3. \A i, n : QuantitySent(i, n) = 0 /\ QuantityReceived(i, n) = 0
    BY <1>2, SumEmpty DEF QuantitySent, QuantityReceived, Sent, InCustody, Consignments
  <1>4. StockKept
    BY <1>2, <1>3, TotalCopiesAssumption DEF StockKept, CentralStock, NodeStock, Senders
  <1>5. UnreceivedIsOpen /\ NoDuplicateActive
    BY <1>2 DEF UnreceivedIsOpen, NoDuplicateActive
  <1>6. \A p \in Procs : RequestFresh(req[p], available[p])
    BY <1>2 DEF RequestFresh, EditFresh, Idle, PlacingPc
  <1>7. Book = <<>>
    BY <1>2 DEF Book
  <1> QED
    BY <1>1, <1>4, <1>5, <1>6, <1>7 DEF SerialInv

\* Every step of a request that runs alone keeps the promise, leaves the past
\* as it was, and is one step of the ledger or none.
LEMMA NextSerial ==
    ASSUME OneAtATime, SerialInv, [Next]_vars
    PROVE  SerialInv' /\ PastKept /\ [Ledger!Next]_Book
  <1>0. CustodyInv /\ CustodyInv' /\ UnreceivedIsOpen
    BY NextCustody DEF SerialInv
  <1>1. ASSUME NEW p \in Procs, Handle(p)
        PROVE  SerialInv' /\ PastKept /\ [Ledger!Next]_Book
    <2>1. CASE Create(p) \/ Forward(p)
      <3>1. UNCHANGED dispatches
        BY <2>1 DEF Create, Forward, Begin
      <3> QED
        BY <1>0, <2>1, <3>1, PlacingBegins, TableAlone
    <2>2. CASE CheckCentral(p) \/ CheckUpstream(p) \/ CheckDownstream(p) \/ CheckDuplicate(p)
      <3>1. UNCHANGED dispatches
        BY <2>2 DEF CheckCentral, CheckUpstream, CheckDownstream, CheckDuplicate, Continue
      <3> QED
        BY <1>0, <2>2, <3>1, ChecksLearn, TableAlone
    <2>3. CASE Insert(p)
      BY <1>0, <2>3, InsertKeeps, InsertIsLedgerStep
    <2>4. CASE SetInTransit(p) \/ Receive(p) \/ Cancel(p) \/ Complete(p) \/ Update(p)
      <3>1. UNCHANGED dispatches
        BY <2>4 DEF SetInTransit, Receive, Cancel, Complete, Update, Begin
      <3> QED
        BY <1>0, <2>4, <3>1, EditBegins, TableAlone
    <2>5. CASE \/ SetInTransitWrite(p) \/ ReceiveWrite(p) \/ CancelWrite(p)
               \/ CompleteWrite(p) \/ UpdateWrite(p)
      <3>1. req' = [req EXCEPT ![p] = Idle]
        BY <2>5 DEF SetInTransitWrite, ReceiveWrite, CancelWrite, CompleteWrite, UpdateWrite,
                    Commit
      <3>2. PICK id \in Ids, e \in DispatchEntry :
                /\ dispatches[id] \in DispatchEntry
                /\ dispatches' = [dispatches EXCEPT ![id] = e]
                /\ Moves(dispatches[id], e)
        BY <2>5, WriteMoves
      <3>3. SerialInv' /\ PastKept
        BY <1>0, <3>1, <3>2, MoveKeeps
      <3>4. [Ledger!Next]_Book
        BY <1>0, <3>2, MoveIsLedgerStep
      <3> QED
        BY <3>3, <3>4
    <2> QED
      BY <1>1, <2>1, <2>2, <2>3, <2>4, <2>5 DEF Handle
  <1>2. CASE \/ \E i \in Issues : PublishIssue(i) \/ ArchiveIssue(i)
             \/ UNCHANGED vars
    <2>1. UNCHANGED <<dispatches, req, available>>
      BY <1>2 DEF PublishIssue, ArchiveIssue, vars
    <2>2. \A p \in Procs : RequestFresh(req'[p], available'[p])
      BY <2>1 DEF SerialInv
    <2>3. CASE Procs # {}
      <3>1. PICK p \in Procs : TRUE
        BY <2>3
      <3>2. SerialInv'
        BY <1>0, <2>1, <2>2, QueryKeeps
      <3> QED
        BY <2>1, <3>2, TableAlone
    <2>4. CASE Procs = {}
      <3>1. \A i, n : /\ QuantitySent(i, n)' = QuantitySent(i, n)
                      /\ QuantityReceived(i, n)' = QuantityReceived(i, n)
        BY <2>1 DEF QuantitySent, QuantityReceived, QuantityOf, ReceiptOf, Sent, InCustody,
                    Consignments, Ids
      <3>2. UnreceivedIsOpen' /\ NoDuplicateActive' /\ StockKept'
        BY <2>1, <3>1 DEF SerialInv, UnreceivedIsOpen, NoDuplicateActive, StockKept,
                          CentralStock, NodeStock, Senders, Ids
      <3> QED
        BY <1>0, <2>1, <2>4, <3>2, TableAlone DEF SerialInv
    <2> QED
      BY <2>3, <2>4
  <1> QED
    BY <1>1, <1>2 DEF Next

\* One slot: what every check has found stays true until its request writes.
THEOREM SerialInvariant == OneAtATime => (Spec => []SerialInv)
  <1> SUFFICES ASSUME OneAtATime PROVE Spec => []SerialInv
    OBVIOUS
  <1>1. Init => SerialInv
    BY InitSerial
  <1>2. SerialInv /\ [Next]_vars => SerialInv'
    BY NextSerial
  <1> QED
    BY <1>1, <1>2, PTL DEF Spec

\* Requests that do not overlap never send more copies than there are.
THEOREM SerialStock == OneAtATime => (Spec => []StockKept)
  <1> SUFFICES ASSUME OneAtATime PROVE Spec => []StockKept
    OBVIOUS
  <1>1. SerialInv => StockKept
    BY DEF SerialInv
  <1> QED
    BY SerialInvariant, <1>1, PTL

\* Requests that do not overlap never put a second consignment on a route where
\* one is under way.
THEOREM SerialRoutes == OneAtATime => (Spec => []NoDuplicateActive)
  <1> SUFFICES ASSUME OneAtATime PROVE Spec => []NoDuplicateActive
    OBVIOUS
  <1>1. SerialInv => NoDuplicateActive
    BY DEF SerialInv
  <1> QED
    BY SerialInvariant, <1>1, PTL

\* Requests that do not overlap never cancel a received consignment: what
\* dispatch_cancel_race refutes takes two requests at once.
THEOREM SerialCancel == OneAtATime => (Spec => []CancelledNeverReceived)
  <1> SUFFICES ASSUME OneAtATime PROVE Spec => []CancelledNeverReceived
    OBVIOUS
  <1>1. SerialInv => CancelledNeverReceived
    BY DEF SerialInv, UnreceivedIsOpen, CancelledNeverReceived
  <1> QED
    BY SerialInvariant, <1>1, PTL

\* Requests that do not overlap leave received and cancelled consignments be.
THEOREM SerialHistory == OneAtATime => (Spec => HistoryKept)
  <1> SUFFICES ASSUME OneAtATime PROVE Spec => HistoryKept
    OBVIOUS
  <1>1. SerialInv /\ [Next]_vars => [PastKept]_vars
    BY NextSerial
  <1> QED
    BY SerialInvariant, <1>1, PTL DEF Spec, HistoryKept

\* Requests that do not overlap are as good as atomic: the service implements
\* the ledger, each request taking effect in its last step.
THEOREM SerialRefinement == OneAtATime => (Spec => ImplementsLedger)
  <1> SUFFICES ASSUME OneAtATime PROVE Spec => ImplementsLedger
    OBVIOUS
  <1>1. Init => Book = <<>>
    BY InitSerial
  <1>2. SerialInv /\ [Next]_vars => [Ledger!Next]_Book
    BY NextSerial
  <1> QED
    BY SerialInvariant, <1>1, <1>2, PTL DEF Spec, ImplementsLedger, Ledger!Spec
=============================================================================
