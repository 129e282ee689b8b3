----------------------- MODULE LedgerValidatorProofs ------------------------
(***************************************************************************)
(* What the traversal of the tangle reaches, and facts about deltas and    *)
(* the value of a set of transactions, for every tangle, every set of      *)
(* addresses and every bundle value.                                       *)
(*                                                                         *)
(* First, sums and extrema over finite sets.  SumFunctionOnSet adds the    *)
(* values in an order that CHOOSE picks; these facts make it usable in     *)
(* proofs.  Induction is replaced by a minimal counterexample: the strict  *)
(* subset order on a finite set is well founded.                           *)
(***************************************************************************)
EXTENDS LedgerValidator, FiniteSetTheorems, TLAPS

USE ZenonT(10), SMTT(60)

\* Among the members of a family of subsets of a finite set one is minimal.
LEMMA MinimalSubset ==
    ASSUME NEW D, IsFiniteSet(D), NEW F \in SUBSET (SUBSET D), F # {}
    PROVE  \E S \in F : \A T \in F : T \subseteq S => T = S
<1>1. IsWellFoundedOn(StrictSubsetOrdering(D), SUBSET D)
  BY FS_StrictSubsetOrderingWellFounded, FS_FiniteSubsetsOfFinite
<1>2. PICK S \in F : \A T \in F : ~ (<<T, S>> \in StrictSubsetOrdering(D))
  BY <1>1, WFMin
<1>3. \A T \in F : T \subseteq S /\ T # S
                       => <<T, S>> \in StrictSubsetOrdering(D)
  BY DEF StrictSubsetOrdering
<1>4. \A T \in F : T \subseteq S => T = S
  BY <1>2, <1>3
<1> QED
  BY <1>4, Zenon

\* Of a non-empty finite set one member has the least value, and one the
\* greatest.
LEMMA LeastValue ==
    ASSUME NEW D, IsFiniteSet(D), NEW f \in [D -> Int], NEW S \in SUBSET D, S # {}
    PROVE  \E x \in S : \A y \in S : f[x] <= f[y]
<1> DEFINE F == {U \in SUBSET D : \E x \in S : U = {y \in S : f[y] <= f[x]}}
<1>1. PICK x \in S : TRUE
  OBVIOUS
<1>2. {y \in S : f[y] <= f[x]} \in F
  OBVIOUS
<1>3. PICK U \in F : \A V \in F : V \subseteq U => V = U
  <2>1. F \in SUBSET (SUBSET D) /\ F # {}
    BY <1>2
  <2> HIDE DEF F
  <2> QED BY <2>1, MinimalSubset
<1>4. PICK z \in S : U = {y \in S : f[y] <= f[z]}
  OBVIOUS
<1>5. ASSUME NEW s \in S, f[s] < f[z] PROVE FALSE
  <2> DEFINE V == {y \in S : f[y] <= f[s]}
  <2>1. V \in F
    OBVIOUS
  <2>2. f[s] \in Int /\ f[z] \in Int
    OBVIOUS
  <2>3. V \subseteq U
    BY <1>4, <1>5, <2>2
  <2>4. z \notin V /\ z \in U
    BY <1>4, <1>5, <2>2
  <2> HIDE DEF F, V
  <2> QED BY <1>3, <2>1, <2>3, <2>4
<1>6. \A s \in S : f[z] <= f[s]
  <2>1. \A s \in S : f[s] \in Int /\ f[z] \in Int
    OBVIOUS
  <2> QED BY <1>5, <2>1
<1> QED
  BY <1>6, Zenon

LEMMA GreatestValue ==
    ASSUME NEW D, IsFiniteSet(D), NEW f \in [D -> Int], NEW S \in SUBSET D, S # {}
    PROVE  \E x \in S : \A y \in S : f[y] <= f[x]
<1> DEFINE g == [x \in D |-> 0 - f[x]]
<1>1. g \in [D -> Int]
  OBVIOUS
<1>2. \A x, y \in S : g[x] <= g[y] => f[y] <= f[x]
  OBVIOUS
<1> HIDE DEF g
<1>3. PICK x \in S : \A y \in S : g[x] <= g[y]
  BY <1>1, LeastValue
<1>4. \A y \in S : f[y] <= f[x]
  BY <1>2, <1>3
<1> QED
  BY <1>4, Zenon

Pick(T) == CHOOSE x \in T : TRUE

LEMMA PickIn == \A T : T # {} => Pick(T) \in T
  BY DEF Pick

\* The body of the recursion, and the functions that satisfy it below S.
SumStep(f, g, T) == IF T = {} THEN 0 ELSE f[Pick(T)] + g[T \ {Pick(T)}]

SumsBelow(f, S) ==
    {g \in [SUBSET S -> Int] : \A T \in SUBSET S : g[T] = SumStep(f, g, T)}

LEMMA SumUnique ==
    ASSUME NEW D, IsFiniteSet(D), NEW f \in [D -> Int],
           NEW S \in SUBSET D, NEW R \in SUBSET D,
           NEW g \in SumsBelow(f, S), NEW h \in SumsBelow(f, R),
           NEW T \in SUBSET D, T \subseteq S, T \subseteq R
    PROVE  g[T] = h[T]
<1> DEFINE F == {U \in SUBSET D : U \subseteq S /\ U \subseteq R /\ g[U] # h[U]}
<1> SUFFICES ASSUME F # {} PROVE FALSE
  OBVIOUS
<1>1. PICK U \in F : \A V \in F : V \subseteq U => V = U
  <2> HIDE DEF F
  <2>1. F \in SUBSET (SUBSET D)
    BY DEF F
  <2> QED
    BY <2>1, MinimalSubset
<1>2. g[U] = SumStep(f, g, U) /\ h[U] = SumStep(f, h, U)
  BY DEF SumsBelow
<1>3. U # {}
  BY <1>2 DEF SumStep
<1>4. Pick(U) \in U
  BY <1>3, PickIn
<1>5. U \ {Pick(U)} \notin F
  BY <1>1, <1>4
<1>6. g[U \ {Pick(U)}] = h[U \ {Pick(U)}]
  BY <1>5
<1> QED
  BY <1>2, <1>3, <1>6 DEF SumStep

LEMMA SumExists ==
    ASSUME NEW D, IsFiniteSet(D), NEW f \in [D -> Int], NEW S \in SUBSET D
    PROVE  SumsBelow(f, S) # {}
<1> DEFINE F == {U \in SUBSET D : SumsBelow(f, U) = {}}
<1> SUFFICES ASSUME F # {} PROVE FALSE
  OBVIOUS
<1>1. PICK U \in F : \A V \in F : V \subseteq U => V = U
  <2> HIDE DEF F
  <2>1. F \in SUBSET (SUBSET D)
    BY DEF F
  <2> QED
    BY <2>1, MinimalSubset
<1> DEFINE G(V) == CHOOSE g : g \in SumsBelow(f, V)
           val(V) == G(V)[V]
<1>2. ASSUME NEW V \in SUBSET U, V # U
      PROVE  G(V) \in SumsBelow(f, V) /\ val(V) \in Int
  <2>1. V \notin F
    BY <1>1, <1>2
  <2>2. SumsBelow(f, V) # {}
    BY <2>1
  <2>3. G(V) \in SumsBelow(f, V)
    BY <2>2
  <2> QED
    BY <2>3 DEF SumsBelow
<1>3. ASSUME NEW V \in SUBSET U, V # U, V # {}
      PROVE  val(V) = f[Pick(V)] + val(V \ {Pick(V)})
  <2> DEFINE W == V \ {Pick(V)}
  <2>1. W \in SUBSET U /\ W # U /\ W \subseteq V /\ V \in SUBSET D /\ W \in SUBSET D
    BY <1>3, PickIn
  <2>2. G(V) \in SumsBelow(f, V) /\ G(W) \in SumsBelow(f, W)
    BY <1>2, <1>3, <2>1
  <2>3. G(V)[W] = G(W)[W]
    <3> HIDE DEF G, W
    <3> QED BY <2>1, <2>2, SumUnique
  <2>4. G(V)[V] = SumStep(f, G(V), V)
    BY <2>2 DEF SumsBelow
  <2> QED
    BY <2>3, <2>4, <1>3 DEF SumStep
<1> DEFINE top == IF U = {} THEN 0 ELSE f[Pick(U)] + val(U \ {Pick(U)})
           g == [V \in SUBSET U |-> IF V = U THEN top ELSE val(V)]
<1>4. U # {} => Pick(U) \in U /\ f[Pick(U)] \in Int /\ U \ {Pick(U)} # U
  BY PickIn
<1>5. top \in Int
  <2>1. CASE U = {}
    BY <2>1
  <2>2. CASE U # {}
    <3>1. val(U \ {Pick(U)}) \in Int
      BY <1>2, <1>4, <2>2
    <3> HIDE DEF val
    <3> QED BY <3>1, <1>4, <2>2
  <2> QED BY <2>1, <2>2
<1>6. g \in [SUBSET U -> Int]
  <2> HIDE DEF val, top
  <2> QED BY <1>2, <1>5
<1>7. ASSUME NEW V \in SUBSET U PROVE g[V] = SumStep(f, g, V)
  <2>1. V # {} => V \ {Pick(V)} \in SUBSET U /\ V \ {Pick(V)} # U
    BY PickIn
  <2>2. V # {} => g[V \ {Pick(V)}] = val(V \ {Pick(V)})
    <3> HIDE DEF val, top
    <3> QED BY <2>1
  <2>3. CASE V = U
    <3>1. g[V] = top
      BY <2>3
    <3> HIDE DEF val, g
    <3> QED BY <2>2, <2>3, <3>1 DEF SumStep
  <2>4. CASE V # U
    <3>1. g[V] = val(V)
      BY <2>4
    <3>2. V # {} => val(V) = f[Pick(V)] + val(V \ {Pick(V)})
      BY <1>3, <2>4
    <3>3. V = {} => val(V) = 0
      <4>1. G(V) \in SumsBelow(f, V)
        BY <1>2, <2>4
      <4> HIDE DEF G
      <4> QED BY <4>1 DEF SumsBelow, SumStep
    <3> HIDE DEF val, g
    <3> QED BY <2>2, <3>1, <3>2, <3>3 DEF SumStep
  <2> QED BY <2>3, <2>4
<1>8. g \in SumsBelow(f, U)
  <2> HIDE DEF g
  <2> QED BY <1>6, <1>7 DEF SumsBelow
<1> QED
  BY <1>8

\* The sum over a set, one of whose members is taken out.
LEMMA SumUnfold ==
    ASSUME NEW D, IsFiniteSet(D), NEW f \in [D -> Int], NEW S \in SUBSET D
    PROVE  /\ SumFunctionOnSet(f, S) \in Int
           /\ S = {} => SumFunctionOnSet(f, S) = 0
           /\ S # {} => SumFunctionOnSet(f, S)
                          = f[Pick(S)] + SumFunctionOnSet(f, S \ {Pick(S)})
<1> DEFINE Sum(T) == CHOOSE g : g = [U \in SUBSET T |-> SumStep(f, g, U)]
<1>1. ASSUME NEW T \in SUBSET D
      PROVE  SumFunctionOnSet(f, T) = Sum(T)[T] /\ Sum(T) \in SumsBelow(f, T)
  <2>1. SumFunctionOnSet(f, T) = Sum(T)[T]
    BY Zenon DEF SumFunctionOnSet, FoldFunctionOnSet, MapThenFoldSet, SumStep, Pick
  <2>2. PICK g : g \in SumsBelow(f, T)
    BY SumExists
  <2>3. g = [U \in SUBSET T |-> SumStep(f, g, U)]
    BY <2>2 DEF SumsBelow
  <2>4. Sum(T) = [U \in SUBSET T |-> SumStep(f, Sum(T), U)]
    BY <2>3, Zenon
  <2> DEFINE h == Sum(T)
  <2>5. h = [U \in SUBSET T |-> SumStep(f, h, U)]
    BY <2>4
  <2> HIDE DEF h
  <2>6. ASSUME NEW U \in SUBSET T PROVE h[U] = g[U]
    <3> DEFINE F == {V \in SUBSET D : V \subseteq T /\ h[V] # g[V]}
    <3> SUFFICES ASSUME F # {} PROVE FALSE
      OBVIOUS
    <3>1. PICK V \in F : \A W \in F : W \subseteq V => W = V
      <4>1. F \in SUBSET (SUBSET D)
        OBVIOUS
      <4> HIDE DEF F
      <4> QED BY <4>1, MinimalSubset
    <3>2. h[V] = SumStep(f, h, V) /\ g[V] = SumStep(f, g, V)
      BY <2>2, <2>5 DEF SumsBelow
    <3>3. V # {}
      BY <3>2 DEF SumStep
    <3>4. V \ {Pick(V)} \notin F
      BY <3>1, <3>3, PickIn
    <3>5. h[V \ {Pick(V)}] = g[V \ {Pick(V)}]
      BY <3>4
    <3> QED BY <3>2, <3>3, <3>5 DEF SumStep
  <2>7. h \in [SUBSET T -> Int]
    <3>1. \A U \in SUBSET T : h[U] \in Int
      BY <2>2, <2>6 DEF SumsBelow
    <3> QED BY <2>5, <3>1
  <2>8. h \in SumsBelow(f, T)
    BY <2>5, <2>7 DEF SumsBelow
  <2> QED
    BY <2>1, <2>8 DEF h
<1> HIDE DEF Sum
<1>2. Sum(S) \in SumsBelow(f, S)
  BY <1>1
<1>3. Sum(S)[S] \in Int /\ Sum(S)[S] = SumStep(f, Sum(S), S)
  BY <1>2 DEF SumsBelow
<1>4. ASSUME S # {}
      PROVE  Sum(S)[S \ {Pick(S)}] = Sum(S \ {Pick(S)})[S \ {Pick(S)}]
  <2> DEFINE T == S \ {Pick(S)}
  <2>1. T \in SUBSET D /\ T \subseteq S
    OBVIOUS
  <2>2. Sum(T) \in SumsBelow(f, T)
    BY <1>1, <2>1
  <2> HIDE DEF T
  <2>3. Sum(S)[T] = Sum(T)[T]
    BY <1>2, <2>1, <2>2, SumUnique
  <2> QED BY <2>3 DEF T
<1> QED
  BY <1>1, <1>3, <1>4 DEF SumStep

\* ... whichever member is taken out.
LEMMA SumRemove ==
    ASSUME NEW D, IsFiniteSet(D), NEW f \in [D -> Int], NEW S \in SUBSET D,
           NEW x \in S
    PROVE  SumFunctionOnSet(f, S) = f[x] + SumFunctionOnSet(f, S \ {x})
<1> DEFINE sum(T) == SumFunctionOnSet(f, T)
           F == {T \in SUBSET D : \E y \in T : sum(T) # f[y] + sum(T \ {y})}
<1>1. ASSUME NEW T \in SUBSET D
      PROVE  /\ sum(T) \in Int
             /\ T # {} => sum(T) = f[Pick(T)] + sum(T \ {Pick(T)})
  BY SumUnfold
<1> HIDE DEF sum
<1> SUFFICES ASSUME F # {} PROVE FALSE
  BY DEF sum
<1>2. PICK T \in F : \A U \in F : U \subseteq T => U = T
  <2>1. F \in SUBSET (SUBSET D)
    OBVIOUS
  <2> HIDE DEF F
  <2> QED BY <2>1, MinimalSubset
<1>3. PICK y \in T : sum(T) # f[y] + sum(T \ {y})
  OBVIOUS
<1> DEFINE c == Pick(T)
<1>4. c \in T /\ sum(T) = f[c] + sum(T \ {c}) /\ c # y
  BY <1>1, <1>3, PickIn
<1> HIDE DEF c
<1>5. T \ {c} \notin F /\ T \ {y} \notin F
  BY <1>2, <1>3, <1>4
<1> DEFINE W == (T \ {c}) \ {y}
<1>6. sum(T \ {c}) = f[y] + sum(W)
  BY <1>3, <1>4, <1>5
<1>7. (T \ {y}) \ {c} = W
  OBVIOUS
<1>8. sum(T \ {y}) = f[c] + sum(W)
  <2>1. c \in T \ {y} /\ T \ {y} \in SUBSET D
    BY <1>3, <1>4
  <2>2. sum(T \ {y}) = f[c] + sum((T \ {y}) \ {c})
    BY <1>5, <2>1
  <2> QED BY <1>7, <2>2
<1>9. f[c] \in Int /\ f[y] \in Int /\ sum(W) \in Int
  BY <1>1, <1>3, <1>4
<1> HIDE DEF F, W
<1> QED
  BY <1>3, <1>4, <1>6, <1>8, <1>9

\* The sum over a set is the sum over a part plus the sum over the rest.
THEOREM SumSplit ==
    ASSUME NEW D, IsFiniteSet(D), NEW f \in [D -> Int], NEW S \in SUBSET D,
           NEW T \in SUBSET S
    PROVE  /\ SumFunctionOnSet(f, S) \in Int
           /\ SumFunctionOnSet(f, S)
                = SumFunctionOnSet(f, T) + SumFunctionOnSet(f, S \ T)
<1> DEFINE sum(U) == SumFunctionOnSet(f, U)
           F == {U \in SUBSET D : U \subseteq S /\ sum(S) # sum(U) + sum(S \ U)}
<1>1. ASSUME NEW U \in SUBSET D
      PROVE  sum(U) \in Int /\ (U = {} => sum(U) = 0)
  BY SumUnfold
<1>0. ASSUME NEW U \in SUBSET D, NEW x \in U
      PROVE  sum(U) = f[x] + sum(U \ {x})
  BY SumRemove
<1> HIDE DEF sum
<1>2. ASSUME F # {} PROVE FALSE
  <2>1. PICK U \in F : \A V \in F : V \subseteq U => V = U
    <3>1. F \in SUBSET (SUBSET D)
      OBVIOUS
    <3> HIDE DEF F
    <3> QED BY <1>2, <3>1, MinimalSubset
  <2>2. U # {}
    <3>1. S \ {} = S
      OBVIOUS
    <3>2. sum({}) = 0 /\ sum(S) \in Int
      BY <1>1
    <3>3. sum(S) = sum({}) + sum(S \ {})
      BY <3>1, <3>2
    <3> QED BY <2>1, <3>3
  <2>3. PICK x \in U : TRUE
    BY <2>2
  <2>4. U \ {x} \notin F
    BY <2>1, <2>3
  <2>5. sum(S) = sum(U \ {x}) + sum(S \ (U \ {x}))
    BY <2>4
  <2>6. (S \ (U \ {x})) \ {x} = S \ U /\ x \in S \ (U \ {x})
    BY <2>3
  <2>7. sum(S \ (U \ {x})) = f[x] + sum(S \ U)
    BY <1>0, <2>6
  <2>8. sum(U) = f[x] + sum(U \ {x})
    BY <1>0, <2>3
  <2>9. f[x] \in Int /\ sum(U \ {x}) \in Int /\ sum(S \ U) \in Int
    BY <1>1, <2>3
  <2>10. sum(S) # sum(U) + sum(S \ U)
    BY <2>1
  <2> HIDE DEF F
  <2> QED
    BY <2>5, <2>7, <2>8, <2>9, <2>10
<1>3. T \notin F
  BY <1>2
<1> QED
  BY <1>1, <1>3 DEF sum

\* Sums of two functions add up.
THEOREM SumAdd ==
    ASSUME NEW D, IsFiniteSet(D), NEW f \in [D -> Int], NEW g \in [D -> Int],
           NEW S \in SUBSET D
    PROVE  SumFunctionOnSet([x \in D |-> f[x] + g[x]], S)
             = SumFunctionOnSet(f, S) + SumFunctionOnSet(g, S)
<1> DEFINE h == [x \in D |-> f[x] + g[x]]
           bad(U) == SumFunctionOnSet(h, U)
                        # SumFunctionOnSet(f, U) + SumFunctionOnSet(g, U)
           F == {U \in SUBSET D : bad(U)}
<1>1. h \in [D -> Int]
  OBVIOUS
<1> SUFFICES ASSUME F # {} PROVE FALSE
  OBVIOUS
<1>2. PICK U \in F : \A V \in F : V \subseteq U => V = U
  <2>1. F \in SUBSET (SUBSET D)
    OBVIOUS
  <2> HIDE DEF F
  <2> QED BY <2>1, MinimalSubset
<1>3. bad(U)
  OBVIOUS
<1> HIDE DEF h
<1>4. U # {}
  BY <1>1, <1>3, SumUnfold
<1>5. PICK x \in U : TRUE
  BY <1>4
<1>6. ~ bad(U \ {x})
  BY <1>2, <1>5
<1>7. /\ SumFunctionOnSet(h, U) = h[x] + SumFunctionOnSet(h, U \ {x})
      /\ SumFunctionOnSet(f, U) = f[x] + SumFunctionOnSet(f, U \ {x})
      /\ SumFunctionOnSet(g, U) = g[x] + SumFunctionOnSet(g, U \ {x})
  BY <1>1, <1>5, SumRemove
<1>8. h[x] = f[x] + g[x] /\ f[x] \in Int /\ g[x] \in Int
  BY <1>5 DEF h
<1>9. /\ SumFunctionOnSet(f, U \ {x}) \in Int
      /\ SumFunctionOnSet(g, U \ {x}) \in Int
  BY SumUnfold
<1> QED
  BY <1>3, <1>6, <1>7, <1>8, <1>9

-----------------------------------------------------------------------------
(* The traversal, and deltas.                                              *)

\* The traversal only branches where the functor asks it to, reaches the
\* parents of what it branches on, and reaches nothing it need not.
LEMMA WalkReach ==
    ASSUME NEW e \in Tx, NEW B \in SUBSET Tx
    PROVE  /\ DfsToPast[e][B] \subseteq B
           /\ WalkClosed(DfsToPast[e][B], e, B)
           /\ \A S \in SUBSET B : WalkClosed(S, e, B) => DfsToPast[e][B] \subseteq S
<1>1. DfsToPast[e][B] = {t \in B : \A S \in SUBSET B :
                                      WalkClosed(S, e, B) => t \in S}
  BY DEF DfsToPast
<1>2. WalkClosed(DfsToPast[e][B], e, B)
  BY <1>1, TangleAssumption DEF WalkClosed
<1> QED
  BY <1>1, <1>2

\* A past cone holds its transaction and all the parents of its members.
LEMMA ConeClosed ==
    ASSUME NEW t \in Tx
    PROVE  Cone[t] \subseteq Tx /\ t \in Cone[t] /\ PastClosed(Cone[t])
<1>1. Cone[t] = DfsToPast[t][Tx]
  BY DEF Cone
<1>2. Cone[t] \subseteq Tx /\ WalkClosed(Cone[t], t, Tx)
  BY <1>1, WalkReach
<1>3. \A u \in Cone[t] : Parents[u] \cap Tx = Parents[u]
  BY <1>2, TangleAssumption
<1> QED
  BY <1>2, <1>3 DEF WalkClosed, PastClosed

\* A past-closed set that holds a transaction holds its past cone.
LEMMA ConeLeast ==
    ASSUME NEW t \in Tx, NEW S \in SUBSET Tx, PastClosed(S), t \in S
    PROVE  Cone[t] \subseteq S
<1>1. WalkClosed(S, t, Tx)
  BY DEF WalkClosed, PastClosed
<1> QED
  BY <1>1, WalkReach DEF Cone

\* Approval is transitive.
LEMMA ConeTransitive ==
    ASSUME NEW t \in Tx, NEW s \in Cone[t]
    PROVE  Cone[s] \subseteq Cone[t]
  BY ConeClosed, ConeLeast

(***************************************************************************)
(* A traversal that stops at the members of a past-closed set reaches all  *)
(* of the past cone outside that set: skipping what was handled before     *)
(* never hides anything behind it.                                         *)
(***************************************************************************)
THEOREM WalkSkipsHandled ==
    ASSUME NEW e \in Tx, NEW D \in SUBSET Tx, PastClosed(D)
    PROVE  DfsToPast[e][Tx \ D] = Cone[e] \ D
<1> DEFINE B == Tx \ D
           W == DfsToPast[e][B]
<1>1. W \subseteq B /\ WalkClosed(W, e, B)
  BY WalkReach
<1>2. W \subseteq Cone[e] \ D
  <2>1. Cone[e] \ D \in SUBSET B
    BY ConeClosed
  <2>2. WalkClosed(Cone[e] \ D, e, B)
    BY ConeClosed, TangleAssumption DEF WalkClosed, PastClosed
  <2> QED
    BY <2>1, <2>2, WalkReach
<1>3. Cone[e] \subseteq W \cup D
  <2>1. PastClosed(W \cup D)
    <3> SUFFICES ASSUME NEW t \in W \cup D, NEW p \in Parents[t]
                 PROVE  p \in W \cup D
      BY DEF PastClosed
    <3>1. p \in Tx
      BY <1>1, TangleAssumption
    <3> QED
      BY <1>1, <3>1 DEF WalkClosed, PastClosed
  <2>2. e \in W \cup D
    BY <1>1 DEF WalkClosed
  <2>3. W \cup D \in SUBSET Tx
    BY <1>1
  <2> QED
    BY <2>1, <2>2, <2>3, ConeLeast
<1> QED
  BY <1>2, <1>3
-----------------------------------------------------------------------------
LEMMA PatchType ==
    ASSUME NEW d \in Delta, NEW e \in Delta
    PROVE  ApplyPatch(d, e) \in Delta /\ \A a \in Address : ApplyPatch(d, e)[a] = d[a] + e[a]
  BY DEF Delta, ApplyPatch

LEMMA EmptyType == EmptyDelta \in Delta /\ \A a \in Address : EmptyDelta[a] = 0
  BY DEF Delta, EmptyDelta

\* Two deltas with the same entries are the same.
LEMMA DeltaExt ==
    ASSUME NEW d \in Delta, NEW e \in Delta, \A a \in Address : d[a] = e[a]
    PROVE  d = e
  BY DEF Delta

LEMMA PatchEmpty ==
    ASSUME NEW d \in Delta
    PROVE  ApplyPatch(d, EmptyDelta) = d
<1>1. \A a \in Address : d[a] + 0 = d[a]
  BY DEF Delta
<1> QED
  BY <1>1, DeltaExt, PatchType, EmptyType

LEMMA PatchAssociative ==
    ASSUME NEW c \in Delta, NEW d \in Delta, NEW e \in Delta
    PROVE  ApplyPatch(ApplyPatch(c, d), e) = ApplyPatch(c, ApplyPatch(d, e))
<1>1. \A a \in Address : (c[a] + d[a]) + e[a] = c[a] + (d[a] + e[a])
  BY DEF Delta
<1> QED
  BY <1>1 DEF ApplyPatch

LEMMA DeltaSumAdd ==
    ASSUME NEW d \in Delta, NEW e \in Delta
    PROVE  /\ DeltaSum(d) \in Int
           /\ DeltaSum(ApplyPatch(d, e)) = DeltaSum(d) + DeltaSum(e)
<1>1. DeltaSum(d) \in Int
  BY AddressAssumption, SumUnfold DEF Delta, DeltaSum
<1>2. DeltaSum(ApplyPatch(d, e)) = DeltaSum(d) + DeltaSum(e)
  BY AddressAssumption, SumAdd DEF Delta, DeltaSum, ApplyPatch
<1> QED
  BY <1>1, <1>2

LEMMA EmptySum == DeltaSum(EmptyDelta) = 0
<1>1. ApplyPatch(EmptyDelta, EmptyDelta) = EmptyDelta
  BY EmptyType, PatchEmpty
<1> QED
  BY <1>1, EmptyType, DeltaSumAdd

LEMMA ValueAt ==
    ASSUME NEW a \in Address
    PROVE  [t \in Tx |-> Value[t][a]] \in [Tx -> Int]
  BY LedgerValidatorAssumption DEF Delta

LEMMA ValueOfType ==
    ASSUME NEW S \in SUBSET Tx
    PROVE  /\ ValueOf[S] \in Delta
           /\ \A a \in Address :
                 ValueOf[S][a] = SumFunctionOnSet([t \in Tx |-> Value[t][a]], S)
<1>1. ASSUME NEW a \in Address
      PROVE  SumFunctionOnSet([t \in Tx |-> Value[t][a]], S) \in Int
  BY ValueAt, TangleAssumption, SumUnfold
<1>2. ValueOf[S] = [a \in Address |-> SumFunctionOnSet([t \in Tx |-> Value[t][a]], S)]
  BY DEF ValueOf
<1> QED
  BY <1>1, <1>2 DEF Delta

\* The value of a set of transactions is that of a part plus that of the rest.
THEOREM ValueOfSplit ==
    ASSUME NEW S \in SUBSET Tx, NEW T \in SUBSET S
    PROVE  ValueOf[S] = ApplyPatch(ValueOf[T], ValueOf[S \ T])
<1>1. ASSUME NEW a \in Address
      PROVE  ValueOf[S][a] = ValueOf[T][a] + ValueOf[S \ T][a]
  <2> DEFINE f == [t \in Tx |-> Value[t][a]]
  <2>1. f \in [Tx -> Int]
    BY ValueAt
  <2> HIDE DEF f
  <2>2. SumFunctionOnSet(f, S) = SumFunctionOnSet(f, T) + SumFunctionOnSet(f, S \ T)
    BY <2>1, TangleAssumption, SumSplit
  <2>3. /\ ValueOf[S][a] = SumFunctionOnSet(f, S)
        /\ ValueOf[T][a] = SumFunctionOnSet(f, T)
        /\ ValueOf[S \ T][a] = SumFunctionOnSet(f, S \ T)
    BY ValueOfType DEF f
  <2> QED
    BY <2>2, <2>3
<1>2. /\ ValueOf[S] \in Delta /\ ValueOf[T] \in Delta /\ ValueOf[S \ T] \in Delta
  BY ValueOfType
<1>3. ApplyPatch(ValueOf[T], ValueOf[S \ T]) \in Delta
  BY <1>2, PatchType
<1>4. \A a \in Address : ValueOf[S][a] = ApplyPatch(ValueOf[T], ValueOf[S \ T])[a]
  BY <1>1, <1>2, PatchType
<1> QED
  BY <1>2, <1>3, <1>4, DeltaExt

LEMMA ValueOfEmpty == ValueOf[{}] = EmptyDelta
<1>1. ASSUME NEW a \in Address PROVE ValueOf[{}][a] = 0
  <2> DEFINE f == [t \in Tx |-> Value[t][a]]
  <2>1. f \in [Tx -> Int]
    BY ValueAt
  <2> HIDE DEF f
  <2>2. SumFunctionOnSet(f, {}) = 0
    BY <2>1, TangleAssumption, SumUnfold
  <2> QED
    BY <2>2, ValueOfType DEF f
<1> QED
  BY <1>1, ValueOfType, EmptyType, DeltaExt

LEMMA ValueOfSingle ==
    ASSUME NEW t \in Tx
    PROVE  ValueOf[{t}] = Value[t]
<1>1. ASSUME NEW a \in Address PROVE ValueOf[{t}][a] = Value[t][a]
  <2> DEFINE f == [u \in Tx |-> Value[u][a]]
  <2>1. f \in [Tx -> Int]
    BY ValueAt
  <2>0. f[t] = Value[t][a]
    OBVIOUS
  <2> HIDE DEF f
  <2>2. SumFunctionOnSet(f, {t}) = f[t] + SumFunctionOnSet(f, {t} \ {t})
    BY <2>1, TangleAssumption, SumRemove
  <2>3. {t} \ {t} = {} /\ SumFunctionOnSet(f, {}) = 0
    BY <2>1, TangleAssumption, SumUnfold
  <2>4. ValueOf[{t}][a] = SumFunctionOnSet(f, {t})
    BY ValueOfType DEF f
  <2> QED
    BY <2>0, <2>1, <2>2, <2>3, <2>4
<1>2. ValueOf[{t}] \in Delta /\ Value[t] \in Delta
  BY ValueOfType, LedgerValidatorAssumption
<1> QED
  BY <1>1, <1>2, DeltaExt

\* Valid bundles neither create nor destroy funds.
THEOREM ValidSumsToZero ==
    ASSUME NEW S \in SUBSET Tx, S \cap InvalidTail = {}
    PROVE  DeltaSum(ValueOf[S]) = 0
<1> DEFINE F == {U \in SUBSET Tx : U \subseteq S /\ DeltaSum(ValueOf[U]) # 0}
<1> SUFFICES ASSUME F # {} PROVE FALSE
  OBVIOUS
<1>1. PICK U \in F : \A V \in F : V \subseteq U => V = U
  <2>1. F \in SUBSET (SUBSET Tx)
    OBVIOUS
  <2> HIDE DEF F
  <2> QED BY <2>1, TangleAssumption, MinimalSubset
<1>2. U # {}
  BY ValueOfEmpty, EmptySum
<1>3. PICK t \in U : TRUE
  BY <1>2
<1>4. U \ {t} \notin F
  BY <1>1, <1>3
<1>5. DeltaSum(ValueOf[U \ {t}]) = 0
  BY <1>4
<1>6. ValueOf[U] = ApplyPatch(ValueOf[{t}], ValueOf[U \ {t}])
  BY <1>3, ValueOfSplit
<1>7. DeltaSum(ValueOf[{t}]) = 0
  BY <1>3, ValueOfSingle, LedgerValidatorAssumption
<1>8. ValueOf[{t}] \in Delta /\ ValueOf[U \ {t}] \in Delta
  BY <1>3, ValueOfType
<1>9. DeltaSum(ValueOf[U]) = 0
  BY <1>5, <1>6, <1>7, <1>8, DeltaSumAdd
<1> QED
  BY <1>9
=============================================================================
