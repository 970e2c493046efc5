------------------------------ MODULE SetLemmas ------------------------------
(***************************************************************************)
(* Lemmas about finite sets and sets of naturals: minima and maxima, and   *)
(* that SumFunctionOnSet, the fold with which the models add up balances   *)
(* and voting powers, is the sum one expects.                              *)
(*                                                                         *)
(* Induction is by a least counterexample: the sets, or the numbers, that  *)
(* violate a claim have a minimal element.                                 *)
(***************************************************************************)
EXTENDS Integers, FiniteSetsExt, Functions, FiniteSetTheorems, TLAPS

(* The smallest element of a set of naturals. *)
LEMMA MinIsElement ==
    ASSUME NEW S \in SUBSET Nat, S # {}
    PROVE  Min(S) \in S /\ \A y \in S : Min(S) <= y
<1>1. PICK x \in S : \A y \in S : ~(<<y, x>> \in OpToRel(<, Nat))
  BY WFMin, NatLessThanWellFounded
<1>2. ASSUME NEW y \in S
      PROVE  x =< y
  <2>1. SUFFICES ASSUME y < x
                 PROVE  FALSE
    OBVIOUS
  <2>2. <<y, x>> \in Nat \X Nat /\ <<y, x>>[1] = y /\ <<y, x>>[2] = x
    OBVIOUS
  <2>3. <<y, x>> \in {ss \in Nat \X Nat : ss[1] < ss[2]}
    BY <2>1, <2>2
  <2> QED  BY <1>1, <2>3, Zenon DEF OpToRel
<1> QED  BY <1>2 DEF Min

(* A bounded set of naturals has a largest element. *)
LEMMA BoundedMax ==
    ASSUME NEW S \in SUBSET Nat, S # {}, NEW n \in Nat, \A x \in S : x <= n
    PROVE  Max(S) \in S /\ \A y \in S : y <= Max(S)
<1> DEFINE R == {k \in Nat : n - k \in S}
           m == Min(R)
<1>1. PICK x \in S : TRUE
  OBVIOUS
<1>2. n - x \in R
  <2>1. x \in Nat /\ x <= n
    OBVIOUS
  <2>2. n - x \in Nat /\ n - (n - x) = x
    BY <2>1
  <2> QED  BY <2>2
<1>3. m \in R /\ \A y \in R : m <= y
  BY <1>2, MinIsElement
<1> HIDE DEF m
<1>4. ASSUME NEW y \in S
      PROVE  n - m >= y
  <2>1. y \in Nat /\ y <= n
    OBVIOUS
  <2>2. n - y \in Nat /\ n - (n - y) = y
    BY <2>1
  <2>3. n - y \in R
    BY <2>2
  <2>4. m <= n - y /\ m \in Nat
    BY <1>3, <2>3
  <2> QED  BY <2>1, <2>4
<1>5. n - m \in S
  BY <1>3
<1> QED  BY <1>4, <1>5 DEF Max

-----------------------------------------------------------------------------
(* the element that the fold takes next *)
Taken(s) == CHOOSE x \in s : TRUE

(* g is the recursive function inside the fold of f over S *)
SumRec(g, f, S) ==
    g = [s \in SUBSET S |->
           IF s = {} THEN 0 ELSE f[Taken(s)] + g[s \ {Taken(s)}]]

LEMMA SumUnfold ==
    ASSUME NEW f, NEW S
    PROVE  SumFunctionOnSet(f, S) = (CHOOSE g : SumRec(g, f, S))[S]
BY DEF SumFunctionOnSet, FoldFunctionOnSet, MapThenFoldSet, SumRec, Taken

(* A family of subsets of a finite set has a minimal member: the form in   *)
(* which the proofs below use induction, on the sets that violate a claim. *)
LEMMA MinimalSet ==
    ASSUME NEW S, IsFiniteSet(S), NEW Bad \in SUBSET (SUBSET S), Bad # {}
    PROVE  \E T \in Bad : \A U \in Bad : U \subseteq T => U = T
<1> DEFINE R == StrictSubsetOrdering(S)
<1>1. IsWellFoundedOn(R, FiniteSubsetsOf(S))
  BY FS_StrictSubsetOrderingWellFounded
<1>2. Bad \subseteq FiniteSubsetsOf(S)
  BY FS_FiniteSubsetsOfFinite
<1>3. PICK T \in Bad : \A U \in Bad : ~(<<U, T>> \in R)
  BY <1>1, <1>2, WFMin
<1>4. ASSUME NEW U \in Bad, U \subseteq T, U # T
      PROVE  <<U, T>> \in R
  BY <1>4 DEF StrictSubsetOrdering
<1>5. \A U \in Bad : U \subseteq T => U = T
  BY <1>3, <1>4, Zenon
<1> QED  BY <1>5

(* two such functions agree on the sets on which both are defined *)
LEMMA SumRecAgree ==
    ASSUME NEW f, NEW S, IsFiniteSet(S), NEW T \in SUBSET S,
           NEW g, SumRec(g, f, S), NEW h, SumRec(h, f, T)
    PROVE  \A s \in SUBSET T : g[s] = h[s]
<1> DEFINE Bad == {s \in SUBSET T : g[s] # h[s]}
<1>1. SUFFICES ASSUME Bad # {}
               PROVE  FALSE
  OBVIOUS
<1>2. IsFiniteSet(T)
  BY FS_Subset
<1>3. PICK s \in Bad : \A u \in Bad : u \subseteq s => u = s
  <2>1. Bad \in SUBSET (SUBSET T)
    OBVIOUS
  <2> HIDE DEF Bad
  <2> QED  BY <1>1, <1>2, <2>1, MinimalSet
<1>4. /\ g[s] = IF s = {} THEN 0 ELSE f[Taken(s)] + g[s \ {Taken(s)}]
      /\ h[s] = IF s = {} THEN 0 ELSE f[Taken(s)] + h[s \ {Taken(s)}]
  BY DEF SumRec
<1>5. s # {}
  BY <1>4
<1>6. Taken(s) \in s
  BY <1>5 DEF Taken
<1>7. s \ {Taken(s)} \notin Bad
  BY <1>3, <1>6
<1> QED  BY <1>4, <1>5, <1>7

(* the recursive function exists *)
LEMMA SumRecExists ==
    ASSUME NEW f, NEW S, IsFiniteSet(S)
    PROVE  SumRec(CHOOSE g : SumRec(g, f, S), f, S)
<1> DEFINE G(t) == CHOOSE g : SumRec(g, f, t)
           Bad == {t \in SUBSET S : ~SumRec(G(t), f, t)}
<1>1. SUFFICES ASSUME Bad # {}
               PROVE  FALSE
  <2>1. S \notin Bad => SumRec(G(S), f, S)
    OBVIOUS
  <2> QED  BY <1>1, <2>1
<1>2. PICK T \in Bad : \A u \in Bad : u \subseteq T => u = T
  <2>1. Bad \in SUBSET (SUBSET S)
    OBVIOUS
  <2> HIDE DEF Bad
  <2> QED  BY <1>1, <2>1, MinimalSet
<1>3. ASSUME NEW t \in SUBSET T, t # T
      PROVE  SumRec(G(t), f, t) /\ IsFiniteSet(t)
  BY <1>2, <1>3, FS_Subset
<1> HIDE DEF G
<1> DEFINE V(t) == G(t)[t]
           R(t) == IF t = {} THEN 0 ELSE f[Taken(t)] + V(t \ {Taken(t)})
           h == [t \in SUBSET T |-> R(t)]
<1>4. \A t \in SUBSET T : t # {} => Taken(t) \in t
  BY DEF Taken
<1>5. ASSUME NEW t \in SUBSET T, t # T
      PROVE  V(t) = R(t)
  <2>1. V(t) = IF t = {} THEN 0 ELSE f[Taken(t)] + G(t)[t \ {Taken(t)}]
    BY <1>3, <1>5 DEF SumRec
  <2>2. CASE t # {}
    <3>1. t \ {Taken(t)} \in SUBSET t /\ t \ {Taken(t)} # T
      BY <1>4, <1>5, <2>2
    <3>2. G(t)[t \ {Taken(t)}] = V(t \ {Taken(t)})
      <4> DEFINE u == t \ {Taken(t)}
      <4>1. u \in SUBSET t /\ SumRec(G(u), f, u)
        BY <1>3, <3>1
      <4>2. IsFiniteSet(t) /\ SumRec(G(t), f, t)
        BY <1>3, <1>5
      <4> HIDE DEF u
      <4>3. \A s \in SUBSET u : G(t)[s] = G(u)[s]
        BY <4>1, <4>2, SumRecAgree
      <4>4. G(t)[u] = G(u)[u]
        BY <4>3
      <4> QED  BY <4>4 DEF u
    <3> QED  BY <2>1, <2>2, <3>2
  <2> QED  BY <2>1, <2>2
<1>6. ASSUME NEW t \in SUBSET T
      PROVE  h[t] = IF t = {} THEN 0 ELSE f[Taken(t)] + h[t \ {Taken(t)}]
  <2>1. h[t] = R(t)
    OBVIOUS
  <2>2. CASE t # {}
    <3>1. t \ {Taken(t)} \in SUBSET T /\ t \ {Taken(t)} # T
      BY <1>4, <2>2
    <3>2. h[t \ {Taken(t)}] = V(t \ {Taken(t)})
      BY <1>5, <3>1
    <3> HIDE DEF h, V
    <3> QED  BY <2>1, <2>2, <3>2
  <2> QED  BY <2>1, <2>2
<1>7. SumRec(h, f, T)
  <2> HIDE DEF h
  <2>1. h = [t \in SUBSET T |-> h[t]]
    BY DEF h
  <2>2. [t \in SUBSET T |-> h[t]] = [t \in SUBSET T |->
           IF t = {} THEN 0 ELSE f[Taken(t)] + h[t \ {Taken(t)}]]
    BY <1>6
  <2> QED  BY <2>1, <2>2 DEF SumRec
<1>8. SumRec(G(T), f, T)
  BY <1>7 DEF G
<1> QED  BY <1>8

-----------------------------------------------------------------------------
LEMMA SumEmpty ==
    ASSUME NEW f
    PROVE  SumFunctionOnSet(f, {}) = 0
<1>1. IsFiniteSet({})
  BY FS_EmptySet
<1>2. SumRec(CHOOSE k : SumRec(k, f, {}), f, {})
  BY <1>1, SumRecExists
<1> HIDE DEF SumRec
<1>3. PICK g : g = (CHOOSE k : SumRec(k, f, {}))
  OBVIOUS
<1>4. g[{}] = 0
  BY <1>2, <1>3 DEF SumRec
<1> QED  BY <1>3, <1>4, SumUnfold

(* the step of the fold *)
LEMMA SumTake ==
    ASSUME NEW f, NEW S, IsFiniteSet(S), S # {}
    PROVE  /\ Taken(S) \in S
           /\ SumFunctionOnSet(f, S)
                = f[Taken(S)] + SumFunctionOnSet(f, S \ {Taken(S)})
<1> DEFINE U == S \ {Taken(S)}
<1>1. Taken(S) \in S
  BY DEF Taken
<1>2. IsFiniteSet(U)
  BY FS_RemoveElement
<1>3. PICK g : g = (CHOOSE k : SumRec(k, f, S))
  OBVIOUS
<1>4. PICK h : h = (CHOOSE k : SumRec(k, f, U))
  OBVIOUS
<1>5. SumRec(g, f, S) /\ SumRec(h, f, U)
  BY <1>2, <1>3, <1>4, SumRecExists
<1>6. g[U] = h[U]
  <2>1. U \in SUBSET S /\ U \in SUBSET U
    OBVIOUS
  <2> HIDE DEF U
  <2> QED  BY <1>5, <2>1, SumRecAgree
<1>7. g[S] = f[Taken(S)] + g[U]
  BY <1>5 DEF SumRec
<1>8. SumFunctionOnSet(f, S) = g[S] /\ SumFunctionOnSet(f, U) = h[U]
  BY <1>3, <1>4, SumUnfold
<1> QED  BY <1>1, <1>6, <1>7, <1>8

-----------------------------------------------------------------------------
(* Induction over the subsets of a finite set, for a claim given as the    *)
(* set of the subsets of which it holds.                                   *)
LEMMA SetInduction ==
    ASSUME NEW S, IsFiniteSet(S), NEW Good,
           \A T \in SUBSET S : (\A x \in T : T \ {x} \in Good) => T \in Good
    PROVE  \A T \in SUBSET S : T \in Good
<1> DEFINE Bad == {T \in SUBSET S : T \notin Good}
<1>1. SUFFICES ASSUME Bad # {}
               PROVE  FALSE
  OBVIOUS
<1>2. PICK T \in Bad : \A u \in Bad : u \subseteq T => u = T
  <2>1. Bad \in SUBSET (SUBSET S)
    OBVIOUS
  <2> HIDE DEF Bad
  <2> QED  BY <1>1, <2>1, MinimalSet
<1>3. ASSUME NEW x \in T
      PROVE  T \ {x} \in Good
  BY <1>2
<1> QED  BY <1>3

(* A finite set of naturals has a largest element. *)
LEMMA MaxIsElement ==
    ASSUME NEW S \in SUBSET Nat, S # {}, IsFiniteSet(S)
    PROVE  Max(S) \in S /\ \A y \in S : y <= Max(S)
<1> DEFINE Good == {T \in SUBSET S : \E n \in Nat : \A x \in T : x <= n}
<1>1. ASSUME NEW T \in SUBSET S, \A x \in T : T \ {x} \in Good
      PROVE  T \in Good
  <2>1. CASE T = {}
    BY <2>1
  <2>2. CASE T # {}
    <3>1. PICK x \in T : TRUE
      BY <2>2
    <3>2. PICK n \in Nat : \A y \in T \ {x} : y <= n
      BY <1>1
    <3>3. \A y \in T : y <= n + x
      BY <3>2
    <3>4. n + x \in Nat
      OBVIOUS
    <3> QED  BY <3>3, <3>4
  <2> QED  BY <2>1, <2>2
<1>2. S \in Good
  <2>1. S \in SUBSET S
    OBVIOUS
  <2> HIDE DEF Good
  <2> QED  BY <1>1, <2>1, SetInduction
<1>3. PICK n \in Nat : \A x \in S : x <= n
  BY <1>2
<1> QED  BY <1>3, BoundedMax

(* the sum of integers is an integer *)
LEMMA SumInt ==
    ASSUME NEW S, IsFiniteSet(S), NEW f, \A x \in S : f[x] \in Int
    PROVE  \A T \in SUBSET S : SumFunctionOnSet(f, T) \in Int
<1> DEFINE Good == {T \in SUBSET S : SumFunctionOnSet(f, T) \in Int}
<1>1. ASSUME NEW T \in SUBSET S, \A x \in T : T \ {x} \in Good
      PROVE  T \in Good
  <2>1. CASE T = {}
    BY <2>1, SumEmpty
  <2>2. CASE T # {}
    <3>1. IsFiniteSet(T)
      BY FS_Subset
    <3>2. /\ Taken(T) \in T
          /\ SumFunctionOnSet(f, T) = f[Taken(T)] + SumFunctionOnSet(f, T \ {Taken(T)})
      BY <2>2, <3>1, SumTake
    <3> QED  BY <1>1, <3>2
  <2> QED  BY <2>1, <2>2
<1>2. \A T \in SUBSET S : T \in Good
  <2> HIDE DEF Good
  <2> QED  BY <1>1, SetInduction
<1> QED  BY <1>2

(* any element can be taken out of the sum first *)
LEMMA SumRemove ==
    ASSUME NEW S, IsFiniteSet(S), NEW f, \A x \in S : f[x] \in Int, NEW y \in S
    PROVE  SumFunctionOnSet(f, S) = f[y] + SumFunctionOnSet(f, S \ {y})
<1> DEFINE Sum(T) == SumFunctionOnSet(f, T)
           Good == {T \in SUBSET S : \A x \in T : Sum(T) = f[x] + Sum(T \ {x})}
<1>1. \A T \in SUBSET S : Sum(T) \in Int
  BY SumInt
<1>2. \A T \in SUBSET S : T # {} =>
         Taken(T) \in T /\ Sum(T) = f[Taken(T)] + Sum(T \ {Taken(T)})
  <2>1. \A T \in SUBSET S : IsFiniteSet(T)
    BY FS_Subset
  <2> QED  BY <2>1, SumTake
<1> HIDE DEF Sum
<1>3. ASSUME NEW T \in SUBSET S, \A x \in T : T \ {x} \in Good
      PROVE  T \in Good
  <2>1. SUFFICES ASSUME NEW x \in T
                 PROVE  Sum(T) = f[x] + Sum(T \ {x})
    OBVIOUS
  <2>2. PICK c \in T : c = Taken(T) /\ Sum(T) = f[c] + Sum(T \ {c})
    BY <1>2
  <2>3. CASE c # x
    <3> DEFINE rest == Sum((T \ {x}) \ {c})
    <3>1. Sum(T \ {x}) = f[c] + rest
      BY <1>3, <2>3
    <3>2. Sum(T \ {c}) = f[x] + rest
      <4>1. Sum(T \ {c}) = f[x] + Sum((T \ {c}) \ {x})
        BY <1>3, <2>3
      <4>2. (T \ {c}) \ {x} = (T \ {x}) \ {c}
        OBVIOUS
      <4> QED  BY <4>1, <4>2
    <3>3. f[x] \in Int /\ f[c] \in Int /\ rest \in Int
      BY <1>1
    <3> HIDE DEF rest
    <3> QED  BY <2>2, <3>1, <3>2, <3>3
  <2> QED  BY <2>2, <2>3
<1>4. \A T \in SUBSET S : T \in Good
  <2> HIDE DEF Good
  <2> QED  BY <1>3, SetInduction
<1> QED  BY <1>4 DEF Sum

(* the sum depends on the values at the elements only *)
LEMMA SumEqual ==
    ASSUME NEW S, IsFiniteSet(S), NEW f, NEW g, \A x \in S : f[x] = g[x]
    PROVE  SumFunctionOnSet(f, S) = SumFunctionOnSet(g, S)
<1> DEFINE Good == {T \in SUBSET S : SumFunctionOnSet(f, T) = SumFunctionOnSet(g, T)}
<1>1. ASSUME NEW T \in SUBSET S, \A x \in T : T \ {x} \in Good
      PROVE  T \in Good
  <2>1. CASE T = {}
    BY <2>1, SumEmpty
  <2>2. CASE T # {}
    <3>1. IsFiniteSet(T)
      BY FS_Subset
    <3>2. /\ Taken(T) \in T
          /\ SumFunctionOnSet(f, T) = f[Taken(T)] + SumFunctionOnSet(f, T \ {Taken(T)})
          /\ SumFunctionOnSet(g, T) = g[Taken(T)] + SumFunctionOnSet(g, T \ {Taken(T)})
      BY <2>2, <3>1, SumTake
    <3> QED  BY <1>1, <3>2
  <2> QED  BY <2>1, <2>2
<1>2. \A T \in SUBSET S : T \in Good
  <2> HIDE DEF Good
  <2> QED  BY <1>1, SetInduction
<1> QED  BY <1>2

(* changing one value changes the sum by the difference *)
LEMMA SumUpdate ==
    ASSUME NEW S, IsFiniteSet(S), NEW f, NEW g, NEW y \in S,
           \A x \in S : f[x] \in Int /\ g[x] \in Int,
           \A x \in S \ {y} : f[x] = g[x]
    PROVE  SumFunctionOnSet(g, S) = SumFunctionOnSet(f, S) + (g[y] - f[y])
<1> DEFINE U == S \ {y}
           rest == SumFunctionOnSet(f, U)
<1>1. IsFiniteSet(U) /\ U \in SUBSET S
  BY FS_RemoveElement
<1>2. SumFunctionOnSet(f, S) = f[y] + rest /\ SumFunctionOnSet(g, S) = g[y] + SumFunctionOnSet(g, U)
  BY SumRemove
<1>3. SumFunctionOnSet(g, U) = rest
  BY <1>1, SumEqual
<1>4. rest \in Int
  <2> HIDE DEF U
  <2> QED  BY <1>1, SumInt
<1> HIDE DEF rest
<1> QED  BY <1>2, <1>3, <1>4

(* the sum of naturals is a natural that no part of it exceeds *)
LEMMA SumNat ==
    ASSUME NEW S, IsFiniteSet(S), NEW f, \A x \in S : f[x] \in Nat
    PROVE  \A T \in SUBSET S : SumFunctionOnSet(f, T) \in Nat
<1> DEFINE Good == {T \in SUBSET S : SumFunctionOnSet(f, T) \in Nat}
<1>1. ASSUME NEW T \in SUBSET S, \A x \in T : T \ {x} \in Good
      PROVE  T \in Good
  <2>1. CASE T = {}
    BY <2>1, SumEmpty
  <2>2. CASE T # {}
    <3>1. IsFiniteSet(T)
      BY FS_Subset
    <3>2. /\ Taken(T) \in T
          /\ SumFunctionOnSet(f, T) = f[Taken(T)] + SumFunctionOnSet(f, T \ {Taken(T)})
      BY <2>2, <3>1, SumTake
    <3> QED  BY <1>1, <3>2
  <2> QED  BY <2>1, <2>2
<1>2. \A T \in SUBSET S : T \in Good
  <2> HIDE DEF Good
  <2> QED  BY <1>1, SetInduction
<1> QED  BY <1>2

(* a sum of zeros *)
LEMMA SumZero ==
    ASSUME NEW S, IsFiniteSet(S), NEW f, \A x \in S : f[x] = 0
    PROVE  SumFunctionOnSet(f, S) = 0
<1> DEFINE Good == {T \in SUBSET S : SumFunctionOnSet(f, T) = 0}
<1>1. ASSUME NEW T \in SUBSET S, \A x \in T : T \ {x} \in Good
      PROVE  T \in Good
  <2>1. CASE T = {}
    BY <2>1, SumEmpty
  <2>2. CASE T # {}
    <3>1. IsFiniteSet(T)
      BY FS_Subset
    <3>2. /\ Taken(T) \in T
          /\ SumFunctionOnSet(f, T) = f[Taken(T)] + SumFunctionOnSet(f, T \ {Taken(T)})
      BY <2>2, <3>1, SumTake
    <3> QED  BY <1>1, <3>2
  <2> QED  BY <2>1, <2>2
<1>2. \A T \in SUBSET S : T \in Good
  <2> HIDE DEF Good
  <2> QED  BY <1>1, SetInduction
<1> QED  BY <1>2

(* a sum of naturals is at least each of its terms *)
LEMMA SumPart ==
    ASSUME NEW S, IsFiniteSet(S), NEW f, \A x \in S : f[x] \in Nat, NEW y \in S
    PROVE  f[y] <= SumFunctionOnSet(f, S)
<1>1. S \ {y} \in SUBSET S
  OBVIOUS
<1>2. SumFunctionOnSet(f, S \ {y}) \in Nat
  BY <1>1, SumNat
<1>3. SumFunctionOnSet(f, S) = f[y] + SumFunctionOnSet(f, S \ {y})
  BY SumRemove
<1> QED  BY <1>2, <1>3

(* a part of a sum of naturals does not exceed it *)
LEMMA SumSubset ==
    ASSUME NEW S, IsFiniteSet(S), NEW f, \A x \in S : f[x] \in Nat, NEW T \in SUBSET S
    PROVE  SumFunctionOnSet(f, T) <= SumFunctionOnSet(f, S)
<1> DEFINE Sum(U) == SumFunctionOnSet(f, U)
           Good == {U \in SUBSET S : \A V \in SUBSET U : Sum(V) <= Sum(U)}
<1>1. \A U \in SUBSET S : Sum(U) \in Nat
  BY SumNat
<1>2. ASSUME NEW U \in SUBSET S, NEW x \in U
      PROVE  Sum(U) = f[x] + Sum(U \ {x})
  <2>1. IsFiniteSet(U) /\ \A y \in U : f[y] \in Int
    BY FS_Subset
  <2> QED  BY <2>1, SumRemove
<1> HIDE DEF Sum
<1>3. ASSUME NEW U \in SUBSET S, \A x \in U : U \ {x} \in Good
      PROVE  U \in Good
  <2>1. SUFFICES ASSUME NEW V \in SUBSET U
                 PROVE  Sum(V) <= Sum(U)
    OBVIOUS
  <2>2. CASE V = U
    BY <1>1, <2>2
  <2>3. CASE V # U
    <3>1. PICK x \in U : x \notin V
      BY <2>3
    <3>2. U \ {x} \in Good /\ V \in SUBSET (U \ {x})
      BY <1>3, <3>1
    <3>3. Sum(V) <= Sum(U \ {x})
      BY <3>2
    <3>4. /\ Sum(U) = f[x] + Sum(U \ {x}) /\ f[x] \in Nat
          /\ Sum(U \ {x}) \in Nat /\ Sum(V) \in Nat
      BY <1>1, <1>2
    <3> QED  BY <3>3, <3>4
  <2> QED  BY <2>2, <2>3
<1>4. \A U \in SUBSET S : U \in Good
  <2> HIDE DEF Good
  <2> QED  BY <1>3, SetInduction
<1>5. S \in Good
  BY <1>4
<1>6. Sum(T) <= Sum(S)
  BY <1>5
<1> QED  BY <1>6 DEF Sum

(* a sum is the sum of two parts *)
LEMMA SumSplit ==
    ASSUME NEW S, IsFiniteSet(S), NEW f, \A x \in S : f[x] \in Int, NEW T \in SUBSET S
    PROVE  SumFunctionOnSet(f, S)
             = SumFunctionOnSet(f, T) + SumFunctionOnSet(f, S \ T)
<1> DEFINE Sum(U) == SumFunctionOnSet(f, U)
           Good == {U \in SUBSET S : Sum(U) = Sum(U \cap T) + Sum(U \ T)}
<1>1. \A U \in SUBSET S : Sum(U) \in Int
  BY SumInt
<1>2. ASSUME NEW U \in SUBSET S, NEW x \in U
      PROVE  Sum(U) = f[x] + Sum(U \ {x})
  <2>1. IsFiniteSet(U) /\ \A y \in U : f[y] \in Int
    BY FS_Subset
  <2> QED  BY <2>1, SumRemove
<1>0. Sum({}) = 0
  BY SumEmpty
<1> HIDE DEF Sum
<1>3. ASSUME NEW U \in SUBSET S, \A x \in U : U \ {x} \in Good
      PROVE  U \in Good
  <2>1. SUFFICES Sum(U) = Sum(U \cap T) + Sum(U \ T)
    OBVIOUS
  <2>2. CASE U = {}
    <3>1. U \cap T = {} /\ U \ T = {}
      BY <2>2
    <3> QED  BY <1>0, <2>2, <3>1
  <2>3. CASE U # {}
    <3>1. PICK x \in U : TRUE
      BY <2>3
    <3> DEFINE A == (U \ {x}) \cap T
               B == (U \ {x}) \ T
    <3>2. Sum(U) = f[x] + (Sum(A) + Sum(B))
      BY <1>2, <1>3
    <3>3. /\ x \in T => (U \cap T) \ {x} = A /\ U \ T = B
          /\ x \notin T => U \cap T = A /\ (U \ T) \ {x} = B
      OBVIOUS
    <3>4. Sum(A) \in Int /\ Sum(B) \in Int /\ f[x] \in Int
      BY <1>1
    <3> HIDE DEF A, B
    <3>5. CASE x \in T
      <4>1. Sum(U \cap T) = f[x] + Sum(A)
        BY <1>2, <3>3, <3>5
      <4>2. Sum(U \ T) = Sum(B)
        BY <3>3, <3>5
      <4> HIDE DEF Good
      <4> QED  BY <3>2, <3>4, <4>1, <4>2
    <3>6. CASE x \notin T
      <4>1. Sum(U \ T) = f[x] + Sum(B)
        BY <1>2, <3>3, <3>6
      <4>2. Sum(U \cap T) = Sum(A)
        BY <3>3, <3>6
      <4> HIDE DEF Good
      <4> QED  BY <3>2, <3>4, <4>1, <4>2
    <3> QED  BY <3>5, <3>6
  <2> QED  BY <2>2, <2>3
<1>4. \A U \in SUBSET S : U \in Good
  <2> HIDE DEF Good
  <2> QED  BY <1>3, SetInduction
<1>5. S \in Good /\ S \cap T = T
  BY <1>4
<1> QED  BY <1>5 DEF Sum

-----------------------------------------------------------------------------
(* the image of a finite set is finite *)
LEMMA FiniteImage ==
    ASSUME NEW S, IsFiniteSet(S), NEW f
    PROVE  IsFiniteSet({f[x] : x \in S})
<1> DEFINE T == {f[x] : x \in S}
           g == [x \in S |-> f[x]]
<1>1. g \in Surjection(S, T)
  BY DEF Surjection
<1> HIDE DEF g, T
<1>2. IsFiniteSet(T)
  BY <1>1, FS_Surjection
<1> QED  BY <1>2 DEF T

(* summing over the image of an injective function *)
LEMMA SumImage ==
    ASSUME NEW S, IsFiniteSet(S), NEW f, NEW h, NEW e,
           \A x, y \in S : h[x] = h[y] => x = y,
           \A x \in S : e[x] = f[h[x]] /\ e[x] \in Int
    PROVE  SumFunctionOnSet(f, {h[x] : x \in S}) = SumFunctionOnSet(e, S)
<1> DEFINE Image(T) == {h[x] : x \in T}
           Good == {T \in SUBSET S :
                      SumFunctionOnSet(f, Image(T)) = SumFunctionOnSet(e, T)}
<1>1. ASSUME NEW T \in SUBSET S, \A x \in T : T \ {x} \in Good
      PROVE  T \in Good
  <2>0. IsFiniteSet(T)
    BY FS_Subset
  <2>1. CASE T = {}
    <3>1. Image(T) = {}
      BY <2>1
    <3> QED  BY <2>1, <3>1, SumEmpty
  <2>2. CASE T # {}
    <3>1. PICK x \in T : TRUE
      BY <2>2
    <3>2. SumFunctionOnSet(e, T) = e[x] + SumFunctionOnSet(e, T \ {x})
      BY <2>0, SumRemove
    <3>3. /\ IsFiniteSet(Image(T)) /\ h[x] \in Image(T)
          /\ \A y \in Image(T) : f[y] \in Int
      <4>1. IsFiniteSet(Image(T))
        BY <2>0, FiniteImage
      <4>2. \A y \in Image(T) : \E z \in T : y = h[z] /\ e[z] = f[h[z]] /\ e[z] \in Int
        OBVIOUS
      <4> QED  BY <4>1, <4>2
    <3>4. Image(T) \ {h[x]} = Image(T \ {x})
      OBVIOUS
    <3>5. SumFunctionOnSet(f, Image(T)) = f[h[x]] + SumFunctionOnSet(f, Image(T) \ {h[x]})
      <4> HIDE DEF Image
      <4> QED  BY <3>3, SumRemove
    <3>6. T \ {x} \in Good
      BY <1>1
    <3>7. SumFunctionOnSet(f, Image(T \ {x})) = SumFunctionOnSet(e, T \ {x})
      BY <3>6
    <3>8. e[x] = f[h[x]]
      OBVIOUS
    <3> HIDE DEF Image
    <3> QED  BY <3>2, <3>4, <3>5, <3>7, <3>8
  <2> QED  BY <2>1, <2>2
<1>2. \A T \in SUBSET S : T \in Good
  <2> HIDE DEF Good
  <2> QED  BY <1>1, SetInduction
<1>3. S \in Good
  BY <1>2
<1> QED  BY <1>3

(* summing over a set that a function numbers *)
LEMMA SumOnto ==
    ASSUME NEW S, IsFiniteSet(S), NEW T, NEW f, NEW h, NEW e,
           \A x, y \in S : h[x] = h[y] => x = y,
           \A x \in S : e[x] = f[h[x]] /\ e[x] \in Int,
           \A x \in S : h[x] \in T,
           \A y \in T : \E x \in S : y = h[x]
    PROVE  SumFunctionOnSet(f, T) = SumFunctionOnSet(e, S)
<1>1. T = {h[x] : x \in S}
  OBVIOUS
<1> QED  BY <1>1, SumImage

(* a sum of equal numbers *)
LEMMA SumConstant ==
    ASSUME NEW S, IsFiniteSet(S), NEW f, NEW c \in Int, \A x \in S : f[x] = c
    PROVE  SumFunctionOnSet(f, S) = c * Cardinality(S)
<1> DEFINE Sum(T) == SumFunctionOnSet(f, T)
           Good == {T \in SUBSET S : Sum(T) = c * Cardinality(T)}
<1>1. ASSUME NEW T \in SUBSET S, \A x \in T : T \ {x} \in Good
      PROVE  T \in Good
  <2>1. CASE T = {}
    <3>1. Sum(T) = 0 /\ Cardinality(T) = 0
      BY <2>1, SumEmpty, FS_EmptySet
    <3> QED  BY <3>1
  <2>2. CASE T # {}
    <3>1. IsFiniteSet(T) /\ \A x \in T : f[x] \in Int
      BY FS_Subset
    <3>2. PICK x \in T : TRUE
      BY <2>2
    <3>3. Sum(T) = f[x] + Sum(T \ {x})
      BY <3>1, SumRemove
    <3>4. Cardinality(T \ {x}) = Cardinality(T) - 1 /\ Cardinality(T) \in Int
      BY <3>1, FS_RemoveElement, FS_CardinalityType
    <3>5. Sum(T \ {x}) = c * Cardinality(T \ {x})
      BY <1>1
    <3>6. PICK n \in Int : n = Cardinality(T)
      BY <3>4
    <3>7. Sum(T) = c + c * (n - 1)
      <4> HIDE DEF Sum
      <4> QED  BY <3>3, <3>4, <3>5, <3>6
    <3>8. c + c * (n - 1) = c * n
      OBVIOUS
    <3> QED  BY <3>6, <3>7, <3>8
  <2> QED  BY <2>1, <2>2
<1>2. \A T \in SUBSET S : T \in Good
  <2> HIDE DEF Good
  <2> QED  BY <1>1, SetInduction
<1> QED  BY <1>2
=============================================================================
