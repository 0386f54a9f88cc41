----------------------------- MODULE Arithmetic -----------------------------
(***************************************************************************)
(* Facts about % with a modulus that is not a number the SMT solver knows, *)
(* and about the sums of the community modules.                            *)
(*                                                                         *)
(* Ring buffers are proved correct from three facts about %: the index     *)
(* after the last one wraps (ModStep), one lap later the index is the same *)
(* (ModWrap), and within one lap all indices differ (ModDiff).             *)
(*                                                                         *)
(* A sum is a fold, which picks its elements in an order of its own.  That *)
(* the fold computes a sum is induction over finite sets; it is done here  *)
(* once, from WFMin: the library's theorems on induction take a predicate  *)
(* as an operator, which no prover at hand can instantiate, SmallerFirst   *)
(* takes a set.                                                            *)
(***************************************************************************)
EXTENDS Integers, FiniteSetTheorems, Functions, TLAPS

-----------------------------------------------------------------------------
(* Quotients and remainders                                                *)

\* What the operators \div and % compute.
LEMMA DivMod ==
  ASSUME NEW C \in Nat \ {0}, NEW a \in Nat
  PROVE  /\ a = C * (a \div C) + (a % C)
         /\ a % C \in 0 .. C-1
         /\ a \div C \in Int
  OBVIOUS

\* Quotient and remainder are unique.
LEMMA QuotientUnique ==
  ASSUME NEW C \in Nat \ {0}, NEW q \in Int, NEW s \in Int,
         NEW r \in 0 .. C-1, NEW t \in 0 .. C-1,
         C * q + r = C * s + t
  PROVE  r = t /\ q = s
  OBVIOUS

\* A remainder is recognised by its decomposition.
LEMMA ModIs ==
  ASSUME NEW C \in Nat \ {0}, NEW a \in Nat, NEW q \in Int, NEW r \in 0 .. C-1,
         a = C * q + r
  PROVE  a % C = r
  BY DivMod, QuotientUnique

\* One lap later the index is the same.
LEMMA ModWrap ==
  ASSUME NEW C \in Nat \ {0}, NEW a \in Nat
  PROVE  (a + C) % C = a % C
<1> DEFINE q == a \div C
           r == a % C
<1>1. a = C * q + r /\ q \in Int /\ r \in 0 .. C-1
  BY DivMod
<1> HIDE DEF q, r
<1>2. a + C = C * (q+1) + r /\ q+1 \in Int /\ a + C \in Nat
  BY <1>1
<1>3. (a + C) % C = r
  BY <1>1, <1>2, ModIs
<1> QED
  BY <1>3 DEF r

\* Incrementing before or after reducing gives the same index.
LEMMA ModStep ==
  ASSUME NEW C \in Nat \ {0}, NEW a \in Nat
  PROVE  ((a % C) + 1) % C = (a+1) % C
<1> DEFINE q == a \div C
           r == a % C
<1>1. a = C * q + r /\ q \in Int /\ r \in 0 .. C-1
  BY DivMod
<1>2. r = a % C
  OBVIOUS
<1> HIDE DEF q, r
<1>3. CASE r + 1 < C
  <2>1. a+1 = C * q + (r+1) /\ r+1 = C * 0 + (r+1)
    BY <1>1
  <2>2. r+1 \in 0 .. C-1 /\ r+1 \in Nat /\ a+1 \in Nat
    BY <1>1, <1>3
  <2>3. (a+1) % C = r+1
    BY <2>1, <2>2, <1>1, ModIs
  <2>4. (r+1) % C = r+1
    BY <2>1, <2>2, ModIs
  <2> QED
    BY <2>3, <2>4, <1>2
<1>4. CASE r + 1 = C
  <2>1. a+1 = C * (q+1) + 0 /\ r+1 = C * 1 + 0 /\ q+1 \in Int
    BY <1>1, <1>4
  <2>2. (a+1) % C = 0
    BY <2>1, <1>1, ModIs
  <2>3. (r+1) % C = 0
    BY <2>1, <1>1, ModIs
  <2> QED
    BY <2>2, <2>3, <1>2
<1> QED
  BY <1>1, <1>3, <1>4

\* Within one lap all indices differ.
LEMMA ModDiff ==
  ASSUME NEW C \in Nat \ {0}, NEW a \in Nat, NEW b \in Nat, a < b, b - a < C
  PROVE  a % C # b % C
<1> SUFFICES ASSUME a % C = b % C PROVE FALSE
  OBVIOUS
<1> DEFINE q == a \div C
           s == b \div C
           r == a % C
<1>1. a = C * q + r /\ b = C * s + r /\ q \in Int /\ s \in Int /\ r \in 0 .. C-1
  BY DivMod
<1> HIDE DEF q, s, r
<1>2. b - a \in 0 .. C-1 /\ b - a # 0
  BY <1>1
<1>3. C * q + (b - a) = C * s + 0
  BY <1>1
<1>4. b - a = 0
  BY <1>1, <1>2, <1>3, QuotientUnique
<1> QED
  BY <1>2, <1>4

-----------------------------------------------------------------------------
(* Induction over finite sets                                              *)

\* Induction over the subsets of a finite set, with a set for the predicate: what
\* holds of T when it holds of T without any one element, holds of all.
LEMMA SmallerFirst ==
  ASSUME NEW S, IsFiniteSet(S), NEW G,
         \A T \in SUBSET S : (\A x \in T : T \ {x} \in G) => T \in G
  PROVE  SUBSET S \subseteq G
<1> DEFINE Bad == {T \in SUBSET S : T \notin G}
<1> SUFFICES ASSUME Bad # {} PROVE FALSE
  OBVIOUS
<1>1. Bad \subseteq FiniteSubsetsOf(S)
  BY FS_Subset DEF FiniteSubsetsOf
<1>2. IsWellFoundedOn(StrictSubsetOrdering(S), FiniteSubsetsOf(S))
  BY FS_StrictSubsetOrderingWellFounded
<1> HIDE DEF Bad
<1>3. PICK T \in Bad : \A U \in Bad : ~(<<U, T>> \in StrictSubsetOrdering(S))
  BY <1>1, <1>2, WFMin
<1>4. T \in SUBSET S /\ T \notin G
  BY DEF Bad
<1>5. ASSUME NEW x \in T PROVE T \ {x} \in G
  <2> DEFINE U == T \ {x}
  <2>1. U \in SUBSET S /\ U \subseteq T /\ U # T
    BY <1>4
  <2>2. <<U, T>> \in StrictSubsetOrdering(S)
    BY <1>4, <2>1 DEF StrictSubsetOrdering
  <2>3. U \notin Bad
    BY <1>3, <2>2
  <2> QED
    BY <2>1, <2>3 DEF Bad
<1> QED
  BY <1>4, <1>5

\* The same for the set as a whole, from the empty set up.
LEMMA OneByOne ==
  ASSUME NEW S, IsFiniteSet(S), NEW G, {} \in G,
         \A T \in SUBSET S : \A x \in T : T \ {x} \in G => T \in G
  PROVE  S \in G
<1>1. \A T \in SUBSET S : (\A x \in T : T \ {x} \in G) => T \in G
  OBVIOUS
<1>2. SUBSET S \subseteq G
  BY <1>1, SmallerFirst
<1> QED
  BY <1>2

-----------------------------------------------------------------------------
(* The folds of the community modules                                      *)

Pick(s) == CHOOSE x \in s : TRUE

\* g holds the running sums of f: its recursion is that of MapThenFoldSet.
Sums(g, f, S) ==
  g = [s \in SUBSET S |-> IF s = {} THEN 0 ELSE f[Pick(s)] + g[s \ {Pick(s)}]]

\* What the running sums are.
LEMMA SumsAre ==
  ASSUME NEW f, NEW S, NEW g, Sums(g, f, S)
  PROVE  /\ g[{}] = 0
         /\ \A T \in SUBSET S : T # {} => g[T] = f[Pick(T)] + g[T \ {Pick(T)}]
<1>1. \A T \in SUBSET S : g[T] = IF T = {} THEN 0 ELSE f[Pick(T)] + g[T \ {Pick(T)}]
  BY Zenon DEF Sums
<1>2. {} \in SUBSET S
  OBVIOUS
<1> QED
  BY <1>1, <1>2

\* Something is picked from a set that is not empty.
LEMMA Picked ==
  ASSUME NEW T, T # {}
  PROVE  Pick(T) \in T
  BY DEF Pick

\* The running sums depend on the subset alone.
LEMMA SumsAgree ==
  ASSUME NEW f, NEW S, IsFiniteSet(S), NEW T, NEW g, NEW h, Sums(g, f, S), Sums(h, f, T)
  PROVE  \A U \in SUBSET S : U \in SUBSET T => g[U] = h[U]
<1> DEFINE G == {U \in SUBSET S : U \in SUBSET T => g[U] = h[U]}
<1>1. ASSUME NEW U \in SUBSET S, \A x \in U : U \ {x} \in G
      PROVE  U \in G
  <2> SUFFICES ASSUME U \in SUBSET T PROVE g[U] = h[U]
    OBVIOUS
  <2> HIDE DEF G
  <2>1. CASE U = {}
    BY <2>1, SumsAre
  <2>2. CASE U # {}
    <3>1. Pick(U) \in U
      BY <2>2, Picked
    <3>2. g[U \ {Pick(U)}] = h[U \ {Pick(U)}]
      BY <1>1, <3>1 DEF G
    <3> QED
      BY <2>2, <3>2, SumsAre
  <2> QED
    BY <2>1, <2>2
<1> HIDE DEF G
<1>2. SUBSET S \subseteq G
  BY <1>1, SmallerFirst
<1> QED
  BY <1>2 DEF G

\* There are running sums: the recursion of the fold is well-founded.
LEMMA SumsExist ==
  ASSUME NEW f, NEW S, IsFiniteSet(S)
  PROVE  \E g : Sums(g, f, S)
<1> DEFINE G == {T \in SUBSET S : \E g : Sums(g, f, T)}
<1>1. ASSUME NEW T \in SUBSET S, \A x \in T : T \ {x} \in G
      PROVE  T \in G
  <2> DEFINE h(x) == CHOOSE h : Sums(h, f, T \ {x})
             g == [s \in SUBSET T |->
                     IF s = {} THEN 0 ELSE f[Pick(s)] + h(Pick(s))[s \ {Pick(s)}]]
  <2>1. ASSUME NEW x \in T PROVE Sums(h(x), f, T \ {x})
    BY <1>1
  <2>2. ASSUME NEW s \in SUBSET T, s # {}
        PROVE  g[s \ {Pick(s)}] = h(Pick(s))[s \ {Pick(s)}]
    <3> DEFINE x == Pick(s)
               u == s \ {x}
               y == Pick(u)
    <3>1. x \in T /\ x \in s /\ u \in SUBSET T /\ u \in SUBSET (T \ {x})
      BY <2>2, Picked
    <3>2. Sums(h(x), f, T \ {x})
      BY <2>1, <3>1
    <3>3. g[u] = IF u = {} THEN 0 ELSE f[y] + h(y)[u \ {y}]
      BY <3>1
    <3>4. h(x)[u] = IF u = {} THEN 0 ELSE f[y] + h(x)[u \ {y}]
      <4>1. /\ h(x)[{}] = 0
            /\ \A U \in SUBSET (T \ {x}) :
                 U # {} => h(x)[U] = f[Pick(U)] + h(x)[U \ {Pick(U)}]
        <5> HIDE DEF h, x
        <5> QED
          BY <3>2, SumsAre
      <4> HIDE DEF h, u, x
      <4> QED
        BY <3>1, <4>1
    <3>5. ASSUME u # {} PROVE h(y)[u \ {y}] = h(x)[u \ {y}]
      <4>1. y \in u /\ y \in T
        BY <3>1, <3>5, Picked
      <4>2. Sums(h(y), f, T \ {y})
        BY <2>1, <4>1
      <4>3. u \ {y} \in SUBSET (T \ {y}) /\ u \ {y} \in SUBSET (T \ {x})
        BY <3>1
      <4>4. IsFiniteSet(T \ {y})
        BY FS_Subset
      <4> HIDE DEF h, u, y, x
      <4> QED
        BY <3>2, <4>2, <4>3, <4>4, SumsAgree
    <3> QED
      BY <3>3, <3>4, <3>5
  <2>3. g = [s \in SUBSET T |-> IF s = {} THEN 0 ELSE f[Pick(s)] + g[s \ {Pick(s)}]]
    <3>1. ASSUME NEW s \in SUBSET T
          PROVE  (IF s = {} THEN 0 ELSE f[Pick(s)] + h(Pick(s))[s \ {Pick(s)}])
                   = (IF s = {} THEN 0 ELSE f[Pick(s)] + g[s \ {Pick(s)}])
      <4> HIDE DEF g, h
      <4> QED
        BY <2>2
    <3> HIDE DEF h
    <3> QED
      BY <3>1, Zenon
  <2>4. Sums(g, f, T)
    BY <2>3 DEF Sums
  <2> QED
    BY <2>4
<1> HIDE DEF G
<1>2. SUBSET S \subseteq G
  BY <1>1, SmallerFirst
<1> QED
  BY <1>2 DEF G

\* The sum of the community modules is the last running sum.
LEMMA SumIs ==
  ASSUME NEW f, NEW S, IsFiniteSet(S)
  PROVE  \E g : Sums(g, f, S) /\ SumFunctionOnSet(f, S) = g[S]
<1>1. \E g : Sums(g, f, S)
  BY SumsExist
<1> QED
  BY <1>1, Zenon DEF SumFunctionOnSet, FoldFunctionOnSet, MapThenFoldSet, Sums, Pick

\* Running sums of integers are integers.
LEMMA SumsInt ==
  ASSUME NEW f, NEW S, IsFiniteSet(S), \A x \in S : f[x] \in Int, NEW g, Sums(g, f, S)
  PROVE  \A T \in SUBSET S : g[T] \in Int
<1> DEFINE G == {T \in SUBSET S : g[T] \in Int}
<1>1. /\ g[{}] = 0
      /\ \A T \in SUBSET S : T # {} => g[T] = f[Pick(T)] + g[T \ {Pick(T)}]
  BY SumsAre
<1>2. ASSUME NEW T \in SUBSET S, \A x \in T : T \ {x} \in G
      PROVE  T \in G
  <2>1. CASE T = {}
    BY <1>1, <2>1
  <2>2. CASE T # {}
    <3>1. Pick(T) \in T /\ g[T] = f[Pick(T)] + g[T \ {Pick(T)}]
      BY <1>1, <2>2, Picked
    <3>2. T \ {Pick(T)} \in G /\ f[Pick(T)] \in Int
      BY <1>2, <3>1
    <3> QED
      BY <3>1, <3>2
  <2> QED
    BY <2>1, <2>2
<1> HIDE DEF G
<1>3. SUBSET S \subseteq G
  BY <1>2, SmallerFirst
<1> QED
  BY <1>3 DEF G

\* Any element may be the one that is picked.
LEMMA SumsRemove ==
  ASSUME NEW f, NEW S, IsFiniteSet(S), \A x \in S : f[x] \in Int, NEW g, Sums(g, f, S)
  PROVE  \A s \in S : g[S] = f[s] + g[S \ {s}]
<1> DEFINE G == {T \in SUBSET S : \A z \in T : g[T] = f[z] + g[T \ {z}]}
<1>1. /\ g[{}] = 0
      /\ \A T \in SUBSET S : T # {} => g[T] = f[Pick(T)] + g[T \ {Pick(T)}]
  BY SumsAre
<1>2. \A T \in SUBSET S : g[T] \in Int
  BY SumsInt
<1>3. ASSUME NEW T \in SUBSET S, \A x \in T : T \ {x} \in G
      PROVE  T \in G
  <2> SUFFICES ASSUME NEW x \in T PROVE g[T] = f[x] + g[T \ {x}]
    OBVIOUS
  <2> DEFINE y == Pick(T)
             U == (T \ {x}) \ {y}
  <2>1. y \in T /\ g[T] = f[y] + g[T \ {y}]
    BY <1>1, Picked
  <2> HIDE DEF y
  <2>2. CASE x = y
    BY <2>1, <2>2
  <2>3. CASE x # y
    <3>1. x \in T \ {y} /\ y \in T \ {x} /\ (T \ {y}) \ {x} = U /\ U \in SUBSET S
      BY <2>1, <2>3
    <3>2. g[T \ {y}] = f[x] + g[U]
      BY <1>3, <2>1, <3>1
    <3>3. g[T \ {x}] = f[y] + g[U]
      BY <1>3, <3>1
    <3>4. g[U] \in Int /\ f[x] \in Int /\ f[y] \in Int
      BY <1>2, <2>1, <3>1
    <3> QED
      BY <2>1, <3>2, <3>3, <3>4
  <2> QED
    BY <2>2, <2>3
<1> HIDE DEF G
<1>4. SUBSET S \subseteq G
  BY <1>3, SmallerFirst
<1> QED
  BY <1>4 DEF G

-----------------------------------------------------------------------------
(* Sums                                                                    *)

\* The sum over no elements.
LEMMA SumEmpty == ASSUME NEW f PROVE SumFunctionOnSet(f, {}) = 0
<1>1. PICK g : Sums(g, f, {}) /\ SumFunctionOnSet(f, {}) = g[{}]
  BY SumIs, FS_EmptySet
<1> QED
  BY <1>1, SumsAre

\* A sum, one element taken out of it.
LEMMA SumRemove ==
  ASSUME NEW f, NEW S, IsFiniteSet(S), \A x \in S : f[x] \in Int
  PROVE  /\ SumFunctionOnSet(f, S) \in Int
         /\ \A x \in S : SumFunctionOnSet(f, S) = f[x] + SumFunctionOnSet(f, S \ {x})
<1>1. PICK g : Sums(g, f, S) /\ SumFunctionOnSet(f, S) = g[S]
  BY SumIs
<1>2. S \in SUBSET S
  OBVIOUS
<1>3. g[S] \in Int /\ \A x \in S : g[S] = f[x] + g[S \ {x}]
  <2>1. \A T \in SUBSET S : g[T] \in Int
    BY <1>1, SumsInt
  <2>2. \A x \in S : g[S] = f[x] + g[S \ {x}]
    BY <1>1, SumsRemove
  <2> QED
    BY <1>2, <2>1, <2>2
<1>4. ASSUME NEW x \in S PROVE SumFunctionOnSet(f, S \ {x}) = g[S \ {x}]
  <2>1. IsFiniteSet(S \ {x})
    BY FS_Subset
  <2>2. PICK h : Sums(h, f, S \ {x}) /\ SumFunctionOnSet(f, S \ {x}) = h[S \ {x}]
    BY <2>1, SumIs
  <2>3. \A U \in SUBSET S : U \in SUBSET (S \ {x}) => g[U] = h[U]
    BY <1>1, <2>2, SumsAgree
  <2> QED
    BY <2>2, <2>3
<1> QED
  BY <1>1, <1>3, <1>4

\* A sum of integers is an integer.
LEMMA SumInt ==
  ASSUME NEW f, NEW S, IsFiniteSet(S), \A x \in S : f[x] \in Int
  PROVE  SumFunctionOnSet(f, S) \in Int
BY SumRemove

\* Equal summands have equal sums.
LEMMA SumSame ==
  ASSUME NEW f, NEW h, NEW S, IsFiniteSet(S), \A x \in S : f[x] \in Int /\ f[x] = h[x]
  PROVE  SumFunctionOnSet(f, S) = SumFunctionOnSet(h, S)
<1> DEFINE G == {T \in SUBSET S : SumFunctionOnSet(f, T) = SumFunctionOnSet(h, T)}
<1>1. {} \in G
  BY SumEmpty
<1>2. ASSUME NEW T \in SUBSET S, NEW x \in T, T \ {x} \in G
      PROVE  T \in G
  <2>1. IsFiniteSet(T) /\ \A y \in T : f[y] \in Int /\ h[y] \in Int
    BY FS_Subset
  <2>2. SumFunctionOnSet(f, T) = f[x] + SumFunctionOnSet(f, T \ {x})
    BY <2>1, SumRemove
  <2>3. SumFunctionOnSet(h, T) = h[x] + SumFunctionOnSet(h, T \ {x})
    BY <2>1, SumRemove
  <2> QED
    BY <1>2, <2>2, <2>3
<1> HIDE DEF G
<1>3. S \in G
  BY <1>1, <1>2, OneByOne
<1> QED
  BY <1>3 DEF G

\* A sum, one element added to it.
LEMMA SumAdd ==
  ASSUME NEW f, NEW S, IsFiniteSet(S), NEW x, x \notin S, \A y \in S \cup {x} : f[y] \in Int
  PROVE  SumFunctionOnSet(f, S \cup {x}) = SumFunctionOnSet(f, S) + f[x]
<1>1. IsFiniteSet(S \cup {x})
  BY FS_AddElement
<1>2. (S \cup {x}) \ {x} = S
  OBVIOUS
<1>3. SumFunctionOnSet(f, S \cup {x}) = f[x] + SumFunctionOnSet(f, S)
  BY <1>1, <1>2, SumRemove
<1>4. SumFunctionOnSet(f, S) \in Int /\ f[x] \in Int
  BY SumInt
<1> QED
  BY <1>3, <1>4

\* A sum is the sum of its parts.
LEMMA SumSplit ==
  ASSUME NEW f, NEW S, IsFiniteSet(S), NEW T \in SUBSET S, \A x \in S : f[x] \in Int
  PROVE  SumFunctionOnSet(f, S) = SumFunctionOnSet(f, T) + SumFunctionOnSet(f, S \ T)
<1> DEFINE G == {U \in SUBSET (S \ T) :
                   SumFunctionOnSet(f, T \cup U)
                     = SumFunctionOnSet(f, T) + SumFunctionOnSet(f, U)}
<1>0. IsFiniteSet(T) /\ IsFiniteSet(S \ T) /\ SumFunctionOnSet(f, T) \in Int
  <2>1. IsFiniteSet(T) /\ IsFiniteSet(S \ T)
    BY FS_Subset
  <2> QED
    BY <2>1, SumInt
<1>1. {} \in G
  <2>1. T \cup {} = T
    OBVIOUS
  <2> QED
    BY <1>0, <2>1, SumEmpty
<1>2. ASSUME NEW U \in SUBSET (S \ T), NEW x \in U, U \ {x} \in G
      PROVE  U \in G
  <2>1. /\ IsFiniteSet(U) /\ IsFiniteSet(T \cup U) /\ IsFiniteSet(U \ {x})
        /\ (T \cup U) \ {x} = T \cup (U \ {x}) /\ x \in T \cup U
    <3>1. U \in SUBSET S /\ T \cup U \in SUBSET S /\ U \ {x} \in SUBSET S
      OBVIOUS
    <3> QED
      BY <3>1, FS_Subset
  <2>2. SumFunctionOnSet(f, T \cup U) = f[x] + SumFunctionOnSet(f, T \cup (U \ {x}))
    BY <2>1, SumRemove
  <2>3. SumFunctionOnSet(f, U) = f[x] + SumFunctionOnSet(f, U \ {x})
    BY <2>1, SumRemove
  <2>4. SumFunctionOnSet(f, U \ {x}) \in Int /\ f[x] \in Int
    BY <2>1, SumInt
  <2>5. SumFunctionOnSet(f, T \cup (U \ {x}))
          = SumFunctionOnSet(f, T) + SumFunctionOnSet(f, U \ {x})
    BY <1>2
  <2> QED
    BY <1>0, <2>2, <2>3, <2>4, <2>5
<1> HIDE DEF G
<1>3. S \ T \in G
  BY <1>0, <1>1, <1>2, OneByOne
<1>4. T \cup (S \ T) = S
  OBVIOUS
<1> QED
  BY <1>3, <1>4 DEF G

\* Larger summands have no smaller sum.
LEMMA SumMonotone ==
  ASSUME NEW f, NEW h, NEW S, IsFiniteSet(S),
         \A x \in S : f[x] \in Int /\ h[x] \in Int /\ f[x] <= h[x]
  PROVE  SumFunctionOnSet(f, S) <= SumFunctionOnSet(h, S)
<1> DEFINE G == {T \in SUBSET S : SumFunctionOnSet(f, T) <= SumFunctionOnSet(h, T)}
<1>1. {} \in G
  BY SumEmpty
<1>2. ASSUME NEW T \in SUBSET S, NEW x \in T, T \ {x} \in G
      PROVE  T \in G
  <2>1. IsFiniteSet(T) /\ IsFiniteSet(T \ {x}) /\ \A y \in T : f[y] \in Int /\ h[y] \in Int
    BY FS_Subset
  <2>2. SumFunctionOnSet(f, T) = f[x] + SumFunctionOnSet(f, T \ {x})
    BY <2>1, SumRemove
  <2>3. SumFunctionOnSet(h, T) = h[x] + SumFunctionOnSet(h, T \ {x})
    BY <2>1, SumRemove
  <2>4. /\ SumFunctionOnSet(f, T \ {x}) \in Int /\ SumFunctionOnSet(h, T \ {x}) \in Int
        /\ f[x] \in Int /\ h[x] \in Int /\ f[x] <= h[x]
    BY <2>1, SumInt
  <2>5. SumFunctionOnSet(f, T \ {x}) <= SumFunctionOnSet(h, T \ {x})
    BY <1>2
  <2> QED
    BY <2>2, <2>3, <2>4, <2>5
<1> HIDE DEF G
<1>3. S \in G
  BY <1>1, <1>2, OneByOne
<1> QED
  BY <1>3 DEF G

\* A sum of naturals is a natural.
LEMMA SumNat ==
  ASSUME NEW f, NEW S, IsFiniteSet(S), \A x \in S : f[x] \in Nat
  PROVE  SumFunctionOnSet(f, S) \in Nat
<1> DEFINE G == {T \in SUBSET S : SumFunctionOnSet(f, T) \in Nat}
<1>1. {} \in G
  BY SumEmpty
<1>2. ASSUME NEW T \in SUBSET S, NEW x \in T, T \ {x} \in G
      PROVE  T \in G
  <2>1. IsFiniteSet(T) /\ \A y \in T : f[y] \in Int
    BY FS_Subset
  <2>2. SumFunctionOnSet(f, T) = f[x] + SumFunctionOnSet(f, T \ {x})
    BY <2>1, SumRemove
  <2> QED
    BY <1>2, <2>2
<1> HIDE DEF G
<1>3. S \in G
  BY <1>1, <1>2, OneByOne
<1> QED
  BY <1>3 DEF G

\* A sum of zeros is zero.
LEMMA SumZero ==
  ASSUME NEW f, NEW S, IsFiniteSet(S), \A x \in S : f[x] = 0
  PROVE  SumFunctionOnSet(f, S) = 0
<1> DEFINE G == {T \in SUBSET S : SumFunctionOnSet(f, T) = 0}
<1>1. {} \in G
  BY SumEmpty
<1>2. ASSUME NEW T \in SUBSET S, NEW x \in T, T \ {x} \in G
      PROVE  T \in G
  <2>1. IsFiniteSet(T) /\ f[x] = 0 /\ \A y \in T : f[y] \in Int
    BY FS_Subset
  <2>2. SumFunctionOnSet(f, T) = f[x] + SumFunctionOnSet(f, T \ {x})
    BY <2>1, SumRemove
  <2> QED
    BY <1>2, <2>1, <2>2
<1> HIDE DEF G
<1>3. S \in G
  BY <1>1, <1>2, OneByOne
<1> QED
  BY <1>3 DEF G

\* Fewer naturals have no larger sum.
LEMMA SumOfPart ==
  ASSUME NEW f, NEW S, IsFiniteSet(S), NEW T \in SUBSET S, \A x \in S : f[x] \in Nat
  PROVE  SumFunctionOnSet(f, T) <= SumFunctionOnSet(f, S)
<1>1. IsFiniteSet(T) /\ IsFiniteSet(S \ T)
  BY FS_Subset
<1>2. SumFunctionOnSet(f, T) \in Nat /\ SumFunctionOnSet(f, S \ T) \in Nat
  BY <1>1, SumNat
<1>3. SumFunctionOnSet(f, S) = SumFunctionOnSet(f, T) + SumFunctionOnSet(f, S \ T)
  BY SumSplit
<1> QED
  BY <1>2, <1>3

\* A sum changes by as much as the one summand that changes.
LEMMA SumChange ==
  ASSUME NEW f, NEW h, NEW S, IsFiniteSet(S), NEW x, x \in S,
         \A y \in S : f[y] \in Int /\ h[y] \in Int,
         \A y \in S : y # x => h[y] = f[y]
  PROVE  SumFunctionOnSet(h, S) = SumFunctionOnSet(f, S) + (h[x] - f[x])
<1>1. IsFiniteSet(S \ {x})
  BY FS_Subset
<1>2. SumFunctionOnSet(f, S) = f[x] + SumFunctionOnSet(f, S \ {x})
  BY SumRemove
<1>3. SumFunctionOnSet(h, S) = h[x] + SumFunctionOnSet(h, S \ {x})
  BY SumRemove
<1>4. SumFunctionOnSet(f, S \ {x}) = SumFunctionOnSet(h, S \ {x})
  BY <1>1, SumSame
<1>5. SumFunctionOnSet(f, S \ {x}) \in Int
  BY <1>1, SumInt
<1> QED
  BY <1>2, <1>3, <1>4, <1>5

\* A sum does not depend on how its elements are named.
LEMMA SumReindexed ==
  ASSUME NEW f, NEW h, NEW b, NEW S, IsFiniteSet(S),
         \A x \in S : h[x] \in Int /\ h[x] = f[b[x]],
         \A x, y \in S : b[x] = b[y] => x = y
  PROVE  SumFunctionOnSet(h, S) = SumFunctionOnSet(f, {b[x] : x \in S})
<1> DEFINE Image(T) == {b[x] : x \in T}
           G == {T \in SUBSET S : /\ IsFiniteSet(Image(T))
                                  /\ SumFunctionOnSet(h, T) = SumFunctionOnSet(f, Image(T))}
<1>1. {} \in G
  <2>1. Image({}) = {}
    OBVIOUS
  <2> QED
    BY <2>1, SumEmpty, FS_EmptySet
<1>2. ASSUME NEW T \in SUBSET S, NEW x \in T, T \ {x} \in G
      PROVE  T \in G
  <2>1. /\ Image(T) = Image(T \ {x}) \cup {b[x]} /\ b[x] \notin Image(T \ {x})
        /\ \A z \in Image(T) : f[z] \in Int
    OBVIOUS
  <2>2. IsFiniteSet(T) /\ \A y \in T : h[y] \in Int
    BY FS_Subset
  <2> DEFINE I == Image(T \ {x})
  <2>3. /\ IsFiniteSet(I) /\ Image(T) = I \cup {b[x]} /\ b[x] \notin I
        /\ \A z \in I \cup {b[x]} : f[z] \in Int
        /\ SumFunctionOnSet(h, T \ {x}) = SumFunctionOnSet(f, I)
    BY <1>2, <2>1
  <2> HIDE DEF Image, I
  <2>4. /\ IsFiniteSet(Image(T))
        /\ SumFunctionOnSet(f, Image(T)) = SumFunctionOnSet(f, I) + f[b[x]]
    BY <2>3, SumAdd, FS_AddElement
  <2>5. SumFunctionOnSet(h, T) = h[x] + SumFunctionOnSet(h, T \ {x})
    BY <2>2, SumRemove
  <2>6. SumFunctionOnSet(f, I) \in Int /\ h[x] \in Int /\ h[x] = f[b[x]]
    BY <2>3, SumInt
  <2>7. SumFunctionOnSet(h, T) = SumFunctionOnSet(f, Image(T))
    BY <2>3, <2>4, <2>5, <2>6
  <2> QED
    BY <2>4, <2>7
<1> HIDE DEF G
<1>3. S \in G
  BY <1>1, <1>2, OneByOne
<1> QED
  BY <1>3 DEF G
=============================================================================
