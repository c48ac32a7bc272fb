---------------------------- MODULE DataTheorems ----------------------------
(***************************************************************************)
(* Facts about the data that the contracts are built on, which the proofs  *)
(* about several of them need.  Finite sums, which the contracts' totals   *)
(* are: what happens to SumFunctionOnSet when an element joins or leaves   *)
(* the set or its term changes.  Functions.tla defines the sum by a        *)
(* function on the subsets that takes out a chosen element at a time; that *)
(* this function exists, and that the choice does not matter, is shown     *)
(* first.  Truncating division.  And sequences sorted by value, with one   *)
(* element for each key.                                                   *)
(*                                                                         *)
(* Induction over finite sets, and up to a number, is over the set of what *)
(* is Good, in place of a predicate.                                       *)
(***************************************************************************)
EXTENDS SortedSeq, FiniteSetTheorems, SequenceTheorems, WellFoundedInduction, TLAPS

\* A set of subsets of S that has the empty set and grows element by element has S.
LEMMA FiniteInduction ==
    ASSUME NEW S, IsFiniteSet(S), NEW Good, {} \in Good,
           \A T \in (SUBSET S) \cap Good : \A x \in S \ T : T \cup {x} \in Good
    PROVE  S \in Good
<1> SUFFICES ASSUME S \notin Good PROVE FALSE
  OBVIOUS
<1> DEFINE Bad == (SUBSET S) \ Good
<1>1. FiniteSubsetsOf(S) = SUBSET S
  BY FS_FiniteSubsetsOfFinite
<1>2. IsWellFoundedOn(StrictSubsetOrdering(S), SUBSET S)
  BY <1>1, FS_StrictSubsetOrderingWellFounded
<1>3. Bad # {} /\ Bad \subseteq SUBSET S
  OBVIOUS
<1>4. PICK T \in Bad : \A U \in Bad : <<U, T>> \notin StrictSubsetOrdering(S)
  <2> HIDE DEF Bad
  <2> QED BY <1>2, <1>3, WFMin
<1>5. PICK x : x \in T
  BY <1>4 DEF Bad
<1>6. T \ {x} \in SUBSET S /\ <<T \ {x}, T>> \in StrictSubsetOrdering(S)
  BY <1>4, <1>5 DEF StrictSubsetOrdering
<1>7. T \ {x} \in Good
  BY <1>4, <1>6
<1>8. (T \ {x}) \cup {x} = T
  BY <1>5
<1> QED BY <1>4, <1>5, <1>6, <1>7, <1>8

\* A set of numbers that is not empty has a least one.
LEMMA LeastNumber ==
    ASSUME NEW S, S \subseteq Nat, S # {}
    PROVE  \E k \in S : \A j \in S : k <= j
<1> DEFINE Below == OpToRel(<, Nat)
<1>1. IsWellFoundedOn(Below, Nat)
  BY NatLessThanWellFounded
<1>2. \A j, k \in Nat : j < k => <<j, k>> \in Below
  BY DEF OpToRel
<1> HIDE DEF Below
<1>3. PICK k \in S : \A j \in S : <<j, k>> \notin Below
  BY <1>1, WFMin
<1>4. ASSUME NEW j \in S PROVE k <= j
  <2>1. j \in Nat /\ k \in Nat
    OBVIOUS
  <2>2. ~(j < k)
    BY <1>2, <1>3, <2>1
  <2> QED BY <2>1, <2>2
<1> QED BY <1>4

\* A set that has 0, and with a number below n the next one, has n.
LEMMA UpTo ==
    ASSUME NEW n \in Nat, NEW Good, 0 \in Good, \A m \in 0..n - 1 : m \in Good => m + 1 \in Good
    PROVE  n \in Good
<1> SUFFICES ASSUME n \notin Good PROVE FALSE
  OBVIOUS
<1> DEFINE Bad == {k \in 0..n : k \notin Good}
<1>1. PICK k \in Bad : \A j \in Bad : k <= j
  <2>1. n \in Bad /\ Bad \subseteq Nat
    OBVIOUS
  <2> HIDE DEF Bad
  <2> QED BY <2>1, LeastNumber
<1>2. k # 0 /\ k \in 0..n /\ k \notin Good
  OBVIOUS
<1>3. k - 1 \in 0..n - 1 /\ k - 1 \in 0..n /\ k - 1 + 1 = k /\ ~(k <= k - 1)
  BY <1>2
<1>4. k - 1 \in Good
  BY <1>1, <1>3
<1> QED BY <1>2, <1>3, <1>4

-----------------------------------------------------------------------------

Pick(s) == CHOOSE x \in s : TRUE

\* it is the function that the definition of SumFunctionOnSet(f, S) chooses.
Sums(f, S, it) ==
    it = [s \in SUBSET S |-> IF s = {} THEN 0 ELSE f[Pick(s)] + it[s \ {Pick(s)}]]

\* SumFunctionOnSet, a fold of the community modules, spelled out.
LEMMA SumDefinition ==
    ASSUME NEW f, NEW S
    PROVE  SumFunctionOnSet(f, S) = (CHOOSE it : Sums(f, S, it))[S]
<1> QED BY DEF SumFunctionOnSet, FoldFunctionOnSet, MapThenFoldSet, Sums, Pick

\* CHOOSE finds an element when there is one.
LEMMA PickElement ==
    ASSUME NEW s, s # {}
    PROVE  Pick(s) \in s
<1> QED BY DEF Pick

\* There is at most one such function for every set, and they agree.
LEMMA SumsUnique ==
    ASSUME NEW f, NEW S, IsFiniteSet(S), NEW T \in SUBSET S,
           NEW a, Sums(f, S, a), NEW b, Sums(f, T, b)
    PROVE  a[T] = b[T]
<1> DEFINE Bad == {s \in SUBSET T : a[s] # b[s]}
<1> SUFFICES ASSUME Bad # {} PROVE FALSE
  OBVIOUS
<1>1. IsFiniteSet(T)
  BY FS_Subset
<1>2. IsWellFoundedOn(StrictSubsetOrdering(T), SUBSET T)
  BY <1>1, FS_FiniteSubsetsOfFinite, FS_StrictSubsetOrderingWellFounded
<1>3. PICK s \in Bad : \A u \in Bad : <<u, s>> \notin StrictSubsetOrdering(T)
  <2>1. Bad \subseteq SUBSET T
    OBVIOUS
  <2> HIDE DEF Bad
  <2> QED BY <1>2, <2>1, WFMin
<1> DEFINE u == s \ {Pick(s)}
<1>4. s \in SUBSET T /\ s \in SUBSET S
  OBVIOUS
<1>5. /\ a[s] = IF s = {} THEN 0 ELSE f[Pick(s)] + a[u]
      /\ b[s] = IF s = {} THEN 0 ELSE f[Pick(s)] + b[u]
  BY <1>4 DEF Sums
<1>6. s # {}
  BY <1>3, <1>5
<1>7. u \in SUBSET T /\ <<u, s>> \in StrictSubsetOrdering(T)
  BY <1>4, <1>6, PickElement DEF StrictSubsetOrdering
<1>8. a[u] = b[u]
  BY <1>3, <1>7
<1> QED BY <1>3, <1>5, <1>8

\* Over a finite set there is such a function.
LEMMA SumsExist ==
    ASSUME NEW f, NEW S, IsFiniteSet(S)
    PROVE  \E it : Sums(f, S, it)
<1> DEFINE Bad == {s \in SUBSET S : ~\E it : Sums(f, s, it)}
<1> SUFFICES ASSUME Bad # {} PROVE FALSE
  OBVIOUS
<1>1. IsWellFoundedOn(StrictSubsetOrdering(S), SUBSET S)
  BY FS_FiniteSubsetsOfFinite, FS_StrictSubsetOrderingWellFounded
<1>2. PICK M \in Bad : \A u \in Bad : <<u, M>> \notin StrictSubsetOrdering(S)
  <2>1. Bad \subseteq SUBSET S
    OBVIOUS
  <2> HIDE DEF Bad
  <2> QED BY <1>1, <2>1, WFMin
<1>3. M \in SUBSET S /\ ~\E it : Sums(f, M, it)
  BY <1>2
<1> DEFINE F(s) == CHOOSE it : Sums(f, s, it)
           it == [s \in SUBSET M |-> IF s = {} THEN 0
                                     ELSE f[Pick(s)] + F(s \ {Pick(s)})[s \ {Pick(s)}]]
<1>4. ASSUME NEW s \in SUBSET M, s # M PROVE Sums(f, s, F(s))
  <2>1. s \in SUBSET S /\ <<s, M>> \in StrictSubsetOrdering(S)
    BY <1>3, <1>4 DEF StrictSubsetOrdering
  <2>2. \E j : Sums(f, s, j)
    BY <1>2, <2>1
  <2> QED BY <2>2
<1> HIDE DEF Bad, F
<1>5. ASSUME NEW t \in SUBSET M, t # M PROVE it[t] = F(t)[t]
  <2> DEFINE r == t \ {Pick(t)}
  <2>1. Sums(f, t, F(t))
    BY <1>4, <1>5
  <2>2. F(t)[t] = IF t = {} THEN 0 ELSE f[Pick(t)] + F(t)[r]
    <3>1. t \in SUBSET t
      OBVIOUS
    <3> HIDE DEF r
    <3> QED BY <2>1, <3>1 DEF Sums, r
  <2>3. CASE t = {}
    BY <2>2, <2>3
  <2>4. CASE t # {}
    <3>1. r \in SUBSET M /\ r # M /\ r \in SUBSET t
      BY <1>5
    <3>2. Sums(f, r, F(r))
      BY <1>4, <3>1
    <3>3. IsFiniteSet(t)
      BY <1>3, FS_Subset
    <3>4. F(t)[r] = F(r)[r]
      BY <2>1, <3>1, <3>2, <3>3, SumsUnique
    <3> QED BY <2>2, <2>4, <3>4
  <2> QED BY <2>3, <2>4
<1>6. Sums(f, M, it)
  <2>1. ASSUME NEW s \in SUBSET M, s # {} PROVE it[s \ {Pick(s)}] = F(s \ {Pick(s)})[s \ {Pick(s)}]
    <3>1. s \ {Pick(s)} \in SUBSET M /\ s \ {Pick(s)} # M
      BY <2>1, PickElement
    <3> QED BY <1>5, <3>1
  <2>2. it = [s \in SUBSET M |-> IF s = {} THEN 0 ELSE f[Pick(s)] + it[s \ {Pick(s)}]]
    BY <2>1
  <2> HIDE DEF it
  <2> QED BY <2>2 DEF Sums
<1> QED BY <1>3, <1>6

-----------------------------------------------------------------------------

\* The sum over no element is 0, over a set the picked term and the sum over the rest.
LEMMA SumEmpty ==
    ASSUME NEW f
    PROVE  SumFunctionOnSet(f, {}) = 0
<1>1. PICK it : Sums(f, {}, it)
  BY SumsExist, FS_EmptySet
<1> DEFINE c == CHOOSE j : Sums(f, {}, j)
<1>2. Sums(f, {}, c)
  BY <1>1
<1> HIDE DEF c
<1>3. c[{}] = 0
  BY <1>2 DEF Sums
<1> QED BY <1>3, SumDefinition DEF c

\* The fold adds the chosen element to the sum over the others.
LEMMA SumPicked ==
    ASSUME NEW f, NEW S, IsFiniteSet(S), S # {}
    PROVE  SumFunctionOnSet(f, S) = f[Pick(S)] + SumFunctionOnSet(f, S \ {Pick(S)})
<1> DEFINE C(s) == CHOOSE j : Sums(f, s, j)
           r == S \ {Pick(S)}
<1>1. r \in SUBSET S /\ S \in SUBSET S
  OBVIOUS
<1>2. IsFiniteSet(r)
  BY <1>1, FS_Subset
<1>3. Sums(f, S, C(S)) /\ Sums(f, r, C(r))
  BY <1>2, SumsExist
<1>4. SumFunctionOnSet(f, S) = C(S)[S] /\ SumFunctionOnSet(f, r) = C(r)[r]
  BY SumDefinition
<1> HIDE DEF C, r
<1>5. C(S)[r] = C(r)[r]
  BY <1>1, <1>3, SumsUnique
<1>6. C(S)[S] = f[Pick(S)] + C(S)[r]
  BY <1>1, <1>3 DEF Sums, r
<1> QED BY <1>4, <1>5, <1>6 DEF r

\* A sum of integers is one, and a sum of naturals is natural.
LEMMA SumType ==
    ASSUME NEW S, IsFiniteSet(S), NEW f, \A x \in S : f[x] \in Int
    PROVE  /\ SumFunctionOnSet(f, S) \in Int
           /\ (\A x \in S : f[x] \in Nat) => SumFunctionOnSet(f, S) \in Nat
<1> DEFINE Bad == {s \in SUBSET S :
                       ~(/\ SumFunctionOnSet(f, s) \in Int
                         /\ (\A x \in s : f[x] \in Nat) => SumFunctionOnSet(f, s) \in Nat)}
<1> SUFFICES ASSUME Bad # {} PROVE FALSE
  OBVIOUS
<1>1. PICK s \in Bad : \A u \in Bad : <<u, s>> \notin StrictSubsetOrdering(S)
  <2>1. IsWellFoundedOn(StrictSubsetOrdering(S), SUBSET S)
    BY FS_FiniteSubsetsOfFinite, FS_StrictSubsetOrderingWellFounded
  <2>2. Bad \subseteq SUBSET S
    OBVIOUS
  <2> HIDE DEF Bad
  <2> QED BY <2>1, <2>2, WFMin
<1>2. s \in SUBSET S
  OBVIOUS
<1>3. s # {}
  BY SumEmpty
<1> DEFINE u == s \ {Pick(s)}
<1>4. u \in SUBSET S /\ <<u, s>> \in StrictSubsetOrdering(S) /\ Pick(s) \in s
  BY <1>2, <1>3, PickElement DEF StrictSubsetOrdering
<1>5. /\ SumFunctionOnSet(f, u) \in Int
      /\ (\A x \in u : f[x] \in Nat) => SumFunctionOnSet(f, u) \in Nat
  BY <1>1, <1>4
<1>6. SumFunctionOnSet(f, s) = f[Pick(s)] + SumFunctionOnSet(f, u)
  BY <1>2, <1>3, FS_Subset, SumPicked
<1> QED BY <1>1, <1>2, <1>4, <1>5, <1>6

\* It does not matter which element is taken out first.
LEMMA SumRemove ==
    ASSUME NEW S, IsFiniteSet(S), NEW f, \A y \in S : f[y] \in Int, NEW x \in S
    PROVE  SumFunctionOnSet(f, S) = f[x] + SumFunctionOnSet(f, S \ {x})
<1> DEFINE Bad == {s \in SUBSET S :
                       \E y \in s : SumFunctionOnSet(f, s) # f[y] + SumFunctionOnSet(f, s \ {y})}
<1> SUFFICES ASSUME Bad # {} PROVE FALSE
  OBVIOUS
<1>1. PICK s \in Bad : \A u \in Bad : <<u, s>> \notin StrictSubsetOrdering(S)
  <2>1. IsWellFoundedOn(StrictSubsetOrdering(S), SUBSET S)
    BY FS_FiniteSubsetsOfFinite, FS_StrictSubsetOrderingWellFounded
  <2>2. Bad \subseteq SUBSET S
    OBVIOUS
  <2> HIDE DEF Bad
  <2> QED BY <2>1, <2>2, WFMin
<1>0. PICK z \in s : SumFunctionOnSet(f, s) # f[z] + SumFunctionOnSet(f, s \ {z})
  BY <1>1
<1> DEFINE p == Pick(s)
           u == s \ {p}
           v == s \ {z}
           w == s \ {z, p}
<1>2. s \in SUBSET S /\ z \in s /\ p \in s
  BY <1>0, PickElement
<1>3. IsFiniteSet(s) /\ IsFiniteSet(u) /\ IsFiniteSet(v) /\ IsFiniteSet(w)
  BY <1>2, FS_Subset, FS_RemoveElement
<1>4. SumFunctionOnSet(f, s) = f[p] + SumFunctionOnSet(f, u)
  BY <1>2, <1>3, SumPicked
<1>5. CASE p = z
  BY <1>0, <1>4, <1>5
<1>6. CASE p # z
  <2>1. SumFunctionOnSet(f, u) = f[z] + SumFunctionOnSet(f, w)
    <3>1. u \in SUBSET S /\ z \in u /\ <<u, s>> \in StrictSubsetOrdering(S) /\ u \ {z} = w
      BY <1>2, <1>6 DEF StrictSubsetOrdering
    <3> HIDE DEF u, w
    <3> QED BY <1>1, <3>1
  <2>2. SumFunctionOnSet(f, v) = f[p] + SumFunctionOnSet(f, w)
    <3>1. v \in SUBSET S /\ p \in v /\ <<v, s>> \in StrictSubsetOrdering(S) /\ v \ {p} = w
      BY <1>2, <1>6 DEF StrictSubsetOrdering
    <3> HIDE DEF v, w, p
    <3> QED BY <1>1, <3>1
  <2>3. SumFunctionOnSet(f, w) \in Int /\ f[z] \in Int /\ f[p] \in Int
    BY <1>2, <1>3, SumType
  <2> HIDE DEF u, v, w, p
  <2> QED BY <1>0, <1>4, <2>1, <2>2, <2>3 DEF v
<1> QED BY <1>5, <1>6

\* An element that joins the set adds its term.
LEMMA SumAdd ==
    ASSUME NEW S, IsFiniteSet(S), NEW x, x \notin S, NEW f, \A y \in S \cup {x} : f[y] \in Int
    PROVE  SumFunctionOnSet(f, S \cup {x}) = f[x] + SumFunctionOnSet(f, S)
<1>1. IsFiniteSet(S \cup {x}) /\ (S \cup {x}) \ {x} = S
  BY FS_AddElement
<1> QED BY <1>1, SumRemove

\* Functions that agree on the set have the same sum over it.
LEMMA SumAgree ==
    ASSUME NEW S, IsFiniteSet(S), NEW f, NEW g, \A x \in S : f[x] \in Int /\ f[x] = g[x]
    PROVE  SumFunctionOnSet(f, S) = SumFunctionOnSet(g, S)
<1> DEFINE Good == {T \in SUBSET S : SumFunctionOnSet(f, T) = SumFunctionOnSet(g, T)}
<1>1. {} \in Good
  BY SumEmpty
<1>2. ASSUME NEW T \in (SUBSET S) \cap Good, NEW x \in S \ T PROVE T \cup {x} \in Good
  <2>1. IsFiniteSet(T) /\ \A y \in T \cup {x} : f[y] \in Int /\ g[y] \in Int
    BY FS_Subset
  <2>2. /\ SumFunctionOnSet(f, T \cup {x}) = f[x] + SumFunctionOnSet(f, T)
        /\ SumFunctionOnSet(g, T \cup {x}) = g[x] + SumFunctionOnSet(g, T)
    BY <2>1, SumAdd
  <2> QED BY <2>2
<1>3. S \in Good
  <2> HIDE DEF Good
  <2> QED BY <1>1, <1>2, FiniteInduction
<1> QED BY <1>3

\* A term that changes changes the sum by as much.
LEMMA SumChange ==
    ASSUME NEW S, IsFiniteSet(S), NEW x \in S, NEW f, NEW g,
           \A y \in S : f[y] \in Int, g[x] \in Int, \A y \in S \ {x} : g[y] = f[y]
    PROVE  SumFunctionOnSet(g, S) = SumFunctionOnSet(f, S) - f[x] + g[x]
<1> DEFINE r == S \ {x}
<1>1. IsFiniteSet(r) /\ \A y \in S : g[y] \in Int
  BY FS_RemoveElement
<1>2. SumFunctionOnSet(f, r) = SumFunctionOnSet(g, r) /\ SumFunctionOnSet(f, r) \in Int
  BY <1>1, SumAgree, SumType
<1>3. /\ SumFunctionOnSet(f, S) = f[x] + SumFunctionOnSet(f, r)
      /\ SumFunctionOnSet(g, S) = g[x] + SumFunctionOnSet(g, r)
  BY <1>1, SumRemove
<1> HIDE DEF r
<1> QED BY <1>2, <1>3

\* Terms no larger give a sum no larger.
LEMMA SumMonotone ==
    ASSUME NEW S, IsFiniteSet(S), NEW f, NEW g,
           \A x \in S : f[x] \in Int /\ g[x] \in Int /\ f[x] <= g[x]
    PROVE  SumFunctionOnSet(f, S) <= SumFunctionOnSet(g, S)
<1> DEFINE Good == {T \in SUBSET S : SumFunctionOnSet(f, T) <= SumFunctionOnSet(g, T)}
<1>1. {} \in Good
  BY SumEmpty
<1>2. ASSUME NEW T \in (SUBSET S) \cap Good, NEW x \in S \ T PROVE T \cup {x} \in Good
  <2>1. IsFiniteSet(T) /\ \A y \in T \cup {x} : f[y] \in Int /\ g[y] \in Int
    BY FS_Subset
  <2>2. /\ SumFunctionOnSet(f, T \cup {x}) = f[x] + SumFunctionOnSet(f, T)
        /\ SumFunctionOnSet(g, T \cup {x}) = g[x] + SumFunctionOnSet(g, T)
        /\ SumFunctionOnSet(f, T) \in Int /\ SumFunctionOnSet(g, T) \in Int
    BY <2>1, SumAdd, SumType
  <2> QED BY <2>2
<1>3. S \in Good
  <2> HIDE DEF Good
  <2> QED BY <1>1, <1>2, FiniteInduction
<1> QED BY <1>3

\* The sum of sums term by term is the sum of the sums.
LEMMA SumPlus ==
    ASSUME NEW S, IsFiniteSet(S), NEW f, NEW g, NEW h,
           \A x \in S : f[x] \in Int /\ g[x] \in Int /\ h[x] = f[x] + g[x]
    PROVE  SumFunctionOnSet(h, S) = SumFunctionOnSet(f, S) + SumFunctionOnSet(g, S)
<1> DEFINE Good == {T \in SUBSET S : SumFunctionOnSet(h, T)
                                         = SumFunctionOnSet(f, T) + SumFunctionOnSet(g, T)}
<1>1. {} \in Good
  BY SumEmpty
<1>2. ASSUME NEW T \in (SUBSET S) \cap Good, NEW x \in S \ T PROVE T \cup {x} \in Good
  <2>1. IsFiniteSet(T) /\ \A y \in T \cup {x} : f[y] \in Int /\ g[y] \in Int /\ h[y] \in Int
    BY FS_Subset
  <2>2. /\ SumFunctionOnSet(f, T \cup {x}) = f[x] + SumFunctionOnSet(f, T)
        /\ SumFunctionOnSet(g, T \cup {x}) = g[x] + SumFunctionOnSet(g, T)
        /\ SumFunctionOnSet(h, T \cup {x}) = h[x] + SumFunctionOnSet(h, T)
        /\ SumFunctionOnSet(f, T) \in Int /\ SumFunctionOnSet(g, T) \in Int
    BY <2>1, SumAdd, SumType
  <2>3. f[x] \in Int /\ g[x] \in Int /\ h[x] = f[x] + g[x]
    OBVIOUS
  <2> QED BY <2>2, <2>3
<1>3. S \in Good
  <2> HIDE DEF Good
  <2> QED BY <1>1, <1>2, FiniteInduction
<1> QED BY <1>3

\* The sum over two disjoint sets is the sum over each.
LEMMA SumUnion ==
    ASSUME NEW S, IsFiniteSet(S), NEW R, IsFiniteSet(R), R \cap S = {},
           NEW f, \A x \in R \cup S : f[x] \in Int
    PROVE  SumFunctionOnSet(f, R \cup S) = SumFunctionOnSet(f, R) + SumFunctionOnSet(f, S)
<1> DEFINE Good == {T \in SUBSET S : SumFunctionOnSet(f, R \cup T)
                                         = SumFunctionOnSet(f, R) + SumFunctionOnSet(f, T)}
<1>1. {} \in Good
  <2>1. SumFunctionOnSet(f, R) \in Int /\ R \cup {} = R
    BY SumType
  <2> QED BY <2>1, SumEmpty
<1>2. ASSUME NEW T \in (SUBSET S) \cap Good, NEW x \in S \ T PROVE T \cup {x} \in Good
  <2>1. /\ IsFiniteSet(T) /\ IsFiniteSet(R \cup T)
        /\ R \cup (T \cup {x}) = (R \cup T) \cup {x} /\ x \notin R \cup T
        /\ \A y \in R : f[y] \in Int
        /\ \A y \in T \cup {x} : f[y] \in Int
        /\ \A y \in (R \cup T) \cup {x} : f[y] \in Int
    BY FS_Subset, FS_Union
  <2>2. /\ SumFunctionOnSet(f, T \cup {x}) = f[x] + SumFunctionOnSet(f, T)
        /\ SumFunctionOnSet(f, R \cup (T \cup {x})) = f[x] + SumFunctionOnSet(f, R \cup T)
        /\ SumFunctionOnSet(f, T) \in Int /\ SumFunctionOnSet(f, R) \in Int
    BY ZenonT(30), <2>1, SumAdd, SumType
  <2>3. f[x] \in Int
    OBVIOUS
  <2> QED BY <2>2, <2>3
<1>3. S \in Good
  <2> HIDE DEF Good
  <2> QED BY <1>1, <1>2, FiniteInduction
<1> QED BY <1>3

\* Terms that are 0 add nothing.
LEMMA SumZero ==
    ASSUME NEW S, IsFiniteSet(S), NEW f, \A x \in S : f[x] = 0
    PROVE  SumFunctionOnSet(f, S) = 0
<1> DEFINE Good == {T \in SUBSET S : SumFunctionOnSet(f, T) = 0}
<1>1. {} \in Good
  BY SumEmpty
<1>2. ASSUME NEW T \in (SUBSET S) \cap Good, NEW x \in S \ T PROVE T \cup {x} \in Good
  <2>1. IsFiniteSet(T) /\ \A y \in T \cup {x} : f[y] \in Int
    BY FS_Subset
  <2>2. SumFunctionOnSet(f, T \cup {x}) = f[x] + SumFunctionOnSet(f, T)
    BY <2>1, SumAdd
  <2> QED BY <2>2
<1>3. S \in Good
  <2> HIDE DEF Good
  <2> QED BY <1>1, <1>2, FiniteInduction
<1> QED BY <1>3

\* A factor of all the terms is one of the sum.
LEMMA SumScaled ==
    ASSUME NEW S, IsFiniteSet(S), NEW c \in Int, NEW f, NEW g,
           \A x \in S : f[x] \in Int /\ g[x] = f[x] * c
    PROVE  SumFunctionOnSet(g, S) = SumFunctionOnSet(f, S) * c
<1> DEFINE Good == {T \in SUBSET S : SumFunctionOnSet(g, T) = SumFunctionOnSet(f, T) * c}
<1>1. {} \in Good
  <2>1. 0 * c = 0
    OBVIOUS
  <2> QED BY <2>1, SumEmpty
<1>2. ASSUME NEW T \in (SUBSET S) \cap Good, NEW x \in S \ T PROVE T \cup {x} \in Good
  <2>1. IsFiniteSet(T) /\ \A y \in T \cup {x} : f[y] \in Int /\ g[y] \in Int
    BY FS_Subset
  <2>2. /\ SumFunctionOnSet(f, T \cup {x}) = f[x] + SumFunctionOnSet(f, T)
        /\ SumFunctionOnSet(g, T \cup {x}) = g[x] + SumFunctionOnSet(g, T)
        /\ SumFunctionOnSet(f, T) \in Int
    BY <2>1, SumAdd, SumType
  <2>3. f[x] \in Int /\ g[x] = f[x] * c /\ SumFunctionOnSet(g, T) = SumFunctionOnSet(f, T) * c
    OBVIOUS
  <2>4. \A y, z \in Int : y * c + z * c = (y + z) * c
    OBVIOUS
  <2>5. SumFunctionOnSet(g, T \cup {x}) = SumFunctionOnSet(f, T \cup {x}) * c
    BY <2>2, <2>3, <2>4
  <2> QED BY <2>5
<1>3. S \in Good
  <2> HIDE DEF Good
  <2> QED BY <1>1, <1>2, FiniteInduction
<1> QED BY <1>3

\* A term of a sum of naturals is at most the sum.
LEMMA SumCovers ==
    ASSUME NEW S, IsFiniteSet(S), NEW x \in S, NEW f, \A y \in S : f[y] \in Nat
    PROVE  f[x] <= SumFunctionOnSet(f, S)
<1>1. IsFiniteSet(S \ {x})
  BY FS_RemoveElement
<1>2. SumFunctionOnSet(f, S \ {x}) \in Nat /\ f[x] \in Nat
  BY <1>1, SumType
<1> QED BY <1>2, SumRemove

-----------------------------------------------------------------------------

\* The same for the sum of all the values of a function.
LEMMA SumOfAll ==
    ASSUME NEW S, NEW f, DOMAIN f = S
    PROVE  SumFunction(f) = SumFunctionOnSet(f, S)
<1> QED BY DEF SumFunction

\* SumFunction of numbers is a number, and of naturals a natural.
LEMMA SumOfAllType ==
    ASSUME NEW S, IsFiniteSet(S), NEW f \in [S -> Int]
    PROVE  /\ SumFunction(f) \in Int
           /\ (\A x \in S : f[x] \in Nat) => SumFunction(f) \in Nat
<1> QED BY SumOfAll, SumType

\* Changing one value changes the sum by the same amount.
LEMMA SumOfAllChange ==
    ASSUME NEW S, IsFiniteSet(S), NEW f \in [S -> Int], NEW x \in S, NEW v \in Int,
           NEW g, DOMAIN g = S, g[x] = v, \A y \in S \ {x} : g[y] = f[y]
    PROVE  SumFunction(g) = SumFunction(f) - f[x] + v
<1>1. g[x] \in Int /\ \A y \in S : f[y] \in Int
  OBVIOUS
<1>2. SumFunctionOnSet(g, S) = SumFunctionOnSet(f, S) - f[x] + g[x]
  BY <1>1, SumChange
<1>3. SumFunction(f) = SumFunctionOnSet(f, S) /\ SumFunction(g) = SumFunctionOnSet(g, S)
  BY <1>1, SumOfAll
<1> QED BY <1>1, <1>2, <1>3

DifferAt(f, g, S, x) ==
    /\ f \in [S -> Int] /\ x \in S
    /\ DOMAIN g = S /\ g[x] \in Int
    /\ \A y \in S \ {x} : g[y] = f[y]

\* The same, said of two functions that differ at one point.
LEMMA SumDiffers ==
    ASSUME NEW S, IsFiniteSet(S), NEW f, NEW g, NEW x, DifferAt(f, g, S, x)
    PROVE  SumFunction(g) = SumFunction(f) - f[x] + g[x]
<1>1. /\ f \in [S -> Int] /\ x \in S
      /\ DOMAIN g = S /\ g[x] \in Int
      /\ \A y \in S \ {x} : g[y] = f[y]
  BY DEF DifferAt
<1> QED BY <1>1, SumOfAllChange

\* Terms added to the values of a function, each to the value of its group, are added to
\* the sum, whatever the groups are.
LEMMA SumByGroups ==
    ASSUME NEW S, IsFiniteSet(S), NEW A, IsFiniteSet(A), NEW f, \A x \in S : f[x] \in Int,
           NEW h, \A x \in S : h[x] \in A, NEW r \in [A -> Int]
    PROVE  SumFunction([a \in A |-> r[a] + SumFunctionOnSet(f, {x \in S : h[x] = a})])
              = SumFunction(r) + SumFunctionOnSet(f, S)
<1> DEFINE of(T, a) == {x \in T : h[x] = a}
           G(T) == [a \in A |-> r[a] + SumFunctionOnSet(f, of(T, a))]
           Good == {T \in SUBSET S : SumFunction(G(T)) = SumFunction(r) + SumFunctionOnSet(f, T)}
<1>0. SumFunction(r) \in Int
  BY SumOfAllType
<1>1. ASSUME NEW T \in SUBSET S
      PROVE  /\ IsFiniteSet(T) /\ \A x \in T : f[x] \in Int
             /\ G(T) \in [A -> Int]
             /\ \A a \in A : SumFunctionOnSet(f, of(T, a)) \in Int
  <2>1. IsFiniteSet(T) /\ \A x \in T : f[x] \in Int
    BY FS_Subset
  <2>2. ASSUME NEW a \in A PROVE SumFunctionOnSet(f, of(T, a)) \in Int
    <3>1. IsFiniteSet(of(T, a)) /\ \A x \in of(T, a) : f[x] \in Int
      BY <2>1, FS_Subset
    <3> HIDE DEF of
    <3> QED BY <3>1, SumType
  <2> HIDE DEF of
  <2> QED BY <2>1, <2>2
<1>2. {} \in Good
  <2>1. \A a \in A : of({}, a) = {}
    OBVIOUS
  <2>2. \A a \in A : SumFunctionOnSet(f, of({}, a)) = 0
    BY <2>1, SumEmpty
  <2> HIDE DEF of
  <2>3. G({}) = r
    BY <2>2
  <2> HIDE DEF G
  <2> QED BY <1>0, <2>3, SumEmpty
<1>3. ASSUME NEW T \in (SUBSET S) \cap Good, NEW x \in S \ T PROVE T \cup {x} \in Good
  <2> DEFINE U == T \cup {x}
             k == h[x]
  <2>1. U \in SUBSET S /\ k \in A /\ f[x] \in Int
    OBVIOUS
  <2>2. \A a \in A \ {k} : of(U, a) = of(T, a)
    OBVIOUS
  <2>3. of(U, k) = of(T, k) \cup {x} /\ x \notin of(T, k)
    OBVIOUS
  <2>4. SumFunctionOnSet(f, of(U, k)) = f[x] + SumFunctionOnSet(f, of(T, k))
    <3>1. IsFiniteSet(of(T, k)) /\ \A y \in of(T, k) \cup {x} : f[y] \in Int
      BY <1>1, FS_Subset
    <3>2. x \notin of(T, k)
      OBVIOUS
    <3> HIDE DEF of, U, k
    <3>3. SumFunctionOnSet(f, of(T, k) \cup {x}) = f[x] + SumFunctionOnSet(f, of(T, k))
      BY <3>1, <3>2, SumAdd
    <3> QED BY <2>3, <3>3
  <2>5. /\ SumFunction(G(T)) = SumFunction(r) + SumFunctionOnSet(f, T)
        /\ SumFunctionOnSet(f, U) = f[x] + SumFunctionOnSet(f, T)
        /\ SumFunctionOnSet(f, T) \in Int
    <3>1. IsFiniteSet(T) /\ \A y \in T \cup {x} : f[y] \in Int
      BY <1>1
    <3> QED BY <3>1, SumAdd, SumType
  <2> HIDE DEF of, U, k
  <2>6. /\ G(T) \in [A -> Int] /\ DOMAIN G(U) = A
        /\ G(U)[k] = G(T)[k] + f[x] /\ G(T)[k] \in Int
        /\ \A a \in A \ {k} : G(U)[a] = G(T)[a]
    <3>1. /\ G(U)[k] = r[k] + SumFunctionOnSet(f, of(U, k))
          /\ G(T)[k] = r[k] + SumFunctionOnSet(f, of(T, k))
          /\ r[k] \in Int /\ SumFunctionOnSet(f, of(T, k)) \in Int
      BY <1>1, <2>1
    <3>2. G(T) \in [A -> Int] /\ DOMAIN G(U) = A
      BY <1>1
    <3>3. \A a \in A \ {k} : G(U)[a] = G(T)[a]
      BY <2>2
    <3> HIDE DEF G
    <3>4. G(U)[k] = G(T)[k] + f[x]
      BY <2>1, <2>4, <3>1
    <3> QED BY <3>1, <3>2, <3>3, <3>4
  <2> HIDE DEF G
  <2>7. SumFunction(G(U)) = SumFunction(G(T)) - G(T)[k] + (G(T)[k] + f[x])
    <3>1. G(T)[k] + f[x] \in Int
      BY <2>1, <2>6
    <3> QED BY <2>1, <2>6, <3>1, SumOfAllChange
  <2>8. SumFunction(G(U)) = SumFunction(r) + SumFunctionOnSet(f, U)
    BY <1>0, <2>1, <2>5, <2>6, <2>7
  <2> QED BY <2>1, <2>8 DEF U
<1>4. S \in Good
  <2> HIDE DEF Good
  <2> QED BY <1>2, <1>3, FiniteInduction
<1> QED BY <1>4

-----------------------------------------------------------------------------
(***************************************************************************)
(* Products and truncated quotients                                        *)
(***************************************************************************)

\* Multiplying by a natural number keeps the order.
LEMMA ProductOrder ==
    ASSUME NEW x \in Int, NEW y \in Int, NEW z \in Nat
    PROVE  /\ x <= y => x * z <= y * z
           /\ x * z < y * z => x < y
OBVIOUS

\* A truncated quotient does not exceed what is divided.
LEMMA QuotientBelow ==
    ASSUME NEW x \in Nat, NEW y \in Nat \ {0}
    PROVE  x \div y \in Nat /\ (x \div y) * y <= x
OBVIOUS

\* A truncated quotient is short of the true one by less than 1.
LEMMA QuotientBounds ==
    ASSUME NEW x \in Nat, NEW y \in Nat \ {0}
    PROVE  x \div y \in Nat /\ (x \div y) * y <= x /\ x < (x \div y) * y + y
OBVIOUS

\* A truncated quotient is an integer.
LEMMA QuotientType ==
    ASSUME NEW x \in Int, NEW y \in Nat \ {0}
    PROVE  x \div y \in Int
OBVIOUS

-----------------------------------------------------------------------------
(***************************************************************************)
(* Sequences sorted by value: taking an element out and putting one in     *)
(***************************************************************************)
DistinctKeys(s) == \A i, j \in DOMAIN s : s[i].key = s[j].key => i = j

\* The keys of a sequence are the keys of its elements.
LEMMA KeySetElements ==
    ASSUME NEW Element, NEW s \in Seq(Element)
    PROVE  \A x : x \in KeySet(s) <=> \E i \in 1..Len(s) : s[i].key = x
BY LenProperties DEF KeySet

\* What is at each place of a sequence after the element at p was taken out.
LEMMA WithoutElements ==
    ASSUME NEW Element, NEW s \in Seq(Element), DistinctKeys(s),
           NEW p \in 1..Len(s), NEW k, s[p].key = k, NEW t, t = Without(s, k)
    PROVE  /\ t \in Seq(Element) /\ Len(t) = Len(s) - 1
           /\ \A i \in 1..Len(s) - 1 : t[i] = IF i <= p - 1 THEN s[i] ELSE s[i + 1]
<1> DEFINE a == SubSeq(s, 1, p - 1)
           b == SubSeq(s, p + 1, Len(s))
<1>1. p = Position(s, k)
  BY DEF Position, DistinctKeys
<1>2. /\ a \in Seq(Element) /\ Len(a) = p - 1
      /\ \A i \in 1..p - 1 : a[i] = s[i]
  <2>1. \A i \in 1..p - 1 : s[i] \in Element
    BY ElementOfSeq
  <2>2. p - 1 \in Int
    OBVIOUS
  <2> QED BY <2>1, <2>2, SubSeqProperties
<1>3. /\ b \in Seq(Element) /\ Len(b) = Len(s) - p
      /\ \A i \in 1..Len(s) - p : b[i] = s[p + i]
  <2>1. \A i \in p + 1..Len(s) : s[i] \in Element
    BY ElementOfSeq
  <2>2. p + 1 \in Int /\ Len(s) \in Int
    OBVIOUS
  <2>3. /\ b \in Seq(Element)
        /\ Len(b) = IF p + 1 <= Len(s) THEN Len(s) - (p + 1) + 1 ELSE 0
        /\ \A i \in 1..Len(s) - (p + 1) + 1 : b[i] = s[p + 1 + i - 1]
    BY <2>1, <2>2, SubSeqProperties
  <2>4. \A i \in 1..Len(s) - p : p + 1 + i - 1 = p + i
    OBVIOUS
  <2> QED BY <2>3, <2>4
<1>4. t = a \o b
  BY <1>1 DEF Without, RemoveAt
<1> HIDE DEF a, b
<1> QED
  <2>1. /\ a \o b \in Seq(Element) /\ Len(a \o b) = Len(a) + Len(b)
        /\ \A i \in 1..Len(a) + Len(b) :
              (a \o b)[i] = IF i <= Len(a) THEN a[i] ELSE b[i - Len(a)]
    BY <1>2, <1>3, ConcatProperties
  <2>2. /\ t \in Seq(Element) /\ Len(t) = Len(s) - 1
        /\ \A i \in 1..Len(s) - 1 : t[i] = IF i <= p - 1 THEN a[i] ELSE b[i - (p - 1)]
    BY <1>2, <1>3, <1>4, <2>1
  <2>3. ASSUME NEW i \in 1..Len(s) - 1
        PROVE  (IF i <= p - 1 THEN a[i] ELSE b[i - (p - 1)]) = IF i <= p - 1 THEN s[i] ELSE s[i + 1]
    <3>1. i > p - 1 => i - (p - 1) \in 1..Len(s) - p /\ p + (i - (p - 1)) = i + 1
      OBVIOUS
    <3>2. i <= p - 1 => i \in 1..p - 1
      OBVIOUS
    <3> QED BY <1>2, <1>3, <3>1, <3>2
  <2> QED BY <2>2, <2>3

\* The same, for one place.
LEMMA WithoutElement ==
    ASSUME NEW Element, NEW s \in Seq(Element), DistinctKeys(s),
           NEW p \in 1..Len(s), NEW i \in 1..Len(s) - 1
    PROVE  Without(s, s[p].key)[i] = IF i <= p - 1 THEN s[i] ELSE s[i + 1]
<1> DEFINE k == s[p].key
           t == Without(s, k)
<1>1. k = s[p].key /\ t = Without(s, k)
  OBVIOUS
<1> HIDE DEF k, t
<1>2. t[i] = IF i <= p - 1 THEN s[i] ELSE s[i + 1]
  BY <1>1, WithoutElements
<1> QED BY <1>1, <1>2

\* Without takes out the one element of key k, and keeps the others and their order.
LEMMA WithoutProperties ==
    ASSUME NEW Element, NEW s \in Seq(Element), DistinctKeys(s), NEW k \in KeySet(s)
    PROVE  /\ Without(s, k) \in Seq(Element)
           /\ DistinctKeys(Without(s, k))
           /\ KeySet(Without(s, k)) = KeySet(s) \ {k}
           /\ \A i \in DOMAIN Without(s, k) :
                 \E j \in DOMAIN s : Without(s, k)[i] = s[j] /\ s[j].key # k
           /\ Sorted(s) => Sorted(Without(s, k))
<1> DEFINE t == Without(s, k)
<1>1. PICK p \in 1..Len(s) : s[p].key = k
  BY KeySetElements
<1>5. t = Without(s, k)
  OBVIOUS
<1> HIDE DEF t
<1>4. /\ t \in Seq(Element) /\ Len(t) = Len(s) - 1
      /\ \A i \in 1..Len(s) - 1 : t[i] = IF i <= p - 1 THEN s[i] ELSE s[i + 1]
  BY <1>1, <1>5, WithoutElements
<1>6. DistinctKeys(t)
  <2> DEFINE o(i) == IF i <= p - 1 THEN i ELSE i + 1
  <2>1. ASSUME NEW i \in DOMAIN t, NEW j \in DOMAIN t, t[i].key = t[j].key PROVE i = j
    <3>1. /\ i \in 1..Len(s) - 1 /\ j \in 1..Len(s) - 1
          /\ o(i) \in DOMAIN s /\ o(j) \in DOMAIN s
      BY <1>1, <1>4
    <3>2. t[i] = s[o(i)] /\ t[j] = s[o(j)]
      BY <1>4, <3>1
    <3>3. o(i) = o(j)
      BY <2>1, <3>1, <3>2 DEF DistinctKeys
    <3> QED BY <1>1, <3>1, <3>3
  <2> QED BY <2>1 DEF DistinctKeys
<1>7. KeySet(t) = KeySet(s) \ {k}
  <2>1. ASSUME NEW i \in 1..Len(t) PROVE t[i].key \in KeySet(s) \ {k}
    <3>1. PICK j \in 1..Len(s) : j # p /\ t[i] = s[j]
      <4>1. CASE i <= p - 1
        BY <1>1, <1>4, <4>1
      <4>2. CASE i > p - 1
        BY <1>1, <1>4, <4>2
      <4> QED BY <1>1, <4>1, <4>2
    <3>2. s[j].key # k
      BY <1>1, <3>1 DEF DistinctKeys
    <3> QED BY <3>1, <3>2, KeySetElements
  <2>2. ASSUME NEW i \in 1..Len(s), s[i].key # k PROVE s[i].key \in KeySet(t)
    <3>1. CASE i < p
      BY <1>1, <1>4, <3>1 DEF KeySet
    <3>2. CASE i > p
      <4>1. i - 1 \in 1..Len(t) /\ t[i - 1] = s[i]
        BY <1>1, <1>4, <3>2
      <4> QED BY <1>4, <4>1, KeySetElements
    <3> QED BY <1>1, <2>2, <3>1, <3>2
  <2>3. ASSUME NEW x PROVE x \in KeySet(t) <=> x \in KeySet(s) \ {k}
    <3>1. /\ x \in KeySet(t) <=> \E i \in 1..Len(t) : t[i].key = x
          /\ x \in KeySet(s) <=> \E i \in 1..Len(s) : s[i].key = x
      BY <1>4, KeySetElements
    <3> QED BY <2>1, <2>2, <3>1
  <2> QED BY <2>3
<1>8. ASSUME NEW i \in DOMAIN t PROVE \E j \in DOMAIN s : t[i] = s[j] /\ s[j].key # k
  <2>1. t[i].key \in KeySet(t)
    BY DEF KeySet
  <2>2. t[i].key # k
    BY <1>7, <2>1
  <2>3. i \in DOMAIN s /\ i + 1 \in DOMAIN s
    BY <1>1, <1>4
  <2> QED BY <1>4, <2>2, <2>3
<1>9. Sorted(s) => Sorted(t)
  <2> DEFINE o(i) == IF i <= p - 1 THEN i ELSE i + 1
  <2> SUFFICES ASSUME Sorted(s), NEW i \in DOMAIN t, NEW j \in DOMAIN t, i < j
               PROVE  t[i].value >= t[j].value
    BY DEF Sorted
  <2>1. /\ i \in 1..Len(s) - 1 /\ j \in 1..Len(s) - 1
        /\ o(i) \in DOMAIN s /\ o(j) \in DOMAIN s /\ o(i) < o(j)
    BY <1>1, <1>4
  <2>2. t[i] = s[o(i)] /\ t[j] = s[o(j)]
    BY <1>4, <2>1
  <2> HIDE DEF o
  <2> QED BY <2>1, <2>2 DEF Sorted
<1> QED BY <1>4, <1>5, <1>6, <1>7, <1>8, <1>9

\* What is at each place of a sequence after e was put in at p.
LEMMA InsertAtElements ==
    ASSUME NEW Element, NEW s \in Seq(Element), NEW p \in 1..Len(s) + 1, NEW e \in Element,
           NEW t, t = InsertAt(s, p, e)
    PROVE  /\ t \in Seq(Element) /\ Len(t) = Len(s) + 1
           /\ \A i \in 1..Len(s) + 1 :
                 t[i] = IF i < p THEN s[i] ELSE IF i = p THEN e ELSE s[i - 1]
<1> DEFINE a == SubSeq(s, 1, p - 1)
           b == SubSeq(s, p, Len(s))
<1>2. /\ a \in Seq(Element) /\ Len(a) = p - 1
      /\ \A i \in 1..p - 1 : a[i] = s[i]
  <2>1. \A i \in 1..p - 1 : s[i] \in Element
    BY ElementOfSeq
  <2>2. p - 1 \in Int
    OBVIOUS
  <2> QED BY <2>1, <2>2, SubSeqProperties
<1>3. /\ b \in Seq(Element) /\ Len(b) = Len(s) - p + 1
      /\ \A i \in 1..Len(s) - p + 1 : b[i] = s[p + i - 1]
  <2>1. \A i \in p..Len(s) : s[i] \in Element
    BY ElementOfSeq
  <2>2. p \in Int /\ Len(s) \in Int
    OBVIOUS
  <2> QED BY <2>1, <2>2, SubSeqProperties
<1>4. e \in Element /\ <<e>> \in Seq(Element) /\ Len(<<e>>) = 1 /\ <<e>>[1] = e
  OBVIOUS
<1>5. t = a \o <<e>> \o b
  BY DEF InsertAt
<1> HIDE DEF a, b
<1> DEFINE c == a \o <<e>>
<1>6. /\ c \in Seq(Element) /\ Len(c) = p
      /\ \A i \in 1..p : c[i] = IF i <= p - 1 THEN s[i] ELSE e
  <2>1. /\ c \in Seq(Element) /\ Len(c) = Len(a) + Len(<<e>>)
        /\ \A i \in 1..Len(a) + Len(<<e>>) :
              c[i] = IF i <= Len(a) THEN a[i] ELSE <<e>>[i - Len(a)]
    BY <1>2, <1>4, ConcatProperties
  <2> QED BY <1>2, <1>4, <2>1
<1> HIDE DEF c
<1>7. /\ t \in Seq(Element) /\ Len(t) = Len(s) + 1
      /\ \A i \in 1..Len(s) + 1 :
            t[i] = IF i < p THEN s[i] ELSE IF i = p THEN e ELSE s[i - 1]
  <2>1. /\ t \in Seq(Element) /\ Len(t) = Len(c) + Len(b)
        /\ \A i \in 1..Len(c) + Len(b) : t[i] = IF i <= Len(c) THEN c[i] ELSE b[i - Len(c)]
    <3>1. t = c \o b
      BY <1>5 DEF c
    <3> QED BY <1>3, <1>6, <3>1, ConcatProperties
  <2> QED BY <1>3, <1>6, <2>1
<1> QED BY <1>7

\* Putting a new key into a sorted sequence keeps the others, and the sequence sorted.
LEMMA PlacementsProperties ==
    ASSUME NEW Element, NEW s \in Seq(Element), DistinctKeys(s),
           NEW k, k \notin KeySet(s), NEW v, [key |-> k, value |-> v] \in Element,
           NEW t \in Placements(s, k, v)
    PROVE  /\ t \in Seq(Element)
           /\ DistinctKeys(t)
           /\ KeySet(t) = KeySet(s) \cup {k}
           /\ \A i \in DOMAIN t : \/ t[i] = [key |-> k, value |-> v]
                                  \/ \E j \in DOMAIN s : t[i] = s[j]
           /\ Sorted(t)
<1>1. PICK p \in 1..Len(s) + 1 : t = InsertAt(s, p, [key |-> k, value |-> v])
  BY DEF Placements
<1> DEFINE e == [key |-> k, value |-> v]
<1>e. e.key = k /\ e \in Element
  OBVIOUS
<1> HIDE DEF e
<1>7. /\ t \in Seq(Element) /\ Len(t) = Len(s) + 1
      /\ \A i \in 1..Len(s) + 1 :
            t[i] = IF i < p THEN s[i] ELSE IF i = p THEN e ELSE s[i - 1]
  BY <1>1, <1>e, InsertAtElements DEF e
<1>8. \A i \in 1..Len(s) : s[i].key # k
  BY DEF KeySet
<1>9. DistinctKeys(t)
  <2> DEFINE o(i) == IF i < p THEN i ELSE i - 1
  <2>1. ASSUME NEW i \in DOMAIN t, NEW j \in DOMAIN t, t[i].key = t[j].key PROVE i = j
    <3>1. i \in 1..Len(s) + 1 /\ j \in 1..Len(s) + 1
      BY <1>7
    <3>2. \A x \in 1..Len(s) + 1 : x # p => o(x) \in 1..Len(s) /\ t[x] = s[o(x)]
      BY <1>7
    <3>3. CASE i = p \/ j = p
      <4>1. \A x \in 1..Len(s) + 1 : x # p => t[x].key # k
        BY <1>8, <3>2
      <4>2. t[p].key = k
        BY <1>7, <1>e
      <4> QED BY <2>1, <3>1, <3>3, <4>1, <4>2
    <3>4. CASE i # p /\ j # p
      <4>1. o(i) = o(j)
        BY <2>1, <3>1, <3>2, <3>4 DEF DistinctKeys
      <4> QED BY <3>1, <3>4, <4>1
    <3> QED BY <3>3, <3>4
  <2> QED BY <2>1 DEF DistinctKeys
<1>10. KeySet(t) = KeySet(s) \cup {k}
  <2>1. ASSUME NEW i \in 1..Len(t) PROVE t[i].key \in KeySet(s) \cup {k}
    <3>1. CASE i < p
      BY <1>7, <3>1, KeySetElements
    <3>2. CASE i = p
      BY <1>7, <1>e, <3>2
    <3>3. CASE i > p
      <4>1. i - 1 \in 1..Len(s) /\ t[i] = s[i - 1]
        BY <1>7, <3>3
      <4> QED BY <4>1, KeySetElements
    <3> QED BY <1>7, <3>1, <3>2, <3>3
  <2>2. k \in KeySet(t)
    <3>1. p \in DOMAIN t /\ t[p].key = k
      BY <1>7, <1>e
    <3> QED BY <3>1 DEF KeySet
  <2>3. ASSUME NEW i \in 1..Len(s) PROVE s[i].key \in KeySet(t)
    <3>1. CASE i < p
      BY <1>7, <3>1, SMTT(30) DEF KeySet
    <3>2. CASE i >= p
      <4>1. i + 1 \in DOMAIN t /\ t[i + 1] = s[i]
        BY <1>7, <3>2
      <4> QED BY <4>1 DEF KeySet
    <3> QED BY <3>1, <3>2
  <2>4. ASSUME NEW x PROVE x \in KeySet(t) <=> x \in KeySet(s) \cup {k}
    BY SMTT(30), <1>7, <2>1, <2>2, <2>3, KeySetElements
  <2> QED BY <2>4
<1>11. ASSUME NEW i \in DOMAIN t PROVE t[i] = e \/ \E j \in DOMAIN s : t[i] = s[j]
  <2>1. i \in 1..Len(s) + 1
    BY <1>7
  <2>2. CASE i < p
    BY <1>7, <2>1, <2>2
  <2>3. CASE i > p
    <3>1. i - 1 \in DOMAIN s
      BY <2>1, <2>3
    <3> QED BY <1>7, <2>1, <2>3, <3>1
  <2> QED BY <1>7, <2>1, <2>2, <2>3
<1>12. Sorted(t)
  BY DEF Placements
<1> QED BY <1>7, <1>9, <1>10, <1>11, <1>12 DEF e

\* There is a place for every value.
LEMMA PlacementExists ==
    ASSUME NEW Element, NEW s \in Seq(Element), Sorted(s), \A i \in DOMAIN s : s[i].value \in Int,
           NEW k, NEW v \in Int, [key |-> k, value |-> v] \in Element
    PROVE  Placements(s, k, v) # {}
<1> DEFINE e == [key |-> k, value |-> v]
           Fits == {i \in 1..Len(s) + 1 : i = Len(s) + 1 \/ s[i].value <= v}
<1>1. PICK p \in Fits : \A i \in Fits : p <= i
  <2>1. Len(s) + 1 \in Fits /\ Fits \subseteq Nat
    OBVIOUS
  <2> HIDE DEF Fits
  <2> QED BY <2>1, LeastNumber
<1>2. p \in 1..Len(s) + 1 /\ (p = Len(s) + 1 \/ s[p].value <= v)
  OBVIOUS
<1>3. ASSUME NEW i \in 1..Len(s), i < p PROVE s[i].value >= v
  <2>1. i \notin Fits /\ s[i].value \in Int
    BY <1>1, <1>2, <1>3
  <2> QED BY <2>1
<1>4. ASSUME NEW i \in 1..Len(s), i >= p PROVE v >= s[i].value
  <2>1. s[p].value <= v /\ p \in DOMAIN s /\ i \in DOMAIN s
    BY <1>2, <1>4
  <2>2. CASE i = p
    BY <2>1, <2>2
  <2>3. CASE i > p
    <3>1. s[p].value >= s[i].value /\ s[p].value \in Int /\ s[i].value \in Int
      BY <2>1, <2>3 DEF Sorted
    <3> QED BY <2>1, <3>1
  <2> QED BY <1>2, <1>4, <2>2, <2>3
<1> DEFINE t == InsertAt(s, p, e)
<1>5. e \in Element /\ e.value = v
  OBVIOUS
<1> HIDE DEF e, Fits
<1>6. /\ Len(t) = Len(s) + 1 /\ t \in Seq(Element)
      /\ \A i \in 1..Len(s) + 1 :
            t[i] = IF i < p THEN s[i] ELSE IF i = p THEN e ELSE s[i - 1]
  BY <1>2, <1>5, InsertAtElements
<1> HIDE DEF t
<1>7. Sorted(t)
  <2> SUFFICES ASSUME NEW i \in DOMAIN t, NEW j \in DOMAIN t, i < j
               PROVE  t[i].value >= t[j].value
    BY DEF Sorted
  <2>1. i \in 1..Len(s) + 1 /\ j \in 1..Len(s) + 1
    BY <1>6
  <2>2. CASE j < p
    <3>1. i \in DOMAIN s /\ j \in DOMAIN s /\ t[i] = s[i] /\ t[j] = s[j]
      BY <1>2, <1>6, <2>1, <2>2
    <3> QED BY <3>1 DEF Sorted
  <2>3. CASE j = p
    <3>1. i \in 1..Len(s) /\ t[i] = s[i] /\ t[j] = e
      BY <1>2, <1>6, <2>1, <2>3
    <3> QED BY <1>3, <1>5, <2>3, <3>1
  <2>4. CASE j > p
    <3>1. j - 1 \in 1..Len(s) /\ j - 1 >= p /\ t[j] = s[j - 1]
      BY <1>2, <1>6, <2>1, <2>4
    <3>2. CASE i < p
      <4>1. i \in DOMAIN s /\ i < j - 1 /\ t[i] = s[i]
        BY <1>2, <1>6, <2>1, <2>4, <3>2
      <4> QED BY <3>1, <4>1 DEF Sorted
    <3>3. CASE i = p
      <4>1. t[i] = e
        BY <1>6, <2>1, <3>3
      <4> QED BY <1>4, <1>5, <3>1, <4>1
    <3>4. CASE i > p
      <4>1. i - 1 \in DOMAIN s /\ i - 1 < j - 1 /\ t[i] = s[i - 1]
        BY <1>2, <1>6, <2>1, <3>4
      <4> QED BY <3>1, <4>1 DEF Sorted
    <3> QED BY <1>2, <2>1, <3>2, <3>3, <3>4
  <2> QED BY <1>2, <2>1, <2>2, <2>3, <2>4
<1>8. t \in Placements(s, k, v)
  BY <1>2, <1>7 DEF Placements, t, e
<1> QED BY <1>8

\* The position of a key that is there.
LEMMA PositionOfKey ==
    ASSUME NEW s, NEW k \in KeySet(s)
    PROVE  /\ Position(s, k) \in DOMAIN s /\ s[Position(s, k)].key = k
           /\ getValue(s, k) = s[Position(s, k)].value
<1> QED BY DEF KeySet, Position, getValue

-----------------------------------------------------------------------------
(***************************************************************************)
(* Taking an element out of a sequence by putting the last in its place    *)
(***************************************************************************)
SwappedOut(s, k) == SubSeq([s EXCEPT ![k] = s[Len(s)]], 1, Len(s) - 1)

\* Deleting an element by moving the last one into its place.
LEMMA SwappedOutElements ==
    ASSUME NEW S, NEW s \in Seq(S), NEW k \in 1..Len(s), NEW t, t = SwappedOut(s, k)
    PROVE  /\ t \in Seq(S) /\ Len(t) = Len(s) - 1
           /\ \A i \in 1..Len(s) - 1 : i # k => t[i] = s[i]
           /\ k < Len(s) => t[k] = s[Len(s)]
<1> DEFINE n == Len(s)
           r == [s EXCEPT ![k] = s[n]]
<1>1. n \in Nat /\ n >= 1 /\ \A i \in 1..n : s[i] \in S
  BY ElementOfSeq
<1>2. /\ r \in Seq(S) /\ Len(r) = n
      /\ \A i \in 1..n : r[i] = IF i = k THEN s[n] ELSE s[i]
  <2>1. s[n] \in S
    BY <1>1
  <2> QED BY <1>1, <2>1
<1>3. t = SubSeq(r, 1, n - 1)
  BY DEF SwappedOut
<1> HIDE DEF r, n
<1>4. \A i \in 1..n - 1 : r[i] \in S
  BY <1>1, <1>2, ElementOfSeq
<1>5. /\ t \in Seq(S)
      /\ Len(t) = IF 1 <= n - 1 THEN (n - 1) - 1 + 1 ELSE 0
      /\ \A i \in 1..(n - 1) - 1 + 1 : t[i] = r[1 + i - 1]
  <2>1. 1 \in Int /\ n - 1 \in Int
    BY <1>1
  <2> QED BY <1>3, <1>4, <2>1, SubSeqProperties
<1>6. Len(t) = n - 1 /\ \A i \in 1..n - 1 : t[i] = IF i = k THEN s[n] ELSE s[i]
  BY <1>1, <1>2, <1>5
<1> QED BY <1>5, <1>6 DEF n

Has(s, x) == \E i \in 1..Len(s) : s[i] = x

HasNoRepeats(s) == \A i, j \in 1..Len(s) : s[i] = s[j] => i = j

\* The other elements stay, each at one place.
LEMMA SwappedOutOfDistinct ==
    ASSUME NEW S, NEW s \in Seq(S), HasNoRepeats(s), NEW k \in 1..Len(s), NEW t, t = SwappedOut(s, k)
    PROVE  /\ HasNoRepeats(t)
           /\ \A x : Has(t, x) <=> x # s[k] /\ Has(s, x)
<1>0. \A i, j \in 1..Len(s) : s[i] = s[j] => i = j
  BY DEF HasNoRepeats
<1>1. /\ Len(s) \in Nat /\ Len(s) >= 1 /\ Len(t) = Len(s) - 1
      /\ \A i \in 1..Len(s) - 1 : t[i] = IF i = k THEN s[Len(s)] ELSE s[i]
  <2>1. Len(s) \in Nat /\ Len(s) >= 1
    OBVIOUS
  <2>2. /\ Len(t) = Len(s) - 1
        /\ \A i \in 1..Len(s) - 1 : i # k => t[i] = s[i]
        /\ k < Len(s) => t[k] = s[Len(s)]
    BY SwappedOutElements
  <2> QED BY <2>1, <2>2
<1> DEFINE o(i) == IF i = k THEN Len(s) ELSE i
<1>2. \A i \in 1..Len(t) : o(i) \in 1..Len(s) /\ t[i] = s[o(i)] /\ o(i) # k
  BY <1>1
<1>3. \A i, j \in 1..Len(t) : o(i) = o(j) => i = j
  BY <1>1
<1>4. \A i, j \in 1..Len(t) : t[i] = t[j] => i = j
  <2> HIDE DEF o
  <2> QED BY <1>0, <1>2, <1>3
<1>5. ASSUME NEW i \in 1..Len(s), i # k PROVE \E j \in 1..Len(t) : t[j] = s[i]
  <2>1. CASE i = Len(s)
    <3>1. k \in 1..Len(t)
      BY <1>1, <1>5, <2>1
    <3> QED BY <1>1, <2>1, <3>1
  <2>2. CASE i # Len(s)
    <3>1. i \in 1..Len(t)
      BY <1>1, <2>2
    <3> QED BY <1>1, <1>5, <3>1
  <2> QED BY <2>1, <2>2
<1>6. ASSUME NEW x, NEW i \in 1..Len(t), t[i] = x
      PROVE  x # s[k] /\ \E j \in 1..Len(s) : s[j] = x
  <2>1. t[i] = s[o(i)] /\ o(i) \in 1..Len(s) /\ o(i) # k
    BY <1>2
  <2> HIDE DEF o
  <2> QED BY <1>0, <1>6, <2>1
<1>7. ASSUME NEW x, x # s[k], NEW i \in 1..Len(s), s[i] = x PROVE \E j \in 1..Len(t) : t[j] = x
  <2>1. i # k
    BY <1>7
  <2> QED BY <1>5, <1>7, <2>1
<1> HIDE DEF o
<1>8. \A x : (\E i \in 1..Len(t) : t[i] = x) <=> x # s[k] /\ \E i \in 1..Len(s) : s[i] = x
  BY <1>6, <1>7
<1>9. \A x : Has(t, x) <=> x # s[k] /\ Has(s, x)
  BY <1>8 DEF Has
<1> QED BY <1>4, <1>9 DEF HasNoRepeats

\* A sum over the places of a sequence loses the term of the element taken out.
LEMMA SumSwappedOut ==
    ASSUME NEW n \in Nat \ {0}, NEW f \in [1..n -> Int], NEW k \in 1..n,
           NEW g, DOMAIN g = 1..n - 1, \A i \in 1..n - 1 : g[i] = IF i = k THEN f[n] ELSE f[i]
    PROVE  SumFunction(g) = SumFunction(f) - f[k]
<1> DEFINE S == 1..n - 1
<1>1. IsFiniteSet(S) /\ n \notin S /\ 1..n = S \cup {n} /\ \A i \in 1..n : f[i] \in Int
  <2>1. IsFiniteSet(S)
    BY FS_Interval
  <2> QED BY <2>1
<1>2. f[n] \in Int /\ f[k] \in Int /\ k \in S \cup {n}
  BY <1>1
<1> HIDE DEF S
<1>3. SumFunction(f) = f[n] + SumFunctionOnSet(f, S) /\ SumFunctionOnSet(f, S) \in Int
  <2>1. SumFunction(f) = SumFunctionOnSet(f, S \cup {n})
    BY <1>1, SumOfAll
  <2>2. \A i \in S \cup {n} : f[i] \in Int
    BY <1>1
  <2> QED BY <1>1, <2>1, <2>2, SumAdd, SumType
<1>4. SumFunction(g) = SumFunctionOnSet(g, S)
  BY SumOfAll DEF S
<1>5. \A i \in S : f[i] \in Int /\ g[i] = IF i = k THEN f[n] ELSE f[i]
  BY <1>1 DEF S
<1>6. CASE k = n
  <2>1. SumFunctionOnSet(f, S) = SumFunctionOnSet(g, S)
    <3>1. \A i \in S : f[i] \in Int /\ f[i] = g[i]
      BY <1>1, <1>5, <1>6
    <3> QED BY <1>1, <3>1, SumAgree
  <2> QED BY <1>2, <1>3, <1>4, <1>6, <2>1
<1>7. CASE k # n
  <2>1. k \in S
    BY <1>2, <1>7
  <2>2. SumFunctionOnSet(g, S) = SumFunctionOnSet(f, S) - f[k] + g[k]
    <3>1. g[k] \in Int /\ \A i \in S \ {k} : g[i] = f[i]
      BY <1>2, <1>5, <2>1
    <3>2. \A i \in S : f[i] \in Int
      BY <1>5
    <3> QED BY <1>1, <2>1, <3>1, <3>2, SumChange
  <2> QED BY <1>2, <1>3, <1>4, <1>5, <2>1, <2>2
<1> QED BY <1>6, <1>7

\* And gains that of an appended one.
LEMMA SumAppended ==
    ASSUME NEW n \in Nat, NEW f \in [1..n -> Int], NEW x \in Int,
           NEW g, DOMAIN g = 1..n + 1, g[n + 1] = x, \A i \in 1..n : g[i] = f[i]
    PROVE  SumFunction(g) = SumFunction(f) + x
<1> DEFINE S == 1..n
<1>1. IsFiniteSet(S) /\ n + 1 \notin S /\ 1..n + 1 = S \cup {n + 1} /\ \A i \in S : f[i] \in Int
  <2>1. IsFiniteSet(S)
    BY FS_Interval
  <2> QED BY <2>1
<1> HIDE DEF S
<1>2. SumFunction(f) = SumFunctionOnSet(f, S) /\ SumFunctionOnSet(f, S) \in Int
  BY <1>1, SumOfAll, SumType DEF S
<1>3. SumFunction(g) = SumFunctionOnSet(g, S \cup {n + 1})
  BY <1>1, SumOfAll
<1>4. \A i \in S : g[i] = f[i]
  BY DEF S
<1>5. SumFunctionOnSet(g, S \cup {n + 1}) = x + SumFunctionOnSet(g, S)
  <2>1. \A i \in S \cup {n + 1} : g[i] \in Int
    BY <1>1, <1>4
  <2> QED BY <1>1, <2>1, SumAdd
<1>6. SumFunctionOnSet(f, S) = SumFunctionOnSet(g, S)
  BY <1>1, <1>4, SumAgree
<1> QED BY <1>2, <1>3, <1>5, <1>6

=============================================================================
