-------------------------- MODULE LedgerOpsProofs ---------------------------
(***************************************************************************)
(* What the operators of LedgerOps and ValidatorOps preserve, for every    *)
(* value of the constants: a well-formed ledger stays well-formed under    *)
(* every transaction, whether it succeeds or fails half-way, and the       *)
(* unchecked u64 subtractions never go below zero.                         *)
(*                                                                         *)
(* First, what those proofs need of sums over finite sets, and the two     *)
(* inductions on which that rests.  SumFunctionOnSet of the community      *)
(* modules is a fold: a recursive function on the subsets of the set that  *)
(* is summed over.  The induction theorems of the library take an operator *)
(* as a parameter; here induction is stated over a set of good cases, and  *)
(* follows from the library's theorem that a well-founded relation has     *)
(* minimal elements.                                                       *)
(***************************************************************************)
EXTENDS LedgerOps, ValidatorOps, Functions, FiniteSetTheorems,
        WellFoundedInduction, TLAPS

-----------------------------------------------------------------------------
(* Induction. *)

(* A set of subsets of a finite set that holds a set whenever it holds its *)
(* strict subsets holds all of them.                                       *)
LEMMA SubsetInduction ==
    ASSUME NEW S, IsFiniteSet(S), NEW G,
           \A T \in SUBSET S : (\A U \in SUBSET T : U # T => U \in G) => T \in G
    PROVE  \A T \in SUBSET S : T \in G
  <1> DEFINE Bad == (SUBSET S) \ G
  <1>1. IsWellFoundedOn(StrictSubsetOrdering(S), SUBSET S)
    BY FS_StrictSubsetOrderingWellFounded, FS_FiniteSubsetsOfFinite
  <1>2. SUFFICES ASSUME Bad # {} PROVE FALSE
    OBVIOUS
  <1>3. PICK T \in Bad : \A U \in Bad : <<U, T>> \notin StrictSubsetOrdering(S)
    <2> HIDE DEF Bad
    <2>1. Bad \subseteq SUBSET S
      BY DEF Bad
    <2> QED
      BY <1>1, <1>2, <2>1, WFMin
  <1>4. \A U \in SUBSET T : U # T => U \in G
    BY <1>3 DEF StrictSubsetOrdering
  <1> QED
    BY <1>3, <1>4

(* A set of numbers that holds 0 and the successor of each of its members  *)
(* holds all numbers.                                                      *)
LEMMA NumberInduction ==
    ASSUME NEW G, 0 \in G, \A n \in Nat : n \in G => n + 1 \in G
    PROVE  \A n \in Nat : n \in G
  <1> DEFINE Bad == Nat \ G
  <1>1. SUFFICES ASSUME Bad # {} PROVE FALSE
    OBVIOUS
  <1>2. PICK m \in Bad : \A k \in Bad : <<k, m>> \notin OpToRel(<, Nat)
    <2> HIDE DEF Bad
    <2>1. Bad \subseteq Nat
      BY DEF Bad
    <2> QED
      BY <1>1, <2>1, WFMin, NatLessThanWellFounded
  <1>3. \A k \in Bad : ~(k < m)
    BY <1>2 DEF OpToRel
  <1>4. m - 1 \in Nat /\ m - 1 < m /\ m = (m - 1) + 1
    <2>1. m \in Nat /\ m # 0
      OBVIOUS
    <2> QED
      BY <2>1
  <1>5. m - 1 \in G
    BY <1>3, <1>4
  <1> QED
    BY <1>2, <1>4, <1>5

-----------------------------------------------------------------------------
(* The fold is well-defined. *)

(* The element that the fold takes first.                                  *)
First(S) == CHOOSE x \in S : TRUE

(* The recursive function that SumFunctionOnSet evaluates.                 *)
SumsUpTo(f, S, sums) ==
    sums = [T \in SUBSET S |->
              IF T = {} THEN 0 ELSE f[First(T)] + sums[T \ {First(T)}]]

(* The community operator is that function, applied to the whole set.      *)
LEMMA SumIsFold ==
    ASSUME NEW f, NEW S
    PROVE  SumFunctionOnSet(f, S) = (CHOOSE sums : SumsUpTo(f, S, sums))[S]
  BY DEF SumFunctionOnSet, FoldFunctionOnSet, MapThenFoldSet, SumsUpTo, First

(* The element that the fold takes first is one of the set.                *)
LEMMA FirstIn == \A S : S # {} => First(S) \in S
  BY DEF First

(* What the fold adds to the sum of the rest of T.                         *)
SumStep(f, sums, T) ==
    IF T = {} THEN 0 ELSE f[First(T)] + sums[T \ {First(T)}]

(* Such a function exists: it is built up by the size of the sets.         *)
LEMMA SumsExist ==
    ASSUME NEW f, NEW S, IsFiniteSet(S)
    PROVE  \E sums : SumsUpTo(f, S, sums)
  <1> DEFINE Small(n) == {T \in SUBSET S : Cardinality(T) <= n}
             Built == {n \in Nat : \E sums : \A T \in Small(n) :
                                      sums[T] = SumStep(f, sums, T)}
  <1>1. \A T \in SUBSET S : Cardinality(T) \in Nat
    BY FS_Subset, FS_CardinalityType
  <1>2. \A T \in SUBSET S : T # {} =>
            /\ T \ {First(T)} \in SUBSET S
            /\ Cardinality(T \ {First(T)}) = Cardinality(T) - 1
    BY FS_Subset, FS_RemoveElement, FirstIn
  <1>3. 0 \in Built
    <2> DEFINE sums == [T \in SUBSET S |-> 0]
    <2>1. \A T \in Small(0) : T = {}
      <3> SUFFICES ASSUME NEW T \in Small(0) PROVE T = {}
        OBVIOUS
      <3>1. IsFiniteSet(T) /\ Cardinality(T) = 0
        BY <1>1, FS_Subset
      <3> QED
        BY <3>1, FS_EmptySet
    <2>2. \A T \in Small(0) : sums[T] = SumStep(f, sums, T)
      BY <2>1 DEF SumStep
    <2> QED
      BY <2>2
  <1>4. ASSUME NEW n \in Nat, n \in Built PROVE n + 1 \in Built
    <2>1. PICK sums : \A T \in Small(n) : sums[T] = SumStep(f, sums, T)
      BY <1>4
    <2> DEFINE more == [T \in SUBSET S |->
                          IF T \in Small(n) THEN sums[T] ELSE SumStep(f, sums, T)]
    <2>2. ASSUME NEW T \in Small(n + 1) PROVE more[T] = SumStep(f, sums, T)
      BY <2>1
    <2>3. ASSUME NEW T \in Small(n + 1) PROVE SumStep(f, more, T) = SumStep(f, sums, T)
      <3>1. CASE T = {}
        BY <3>1 DEF SumStep
      <3>2. CASE T # {}
        <4> DEFINE U == T \ {First(T)}
        <4>1. U \in Small(n)
          BY <1>1, <1>2, <3>2
        <4>2. more[U] = sums[U]
          BY <4>1
        <4> QED
          BY <3>2, <4>2 DEF SumStep
      <3> QED
        BY <3>1, <3>2
    <2> HIDE DEF more
    <2> QED
      BY <2>2, <2>3
  <1>5. Cardinality(S) \in Built
    <2> HIDE DEF Built
    <2> QED
      BY <1>3, <1>4, NumberInduction, FS_CardinalityType
  <1>6. Small(Cardinality(S)) = SUBSET S
    BY FS_Subset
  <1>7. PICK sums : \A T \in SUBSET S : sums[T] = SumStep(f, sums, T)
    BY <1>5, <1>6
  <1> DEFINE all == [T \in SUBSET S |-> sums[T]]
  <1>8. ASSUME NEW T \in SUBSET S PROVE all[T] = SumStep(f, all, T)
    <2>1. T \ {First(T)} \in SUBSET S
      OBVIOUS
    <2>2. all[T] = sums[T] /\ all[T \ {First(T)}] = sums[T \ {First(T)}]
      BY <2>1
    <2> QED
      BY <1>7, <2>2 DEF SumStep
  <1>9. SumsUpTo(f, S, all)
    <2>1. all = [T \in SUBSET S |-> all[T]]
      OBVIOUS
    <2> HIDE DEF all
    <2> QED
      BY <1>8, <2>1 DEF SumsUpTo, SumStep
  <1> QED
    BY <1>9

(* Two such functions agree where both are defined.                        *)
LEMMA SumsAgree ==
    ASSUME NEW f, NEW S, IsFiniteSet(S), NEW T \in SUBSET S,
           NEW sums, SumsUpTo(f, S, sums), NEW others, SumsUpTo(f, T, others)
    PROVE  \A U \in SUBSET T : sums[U] = others[U]
  <1> DEFINE Good == {U \in SUBSET T : sums[U] = others[U]}
  <1>1. IsFiniteSet(T)
    BY FS_Subset
  <1>2. ASSUME NEW U \in SUBSET T, \A V \in SUBSET U : V # U => V \in Good
        PROVE  U \in Good
    <2>1. /\ sums[U] = IF U = {} THEN 0 ELSE f[First(U)] + sums[U \ {First(U)}]
          /\ others[U] = IF U = {} THEN 0 ELSE f[First(U)] + others[U \ {First(U)}]
      BY DEF SumsUpTo
    <2>2. U # {} => /\ U \ {First(U)} \in SUBSET U
                    /\ U \ {First(U)} # U
      BY FirstIn
    <2>3. U # {} => sums[U \ {First(U)}] = others[U \ {First(U)}]
      BY <1>2, <2>2
    <2> QED
      BY <2>1, <2>3
  <1> HIDE DEF Good
  <1>3. \A U \in SUBSET T : U \in Good
    BY <1>1, <1>2, SubsetInduction
  <1> QED
    BY <1>3 DEF Good

(* The equation of the sum over a set.                                     *)
LEMMA SumUnfold ==
    ASSUME NEW f, NEW S, IsFiniteSet(S)
    PROVE  SumFunctionOnSet(f, S) =
               IF S = {} THEN 0
               ELSE f[First(S)] + SumFunctionOnSet(f, S \ {First(S)})
  <1> DEFINE Sums(T) == CHOOSE sums : SumsUpTo(f, T, sums)
             R == S \ {First(S)}
  <1>1. ASSUME NEW T \in SUBSET S PROVE SumsUpTo(f, T, Sums(T))
    <2>1. \E sums : SumsUpTo(f, T, sums)
      BY FS_Subset, SumsExist
    <2> QED
      BY <2>1
  <1>2. SumsUpTo(f, S, Sums(S)) /\ SumsUpTo(f, R, Sums(R))
    BY <1>1
  <1>3. SumFunctionOnSet(f, S) = Sums(S)[S] /\ SumFunctionOnSet(f, R) = Sums(R)[R]
    BY SumIsFold
  <1> HIDE DEF Sums
  <1>4. Sums(S)[R] = Sums(R)[R]
    BY <1>2, SumsAgree
  <1>5. Sums(S)[S] = IF S = {} THEN 0 ELSE f[First(S)] + Sums(S)[R]
    BY <1>2 DEF SumsUpTo
  <1> QED
    BY <1>3, <1>4, <1>5

-----------------------------------------------------------------------------
(* What sums do. *)

(* The sum over no elements is zero.                                       *)
LEMMA SumEmpty == ASSUME NEW f PROVE SumFunctionOnSet(f, {}) = 0
  BY SumUnfold, FS_EmptySet

(* A sum of integers is an integer,                                        *)
LEMMA SumInt ==
    ASSUME NEW S, IsFiniteSet(S), NEW f, \A x \in S : f[x] \in Int
    PROVE  SumFunctionOnSet(f, S) \in Int
  <1> DEFINE Good == {T \in SUBSET S : SumFunctionOnSet(f, T) \in Int}
  <1>1. ASSUME NEW T \in SUBSET S, \A U \in SUBSET T : U # T => U \in Good
        PROVE  T \in Good
    <2>1. SumFunctionOnSet(f, T) =
            IF T = {} THEN 0 ELSE f[First(T)] + SumFunctionOnSet(f, T \ {First(T)})
      BY FS_Subset, SumUnfold
    <2>2. T # {} => T \ {First(T)} \in Good /\ f[First(T)] \in Int
      BY <1>1, FirstIn
    <2> QED
      BY <2>1, <2>2
  <1> HIDE DEF Good
  <1>2. S \in Good
    BY <1>1, SubsetInduction
  <1> QED
    BY <1>2 DEF Good

(* and a sum of natural numbers a natural number.                          *)
LEMMA SumNat ==
    ASSUME NEW S, IsFiniteSet(S), NEW f, \A x \in S : f[x] \in Nat
    PROVE  SumFunctionOnSet(f, S) \in Nat
  <1> DEFINE Good == {T \in SUBSET S : SumFunctionOnSet(f, T) \in Nat}
  <1>1. ASSUME NEW T \in SUBSET S, \A U \in SUBSET T : U # T => U \in Good
        PROVE  T \in Good
    <2>1. SumFunctionOnSet(f, T) =
            IF T = {} THEN 0 ELSE f[First(T)] + SumFunctionOnSet(f, T \ {First(T)})
      BY FS_Subset, SumUnfold
    <2>2. T # {} => T \ {First(T)} \in Good /\ f[First(T)] \in Nat
      BY <1>1, FirstIn
    <2> QED
      BY <2>1, <2>2
  <1> HIDE DEF Good
  <1>2. S \in Good
    BY <1>1, SubsetInduction
  <1> QED
    BY <1>2 DEF Good

(* Any element can be taken out, not only the one the fold takes first.    *)
LEMMA SumRemove ==
    ASSUME NEW S, IsFiniteSet(S), NEW f, \A x \in S : f[x] \in Int, NEW y \in S
    PROVE  SumFunctionOnSet(f, S) = f[y] + SumFunctionOnSet(f, S \ {y})
  <1> DEFINE Sum(T) == SumFunctionOnSet(f, T)
             Good == {T \in SUBSET S : \A x \in T : Sum(T) = f[x] + Sum(T \ {x})}
  <1>2. \A T \in SUBSET S : Sum(T) \in Int /\ IsFiniteSet(T)
    BY SumInt, FS_Subset
  <1>3. ASSUME NEW T \in SUBSET S, \A U \in SUBSET T : U # T => U \in Good
        PROVE  T \in Good
    <2> SUFFICES ASSUME NEW x \in T PROVE Sum(T) = f[x] + Sum(T \ {x})
      OBVIOUS
    <2> DEFINE c == First(T)
    <2>1. c \in T
      BY FirstIn
    <2>2. Sum(T) = f[c] + Sum(T \ {c})
      BY <1>2, SumUnfold
    <2>3. CASE x = c
      BY <2>2, <2>3
    <2>4. CASE x # c
      <3> HIDE DEF Good, Sum
      <3>1. T \ {c} \in Good /\ T \ {x} \in Good
        BY <1>3, <2>1
      <3>2. PICK R \in SUBSET S : R = (T \ {c}) \ {x} /\ R = (T \ {x}) \ {c}
        OBVIOUS
      <3>3. Sum(T \ {c}) = f[x] + Sum(R)
        BY <2>4, <3>1, <3>2 DEF Good
      <3>4. Sum(T \ {x}) = f[c] + Sum(R)
        BY <2>1, <2>4, <3>1, <3>2 DEF Good
      <3>5. f[x] \in Int /\ f[c] \in Int /\ Sum(R) \in Int
        BY <1>2, <2>1
      <3> QED
        BY <2>2, <3>3, <3>4, <3>5
    <2> QED
      BY <2>3, <2>4
  <1> HIDE DEF Good
  <1>4. S \in Good
    BY <1>3, SubsetInduction
  <1> QED
    BY <1>4 DEF Good

(* One more element adds its value.                                        *)
LEMMA SumAdd ==
    ASSUME NEW S, IsFiniteSet(S), NEW f, \A x \in S : f[x] \in Int,
           NEW y, y \notin S, f[y] \in Int
    PROVE  SumFunctionOnSet(f, S \cup {y}) = f[y] + SumFunctionOnSet(f, S)
  <1>1. IsFiniteSet(S \cup {y}) /\ (S \cup {y}) \ {y} = S
    BY FS_AddElement
  <1> QED
    BY <1>1, SumRemove

(* Functions that agree on a set have the same sum over it.                *)
LEMMA SumEqual ==
    ASSUME NEW S, IsFiniteSet(S), NEW f, NEW g, \A x \in S : f[x] = g[x]
    PROVE  SumFunctionOnSet(f, S) = SumFunctionOnSet(g, S)
  <1> DEFINE Good == {T \in SUBSET S :
                        SumFunctionOnSet(f, T) = SumFunctionOnSet(g, T)}
  <1>1. ASSUME NEW T \in SUBSET S, \A U \in SUBSET T : U # T => U \in Good
        PROVE  T \in Good
    <2>1. /\ SumFunctionOnSet(f, T) =
               IF T = {} THEN 0 ELSE f[First(T)] + SumFunctionOnSet(f, T \ {First(T)})
          /\ SumFunctionOnSet(g, T) =
               IF T = {} THEN 0 ELSE g[First(T)] + SumFunctionOnSet(g, T \ {First(T)})
      BY FS_Subset, SumUnfold
    <2>2. T # {} => T \ {First(T)} \in Good /\ f[First(T)] = g[First(T)]
      BY <1>1, FirstIn
    <2> QED
      BY <2>1, <2>2
  <1> HIDE DEF Good
  <1>2. S \in Good
    BY <1>1, SubsetInduction
  <1> QED
    BY <1>2 DEF Good

(* Functions that agree but at one point have sums that differ as they do  *)
(* there.                                                                  *)
LEMMA SumChange ==
    ASSUME NEW S, IsFiniteSet(S), NEW f, \A x \in S : f[x] \in Int,
           NEW g, NEW y \in S, g[y] \in Int, \A x \in S \ {y} : f[x] = g[x]
    PROVE  SumFunctionOnSet(g, S) = SumFunctionOnSet(f, S) - f[y] + g[y]
  <1>1. IsFiniteSet(S \ {y})
    BY FS_RemoveElement
  <1>2. SumFunctionOnSet(f, S \ {y}) = SumFunctionOnSet(g, S \ {y})
    BY <1>1, SumEqual
  <1>3. SumFunctionOnSet(f, S) = f[y] + SumFunctionOnSet(f, S \ {y})
    BY SumRemove
  <1>4. SumFunctionOnSet(g, S) = g[y] + SumFunctionOnSet(g, S \ {y})
    BY SumRemove
  <1>5. SumFunctionOnSet(f, S \ {y}) \in Int
    BY <1>1, SumInt
  <1> QED
    BY <1>2, <1>3, <1>4, <1>5

(* The sum over the elements that count for nothing is nothing.            *)
LEMMA SumZero ==
    ASSUME NEW S, IsFiniteSet(S), NEW f, \A x \in S : f[x] = 0
    PROVE  SumFunctionOnSet(f, S) = 0
  <1> DEFINE Good == {T \in SUBSET S : SumFunctionOnSet(f, T) = 0}
  <1>1. ASSUME NEW T \in SUBSET S, \A U \in SUBSET T : U # T => U \in Good
        PROVE  T \in Good
    <2>1. SumFunctionOnSet(f, T) =
            IF T = {} THEN 0 ELSE f[First(T)] + SumFunctionOnSet(f, T \ {First(T)})
      BY FS_Subset, SumUnfold
    <2>2. T # {} => T \ {First(T)} \in Good /\ f[First(T)] = 0
      BY <1>1, FirstIn
    <2> QED
      BY <2>1, <2>2
  <1> HIDE DEF Good
  <1>2. S \in Good
    BY <1>1, SubsetInduction
  <1> QED
    BY <1>2 DEF Good

(* Two sets together count what their union and their intersection count.  *)
LEMMA SumUnion ==
    ASSUME NEW S, IsFiniteSet(S), NEW f, \A x \in S : f[x] \in Int,
           NEW A \in SUBSET S, NEW B \in SUBSET S
    PROVE  SumFunctionOnSet(f, A \cup B) + SumFunctionOnSet(f, A \cap B)
               = SumFunctionOnSet(f, A) + SumFunctionOnSet(f, B)
  <1> DEFINE Sum(T) == SumFunctionOnSet(f, T)
             Good == {T \in SUBSET S : Sum(A \cup T) + Sum(A \cap T) = Sum(A) + Sum(T)}
  <1>0. \A T \in SUBSET S : Sum(T) \in Int /\ IsFiniteSet(T)
    BY SumInt, FS_Subset
  <1>1. ASSUME NEW T \in SUBSET S, \A U \in SUBSET T : U # T => U \in Good
        PROVE  T \in Good
    <2>1. CASE T = {}
      <3>1. A \cup T = A /\ A \cap T = T
        BY <2>1
      <3> QED
        BY <3>1
    <2>2. CASE T # {}
      <3> HIDE DEF Sum
      <3>1. PICK y \in T : TRUE
        BY <2>2
      <3> DEFINE U == T \ {y}
      <3>2. Sum(A \cup U) + Sum(A \cap U) = Sum(A) + Sum(U)
        BY <1>1
      <3>3. Sum(T) = f[y] + Sum(U)
        BY <1>0, SumRemove DEF Sum
      <3>4. f[y] \in Int /\ Sum(A \cup U) \in Int /\ Sum(A \cap U) \in Int
            /\ Sum(A) \in Int /\ Sum(U) \in Int
        BY <1>0
      <3>5. CASE y \in A
        <4>1. A \cup T = A \cup U /\ (A \cap T) \ {y} = A \cap U /\ y \in A \cap T
          BY <3>5
        <4>2. Sum(A \cap T) = f[y] + Sum((A \cap T) \ {y})
          BY <1>0, <4>1, SumRemove DEF Sum
        <4>3. Sum(A \cup T) = Sum(A \cup U) /\ Sum(A \cap T) = f[y] + Sum(A \cap U)
          BY <4>1, <4>2
        <4> QED
          BY <3>2, <3>3, <3>4, <4>3
      <3>6. CASE y \notin A
        <4>1. A \cap T = A \cap U /\ (A \cup T) \ {y} = A \cup U /\ y \in A \cup T
          BY <3>6
        <4>2. Sum(A \cup T) = f[y] + Sum((A \cup T) \ {y})
          BY <1>0, <4>1, SumRemove DEF Sum
        <4>3. Sum(A \cap T) = Sum(A \cap U) /\ Sum(A \cup T) = f[y] + Sum(A \cup U)
          BY <4>1, <4>2
        <4> QED
          BY <3>2, <3>3, <3>4, <4>3
      <3> QED
        BY <3>5, <3>6
    <2> QED
      BY <2>1, <2>2
  <1> HIDE DEF Good
  <1>2. B \in Good
    BY <1>1, SubsetInduction
  <1> QED
    BY <1>2 DEF Good

(* A part of a set of naturals counts no more than the set.                *)
LEMMA SumPart ==
    ASSUME NEW S, IsFiniteSet(S), NEW f, \A x \in S : f[x] \in Nat,
           NEW A \in SUBSET S
    PROVE  SumFunctionOnSet(f, A) <= SumFunctionOnSet(f, S)
  <1>1. A \cup (S \ A) = S /\ A \cap (S \ A) = {}
    OBVIOUS
  <1>2. SumFunctionOnSet(f, S) + 0
          = SumFunctionOnSet(f, A) + SumFunctionOnSet(f, S \ A)
    BY <1>1, SumUnion, SumEmpty
  <1>3. /\ SumFunctionOnSet(f, A) \in Nat /\ SumFunctionOnSet(f, S \ A) \in Nat
        /\ SumFunctionOnSet(f, S) \in Nat
    BY FS_Subset, SumNat
  <1> QED
    BY <1>2, <1>3

(* A sum along an interval is its first term and the sum of the terms      *)
(* after it, each one place down.                                          *)
LEMMA SumShift ==
    ASSUME NEW n \in Nat, NEW f, \A i \in 1 .. n + 1 : f[i] \in Int,
           NEW g, \A i \in 1 .. n : g[i] = f[i + 1]
    PROVE  SumFunctionOnSet(f, 1 .. n + 1) = f[1] + SumFunctionOnSet(g, 1 .. n)
  <1> DEFINE Good == {m \in Nat : m <= n =>
                        SumFunctionOnSet(f, 1 .. m + 1)
                            = f[1] + SumFunctionOnSet(g, 1 .. m)}
  <1>1. 0 \in Good
    <2>1. 1 .. 0 + 1 = {} \cup {1} /\ 1 .. 0 = {}
      OBVIOUS
    <2>2. f[1] \in Int
      OBVIOUS
    <2>3. SumFunctionOnSet(f, {} \cup {1}) = f[1] + SumFunctionOnSet(f, {})
      BY <2>2, FS_EmptySet, SumAdd
    <2>4. SumFunctionOnSet(f, {}) = 0 /\ SumFunctionOnSet(g, {}) = 0
      BY SumEmpty
    <2> QED
      BY <2>1, <2>3, <2>4
  <1>2. ASSUME NEW m \in Nat, m \in Good PROVE m + 1 \in Good
    <2> SUFFICES ASSUME m + 1 <= n
                 PROVE  SumFunctionOnSet(f, 1 .. (m + 1) + 1)
                            = f[1] + SumFunctionOnSet(g, 1 .. m + 1)
      OBVIOUS
    <2>1. /\ 1 .. (m + 1) + 1 = (1 .. m + 1) \cup {m + 2}
          /\ 1 .. m + 1 = (1 .. m) \cup {m + 1}
          /\ m + 2 \notin 1 .. m + 1 /\ m + 1 \notin 1 .. m
      OBVIOUS
    <2>2. IsFiniteSet(1 .. m + 1) /\ IsFiniteSet(1 .. m)
      BY FS_Interval
    <2>3. /\ \A i \in 1 .. m + 1 : f[i] \in Int
          /\ \A i \in 1 .. m : g[i] \in Int
          /\ f[m + 2] \in Int /\ g[m + 1] = f[m + 2]
      <3>1. m + 1 \in 1 .. n /\ (m + 1) + 1 = m + 2 /\ m + 2 \in 1 .. n + 1
        OBVIOUS
      <3>2. \A i \in 1 .. m : i \in 1 .. n /\ i + 1 \in 1 .. n + 1
        OBVIOUS
      <3> QED
        BY <3>1, <3>2
    <2>4. SumFunctionOnSet(f, (1 .. m + 1) \cup {m + 2})
            = f[m + 2] + SumFunctionOnSet(f, 1 .. m + 1)
      BY <2>1, <2>2, <2>3, SumAdd
    <2>5. SumFunctionOnSet(g, (1 .. m) \cup {m + 1})
            = g[m + 1] + SumFunctionOnSet(g, 1 .. m)
      BY <2>1, <2>2, <2>3, SumAdd
    <2>6. SumFunctionOnSet(f, 1 .. m + 1) = f[1] + SumFunctionOnSet(g, 1 .. m)
      BY <1>2
    <2>7. SumFunctionOnSet(g, 1 .. m) \in Int /\ f[1] \in Int
      BY <2>2, <2>3, SumInt
    <2>8. SumFunctionOnSet(f, 1 .. (m + 1) + 1)
            = SumFunctionOnSet(f, (1 .. m + 1) \cup {m + 2})
      BY ONLY <2>1, Zenon
    <2>9. SumFunctionOnSet(g, 1 .. m + 1)
            = SumFunctionOnSet(g, (1 .. m) \cup {m + 1})
      BY ONLY <2>1, Zenon
    <2>10. PICK x \in Int : x = SumFunctionOnSet(g, 1 .. m)
      BY <2>7
    <2>11. f[m + 2] + (f[1] + x) = f[1] + (f[m + 2] + x)
      BY <2>3, <2>7
    <2> QED
      BY <2>3, <2>4, <2>5, <2>6, <2>8, <2>9, <2>10, <2>11
  <1> HIDE DEF Good
  <1>3. n \in Good
    BY <1>1, <1>2, NumberInduction
  <1> QED
    BY <1>3 DEF Good

-----------------------------------------------------------------------------
(* Maps (HashMap in the sources). *)

(* The empty map is a map of any type. *)
LEMMA EmptyMapType ==
    ASSUME NEW K, NEW V
    PROVE  IsMap(EmptyMap, K, V)
  BY DEF IsMap, EmptyMap

(* Inserting a value of the type keeps the type. *)
LEMMA PutType ==
    ASSUME NEW K, NEW V, NEW m, IsMap(m, K, V), NEW k \in K, NEW v \in V
    PROVE  IsMap(Put(m, k, v), K, V)
  BY DEF IsMap, Put

(* Removing a key keeps the type. *)
LEMMA DropType ==
    ASSUME NEW K, NEW V, NEW m, IsMap(m, K, V), NEW k
    PROVE  IsMap(Drop(m, k), K, V)
  BY DEF IsMap, Drop

(* A lookup yields a value of the type if its default is one. *)
LEMMA LookupType ==
    ASSUME NEW K, NEW V, NEW m, IsMap(m, K, V), NEW k, NEW d \in V
    PROVE  Lookup(m, k, d) \in V
  BY DEF IsMap, Lookup

-----------------------------------------------------------------------------
(* u64 arithmetic. *)

(* Wrapping addition stays in range, whatever is added. *)
LEMMA Add64Type ==
    ASSUME NEW x \in Int, NEW y \in Int
    PROVE  Add64(x, y) \in U64
  BY LedgerAssumption DEF Add64, U64

(* Subtracting what is there stays in range. *)
LEMMA SubType ==
    ASSUME NEW x \in U64, NEW y \in U64, x >= y
    PROVE  x - y \in U64
  BY LedgerAssumption DEF U64

(* u64 values are integers, and zero is one of them. *)
LEMMA U64Int == U64 \subseteq Int /\ 0 \in U64
  BY LedgerAssumption DEF U64

-----------------------------------------------------------------------------
(* Accounts. *)

(* A new account is an account. *)
LEMMA NewAccountType == IsAccount(NewAccount)
  BY EmptyMapType, U64Int DEF IsAccount, NewAccount, Nonce

(* An account stays one under a change of its balance, *)
LEMMA BalanceType ==
    ASSUME NEW acc, IsAccount(acc), NEW b \in U64
    PROVE  IsAccount([acc EXCEPT !.balance = b])
  BY DEF IsAccount

(* of its nonce, *)
LEMMA NonceType ==
    ASSUME NEW acc, IsAccount(acc)
    PROVE  IsAccount([acc EXCEPT !.nonce = @ + 1])
  BY DEF IsAccount, Nonce

(* of its units of assets, *)
LEMMA AssetsType ==
    ASSUME NEW acc, IsAccount(acc), NEW m, IsMap(m, AssetId, U64)
    PROVE  IsAccount([acc EXCEPT !.assets = m])
  BY DEF IsAccount

(* of its items, *)
LEMMA NftsType ==
    ASSUME NEW acc, IsAccount(acc), NEW m, IsMap(m, NftId, Nat)
    PROVE  IsAccount([acc EXCEPT !.nfts = m])
  BY DEF IsAccount

(* and of its allowances. *)
LEMMA AllowanceType ==
    ASSUME NEW acc, IsAccount(acc), NEW m, IsMap(m, Address, U64)
    PROVE  IsAccount([acc EXCEPT !.allowance = m])
  BY DEF IsAccount

(* So does a map of accounts when one is inserted; *)
LEMMA PutAccountType ==
    ASSUME NEW m, IsAccounts(m), NEW a \in Address, NEW acc, IsAccount(acc)
    PROVE  IsAccounts(Put(m, a, acc))
  BY DEF IsAccounts, Put

(* the empty map is one, *)
LEMMA EmptyAccountsType == IsAccounts(EmptyMap)
  BY DEF IsAccounts, EmptyMap

(* and so is one map laid over another. *)
LEMMA OverlayType ==
    ASSUME NEW m, NEW n, IsAccounts(m), IsAccounts(n)
    PROVE  IsAccounts(Overlay(m, n))
  BY DEF IsAccounts, Overlay

-----------------------------------------------------------------------------
(* Reading and staging. *)

(* get_account returns an account, stored or new. *)
LEMMA GetAccountType ==
    ASSUME NEW st, IsLedger(st), NEW a
    PROVE  IsAccount(GetAccount(st, a))
  BY NewAccountType DEF IsLedger, IsAccounts, GetAccount, Lookup

(* Staging an account keeps the ledger well-formed. *)
LEMMA StageType ==
    ASSUME NEW st, IsLedger(st), NEW a \in Address, NEW acc, IsAccount(acc)
    PROVE  IsLedger(Stage(st, a, acc))
  BY PutAccountType DEF IsLedger, Stage

(* What is staged is what the next read finds. *)
LEMMA GetStaged ==
    ASSUME NEW st, IsLedger(st), NEW a, NEW acc
    PROVE  /\ GetAccount(Stage(st, a, acc), a) = acc
           /\ \A c : c # a => GetAccount(Stage(st, a, acc), c) = GetAccount(st, c)
  BY DEF IsLedger, IsAccounts, GetAccount, Stage, Lookup, Put

(* Balances are u64 values. *)
LEMMA BalanceInRange ==
    ASSUME NEW st, IsLedger(st), NEW a
    PROVE  GetBalance(st, a) \in U64
  BY GetAccountType DEF GetBalance, IsAccount

(* Crediting wraps round and stays well-formed. *)
LEMMA CreditType ==
    ASSUME NEW st, IsLedger(st), NEW a \in Address, NEW n \in Int
    PROVE  IsLedger(Credit(st, a, n))
  <1>1. Add64(GetBalance(st, a), n) \in U64
    BY BalanceInRange, Add64Type, U64Int
  <1>2. IsAccount([GetAccount(st, a) EXCEPT !.balance = Add64(GetBalance(st, a), n)])
    BY <1>1, GetAccountType, BalanceType
  <1> QED
    BY <1>2, StageType DEF Credit, SetBalance

(* A debit after the balance check does not underflow. *)
LEMMA DebitType ==
    ASSUME NEW st, IsLedger(st), NEW a \in Address, NEW n \in U64,
           CanPay(st, a, n)
    PROVE  IsLedger(Debit(st, a, n))
  <1>1. GetBalance(st, a) - n \in U64
    BY BalanceInRange, SubType DEF CanPay
  <1>2. IsAccount([GetAccount(st, a) EXCEPT !.balance = GetBalance(st, a) - n])
    BY <1>1, GetAccountType, BalanceType
  <1> QED
    BY <1>2, StageType DEF Debit, SetBalance

(* Setting the units of an asset keeps the ledger well-formed.             *)
LEMMA SetAssetType ==
    ASSUME NEW st, IsLedger(st), NEW a \in Address, NEW id \in AssetId,
           NEW n \in U64
    PROVE  IsLedger(SetAsset(st, a, id, n))
  <1> DEFINE acc == GetAccount(st, a)
  <1>1. IsAccount(acc)
    BY GetAccountType
  <1>2. IsMap(Put(acc.assets, id, n), AssetId, U64)
    BY <1>1, PutType DEF IsAccount
  <1>3. IsAccount([acc EXCEPT !.assets = Put(acc.assets, id, n)])
    BY <1>1, <1>2, AssetsType
  <1> QED
    BY <1>3, StageType DEF SetAsset

(* Appending an item to an account's list keeps the ledger well-formed.    *)
LEMMA PushNftType ==
    ASSUME NEW st, IsLedger(st), NEW a \in Address, NEW nft \in NftId
    PROVE  IsLedger(PushNft(st, a, nft))
  <1> DEFINE acc == GetAccount(st, a)
             n == Lookup(acc.nfts, nft, 0) + 1
  <1>1. IsAccount(acc)
    BY GetAccountType
  <1>2. IsMap(acc.nfts, NftId, Nat)
    BY <1>1 DEF IsAccount
  <1>3. n \in Nat
    BY <1>2, LookupType
  <1>4. IsMap(Put(acc.nfts, nft, n), NftId, Nat)
    BY <1>2, <1>3, PutType
  <1>5. IsAccount([acc EXCEPT !.nfts = Put(acc.nfts, nft, n)])
    BY <1>1, <1>4, NftsType
  <1> QED
    BY <1>5, StageType DEF PushNft

(* So does removing it.                                                    *)
LEMMA RemoveNftType ==
    ASSUME NEW st, IsLedger(st), NEW a \in Address, NEW nft
    PROVE  IsLedger(RemoveNft(st, a, nft))
  <1> DEFINE acc == GetAccount(st, a)
  <1>1. IsAccount(acc)
    BY GetAccountType
  <1>2. IsMap(Drop(acc.nfts, nft), NftId, Nat)
    BY <1>1, DropType DEF IsAccount
  <1>3. IsAccount([acc EXCEPT !.nfts = Drop(acc.nfts, nft)])
    BY <1>1, <1>2, NftsType
  <1> QED
    BY <1>3, StageType DEF RemoveNft

(* The units an account holds of an asset are a u64 value. *)
LEMMA AssetBalanceInRange ==
    ASSUME NEW st, IsLedger(st), NEW a, NEW id
    PROVE  AssetBalance(st, a, id) \in U64
  BY GetAccountType, LookupType, U64Int DEF AssetBalance, IsAccount

-----------------------------------------------------------------------------
(* The registries. *)

(* Registering an asset keeps the ledger well-formed,                      *)
LEMMA RegisterAssetType ==
    ASSUME NEW st, IsLedger(st), NEW m, IsMap(m, AssetId, Asset)
    PROVE  IsLedger([st EXCEPT !.assets = m])
  BY DEF IsLedger

(* registering a collection does,                                          *)
LEMMA RegisterCollectionType ==
    ASSUME NEW st, IsLedger(st), NEW id \in AssetId, NEW c, IsCollection(c)
    PROVE  IsLedger([st EXCEPT !.collections = Put(st.collections, id, c)])
  BY DEF IsLedger, Put

(* and registering a channel does.                                         *)
LEMMA RegisterChannelType ==
    ASSUME NEW st, IsLedger(st), NEW id \in AssetId, NEW c \in Channel
    PROVE  IsLedger([st EXCEPT !.channels = Put(st.channels, id, c)])
  BY PutType DEF IsLedger

(* Recording an item's owner keeps the ledger well-formed. *)
LEMMA SetOwnerType ==
    ASSUME NEW st, IsLedger(st), NEW id \in DOMAIN st.collections,
           NEW item \in Items, NEW a \in Address
    PROVE  IsLedger(SetOwner(st, id, item, a))
  <1> DEFINE c == st.collections[id]
             d == [c EXCEPT !.owner = Put(c.owner, item, a)]
  <1>1. IsCollection(c) /\ id \in AssetId
    BY DEF IsLedger
  <1>2. IsMap(Put(c.owner, item, a), Items, Address)
    BY <1>1, PutType DEF IsCollection
  <1>3. IsCollection(d)
    BY <1>1, <1>2 DEF IsCollection
  <1> QED
    BY <1>1, <1>3, RegisterCollectionType DEF SetOwner

(* Marking a channel closed keeps the ledger well-formed. *)
LEMMA MarkClosedType ==
    ASSUME NEW st, IsLedger(st), NEW id \in DOMAIN st.channels
    PROVE  IsLedger(MarkClosed(st, id))
  <1>1. id \in AssetId /\ st.channels[id] \in Channel
    BY DEF IsLedger, IsMap
  <1>2. [st.channels[id] EXCEPT !.is_closed = TRUE] \in Channel
    BY <1>1 DEF Channel
  <1> QED
    BY <1>1, <1>2, RegisterChannelType DEF MarkClosed

-----------------------------------------------------------------------------
(* Transactions. *)

(* What the fields of a transaction are, by its type. *)
LEMMA DataType ==
    ASSUME NEW d \in TransactionData
    PROVE  /\ d.type = "NativeTransfer" => d.amount \in U64
           /\ d.type = "CreateAsset" => d.name \in Names /\ d.supply \in U64
           /\ d.type = "TransferAsset" => d.amount \in U64
           /\ d.type = "CreateCollection" => d.name \in Names
           /\ d.type = "MintNFT" => d.item \in Items /\ d.recipient \in Address
           /\ d.type = "TransferNFT" => d.item \in Items
           /\ d.type = "OpenChannel" => d.partner \in Address /\ d.amount \in U64
           /\ d.type = "CloseChannel" =>
                 d.final_balance_a \in U64 /\ d.final_balance_b \in U64
           /\ d.type = "DelegateSpend" =>
                 d.delegate \in Address /\ d.allowance \in U64
           /\ d.type = "RegisterValidator" => d.stake \in U64
           /\ d.type \in {"NativeTransfer", "CreateAsset", "TransferAsset",
                  "CreateCollection", "MintNFT", "TransferNFT", "OpenChannel",
                  "CloseChannel", "DelegateSpend", "RegisterValidator",
                  "UnregisterValidator"}
  BY DEF TransactionData

(* The id that an issuing transaction makes is an asset id. *)
LEMMA AssetIdOfType ==
    ASSUME NEW tx \in Transaction,
           tx.data.type \in {"CreateAsset", "CreateCollection", "OpenChannel"}
    PROVE  AssetIdOf(tx) \in AssetId
  BY DataType DEF AssetIdOf, AssetId, Transaction

(* An outcome whose ledger is well-formed, whether it is a success or not. *)
IsOutcome(r) == r = [ok |-> r.ok, st |-> r.st] /\ r.ok \in BOOLEAN /\ IsLedger(r.st)

(* Ok and Err of a well-formed ledger are such outcomes.                   *)
LEMMA OutcomeType ==
    ASSUME NEW st, IsLedger(st)
    PROVE  IsOutcome(Ok(st)) /\ IsOutcome(Err(st))
  BY DEF IsOutcome, Ok, Err

(* A native transfer: the debit is covered, the credit wraps. *)
LEMMA TransferNativeType ==
    ASSUME NEW st, IsLedger(st), NEW tx \in Transaction,
           tx.data.type = "NativeTransfer"
    PROVE  IsOutcome(TransferNative(st, tx))
  <1> DEFINE n == tx.data.amount
  <1>1. n \in U64 /\ tx.sender \in Address /\ tx.receiver \in Address
    BY DataType DEF Transaction
  <1>2. CASE tx.sender # tx.receiver /\ CanPay(st, tx.sender, n)
    <2>1. IsLedger(Debit(st, tx.sender, n))
      BY <1>1, <1>2, DebitType
    <2>2. IsLedger(Credit(Debit(st, tx.sender, n), tx.receiver, n))
      BY <1>1, <2>1, CreditType, U64Int
    <2> QED
      BY <1>2, <2>2, OutcomeType DEF TransferNative
  <1>3. CASE ~(tx.sender # tx.receiver /\ CanPay(st, tx.sender, n))
    BY <1>3, OutcomeType DEF TransferNative
  <1> QED
    BY <1>2, <1>3

(* Creating an asset. *)
LEMMA CreateAssetType ==
    ASSUME NEW st, IsLedger(st), NEW tx \in Transaction,
           tx.data.type = "CreateAsset"
    PROVE  IsOutcome(CreateAsset(st, tx))
  <1> DEFINE id == AssetIdOf(tx)
             paid == SetAsset(st, tx.sender, id, tx.data.supply)
             asset == [issuer |-> tx.sender, total_supply |-> tx.data.supply]
  <1>1. tx.data.supply \in U64 /\ tx.sender \in Address /\ id \in AssetId
    BY DataType, AssetIdOfType DEF Transaction
  <1>2. IsLedger(paid)
    BY <1>1, SetAssetType
  <1>3. asset \in Asset
    BY <1>1 DEF Asset
  <1>4. IsMap(Put(st.assets, id, asset), AssetId, Asset)
    BY <1>1, <1>3, PutType DEF IsLedger
  <1>5. IsLedger(IssueAsset(st, tx))
    BY <1>2, <1>4, RegisterAssetType DEF IssueAsset
  <1> QED
    BY <1>5, OutcomeType DEF CreateAsset

(* A transfer of units of an asset, possibly to oneself. *)
LEMMA TransferAssetType ==
    ASSUME NEW st, IsLedger(st), NEW tx \in Transaction,
           tx.data.type = "TransferAsset"
    PROVE  IsOutcome(TransferAsset(st, tx))
  <1> DEFINE id == tx.data.id
             n == tx.data.amount
             from == tx.sender
             to == tx.receiver
  <1>1. n \in U64 /\ from \in Address /\ to \in Address
    BY DataType DEF Transaction
  <1>2. CASE /\ id \in DOMAIN st.assets
             /\ HasAccount(st, from)
             /\ AssetBalance(st, from, id) >= n
    <2> DEFINE left == AssetBalance(st, from, id) - n
               paid == SetAsset(st, from, id, left)
               sum == Add64(AssetBalance(paid, to, id), n)
    <2>1. id \in AssetId
      BY <1>2 DEF IsLedger, IsMap
    <2>2. left \in U64
      BY <1>1, <1>2, AssetBalanceInRange, SubType
    <2>3. IsLedger(paid)
      BY <1>1, <2>1, <2>2, SetAssetType
    <2>4. sum \in U64
      BY <1>1, <2>3, AssetBalanceInRange, Add64Type, U64Int
    <2>5. IsLedger(SetAsset(paid, to, id, sum))
      BY <1>1, <2>1, <2>3, <2>4, SetAssetType
    <2>6. IsLedger(MoveAsset(st, from, to, id, n))
      BY <2>5 DEF MoveAsset
    <2> QED
      BY <1>2, <2>6, OutcomeType DEF TransferAsset
  <1>3. CASE ~(/\ id \in DOMAIN st.assets
               /\ HasAccount(st, from)
               /\ AssetBalance(st, from, id) >= n)
    BY <1>3, OutcomeType DEF TransferAsset
  <1> QED
    BY <1>2, <1>3

(* Creating a collection. *)
LEMMA CreateCollectionType ==
    ASSUME NEW st, IsLedger(st), NEW tx \in Transaction,
           tx.data.type = "CreateCollection"
    PROVE  IsOutcome(CreateCollection(st, tx))
  <1> DEFINE id == AssetIdOf(tx)
             c == [issuer |-> tx.sender, owner |-> EmptyMap]
  <1>1. tx.sender \in Address /\ id \in AssetId
    BY DataType, AssetIdOfType DEF Transaction
  <1>2. IsCollection(c)
    BY <1>1, EmptyMapType DEF IsCollection
  <1>3. IsLedger([st EXCEPT !.collections = Put(st.collections, id, c)])
    BY <1>1, <1>2, RegisterCollectionType
  <1> QED
    BY <1>3, OutcomeType DEF CreateCollection

(* Minting an item. *)
LEMMA MintNFTType ==
    ASSUME NEW st, IsLedger(st), NEW tx \in Transaction,
           tx.data.type = "MintNFT"
    PROVE  IsOutcome(MintNFT(st, tx))
  <1> DEFINE id == tx.data.id
             item == tx.data.item
             to == tx.data.recipient
             owned == SetOwner(st, id, item, to)
  <1>1. item \in Items /\ to \in Address
    BY DataType DEF Transaction
  <1>2. CASE id \in DOMAIN st.collections
    <2>1. id \in AssetId
      BY <1>2 DEF IsLedger
    <2>2. IsLedger(owned)
      BY <1>1, <1>2, SetOwnerType
    <2>3. <<id, item>> \in NftId
      BY <1>1, <2>1 DEF NftId
    <2>4. IsLedger(PushNft(owned, to, <<id, item>>))
      BY <1>1, <2>2, <2>3, PushNftType
    <2> QED
      BY <2>4, OutcomeType DEF MintNFT
  <1>3. CASE id \notin DOMAIN st.collections
    BY <1>3, OutcomeType DEF MintNFT
  <1> QED
    BY <1>2, <1>3

(* Transferring an item: also the failure after the owner was rewritten. *)
LEMMA TransferNFTType ==
    ASSUME NEW st, IsLedger(st), NEW tx \in Transaction,
           tx.data.type = "TransferNFT"
    PROVE  IsOutcome(TransferNFT(st, tx))
  <1> DEFINE id == tx.data.id
             item == tx.data.item
             nft == <<id, item>>
             owned == SetOwner(st, id, item, tx.receiver)
             left == RemoveNft(owned, tx.sender, nft)
  <1>1. item \in Items /\ tx.sender \in Address /\ tx.receiver \in Address
    BY DataType DEF Transaction
  <1>2. CASE id \in DOMAIN st.collections
    <2>1. id \in AssetId
      BY <1>2 DEF IsLedger
    <2>2. IsLedger(owned)
      BY <1>1, <1>2, SetOwnerType
    <2>3. IsLedger(left)
      BY <1>1, <2>2, RemoveNftType
    <2>4. nft \in NftId
      BY <1>1, <2>1 DEF NftId
    <2>5. IsLedger(PushNft(left, tx.receiver, nft))
      BY <1>1, <2>3, <2>4, PushNftType
    <2> QED
      BY <2>2, <2>5, OutcomeType DEF TransferNFT
  <1>3. CASE id \notin DOMAIN st.collections
    BY <1>3, OutcomeType DEF TransferNFT
  <1> QED
    BY <1>2, <1>3

(* Opening a channel: also the failure after the deposit was deducted. *)
LEMMA OpenChannelType ==
    ASSUME NEW st, IsLedger(st), NEW tx \in Transaction,
           tx.data.type = "OpenChannel"
    PROVE  IsOutcome(OpenChannel(st, tx))
  <1> DEFINE id == AssetIdOf(tx)
             n == tx.data.amount
             paid == Debit(st, tx.sender, n)
             c == [partner_a |-> tx.sender, partner_b |-> tx.data.partner,
                   total_deposit |-> n, is_closed |-> FALSE]
  <1>1. /\ n \in U64 /\ tx.sender \in Address
        /\ tx.data.partner \in Address /\ id \in AssetId
    BY DataType, AssetIdOfType DEF Transaction
  <1>2. CASE CanPay(st, tx.sender, n)
    <2>1. IsLedger(paid)
      BY <1>1, <1>2, DebitType
    <2>2. c \in Channel
      BY <1>1 DEF Channel
    <2>3. IsLedger([paid EXCEPT !.channels = Put(paid.channels, id, c)])
      BY <1>1, <2>1, <2>2, RegisterChannelType
    <2>4. paid.channels = st.channels
      BY DEF Debit, SetBalance, Stage, IsLedger
    <2> QED
      BY <1>2, <2>1, <2>3, <2>4, OutcomeType DEF OpenChannel
  <1>3. CASE ~CanPay(st, tx.sender, n)
    BY <1>3, OutcomeType DEF OpenChannel
  <1> QED
    BY <1>2, <1>3

(* Closing a channel: also the failure after the channel was marked closed. *)
LEMMA CloseChannelType ==
    ASSUME NEW st, IsLedger(st), NEW tx \in Transaction,
           tx.data.type = "CloseChannel"
    PROVE  IsOutcome(CloseChannel(st, tx))
  <1> DEFINE id == tx.data.id
             c == st.channels[id]
             a == tx.data.final_balance_a
             b == tx.data.final_balance_b
             closed == MarkClosed(st, id)
  <1>1. a \in Int /\ b \in Int
    BY DataType, U64Int DEF Transaction
  <1>2. CASE id \in DOMAIN st.channels
    <2>1. IsLedger(closed)
      BY <1>2, MarkClosedType
    <2>2. c.partner_a \in Address /\ c.partner_b \in Address
      BY <1>2 DEF IsLedger, IsMap, Channel
    <2>3. IsLedger(Credit(closed, c.partner_a, a))
      BY <1>1, <2>1, <2>2, CreditType
    <2>4. IsLedger(PayOut(closed, c, a, b))
      BY <1>1, <2>2, <2>3, CreditType DEF PayOut
    <2> QED
      BY <2>1, <2>4, OutcomeType DEF CloseChannel
  <1>3. CASE id \notin DOMAIN st.channels
    BY <1>3, OutcomeType DEF CloseChannel
  <1> QED
    BY <1>2, <1>3

(* Delegating an allowance. *)
LEMMA DelegateSpendType ==
    ASSUME NEW st, IsLedger(st), NEW tx \in Transaction,
           tx.data.type = "DelegateSpend"
    PROVE  IsOutcome(DelegateSpend(st, tx))
  <1> DEFINE acc == GetAccount(st, tx.sender)
             m == Put(acc.allowance, tx.data.delegate, tx.data.allowance)
  <1>1. /\ tx.sender \in Address /\ tx.data.delegate \in Address
        /\ tx.data.allowance \in U64
    BY DataType DEF Transaction
  <1>2. IsAccount(acc)
    BY GetAccountType
  <1>3. IsMap(m, Address, U64)
    BY <1>1, <1>2, PutType DEF IsAccount
  <1>4. IsAccount([acc EXCEPT !.allowance = m])
    BY <1>2, <1>3, AllowanceType
  <1>5. IsLedger(Stage(st, tx.sender, [acc EXCEPT !.allowance = m]))
    BY <1>1, <1>4, StageType
  <1> QED
    BY <1>5, OutcomeType DEF DelegateSpend

(* Bonding stake. *)
LEMMA BondStakeType ==
    ASSUME NEW st, IsLedger(st), NEW tx \in Transaction,
           tx.data.type = "RegisterValidator"
    PROVE  IsOutcome(BondStake(st, tx))
  <1>1. tx.sender \in Address /\ tx.data.stake \in U64
    BY DataType DEF Transaction
  <1>2. CanPay(st, tx.sender, tx.data.stake)
          => IsLedger(Debit(st, tx.sender, tx.data.stake))
    BY <1>1, DebitType
  <1> QED
    BY <1>2, OutcomeType DEF BondStake

(* Checking that the sender of UnregisterValidator exists changes nothing. *)
LEMMA UnbondCheckType ==
    ASSUME NEW st, IsLedger(st), NEW tx
    PROVE  IsOutcome(UnbondCheck(st, tx))
  BY OutcomeType DEF UnbondCheck

(* Every arm of apply_transaction's match, by the type of the transaction. *)
LEMMA DispatchType ==
    ASSUME NEW st, IsLedger(st), NEW tx \in Transaction
    PROVE  IsOutcome(Dispatch(st, tx))
  <1>1. tx.data \in TransactionData
    BY DEF Transaction
  <1>2. CASE tx.data.type = "NativeTransfer"
    BY <1>2, TransferNativeType DEF Dispatch
  <1>3. CASE tx.data.type = "CreateAsset"
    BY <1>3, CreateAssetType DEF Dispatch
  <1>4. CASE tx.data.type = "TransferAsset"
    BY <1>4, TransferAssetType DEF Dispatch
  <1>5. CASE tx.data.type = "CreateCollection"
    BY <1>5, CreateCollectionType DEF Dispatch
  <1>6. CASE tx.data.type = "MintNFT"
    BY <1>6, MintNFTType DEF Dispatch
  <1>7. CASE tx.data.type = "TransferNFT"
    BY <1>7, TransferNFTType DEF Dispatch
  <1>8. CASE tx.data.type = "OpenChannel"
    BY <1>8, OpenChannelType DEF Dispatch
  <1>9. CASE tx.data.type = "CloseChannel"
    BY <1>9, CloseChannelType DEF Dispatch
  <1>10. CASE tx.data.type = "DelegateSpend"
    BY <1>10, DelegateSpendType DEF Dispatch
  <1>11. CASE tx.data.type = "RegisterValidator"
    BY <1>11, BondStakeType DEF Dispatch
  <1>12. CASE tx.data.type = "UnregisterValidator"
    BY <1>12, UnbondCheckType DEF Dispatch
  <1> QED
    BY <1>1, <1>2, <1>3, <1>4, <1>5, <1>6, <1>7, <1>8, <1>9, <1>10, <1>11,
       <1>12, DataType

(* The nonce of the sender is counted up. *)
LEMMA IncrementNonceType ==
    ASSUME NEW st, IsLedger(st), NEW a \in Address
    PROVE  IsLedger(IncrementNonce(st, a))
  BY GetAccountType, NonceType, StageType DEF IncrementNonce

(* process_transaction keeps the ledger well-formed, for every transaction *)
(* and also when it returns false.                                         *)
THEOREM ProcessTransactionType ==
    ASSUME NEW st, IsLedger(st), NEW tx \in Transaction
    PROVE  IsOutcome(ProcessTransaction(st, tx))
  <1> DEFINE done == Dispatch(st, tx)
  <1>1. IsOutcome(done)
    BY DispatchType
  <1>2. tx.sender \in Address
    BY DEF Transaction
  <1>3. IsLedger(IncrementNonce(done.st, tx.sender))
    BY <1>1, <1>2, IncrementNonceType DEF IsOutcome
  <1>4. IsOutcome(ApplyTransaction(st, tx))
    BY <1>1, <1>3, OutcomeType DEF ApplyTransaction
  <1> QED
    BY <1>4, OutcomeType DEF ProcessTransaction

-----------------------------------------------------------------------------
(* Committing, discarding, opening. *)

(* discard_changes keeps the ledger well-formed,                           *)
LEMMA DiscardChangesType ==
    ASSUME NEW st, IsLedger(st)
    PROVE  IsLedger(DiscardChanges(st))
  BY EmptyAccountsType DEF IsLedger, DiscardChanges

(* apply_changes does,                                                     *)
LEMMA ApplyChangesType ==
    ASSUME NEW st, IsLedger(st)
    PROVE  IsLedger(ApplyChanges(st))
  <1>1. IsAccounts(Overlay(st.pending, st.accounts))
    BY OverlayType DEF IsLedger
  <1> QED
    BY <1>1, DiscardChangesType DEF IsLedger, ApplyChanges

(* and State::new on well-formed accounts does.                            *)
LEMMA OpenLedgerType ==
    ASSUME NEW m, IsAccounts(m)
    PROVE  IsLedger(OpenLedger(m))
  <1>1. /\ IsMap(EmptyMap, AssetId, Asset) /\ IsMap(EmptyMap, AssetId, Channel)
    BY EmptyMapType
  <1> QED
    BY <1>1, EmptyAccountsType DEF IsLedger, OpenLedger, EmptyMap

-----------------------------------------------------------------------------
(* Validators. *)

(* A validator set: members with natural stakes, and an integer total.     *)
IsValidatorSet(vs) ==
    /\ vs = [members |-> vs.members, total_stake |-> vs.total_stake]
    /\ IsMap(vs.members, Address, ValidatorInfo)
    /\ vs.total_stake \in Int

(* Registering keeps a validator set one,                                  *)
LEMMA RegisterValidatorType ==
    ASSUME NEW vs, IsValidatorSet(vs), NEW key \in Address, NEW stake \in Nat
    PROVE  IsValidatorSet(RegisterValidator(vs, key, stake))
  <1>1. [stake |-> stake, slashed |-> FALSE] \in ValidatorInfo
    BY DEF ValidatorInfo
  <1>2. IsMap(Put(vs.members, key, [stake |-> stake, slashed |-> FALSE]),
              Address, ValidatorInfo)
    BY <1>1, PutType DEF IsValidatorSet
  <1> QED
    BY <1>2 DEF RegisterValidator, IsValidatorSet

(* unregistering does,                                                     *)
LEMMA UnregisterValidatorType ==
    ASSUME NEW vs, IsValidatorSet(vs), NEW key
    PROVE  IsValidatorSet(UnregisterValidator(vs, key))
  <1>1. IsMap(Drop(vs.members, key), Address, ValidatorInfo)
    BY DropType DEF IsValidatorSet
  <1>2. IsValidator(vs, key) => vs.members[key].stake \in Int
    BY DEF IsValidator, IsValidatorSet, IsMap, ValidatorInfo
  <1> QED
    BY <1>1, <1>2 DEF UnregisterValidator, IsValidatorSet

(* and slashing does.                                                      *)
LEMMA SlashValidatorType ==
    ASSUME NEW vs, IsValidatorSet(vs), NEW key
    PROVE  IsValidatorSet(SlashValidator(vs, key))
  <1>1. CASE IsValidator(vs, key)
    <2>1. key \in Address /\ vs.members[key].stake \in Int
      BY <1>1 DEF IsValidator, IsValidatorSet, IsMap, ValidatorInfo
    <2>2. [stake |-> 0, slashed |-> TRUE] \in ValidatorInfo
      BY DEF ValidatorInfo
    <2>3. IsMap(Put(vs.members, key, [stake |-> 0, slashed |-> TRUE]),
                Address, ValidatorInfo)
      BY <2>1, <2>2, PutType DEF IsValidatorSet
    <2> QED
      BY <2>1, <2>3 DEF SlashValidator, IsValidatorSet
  <1>2. CASE ~IsValidator(vs, key)
    BY <1>2 DEF SlashValidator
  <1> QED
    BY <1>1, <1>2

-----------------------------------------------------------------------------
(* What a transaction leaves alone. *)

(* A step from s to t that changes no stored account and, of what          *)
(* transactions read through the overlay and of the registries, nothing    *)
(* but `parts`.                                                            *)
Touches(parts, s, t) ==
    /\ t.accounts = s.accounts
    /\ DOMAIN s.pending \subseteq DOMAIN t.pending
    /\ "balance" \notin parts =>
          \A a : GetAccount(t, a).balance = GetAccount(s, a).balance
    /\ "nonce" \notin parts =>
          \A a : GetAccount(t, a).nonce = GetAccount(s, a).nonce
    /\ "units" \notin parts =>
          \A a : GetAccount(t, a).assets = GetAccount(s, a).assets
    /\ "items" \notin parts =>
          \A a : GetAccount(t, a).nfts = GetAccount(s, a).nfts
    /\ "assets" \notin parts => t.assets = s.assets
    /\ "collections" \notin parts => t.collections = s.collections
    /\ "channels" \notin parts => t.channels = s.channels

(* Doing nothing touches nothing,                                          *)
LEMMA TouchesNothing ==
    ASSUME NEW parts, NEW s
    PROVE  Touches(parts, s, s)
  BY DEF Touches

(* steps add up,                                                           *)
LEMMA TouchesTwice ==
    ASSUME NEW parts, NEW s, NEW t, NEW u,
           Touches(parts, s, t), Touches(parts, t, u)
    PROVE  Touches(parts, s, u)
  BY DEF Touches

(* and what touches little touches no more than a larger part.             *)
LEMMA TouchesMore ==
    ASSUME NEW more, NEW less \in SUBSET more, NEW s, NEW t, Touches(less, s, t)
    PROVE  Touches(more, s, t)
  BY DEF Touches

(* Staging an account touches those of its fields that differ.             *)
LEMMA StageTouches ==
    ASSUME NEW st, IsLedger(st), NEW a, NEW acc, NEW parts,
           "balance" \notin parts => acc.balance = GetAccount(st, a).balance,
           "nonce" \notin parts => acc.nonce = GetAccount(st, a).nonce,
           "units" \notin parts => acc.assets = GetAccount(st, a).assets,
           "items" \notin parts => acc.nfts = GetAccount(st, a).nfts
    PROVE  Touches(parts, st, Stage(st, a, acc))
  <1> DEFINE t == Stage(st, a, acc)
  <1>1. /\ GetAccount(t, a) = acc
        /\ \A c : c # a => GetAccount(t, c) = GetAccount(st, c)
    BY GetStaged
  <1>2. /\ t.accounts = st.accounts /\ t.assets = st.assets
        /\ t.collections = st.collections /\ t.channels = st.channels
        /\ DOMAIN st.pending \subseteq DOMAIN t.pending
    BY DEF Stage, IsLedger, Put
  <1> HIDE DEF t
  <1> QED
    BY <1>1, <1>2 DEF Touches, t

(* The primitives: set_balance,                                            *)
LEMMA SetBalanceTouches ==
    ASSUME NEW st, IsLedger(st), NEW a, NEW b
    PROVE  /\ Touches({"balance"}, st, SetBalance(st, a, b))
           /\ GetBalance(SetBalance(st, a, b), a) = b
           /\ \A c : c # a => GetBalance(SetBalance(st, a, b), c) = GetBalance(st, c)
  <1> DEFINE acc == [GetAccount(st, a) EXCEPT !.balance = b]
  <1>1. IsAccount(GetAccount(st, a))
    BY GetAccountType
  <1>2. /\ acc.balance = b /\ acc.nonce = GetAccount(st, a).nonce
        /\ acc.assets = GetAccount(st, a).assets
        /\ acc.nfts = GetAccount(st, a).nfts
    BY <1>1 DEF IsAccount
  <1> HIDE DEF acc
  <1>3. Touches({"balance"}, st, Stage(st, a, acc))
    BY <1>2, StageTouches
  <1>4. /\ GetAccount(Stage(st, a, acc), a) = acc
        /\ \A c : c # a => GetAccount(Stage(st, a, acc), c) = GetAccount(st, c)
    BY GetStaged
  <1>5. SetBalance(st, a, b) = Stage(st, a, acc)
    BY DEF SetBalance, acc
  <1> QED
    BY <1>2, <1>3, <1>4, <1>5 DEF GetBalance

(* the units of an asset,                                                  *)
LEMMA SetAssetTouches ==
    ASSUME NEW st, IsLedger(st), NEW a, NEW id, NEW n
    PROVE  LET t == SetAsset(st, a, id, n)
           IN  /\ Touches({"units"}, st, t)
               /\ GetAccount(t, a).assets = Put(GetAccount(st, a).assets, id, n)
               /\ \A c : c # a => GetAccount(t, c).assets = GetAccount(st, c).assets
  <1> DEFINE old == GetAccount(st, a)
             m == Put(old.assets, id, n)
             acc == [old EXCEPT !.assets = m]
  <1>1. IsAccount(old)
    BY GetAccountType
  <1> HIDE DEF m
  <1>2. /\ acc.balance = old.balance /\ acc.nonce = old.nonce
        /\ acc.assets = m /\ acc.nfts = old.nfts
    BY <1>1 DEF IsAccount
  <1> HIDE DEF acc
  <1>3. Touches({"units"}, st, Stage(st, a, acc))
    BY <1>2, StageTouches
  <1>4. /\ GetAccount(Stage(st, a, acc), a) = acc
        /\ \A c : c # a => GetAccount(Stage(st, a, acc), c) = GetAccount(st, c)
    BY GetStaged
  <1>5. SetAsset(st, a, id, n) = Stage(st, a, acc)
    BY DEF SetAsset, acc, m
  <1>6. acc.assets = Put(old.assets, id, n)
    BY <1>2 DEF m
  <1> QED
    BY <1>3, <1>4, <1>5, <1>6

(* an item added to a list,                                                *)
LEMMA PushNftTouches ==
    ASSUME NEW st, IsLedger(st), NEW a, NEW nft
    PROVE  LET t == PushNft(st, a, nft)
               old == GetAccount(st, a).nfts
           IN  /\ Touches({"items"}, st, t)
               /\ GetAccount(t, a).nfts = Put(old, nft, Lookup(old, nft, 0) + 1)
               /\ \A c : c # a => GetAccount(t, c).nfts = GetAccount(st, c).nfts
  <1> DEFINE old == GetAccount(st, a)
             m == Put(old.nfts, nft, Lookup(old.nfts, nft, 0) + 1)
             acc == [old EXCEPT !.nfts = m]
  <1>1. IsAccount(old)
    BY GetAccountType
  <1> HIDE DEF m
  <1>2. /\ acc.balance = old.balance /\ acc.nonce = old.nonce
        /\ acc.assets = old.assets /\ acc.nfts = m
    BY <1>1 DEF IsAccount
  <1> HIDE DEF acc
  <1>3. Touches({"items"}, st, Stage(st, a, acc))
    BY <1>2, StageTouches
  <1>4. /\ GetAccount(Stage(st, a, acc), a) = acc
        /\ \A c : c # a => GetAccount(Stage(st, a, acc), c) = GetAccount(st, c)
    BY GetStaged
  <1>5. PushNft(st, a, nft) = Stage(st, a, acc)
    BY DEF PushNft, acc, m
  <1>6. acc.nfts = Put(old.nfts, nft, Lookup(old.nfts, nft, 0) + 1)
    BY <1>2 DEF m
  <1> QED
    BY <1>3, <1>4, <1>5, <1>6

(* an item removed from one,                                               *)
LEMMA RemoveNftTouches ==
    ASSUME NEW st, IsLedger(st), NEW a, NEW nft
    PROVE  LET t == RemoveNft(st, a, nft)
           IN  /\ Touches({"items"}, st, t)
               /\ GetAccount(t, a).nfts = Drop(GetAccount(st, a).nfts, nft)
               /\ \A c : c # a => GetAccount(t, c).nfts = GetAccount(st, c).nfts
  <1> DEFINE old == GetAccount(st, a)
             m == Drop(old.nfts, nft)
             acc == [old EXCEPT !.nfts = m]
  <1>1. IsAccount(old)
    BY GetAccountType
  <1> HIDE DEF m
  <1>2. /\ acc.balance = old.balance /\ acc.nonce = old.nonce
        /\ acc.assets = old.assets /\ acc.nfts = m
    BY <1>1 DEF IsAccount
  <1> HIDE DEF acc
  <1>3. Touches({"items"}, st, Stage(st, a, acc))
    BY <1>2, StageTouches
  <1>4. /\ GetAccount(Stage(st, a, acc), a) = acc
        /\ \A c : c # a => GetAccount(Stage(st, a, acc), c) = GetAccount(st, c)
    BY GetStaged
  <1>5. RemoveNft(st, a, nft) = Stage(st, a, acc)
    BY DEF RemoveNft, acc, m
  <1>6. acc.nfts = Drop(old.nfts, nft)
    BY <1>2 DEF m
  <1> QED
    BY <1>3, <1>4, <1>5, <1>6

(* an allowance,                                                           *)
LEMMA DelegateSpendTouches ==
    ASSUME NEW st, IsLedger(st), NEW tx
    PROVE  Touches({"allowance"}, st, DelegateSpend(st, tx).st)
  <1> DEFINE old == GetAccount(st, tx.sender)
             m == Put(old.allowance, tx.data.delegate, tx.data.allowance)
             acc == [old EXCEPT !.allowance = m]
  <1>1. IsAccount(old)
    BY GetAccountType
  <1> HIDE DEF m
  <1>2. /\ acc.balance = old.balance /\ acc.nonce = old.nonce
        /\ acc.assets = old.assets /\ acc.nfts = old.nfts
    BY <1>1 DEF IsAccount
  <1> HIDE DEF acc
  <1>3. Touches({"allowance"}, st, Stage(st, tx.sender, acc))
    BY <1>2, StageTouches
  <1> QED
    BY <1>3 DEF DelegateSpend, Ok, acc, m

(* the nonce,                                                              *)
LEMMA IncrementNonceTouches ==
    ASSUME NEW st, IsLedger(st), NEW a
    PROVE  LET t == IncrementNonce(st, a)
           IN  /\ Touches({"nonce"}, st, t)
               /\ GetNonce(t, a) = GetNonce(st, a) + 1
               /\ \A c : c # a => GetNonce(t, c) = GetNonce(st, c)
  <1> DEFINE old == GetAccount(st, a)
             acc == [old EXCEPT !.nonce = @ + 1]
  <1>1. IsAccount(old)
    BY GetAccountType
  <1>2. /\ acc.balance = old.balance /\ acc.nonce = old.nonce + 1
        /\ acc.assets = old.assets /\ acc.nfts = old.nfts
    BY <1>1 DEF IsAccount
  <1> HIDE DEF acc
  <1>3. Touches({"nonce"}, st, Stage(st, a, acc))
    BY <1>2, StageTouches
  <1>4. /\ GetAccount(Stage(st, a, acc), a) = acc
        /\ \A c : c # a => GetAccount(Stage(st, a, acc), c) = GetAccount(st, c)
    BY GetStaged
  <1>5. IncrementNonce(st, a) = Stage(st, a, acc)
    BY DEF IncrementNonce, acc
  <1> QED
    BY <1>2, <1>3, <1>4, <1>5 DEF GetNonce

(* and the registries.                                                     *)
LEMMA RegistriesTouch ==
    ASSUME NEW st, IsLedger(st), NEW m
    PROVE  /\ Touches({"assets"}, st, [st EXCEPT !.assets = m])
           /\ [st EXCEPT !.assets = m].assets = m
           /\ Touches({"collections"}, st, [st EXCEPT !.collections = m])
           /\ [st EXCEPT !.collections = m].collections = m
           /\ Touches({"channels"}, st, [st EXCEPT !.channels = m])
           /\ [st EXCEPT !.channels = m].channels = m
  BY DEF Touches, IsLedger, GetAccount

(* The owner of an item is a registry's.                                   *)
LEMMA SetOwnerTouches ==
    ASSUME NEW st, IsLedger(st), NEW id \in DOMAIN st.collections,
           NEW item, NEW a
    PROVE  LET t == SetOwner(st, id, item, a)
           IN  /\ Touches({"collections"}, st, t)
               /\ DOMAIN t.collections = DOMAIN st.collections
               /\ \A c \in DOMAIN st.collections :
                     c # id => t.collections[c] = st.collections[c]
               /\ t.collections[id].issuer = st.collections[id].issuer
               /\ t.collections[id].owner
                     = Put(st.collections[id].owner, item, a)
  <1> DEFINE c == st.collections[id]
             o == Put(c.owner, item, a)
             d == [c EXCEPT !.owner = o]
             m == Put(st.collections, id, d)
  <1>1. IsCollection(c)
    BY DEF IsLedger
  <1> HIDE DEF o
  <1>2. d.issuer = c.issuer /\ d.owner = o
    BY <1>1 DEF IsCollection
  <1> HIDE DEF d
  <1>3. /\ DOMAIN m = DOMAIN st.collections /\ m[id] = d
        /\ \A k \in DOMAIN st.collections : k # id => m[k] = st.collections[k]
    BY DEF Put
  <1> HIDE DEF m
  <1>4. /\ Touches({"collections"}, st, [st EXCEPT !.collections = m])
        /\ [st EXCEPT !.collections = m].collections = m
    BY RegistriesTouch
  <1> QED
    BY <1>2, <1>3, <1>4 DEF SetOwner, m, d, o

(* So is whether a channel is closed.                                      *)
LEMMA MarkClosedTouches ==
    ASSUME NEW st, IsLedger(st), NEW id \in DOMAIN st.channels
    PROVE  LET t == MarkClosed(st, id)
           IN  /\ Touches({"channels"}, st, t)
               /\ t.channels =
                    Put(st.channels, id, [st.channels[id] EXCEPT !.is_closed = TRUE])
  BY RegistriesTouch DEF MarkClosed

-----------------------------------------------------------------------------
(* What each arm of apply_transaction touches. *)

(* The parts that transactions of a type may touch, whether they succeed   *)
(* or fail half-way.                                                       *)
PartsOf(type) ==
    CASE type \in {"NativeTransfer", "RegisterValidator"} -> {"balance"}
      [] type = "CreateAsset" -> {"units", "assets"}
      [] type = "TransferAsset" -> {"units"}
      [] type = "CreateCollection" -> {"collections"}
      [] type \in {"MintNFT", "TransferNFT"} -> {"items", "collections"}
      [] type \in {"OpenChannel", "CloseChannel"} -> {"balance", "channels"}
      [] OTHER -> {"allowance"}

(* A credit and a covered debit touch a balance.                           *)
LEMMA CreditTouches ==
    ASSUME NEW st, IsLedger(st), NEW a, NEW n
    PROVE  /\ Touches({"balance"}, st, Credit(st, a, n))
           /\ Touches({"balance"}, st, Debit(st, a, n))
  BY SetBalanceTouches DEF Credit, Debit

(* Native transfers and bonds touch balances only.                         *)
LEMMA TransferTouches ==
    ASSUME NEW st, IsLedger(st), NEW tx \in Transaction
    PROVE  /\ tx.data.type = "NativeTransfer"
                => Touches({"balance"}, st, TransferNative(st, tx).st)
           /\ tx.data.type = "RegisterValidator"
                => Touches({"balance"}, st, BondStake(st, tx).st)
  <1> DEFINE n == tx.data.amount
             paid == Debit(st, tx.sender, n)
  <1>1. /\ tx.sender \in Address /\ tx.receiver \in Address
        /\ tx.data \in TransactionData
    BY DEF Transaction
  <1>2. ASSUME tx.data.type = "NativeTransfer", CanPay(st, tx.sender, n)
        PROVE  Touches({"balance"}, st, Credit(paid, tx.receiver, n))
    <2>1. n \in U64
      BY <1>1, <1>2, DataType
    <2>2. IsLedger(paid) /\ Touches({"balance"}, st, paid)
      BY <1>1, <1>2, <2>1, DebitType, CreditTouches
    <2> QED
      BY <2>2, CreditTouches, TouchesTwice
  <1>3. tx.data.type = "NativeTransfer"
          => Touches({"balance"}, st, TransferNative(st, tx).st)
    BY <1>2, TouchesNothing DEF TransferNative, Ok, Err
  <1>4. Touches({"balance"}, st, BondStake(st, tx).st)
    BY CreditTouches, TouchesNothing DEF BondStake, Ok, Err
  <1> QED
    BY <1>3, <1>4

(* Issuing an asset touches units and the registry of assets.              *)
LEMMA IssueAssetTouches ==
    ASSUME NEW st, IsLedger(st), NEW tx \in Transaction,
           tx.data.type = "CreateAsset"
    PROVE  LET t == IssueAsset(st, tx)
               id == AssetIdOf(tx)
               old == GetAccount(st, tx.sender).assets
           IN  /\ Touches({"units", "assets"}, st, t)
               /\ t.assets = Put(st.assets, id, [issuer |-> tx.sender,
                                         total_supply |-> tx.data.supply])
               /\ GetAccount(t, tx.sender).assets = Put(old, id, tx.data.supply)
               /\ \A c : c # tx.sender
                    => GetAccount(t, c).assets = GetAccount(st, c).assets
  <1> DEFINE id == AssetIdOf(tx)
             old == GetAccount(st, tx.sender).assets
             paid == SetAsset(st, tx.sender, id, tx.data.supply)
             m == Put(st.assets, id, [issuer |-> tx.sender,
                                      total_supply |-> tx.data.supply])
             t == [paid EXCEPT !.assets = m]
  <1>1. tx.data.supply \in U64 /\ tx.sender \in Address /\ id \in AssetId
    BY DataType, AssetIdOfType DEF Transaction
  <1>2. IsLedger(paid)
    BY <1>1, SetAssetType
  <1>3. /\ Touches({"units"}, st, paid)
        /\ GetAccount(paid, tx.sender).assets = Put(old, id, tx.data.supply)
        /\ \A c : c # tx.sender
             => GetAccount(paid, c).assets = GetAccount(st, c).assets
    BY SetAssetTouches
  <1> HIDE DEF paid, m
  <1>4. Touches({"assets"}, paid, t) /\ t.assets = m
    BY <1>2, RegistriesTouch
  <1>5. Touches({"units", "assets"}, st, t)
    <2>1. Touches({"units", "assets"}, st, paid)
      BY <1>3, TouchesMore
    <2>2. Touches({"units", "assets"}, paid, t)
      BY <1>4, TouchesMore
    <2> QED
      BY <2>1, <2>2, TouchesTwice
  <1>6. \A c : GetAccount(t, c).assets = GetAccount(paid, c).assets
    BY <1>4 DEF Touches
  <1>7. IssueAsset(st, tx) = t
    BY DEF IssueAsset, paid, m
  <1> HIDE DEF t
  <1> QED
    BY <1>3, <1>4, <1>5, <1>6, <1>7 DEF m

(* Moving units of an asset touches units only.                            *)
LEMMA TransferAssetTouches ==
    ASSUME NEW st, IsLedger(st), NEW tx \in Transaction,
           tx.data.type = "TransferAsset"
    PROVE  Touches({"units"}, st, TransferAsset(st, tx).st)
  <1> DEFINE id == tx.data.id
             n == tx.data.amount
             left == AssetBalance(st, tx.sender, id) - n
             paid == SetAsset(st, tx.sender, id, left)
  <1>1. n \in U64 /\ tx.sender \in Address
    BY DataType DEF Transaction
  <1>2. ASSUME id \in DOMAIN st.assets, AssetBalance(st, tx.sender, id) >= n
        PROVE  Touches({"units"}, st, MoveAsset(st, tx.sender, tx.receiver, id, n))
    <2>1. id \in AssetId
      BY <1>2 DEF IsLedger, IsMap
    <2>2. left \in U64
      BY <1>1, <1>2, AssetBalanceInRange, SubType
    <2>3. IsLedger(paid) /\ Touches({"units"}, st, paid)
      BY <1>1, <2>1, <2>2, SetAssetType, SetAssetTouches
    <2> DEFINE sum == Add64(AssetBalance(paid, tx.receiver, id), n)
    <2> HIDE DEF paid
    <2>4. Touches({"units"}, paid, SetAsset(paid, tx.receiver, id, sum))
      BY <2>3, SetAssetTouches
    <2> QED
      BY <2>3, <2>4, TouchesTwice DEF MoveAsset, paid
  <1> QED
    BY <1>2, TouchesNothing DEF TransferAsset, Ok, Err

(* Items: minting and transferring touch lists and their registry.         *)
LEMMA ItemsTouch ==
    ASSUME NEW st, IsLedger(st), NEW tx \in Transaction
    PROVE  /\ tx.data.type = "MintNFT"
                => Touches({"items", "collections"}, st, MintNFT(st, tx).st)
           /\ tx.data.type = "TransferNFT"
                => Touches({"items", "collections"}, st, TransferNFT(st, tx).st)
  <1> DEFINE id == tx.data.id
             item == tx.data.item
             nft == <<id, item>>
             both == {"items", "collections"}
  <1>1. tx.sender \in Address /\ tx.receiver \in Address /\ tx.data \in TransactionData
    BY DEF Transaction
  <1>2. ASSUME NEW a \in Address, item \in Items, id \in DOMAIN st.collections
        PROVE  LET owned == SetOwner(st, id, item, a)
               IN  IsLedger(owned) /\ Touches(both, st, owned)
    BY <1>2, SetOwnerType, SetOwnerTouches, TouchesMore
  <1>3. ASSUME NEW s, IsLedger(s), NEW a
        PROVE  /\ Touches(both, s, PushNft(s, a, nft))
               /\ Touches(both, s, RemoveNft(s, a, nft))
    BY <1>3, PushNftTouches, RemoveNftTouches, TouchesMore
  <1>4. ASSUME tx.data.type = "MintNFT"
        PROVE  Touches(both, st, MintNFT(st, tx).st)
    <2> DEFINE to == tx.data.recipient
               owned == SetOwner(st, id, item, to)
    <2>1. item \in Items /\ to \in Address
      BY <1>1, <1>4, DataType
    <2>2. ASSUME id \in DOMAIN st.collections
          PROVE  Touches(both, st, PushNft(owned, to, nft))
      BY <1>2, <1>3, <2>1, <2>2, TouchesTwice
    <2> QED
      BY <2>2, TouchesNothing DEF MintNFT, Ok, Err
  <1>5. ASSUME tx.data.type = "TransferNFT"
        PROVE  Touches(both, st, TransferNFT(st, tx).st)
    <2> DEFINE owned == SetOwner(st, id, item, tx.receiver)
               left == RemoveNft(owned, tx.sender, nft)
    <2>1. item \in Items
      BY <1>1, <1>5, DataType
    <2>2. ASSUME id \in DOMAIN st.collections
          PROVE  /\ Touches(both, st, owned)
                 /\ Touches(both, st, PushNft(left, tx.receiver, nft))
      <3>1. IsLedger(owned) /\ Touches(both, st, owned)
        BY <1>1, <1>2, <2>1, <2>2
      <3> HIDE DEF owned
      <3>2. IsLedger(left) /\ Touches(both, owned, left)
        BY <1>1, <1>3, <3>1, RemoveNftType
      <3> HIDE DEF left
      <3>3. Touches(both, left, PushNft(left, tx.receiver, nft))
        BY <1>3, <3>2
      <3>4. Touches(both, st, left)
        BY <3>1, <3>2, TouchesTwice
      <3> QED
        BY <3>1, <3>3, <3>4, TouchesTwice
    <2> QED
      BY <2>2, TouchesNothing DEF TransferNFT, Ok, Err
  <1> QED
    BY <1>4, <1>5

(* Creating a collection touches the registry of collections.              *)
LEMMA CreateCollectionTouches ==
    ASSUME NEW st, IsLedger(st), NEW tx
    PROVE  Touches({"collections"}, st, CreateCollection(st, tx).st)
  BY RegistriesTouch, TouchesNothing DEF CreateCollection, Ok, Err

(* Channels: opening and closing touch balances and the channels.          *)
LEMMA ChannelsTouch ==
    ASSUME NEW st, IsLedger(st), NEW tx \in Transaction
    PROVE  /\ tx.data.type = "OpenChannel"
                => Touches({"balance", "channels"}, st, OpenChannel(st, tx).st)
           /\ tx.data.type = "CloseChannel"
                => Touches({"balance", "channels"}, st, CloseChannel(st, tx).st)
  <1> DEFINE both == {"balance", "channels"}
  <1>1. tx.sender \in Address /\ tx.data \in TransactionData
    BY DEF Transaction
  <1>2. ASSUME NEW s, IsLedger(s), NEW a, NEW n
        PROVE  Touches(both, s, Credit(s, a, n)) /\ Touches(both, s, Debit(s, a, n))
    BY <1>2, CreditTouches, TouchesMore
  <1>3. ASSUME tx.data.type = "OpenChannel"
        PROVE  Touches(both, st, OpenChannel(st, tx).st)
    <2> DEFINE n == tx.data.amount
               paid == Debit(st, tx.sender, n)
    <2>1. n \in U64
      BY <1>1, <1>3, DataType
    <2>2. ASSUME CanPay(st, tx.sender, n), NEW m
          PROVE  /\ Touches(both, st, paid)
                 /\ Touches(both, st, [paid EXCEPT !.channels = m])
      <3>1. IsLedger(paid) /\ Touches(both, st, paid)
        BY <1>1, <1>2, <2>1, <2>2, DebitType
      <3> HIDE DEF paid
      <3>2. Touches(both, paid, [paid EXCEPT !.channels = m])
        BY <3>1, RegistriesTouch, TouchesMore
      <3> QED
        BY <3>1, <3>2, TouchesTwice
    <2> QED
      BY <2>2, TouchesNothing DEF OpenChannel, Ok, Err
  <1>4. ASSUME tx.data.type = "CloseChannel"
        PROVE  Touches(both, st, CloseChannel(st, tx).st)
    <2> DEFINE id == tx.data.id
               c == st.channels[id]
               a == tx.data.final_balance_a
               b == tx.data.final_balance_b
               closed == MarkClosed(st, id)
    <2>1. a \in Int /\ b \in Int
      BY <1>1, <1>4, DataType, U64Int
    <2>2. ASSUME id \in DOMAIN st.channels
          PROVE  /\ Touches(both, st, closed)
                 /\ Touches(both, st, PayOut(closed, c, a, b))
      <3>1. IsLedger(closed) /\ Touches(both, st, closed)
        BY <2>2, MarkClosedType, MarkClosedTouches, TouchesMore
      <3>2. c.partner_a \in Address /\ c.partner_b \in Address
        BY <2>2 DEF IsLedger, IsMap, Channel
      <3> DEFINE one == Credit(closed, c.partner_a, a)
      <3> HIDE DEF closed
      <3>3. IsLedger(one) /\ Touches(both, closed, one)
        BY <1>2, <2>1, <3>1, <3>2, CreditType
      <3>4. Touches(both, one, Credit(one, c.partner_b, b))
        BY <1>2, <3>3
      <3>5. Touches(both, st, Credit(one, c.partner_b, b))
        BY <3>1, <3>3, <3>4, TouchesTwice
      <3> QED
        BY <3>1, <3>5 DEF PayOut
    <2> QED
      BY <2>2, TouchesNothing DEF CloseChannel, Ok, Err
  <1> QED
    BY <1>3, <1>4

(* Every transaction touches the parts of its type only, also when it      *)
(* fails.                                                                  *)
THEOREM DispatchTouches ==
    ASSUME NEW st, IsLedger(st), NEW tx \in Transaction
    PROVE  Touches(PartsOf(tx.data.type), st, Dispatch(st, tx).st)
  <1> DEFINE type == tx.data.type
  <1>1. tx.data \in TransactionData
    BY DEF Transaction
  <1>2. CASE type = "NativeTransfer"
    BY <1>2, TransferTouches DEF Dispatch, PartsOf
  <1>3. CASE type = "CreateAsset"
    <2>1. CreateAsset(st, tx).st = st \/ CreateAsset(st, tx).st = IssueAsset(st, tx)
      BY DEF CreateAsset, Ok, Err
    <2>2. Touches({"units", "assets"}, st, CreateAsset(st, tx).st)
      BY <1>3, <2>1, IssueAssetTouches, TouchesNothing
    <2> QED
      BY <1>3, <2>2 DEF Dispatch, PartsOf
  <1>4. CASE type = "TransferAsset"
    BY <1>4, TransferAssetTouches DEF Dispatch, PartsOf
  <1>5. CASE type = "CreateCollection"
    BY <1>5, CreateCollectionTouches DEF Dispatch, PartsOf
  <1>6. CASE type = "MintNFT"
    BY <1>6, ItemsTouch DEF Dispatch, PartsOf
  <1>7. CASE type = "TransferNFT"
    BY <1>7, ItemsTouch DEF Dispatch, PartsOf
  <1>8. CASE type = "OpenChannel"
    BY <1>8, ChannelsTouch DEF Dispatch, PartsOf
  <1>9. CASE type = "CloseChannel"
    BY <1>9, ChannelsTouch DEF Dispatch, PartsOf
  <1>10. CASE type = "DelegateSpend"
    BY <1>10, DelegateSpendTouches DEF Dispatch, PartsOf
  <1>11. CASE type = "RegisterValidator"
    BY <1>11, TransferTouches DEF Dispatch, PartsOf
  <1>12. CASE type = "UnregisterValidator"
    BY <1>12, TouchesNothing DEF Dispatch, PartsOf, UnbondCheck, Ok, Err
  <1> QED
    BY <1>1, <1>2, <1>3, <1>4, <1>5, <1>6, <1>7, <1>8, <1>9, <1>10, <1>11,
       <1>12, DataType

(* What process_transaction leaves behind: the ledger as it was, or as the *)
(* arm of its type left it, and in the case of success with the sender's   *)
(* nonce, which was the transaction's, counted up.                         *)
LEMMA ProcessTransactionSteps ==
    ASSUME NEW st, IsLedger(st), NEW tx \in Transaction
    PROVE  LET out == ProcessTransaction(st, tx)
               arm == Dispatch(st, tx)
           IN  /\ out.ok =>
                     /\ arm.ok /\ Validate(tx)
                     /\ tx.nonce = GetNonce(st, tx.sender)
                     /\ out.st = IncrementNonce(arm.st, tx.sender)
               /\ ~out.ok => out.st = st \/ (~arm.ok /\ out.st = arm.st)
  <1>1. IsOutcome(Dispatch(st, tx))
    BY DispatchType
  <1> QED
    BY <1>1 DEF ProcessTransaction, ApplyTransaction, NonceMatches, Ok, Err,
       IsOutcome

(* Whether it succeeds or fails, stored accounts stay as they are, and so  *)
(* does what its type does not touch, except the nonce.                    *)
LEMMA ProcessTransactionTouches ==
    ASSUME NEW st, IsLedger(st), NEW tx \in Transaction
    PROVE  Touches(PartsOf(tx.data.type) \cup {"nonce"}, st,
                   ProcessTransaction(st, tx).st)
  <1> DEFINE parts == PartsOf(tx.data.type)
             arm == Dispatch(st, tx)
  <1>1. IsLedger(arm.st) /\ Touches(parts \cup {"nonce"}, st, arm.st)
    BY DispatchType, DispatchTouches, TouchesMore DEF IsOutcome
  <1>2. Touches(parts \cup {"nonce"}, arm.st, IncrementNonce(arm.st, tx.sender))
    BY <1>1, IncrementNonceTouches, TouchesMore
  <1>3. Touches(parts \cup {"nonce"}, st, IncrementNonce(arm.st, tx.sender))
    BY <1>1, <1>2, TouchesTwice
  <1>4. ProcessTransaction(st, tx).st
          \in {st, arm.st, IncrementNonce(arm.st, tx.sender)}
    BY ProcessTransactionSteps
  <1> QED
    BY <1>1, <1>3, <1>4, TouchesNothing

(* A transaction that executes carries its sender's nonce and counts it    *)
(* up by one, and no other.                                                *)
LEMMA ExecutedNonces ==
    ASSUME NEW st, IsLedger(st), NEW tx \in Transaction,
           ProcessTransaction(st, tx).ok
    PROVE  LET t == ProcessTransaction(st, tx).st
           IN  /\ tx.nonce = GetNonce(st, tx.sender)
               /\ GetNonce(t, tx.sender) = GetNonce(st, tx.sender) + 1
               /\ \A c : c # tx.sender => GetNonce(t, c) = GetNonce(st, c)
  <1> DEFINE arm == Dispatch(st, tx)
  <1>1. IsLedger(arm.st) /\ Touches(PartsOf(tx.data.type), st, arm.st)
    BY DispatchType, DispatchTouches DEF IsOutcome
  <1>2. "nonce" \notin PartsOf(tx.data.type)
    BY DEF PartsOf
  <1>3. \A c : GetNonce(arm.st, c) = GetNonce(st, c)
    BY <1>1, <1>2 DEF Touches, GetNonce
  <1>4. ProcessTransaction(st, tx).st = IncrementNonce(arm.st, tx.sender)
        /\ tx.nonce = GetNonce(st, tx.sender)
    BY ProcessTransactionSteps
  <1> QED
    BY <1>1, <1>3, <1>4, IncrementNonceTouches

-----------------------------------------------------------------------------
(* Arithmetic modulo the width of u64. *)

Congruent(x, y) == \E k \in Int : x = y + k * U64Mod

(* Division with remainder.                                                *)
LEMMA Remainder ==
    ASSUME NEW x \in Int
    PROVE  /\ x = U64Mod * (x \div U64Mod) + (x % U64Mod)
           /\ x \div U64Mod \in Int
           /\ (x % U64Mod) \in 0 .. U64Mod - 1
  <1>1. U64Mod \in Nat \ {0}
    BY LedgerAssumption
  <1> HIDE DEF U64
  <1>2. x \div U64Mod \in Int /\ (x % U64Mod) \in 0 .. U64Mod - 1
    BY <1>1
  <1> QED
    BY <1>1, <1>2, SMTT(60)

(* Numbers with equal remainders, a multiple of the width apart.           *)
LEMMA RemainderUnique ==
    ASSUME NEW q \in Int, NEW p \in Int,
           NEW r \in 0 .. U64Mod - 1, NEW s \in 0 .. U64Mod - 1,
           U64Mod * q + r = U64Mod * p + s
    PROVE  r = s
  <1>1. U64Mod \in Nat \ {0}
    BY LedgerAssumption
  <1>2. U64Mod * (q - p) = s - r
    BY <1>1
  <1>3. q - p = 0 \/ q - p >= 1 \/ q - p <= -1
    OBVIOUS
  <1>4. q - p >= 1 => U64Mod * (q - p) >= U64Mod
    BY <1>1
  <1>5. q - p <= -1 => U64Mod * (q - p) <= -U64Mod
    BY <1>1
  <1> QED
    BY <1>1, <1>2, <1>3, <1>4, <1>5

(* Congruent numbers have equal remainders.                                *)
LEMMA CongruentRemainders ==
    ASSUME NEW x \in Int, NEW y \in Int, Congruent(x, y)
    PROVE  x % U64Mod = y % U64Mod
  <1>1. PICK k \in Int : x = y + k * U64Mod
    BY DEF Congruent
  <1> DEFINE r == x % U64Mod
             s == y % U64Mod
             q == x \div U64Mod
             p == y \div U64Mod
  <1>2. /\ x = U64Mod * q + r /\ q \in Int /\ r \in 0 .. U64Mod - 1
        /\ y = U64Mod * p + s /\ p \in Int /\ s \in 0 .. U64Mod - 1
    BY Remainder
  <1> HIDE DEF r, s, q, p
  <1>3. U64Mod \in Int /\ r \in Int /\ s \in Int
    BY <1>2, LedgerAssumption
  <1>4. U64Mod * q + r = U64Mod * (p + k) + s
    BY <1>1, <1>2, <1>3
  <1>5. r = s
    BY <1>2, <1>4, RemainderUnique
  <1> QED
    BY <1>5 DEF r, s

(* Congruence is an equivalence, compatible with addition.                 *)
LEMMA CongruentRules ==
    ASSUME NEW x \in Int, NEW y \in Int, NEW z \in Int
    PROVE  /\ Congruent(x, x)
           /\ Congruent(x, y) => Congruent(y, x)
           /\ Congruent(x, y) /\ Congruent(y, z) => Congruent(x, z)
           /\ Congruent(x, y) => Congruent(x + z, y + z)
           /\ Congruent(x, y) => Congruent(x - z, y - z)
           /\ Congruent(x, y) => Congruent(x - y, 0)
  <1>1. U64Mod \in Int
    BY LedgerAssumption
  <1>2. Congruent(x, x)
    <2>1. x = x + 0 * U64Mod
      BY <1>1
    <2> QED
      BY <2>1 DEF Congruent
  <1>3. ASSUME Congruent(x, y)
        PROVE  /\ Congruent(y, x) /\ Congruent(x - y, 0)
               /\ Congruent(x + z, y + z) /\ Congruent(x - z, y - z)
    <2>1. PICK k \in Int : x = y + k * U64Mod
      BY <1>3 DEF Congruent
    <2>2. /\ y = x + (-k) * U64Mod /\ x - y = 0 + k * U64Mod
          /\ x + z = (y + z) + k * U64Mod /\ x - z = (y - z) + k * U64Mod
      BY <1>1, <2>1
    <2>3. -k \in Int
      OBVIOUS
    <2> QED
      BY <2>2, <2>3 DEF Congruent
  <1>4. ASSUME Congruent(x, y), Congruent(y, z) PROVE Congruent(x, z)
    <2>1. PICK k \in Int : x = y + k * U64Mod
      BY <1>4 DEF Congruent
    <2>2. PICK n \in Int : y = z + n * U64Mod
      BY <1>4 DEF Congruent
    <2>3. x = z + (k + n) * U64Mod /\ k + n \in Int
      BY <1>1, <2>1, <2>2
    <2> QED
      BY <2>3 DEF Congruent
  <1> QED
    BY <1>2, <1>3, <1>4

(* Wrapping addition is addition up to congruence, never yields more, and  *)
(* is addition where the sum fits.                                         *)
LEMMA Add64Rules ==
    ASSUME NEW x \in Nat, NEW y \in Nat
    PROVE  /\ Congruent(Add64(x, y), x + y)
           /\ Add64(x, y) \in U64 /\ Add64(x, y) <= x + y
           /\ x + y < U64Mod => Add64(x, y) = x + y
  <1> DEFINE s == x + y
             q == s \div U64Mod
             r == s % U64Mod
  <1>1. U64Mod \in Nat \ {0} /\ s \in Nat
    BY LedgerAssumption
  <1>2. s = U64Mod * q + r /\ q \in Int /\ r \in 0 .. U64Mod - 1
    <2> HIDE DEF s
    <2>1. s \in Int
      BY <1>1
    <2> QED
      BY <2>1, Remainder
  <1>3. Add64(x, y) = r
    BY DEF Add64
  <1> HIDE DEF s, q, r
  <1>4. r = s + (-q) * U64Mod /\ -q \in Int
    BY <1>1, <1>2
  <1>5. q >= 0
    <2>1. q <= -1 => U64Mod * q <= -U64Mod
      BY <1>1, <1>2
    <2> QED
      BY <1>1, <1>2, <2>1
  <1>6. U64Mod * q >= 0 /\ (q >= 1 => U64Mod * q >= U64Mod) /\ U64Mod * 0 = 0
    BY <1>1, <1>2, <1>5
  <1>7. r <= s /\ (s < U64Mod => r = s)
    <2>1. U64Mod * q \in Int
      BY <1>1, <1>2
    <2>2. s < U64Mod => q = 0
      BY <1>1, <1>2, <1>5, <1>6, <2>1
    <2> QED
      BY <1>1, <1>2, <1>6, <2>1, <2>2
  <1> QED
    BY <1>2, <1>3, <1>4, <1>7 DEF Congruent, U64, s

-----------------------------------------------------------------------------
(* The coins in accounts. *)

(* An address is a key or the empty vector: there are finitely many.       *)
LEMMA AddressFinite == IsFiniteSet(Address)
  BY LedgerAssumption, FS_AddElement DEF Address

Balances(st) == [a \in Address |-> GetBalance(st, a)]
Coins(st) == SumFunctionOnSet(Balances(st), Address)

(* Balances are natural numbers, and so is their sum.                      *)
LEMMA CoinsType ==
    ASSUME NEW st, IsLedger(st)
    PROVE  /\ Coins(st) \in Nat
           /\ \A a \in Address : Balances(st)[a] \in Nat
           /\ \A a \in Address : Balances(st)[a] = GetBalance(st, a)
  <1>1. \A a \in Address : Balances(st)[a] \in Nat
    BY BalanceInRange DEF Balances, U64
  <1> QED
    BY <1>1, AddressFinite, SumNat DEF Coins, Balances

(* What leaves every balance alone leaves their sum alone.                 *)
LEMMA CoinsKept ==
    ASSUME NEW s, NEW t, \A a \in Address : GetBalance(t, a) = GetBalance(s, a)
    PROVE  Coins(t) = Coins(s)
  BY DEF Coins, Balances

(* In particular what does not touch balances.                             *)
LEMMA CoinsUntouched ==
    ASSUME NEW s, NEW t, NEW parts, Touches(parts, s, t), "balance" \notin parts
    PROVE  Coins(t) = Coins(s)
  BY CoinsKept DEF Touches, GetBalance

(* Setting a balance changes the sum by the difference.                    *)
LEMMA SetBalanceCoins ==
    ASSUME NEW st, IsLedger(st), NEW a \in Address, NEW b \in U64
    PROVE  Coins(SetBalance(st, a, b)) = Coins(st) - GetBalance(st, a) + b
  <1> DEFINE t == SetBalance(st, a, b)
  <1>1. /\ GetBalance(t, a) = b
        /\ \A c : c # a => GetBalance(t, c) = GetBalance(st, c)
    BY SetBalanceTouches
  <1> HIDE DEF t
  <1>2. /\ Balances(t)[a] = b /\ b \in Int
        /\ \A c \in Address \ {a} : Balances(st)[c] = Balances(t)[c]
    BY <1>1 DEF Balances, U64
  <1>3. \A c \in Address : Balances(st)[c] \in Int
    BY CoinsType
  <1>4. SumFunctionOnSet(Balances(t), Address)
          = SumFunctionOnSet(Balances(st), Address) - Balances(st)[a] + Balances(t)[a]
    BY <1>2, <1>3, AddressFinite, SumChange
  <1>5. Balances(st)[a] = GetBalance(st, a)
    BY DEF Balances
  <1> QED
    BY <1>2, <1>4, <1>5 DEF Coins, t

(* A credit adds to the sum, up to a wrap, which only takes away.          *)
LEMMA CreditCoins ==
    ASSUME NEW st, IsLedger(st), NEW a \in Address, NEW n \in Nat
    PROVE  /\ Congruent(Coins(Credit(st, a, n)), Coins(st) + n)
           /\ Coins(Credit(st, a, n)) <= Coins(st) + n
           /\ Coins(Credit(st, a, n)) \in Nat
  <1> DEFINE old == GetBalance(st, a)
             new == Add64(old, n)
  <1>1. old \in Nat /\ Coins(st) \in Nat
    BY BalanceInRange, CoinsType DEF U64
  <1>2. Congruent(new, old + n) /\ new \in U64 /\ new <= old + n /\ new \in Nat
    <2> HIDE DEF old
    <2>1. Congruent(new, old + n) /\ new \in U64 /\ new <= old + n
      BY <1>1, Add64Rules
    <2> HIDE DEF new
    <2> QED
      BY <2>1 DEF U64
  <1>3. Coins(Credit(st, a, n)) = Coins(st) - old + new
    BY <1>2, SetBalanceCoins DEF Credit
  <1>4. IsLedger(Credit(st, a, n))
    BY CreditType
  <1>5. Coins(Credit(st, a, n)) \in Nat
    BY <1>4, CoinsType
  <1> HIDE DEF old, new
  <1>6. Congruent(new + (Coins(st) - old), (old + n) + (Coins(st) - old))
    <2>1. new \in Int /\ old + n \in Int /\ Coins(st) - old \in Int
      BY <1>1, <1>2
    <2>2. PICK y \in Int, z \in Int : y = old + n /\ z = Coins(st) - old
      BY <2>1
    <2>3. PICK w \in Int : w = new
      BY <2>1
    <2>4. Congruent(w, y)
      BY <1>2, <2>2, <2>3
    <2>5. Congruent(w + z, y + z)
      BY <2>4, CongruentRules
    <2> QED
      BY <2>2, <2>3, <2>5
  <1>7. /\ new + (Coins(st) - old) = Coins(st) - old + new
        /\ (old + n) + (Coins(st) - old) = Coins(st) + n
    BY <1>1, <1>2
  <1> QED
    BY <1>1, <1>2, <1>3, <1>5, <1>6, <1>7

(* A covered debit takes from it.                                          *)
LEMMA DebitCoins ==
    ASSUME NEW st, IsLedger(st), NEW a \in Address, NEW n \in U64,
           CanPay(st, a, n)
    PROVE  Coins(Debit(st, a, n)) = Coins(st) - n
  <1>1. GetBalance(st, a) \in U64 /\ GetBalance(st, a) - n \in U64
    BY BalanceInRange, SubType DEF CanPay
  <1>2. Coins(Debit(st, a, n))
          = Coins(st) - GetBalance(st, a) + (GetBalance(st, a) - n)
    BY <1>1, SetBalanceCoins DEF Debit
  <1>3. Coins(st) \in Int /\ GetBalance(st, a) \in Int /\ n \in Int
    BY <1>1, CoinsType, U64Int
  <1> QED
    BY <1>2, <1>3

(* A native transfer moves coins: none are lost but by a wrap.             *)
LEMMA TransferNativeCoins ==
    ASSUME NEW st, IsLedger(st), NEW tx \in Transaction,
           tx.data.type = "NativeTransfer"
    PROVE  /\ Congruent(Coins(TransferNative(st, tx).st), Coins(st))
           /\ Coins(TransferNative(st, tx).st) <= Coins(st)
  <1> DEFINE n == tx.data.amount
             paid == Debit(st, tx.sender, n)
  <1>1. n \in U64 /\ n \in Nat /\ tx.sender \in Address /\ tx.receiver \in Address
    BY DataType DEF Transaction, U64
  <1>2. Coins(st) \in Nat
    BY CoinsType
  <1>3. CASE tx.sender # tx.receiver /\ CanPay(st, tx.sender, n)
    <2>1. IsLedger(paid) /\ Coins(paid) = Coins(st) - n
      BY <1>1, <1>3, DebitType, DebitCoins
    <2> HIDE DEF paid, n
    <2>2. Coins(paid) + n = Coins(st)
      BY <1>1, <1>2, <2>1
    <2>3. /\ Congruent(Coins(Credit(paid, tx.receiver, n)), Coins(st))
          /\ Coins(Credit(paid, tx.receiver, n)) <= Coins(st)
      BY <1>1, <2>1, <2>2, CreditCoins
    <2> QED
      BY <1>3, <2>3 DEF TransferNative, Ok, paid, n
  <1>4. CASE ~(tx.sender # tx.receiver /\ CanPay(st, tx.sender, n))
    <2>1. TransferNative(st, tx).st = st
      BY <1>4 DEF TransferNative, Err
    <2> QED
      BY <1>2, <2>1, CongruentRules
  <1> QED
    BY <1>3, <1>4

-----------------------------------------------------------------------------
(* Nonces without gaps. *)

(* The set mine holds k transactions, with the k nonces from next on.      *)
Contiguous(mine, next, k) ==
    /\ \A tx \in mine : tx.nonce \in next .. next + k - 1
    /\ \A n \in next .. next + k - 1 : \E tx \in mine : tx.nonce = n
    /\ \A tx, ty \in mine : tx.nonce = ty.nonce => tx = ty

(* The k nonces count the transactions.                                    *)
LEMMA ContiguousSize ==
    ASSUME NEW mine, NEW next \in Nat, NEW k \in Nat, Contiguous(mine, next, k)
    PROVE  /\ Cardinality(mine) = k
           /\ {tx.nonce : tx \in mine} = next .. next + k - 1
  <1> DEFINE f == [tx \in mine |-> tx.nonce]
  <1>1. f \in Bijection(mine, next .. next + k - 1)
    <2>1. f \in [mine -> next .. next + k - 1]
      BY DEF Contiguous
    <2>2. IsInjective(f)
      BY DEF Contiguous, IsInjective
    <2>3. \A n \in next .. next + k - 1 : \E tx \in mine : f[tx] = n
      BY DEF Contiguous
    <2> QED
      BY <2>1, <2>2, <2>3 DEF Bijection, Injection, Surjection
  <1>3. /\ IsFiniteSet(next .. next + k - 1)
        /\ Cardinality(next .. next + k - 1) = k
    <2>1. PICK last \in Int : last = next + k - 1
      OBVIOUS
    <2>2. Cardinality(next .. last) = IF next > last THEN 0 ELSE last - next + 1
      BY FS_Interval
    <2>3. IsFiniteSet(next .. last)
      BY FS_Interval
    <2> QED
      BY <2>1, <2>2, <2>3
  <1>4. Cardinality(mine) = k
    <2>1. f \in Injection(mine, next .. next + k - 1)
          /\ f \in Surjection(mine, next .. next + k - 1)
      BY <1>1 DEF Bijection
    <2> HIDE DEF f
    <2> QED
      BY <1>3, <2>1, FS_Injection
  <1> QED
    BY <1>4 DEF Contiguous

(* The next nonce goes to a transaction that is new.                       *)
LEMMA ContiguousAdd ==
    ASSUME NEW mine, NEW next \in Nat, NEW k \in Nat, Contiguous(mine, next, k),
           NEW tx, tx.nonce = next + k
    PROVE  tx \notin mine /\ Contiguous(mine \cup {tx}, next, k + 1)
  <1>1. next .. next + (k + 1) - 1 = (next .. next + k - 1) \cup {next + k}
    OBVIOUS
  <1>2. next + k \notin next .. next + k - 1
    OBVIOUS
  <1>3. \A x \in mine : x.nonce \in next .. next + k - 1
    BY DEF Contiguous
  <1>4. \A n \in next .. next + k - 1 : \E x \in mine : x.nonce = n
    BY DEF Contiguous
  <1>5. \A x, y \in mine : x.nonce = y.nonce => x = y
    BY DEF Contiguous
  <1>6. \A x, y \in mine \cup {tx} : x.nonce = y.nonce => x = y
    BY <1>2, <1>3, <1>5
  <1>7. \A x \in mine \cup {tx} : x.nonce \in next .. next + (k + 1) - 1
    BY <1>1, <1>3
  <1>8. \A n \in next .. next + (k + 1) - 1 : \E x \in mine \cup {tx} : x.nonce = n
    BY <1>1, <1>4
  <1>9. tx \notin mine
    BY <1>2, <1>3
  <1> QED
    BY <1>6, <1>7, <1>8, <1>9 DEF Contiguous
=============================================================================
