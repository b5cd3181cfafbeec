----------------------------- MODULE Collections -----------------------------
(***************************************************************************)
(* Sums over finite sets, and parts of lists: what the proofs about        *)
(* quotas, directories and the choice of a machine need to know.           *)
(***************************************************************************)
EXTENDS Naturals, Directories, FiniteSetsExt, SequencesExt, FiniteSetTheorems,
        WellFoundedInduction, TLAPS

-------------------------------------------------------------------------------
(***************************************************************************)
(* Least elements, and induction.                                          *)
(***************************************************************************)
\* A set of numbers has a least one.
LEMMA HasLeast ==
    ASSUME NEW S, S \subseteq Nat, S # {}
    PROVE  \E a \in S : \A b \in S : a <= b
<1>1. PICK a \in S : \A b \in S : ~(<<b, a>> \in OpToRel(<, Nat))
  BY WFMin, NatLessThanWellFounded
<1>2. ASSUME NEW b \in S  PROVE ~(b < a)
  BY <1>1 DEF OpToRel
<1> QED BY <1>2

\* Induction over the numbers, and over the subsets of a finite set.
LEMMA Upwards ==
    ASSUME NEW Q, 0 \in Q, \A n \in Nat : n \in Q => n + 1 \in Q
    PROVE  \A n \in Nat : n \in Q
<1> SUFFICES ASSUME Nat \ Q # {} PROVE FALSE  OBVIOUS
<1>1. PICK n \in Nat \ Q : \A m \in Nat \ Q : n <= m  BY HasLeast
<1>2. n # 0 /\ n - 1 \in Nat  BY <1>1
<1>3. n - 1 \in Q  BY <1>1, <1>2
<1> QED  BY <1>1, <1>2, <1>3

LEMMA Growing ==
    ASSUME NEW S, IsFiniteSet(S), NEW Q, {} \in Q,
           \A T \in SUBSET S : \A x \in S \ T : T \in Q => T \cup {x} \in Q
    PROVE  S \in Q
<1> DEFINE N == {n \in Nat : \A T \in SUBSET S : Cardinality(T) = n => T \in Q}
<1>1. 0 \in N
  BY FS_EmptySet, FS_Subset
<1>2. ASSUME NEW n \in Nat, n \in N PROVE n + 1 \in N
  <2> SUFFICES ASSUME NEW T \in SUBSET S, Cardinality(T) = n + 1 PROVE T \in Q
    OBVIOUS
  <2>1. IsFiniteSet(T)  BY FS_Subset
  <2>2. T # {}
    <3>1. n + 1 # 0  OBVIOUS
    <3> QED  BY <3>1, FS_EmptySet
  <2>3. PICK x \in T : TRUE  BY <2>2
  <2>4. Cardinality(T \ {x}) = Cardinality(T) - 1  BY <2>1, <2>3, FS_RemoveElement
  <2>5. T \ {x} \in Q
    <3>1. (n + 1) - 1 = n  OBVIOUS
    <3> QED  BY <1>2, <2>4, <3>1
  <2>6. (T \ {x}) \cup {x} \in Q  BY <2>3, <2>5
  <2> QED  BY <2>3, <2>6
<1> HIDE DEF N
<1>3. \A n \in Nat : n \in N  BY <1>1, <1>2, Upwards
<1>4. Cardinality(S) \in N  BY <1>3, FS_CardinalityType
<1> QED  BY <1>4 DEF N

\* What a function makes of a finite set is finite.
LEMMA ImageIsFinite ==
    ASSUME NEW S, IsFiniteSet(S), NEW f
    PROVE  IsFiniteSet({f[x] : x \in S})
<1> DEFINE g == [x \in S |-> f[x]]
           T == {f[x] : x \in S}
<1>1. g \in Surjection(S, T)
  BY DEF Surjection
<1>2. QED
  BY <1>1, FS_Surjection

-------------------------------------------------------------------------------
(***************************************************************************)
(* Sums.  MapThenSumSet adds the elements in an order CHOOSE picks.  The   *)
(* lemmas say what does not depend on it: a sum splits off any element,    *)
(* grows with its set and its terms, and agrees where its terms do.        *)
(***************************************************************************)
\* What the sum adds first, and the equation of the function that adds the rest.
Pick(s) == CHOOSE x \in s : TRUE
Term(w, s, F) == IF s = {} THEN 0 ELSE w[Pick(s)] + F[s \ {Pick(s)}]
Adds(w, S, F) == F = [s \in SUBSET S |-> Term(w, s, F)]

LEMMA SumIs ==
    ASSUME NEW w, NEW S
    PROVE  SumOf(w, S) = (CHOOSE F : Adds(w, S, F))[S]
BY DEF SumOf, MapThenSumSet, MapThenFoldSet, Adds, Term, Pick

LEMMA SomethingAdds ==
    ASSUME NEW w, NEW S, IsFiniteSet(S)
    PROVE  \E F : Adds(w, S, F)
<1> DEFINE Small(n) == {s \in SUBSET S : Cardinality(s) <= n}
           Good(n) == \E F : \A s \in Small(n) : F[s] = Term(w, s, F)
           Q == {n \in Nat : Good(n)}
<1>0. \A s \in SUBSET S : IsFiniteSet(s) /\ Cardinality(s) \in Nat  BY FS_Subset, FS_CardinalityType
<1>1. 0 \in Q
  <2>1. \A s \in Small(0) : s = {}  BY <1>0, FS_EmptySet
  <2> DEFINE F == [s \in SUBSET S |-> 0]
  <2>2. \A s \in Small(0) : F[s] = Term(w, s, F)  BY <2>1 DEF Term
  <2>3. Good(0)  BY <2>2
  <2> QED  BY <2>3
<1>2. ASSUME NEW n \in Nat, n \in Q PROVE n + 1 \in Q
  <2>1. PICK F : \A s \in Small(n) : F[s] = Term(w, s, F)  BY <1>2
  <2> DEFINE G == [s \in SUBSET S |-> IF s \in Small(n) THEN F[s] ELSE Term(w, s, F)]
  <2>2. ASSUME NEW s \in Small(n + 1) PROVE G[s] = Term(w, s, G)
    <3>1. CASE s = {}  BY <2>1, <3>1 DEF Term
    <3>2. CASE s # {}
      <4>1. Pick(s) \in s  BY <3>2 DEF Pick
      <4>2. s \ {Pick(s)} \in SUBSET S  OBVIOUS
      <4>3. Cardinality(s \ {Pick(s)}) = Cardinality(s) - 1  BY <1>0, <4>1, FS_RemoveElement
      <4>4. s \ {Pick(s)} \in Small(n)  BY <1>0, <4>2, <4>3
      <4>5. G[s \ {Pick(s)}] = F[s \ {Pick(s)}]  BY <4>4
      <4>6. Term(w, s, G) = Term(w, s, F)  BY <3>2, <4>5 DEF Term
      <4>7. G[s] = Term(w, s, F)  BY <2>1
      <4> QED  BY <4>6, <4>7
    <3> QED  BY <3>1, <3>2
  <2>3. Good(n + 1)  BY <2>2
  <2> QED  BY <2>3
<1> HIDE DEF Good
<1>3. \A n \in Nat : n \in Q  BY <1>1, <1>2, Upwards
<1>4. Good(Cardinality(S))  BY <1>0, <1>3
<1>5. PICK F : \A s \in Small(Cardinality(S)) : F[s] = Term(w, s, F)  BY <1>4 DEF Good
<1>6. \A s \in SUBSET S : s \in Small(Cardinality(S))  BY <1>0, FS_Subset
<1> DEFINE G == [s \in SUBSET S |-> F[s]]
<1>7. \A s \in SUBSET S : Term(w, s, G) = Term(w, s, F)  BY DEF Term
<1>8. Adds(w, S, G)  BY <1>5, <1>6, <1>7 DEF Adds
<1> QED  BY <1>8

\* Which elements are added first does not matter.
LEMMA AddsAnyOrder ==
    ASSUME NEW S, IsFiniteSet(S), NEW w, \A x \in S : w[x] \in Nat, NEW F, Adds(w, S, F)
    PROVE  /\ F[{}] = 0
           /\ \A s \in SUBSET S : F[s] \in Nat /\ \A x \in s : F[s] = w[x] + F[s \ {x}]
<1>0. \A s \in SUBSET S : IsFiniteSet(s) /\ Cardinality(s) \in Nat  BY FS_Subset, FS_CardinalityType
<1>1. \A s \in SUBSET S : F[s] = Term(w, s, F)  BY DEF Adds
<1> DEFINE P(s) == F[s] \in Nat /\ \A x \in s : F[s] = w[x] + F[s \ {x}]
           Q == {n \in Nat : \A s \in SUBSET S : Cardinality(s) <= n => P(s)}
<1>2. F[{}] = 0  BY <1>1 DEF Term
<1>3. 0 \in Q
  <2> SUFFICES ASSUME NEW s \in SUBSET S, Cardinality(s) <= 0 PROVE P(s)  OBVIOUS
  <2>1. s = {}  BY <1>0, FS_EmptySet
  <2> QED  BY <1>2, <2>1
<1>4. ASSUME NEW n \in Nat, n \in Q PROVE n + 1 \in Q
  <2> SUFFICES ASSUME NEW s \in SUBSET S, Cardinality(s) <= n + 1 PROVE P(s)
    OBVIOUS
  <2>0. CASE s = {}  BY <1>2, <2>0
  <2>1. CASE s # {}
    <3> DEFINE y == Pick(s)
    <3>1. y \in s  BY <2>1 DEF Pick
    <3>2. F[s] = w[y] + F[s \ {y}]  BY <1>1, <2>1 DEF Term
    <3> HIDE DEF y
    <3>3. \A x \in s : Cardinality(s \ {x}) <= n  BY <1>0, FS_RemoveElement
    <3>4. \A x \in s : P(s \ {x})  BY <1>4, <3>3
    <3>5. F[s] \in Nat  BY <3>1, <3>2, <3>4
    <3>6. ASSUME NEW x \in s, x # y PROVE F[s] = w[x] + F[s \ {x}]
      <4>1. F[s \ {y}] = w[x] + F[(s \ {y}) \ {x}]  BY <3>1, <3>4, <3>6
      <4>2. F[s \ {x}] = w[y] + F[(s \ {x}) \ {y}]  BY <3>1, <3>4, <3>6
      <4>3. (s \ {x}) \ {y} = (s \ {y}) \ {x}  OBVIOUS
      <4>4. F[s \ {x}] \in Nat /\ F[s \ {y}] \in Nat  BY <3>1, <3>4
      <4>5. Cardinality((s \ {y}) \ {x}) <= n
        <5>1. IsFiniteSet(s \ {y})  BY <1>0
        <5>2. (s \ {y}) \ {x} \in SUBSET (s \ {y})  OBVIOUS
        <5>3. Cardinality((s \ {y}) \ {x}) <= Cardinality(s \ {y})  BY ONLY <5>1, <5>2, FS_Subset, Zenon
        <5>4. (s \ {y}) \ {x} \in SUBSET S /\ s \ {y} \in SUBSET S  OBVIOUS
        <5> QED  BY <1>0, <3>1, <3>3, <5>3, <5>4
      <4>6. F[(s \ {y}) \ {x}] \in Nat  BY <1>4, <4>5
      <4> QED  BY <3>1, <3>2, <4>1, <4>2, <4>3, <4>4, <4>6
    <3> QED  BY <3>2, <3>5, <3>6
  <2> QED  BY <2>0, <2>1
<1>5. \A n \in Nat : n \in Q  BY <1>3, <1>4, Upwards
<1>6. ASSUME NEW s \in SUBSET S PROVE P(s)
  <2>1. Cardinality(s) \in Q /\ Cardinality(s) <= Cardinality(s)  BY <1>0, <1>5
  <2> QED  BY <2>1
<1> QED  BY <1>2, <1>6

LEMMA SumAdds ==
    ASSUME NEW S, IsFiniteSet(S), NEW w, \A x \in S : w[x] \in Nat, NEW F, Adds(w, S, F)
    PROVE  \A T \in SUBSET S : SumOf(w, T) = F[T]
<1> SUFFICES ASSUME NEW T \in SUBSET S PROVE SumOf(w, T) = F[T]  OBVIOUS
<1>1. IsFiniteSet(T)  BY FS_Subset
<1> DEFINE G == CHOOSE G : Adds(w, T, G)
<1>2. Adds(w, T, G)  BY <1>1, SomethingAdds
<1>3. SumOf(w, T) = G[T]  BY SumIs
<1> HIDE DEF G
<1>4. /\ F[{}] = 0
      /\ \A s \in SUBSET S : F[s] \in Nat /\ \A x \in s : F[s] = w[x] + F[s \ {x}]
  BY AddsAnyOrder
<1>5. \A x \in T : w[x] \in Nat  OBVIOUS
<1>6. /\ G[{}] = 0
      /\ \A s \in SUBSET T : \A x \in s : G[s] = w[x] + G[s \ {x}]
  BY <1>1, <1>2, <1>5, AddsAnyOrder
<1> DEFINE Q == {s \in SUBSET T : F[s] = G[s]}
<1>7. {} \in Q  BY <1>4, <1>6
<1>8. ASSUME NEW s \in SUBSET T, NEW x \in T \ s, s \in Q PROVE s \cup {x} \in Q
  <2>1. (s \cup {x}) \ {x} = s /\ s \cup {x} \in SUBSET T /\ s \cup {x} \in SUBSET S /\ x \in s \cup {x}
    OBVIOUS
  <2>2. F[s \cup {x}] = w[x] + F[s]  BY <1>4, <2>1
  <2>3. G[s \cup {x}] = w[x] + G[s]  BY <1>6, <2>1
  <2> QED  BY <1>8, <2>1, <2>2, <2>3
<1> HIDE DEF Q
<1>9. T \in Q  BY <1>1, <1>7, <1>8, Growing
<1> QED  BY <1>3, <1>9 DEF Q

LEMMA SumOfNone == \A w : SumOf(w, {}) = 0
<1> SUFFICES ASSUME NEW w PROVE SumOf(w, {}) = 0  OBVIOUS
<1>1. PICK F : Adds(w, {}, F)  BY SomethingAdds, FS_EmptySet
<1>2. F[{}] = 0  BY <1>1 DEF Adds, Term
<1>3. SumOf(w, {}) = F[{}]
  BY <1>1, SumAdds, FS_EmptySet
<1> QED  BY <1>2, <1>3

\* One element more or less.
LEMMA SumSplits ==
    ASSUME NEW S, IsFiniteSet(S), NEW w, \A x \in S : w[x] \in Nat
    PROVE  /\ SumOf(w, S) \in Nat
           /\ \A x \in S : SumOf(w, S) = w[x] + SumOf(w, S \ {x})
<1>1. PICK F : Adds(w, S, F)  BY SomethingAdds
<1>2. \A s \in SUBSET S : F[s] \in Nat /\ \A x \in s : F[s] = w[x] + F[s \ {x}]
  BY <1>1, AddsAnyOrder
<1>3. \A T \in SUBSET S : SumOf(w, T) = F[T]  BY <1>1, SumAdds
<1> QED  BY <1>2, <1>3

LEMMA SumGrows ==
    ASSUME NEW T, IsFiniteSet(T), NEW S \in SUBSET T, NEW v, NEW w,
           \A x \in S : v[x] \in Nat, \A x \in T : w[x] \in Nat,
           \A x \in S : v[x] <= w[x]
    PROVE  SumOf(v, S) <= SumOf(w, T)
<1> DEFINE Q == {s \in SUBSET T : SumOf(v, s \cap S) <= SumOf(w, s)}
<1>1. {} \in Q
  <2>1. {} \cap S = {}  OBVIOUS
  <2> QED  BY <2>1, SumOfNone
<1>2. ASSUME NEW s \in SUBSET T, NEW x \in T \ s, s \in Q PROVE s \cup {x} \in Q
  <2>1. IsFiniteSet(s \cup {x}) /\ IsFiniteSet((s \cup {x}) \cap S) /\ IsFiniteSet(s \cap S) /\ IsFiniteSet(s)
    <3>1. s \cup {x} \in SUBSET T /\ (s \cup {x}) \cap S \in SUBSET T /\ s \cap S \in SUBSET T
      OBVIOUS
    <3> QED  BY <3>1, FS_Subset
  <2>2. /\ \A y \in s \cup {x} : w[y] \in Nat
        /\ \A y \in (s \cup {x}) \cap S : v[y] \in Nat
    OBVIOUS
  <2>3. (s \cup {x}) \ {x} = s /\ x \in s \cup {x}  OBVIOUS
  <2>4. SumOf(w, s \cup {x}) = w[x] + SumOf(w, s) /\ SumOf(w, s) \in Nat
    BY <2>1, <2>2, <2>3, SumSplits
  <2>5. SumOf(v, s \cap S) \in Nat  BY <2>1, SumSplits
  <2>6. CASE x \in S
    <3>1. ((s \cup {x}) \cap S) \ {x} = s \cap S /\ x \in (s \cup {x}) \cap S  BY <2>6
    <3>2. SumOf(v, (s \cup {x}) \cap S) = v[x] + SumOf(v, s \cap S)
      BY <2>1, <2>2, <3>1, SumSplits
    <3>3. v[x] <= w[x] /\ v[x] \in Nat /\ w[x] \in Nat  BY <2>6
    <3> HIDE DEF Q
    <3>4. SumOf(v, s \cap S) <= SumOf(w, s)  BY <1>2 DEF Q
    <3>5. SumOf(v, (s \cup {x}) \cap S) <= SumOf(w, s \cup {x})
      BY <2>4, <2>5, <3>2, <3>3, <3>4
    <3> QED  BY <3>5 DEF Q
  <2>7. CASE x \notin S
    <3>1. (s \cup {x}) \cap S = s \cap S  BY <2>7
    <3>2. SumOf(v, s \cap S) <= SumOf(w, s)  BY <1>2
    <3>3. SumOf(v, s \cap S) <= w[x] + SumOf(w, s)  BY <2>4, <2>5, <3>2
    <3> QED  BY <2>4, <3>1, <3>3
  <2> QED  BY <2>6, <2>7
<1> HIDE DEF Q
<1>3. T \in Q  BY <1>1, <1>2, Growing
<1>4. T \cap S = S  OBVIOUS
<1> QED  BY <1>3, <1>4 DEF Q

LEMMA SumAgrees ==
    ASSUME NEW S, IsFiniteSet(S), NEW v, NEW w, \A x \in S : v[x] \in Nat /\ v[x] = w[x]
    PROVE  SumOf(v, S) = SumOf(w, S)
<1>1. SumOf(v, S) \in Nat /\ SumOf(w, S) \in Nat  BY SumSplits
<1>2. S \in SUBSET S /\ \A x \in S : v[x] <= w[x] /\ w[x] <= v[x]  OBVIOUS
<1>3. SumOf(v, S) <= SumOf(w, S)  BY <1>2, SumGrows
<1>4. SumOf(w, S) <= SumOf(v, S)  BY <1>2, SumGrows
<1> QED  BY <1>1, <1>3, <1>4

\* A sum adds up over the parts of its set.
LEMMA SumOfUnion ==
    ASSUME NEW A, IsFiniteSet(A), NEW B, IsFiniteSet(B), A \cap B = {},
           NEW w, \A x \in A \cup B : w[x] \in Nat
    PROVE  SumOf(w, A \cup B) = SumOf(w, A) + SumOf(w, B)
<1> DEFINE Q == {U \in SUBSET B : SumOf(w, A \cup U) = SumOf(w, A) + SumOf(w, U)}
<1>1. {} \in Q
  <2>1. SumOf(w, A) \in Nat
    BY SumSplits
  <2>2. SumOf(w, {}) = 0
    BY SumOfNone
  <2>3. A \cup {} = A
    OBVIOUS
  <2>4. QED
    BY <2>1, <2>2, <2>3
<1>2. ASSUME NEW U \in SUBSET B, NEW x \in B \ U, U \in Q PROVE U \cup {x} \in Q
  <2> DEFINE V == U \cup {x}
  <2>1. /\ IsFiniteSet(V) /\ V \subseteq B
        /\ IsFiniteSet(A \cup V)
        /\ IsFiniteSet(A \cup U) /\ IsFiniteSet(U)
    BY FS_Subset, FS_Union
  <2>2. /\ x \in V /\ V \ {x} = U
        /\ x \in A \cup V /\ (A \cup V) \ {x} = A \cup U
    OBVIOUS
  <2>3. /\ \A y \in V : w[y] \in Nat
        /\ \A y \in A \cup V : w[y] \in Nat
        /\ \A y \in A \cup U : w[y] \in Nat
        /\ \A y \in U : w[y] \in Nat
        /\ \A y \in A : w[y] \in Nat
    OBVIOUS
  <2> HIDE DEF V
  <2>4. SumOf(w, V) = w[x] + SumOf(w, U)
    BY <2>1, <2>2, <2>3, SumSplits
  <2>5. SumOf(w, A \cup V) = w[x] + SumOf(w, A \cup U)
    BY <2>1, <2>2, <2>3, SumSplits
  <2>6. /\ SumOf(w, A) \in Nat /\ SumOf(w, U) \in Nat /\ SumOf(w, A \cup U) \in Nat
        /\ w[x] \in Nat
    BY <2>1, <2>2, <2>3, SumSplits
  <2>7. SumOf(w, A \cup U) = SumOf(w, A) + SumOf(w, U)
    BY <1>2
  <2>8. SumOf(w, A \cup V) = SumOf(w, A) + SumOf(w, V)
    BY <2>4, <2>5, <2>6, <2>7
  <2>9. QED
    BY <2>1, <2>8 DEF V
<1> HIDE DEF Q
<1>3. B \in Q
  BY <1>1, <1>2, Growing
<1>4. QED
  BY <1>3 DEF Q

\* What counts for nothing can be left out.
LEMMA SumOfNothing ==
    ASSUME NEW T, IsFiniteSet(T), NEW S \in SUBSET T, NEW w,
           \A x \in S : w[x] \in Nat, \A x \in T \ S : w[x] = 0
    PROVE  SumOf(w, T) = SumOf(w, S)
<1> DEFINE R == T \ S
           Q == {U \in SUBSET R : SumOf(w, S \cup U) = SumOf(w, S)}
<1>0. IsFiniteSet(S) /\ IsFiniteSet(R) /\ T = S \cup R
  BY FS_Subset
<1>1. {} \in Q
  <2>1. S \cup {} = S
    OBVIOUS
  <2>2. QED
    BY <2>1
<1>2. ASSUME NEW U \in SUBSET R, NEW x \in R \ U, U \in Q PROVE U \cup {x} \in Q
  <2>1. IsFiniteSet(S \cup (U \cup {x})) /\ IsFiniteSet(S \cup U)
    BY <1>0, FS_Subset
  <2>2. x \in S \cup (U \cup {x}) /\ (S \cup (U \cup {x})) \ {x} = S \cup U
    OBVIOUS
  <2>3. \A y \in S \cup (U \cup {x}) : w[y] \in Nat
    OBVIOUS
  <2>4. SumOf(w, S \cup (U \cup {x})) = w[x] + SumOf(w, S \cup U)
    BY <2>1, <2>2, <2>3, SumSplits
  <2>5. w[x] = 0 /\ SumOf(w, S \cup U) \in Nat /\ SumOf(w, S \cup U) = SumOf(w, S)
    BY <1>2, <2>1, <2>3, SumSplits
  <2>6. QED
    BY <2>4, <2>5
<1> HIDE DEF Q
<1>3. R \in Q
  BY <1>0, <1>1, <1>2, Growing
<1>4. QED
  BY <1>0, <1>3 DEF Q

-------------------------------------------------------------------------------
(***************************************************************************)
(* Lists.                                                                  *)
(***************************************************************************)
\* What Sublist has kept of the first n entries, given what it keeps of less.
Part(list, kept, F, n) ==
    IF n = 0 THEN <<>>
    ELSE IF list[n] \in kept THEN Append(F[n - 1], list[n])
    ELSE F[n - 1]
Parts(list, kept, F) == F = [n \in 0 .. Len(list) |-> Part(list, kept, F, n)]

LEMMA AppendAdds ==
    ASSUME NEW T, NEW s \in Seq(T), NEW x \in T
    PROVE  /\ Append(s, x) \in Seq(T)
           /\ ToSet(Append(s, x)) = ToSet(s) \cup {x}
           /\ IsInjective(s) /\ x \notin ToSet(s) => IsInjective(Append(s, x))
<1>1. /\ Append(s, x) \in Seq(T)
      /\ DOMAIN Append(s, x) = DOMAIN s \cup {Len(s) + 1} /\ Len(s) + 1 \notin DOMAIN s
      /\ Append(s, x)[Len(s) + 1] = x
      /\ \A i \in DOMAIN s : Append(s, x)[i] = s[i]
  OBVIOUS
<1> DEFINE r == Append(s, x)
           m == Len(s) + 1
<1>2. r = r /\ DOMAIN r = DOMAIN s \cup {m} /\ m \notin DOMAIN s /\ r[m] = x /\ \A i \in DOMAIN s : r[i] = s[i]
  BY <1>1
<1> HIDE DEF r, m
<1>3. ToSet(r) = ToSet(s) \cup {x}
  BY <1>2 DEF ToSet
<1>4. IsInjective(s) /\ x \notin ToSet(s) => IsInjective(r)
  BY <1>2 DEF ToSet, IsInjective
<1>5. QED
  BY <1>1, <1>3, <1>4 DEF r

LEMMA SublistPart ==
    ASSUME NEW list, NEW kept
    PROVE  Sublist(list, kept) = (CHOOSE F : Parts(list, kept, F))[Len(list)]
BY DEF Sublist, Parts, Part

LEMMA SomethingParts ==
    ASSUME NEW T, NEW list \in Seq(T), NEW kept
    PROVE  \E F : Parts(list, kept, F)
<1> DEFINE Good(n) == \E F : \A k \in 0 .. n : F[k] = Part(list, kept, F, k)
           Q == {n \in Nat : Good(n)}
<1>1. 0 \in Q
  <2> DEFINE F == [k \in 0 .. 0 |-> <<>>]
  <2>1. \A k \in 0 .. 0 : F[k] = Part(list, kept, F, k)
    BY DEF Part
  <2>2. QED
    BY <2>1
<1>2. ASSUME NEW n \in Nat, n \in Q PROVE n + 1 \in Q
  <2>1. PICK F : \A k \in 0 .. n : F[k] = Part(list, kept, F, k)
    BY <1>2
  <2> DEFINE G == [k \in 0 .. n + 1 |-> IF k \in 0 .. n THEN F[k] ELSE Part(list, kept, F, k)]
  <2>2. ASSUME NEW k \in 0 .. n + 1 PROVE G[k] = Part(list, kept, G, k)
    <3>1. k # 0 => k - 1 \in 0 .. n
      OBVIOUS
    <3>2. k # 0 => G[k - 1] = F[k - 1]
      BY <3>1
    <3>3. Part(list, kept, G, k) = Part(list, kept, F, k)
      BY <3>2 DEF Part
    <3>4. G[k] = Part(list, kept, F, k)
      BY <2>1
    <3>5. QED
      BY <3>3, <3>4
  <2>3. Good(n + 1)
    BY <2>2
  <2>4. QED
    BY <2>3
<1> HIDE DEF Good
<1>3. \A n \in Nat : n \in Q
  <2> HIDE DEF Q
  <2>1. QED
    BY <1>1, <1>2, Upwards
<1> HIDE DEF Q
<1>3a. Len(list) \in Q
  <2>1. Len(list) \in Nat
    OBVIOUS
  <2>2. QED
    BY <2>1, <1>3
<1>3b. Good(Len(list))
  BY <1>3a DEF Q
<1>4. PICK F : \A k \in 0 .. Len(list) : F[k] = Part(list, kept, F, k)
  BY ONLY <1>3b DEF Good
<1> DEFINE G == [k \in 0 .. Len(list) |-> F[k]]
<1>5. ASSUME NEW k \in 0 .. Len(list) PROVE Part(list, kept, G, k) = Part(list, kept, F, k)
  <2>1. k # 0 => k - 1 \in 0 .. Len(list)
    OBVIOUS
  <2>2. k # 0 => G[k - 1] = F[k - 1]
    BY <2>1
  <2>3. QED
    BY <2>2 DEF Part
<1>6. Parts(list, kept, G)
  BY <1>4, <1>5 DEF Parts
<1>7. QED
  BY <1>6

\* What is kept is a list of the entries in the set, and a list without
\* repetitions stays one.
LEMMA SublistHas ==
    ASSUME NEW T, NEW list \in Seq(T), NEW kept
    PROVE  /\ Sublist(list, kept) \in Seq(T)
           /\ ToSet(Sublist(list, kept)) = ToSet(list) \cap kept
           /\ IsInjective(list) => IsInjective(Sublist(list, kept))
<1>1. PICK F : Parts(list, kept, F) /\ Sublist(list, kept) = F[Len(list)]
  BY SublistPart, SomethingParts
<1>2. F = [n \in 0 .. Len(list) |-> Part(list, kept, F, n)]
  BY <1>1 DEF Parts
<1> DEFINE Seen(n) == {list[i] : i \in 1 .. n}
           Good(n) == /\ F[n] \in Seq(T)
                      /\ ToSet(F[n]) = Seen(n) \cap kept
                      /\ IsInjective(list) => IsInjective(F[n])
           Q == {n \in Nat : n <= Len(list) => Good(n)}
<1>3. 0 \in Q
  <2>1. F[0] = <<>>
    BY <1>2 DEF Part
  <2>2. F[0] \in Seq(T) /\ DOMAIN F[0] = {}
    BY <2>1
  <2>3. Seen(0) = {} /\ ToSet(F[0]) = {} /\ IsInjective(F[0])
    BY <2>2 DEF ToSet, IsInjective
  <2> HIDE DEF Seen
  <2>4. QED
    BY <2>2, <2>3
<1>4. ASSUME NEW n \in Nat, n \in Q PROVE n + 1 \in Q
  <2>1. SUFFICES ASSUME n + 1 <= Len(list) PROVE Good(n + 1)
    OBVIOUS
  <2>2. n + 1 \in 0 .. Len(list) /\ Len(list) \in Nat /\ n + 1 \in 1 .. Len(list) /\ n <= Len(list)
    BY <2>1
  <2>3. Good(n)
    BY <1>4, <2>2
  <2>4. list[n + 1] \in T
    BY <2>2
  <2>5. Seen(n + 1) = Seen(n) \cup {list[n + 1]}
    OBVIOUS
  <2>6. F[n + 1] = Part(list, kept, F, n + 1) /\ (n + 1) - 1 = n /\ n + 1 # 0
    BY <1>2, <2>2
  <2>7. CASE list[n + 1] \in kept
    <3>1. F[n + 1] = Append(F[n], list[n + 1])
      BY <2>6, <2>7 DEF Part
    <3>2. F[n + 1] \in Seq(T) /\ ToSet(F[n + 1]) = ToSet(F[n]) \cup {list[n + 1]}
      <4> DEFINE s == F[n]
                 x == list[n + 1]
      <4>1. s \in Seq(T) /\ x \in T
        BY <2>3, <2>4
      <4> HIDE DEF s, x
      <4>2. Append(s, x) \in Seq(T) /\ ToSet(Append(s, x)) = ToSet(s) \cup {x}
        BY <4>1, AppendAdds
      <4>3. QED
        BY <3>1, <4>2 DEF s, x
    <3>3. ASSUME IsInjective(list) PROVE IsInjective(F[n + 1])
      <4>1. list[n + 1] \notin Seen(n)
        BY <2>2, <3>3 DEF IsInjective
      <4>2. list[n + 1] \notin ToSet(F[n])
        BY <2>3, <4>1
      <4>3. F[n] \in Seq(T) /\ IsInjective(F[n])
        BY <2>3, <3>3
      <4>4. QED
        BY <2>4, <3>1, <4>2, <4>3, AppendAdds
    <3>4. ToSet(F[n + 1]) = Seen(n + 1) \cap kept
      <4> HIDE DEF Seen
      <4>1. QED
        BY <2>3, <2>5, <2>7, <3>2
    <3> HIDE DEF Seen
    <3>5. QED
      BY <3>2, <3>3, <3>4
  <2>8. CASE list[n + 1] \notin kept
    <3>1. F[n + 1] = F[n]
      BY <2>6, <2>8 DEF Part
    <3> HIDE DEF Seen
    <3>2. QED
      BY <2>3, <2>5, <2>8, <3>1
  <2>9. QED
    BY <2>7, <2>8
<1> HIDE DEF Q
<1>5. Len(list) \in Q /\ Len(list) \in Nat
  BY <1>3, <1>4, Upwards
<1>6. Good(Len(list))
  BY <1>5 DEF Q
<1>7. Seen(Len(list)) = ToSet(list)
  BY DEF ToSet
<1>8. QED
  BY <1>1, <1>6, <1>7

LEMMA WithoutLeaves ==
    ASSUME NEW T, NEW list \in Seq(T), NEW x
    PROVE  /\ Without(list, x) \in Seq(T)
           /\ ToSet(Without(list, x)) = ToSet(list) \ {x}
           /\ IsInjective(list) => IsInjective(Without(list, x))
<1>1. {list[i] : i \in DOMAIN list} = ToSet(list)
  BY DEF ToSet
<1>2. QED
  BY <1>1, SublistHas DEF Without

\* What is left of a list when its first k entries are taken away.
LEMMA RestOfList ==
    ASSUME NEW T, NEW list \in Seq(T), IsInjective(list), NEW k \in 0 .. Len(list)
    PROVE  LET rest == SubSeq(list, k + 1, Len(list)) IN
           /\ rest \in Seq(T) /\ IsInjective(rest)
           /\ ToSet(rest) = {list[i] : i \in k + 1 .. Len(list)}
           /\ ToSet(rest) = ToSet(list) \ {list[i] : i \in 1 .. k}
<1> DEFINE n == Len(list)
           rest == SubSeq(list, k + 1, n)
<1>1. n \in Nat /\ DOMAIN list = 1 .. n
  OBVIOUS
<1>2. /\ rest \in Seq(T) /\ DOMAIN rest = 1 .. (n - k)
      /\ \A i \in 1 .. (n - k) : rest[i] = list[i + k]
  BY <1>1
<1>3. \A i \in 1 .. (n - k) : i + k \in k + 1 .. n /\ i + k \in 1 .. n
  BY <1>1
<1>4. \A i \in k + 1 .. n : i - k \in 1 .. (n - k) /\ (i - k) + k = i
  BY <1>1
<1>5. k + 1 .. n = (1 .. n) \ (1 .. k) /\ 1 .. k \subseteq 1 .. n
  BY <1>1
<1> HIDE DEF rest, n
<1>6. IsInjective(rest)
  <2> SUFFICES ASSUME NEW a \in 1 .. (n - k), NEW b \in 1 .. (n - k), rest[a] = rest[b]
               PROVE  a = b
    BY <1>2 DEF IsInjective
  <2>1. list[a + k] = list[b + k] /\ a + k \in 1 .. n /\ b + k \in 1 .. n
    BY <1>2, <1>3
  <2>2. a + k = b + k
    BY <1>1, <2>1 DEF IsInjective
  <2>3. QED
    BY <2>2, <1>1
<1>7. ToSet(rest) = {list[i] : i \in k + 1 .. n}
  <2>1. ASSUME NEW x \in ToSet(rest) PROVE \E i \in k + 1 .. n : x = list[i]
    BY <1>2, <1>3 DEF ToSet
  <2>2. ASSUME NEW i \in k + 1 .. n PROVE list[i] \in ToSet(rest)
    BY <1>2, <1>4 DEF ToSet
  <2>3. QED
    BY <2>1, <2>2
<1>8. ToSet(rest) = ToSet(list) \ {list[i] : i \in 1 .. k}
  <2>1. ASSUME NEW i \in k + 1 .. n PROVE list[i] \in ToSet(list) \ {list[h] : h \in 1 .. k}
    <3>1. i \in 1 .. n /\ \A h \in 1 .. k : h \in 1 .. n /\ h # i
      BY <1>5
    <3>2. QED
      BY <1>1, <3>1 DEF ToSet, IsInjective
  <2>2. ASSUME NEW x \in ToSet(list) \ {list[h] : h \in 1 .. k}
        PROVE  \E i \in k + 1 .. n : x = list[i]
    <3>1. PICK i \in 1 .. n : x = list[i]
      BY <1>1 DEF ToSet
    <3>2. i \notin 1 .. k
      BY <3>1
    <3>3. QED
      BY <1>5, <3>1, <3>2
  <2>3. QED
    BY <1>7, <2>1, <2>2
<1>9. QED
  BY <1>2, <1>6, <1>7, <1>8 DEF rest, n
=============================================================================
