------------------------------ MODULE SumProofs ------------------------------
(***************************************************************************)
(* Sums over finite sets, for the theorems of every module that adds       *)
(* amounts up.  The sum of the library is a recursive function under a     *)
(* CHOOSE; SumsExist and PartsAddUp unfold it once, and the lemmas after   *)
(* them are what proofs use.  Induction over the subsets of a finite set   *)
(* is a statement about a set of them (EverySubset).                       *)
(***************************************************************************)
EXTENDS Sums, Integers, FiniteSetTheorems, WellFoundedInduction, TLAPS

\* The least element of an inhabited set of naturals.
LEMMA LeastOf ==
  ASSUME NEW S \in SUBSET Nat, S # {}
  PROVE  Min(S) \in S /\ \A y \in S : Min(S) <= y
<1>1. PICK x \in S : \A y \in S : ~ (<<y, x>> \in OpToRel(<, Nat))
  BY NatLessThanWellFounded, WFMin
<1>2. ASSUME NEW y \in S PROVE ~ (y < x)
  <2>1. <<y, x>> \notin OpToRel(<, Nat)
    BY <1>1
  <2> QED
    BY <2>1, Zenon DEF OpToRel
<1>3. \A y \in S : x <= y
  BY <1>2
<1> QED
  BY <1>3 DEF Min

\* Induction over the subsets of a finite set, as a statement about a set of them.
LEMMA EverySubset ==
  ASSUME NEW S, IsFiniteSet(S), NEW G,
         \A s \in SUBSET S : (\A t \in SUBSET s : t # s => t \in G) => s \in G
  PROVE  \A s \in SUBSET S : s \in G
<1> DEFINE Bad == {n \in Nat : \E s \in SUBSET S : Cardinality(s) = n /\ s \notin G}
<1>1. Bad = {}
  <2>1. SUFFICES ASSUME Bad # {} PROVE FALSE
    OBVIOUS
  <2>2. PICK n \in Bad : \A y \in Bad : n <= y
    <3>1. Bad \in SUBSET Nat
      OBVIOUS
    <3> HIDE DEF Bad
    <3> QED
      BY <2>1, <3>1, LeastOf
  <2>3. PICK s \in SUBSET S : Cardinality(s) = n /\ s \notin G
    BY <2>2
  <2>4. IsFiniteSet(s) /\ n \in Nat
    BY <2>2, FS_Subset
  <2>5. ASSUME NEW t \in SUBSET s, t # s PROVE t \in G
    <3> DEFINE m == Cardinality(t)
    <3>1. IsFiniteSet(t) /\ m \in Nat /\ m <= n /\ m # n
      BY <2>3, <2>4, <2>5, FS_Subset, FS_CardinalityType
    <3>2. ~(n <= m)
      BY <2>4, <3>1
    <3>3. m \notin Bad
      BY <2>2, <3>2
    <3> QED
      BY <3>1, <3>3
  <2> QED
    BY <2>3, <2>5
<1> QED
  BY <1>1, FS_Subset, FS_CardinalityType

\* The recursion the sum over a set stands for.
SumBody(f, it, s) ==
    IF s = {} THEN 0 ELSE f[CHOOSE x \in s : TRUE] + it[s \ {CHOOSE x \in s : TRUE}]

\* The recursion has a solution on the subsets of a finite set.
LEMMA SumsExist ==
  ASSUME NEW S, IsFiniteSet(S), NEW f
  PROVE  \E it : /\ it = [s \in SUBSET S |-> it[s]]
                 /\ \A s \in SUBSET S : it[s] = SumBody(f, it, s)
<1> DEFINE D == SUBSET S
           Upto(it, m) == /\ it = [s \in D |-> it[s]]
                          /\ \A s \in D : Cardinality(s) <= m => it[s] = SumBody(f, it, s)
           Bad == {m \in Nat : ~ \E it : Upto(it, m)}
<1>0. \A s \in D : IsFiniteSet(s) /\ Cardinality(s) \in Nat
  BY FS_Subset, FS_CardinalityType
<1>1. Bad = {}
  <2>1. SUFFICES ASSUME Bad # {} PROVE FALSE
    OBVIOUS
  <2>2. PICK m \in Bad : \A y \in Bad : m <= y
    <3>1. Bad \in SUBSET Nat
      OBVIOUS
    <3> HIDE DEF Bad
    <3> QED
      BY <2>1, <3>1, LeastOf
  <2>3. m # 0
    <3> DEFINE it == [s \in D |-> 0]
    <3>1. \A s \in D : Cardinality(s) <= 0 => s = {}
      BY <1>0, FS_EmptySet
    <3>2. Upto(it, 0)
      BY <3>1 DEF SumBody
    <3>3. \E jt : Upto(jt, 0)
      BY <3>2
    <3> QED
      BY <2>2, <3>3
  <2>4. PICK it : Upto(it, m - 1)
    <3>1. m - 1 \in Nat /\ ~(m <= m - 1)
      BY <2>3
    <3>2. m - 1 \notin Bad
      BY <2>2, <3>1
    <3> QED
      BY <3>1, <3>2
  <2> DEFINE jt == [s \in D |-> SumBody(f, it, s)]
  <2>5. ASSUME NEW s \in D, Cardinality(s) <= m PROVE jt[s] = SumBody(f, jt, s)
    <3>1. CASE s = {}
      BY <3>1 DEF SumBody
    <3>2. CASE s # {}
      <4> DEFINE x == CHOOSE x \in s : TRUE
      <4>1. x \in s
        BY <3>2
      <4> HIDE DEF x
      <4>2. s \ {x} \in D /\ Cardinality(s \ {x}) = Cardinality(s) - 1
        BY <1>0, <4>1, FS_RemoveElement
      <4>3. Cardinality(s \ {x}) <= m - 1
        BY <1>0, <2>5, <4>2
      <4>4. it[s \ {x}] = SumBody(f, it, s \ {x})
        BY <2>4, <4>2, <4>3
      <4>5. jt[s \ {x}] = it[s \ {x}]
        BY <4>2, <4>4
      <4>6. jt[s] = f[x] + it[s \ {x}]
        BY <3>2 DEF SumBody, x
      <4> QED
        BY <3>2, <4>5, <4>6 DEF SumBody, x
    <3> QED
      BY <3>1, <3>2
  <2>6. Upto(jt, m)
    BY <2>5
  <2>7. \E kt : Upto(kt, m)
    BY <2>6
  <2> QED
    BY <2>2, <2>7
<1>2. Cardinality(S) \in Nat /\ \A s \in D : Cardinality(s) <= Cardinality(S)
  BY FS_Subset, FS_CardinalityType
<1>3. \E it : Upto(it, Cardinality(S))
  BY <1>1, <1>2
<1> QED
  BY <1>2, <1>3

\* Whatever element is taken first, a sum is that element and the sum of the rest.
PartSums(S, f, it) ==
    /\ it[{}] = 0
    /\ \A s \in SUBSET S : it[s] \in Nat /\ \A x \in s : it[s] = f[x] + it[s \ {x}]

\* A solution of the recursion takes any element first.
LEMMA PartsAddUp ==
  ASSUME NEW S, IsFiniteSet(S), NEW f \in [S -> Nat], NEW it,
         \A s \in SUBSET S : it[s] = SumBody(f, it, s)
  PROVE  PartSums(S, f, it)
<1> DEFINE P(s) == it[s] \in Nat /\ \A x \in s : it[s] = f[x] + it[s \ {x}]
           G == {s \in SUBSET S : P(s)}
<1>1. it[{}] = 0
  BY DEF SumBody
<1>2. {} \in G
  BY <1>1
<1>3. ASSUME NEW s \in SUBSET S, s # {}, \A t \in SUBSET s : t # s => t \in G
      PROVE  s \in G
  <2> DEFINE c == CHOOSE x \in s : TRUE
  <2>1. c \in s
    BY <1>3
  <2>2. it[s] = f[c] + it[s \ {c}]
    BY <1>3 DEF SumBody
  <2> HIDE DEF c
  <2>0. ASSUME NEW t \in SUBSET s, t # s PROVE P(t)
    BY <1>3, <2>0
  <2>3. P(s \ {c})
    BY <2>0, <2>1
  <2>4. f[c] \in Nat
    BY <2>1
  <2>5. it[s] \in Nat
    BY <2>2, <2>3, <2>4
  <2>6. ASSUME NEW x \in s PROVE it[s] = f[x] + it[s \ {x}]
    <3>1. CASE x = c
      BY <2>2, <3>1
    <3>2. CASE x # c
      <4>1. P(s \ {x})
        BY <2>0
      <4>2. c \in s \ {x} /\ x \in s \ {c} /\ (s \ {x}) \ {c} = (s \ {c}) \ {x}
        BY <2>1, <3>2
      <4>3. it[s \ {c}] = f[x] + it[(s \ {c}) \ {x}]
        BY <2>3, <4>2
      <4>4. it[s \ {x}] = f[c] + it[(s \ {c}) \ {x}]
        BY <4>1, <4>2
      <4>5. it[(s \ {c}) \ {x}] \in Nat /\ f[x] \in Nat
        <5>1. P((s \ {c}) \ {x})
          BY <2>0
        <5> QED
          BY <5>1
      <4> HIDE DEF P
      <4> QED
        BY <2>2, <2>4, <4>3, <4>4, <4>5
    <3> QED
      BY <3>1, <3>2
  <2> QED
    BY <2>5, <2>6
<1> HIDE DEF G
<1>5. ASSUME NEW s \in SUBSET S, \A t \in SUBSET s : t # s => t \in G
      PROVE  s \in G
  BY <1>2, <1>3, <1>5
<1>4. \A s \in SUBSET S : s \in G
  BY <1>5, EverySubset
<1> QED
  BY <1>1, <1>4 DEF G, PartSums

\* A total is the sum of its parts, in any order.
LEMMA TotalParts ==
  ASSUME NEW S, IsFiniteSet(S), NEW f \in [S -> Nat]
  PROVE  \E it : PartSums(S, f, it) /\ Total(f) = it[S]
<1> DEFINE D == SUBSET S
           P(g) == g = [s \in D |-> SumBody(f, g, s)]
           it == CHOOSE g : P(g)
<1>1. PICK g : g = [s \in D |-> g[s]] /\ \A s \in D : g[s] = SumBody(f, g, s)
  <2>1. \E g : /\ g = [s \in SUBSET S |-> g[s]]
               /\ \A s \in SUBSET S : g[s] = SumBody(f, g, s)
    BY SumsExist, ZenonT(60)
  <2> QED
    BY <2>1
<1>2. P(g)
  BY <1>1
<1>3. P(it)
  BY <1>2
<1>4. Total(f) = it[S]
  BY DEF Total, MapThenSumSet, MapThenFoldSet, SumBody
<1> HIDE DEF it
<1>5. \A s \in D : it[s] = SumBody(f, it, s)
  BY <1>3
<1>6. PartSums(S, f, it)
  BY <1>5, PartsAddUp
<1> QED
  BY <1>4, <1>6

\* A total of naturals is a natural, and that of nothing is zero.
LEMMA TotalIsNat ==
  ASSUME NEW S, IsFiniteSet(S), NEW f \in [S -> Nat]
  PROVE  Total(f) \in Nat /\ (S = {} => Total(f) = 0)
BY TotalParts DEF PartSums

\* Part of a function.
Only(f, s) == [x \in s |-> f[x]]

\* The total of a part.
LEMMA TotalOnly ==
  ASSUME NEW S, IsFiniteSet(S), NEW f \in [S -> Nat], NEW it, PartSums(S, f, it),
         NEW s \in SUBSET S
  PROVE  Total(Only(f, s)) = it[s]
<1> DEFINE g == Only(f, s)
<1>1. IsFiniteSet(s) /\ g \in [s -> Nat] /\ \A x \in s : g[x] = f[x]
  BY FS_Subset DEF Only
<1> HIDE DEF g
<1>2. PICK jt : PartSums(s, g, jt) /\ Total(g) = jt[s]
  BY <1>1, TotalParts
<1> DEFINE G == {t \in SUBSET s : it[t] = jt[t]}
<1>3. ASSUME NEW t \in SUBSET s, \A u \in SUBSET t : u # t => u \in G
      PROVE  t \in G
  <2>1. CASE t = {}
    BY <1>2, <2>1 DEF PartSums
  <2>2. CASE t # {}
    <3>1. PICK x \in t : TRUE
      BY <2>2
    <3>2. t \ {x} \in G
      BY <1>3
    <3>3. it[t] = f[x] + it[t \ {x}] /\ jt[t] = g[x] + jt[t \ {x}]
      BY <1>2, <3>1 DEF PartSums
    <3> QED
      BY <1>1, <3>2, <3>3
  <2> QED
    BY <2>1, <2>2
<1> HIDE DEF G
<1>4. s \in G
  BY <1>1, <1>3, EverySubset
<1> QED
  BY <1>2, <1>4 DEF G, g

\* One of the summands, and the others.
LEMMA TotalSplit ==
  ASSUME NEW S, IsFiniteSet(S), NEW f \in [S -> Nat], NEW x \in S
  PROVE  /\ Total(f) = f[x] + Total(Only(f, S \ {x}))
         /\ Total(Only(f, S \ {x})) \in Nat /\ f[x] \in Nat
<1>1. PICK it : PartSums(S, f, it) /\ Total(f) = it[S]
  BY TotalParts
<1>2. Total(Only(f, S \ {x})) = it[S \ {x}]
  BY <1>1, TotalOnly
<1> QED
  BY <1>1, <1>2 DEF PartSums

\* One summand more.
LEMMA TotalPlus ==
  ASSUME NEW S, IsFiniteSet(S), NEW x, x \notin S, NEW f \in [S \cup {x} -> Nat],
         NEW g \in [S -> Nat],
         \A y \in S : g[y] = f[y]
  PROVE  Total(f) = Total(g) + f[x] /\ Total(g) \in Nat /\ f[x] \in Nat
<1> DEFINE T == S \cup {x}
<1>1. IsFiniteSet(T) /\ x \in T /\ T \ {x} = S
  BY FS_AddElement
<1>2. Only(f, S) = g
  BY DEF Only
<1> HIDE DEF T
<1>3. f \in [T -> Nat]
  BY DEF T
<1> QED
  BY <1>1, <1>2, <1>3, TotalSplit

\* One summand changed.
LEMMA TotalChanged ==
  ASSUME NEW S, IsFiniteSet(S), NEW x \in S, NEW f \in [S -> Nat], NEW g \in [S -> Nat],
         \A y \in S \ {x} : g[y] = f[y]
  PROVE  /\ Total(g) = Total(f) + g[x] - f[x]
         /\ Total(f) \in Nat /\ Total(g) \in Nat /\ f[x] \in Nat /\ g[x] \in Nat
         /\ f[x] <= Total(f)
<1>1. Only(f, S \ {x}) = Only(g, S \ {x})
  BY DEF Only
<1>2. /\ Total(f) = f[x] + Total(Only(f, S \ {x}))
      /\ Total(Only(f, S \ {x})) \in Nat /\ f[x] \in Nat
  BY TotalSplit
<1>3. /\ Total(g) = g[x] + Total(Only(g, S \ {x}))
      /\ Total(Only(g, S \ {x})) \in Nat /\ g[x] \in Nat
  BY TotalSplit
<1> QED
  BY <1>1, <1>2, <1>3

\* Summands that are nothing.
LEMMA TotalOfZeros ==
  ASSUME NEW S, IsFiniteSet(S), NEW f \in [S -> Nat], \A x \in S : f[x] = 0
  PROVE  Total(f) = 0
<1>1. PICK it : PartSums(S, f, it) /\ Total(f) = it[S]
  BY TotalParts
<1> DEFINE G == {s \in SUBSET S : it[s] = 0}
<1>2. ASSUME NEW s \in SUBSET S, \A t \in SUBSET s : t # s => t \in G
      PROVE  s \in G
  <2>1. CASE s = {}
    BY <1>1, <2>1 DEF PartSums
  <2>2. CASE s # {}
    <3>1. PICK x \in s : TRUE
      BY <2>2
    <3>2. it[s \ {x}] = 0
      BY <1>2
    <3> QED
      BY <1>1, <3>1, <3>2 DEF PartSums
  <2> QED
    BY <2>1, <2>2
<1> HIDE DEF G
<1>3. S \in G
  BY <1>2, EverySubset
<1> QED
  BY <1>1, <1>3 DEF G

\* The summands of two sets apart.
LEMMA TotalOfUnion ==
  ASSUME NEW A, NEW B, IsFiniteSet(A), IsFiniteSet(B), A \cap B = {},
         NEW f \in [A \cup B -> Nat]
  PROVE  Total(f) = Total(Only(f, A)) + Total(Only(f, B))
<1> DEFINE S == A \cup B
<1>1. IsFiniteSet(S) /\ A \in SUBSET S /\ B \in SUBSET S
  BY FS_Union
<1> HIDE DEF S
<1>2. f \in [S -> Nat]
  BY DEF S
<1>3. PICK it : PartSums(S, f, it) /\ Total(f) = it[S]
  BY <1>1, <1>2, TotalParts
<1> DEFINE G == {s \in SUBSET B : it[A \cup s] = it[A] + it[s]}
<1>4. ASSUME NEW s \in SUBSET B, \A t \in SUBSET s : t # s => t \in G
      PROVE  s \in G
  <2>0. it[A] \in Nat
    BY <1>1, <1>3 DEF PartSums
  <2>1. CASE s = {}
    <3>1. A \cup s = A /\ it[s] = 0
      BY <1>3, <2>1 DEF PartSums
    <3>2. it[A \cup s] = it[A] + it[s]
      BY <2>0, <3>1
    <3> QED
      BY <3>2
  <2>2. CASE s # {}
    <3>1. PICK x \in s : TRUE
      BY <2>2
    <3>2. it[A \cup (s \ {x})] = it[A] + it[s \ {x}]
      BY <1>4
    <3>3. (A \cup s) \ {x} = A \cup (s \ {x}) /\ A \cup s \in SUBSET S /\ s \in SUBSET S
      BY <3>1 DEF S
    <3>4. it[A \cup s] = f[x] + it[A \cup (s \ {x})] /\ it[s] = f[x] + it[s \ {x}]
      BY <1>3, <3>1, <3>3 DEF PartSums
    <3>5. it[s \ {x}] \in Nat /\ f[x] \in Nat
      BY <1>2, <1>3, <3>1, <3>3 DEF PartSums
    <3>6. it[A \cup s] = it[A] + it[s]
      BY <2>0, <3>2, <3>4, <3>5
    <3> QED
      BY <3>6
  <2> QED
    BY <2>1, <2>2
<1> HIDE DEF G
<1>5. B \in G
  BY <1>4, EverySubset
<1>6. it[S] = it[A] + it[B]
  BY <1>5 DEF G, S
<1>7. Total(Only(f, A)) = it[A] /\ Total(Only(f, B)) = it[B]
  BY <1>1, <1>2, <1>3, TotalOnly
<1> QED
  BY <1>3, <1>6, <1>7

\* The same summands under other names.
LEMMA TotalRenamed ==
  ASSUME NEW S, IsFiniteSet(S), NEW T, NEW f \in [T -> Nat], NEW m \in [S -> T],
         \A x, y \in S : m[x] = m[y] => x = y, \A z \in T : \E x \in S : m[x] = z
  PROVE  Total(f) = Total([x \in S |-> f[m[x]]])
<1> DEFINE g == [x \in S |-> f[m[x]]]
           image(s) == {m[x] : x \in s}
<1>1. g \in [S -> Nat] /\ \A x \in S : g[x] = f[m[x]]
  OBVIOUS
<1>2. IsFiniteSet(T) /\ image(S) = T
  <2>1. m \in Surjection(S, T)
    BY DEF Surjection
  <2>2. IsFiniteSet(T)
    BY <2>1, FS_Surjection
  <2> QED
    BY <2>2
<1> HIDE DEF g
<1>3. PICK it : PartSums(S, g, it) /\ Total(g) = it[S]
  BY <1>1, TotalParts
<1>4. PICK jt : PartSums(T, f, jt) /\ Total(f) = jt[T]
  BY <1>2, TotalParts
<1> DEFINE G == {s \in SUBSET S : it[s] = jt[image(s)]}
<1>5. ASSUME NEW s \in SUBSET S, \A t \in SUBSET s : t # s => t \in G
      PROVE  s \in G
  <2>1. CASE s = {}
    <3>1. image(s) = {}
      BY <2>1
    <3>2. it[s] = 0 /\ jt[image(s)] = 0
      BY <1>3, <1>4, <2>1, <3>1 DEF PartSums
    <3> QED
      BY <3>2
  <2>2. CASE s # {}
    <3>1. PICK x \in s : TRUE
      BY <2>2
    <3>2. it[s \ {x}] = jt[image(s \ {x})]
      BY <1>5
    <3>3. image(s) \ {m[x]} = image(s \ {x}) /\ m[x] \in image(s) /\ image(s) \in SUBSET T
      BY <3>1
    <3> HIDE DEF image
    <3>4. it[s] = g[x] + it[s \ {x}] /\ jt[image(s)] = f[m[x]] + jt[image(s) \ {m[x]}]
      BY <1>3, <1>4, <3>1, <3>3 DEF PartSums
    <3>5. it[s] = jt[image(s)]
      BY <1>1, <3>1, <3>2, <3>3, <3>4
    <3> QED
      BY <3>5
  <2> QED
    BY <2>1, <2>2
<1> HIDE DEF G, image
<1>6. S \in G
  BY <1>5, EverySubset
<1> QED
  BY <1>2, <1>3, <1>4, <1>6 DEF G, g

\* What is at least as great as every member is the greatest.
LEMMA MaxIs ==
  ASSUME NEW S \in SUBSET Int, NEW x \in S, \A y \in S : y <= x
  PROVE  Max(S) = x
<1> DEFINE m == CHOOSE m \in S : \A y \in S : m >= y
<1>1. \A y \in S : x >= y
  OBVIOUS
<1>2. m \in S /\ \A y \in S : m >= y
  BY <1>1
<1> HIDE DEF m
<1>3. m = x
  BY <1>1, <1>2
<1> QED
  BY <1>3 DEF Max, m

\* A finite inhabited set of whole numbers has a greatest member.
LEMMA GreatestOf ==
  ASSUME NEW M \in SUBSET Int, IsFiniteSet(M), M # {}
  PROVE  Max(M) \in M /\ \A y \in M : y <= Max(M)
<1> DEFINE G == {s \in SUBSET M : s # {} => \E x \in s : \A y \in s : y <= x}
<1>1. ASSUME NEW s \in SUBSET M, \A t \in SUBSET s : t # s => t \in G
      PROVE  s \in G
  <2>1. CASE s = {}
    BY <2>1
  <2>2. CASE s # {}
    <3>1. PICK a \in s : TRUE
      BY <2>2
    <3> DEFINE t == s \ {a}
    <3>2. t \in G
      BY <1>1
    <3>3. s = t \cup {a} /\ a \in Int /\ t \in SUBSET Int
      BY <3>1
    <3>4. t # {} => \E x \in t : \A y \in t : y <= x
      BY <3>2
    <3> HIDE DEF t
    <3>5. CASE t = {}
      <4>1. \A y \in s : y <= a
        BY <3>3, <3>5
      <4> QED
        BY <3>1, <4>1
    <3>6. CASE t # {}
      <4>1. PICK x \in t : \A y \in t : y <= x
        BY <3>4, <3>6
      <4>2. CASE a <= x
        <5>1. x \in s /\ \A y \in s : y <= x
          BY <3>3, <4>1, <4>2
        <5> QED
          BY <5>1
      <4>3. CASE ~ (a <= x)
        <5>1. \A y \in s : y <= a
          BY <3>3, <4>1, <4>3
        <5> QED
          BY <3>1, <5>1
      <4> QED
        BY <4>2, <4>3
    <3> QED
      BY <3>5, <3>6
  <2> QED
    BY <2>1, <2>2
<1> HIDE DEF G
<1>2. \A s \in SUBSET M : s \in G
  BY <1>1, EverySubset
<1>3. PICK x \in M : \A y \in M : y <= x
  <2>1. M \in SUBSET M
    OBVIOUS
  <2> QED
    BY <1>2, <2>1 DEF G
<1>4. Max(M) = x
  BY <1>3, MaxIs
<1> QED
  BY <1>3, <1>4

\* Where f is one.
Ones(f, s) == {x \in s : f[x] = 1}

\* A sum of zeros and ones counts the ones.
LEMMA SumCounts ==
  ASSUME NEW S, IsFiniteSet(S), NEW f \in [S -> {0, 1}]
  PROVE  Total(f) = Cardinality(Ones(f, S))
<1>1. PICK it : PartSums(S, f, it) /\ Total(f) = it[S]
  <2>1. f \in [S -> Nat]
    OBVIOUS
  <2> QED
    BY <2>1, TotalParts
<1> DEFINE G == {s \in SUBSET S : it[s] = Cardinality(Ones(f, s))}
<1>2. ASSUME NEW s \in SUBSET S, \A t \in SUBSET s : t # s => t \in G
      PROVE  s \in G
  <2>1. CASE s = {}
    <3>1. Ones(f, s) = {} /\ it[s] = 0
      BY <1>1, <2>1 DEF Ones, PartSums
    <3> QED
      BY <3>1, FS_EmptySet
  <2>2. CASE s # {}
    <3>1. PICK x \in s : TRUE
      BY <2>2
    <3> DEFINE o == Ones(f, s \ {x})
    <3>2. it[s \ {x}] = Cardinality(o)
      BY <1>2, <3>1
    <3>3. it[s] = f[x] + Cardinality(o)
      BY <1>1, <3>1, <3>2 DEF PartSums
    <3>4. o \in SUBSET S /\ x \notin o /\ f[x] \in {0, 1}
      BY <3>1 DEF Ones
    <3>5. IsFiniteSet(o) /\ Cardinality(o) \in Nat
      BY <3>4, FS_Subset, FS_CardinalityType
    <3>6. Ones(f, s) = IF f[x] = 1 THEN o \cup {x} ELSE o
      BY <3>1 DEF Ones
    <3> HIDE DEF o
    <3>7. f[x] = 1 => Cardinality(Ones(f, s)) = Cardinality(o) + 1
      BY <3>4, <3>5, <3>6, FS_AddElement
    <3>8. CASE f[x] = 1
      BY <3>3, <3>5, <3>7, <3>8
    <3>9. CASE f[x] = 0
      BY <3>3, <3>5, <3>6, <3>9
    <3> QED
      BY <3>4, <3>8, <3>9
  <2> QED
    BY <2>1, <2>2
<1> HIDE DEF G
<1>3. S \in G
  BY <1>2, EverySubset
<1> QED
  BY <1>1, <1>3 DEF G

\* The next summand of a sequence.
LEMMA TotalAppended ==
  ASSUME NEW n \in Nat, NEW g \in [1 .. n -> Nat], NEW f \in [1 .. n + 1 -> Nat],
         \A i \in 1 .. n : f[i] = g[i]
  PROVE  Total(f) = Total(g) + f[n + 1] /\ Total(g) \in Nat /\ f[n + 1] \in Nat
<1> DEFINE S == 1 .. n
           p == n + 1
<1>1. IsFiniteSet(S)
  BY FS_Interval
<1>2. 1 .. n + 1 = S \cup {p} /\ p \notin S
  OBVIOUS
<1>3. p \notin S /\ g \in [S -> Nat] /\ f \in [S \cup {p} -> Nat] /\ \A i \in S : g[i] = f[i]
  BY <1>2
<1> HIDE DEF S, p
<1>4. Total(f) = Total(g) + f[p] /\ Total(g) \in Nat /\ f[p] \in Nat
  BY <1>1, <1>3, TotalPlus
<1> QED
  BY <1>4 DEF p

=============================================================================
