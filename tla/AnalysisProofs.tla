--------------------------- MODULE AnalysisProofs ---------------------------
(***************************************************************************)
(* Proofs about correlation, the risk score, the gate and the plan, for    *)
(* any finite set of findings of any kind, any number of scans of the      *)
(* project, any policies and any cap on the size of a bucket.              *)
(***************************************************************************)
EXTENDS Analysis, FiniteSetTheorems, TLAPS

-----------------------------------------------------------------------------
(* Sums over finite sets.  The library's induction theorems are about       *)
(* operators, which the provers cannot instantiate; these are about sets.  *)

LEMMA LeastNatural ==
    ASSUME NEW T \in SUBSET Nat, T # {}
    PROVE  \E n \in T : \A m \in T : n <= m
<1>1. IsWellFoundedOn(OpToRel(<, Nat), Nat)
  BY NatLessThanWellFounded
<1>2. PICK n \in T : \A m \in T : <<m, n>> \notin OpToRel(<, Nat)
  BY <1>1, WFMin
<1>3. \A m \in T : ~(m < n)
  BY <1>2 DEF OpToRel
<1>. QED  BY <1>3

LEMMA InductionOnNat ==
    ASSUME NEW N, 0 \in N, \A n \in Nat : n \in N => n + 1 \in N
    PROVE  Nat \subseteq N
<1>. SUFFICES ASSUME Nat \ N # {} PROVE FALSE
  OBVIOUS
<1>1. PICK n \in Nat \ N : \A m \in Nat \ N : n <= m
  BY LeastNatural
<1>2. n # 0 /\ n - 1 \in Nat /\ n - 1 \in N
  BY <1>1
<1>. QED  BY <1>1, <1>2

\* What holds of a set if it holds of the set without any of its elements.
LEMMA InductionOnSubsets ==
    ASSUME NEW S, IsFiniteSet(S), NEW Good,
           \A T \in SUBSET S : (\A x \in T : T \ {x} \in Good) => T \in Good
    PROVE  SUBSET S \subseteq Good
<1>. DEFINE N == {n \in Nat : \A T \in SUBSET S : Cardinality(T) = n => T \in Good}
<1>0. \A T \in SUBSET S : IsFiniteSet(T) /\ Cardinality(T) \in Nat
  BY FS_Subset, FS_CardinalityType
<1>1. 0 \in N
  BY <1>0, FS_EmptySet
<1>2. ASSUME NEW n \in Nat, n \in N PROVE n + 1 \in N
  <2>1. SUFFICES ASSUME NEW T \in SUBSET S, Cardinality(T) = n + 1, NEW x \in T
                 PROVE  T \ {x} \in Good
    OBVIOUS
  <2>2. Cardinality(T \ {x}) = n
    BY <1>0, <2>1, FS_RemoveElement
  <2>. QED  BY <1>2, <2>1, <2>2
<1>. HIDE DEF N
<1>3. Nat \subseteq N
  BY <1>1, <1>2, InductionOnNat
<1>. QED  BY <1>0, <1>3 DEF N

\* The order in which a fold takes the elements of a set.
First(s) == CHOOSE x \in s : TRUE
Rest(s) == s \ {First(s)}

\* What the fold's function computes from the sums of smaller sets.
Step(g, r, s) == IF s = {} THEN 0 ELSE r[First(s)] + g[Rest(s)]

LEMMA FirstIsIn ==
    ASSUME NEW s, s # {}
    PROVE  First(s) \in s
  BY DEF First

LEMMA SumUnfolds ==
    ASSUME NEW r, NEW T
    PROVE  SumFunctionOnSet(r, T) = (CHOOSE g : g = [s \in SUBSET T |-> Step(g, r, s)])[T]
  BY DEF SumFunctionOnSet, FoldFunctionOnSet, MapThenFoldSet, Step, Rest, First

\* The function that sums exists, although it is defined in terms of itself.
LEMMA SumExists ==
    ASSUME NEW S, IsFiniteSet(S), NEW r \in [S -> Nat]
    PROVE  \E g \in [SUBSET S -> Nat] : \A s \in SUBSET S : g[s] = Step(g, r, s)
<1>. DEFINE Sums(n) == {g \in [SUBSET S -> Nat] :
                          \A s \in SUBSET S : Cardinality(s) <= n => g[s] = Step(g, r, s)}
            N == {n \in Nat : Sums(n) # {}}
<1>0. \A T \in SUBSET S : IsFiniteSet(T) /\ Cardinality(T) \in Nat
  BY FS_Subset, FS_CardinalityType
<1>1. 0 \in N
  <2>1. [s \in SUBSET S |-> 0] \in [SUBSET S -> Nat]
    OBVIOUS
  <2>2. ASSUME NEW s \in SUBSET S, Cardinality(s) <= 0 PROVE s = {}
    BY <1>0, <2>2, FS_EmptySet
  <2>3. [s \in SUBSET S |-> 0] \in Sums(0)
    BY <2>1, <2>2 DEF Step
  <2>. QED  BY <2>3
<1>2. ASSUME NEW n \in Nat, n \in N PROVE n + 1 \in N
  <2>1. PICK g \in Sums(n) : TRUE
    BY <1>2
  <2>. DEFINE h == [s \in SUBSET S |-> Step(g, r, s)]
  <2>2. ASSUME NEW s \in SUBSET S, s # {} 
        PROVE  First(s) \in S /\ Rest(s) \in SUBSET S /\ Cardinality(Rest(s)) = Cardinality(s) - 1
    BY <1>0, <2>2, FirstIsIn, FS_RemoveElement DEF Rest
  <2>3. h \in [SUBSET S -> Nat]
    BY <2>1, <2>2 DEF Step
  <2>4. ASSUME NEW s \in SUBSET S, Cardinality(s) <= n + 1 PROVE h[s] = Step(h, r, s)
    <3>1. CASE s = {}
      BY <3>1 DEF Step
    <3>2. CASE s # {}
      <4>1. Rest(s) \in SUBSET S /\ Cardinality(Rest(s)) <= n
        BY <1>0, <2>2, <2>4, <3>2
      <4>2. h[Rest(s)] = g[Rest(s)]
        BY <2>1, <4>1
      <4>. QED  BY <3>2, <4>2 DEF Step
    <3>. QED  BY <3>1, <3>2
  <2>. HIDE DEF h
  <2>5. h \in Sums(n + 1)
    BY <2>3, <2>4
  <2>. QED  BY <2>5
<1>. HIDE DEF N
<1>3. Cardinality(S) \in N
  BY <1>0, <1>1, <1>2, InductionOnNat
<1>4. PICK g \in Sums(Cardinality(S)) : TRUE
  BY <1>3 DEF N
<1>5. \A s \in SUBSET S : Cardinality(s) <= Cardinality(S)
  BY FS_Subset
<1>. QED  BY <1>4, <1>5

\* Summing takes one element after the other, the first one first.
LEMMA SumRecurs ==
    ASSUME NEW S, IsFiniteSet(S), NEW r \in [S -> Nat], NEW T \in SUBSET S
    PROVE  /\ SumFunctionOnSet(r, T) \in Nat
           /\ T = {} => SumFunctionOnSet(r, T) = 0
           /\ T # {} => SumFunctionOnSet(r, T) = r[First(T)] + SumFunctionOnSet(r, Rest(T))
<1>1. PICK g \in [SUBSET S -> Nat] : \A s \in SUBSET S : g[s] = Step(g, r, s)
  BY SumExists, ZenonT(40)
<1>2. ASSUME NEW U \in SUBSET S PROVE SumFunctionOnSet(r, U) = g[U]
  <2>. DEFINE gU == [s \in SUBSET U |-> g[s]]
              h == CHOOSE q : q = [s \in SUBSET U |-> Step(q, r, s)]
              Good == {s \in SUBSET U : h[s] = g[s]}
  <2>0. \A s \in SUBSET U : s # {} => First(s) \in s /\ Rest(s) \in SUBSET U
    BY FirstIsIn DEF Rest
  <2>1. gU = [s \in SUBSET U |-> Step(gU, r, s)]
    <3>1. ASSUME NEW s \in SUBSET U PROVE gU[s] = Step(gU, r, s)
      BY <1>1, <2>0 DEF Step
    <3>. QED  BY <3>1
  <2>. HIDE DEF gU
  <2>2. h = [s \in SUBSET U |-> Step(h, r, s)]
    BY <2>1
  <2>. HIDE DEF h
  <2>3. IsFiniteSet(U)
    BY FS_Subset
  <2>4. ASSUME NEW s \in SUBSET U, \A x \in s : s \ {x} \in Good PROVE s \in Good
    <3>1. CASE s = {}
      <4>1. h[s] = Step(h, r, s) /\ g[s] = Step(g, r, s)
        BY <1>1, <2>2
      <4>. QED  BY <3>1, <4>1 DEF Step
    <3>2. CASE s # {}
      <4>1. h[s] = Step(h, r, s) /\ g[s] = Step(g, r, s)
        BY <1>1, <2>2
      <4>2. h[Rest(s)] = g[Rest(s)]
        BY <2>0, <2>4, <3>2 DEF Rest
      <4>. QED  BY <3>2, <4>1, <4>2 DEF Step
    <3>. QED  BY <3>1, <3>2
  <2>. HIDE DEF Good
  <2>5. SUBSET U \subseteq Good
    BY <2>3, <2>4, InductionOnSubsets
  <2>6. h[U] = g[U]
    BY <2>5 DEF Good
  <2>. QED  BY <2>6, SumUnfolds DEF h
<1>3. T # {} => Rest(T) \in SUBSET S
  BY DEF Rest
<1>. QED  BY <1>1, <1>2, <1>3 DEF Step

\* The order of summing makes no difference: any element may come first.
LEMMA SumSplits ==
    ASSUME NEW S, IsFiniteSet(S), NEW r \in [S -> Nat], NEW T \in SUBSET S, NEW x \in T
    PROVE  SumFunctionOnSet(r, T) = r[x] + SumFunctionOnSet(r, T \ {x})
<1>. DEFINE sum(U) == SumFunctionOnSet(r, U)
            Good == {U \in SUBSET S : \A y \in U : sum(U) = r[y] + sum(U \ {y})}
<1>1. ASSUME NEW U \in SUBSET S
      PROVE  sum(U) \in Nat /\ (U # {} => sum(U) = r[First(U)] + sum(U \ {First(U)}))
  <2>1. sum(U) \in Nat /\ (U # {} => sum(U) = r[First(U)] + sum(Rest(U)))
    BY SumRecurs
  <2>. QED  BY <2>1 DEF Rest
<1>2. ASSUME NEW U \in SUBSET S, \A y \in U : U \ {y} \in Good PROVE U \in Good
  <2>1. SUFFICES ASSUME NEW y \in U PROVE sum(U) = r[y] + sum(U \ {y})
    OBVIOUS
  <2>. DEFINE c == First(U)
  <2>2. c \in U
    BY FirstIsIn
  <2>3. sum(U) = r[c] + sum(U \ {c})
    BY <1>1
  <2>. HIDE DEF c
  <2>4. CASE c = y
    BY <2>3, <2>4
  <2>5. CASE c # y
    <3>1. sum(U \ {c}) = r[y] + sum((U \ {c}) \ {y})
      BY <1>2, <2>2, <2>5
    <3>2. sum(U \ {y}) = r[c] + sum((U \ {y}) \ {c})
      BY <1>2, <2>2, <2>5
    <3>3. (U \ {c}) \ {y} = (U \ {y}) \ {c}
      OBVIOUS
    <3>4. r[c] \in Nat /\ r[y] \in Nat /\ sum((U \ {c}) \ {y}) \in Nat
      BY <1>1, <2>2
    <3>5. sum((U \ {c}) \ {y}) = sum((U \ {y}) \ {c})
      BY <3>3
    <3>. HIDE DEF sum
    <3>. QED  BY <2>3, <3>1, <3>2, <3>4, <3>5
  <2>. QED  BY <2>4, <2>5
<1>. HIDE DEF Good
<1>3. SUBSET S \subseteq Good
  BY <1>2, InductionOnSubsets
<1>. QED  BY <1>3 DEF Good

\* Fewer and smaller numbers have a smaller sum.
LEMMA SumGrows ==
    ASSUME NEW S, IsFiniteSet(S), NEW r \in [S -> Nat],
           NEW U \in SUBSET S, NEW q \in [U -> Nat], \A x \in U : q[x] <= r[x]
    PROVE  /\ SumFunction(q) \in Nat /\ SumFunction(r) \in Nat
           /\ SumFunction(q) <= SumFunction(r)
<1>. DEFINE sum(T) == SumFunctionOnSet(r, T)
            less(T) == SumFunctionOnSet(q, T)
            Good == {T \in SUBSET S : less(T \intersect U) <= sum(T)}
<1>0. IsFiniteSet(U)
  BY FS_Subset
<1>1. \A T \in SUBSET S : sum(T) \in Nat
  BY SumRecurs
<1>2. \A T \in SUBSET U : less(T) \in Nat
  BY <1>0, SumRecurs
<1>3. less({}) = 0
  BY <1>0, SumRecurs
<1>4. ASSUME NEW T \in SUBSET S, NEW x \in T PROVE sum(T) = r[x] + sum(T \ {x})
  BY SumSplits
<1>5. ASSUME NEW T \in SUBSET U, NEW x \in T PROVE less(T) = q[x] + less(T \ {x})
  BY <1>0, SumSplits
<1>. HIDE DEF sum, less
<1>6. ASSUME NEW T \in SUBSET S, \A x \in T : T \ {x} \in Good PROVE T \in Good
  <2>1. CASE T = {}
    <3>1. T \intersect U = {}
      BY <2>1
    <3>. QED  BY <1>1, <1>3, <3>1, SMTT(30)
  <2>2. CASE T # {}
    <3>1. PICK x \in T : TRUE
      BY <2>2
    <3>2. sum(T) = r[x] + sum(T \ {x}) /\ less((T \ {x}) \intersect U) <= sum(T \ {x})
      BY <1>4, <1>6
    <3>3. sum(T \ {x}) \in Nat /\ r[x] \in Nat /\ less((T \ {x}) \intersect U) \in Nat
      BY <1>1, <1>2
    <3>4. CASE x \in U
      <4>1. less(T \intersect U) = q[x] + less((T \intersect U) \ {x})
        BY <1>5, <3>4
      <4>2. (T \intersect U) \ {x} = (T \ {x}) \intersect U
        OBVIOUS
      <4>3. q[x] \in Nat /\ q[x] <= r[x]
        BY <3>4
      <4>4. less(T \intersect U) <= sum(T)
        BY <3>2, <3>3, <4>1, <4>2, <4>3
      <4>. QED  BY <4>4
    <3>5. CASE x \notin U
      <4>1. T \intersect U = (T \ {x}) \intersect U
        BY <3>5
      <4>2. less(T \intersect U) <= sum(T)
        BY <3>2, <3>3, <4>1
      <4>. QED  BY <4>2
    <3>. QED  BY <3>4, <3>5
  <2>. QED  BY <2>1, <2>2
<1>. HIDE DEF Good
<1>7. S \in Good
  BY <1>6, InductionOnSubsets
<1>8. S \intersect U = U /\ DOMAIN q = U /\ DOMAIN r = S
  OBVIOUS
<1>9. less(U) <= sum(S)
  BY <1>7, <1>8 DEF Good
<1>. QED  BY <1>1, <1>2, <1>8, <1>9 DEF SumFunction, sum, less

\* The largest of finitely many numbers exists: their sum bounds them.
LEMMA MaxIsLargest ==
    ASSUME NEW S, IsFiniteSet(S), S # {}, NEW r \in [S -> Nat]
    PROVE  /\ Max(Range(r)) \in Range(r) /\ Max(Range(r)) \in Nat
           /\ \A x \in S : r[x] <= Max(Range(r))
<1>. DEFINE B == {n \in Nat : \A x \in S : r[x] <= n}
<1>1. SumFunctionOnSet(r, S) \in B
  <2>1. ASSUME NEW x \in S PROVE r[x] <= SumFunctionOnSet(r, S)
    <3>1. SumFunctionOnSet(r, S) = r[x] + SumFunctionOnSet(r, S \ {x})
      BY SumSplits
    <3>2. SumFunctionOnSet(r, S \ {x}) \in Nat /\ r[x] \in Nat
      BY SumRecurs
    <3>. QED  BY <3>1, <3>2
  <2>. QED  BY <2>1, SumRecurs
<1>2. PICK b \in B : \A n \in B : b <= n
  BY <1>1, LeastNatural
<1>3. \E x \in S : r[x] = b
  <2>1. SUFFICES ASSUME \A x \in S : r[x] # b PROVE FALSE
    OBVIOUS
  <2>2. \A x \in S : r[x] <= b - 1 /\ r[x] \in Nat
    BY <1>2, <2>1
  <2>3. b - 1 \in B
    BY <1>2, <2>2
  <2>. QED  BY <1>2, <2>3
<1>4. b \in Range(r) /\ \A y \in Range(r) : b >= y
  BY <1>2, <1>3 DEF Range
<1>5. Max(Range(r)) \in Range(r) /\ \A y \in Range(r) : Max(Range(r)) >= y
  BY <1>4 DEF Max
<1>6. Range(r) \subseteq Nat /\ \A x \in S : r[x] \in Range(r)
  BY DEF Range
<1>. QED  BY <1>5, <1>6

-----------------------------------------------------------------------------
(* The engines' own operators *)

LEMMA RankOrders ==
    /\ \A s \in Severities : Rank(s) \in 0..5
    /\ \A s, t \in Severities : Rank(s) = Rank(t) => s = t
  BY DEF Severities, Rank

LEMMA WorstIsWorst ==
    ASSUME NEW W \in SUBSET Severities, W # {}
    PROVE  /\ Worst(W) \in W
           /\ \A t \in W : Rank(t) <= Rank(Worst(W))
<1>1. \E s \in W : \A t \in W : Rank(t) <= Rank(s)
  <2>. DEFINE D == {5 - Rank(s) : s \in W}
  <2>1. D \in SUBSET Nat /\ D # {}
    BY RankOrders
  <2>2. PICK n \in D : \A m \in D : n <= m
    BY <2>1, LeastNatural
  <2>3. PICK s \in W : n = 5 - Rank(s)
    BY <2>2
  <2>4. ASSUME NEW t \in W PROVE Rank(t) <= Rank(s)
    <3>1. 5 - Rank(s) <= 5 - Rank(t)
      BY <2>2, <2>3
    <3>. QED  BY <3>1, RankOrders
  <2>. QED  BY <2>3, <2>4
<1>. QED  BY <1>1 DEF Worst

LEMMA WorstGrows ==
    ASSUME NEW V \in SUBSET Severities, V # {}, NEW W \in SUBSET Severities, W # {},
           \A s \in V : \E t \in W : Rank(s) <= Rank(t)
    PROVE  Rank(Worst(V)) <= Rank(Worst(W))
<1>1. Worst(V) \in V /\ Worst(W) \in W
  BY WorstIsWorst
<1>2. PICK t \in W : Rank(Worst(V)) <= Rank(t)
  BY <1>1
<1>3. Rank(t) <= Rank(Worst(W))
  BY WorstIsWorst
<1>4. Rank(Worst(V)) \in Int /\ Rank(t) \in Int /\ Rank(Worst(W)) \in Int
  BY <1>1, RankOrders
<1>. QED  BY <1>2, <1>3, <1>4

LEMMA EscalateRaises ==
    /\ \A s \in Severities : Escalate(s) \in Severities /\ Rank(s) <= Rank(Escalate(s))
    /\ \A s, t \in Severities :
          Rank(s) <= Rank(t) /\ (t = "unknown" => s = "unknown")
             => Rank(Escalate(s)) <= Rank(Escalate(t))
  BY DEF Severities, Rank, Escalate

LEMMA AttributesAreTyped ==
    ASSUME attr \in Catalogues, NEW f \in Findings
    PROVE  /\ attr[f].severity \in Severities
           /\ attr[f].confidence \in {"high", "medium", "low"}
           /\ attr[f].epss \in Nat \union {-1}
  BY CataloguesAssumption

\* The severities an issue's own is derived from.
Assessed(members) == {attr[f].severity : f \in members} \union {"info"}

LEMMA AssessedAreTyped ==
    ASSUME attr \in Catalogues, NEW M \in SUBSET Findings
    PROVE  Assessed(M) \in SUBSET Severities /\ Assessed(M) # {} /\ Worst(Assessed(M)) \in Severities
<1>1. Assessed(M) \in SUBSET Severities /\ Assessed(M) # {}
  BY AttributesAreTyped DEF Assessed, Severities
<1>. QED  BY <1>1, WorstIsWorst

LEMMA IssueSeverityIsTyped ==
    ASSUME attr \in Catalogues, NEW M \in SUBSET Findings
    PROVE  IssueSeverity(M) \in Severities
  BY AssessedAreTyped, EscalateRaises DEF IssueSeverity, Assessed

LEMMA CategoriesGrow ==
    ASSUME NEW M, IsFiniteSet(M), NEW L \in SUBSET M
    PROVE  /\ Cardinality(Categories(L)) \in Nat
           /\ Cardinality(Categories(L)) <= Cardinality(Categories(M))
<1>. DEFINE c == [f \in M |-> attr[f].category]
<1>1. c \in Surjection(M, Categories(M))
  BY DEF Categories, Surjection
<1>2. IsFiniteSet(Categories(M))
  BY <1>1, FS_Surjection
<1>3. Categories(L) \subseteq Categories(M)
  BY DEF Categories
<1>. QED  BY <1>2, <1>3, FS_Subset, FS_CardinalityType

\* A member more never lowers an issue's severity, unless it is a member of
\* unknown severity: that outranks low and info members and is not escalated.
LEMMA IssueSeverityGrows ==
    ASSUME attr \in Catalogues, NEW M \in SUBSET Findings, IsFiniteSet(M),
           NEW L \in SUBSET M, \A f \in M \ L : attr[f].severity # "unknown"
    PROVE  Rank(IssueSeverity(L)) <= Rank(IssueSeverity(M))
<1>. DEFINE v == Worst(Assessed(L))
            w == Worst(Assessed(M))
<1>1. v \in Severities /\ w \in Severities
  BY AssessedAreTyped
<1>2. Rank(v) <= Rank(w)
  <2>1. Assessed(L) \subseteq Assessed(M)
    BY DEF Assessed
  <2>2. /\ Assessed(L) \in SUBSET Severities /\ Assessed(L) # {}
        /\ Assessed(M) \in SUBSET Severities /\ Assessed(M) # {}
    BY AssessedAreTyped
  <2>3. \A s \in Assessed(L) : Rank(s) <= Rank(s)
    BY <2>2, RankOrders
  <2>. QED  BY <2>1, <2>2, <2>3, WorstGrows
<1>3. w = "unknown" => v = "unknown"
  <2>1. SUFFICES ASSUME w = "unknown" PROVE v = "unknown"
    OBVIOUS
  <2>2. "unknown" \in Assessed(M)
    BY <2>1, AssessedAreTyped, WorstIsWorst
  <2>3. "unknown" \in Assessed(L)
    BY <2>2 DEF Assessed
  <2>4. Rank("unknown") <= Rank(v)
    BY <2>3, AssessedAreTyped, WorstIsWorst
  <2>5. Rank(v) = Rank(w)
    BY <1>1, <1>2, <2>1, <2>4, RankOrders
  <2>. QED  BY <1>1, <2>1, <2>5, RankOrders
<1>4. Cardinality(Categories(L)) \in Nat /\ Cardinality(Categories(M)) \in Nat
      /\ Cardinality(Categories(L)) <= Cardinality(Categories(M))
  BY CategoriesGrow
<1>5. /\ IssueSeverity(L) = IF Cardinality(Categories(L)) < 2 THEN v ELSE Escalate(v)
      /\ IssueSeverity(M) = IF Cardinality(Categories(M)) < 2 THEN w ELSE Escalate(w)
  BY DEF IssueSeverity, Assessed
<1>6. Rank(w) <= Rank(Escalate(w)) /\ Rank(Escalate(v)) <= Rank(Escalate(w))
  BY <1>1, <1>2, <1>3, EscalateRaises
<1>7. Rank(v) \in Int /\ Rank(w) \in Int /\ Rank(Escalate(w)) \in Int
  BY <1>1, EscalateRaises, RankOrders
<1>. HIDE DEF v, w
<1>. QED  BY <1>2, <1>4, <1>5, <1>6, <1>7

\* Correlated issues as the score reads them.
AreIssues(stored) == \A i \in stored : i.severity \in Severities

LEMMA EffectiveIsTyped ==
    ASSUME attr \in Catalogues, NEW f \in Findings, NEW stored, AreIssues(stored)
    PROVE  EffectiveSeverity(f, stored) \in Severities
<1>. DEFINE W == {attr[f].severity} \union {i.severity : i \in {x \in stored : f \in x.members}}
<1>1. W \in SUBSET Severities /\ W # {}
  BY AttributesAreTyped DEF AreIssues
<1>. QED  BY <1>1, WorstIsWorst DEF EffectiveSeverity

LEMMA FactorsAreTyped ==
    ASSUME attr \in Catalogues, NEW f \in Findings
    PROVE  ExploitabilityFactor(f) \in Nat /\ ConfidenceFactor(f) \in Nat
  BY AttributesAreTyped
     DEF ExploitabilityFactor, ConfidenceFactor, ConfidenceWeight, RaiseConfidence

LEMMA WeightsFollowRank ==
    /\ \A s \in Severities : SeverityWeight(s) \in Nat
    /\ \A s, t \in Severities : Rank(s) <= Rank(t) => SeverityWeight(s) <= SeverityWeight(t)
  BY DEF Severities, Rank, SeverityWeight

LEMMA ProductGrows ==
    ASSUME NEW a \in Nat, NEW b \in Nat, a <= b, NEW n \in Nat
    PROVE  a * n \in Nat /\ a * n <= b * n
  OBVIOUS

LEMMA RiskIsTyped ==
    ASSUME attr \in Catalogues, NEW f \in Findings, NEW stored, AreIssues(stored)
    PROVE  RiskOf(f, stored) \in Nat
<1>1. SeverityWeight(EffectiveSeverity(f, stored)) \in Nat
  BY EffectiveIsTyped, WeightsFollowRank
<1>. QED  BY <1>1, FactorsAreTyped DEF RiskOf

\* A finding's risk rests on the worst issue it is in.
LEMMA RiskGrows ==
    ASSUME attr \in Catalogues, NEW f \in Findings,
           NEW less, AreIssues(less), NEW stored, AreIssues(stored),
           \A i \in less : f \in i.members =>
               \E j \in stored : f \in j.members /\ Rank(i.severity) <= Rank(j.severity)
    PROVE  RiskOf(f, less) <= RiskOf(f, stored)
<1>. DEFINE V == {attr[f].severity} \union {i.severity : i \in {x \in less : f \in x.members}}
            W == {attr[f].severity} \union {i.severity : i \in {x \in stored : f \in x.members}}
            v == SeverityWeight(EffectiveSeverity(f, less))
            w == SeverityWeight(EffectiveSeverity(f, stored))
            e == ExploitabilityFactor(f)
            c == ConfidenceFactor(f)
<1>1. V \in SUBSET Severities /\ V # {} /\ W \in SUBSET Severities /\ W # {}
  BY AttributesAreTyped DEF AreIssues
<1>2. ASSUME NEW s \in V PROVE \E t \in W : Rank(s) <= Rank(t)
  <2>1. CASE s = attr[f].severity
    <3>1. s \in W /\ Rank(s) <= Rank(s)
      BY <2>1, AttributesAreTyped, RankOrders
    <3>. QED  BY <3>1
  <2>2. CASE s # attr[f].severity
    <3>1. PICK i \in less : f \in i.members /\ s = i.severity
      BY <2>2
    <3>2. PICK j \in stored : f \in j.members /\ Rank(i.severity) <= Rank(j.severity)
      BY <3>1
    <3>. QED  BY <3>1, <3>2
  <2>. QED  BY <2>1, <2>2
<1>3. Rank(Worst(V)) <= Rank(Worst(W))
  BY <1>1, <1>2, WorstGrows
<1>4. v \in Nat /\ w \in Nat /\ v <= w
  <2>1. EffectiveSeverity(f, less) = Worst(V) /\ EffectiveSeverity(f, stored) = Worst(W)
    BY DEF EffectiveSeverity
  <2>. QED  BY <1>3, <2>1, EffectiveIsTyped, WeightsFollowRank
<1>5. e \in Nat /\ c \in Nat
  BY FactorsAreTyped
<1>6. RiskOf(f, less) = (v * e) * c /\ RiskOf(f, stored) = (w * e) * c
  BY DEF RiskOf
<1>. HIDE DEF v, w, e, c
<1>7. v * e \in Nat /\ w * e \in Nat /\ v * e <= w * e
  BY <1>4, <1>5, ProductGrows
<1>8. (v * e) * c <= (w * e) * c
  BY <1>5, <1>7, ProductGrows
<1>. QED  BY <1>6, <1>8

\* More findings, each with as much risk or more, never have a lower total.
LEMMA TotalGrows ==
    ASSUME attr \in Catalogues, NEW T \in SUBSET Findings, NEW U \in SUBSET T,
           NEW less, AreIssues(less), NEW stored, AreIssues(stored),
           \A f \in U : RiskOf(f, less) <= RiskOf(f, stored)
    PROVE  /\ Total(U, less) \in Nat /\ Total(T, stored) \in Nat
           /\ Total(U, less) <= Total(T, stored)
<1>. DEFINE q == Risks(U, less)
            r == Risks(T, stored)
            maxq == Max(Range(q))
            maxr == Max(Range(r))
            sumq == SumFunction(q)
            sumr == SumFunction(r)
<1>0. IsFiniteSet(T) /\ IsFiniteSet(U)
  BY FS_Subset, ConstantsAssumption
<1>1. q \in [U -> Nat] /\ r \in [T -> Nat] /\ \A f \in U : q[f] <= r[f]
  BY RiskIsTyped DEF Risks
<1>2. /\ Total(U, less) = IF U = {} THEN 0 ELSE 100 * maxq + 15 * (sumq - maxq)
      /\ Total(T, stored) = IF T = {} THEN 0 ELSE 100 * maxr + 15 * (sumr - maxr)
  BY DEF Total
<1>. HIDE DEF q, r
<1>3. sumq \in Nat /\ sumr \in Nat /\ sumq <= sumr
  BY <1>0, <1>1, SumGrows
<1>4. T # {} => maxr \in Nat
  BY <1>0, <1>1, MaxIsLargest
<1>5. ASSUME U # {} PROVE maxq \in Nat /\ maxq <= maxr
  <2>1. maxq \in Range(q) /\ maxq \in Nat
    BY <1>0, <1>1, <1>5, MaxIsLargest
  <2>2. PICK f \in U : maxq = q[f]
    BY <1>1, <2>1 DEF Range
  <2>3. r[f] <= maxr /\ r[f] \in Nat /\ q[f] <= r[f] /\ maxr \in Nat
    BY <1>0, <1>1, MaxIsLargest
  <2>. QED  BY <2>1, <2>2, <2>3
<1>. HIDE DEF maxq, maxr, sumq, sumr
<1>6. CASE U = {}
  BY <1>2, <1>3, <1>4, <1>6
<1>7. CASE U # {}
  BY <1>2, <1>3, <1>4, <1>5, <1>7
<1>. QED  BY <1>6, <1>7

-----------------------------------------------------------------------------
(* Correlation: what issues are, and what a finding more does to them *)

LEMMA MembersShareTheKey ==
    ASSUME NEW k, NEW S
    PROVE  /\ Members(k, S) \subseteq S
           /\ \A f \in Members(k, S) : k \in KeysOf(f)
  BY DEF Members, Bucket

LEMMA DeploymentIsTyped ==
    ASSUME NEW k, NEW a
    PROVE  DeploymentOf(k, a) \in {"unknown", "deployed", "not_deployed"}
  BY DEF DeploymentOf

LEMMA IssueIs ==
    ASSUME NEW S, NEW a, NEW n \in IssuesOf(S, a)
    PROVE  /\ n.key \in Keys(S)
           /\ n.key[1] = "file" => Cardinality(Categories(Members(n.key, S))) >= 2
           /\ n = [key |-> n.key, members |-> Members(n.key, S),
                   severity |-> IssueSeverity(Members(n.key, S)),
                   deployment |-> DeploymentOf(n.key, a)]
  BY DEF IssuesOf

LEMMA IssuesOfAreWhole ==
    ASSUME attr \in Catalogues, NEW S \in SUBSET Findings, NEW a
    PROVE  /\ AreIssues(IssuesOf(S, a))
           /\ \A n \in IssuesOf(S, a) :
                 /\ n.severity \in Severities
                 /\ n.members \in SUBSET Findings
                 /\ n.deployment \in {"unknown", "deployed", "not_deployed"}
                 /\ n.deployment = DeploymentOf(n.key, a)
                 /\ Cardinality(n.members) >= 2
                 /\ \A f \in n.members : n.key \in KeysOf(f)
                 /\ \A m \in IssuesOf(S, a) : m.key = n.key => m = n
<1>1. ASSUME NEW n \in IssuesOf(S, a)
      PROVE  /\ n.severity \in Severities
             /\ n.members \in SUBSET Findings
             /\ n.deployment \in {"unknown", "deployed", "not_deployed"}
             /\ n.deployment = DeploymentOf(n.key, a)
             /\ Cardinality(n.members) >= 2
             /\ \A f \in n.members : n.key \in KeysOf(f)
  <2>. DEFINE M == Members(n.key, S)
  <2>1. /\ n.key \in Keys(S) /\ n.members = M /\ n.severity = IssueSeverity(M)
        /\ n.deployment = DeploymentOf(n.key, a)
    BY IssueIs
  <2>2. M \in SUBSET Findings /\ \A f \in M : n.key \in KeysOf(f)
    BY MembersShareTheKey
  <2>3. Cardinality(M) >= 2
    BY <2>1 DEF Keys
  <2>. HIDE DEF M
  <2>. QED  BY <2>1, <2>2, <2>3, IssueSeverityIsTyped, DeploymentIsTyped
<1>2. ASSUME NEW n \in IssuesOf(S, a), NEW m \in IssuesOf(S, a), m.key = n.key PROVE m = n
  BY <1>2, IssueIs
<1>. QED  BY <1>1, <1>2 DEF AreIssues

LEMMA LinksJoinFindings ==
    ASSUME NEW S \in SUBSET Findings, NEW l \in LinksOf(S)
    PROVE  l.pair \in Findings \X Findings
  BY DEF LinksOf

\* Where no bucket is over the cap, a finding more only joins issues, or makes
\* new ones; it takes nobody's place.
LEMMA IssuesGrow ==
    ASSUME attr \in Catalogues, NEW S \in SUBSET Findings, ~Truncated(S), NEW a,
           NEW f \in S, attr[f].severity # "unknown",
           NEW i \in IssuesOf(S \ {f}, a), NEW g \in i.members
    PROVE  \E j \in IssuesOf(S, a) : g \in j.members /\ Rank(i.severity) <= Rank(j.severity)
<1>. DEFINE k == i.key
            L == Members(k, S \ {f})
            M == Members(k, S)
<1>1. /\ k \in Keys(S \ {f}) /\ i.members = L /\ i.severity = IssueSeverity(L)
      /\ k[1] = "file" => Cardinality(Categories(L)) >= 2
  BY IssueIs
<1>2. g \in S /\ k \in KeysOf(g)
  BY <1>1, MembersShareTheKey
<1>3. M = Bucket(k, S)
  BY <1>2 DEF Truncated
<1>4. M \subseteq S /\ IsFiniteSet(M)
  <2>1. M \subseteq S
    BY MembersShareTheKey
  <2>. HIDE DEF M
  <2>. QED  BY <2>1, ConstantsAssumption, FS_Subset
<1>5. L = M \ {f}
  <2>1. Bucket(k, S \ {f}) = M \ {f}
    BY <1>3 DEF Bucket
  <2>2. ASSUME NEW h \in M \ {f}
        PROVE  Cardinality({x \in M \ {f} : x < h}) < MaxBucketSize
    <3>1. Cardinality({x \in M : x < h}) < MaxBucketSize
      BY <1>3 DEF Members
    <3>2. IsFiniteSet({x \in M : x < h})
      BY <1>4, FS_Subset
    <3>3. {x \in M \ {f} : x < h} \in SUBSET {x \in M : x < h}
      OBVIOUS
    <3>4. Cardinality({x \in M \ {f} : x < h}) <= Cardinality({x \in M : x < h})
      BY <3>2, <3>3, FS_Subset
    <3>5. Cardinality({x \in M \ {f} : x < h}) \in Nat /\ Cardinality({x \in M : x < h}) \in Nat
      BY <3>2, <3>3, FS_Subset, FS_CardinalityType
    <3>. QED  BY <3>1, <3>4, <3>5, ConstantsAssumption
  <2>. HIDE DEF M
  <2>. QED  BY <2>1, <2>2 DEF Members
<1>6. Cardinality(L) >= 2 /\ Cardinality(M) >= Cardinality(L)
      /\ Cardinality(L) \in Nat /\ Cardinality(M) \in Nat
  <2>1. Cardinality(L) >= 2
    BY <1>1 DEF Keys
  <2>. HIDE DEF L, M
  <2>. QED  BY <1>4, <1>5, <2>1, FS_Subset, FS_CardinalityType
<1>7. k \in Keys(S)
  <2>1. Cardinality(M) >= 2
    BY <1>6
  <2>. QED  BY <1>2, <2>1 DEF Keys
<1>8. k[1] = "file" => Cardinality(Categories(M)) >= 2
  <2>1. /\ Cardinality(Categories(L)) \in Nat /\ Cardinality(Categories(M)) \in Nat
        /\ Cardinality(Categories(L)) <= Cardinality(Categories(M))
    BY <1>4, <1>5, CategoriesGrow
  <2>. QED  BY <1>1, <2>1
<1>9. Rank(IssueSeverity(L)) <= Rank(IssueSeverity(M))
  <2>. HIDE DEF L, M
  <2>. QED  BY <1>4, <1>5, IssueSeverityGrows
<1>. DEFINE j == [key |-> k, members |-> M, severity |-> IssueSeverity(M),
                  deployment |-> DeploymentOf(k, a)]
<1>10. j \in IssuesOf(S, a)
  BY <1>7, <1>8 DEF IssuesOf
<1>. QED  BY <1>1, <1>5, <1>9, <1>10

\* A finding more never lowers what correlating and scoring give.
LEMMA AddingNeverLowers ==
    ASSUME attr \in Catalogues, NEW S \in SUBSET Findings, ~Truncated(S), NEW a,
           NEW f \in S, attr[f].severity # "unknown"
    PROVE  Total(S \ {f}, IssuesOf(S \ {f}, a)) <= Total(S, IssuesOf(S, a))
<1>1. AreIssues(IssuesOf(S \ {f}, a)) /\ AreIssues(IssuesOf(S, a))
  BY IssuesOfAreWhole
<1>2. ASSUME NEW g \in S \ {f}
      PROVE  RiskOf(g, IssuesOf(S \ {f}, a)) <= RiskOf(g, IssuesOf(S, a))
  <2>1. \A i \in IssuesOf(S \ {f}, a) : g \in i.members =>
            \E j \in IssuesOf(S, a) : g \in j.members /\ Rank(i.severity) <= Rank(j.severity)
    BY IssuesGrow
  <2>. QED  BY <1>1, <2>1, RiskGrows
<1>. QED  BY <1>1, <1>2, TotalGrows

\* Withholding findings, as the plan does, leaves at most the risk there was.
LEMMA WithholdingNeverRaises ==
    ASSUME attr \in Catalogues, NEW S \in SUBSET Findings, NEW W, NEW stored, AreIssues(stored)
    PROVE  Total(S \ W, stored) <= Total(S, stored)
<1>1. \A g \in S : RiskOf(g, stored) \in Nat
  BY RiskIsTyped
<1>2. S \ W \in SUBSET S /\ \A g \in S \ W : RiskOf(g, stored) <= RiskOf(g, stored)
  BY <1>1
<1>. QED  BY <1>2, TotalGrows

\* The verdict is the gravest of what is asked for: a pass is nothing else.
LEMMA PassMeansNoBreach ==
    ASSUME NEW p \in Policies, NEW counted, NEW total, NEW complete \in BOOLEAN
    PROVE  /\ Evaluate(p, counted, total, complete) \in Verdicts
           /\ Evaluate(p, counted, total, complete) = "pass" =>
                 complete /\ Breached(p, counted, total) = {}
<1>. DEFINE breached == Breached(p, counted, total)
            levels == {"pass"} \union {r.level : r \in breached}
                        \union (IF complete THEN {} ELSE {p.incomplete})
            v == Evaluate(p, counted, total, complete)
<1>1. breached \subseteq p.rules
  BY DEF Breached
<1>. HIDE DEF breached
<1>2. levels \subseteq Verdicts /\ "pass" \in levels
  BY <1>1, PoliciesAssumption DEF Verdicts
<1>3. \E u \in levels : \A w \in levels : VerdictRank(w) <= VerdictRank(u)
  BY <1>2 DEF Verdicts, VerdictRank
<1>4. v \in levels /\ \A w \in levels : VerdictRank(w) <= VerdictRank(v)
  BY <1>3 DEF Evaluate, breached
<1>5. ASSUME v = "pass" PROVE complete /\ breached = {}
  <2>1. \A w \in levels : w = "pass"
    BY <1>2, <1>4, <1>5 DEF Verdicts, VerdictRank
  <2>2. complete
    BY <2>1, PoliciesAssumption
  <2>3. breached = {}
    BY <1>1, <2>1, PoliciesAssumption
  <2>. QED  BY <2>2, <2>3
<1>. QED  BY <1>2, <1>4, <1>5 DEF breached

-----------------------------------------------------------------------------
(* The inductive invariant, one part per piece of state *)

JobFields == {"pc", "subjects", "artifact", "alone", "cleared", "unlinked", "scored",
              "counted", "total", "complete", "verdict"}

\* A job is a record with these fields; no step adds one or drops one.
JobsAreRecords ==
    /\ job = [s \in Scans |-> job[s]]
    /\ \A s \in Scans : job[s] = [x \in JobFields |-> job[s][x]]
    /\ \A s \in Scans : job[s].subjects \in SUBSET Findings

LiveNow == {f \in Findings : status[f] \in Live}

\* A correlation that runs alone knows everything that is stored, and nothing
\* it has read has changed since.
LoneCorrelation ==
    \A s \in Scans : job[s].alone =>
        /\ job[s].pc \in Correlating
        /\ \A t \in Scans \ {s} : job[t].pc \notin Correlating
        /\ job[s].subjects = LiveNow
        /\ job[s].pc \in {"clear", "commit"} => job[s].artifact = ArtifactFor
        /\ job[s].pc = "commit" => job[s].cleared = issues /\ job[s].unlinked = links

\* The gate judges what was scored, and only once it has judged is there a
\* verdict; a pass is one that the policy gives.
JudgementIsSound ==
    \A s \in Scans :
        /\ job[s].scored = job[s].counted
        /\ job[s].pc # "done" => job[s].verdict = "none"
        /\ job[s].verdict = "pass" =>
              job[s].complete /\ Breached(policy, job[s].counted, job[s].total) = {}

\* An inventory taken for complete after its truncation was due is complete.
IsKnown(a) == a.found /\ a.complete /\ a.settled => a.purls = Image

ArtifactsAreKnown ==
    /\ \A s \in Scans : IsKnown(job[s].artifact)
    /\ \A i \in issues : /\ IsKnown(i.artifact)
                         /\ i.issue.deployment = DeploymentOf(i.issue.key, i.artifact)

IInv ==
    /\ TypeOK
    /\ JobsAreRecords
    /\ IssuesAreWhole
    /\ LoneCorrelation
    /\ ExactWhenAlone
    /\ JudgementIsSound
    /\ ArtifactsAreKnown

LEMMA InitEstablishes == Init => IInv
<1>. SUFFICES ASSUME Init PROVE IInv
  OBVIOUS
<1>. USE DEF Init, IdleJob, NoArtifact
<1>1. TypeOK
  BY ConstantsAssumption DEF TypeOK, Live, Dismissed, Verdicts
<1>2. JobsAreRecords
  BY DEF JobsAreRecords, JobFields
<1>3. IssuesAreWhole
  BY DEF IssuesAreWhole
<1>4. LoneCorrelation
  BY DEF LoneCorrelation
<1>5. ExactWhenAlone
  BY DEF ExactWhenAlone
<1>6. JudgementIsSound
  BY DEF JudgementIsSound
<1>7. ArtifactsAreKnown
  BY DEF ArtifactsAreKnown, IsKnown
<1>. QED  BY <1>1, <1>2, <1>3, <1>4, <1>5, <1>6, <1>7 DEF IInv

\* The steps, named for the proofs by cases.
ScanStep(s) ==
    \/ \E seen \in Reports : RecordScan(s, seen)
    \/ ListLive(s) \/ ReadArtifact(s) \/ ArtifactUnread(s) \/ Clear(s) \/ Commit(s)
    \/ CorrelateFails(s) \/ Score(s) \/ ScoreFails(s)
    \/ \E complete \in BOOLEAN : Gate(s, complete)
    \/ GateFails(s)
ProjectStep ==
    \/ \E truncated \in BOOLEAN : RecordInventory(truncated)
    \/ RecordScannerResult
    \/ \E f \in Findings, to \in Live \union Dismissed : Transition(f, to)

LEMMA NextIs == Next <=> (\E s \in Scans : ScanStep(s)) \/ ProjectStep
  BY DEF Next, ScanStep, ProjectStep

\* What ListLive does to the jobs: the scan's own reads the live findings, and
\* knows whether it is alone; no other is alone any more.
LEMMA ListLiveSteps ==
    ASSUME JobsAreRecords, NEW s \in Scans, ListLive(s)
    PROVE  /\ job' = [t \in Scans |-> job'[t]]
           /\ \A t \in Scans : /\ job'[t] = [x \in JobFields |-> job'[t][x]]
                               /\ job'[t].subjects \in SUBSET Findings
                               /\ job'[t].artifact = job[t].artifact /\ job'[t].cleared = job[t].cleared
                               /\ job'[t].unlinked = job[t].unlinked /\ job'[t].scored = job[t].scored
                               /\ job'[t].counted = job[t].counted /\ job'[t].total = job[t].total
                               /\ job'[t].complete = job[t].complete /\ job'[t].verdict = job[t].verdict
                               /\ t # s => ~job'[t].alone /\ job'[t].pc = job[t].pc
           /\ job'[s].pc = "artifact" /\ job'[s].subjects = LiveNow
           /\ job'[s].alone => \A t \in Scans \ {s} : job[t].pc \notin Correlating
<1>. DEFINE others == {t \in Scans \ {s} : job[t].pc \in Correlating}
            After(t, alone) ==
              IF t = s THEN [job[s] EXCEPT !.pc = "artifact", !.alone = alone, !.subjects = LiveNow]
              ELSE [job[t] EXCEPT !.alone = FALSE]
<1>. USE DEF JobsAreRecords, JobFields
<1>1. job' = [t \in Scans |-> After(t, others = {})]
  BY DEF ListLive, LiveNow
<1>2. LiveNow \in SUBSET Findings
  BY DEF LiveNow
<1>3. ASSUME NEW t \in Scans, t # s
      PROVE  /\ job'[t] = [x \in JobFields |-> job'[t][x]]
             /\ job'[t].subjects \in SUBSET Findings
             /\ job'[t].artifact = job[t].artifact /\ job'[t].cleared = job[t].cleared
             /\ job'[t].unlinked = job[t].unlinked /\ job'[t].scored = job[t].scored
             /\ job'[t].counted = job[t].counted /\ job'[t].total = job[t].total
             /\ job'[t].complete = job[t].complete /\ job'[t].verdict = job[t].verdict
             /\ ~job'[t].alone /\ job'[t].pc = job[t].pc
  <2>1. job'[t] = [job[t] EXCEPT !.alone = FALSE]
    BY <1>1, <1>3
  <2>2. job[t] = [x \in JobFields |-> job[t][x]] /\ job[t].subjects \in SUBSET Findings
    OBVIOUS
  <2>. QED  BY <2>1, <2>2
<1>4. \/ /\ job'[s] = [job[s] EXCEPT !.pc = "artifact", !.alone = TRUE, !.subjects = LiveNow]
         /\ others = {}
      \/ job'[s] = [job[s] EXCEPT !.pc = "artifact", !.alone = FALSE, !.subjects = LiveNow]
  <2>. HIDE DEF others
  <2>1. job'[s] = After(s, others = {})
    BY <1>1
  <2>2. CASE others = {}
    <3>1. (others = {}) = TRUE
      BY <2>2
    <3>. HIDE DEF After
    <3>2. job'[s] = After(s, TRUE)
      BY <2>1, <3>1, Zenon
    <3>. QED  BY <2>2, <3>2 DEF After
  <2>3. CASE others # {}
    <3>1. (others = {}) = FALSE
      BY <2>3
    <3>. HIDE DEF After
    <3>2. job'[s] = After(s, FALSE)
      BY <2>1, <3>1, Zenon
    <3>. QED  BY <3>2 DEF After
  <2>. QED  BY <2>2, <2>3
<1>5. job[s] = [x \in JobFields |-> job[s][x]]
  OBVIOUS
<1>6. /\ job'[s] = [x \in JobFields |-> job'[s][x]]
      /\ job'[s].subjects \in SUBSET Findings
      /\ job'[s].artifact = job[s].artifact /\ job'[s].cleared = job[s].cleared
      /\ job'[s].unlinked = job[s].unlinked /\ job'[s].scored = job[s].scored
      /\ job'[s].counted = job[s].counted /\ job'[s].total = job[s].total
      /\ job'[s].complete = job[s].complete /\ job'[s].verdict = job[s].verdict
      /\ job'[s].pc = "artifact" /\ job'[s].subjects = LiveNow
      /\ job'[s].alone => others = {}
  <2>. HIDE DEF others
  <2>1. CASE job'[s] = [job[s] EXCEPT !.pc = "artifact", !.alone = TRUE, !.subjects = LiveNow]
                /\ others = {}
    BY <1>2, <1>5, <2>1
  <2>2. CASE job'[s] = [job[s] EXCEPT !.pc = "artifact", !.alone = FALSE, !.subjects = LiveNow]
    BY <1>2, <1>5, <2>2
  <2>. QED  BY <1>4, <2>1, <2>2
<1>7. job' = [t \in Scans |-> job'[t]]
  BY <1>1
<1>. QED  BY <1>3, <1>6, <1>7

LEMMA RecordsStayRecords ==
    ASSUME IInv, [Next]_vars
    PROVE  JobsAreRecords'
<1>. USE DEF JobsAreRecords, JobFields
<1>0. JobsAreRecords
  BY DEF IInv
<1>1. ASSUME NEW s \in Scans, ScanStep(s) PROVE JobsAreRecords'
  <2>1. CASE \E seen \in Reports : RecordScan(s, seen)
    <3>1. PICK seen \in Reports : RecordScan(s, seen)
      BY <2>1
    <3>2. job' = [t \in Scans |-> [job[t] EXCEPT !.alone = FALSE,
                                                !.pc = IF t = s THEN "list" ELSE @]]
      BY <3>1 DEF RecordScan
    <3>. QED  BY <1>0, <3>2, ZenonT(40)
  <2>2. CASE ListLive(s)
    <3>1. /\ job' = [t \in Scans |-> job'[t]]
          /\ \A t \in Scans : /\ job'[t] = [x \in JobFields |-> job'[t][x]]
                              /\ job'[t].subjects \in SUBSET Findings
      BY <1>0, <2>2, ListLiveSteps
    <3>. QED  BY <3>1
  <2>3. CASE ReadArtifact(s) \/ ArtifactUnread(s)
    BY <1>0, <2>3 DEF ReadArtifact, ArtifactUnread
  <2>4. CASE Clear(s)
    BY <1>0, <2>4 DEF Clear
  <2>5. CASE Commit(s) \/ CorrelateFails(s)
    BY <1>0, <2>5 DEF Commit, CorrelateFails, IdleJob
  <2>6. CASE Score(s)
    <3>1. PICK total : job' = [job EXCEPT ![s].pc = "gate", ![s].scored = Scored,
                                          ![s].counted = Counted, ![s].total = total]
      BY <2>6 DEF Score
    <3>. QED  BY <1>0, <3>1
  <2>7. CASE ScoreFails(s) \/ GateFails(s)
    BY <1>0, <2>7 DEF ScoreFails, GateFails
  <2>8. CASE \E complete \in BOOLEAN : Gate(s, complete)
    <3>1. PICK complete, verdict :
             job' = [job EXCEPT ![s].pc = "done", ![s].complete = complete, ![s].verdict = verdict]
      BY <2>8 DEF Gate
    <3>. QED  BY <1>0, <3>1
  <2>. QED  BY <1>1, <2>1, <2>2, <2>3, <2>4, <2>5, <2>6, <2>7, <2>8 DEF ScanStep
<1>2. CASE ProjectStep
  BY <1>0, <1>2 DEF ProjectStep, RecordInventory, RecordScannerResult, Transition, Stale
<1>3. CASE UNCHANGED vars
  BY <1>0, <1>3 DEF vars
<1>. QED  BY <1>1, <1>2, <1>3, NextIs

\* What RecordScan does to the jobs: the scan's own goes on to correlate, and
\* none is alone any more.
LEMMA RecordScanSteps ==
    ASSUME JobsAreRecords, NEW s \in Scans, NEW seen, RecordScan(s, seen), NEW t \in Scans
    PROVE  /\ ~job'[t].alone
           /\ job'[t].pc = IF t = s THEN "list" ELSE job[t].pc
           /\ job'[t].artifact = job[t].artifact /\ job'[t].cleared = job[t].cleared
           /\ job'[t].unlinked = job[t].unlinked /\ job'[t].scored = job[t].scored
           /\ job'[t].counted = job[t].counted /\ job'[t].total = job[t].total
           /\ job'[t].complete = job[t].complete /\ job'[t].verdict = job[t].verdict
<1>1. job'[t] = [job[t] EXCEPT !.alone = FALSE, !.pc = IF t = s THEN "list" ELSE @]
  BY DEF RecordScan
<1>2. job[t] = [x \in JobFields |-> job[t][x]]
  BY DEF JobsAreRecords
<1>. QED  BY <1>1, <1>2 DEF JobFields

LEMMA TotalIsTyped ==
    ASSUME attr \in Catalogues, NEW S \in SUBSET Findings, NEW stored, AreIssues(stored)
    PROVE  Total(S, stored) \in Nat
<1>1. \A g \in S : RiskOf(g, stored) \in Nat
  BY RiskIsTyped
<1>2. \A g \in S : RiskOf(g, stored) <= RiskOf(g, stored)
  BY <1>1
<1>. QED  BY <1>2, TotalGrows

LEMMA StoredIsTyped ==
    ASSUME TypeOK
    PROVE  AreIssues(Stored)
  BY DEF TypeOK, AreIssues, Stored

\* What a correlation may write: the rows that others committed meanwhile, and
\* its own.
LEMMA CommitWrites ==
    ASSUME TypeOK, JobsAreRecords, NEW s \in Scans, Commit(s)
    PROVE  /\ \A i \in issues' : \/ i \in issues
                                 \/ \E n \in IssuesOf(job[s].subjects, job[s].artifact) :
                                       i = [by |-> s, artifact |-> job[s].artifact, issue |-> n]
           /\ \A l \in links' : \/ l \in links
                                \/ \E n \in LinksOf(job[s].subjects) : l = [by |-> s, link |-> n]
           /\ exact' \in Scans \union {NoScan}
           /\ job' = [job EXCEPT ![s] = [IdleJob EXCEPT !.pc = "score"]]
           /\ UNCHANGED <<attr, status, image, policy, humans>>
  BY DEF Commit, TypeOK

LEMMA TypesPreserved ==
    ASSUME IInv, [Next]_vars
    PROVE  TypeOK'
<1>. USE DEF TypeOK
<1>0. TypeOK /\ JobsAreRecords
  BY DEF IInv
<1>1. ASSUME NEW s \in Scans, ScanStep(s) PROVE TypeOK'
  <2>. USE DEF JobsAreRecords, JobFields, Correlating, Verdicts
  <2>1. CASE \E seen \in Reports : RecordScan(s, seen)
    <3>1. PICK seen \in Reports : RecordScan(s, seen)
      BY <2>1
    <3>2. status' \in [Findings -> Live \union Dismissed \union {"none"}]
      BY <1>0, <3>1 DEF RecordScan, Live, Dismissed
    <3>3. ASSUME NEW t \in Scans
          PROVE  job'[t].pc \in {"list", job[t].pc} /\ job'[t].verdict = job[t].verdict
                 /\ job'[t].total = job[t].total
      BY <1>0, <3>1, RecordScanSteps
    <3>4. UNCHANGED <<attr, issues, links, image, policy, humans>> /\ exact' = NoScan
      BY <3>1 DEF RecordScan
    <3>. QED  BY <1>0, <3>2, <3>3, <3>4
  <2>2. CASE ListLive(s)
    <3>1. \A t \in Scans : job'[t].verdict = job[t].verdict /\ job'[t].total = job[t].total
                           /\ job'[t].pc \in {"artifact", job[t].pc}
      BY <1>0, <2>2, ListLiveSteps, ZenonT(40)
    <3>2. UNCHANGED <<attr, status, issues, links, image, policy, humans, exact>>
      BY <2>2 DEF ListLive
    <3>. QED  BY <1>0, <3>1, <3>2
  <2>3. CASE ReadArtifact(s) \/ ArtifactUnread(s)
    BY <1>0, <2>3 DEF ReadArtifact, ArtifactUnread
  <2>4. CASE Clear(s)
    BY <1>0, <2>4 DEF Clear
  <2>5. CASE Commit(s)
    <3>1. \A i \in issues' : /\ i.by \in Scans
                             /\ i.issue.severity \in Severities
                             /\ i.issue.members \in SUBSET Findings
                             /\ i.issue.deployment \in {"unknown", "deployed", "not_deployed"}
      <4>1. SUFFICES ASSUME NEW i \in issues', i \notin issues
                     PROVE  /\ i.by \in Scans
                            /\ i.issue.severity \in Severities
                            /\ i.issue.members \in SUBSET Findings
                            /\ i.issue.deployment \in {"unknown", "deployed", "not_deployed"}
        BY <1>0
      <4>2. PICK n \in IssuesOf(job[s].subjects, job[s].artifact) :
                i = [by |-> s, artifact |-> job[s].artifact, issue |-> n]
        BY <1>0, <2>5, <4>1, CommitWrites
      <4>3. /\ n.severity \in Severities
            /\ n.members \in SUBSET Findings
            /\ n.deployment \in {"unknown", "deployed", "not_deployed"}
        BY <1>0, IssuesOfAreWhole
      <4>. QED  BY <4>2, <4>3
    <3>2. \A l \in links' : l.by \in Scans /\ l.link.pair \in Findings \X Findings
      BY <1>0, <2>5, CommitWrites, LinksJoinFindings
    <3>3. /\ \A t \in Scans : /\ job'[t].pc \in {"score", job[t].pc}
                              /\ job'[t].verdict \in {"none", job[t].verdict}
                              /\ job'[t].total \in {0, job[t].total}
          /\ exact' \in Scans \union {NoScan}
          /\ UNCHANGED <<attr, status, image, policy, humans>>
      BY <1>0, <2>5, CommitWrites DEF IdleJob
    <3>. QED  BY <1>0, <3>1, <3>2, <3>3
  <2>6. CASE CorrelateFails(s)
    <3>1. /\ \A t \in Scans : /\ job'[t].pc \in {"score", job[t].pc}
                              /\ job'[t].verdict \in {"none", job[t].verdict}
                              /\ job'[t].total \in {0, job[t].total}
          /\ UNCHANGED <<attr, status, issues, links, image, policy, humans, exact>>
      BY <1>0, <2>6 DEF CorrelateFails, IdleJob
    <3>. QED  BY <1>0, <3>1
  <2>7. CASE Score(s)
    <3>1. Total(Scored, Stored) \in Nat
      <4>1. Scored \in SUBSET Findings
        BY DEF Scored
      <4>. QED  BY <1>0, <4>1, StoredIsTyped, TotalIsTyped
    <3>2. /\ \A t \in Scans : /\ job'[t].pc \in {"gate", job[t].pc}
                              /\ job'[t].verdict = job[t].verdict
                              /\ job'[t].total \in {Total(Scored, Stored), job[t].total}
          /\ UNCHANGED <<attr, status, issues, links, image, policy, humans, exact>>
      BY <1>0, <2>7 DEF Score
    <3>. QED  BY <1>0, <3>1, <3>2
  <2>8. CASE ScoreFails(s) \/ GateFails(s)
    BY <1>0, <2>8, SMTT(30) DEF ScoreFails, GateFails
  <2>9. CASE \E complete \in BOOLEAN : Gate(s, complete)
    <3>1. PICK complete \in BOOLEAN : Gate(s, complete)
      BY <2>9
    <3>2. Evaluate(policy, job[s].counted, job[s].total, complete) \in Verdicts
      BY <1>0, PassMeansNoBreach
    <3>3. /\ \A t \in Scans : /\ job'[t].pc \in {"done", job[t].pc}
                              /\ job'[t].total = job[t].total
                              /\ job'[t].verdict \in
                                   {Evaluate(policy, job[s].counted, job[s].total, complete), job[t].verdict}
          /\ UNCHANGED <<attr, status, issues, links, image, policy, humans, exact>>
      BY <1>0, <3>1 DEF Gate
    <3>. HIDE DEF Verdicts
    <3>. QED  BY <1>0, <3>2, <3>3
  <2>. QED  BY <1>1, <2>1, <2>2, <2>3, <2>4, <2>5, <2>6, <2>7, <2>8, <2>9 DEF ScanStep
<1>2. CASE ProjectStep
  <2>. USE DEF JobsAreRecords, JobFields
  <2>1. \A t \in Scans : job'[t].pc = job[t].pc /\ job'[t].verdict = job[t].verdict
                         /\ job'[t].total = job[t].total
    BY <1>0, <1>2 DEF ProjectStep, RecordInventory, RecordScannerResult, Transition, Stale
  <2>2. exact' = NoScan /\ UNCHANGED <<attr, issues, links, policy>>
    BY <1>2 DEF ProjectStep, RecordInventory, RecordScannerResult, Transition, Stale
  <2>3. CASE \E truncated \in BOOLEAN : RecordInventory(truncated)
    BY <1>0, <2>1, <2>2, <2>3 DEF RecordInventory
  <2>4. CASE RecordScannerResult
    BY <1>0, <2>1, <2>2, <2>4 DEF RecordScannerResult
  <2>5. CASE \E f \in Findings, to \in Live \union Dismissed : Transition(f, to)
    BY <1>0, <2>1, <2>2, <2>5, ConstantsAssumption DEF Transition
  <2>. QED  BY <1>2, <2>3, <2>4, <2>5 DEF ProjectStep
<1>3. CASE UNCHANGED vars
  BY <1>0, <1>3 DEF vars
<1>. QED  BY <1>1, <1>2, <1>3, NextIs

\* Issues and links are written by a commit alone; findings' attributes and the
\* policy do not change.
LEMMA OnlyCommitsWrite ==
    ASSUME [Next]_vars
    PROVE  /\ UNCHANGED <<attr, policy>>
           /\ UNCHANGED <<issues, links>> \/ \E s \in Scans : Commit(s)
<1>1. ASSUME NEW s \in Scans, ScanStep(s)
      PROVE  UNCHANGED <<attr, policy>> /\ (UNCHANGED <<issues, links>> \/ Commit(s))
  BY <1>1 DEF ScanStep, RecordScan, ListLive, ReadArtifact, ArtifactUnread, Clear, Commit,
              CorrelateFails, Score, ScoreFails, Gate, GateFails
<1>2. CASE ProjectStep
  BY <1>2 DEF ProjectStep, RecordInventory, RecordScannerResult, Transition, Stale
<1>3. CASE UNCHANGED vars
  BY <1>3 DEF vars
<1>. QED  BY <1>1, <1>2, <1>3, NextIs

LEMMA WholePreserved ==
    ASSUME IInv, [Next]_vars
    PROVE  IssuesAreWhole'
<1>0. TypeOK /\ JobsAreRecords /\ IssuesAreWhole
  BY DEF IInv
<1>1. UNCHANGED attr
  BY OnlyCommitsWrite
<1>2. \A f : KeysOf(f)' = KeysOf(f)
  BY <1>1 DEF KeysOf
<1>3. CASE UNCHANGED issues
  BY <1>0, <1>2, <1>3 DEF IssuesAreWhole
<1>4. ASSUME NEW s \in Scans, Commit(s), issues' # issues PROVE IssuesAreWhole'
  <2>. DEFINE kept == issues \ job[s].cleared
              new == IssuesOf(job[s].subjects, job[s].artifact)
              row(n) == [by |-> s, artifact |-> job[s].artifact, issue |-> n]
  <2>1. /\ \A o \in kept, n \in new : o.issue.key # n.key
        /\ issues' = kept \union {row(n) : n \in new}
    BY <1>4 DEF Commit
  <2>2. \A n \in new : /\ Cardinality(n.members) >= 2
                       /\ \A f \in n.members : n.key \in KeysOf(f)
                       /\ \A m \in new : m.key = n.key => m = n
    BY <1>0, IssuesOfAreWhole DEF TypeOK, JobsAreRecords
  <2>. HIDE DEF new
  <2>3. ASSUME NEW i \in issues', NEW o \in issues', i.issue.key = o.issue.key PROVE i = o
    <3>1. CASE i \in kept /\ o \in kept
      BY <1>0, <2>3, <3>1 DEF IssuesAreWhole
    <3>2. CASE i \notin kept /\ o \notin kept
      <4>1. PICK n \in new, m \in new : i = row(n) /\ o = row(m)
        BY <2>1, <3>2
      <4>2. n = m
        BY <2>2, <2>3, <4>1
      <4>. QED  BY <4>1, <4>2
    <3>3. CASE i \in kept /\ o \notin kept
      <4>1. PICK m \in new : o = row(m)
        BY <2>1, <3>3
      <4>. QED  BY <2>1, <2>3, <3>3, <4>1
    <3>4. CASE i \notin kept /\ o \in kept
      <4>1. PICK n \in new : i = row(n)
        BY <2>1, <3>4
      <4>. QED  BY <2>1, <2>3, <3>4, <4>1
    <3>. QED  BY <3>1, <3>2, <3>3, <3>4
  <2>4. ASSUME NEW i \in issues'
        PROVE  Cardinality(i.issue.members) >= 2 /\ \A f \in i.issue.members : i.issue.key \in KeysOf(f)
    <3>1. CASE i \in kept
      BY <1>0, <3>1 DEF IssuesAreWhole
    <3>2. CASE i \notin kept
      <4>1. PICK n \in new : i = row(n)
        BY <2>1, <3>2
      <4>. QED  BY <2>2, <4>1
    <3>. QED  BY <3>1, <3>2
  <2>. QED  BY <1>2, <2>3, <2>4 DEF IssuesAreWhole
<1>. QED  BY <1>3, <1>4, OnlyCommitsWrite

\* A step that changes nothing a correlation reads or writes.
LEMMA LoneStaysLone ==
    ASSUME LoneCorrelation, UNCHANGED <<status, issues, links, image>>,
           \A t \in Scans : job'[t].alone =>
               /\ job[t].alone /\ job'[t].pc = job[t].pc
               /\ job'[t].subjects = job[t].subjects /\ job'[t].artifact = job[t].artifact
               /\ job'[t].cleared = job[t].cleared /\ job'[t].unlinked = job[t].unlinked,
           \A t \in Scans : job'[t].pc \in Correlating => job[t].pc \in Correlating
    PROVE  LoneCorrelation'
<1>1. LiveNow' = LiveNow /\ ArtifactFor' = ArtifactFor
  BY DEF LiveNow, ArtifactFor
<1>. QED  BY <1>1 DEF LoneCorrelation

LEMMA LonePreserved ==
    ASSUME IInv, [Next]_vars
    PROVE  LoneCorrelation'
<1>0. TypeOK /\ JobsAreRecords /\ LoneCorrelation
  BY DEF IInv
<1>1. ASSUME NEW s \in Scans, ScanStep(s) PROVE LoneCorrelation'
  <2>. USE DEF JobsAreRecords, JobFields
  <2>1. CASE \E seen \in Reports : RecordScan(s, seen)
    <3>1. \A t \in Scans : ~job'[t].alone
      BY <1>0, <2>1, RecordScanSteps
    <3>. QED  BY <3>1 DEF LoneCorrelation
  <2>2. CASE ListLive(s)
    <3>1. LiveNow' = LiveNow
      BY <2>2 DEF ListLive, LiveNow
    <3>2. ASSUME NEW t \in Scans, job'[t].alone
          PROVE  /\ t = s /\ job'[t].pc = "artifact" /\ job'[t].subjects = LiveNow'
                 /\ \A u \in Scans \ {t} : job'[u].pc \notin Correlating
      <4>1. t = s
        BY <1>0, <2>2, <3>2, ListLiveSteps
      <4>. QED  BY <1>0, <2>2, <3>1, <3>2, <4>1, ListLiveSteps, ZenonT(40)
    <3>. QED  BY <3>2 DEF LoneCorrelation, Correlating
  <2>3. CASE ReadArtifact(s)
    <3>1. /\ \A t \in Scans \ {s} : job'[t] = job[t]
          /\ job'[s].pc = "clear" /\ job'[s].artifact = ArtifactFor
          /\ job'[s].alone = job[s].alone /\ job'[s].subjects = job[s].subjects
          /\ job[s].pc = "artifact" /\ UNCHANGED <<status, issues, links, image>>
      BY <1>0, <2>3, ZenonT(40) DEF ReadArtifact
    <3>2. LiveNow' = LiveNow /\ ArtifactFor' = ArtifactFor
      BY <3>1 DEF LiveNow, ArtifactFor
    <3>. QED  BY <1>0, <3>1, <3>2 DEF LoneCorrelation, Correlating
  <2>4. CASE ArtifactUnread(s)
    <3>1. /\ \A t \in Scans \ {s} : job'[t] = job[t]
          /\ ~job'[s].alone /\ job[s].pc = "artifact" /\ UNCHANGED <<status, issues, links, image>>
      BY <1>0, <2>4 DEF ArtifactUnread
    <3>. QED  BY <1>0, <3>1, LoneStaysLone DEF Correlating
  <2>5. CASE Clear(s)
    <3>1. /\ \A t \in Scans \ {s} : job'[t] = job[t]
          /\ job'[s].pc = "commit" /\ job'[s].cleared = issues /\ job'[s].unlinked = links
          /\ job'[s].alone = job[s].alone /\ job'[s].subjects = job[s].subjects
          /\ job'[s].artifact = job[s].artifact
          /\ job[s].pc = "clear" /\ UNCHANGED <<status, issues, links, image>>
      BY <1>0, <2>5 DEF Clear
    <3>2. LiveNow' = LiveNow /\ ArtifactFor' = ArtifactFor
      BY <3>1 DEF LiveNow, ArtifactFor
    <3>. QED  BY <1>0, <3>1, <3>2 DEF LoneCorrelation, Correlating
  <2>6. CASE Commit(s)
    <3>1. /\ \A t \in Scans \ {s} : job'[t] = job[t]
          /\ ~job'[s].alone /\ job[s].pc = "commit" /\ UNCHANGED <<status, image>>
      BY <1>0, <2>6, CommitWrites DEF IdleJob, Commit
    <3>2. ASSUME NEW t \in Scans PROVE ~job'[t].alone
      <4>1. CASE t = s
        BY <3>1, <4>1
      <4>2. CASE t # s
        BY <1>0, <3>1, <4>2 DEF LoneCorrelation, Correlating
      <4>. QED  BY <4>1, <4>2
    <3>. QED  BY <3>2 DEF LoneCorrelation
  <2>7. CASE CorrelateFails(s)
    <3>1. /\ \A t \in Scans \ {s} : job'[t] = job[t]
          /\ ~job'[s].alone /\ job'[s].pc = "score" /\ UNCHANGED <<status, issues, links, image>>
      BY <1>0, <2>7 DEF CorrelateFails, IdleJob
    <3>. QED  BY <1>0, <3>1, LoneStaysLone DEF Correlating
  <2>8. CASE Score(s) \/ ScoreFails(s) \/ GateFails(s)
    <3>1. /\ \A t \in Scans \ {s} : job'[t] = job[t]
          /\ job'[s].alone = job[s].alone /\ job'[s].pc \in {"gate", "done"}
          /\ job[s].pc \in {"score", "gate"} /\ UNCHANGED <<status, issues, links, image>>
      BY <1>0, <2>8 DEF Score, ScoreFails, GateFails
    <3>2. ~job[s].alone
      BY <1>0, <3>1 DEF LoneCorrelation, Correlating
    <3>. QED  BY <1>0, <3>1, <3>2, LoneStaysLone DEF Correlating
  <2>9. CASE \E complete \in BOOLEAN : Gate(s, complete)
    <3>1. /\ \A t \in Scans \ {s} : job'[t] = job[t]
          /\ job'[s].alone = job[s].alone /\ job'[s].pc = "done"
          /\ job[s].pc = "gate" /\ UNCHANGED <<status, issues, links, image>>
      BY <1>0, <2>9 DEF Gate
    <3>2. ~job[s].alone
      BY <1>0, <3>1 DEF LoneCorrelation, Correlating
    <3>. QED  BY <1>0, <3>1, <3>2, LoneStaysLone DEF Correlating
  <2>. QED  BY <1>1, <2>1, <2>2, <2>3, <2>4, <2>5, <2>6, <2>7, <2>8, <2>9 DEF ScanStep
<1>2. CASE ProjectStep
  <2>1. \A t \in Scans : ~job'[t].alone
    BY <1>0, <1>2 DEF ProjectStep, RecordInventory, RecordScannerResult, Transition, Stale,
                      JobsAreRecords, JobFields
  <2>. QED  BY <2>1 DEF LoneCorrelation
<1>3. CASE UNCHANGED vars
  BY <1>0, <1>3 DEF vars, LoneCorrelation, LiveNow, ArtifactFor
<1>. QED  BY <1>1, <1>2, <1>3, NextIs

\* The engine depends on nothing but what the findings are.
LEMMA EngineIsStable ==
    ASSUME UNCHANGED attr
    PROVE  /\ \A S, a : IssuesOf(S, a)' = IssuesOf(S, a)
           /\ \A S : LinksOf(S)' = LinksOf(S)
<1>1. \A f : KeysOf(f)' = KeysOf(f)
  BY DEF KeysOf
<1>2. \A k, S : Bucket(k, S)' = Bucket(k, S)
  BY <1>1 DEF Bucket
<1>3. \A k, S : Members(k, S)' = Members(k, S)
  BY <1>2 DEF Members
<1>4. \A S : Keys(S)' = Keys(S)
  BY <1>1, <1>3 DEF Keys
<1>5. \A M : Categories(M)' = Categories(M)
  BY DEF Categories
<1>6. \A M : IssueSeverity(M)' = IssueSeverity(M)
  BY <1>5 DEF IssueSeverity
<1>7. ASSUME NEW S, NEW a PROVE IssuesOf(S, a)' = IssuesOf(S, a)
  BY <1>3, <1>4, <1>5, <1>6 DEF IssuesOf
<1>8. \A k, f, g : Relation(k, f, g)' = Relation(k, f, g)
  BY DEF Relation
<1>9. ASSUME NEW S PROVE LinksOf(S)' = LinksOf(S)
  BY <1>3, <1>4, <1>8 DEF LinksOf
<1>. QED  BY <1>7, <1>9

Linked == {l.link : l \in links}
ExactNow == Stored = IssuesOf(LiveNow, ArtifactFor) /\ Linked = LinksOf(LiveNow)

LEMMA ExactIs ==
    /\ ExactWhenAlone <=> (exact # NoScan => ExactNow)
    /\ ExactWhenAlone' <=> (exact' # NoScan => ExactNow')
  BY DEF ExactWhenAlone, ExactNow, LiveNow, Linked

LEMMA ExactPreserved ==
    ASSUME IInv, [Next]_vars
    PROVE  ExactWhenAlone'
<1>0. TypeOK /\ JobsAreRecords /\ LoneCorrelation /\ (exact # NoScan => ExactNow)
  BY ExactIs DEF IInv
<1>1. UNCHANGED attr
  BY OnlyCommitsWrite
<1>2. ASSUME UNCHANGED <<status, image, issues, links, exact>> PROVE ExactWhenAlone'
  <2>1. LiveNow' = LiveNow /\ ArtifactFor' = ArtifactFor /\ Stored' = Stored /\ Linked' = Linked
    BY <1>2 DEF LiveNow, ArtifactFor, Stored, Linked
  <2>2. IssuesOf(LiveNow, ArtifactFor)' = IssuesOf(LiveNow, ArtifactFor)
        /\ LinksOf(LiveNow)' = LinksOf(LiveNow)
    BY <1>1, <2>1, EngineIsStable
  <2>3. ExactNow' <=> ExactNow
    BY <1>2, <2>1, <2>2 DEF ExactNow
  <2>. QED  BY <1>0, <1>2, <2>3, ExactIs
<1>3. ASSUME exact' = NoScan PROVE ExactWhenAlone'
  BY <1>3 DEF ExactWhenAlone
<1>4. ASSUME NEW s \in Scans, Commit(s) PROVE ExactWhenAlone'
  <2>. DEFINE kept == issues \ job[s].cleared
              linked == links \ job[s].unlinked
              new == IssuesOf(job[s].subjects, job[s].artifact)
              fresh == {l \in LinksOf(job[s].subjects) : ~Conflicts(l, linked)}
  <2>1. CASE job[s].alone
    <3>1. /\ job[s].subjects = LiveNow /\ job[s].artifact = ArtifactFor
          /\ kept = {} /\ linked = {}
      BY <1>0, <1>4, <2>1 DEF LoneCorrelation, Commit
    <3>2. fresh = LinksOf(LiveNow)
      BY <3>1 DEF Conflicts
    <3>3. new = IssuesOf(LiveNow, ArtifactFor)
      BY <3>1
    <3>4. /\ issues' = {[by |-> s, artifact |-> job[s].artifact, issue |-> n] : n \in new}
          /\ links' = {[by |-> s, link |-> l] : l \in fresh}
          /\ UNCHANGED <<status, image>>
      BY <1>4, <3>1 DEF Commit
    <3>. HIDE DEF new, fresh
    <3>5. Stored' = new /\ Linked' = fresh
      <4>. DEFINE row(n) == [by |-> s, artifact |-> job[s].artifact, issue |-> n]
                  joint(l) == [by |-> s, link |-> l]
      <4>1. Stored' = {i.issue : i \in issues'} /\ Linked' = {l.link : l \in links'}
        BY DEF Stored, Linked
      <4>2. \A n : row(n).issue = n /\ joint(n).link = n
        OBVIOUS
      <4>3. issues' = {row(n) : n \in new} /\ links' = {joint(l) : l \in fresh}
        BY <3>4
      <4>. HIDE DEF row, joint
      <4>4. Stored' = new
        BY <4>1, <4>2, <4>3
      <4>5. Linked' = fresh
        BY <4>1, <4>2, <4>3
      <4>. QED  BY <4>4, <4>5
    <3>6. LiveNow' = LiveNow /\ ArtifactFor' = ArtifactFor
      BY <3>4 DEF LiveNow, ArtifactFor
    <3>7. IssuesOf(LiveNow, ArtifactFor)' = IssuesOf(LiveNow, ArtifactFor)
          /\ LinksOf(LiveNow)' = LinksOf(LiveNow)
      BY <1>1, <3>6, EngineIsStable
    <3>8. ExactNow'
      BY <3>2, <3>3, <3>5, <3>7 DEF ExactNow
    <3>. QED  BY <3>8, ExactIs
  <2>2. CASE ~job[s].alone
    <3>1. exact' = NoScan \/ UNCHANGED <<status, image, issues, links, exact>>
      BY <1>4, <2>2 DEF Commit
    <3>. QED  BY <1>2, <1>3, <3>1
  <2>. QED  BY <2>1, <2>2
<1>5. ASSUME NEW s \in Scans, ScanStep(s), ~Commit(s)
      PROVE  exact' = NoScan \/ UNCHANGED <<status, image, issues, links, exact>>
  BY <1>5 DEF ScanStep, RecordScan, ListLive, ReadArtifact, ArtifactUnread, Clear,
              CorrelateFails, Score, ScoreFails, Gate, GateFails
<1>6. ASSUME ProjectStep PROVE exact' = NoScan
  BY <1>6 DEF ProjectStep, RecordInventory, RecordScannerResult, Transition, Stale
<1>7. ASSUME UNCHANGED vars PROVE UNCHANGED <<status, image, issues, links, exact>>
  BY <1>7 DEF vars
<1>. QED  BY <1>2, <1>3, <1>4, <1>5, <1>6, <1>7, NextIs

\* A step that neither scores nor judges.
LEMMA JudgementStays ==
    ASSUME JudgementIsSound, UNCHANGED <<attr, policy>>,
           \A t \in Scans :
               \/ job'[t].scored = job'[t].counted /\ job'[t].verdict = "none"
               \/ /\ job'[t].scored = job[t].scored /\ job'[t].counted = job[t].counted
                  /\ job'[t].total = job[t].total /\ job'[t].complete = job[t].complete
                  /\ job'[t].verdict = job[t].verdict
                  /\ job[t].pc = "done" => job'[t].pc = "done"
    PROVE  JudgementIsSound'
<1>1. \A p, counted, total : Breached(p, counted, total)' = Breached(p, counted, total)
  BY DEF Breached, Observe
<1>2. ASSUME NEW t \in Scans
      PROVE  /\ job'[t].scored = job'[t].counted
             /\ job'[t].pc # "done" => job'[t].verdict = "none"
             /\ job'[t].verdict = "pass" =>
                   job'[t].complete /\ Breached(policy, job'[t].counted, job'[t].total) = {}
  BY DEF JudgementIsSound
<1>. QED  BY <1>1, <1>2 DEF JudgementIsSound

LEMMA JudgementPreserved ==
    ASSUME IInv, [Next]_vars
    PROVE  JudgementIsSound'
<1>0. TypeOK /\ JobsAreRecords /\ JudgementIsSound
  BY DEF IInv
<1>1. UNCHANGED <<attr, policy>>
  BY OnlyCommitsWrite
<1>2. ASSUME NEW s \in Scans, ScanStep(s) PROVE JudgementIsSound'
  <2>. USE DEF JobsAreRecords, JobFields
  <2>1. CASE \E seen \in Reports : RecordScan(s, seen)
    <3>1. job[s].pc = "idle"
      BY <2>1 DEF RecordScan
    <3>. QED  BY <1>0, <1>1, <2>1, <3>1, RecordScanSteps, JudgementStays
  <2>2. CASE ListLive(s)
    <3>1. job[s].pc = "list"
      BY <2>2 DEF ListLive
    <3>. QED  BY <1>0, <1>1, <2>2, <3>1, ListLiveSteps, JudgementStays
  <2>3. CASE ReadArtifact(s) \/ ArtifactUnread(s) \/ Clear(s) \/ ScoreFails(s) \/ GateFails(s)
    <3>1. \A t \in Scans : /\ job'[t].scored = job[t].scored /\ job'[t].counted = job[t].counted
                           /\ job'[t].total = job[t].total /\ job'[t].complete = job[t].complete
                           /\ job'[t].verdict = job[t].verdict
                           /\ job[t].pc = "done" => job'[t].pc = "done"
      BY <1>0, <2>3 DEF ReadArtifact, ArtifactUnread, Clear, ScoreFails, GateFails
    <3>. QED  BY <1>0, <1>1, <3>1, JudgementStays
  <2>4. CASE Commit(s) \/ CorrelateFails(s)
    <3>1. job' = [job EXCEPT ![s] = [IdleJob EXCEPT !.pc = "score"]]
      BY <2>4 DEF Commit, CorrelateFails
    <3>2. /\ \A t \in Scans \ {s} : job'[t] = job[t]
          /\ job'[s].scored = job'[s].counted /\ job'[s].verdict = "none"
      BY <1>0, <3>1 DEF IdleJob
    <3>. QED  BY <1>0, <1>1, <3>2, JudgementStays
  <2>5. CASE Score(s)
    <3>1. /\ \A t \in Scans \ {s} : job'[t] = job[t]
          /\ job'[s].scored = Scored /\ job'[s].counted = Counted
          /\ job'[s].verdict = job[s].verdict /\ job[s].pc = "score"
      BY <1>0, <2>5 DEF Score
    <3>2. Scored = Counted
      BY DEF Scored, Counted, Dismissed
    <3>3. job'[s].verdict = "none"
      BY <1>0, <3>1 DEF JudgementIsSound
    <3>. QED  BY <1>0, <1>1, <3>1, <3>2, <3>3, JudgementStays
  <2>6. ASSUME NEW complete \in BOOLEAN, Gate(s, complete) PROVE JudgementIsSound'
    <3>. DEFINE v == Evaluate(policy, job[s].counted, job[s].total, complete)
    <3>1. /\ \A t \in Scans \ {s} : job'[t] = job[t]
          /\ job'[s].scored = job[s].scored /\ job'[s].counted = job[s].counted
          /\ job'[s].total = job[s].total /\ job'[s].pc = "done"
          /\ job'[s].verdict = v
      BY <1>0, <2>6 DEF Gate
    <3>2. job'[s].complete <=> complete
      BY <1>0, <2>6 DEF Gate
    <3>3. v = "pass" => complete /\ Breached(policy, job[s].counted, job[s].total) = {}
      BY <1>0, PassMeansNoBreach DEF TypeOK
    <3>4. \A p, counted, total : Breached(p, counted, total)' = Breached(p, counted, total)
      BY <1>1 DEF Breached, Observe
    <3>. HIDE DEF v
    <3>5. ASSUME NEW t \in Scans
          PROVE  /\ job'[t].scored = job'[t].counted
                 /\ job'[t].pc # "done" => job'[t].verdict = "none"
                 /\ job'[t].verdict = "pass" =>
                       job'[t].complete /\ Breached(policy, job'[t].counted, job'[t].total) = {}
      <4>1. CASE t = s
        BY <1>0, <3>1, <3>2, <3>3, <4>1 DEF JudgementIsSound
      <4>2. CASE t # s
        BY <1>0, <3>1, <4>2 DEF JudgementIsSound
      <4>. QED  BY <4>1, <4>2
    <3>. QED  BY <1>1, <3>4, <3>5 DEF JudgementIsSound
  <2>. QED  BY <1>2, <2>1, <2>2, <2>3, <2>4, <2>5, <2>6 DEF ScanStep
<1>3. CASE ProjectStep
  <2>1. \A t \in Scans : /\ job'[t].scored = job[t].scored /\ job'[t].counted = job[t].counted
                         /\ job'[t].total = job[t].total /\ job'[t].complete = job[t].complete
                         /\ job'[t].verdict = job[t].verdict /\ job'[t].pc = job[t].pc
    BY <1>0, <1>3 DEF ProjectStep, RecordInventory, RecordScannerResult, Transition, Stale,
                      JobsAreRecords, JobFields
  <2>. QED  BY <1>0, <1>1, <2>1, JudgementStays
<1>4. CASE UNCHANGED vars
  <2>1. job' = job
    BY <1>4 DEF vars
  <2>. QED  BY <1>0, <1>1, <2>1, JudgementStays
<1>. QED  BY <1>2, <1>3, <1>4, NextIs

LEMMA ArtifactForIsKnown ==
    ASSUME TypeOK
    PROVE  IsKnown(ArtifactFor)
  BY DEF TypeOK, IsKnown, ArtifactFor

LEMMA KnownPreserved ==
    ASSUME IInv, [Next]_vars
    PROVE  ArtifactsAreKnown'
<1>. USE DEF ArtifactsAreKnown
<1>0. TypeOK /\ JobsAreRecords /\ ArtifactsAreKnown
  BY DEF IInv
<1>1. IsKnown(NoArtifact)
  BY DEF IsKnown, NoArtifact
<1>2. ASSUME NEW s \in Scans, ScanStep(s)
      PROVE  \A t \in Scans : job'[t].artifact \in {job[t].artifact, NoArtifact, ArtifactFor}
  <2>. USE DEF JobsAreRecords, JobFields
  <2>1. CASE \E seen \in Reports : RecordScan(s, seen)
    BY <1>0, <2>1, RecordScanSteps
  <2>2. CASE ListLive(s)
    BY <1>0, <2>2, ListLiveSteps
  <2>3. CASE ReadArtifact(s) \/ ArtifactUnread(s) \/ Clear(s) \/ ScoreFails(s) \/ GateFails(s)
    BY <1>0, <2>3 DEF ReadArtifact, ArtifactUnread, Clear, ScoreFails, GateFails
  <2>4. CASE Commit(s) \/ CorrelateFails(s)
    <3>1. job' = [job EXCEPT ![s] = [IdleJob EXCEPT !.pc = "score"]]
      BY <2>4 DEF Commit, CorrelateFails
    <3>. QED  BY <1>0, <3>1 DEF IdleJob
  <2>5. CASE Score(s)
    BY <1>0, <2>5 DEF Score
  <2>6. CASE \E complete \in BOOLEAN : Gate(s, complete)
    BY <1>0, <2>6 DEF Gate
  <2>. QED  BY <1>2, <2>1, <2>2, <2>3, <2>4, <2>5, <2>6 DEF ScanStep
<1>3. ASSUME NEW t \in Scans PROVE IsKnown(job'[t].artifact)
  <2>1. ASSUME NEW s \in Scans, ScanStep(s) PROVE IsKnown(job'[t].artifact)
    BY <1>0, <1>1, <1>2, <2>1, ArtifactForIsKnown
  <2>2. CASE ProjectStep
    BY <1>0, <2>2 DEF ProjectStep, RecordInventory, RecordScannerResult, Transition, Stale,
                      JobsAreRecords, JobFields
  <2>3. CASE UNCHANGED vars
    BY <1>0, <2>3 DEF vars
  <2>. QED  BY <2>1, <2>2, <2>3, NextIs
<1>4. ASSUME NEW i \in issues'
      PROVE  IsKnown(i.artifact) /\ i.issue.deployment = DeploymentOf(i.issue.key, i.artifact)
  <2>1. CASE i \in issues
    BY <1>0, <2>1
  <2>2. ASSUME i \notin issues
        PROVE  IsKnown(i.artifact) /\ i.issue.deployment = DeploymentOf(i.issue.key, i.artifact)
    <3>1. PICK s \in Scans : Commit(s)
      BY <2>2, OnlyCommitsWrite
    <3>2. PICK n \in IssuesOf(job[s].subjects, job[s].artifact) :
              i = [by |-> s, artifact |-> job[s].artifact, issue |-> n]
      BY <1>0, <2>2, <3>1, CommitWrites
    <3>3. n.deployment = DeploymentOf(n.key, job[s].artifact)
      BY IssueIs
    <3>. QED  BY <1>0, <3>2, <3>3
  <2>. QED  BY <2>1, <2>2
<1>. QED  BY <1>3, <1>4

-----------------------------------------------------------------------------
(* Theorems *)

LEMMA StepPreserves ==
    ASSUME IInv, [Next]_vars
    PROVE  IInv'
  BY TypesPreserved, RecordsStayRecords, WholePreserved, LonePreserved, ExactPreserved,
     JudgementPreserved, KnownPreserved DEF IInv

\* The invariant of correlation, score and gate, however the scans of a project
\* overlap with each other, with an image scan and with the people who judge.
THEOREM AnalysisInvHolds == Spec => []IInv
<1>1. Init => IInv
  BY InitEstablishes
<1>2. IInv /\ [Next]_vars => IInv'
  BY StepPreserves
<1>. QED  BY <1>1, <1>2, PTL DEF Spec

\* ReplaceCorrelation: an issue is stored once per key and whole, and what a
\* correlation that ran alone has stored is what the engine makes of the live
\* findings; every stored total is a natural number.
THEOREM IssuesAreCoherentHolds == Spec => []IssuesAreCoherent
<1>1. IInv => IssuesAreCoherent
  BY DEF IInv, IssuesAreCoherent
<1>. QED  BY <1>1, AnalysisInvHolds, PTL

\* risk.Assess over correlation.Correlate: with no bucket over the cap, no
\* finding of known severity lowers the score, whatever issues it joins.
THEOREM RiskIsMonotoneHolds == Spec => []RiskIsMonotone
<1>1. IInv => RiskIsMonotone
  <2>1. SUFFICES ASSUME IInv, ~Truncated(LiveNow), NEW f \in LiveNow, attr[f].severity # "unknown"
                 PROVE  Total(LiveNow \ {f}, IssuesOf(LiveNow \ {f}, NoArtifact))
                          <= Total(LiveNow, IssuesOf(LiveNow, NoArtifact))
    BY DEF RiskIsMonotone, LiveNow
  <2>2. LiveNow \in SUBSET Findings /\ attr \in Catalogues
    BY <2>1 DEF LiveNow, IInv, TypeOK
  <2>. QED  BY <2>1, <2>2, AddingNeverLowers
<1>. QED  BY <1>1, AnalysisInvHolds, PTL

\* risk.Assess, policies.InputFrom and remediation.Build: score and gate are
\* about the same findings, and the plan splits them into actions, none of
\* which leaves more risk than there was.
THEOREM JudgedTogetherHolds == Spec => []JudgedTogether
<1>1. IInv => JudgedTogether
  <2>. SUFFICES ASSUME IInv PROVE JudgedTogether
    OBVIOUS
  <2>. DEFINE plan == Plan(Scored, Stored)
              group(key) == {f \in Scored : ActionFor(f) = key}
              entry(key) == [key |-> key, members |-> group(key),
                             after |-> Total(Scored \ group(key), Stored)]
  <2>1. plan = {entry(key) : key \in {ActionFor(f) : f \in Scored}}
    BY DEF Plan
  <2>2. \A key : /\ entry(key).members = group(key)
                 /\ entry(key).after = Total(Scored \ group(key), Stored)
    OBVIOUS
  <2>3. \A key : \A f : f \in group(key) <=> f \in Scored /\ ActionFor(f) = key
    OBVIOUS
  <2>. HIDE DEF plan, entry, group
  <2>4. UNION {a.members : a \in plan} = Scored
    <3>1. \A f \in Scored : \E a \in plan : f \in a.members
      BY <2>1, <2>2, <2>3
    <3>2. \A a \in plan : a.members \subseteq Scored
      BY <2>1, <2>2, <2>3
    <3>. QED  BY <3>1, <3>2
  <2>5. ASSUME NEW a \in plan, NEW b \in plan, NEW f \in a.members, f \in b.members
        PROVE  a = b
    <3>1. PICK k, m : a = entry(k) /\ b = entry(m)
      BY <2>1
    <3>2. k = ActionFor(f) /\ m = ActionFor(f)
      BY <2>2, <2>3, <2>5, <3>1
    <3>. QED  BY <3>1, <3>2
  <2>6. ASSUME NEW a \in plan PROVE a.after <= Total(Scored, Stored)
    <3>1. Scored \in SUBSET Findings /\ attr \in Catalogues /\ AreIssues(Stored)
      BY StoredIsTyped DEF Scored, IInv, TypeOK
    <3>2. PICK k : a.after = Total(Scored \ group(k), Stored)
      BY <2>1, <2>2
    <3>. QED  BY <3>1, <3>2, WithholdingNeverRaises
  <2>7. \A s \in Scans : job[s].scored = job[s].counted
    BY DEF IInv, JudgementIsSound
  <2>8. \A a, b \in plan : a = b \/ a.members \intersect b.members = {}
    BY <2>5
  <2>. QED  BY <2>4, <2>6, <2>7, <2>8 DEF JudgedTogether, plan
<1>. QED  BY <1>1, AnalysisInvHolds, PTL

\* Runner.gate and policies.Evaluate: only a complete scan passes, and only
\* when no rule is breached by what was scored for it.
THEOREM PassWasEarnedHolds == Spec => []PassWasEarned
<1>1. IInv => PassWasEarned
  BY DEF IInv, JudgementIsSound, PassWasEarned
<1>. QED  BY <1>1, AnalysisInvHolds, PTL

\* deploymentOf and ArtifactFor: "not deployed" rests on an inventory that was
\* not known to be incomplete.
THEOREM AbsentIsKnownHolds == Spec => []AbsentIsKnown
<1>1. IInv => AbsentIsKnown
  BY DEF IInv, ArtifactsAreKnown, IsKnown, AbsentIsKnown, DeploymentOf
<1>. QED  BY <1>1, AnalysisInvHolds, PTL
=============================================================================
