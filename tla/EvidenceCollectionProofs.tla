----------------------- MODULE EvidenceCollectionProofs -----------------------
(***************************************************************************)
(* Theorems about the collect stage, for any plan, limits, budget and      *)
(* claims of the agent.                                                    *)
(*                                                                         *)
(* CollectInv is the inductive invariant.  What was found counts in the    *)
(* tracker (FoundOK), so the limits of the tracker bound the batch; what   *)
(* is left of the budget and what was used of it add up (BudgetOK,         *)
(* TimeOK); and the totals are the sum of the keywords' figures, but for   *)
(* the one whose result was just taken and for those that failed after     *)
(* that (SumsOK).  A failed keyword that left evidence has made calls that *)
(* no keyword reports, so the totals are then too large for the batch.     *)
(***************************************************************************)
EXTENDS EvidenceCollectionProperties, FiniteSetTheorems, TLAPS

Browses == at \in {"opening", "browsing", "returned"}

TrackerOK(t) ==
    /\ t \in Tracker
    /\ Cardinality(t.profiles) <= MaxProfiles
    /\ \A k \in Keyword : /\ IsFiniteSet(t.videos[k])
                          /\ Cardinality(t.videos[k]) <= MaxVideos
    /\ \A u \in User : /\ IsFiniteSet(t.authored[u])
                       /\ Cardinality(t.authored[u]) <= MaxAuthorVideos

\* The observation counts in the tracker.
Noted(e, t) ==
    /\ e.number <= t.total
    /\ e.sighting.user \in t.profiles
    /\ e.sighting.video \in t.videos[e.keyword] \cup {None}
    /\ e.sighting.source = "profile" =>
           e.sighting.video \in t.authored[e.sighting.user] \cup {None}

AllNoted(found, t) ==
    /\ \A e \in found : Noted(e, t)
    /\ \A e, f \in found : e.number = f.number => e = f

Pending == IF Browses THEN agent.found ELSE {}

FoundOK ==
    /\ AllNoted(merged.evidence \cup Pending, tracker)
    /\ \A e \in Pending : e.keyword = keyword
    /\ \A e \in merged.evidence :
           /\ e.keyword <= keyword
           /\ Browses \/ at = "loop" => e.keyword < keyword

FiguresOK ==
    \A k \in Keyword :
        /\ ~metrics[k].reported => metrics[k] = NoMetric
        /\ metrics[k].reported =>
               LET found == OfKeyword(merged.evidence, k)
               IN  /\ metrics[k].candidates = Cardinality(UsersIn(found))
                   /\ metrics[k].observations = Cardinality(found)
                   /\ at \in {"batch"} \cup Ended \/ k < keyword

BudgetOK ==
    /\ totals.pages + budget.pages = MaxPages
    /\ totals.calls + budget.calls = maxCalls
    /\ Browses => /\ agent.pages <= budget.pages
                  /\ agent.calls <= budget.calls
                  /\ agent.found # {} => agent.calls > 0
    /\ at = "opening" =>
           budget.pages > 0 /\ agent.found = {} /\ agent.calls = 0
    /\ at = "searching" =>
           /\ budget.pages > 0
           /\ (\E e \in merged.evidence : e.keyword = keyword) =>
                  agent.calls > 0

TimeOK ==
    /\ totals.time <= MaxTime /\ totals.time <= clock
    /\ Browses => /\ totals.time <= agent.from /\ agent.from <= clock
                  /\ agent.from <= MaxTime
    /\ at = "returned" => agent.from + agent.time <= clock

\* What was taken of the agent and is not among the figures yet.
Taken(figure) == IF at = "searching" THEN agent[figure] ELSE 0

\* Evidence of a keyword that failed, and the calls it must have made.
Tainted == \E e \in merged.evidence : e.keyword \in failed

SumsOK ==
    at # "cancelled" =>
        /\ totals.calls >= AllCalls + Taken("calls")
                           + (IF Tainted THEN 1 ELSE 0)
        /\ failed = {} =>
               /\ totals.pages = AllPages + Taken("pages")
               /\ totals.calls = AllCalls + Taken("calls")
               /\ totals.time = AllTime + Taken("time")

CutOK ==
    /\ \A c \in cut : /\ c[1] <= keyword
                      /\ at \in {"loop", "opening"} => c[1] < keyword
                      /\ at \in {"browsing", "returned"} /\ c[1] = keyword =>
                             agent.reasons[c[2]] # {}
    /\ \A c \in cut, e \in merged.evidence :
           c = <<e.keyword, e.sighting.user>>
           /\ e.sighting.source # "direct_user" =>
               merged.reasons[e.sighting.user] # {}

\* Every keyword is told about in the end.
ToldOK ==
    /\ \A k \in failed : k < keyword
    /\ \A k \in Keyword : k < keyword => metrics[k].reported \/ k \in failed
    /\ at = "closing" => keyword > NumKeywords \/ Terminal # ""
    /\ at = "batch" /\ failed = {} => Unreported = {}

StoredOK ==
    /\ at # "stored" => stored.evidence = {}
    /\ FailedLeavesNothing /\ CutIsMarked

FiniteOK ==
    /\ IsFiniteSet(agent.visited)
    /\ \A k \in Keyword : IsFiniteSet(metrics[k].videos)

CollectInv ==
    /\ CollectionTypeOK /\ TrackerOK(tracker) /\ FiniteOK /\ FoundOK
    /\ FiguresOK /\ BudgetOK /\ TimeOK /\ SumsOK /\ CutOK /\ ToldOK
    /\ StoredOK

-----------------------------------------------------------------------------
(* Folds                                                                   *)

(* A set of numbers has a least one.                                        *)
LEMMA LeastExists ==
    ASSUME NEW S \in SUBSET Nat, S # {}
    PROVE  \E n \in S : \A m \in S : n <= m
<1>1. PICK n \in S : \A m \in S : <<m, n>> \notin OpToRel(<, Nat)
  BY WFMin, NatLessThanWellFounded
<1>2. ASSUME NEW m \in S PROVE n <= m
  <2>1. ~(m < n)
    BY <1>1 DEF OpToRel
  <2> QED BY <2>1
<1> QED BY <1>2

(* Induction over the subsets of a finite set: G has all of them when it    *)
(* has each set from which no element can be taken but into G.              *)
LEMMA SubsetInduction ==
    ASSUME NEW S, IsFiniteSet(S), NEW G,
           \A s \in SUBSET S : (\A x \in s : s \ {x} \in G) => s \in G
    PROVE  \A s \in SUBSET S : s \in G
<1> DEFINE Bad == {s \in SUBSET S : s \notin G}
           N == {Cardinality(s) : s \in Bad}
<1>1. \A s \in SUBSET S : IsFiniteSet(s) /\ Cardinality(s) \in Nat
  BY FS_Subset, FS_CardinalityType
<1>2. SUFFICES ASSUME Bad # {} PROVE FALSE
  OBVIOUS
<1>3. N \in SUBSET Nat /\ N # {}
  BY <1>1, <1>2
<1>4. PICK n \in N : \A m \in N : n <= m
  BY <1>3, LeastExists
<1>5. PICK s \in Bad : Cardinality(s) = n
  BY <1>4
<1>6. ASSUME NEW x \in s PROVE s \ {x} \in G
  <2>1. Cardinality(s \ {x}) = Cardinality(s) - 1
    BY <1>1, FS_RemoveElement
  <2>2. s \ {x} \in SUBSET S /\ Cardinality(s \ {x}) \in Nat
    BY <1>1
  <2>3. ~(n <= Cardinality(s \ {x}))
    BY <1>3, <1>5, <2>1, <2>2
  <2> QED BY <1>4, <2>2, <2>3
<1> QED BY <1>5, <1>6

\* it folds each subset of S: c chooses the element to take out, h puts it in.
Folding(it, S, base, c, h) ==
    \A s \in SUBSET S :
        it[s] = IF s = {} THEN base ELSE h[<<s, it[s \ {c[s]}]>>]

Choosing(c, S) == \A s \in SUBSET S : s # {} => c[s] \in s

Closed(h, S, V) == \A s \in SUBSET S, v \in V : h[<<s, v>>] \in V

(* What a fold over the subsets of a finite set is defined by exists.       *)
LEMMA FoldExists ==
    ASSUME NEW S, IsFiniteSet(S), NEW V, NEW base \in V,
           NEW c, Choosing(c, S), NEW h, Closed(h, S, V)
    PROVE  \E it \in [SUBSET S -> V] : Folding(it, S, base, c, h)
<1> USE DEF Folding, Choosing, Closed
<1> DEFINE Step(g, s) == IF s = {} THEN base ELSE h[<<s, g[s \ {c[s]}]>>]
           Upto(g, n) == \A s \in SUBSET S :
                             Cardinality(s) <= n =>
                                 g[s] \in V /\ g[s] = Step(g, s)
           N == {n \in Nat : ~\E g : Upto(g, n)}
<1>1. \A s \in SUBSET S : IsFiniteSet(s) /\ Cardinality(s) \in Nat
  BY FS_Subset, FS_CardinalityType
<1>2. \A s \in SUBSET S : Cardinality(s) = 0 <=> s = {}
  BY <1>1, FS_EmptySet
<1>3. N = {}
  <2>1. SUFFICES ASSUME N # {} PROVE FALSE
    OBVIOUS
  <2>2. PICK n \in N : \A m \in N : n <= m
    BY <2>1, LeastExists
  <2>3. n \in Nat /\ ~\E g : Upto(g, n)
    BY <2>2
  <2>4. CASE n = 0
    <3> DEFINE g == [s \in SUBSET S |-> base]
    <3>1. ASSUME NEW s \in SUBSET S, Cardinality(s) <= 0
          PROVE  g[s] \in V /\ g[s] = Step(g, s)
      <4>1. s = {}
        BY <1>1, <1>2, <3>1
      <4> QED BY <4>1
    <3>2. Upto(g, n)
      BY <2>4, <3>1
    <3> QED BY <2>3, <3>2
  <2>5. CASE n # 0
    <3>1. n - 1 \in Nat /\ ~(n <= n - 1)
      BY <2>3, <2>5
    <3>2. PICK g : Upto(g, n - 1)
      BY <2>2, <3>1
    <3> DEFINE k == [s \in SUBSET S |-> Step(g, s)]
    <3>3. \A s \in SUBSET S : k[s] = Step(g, s)
      OBVIOUS
    <3> HIDE DEF k
    <3>4. ASSUME NEW s \in SUBSET S, Cardinality(s) <= n
          PROVE  k[s] \in V /\ k[s] = Step(k, s)
      <4>1. CASE s = {}
        BY <3>3, <4>1
      <4>2. CASE s # {}
        <5> DEFINE r == s \ {c[s]}
        <5>1. r \in SUBSET S /\ c[s] \in s
          BY <4>2
        <5>2. Cardinality(r) = Cardinality(s) - 1
          BY <1>1, <5>1, FS_RemoveElement
        <5>a. Cardinality(r) \in Nat /\ Cardinality(s) \in Nat
          BY <1>1, <5>1
        <5> HIDE DEF r
        <5>3. Cardinality(r) <= n - 1
          BY <2>3, <3>4, <5>2, <5>a
        <5>4. g[r] \in V /\ g[r] = Step(g, r)
          BY <3>2, <5>1, <5>3
        <5>5. k[r] = g[r]
          BY <3>3, <5>1, <5>4
        <5>6. k[s] = h[<<s, g[r]>>] /\ Step(k, s) = h[<<s, k[r]>>]
          BY <3>3, <4>2 DEF r
        <5> QED BY <5>4, <5>5, <5>6
      <4> QED BY <4>1, <4>2
    <3>5. Upto(k, n)
      BY <3>4
    <3> QED BY <2>3, <3>5
  <2> QED BY <2>4, <2>5
<1>4. Cardinality(S) \in Nat
  BY <1>1
<1>5. PICK g : Upto(g, Cardinality(S))
  BY <1>3, <1>4
<1>6. ASSUME NEW s \in SUBSET S PROVE g[s] \in V /\ g[s] = Step(g, s)
  <2>1. Cardinality(s) <= Cardinality(S)
    BY FS_Subset
  <2> QED BY <1>5, <2>1
<1> DEFINE it == [s \in SUBSET S |-> g[s]]
<1>7. it \in [SUBSET S -> V]
  BY <1>6
<1>8. ASSUME NEW s \in SUBSET S
      PROVE  it[s] = IF s = {} THEN base ELSE h[<<s, it[s \ {c[s]}]>>]
  <2>1. it[s] = g[s] /\ it[s \ {c[s]}] = g[s \ {c[s]}]
    OBVIOUS
  <2> QED BY <1>6, <2>1
<1> QED BY <1>7, <1>8

-----------------------------------------------------------------------------
(* Sums                                                                    *)

\* it[s] is the sum of the values of f on s.
Summing(it, f, S) ==
    /\ it \in [SUBSET S -> Nat] /\ it[{}] = 0
    /\ \A s \in SUBSET S : \A x \in s : it[s] = f[x] + it[s \ {x}]

(* The sum of a function sums its values in any order.                      *)
LEMMA SumOfValues ==
    ASSUME NEW S, IsFiniteSet(S), NEW f \in [S -> Nat]
    PROVE  \E it : Summing(it, f, S) /\ SumFunction(f) = it[S]
<1> DEFINE Pick(s) == CHOOSE x \in s : TRUE
           Iter(it) == it = [s \in SUBSET S |->
                                IF s = {} THEN 0
                                ELSE f[Pick(s)] + it[s \ {Pick(s)}]]
           it == CHOOSE i : Iter(i)
           c == [s \in SUBSET S |-> Pick(s)]
           h == [p \in (SUBSET S) \X Nat |->
                    IF p[1] = {} THEN 0 ELSE f[c[p[1]]] + p[2]]
<1>1. SumFunction(f) = it[S]
  BY DEF SumFunction, SumFunctionOnSet, FoldFunctionOnSet, MapThenFoldSet
<1>2. \A s \in SUBSET S : s # {} => c[s] = Pick(s) /\ Pick(s) \in s
  OBVIOUS
<1> HIDE DEF Pick, c
<1>3. ASSUME NEW s \in SUBSET S, NEW v \in Nat
      PROVE  /\ h[<<s, v>>] \in Nat
             /\ s # {} => h[<<s, v>>] = f[Pick(s)] + v
             /\ s = {} => h[<<s, v>>] = 0
  <2>1. h[<<s, v>>] = IF s = {} THEN 0 ELSE f[c[s]] + v
    OBVIOUS
  <2> QED BY <1>2, <2>1
<1> HIDE DEF h
<1>4. PICK g \in [SUBSET S -> Nat] : Folding(g, S, 0, c, h)
  <2>1. Choosing(c, S)
    BY <1>2 DEF Choosing
  <2>2. Closed(h, S, Nat)
    BY <1>3 DEF Closed
  <2>3. 0 \in Nat
    OBVIOUS
  <2> QED BY <2>1, <2>2, <2>3, FoldExists
<1>5. Iter(g)
  <2>1. ASSUME NEW s \in SUBSET S
        PROVE  g[s] = IF s = {} THEN 0 ELSE f[Pick(s)] + g[s \ {Pick(s)}]
    BY <1>2, <1>3, <1>4 DEF Folding
  <2> QED BY <2>1
<1>6. Iter(it)
  BY <1>5
<1> HIDE DEF it
<1>7. /\ it[{}] = 0
      /\ \A s \in SUBSET S : s # {} => it[s] = f[Pick(s)] + it[s \ {Pick(s)}]
  BY <1>6
<1> DEFINE G == {s \in SUBSET S : it[s] \in Nat}
<1>8. ASSUME NEW s \in SUBSET S, \A x \in s : s \ {x} \in G PROVE s \in G
  <2>1. CASE s = {}
    BY <1>7, <2>1
  <2>2. CASE s # {}
    <3>1. Pick(s) \in s /\ s \ {Pick(s)} \in G
      BY <1>2, <1>8, <2>2
    <3>2. it[s \ {Pick(s)}] \in Nat /\ f[Pick(s)] \in Nat
      BY <3>1
    <3>3. it[s] = f[Pick(s)] + it[s \ {Pick(s)}]
      BY <1>7, <2>2
    <3>4. it[s] \in Nat
      BY <3>2, <3>3
    <3> QED BY <3>4
  <2> QED BY <2>1, <2>2
<1>9. \A s \in SUBSET S : it[s] \in Nat
  <2> HIDE DEF G
  <2>1. \A s \in SUBSET S : s \in G
    BY <1>8, SubsetInduction
  <2> QED BY <2>1 DEF G
<1>10. it \in [SUBSET S -> Nat]
  <2>1. it = [s \in SUBSET S |-> it[s]]
    BY <1>6
  <2> QED BY <1>9, <2>1
<1> DEFINE H == {s \in SUBSET S : \A x \in s : it[s] = f[x] + it[s \ {x}]}
<1>11. ASSUME NEW s \in SUBSET S, \A x \in s : s \ {x} \in H PROVE s \in H
  <2>1. SUFFICES ASSUME NEW x \in s PROVE it[s] = f[x] + it[s \ {x}]
    OBVIOUS
  <2>2. PICK y \in s : y = Pick(s)
    BY <1>2, <2>1
  <2>3. it[s] = f[y] + it[s \ {y}]
    BY <1>7, <2>1, <2>2
  <2>4. CASE x = y
    BY <2>3, <2>4
  <2>5. CASE x # y
    <3>1. it[s \ {y}] = f[x] + it[(s \ {y}) \ {x}]
      BY <1>11, <2>5
    <3>2. it[s \ {x}] = f[y] + it[(s \ {x}) \ {y}]
      BY <1>11, <2>5
    <3>3. (s \ {y}) \ {x} = (s \ {x}) \ {y}
      OBVIOUS
    <3> DEFINE z == it[(s \ {x}) \ {y}]
    <3>4. f[x] \in Nat /\ f[y] \in Nat /\ z \in Nat
      BY <1>9
    <3>5. /\ it[s] = f[y] + it[s \ {y}] /\ it[s \ {y}] = f[x] + z
          /\ it[s \ {x}] = f[y] + z
      BY <2>3, <3>1, <3>2, <3>3
    <3> HIDE DEF z
    <3>6. it[s] = f[y] + (f[x] + z)
      BY <3>5
    <3>7. it[s] = f[x] + (f[y] + z)
      BY <3>4, <3>6
    <3> QED BY <3>5, <3>7
  <2> QED BY <2>4, <2>5
<1>12. \A s \in SUBSET S : \A x \in s : it[s] = f[x] + it[s \ {x}]
  <2> HIDE DEF H
  <2>1. \A s \in SUBSET S : s \in H
    BY <1>11, SubsetInduction
  <2> QED BY <2>1 DEF H
<1> QED BY <1>1, <1>7, <1>10, <1>12 DEF Summing

(* When one value changes, the sum changes by the difference.               *)
LEMMA SumChanged ==
    ASSUME NEW S, IsFiniteSet(S), NEW f \in [S -> Nat], NEW g \in [S -> Nat],
           NEW x \in S, \A y \in S \ {x} : f[y] = g[y]
    PROVE  /\ SumFunction(f) \in Nat /\ SumFunction(g) \in Nat
           /\ SumFunction(f) + g[x] = SumFunction(g) + f[x]
<1>1. PICK a : Summing(a, f, S) /\ SumFunction(f) = a[S]
  BY SumOfValues
<1>2. PICK b : Summing(b, g, S) /\ SumFunction(g) = b[S]
  BY SumOfValues
<1> DEFINE T == S \ {x}
           G == {s \in SUBSET T : a[s] = b[s]}
<1>3. ASSUME NEW s \in SUBSET T, \A y \in s : s \ {y} \in G PROVE s \in G
  <2>1. CASE s = {}
    BY <1>1, <1>2, <2>1 DEF Summing
  <2>2. CASE s # {}
    <3>1. PICK y \in s : TRUE
      BY <2>2
    <3>2. a[s] = f[y] + a[s \ {y}] /\ b[s] = g[y] + b[s \ {y}]
      BY <1>1, <1>2 DEF Summing
    <3>3. a[s \ {y}] = b[s \ {y}] /\ f[y] = g[y]
      BY <1>3
    <3> QED BY <3>2, <3>3
  <2> QED BY <2>1, <2>2
<1>4. a[T] = b[T]
  <2>1. IsFiniteSet(T)
    BY FS_Subset
  <2> HIDE DEF T, G
  <2>2. \A s \in SUBSET T : s \in G
    BY <1>3, <2>1, SubsetInduction
  <2> QED BY <2>2 DEF G
<1>5. a[S] = f[x] + a[T] /\ b[S] = g[x] + b[T]
  BY <1>1, <1>2 DEF Summing
<1>6. a[T] \in Nat /\ f[x] \in Nat /\ g[x] \in Nat
  BY <1>1 DEF Summing
<1> QED BY <1>1, <1>2, <1>4, <1>5, <1>6

(* The sum is at most the size of a set of which each value counts a part   *)
(* of its own; of nothing it is zero.                                       *)
LEMMA SumOfParts ==
    ASSUME NEW S, IsFiniteSet(S), NEW f \in [S -> Nat], NEW E, IsFiniteSet(E),
           NEW P, \A k \in S : P[k] \subseteq E /\ f[k] <= Cardinality(P[k]),
           \A k, l \in S : k # l => P[k] \cap P[l] = {}
    PROVE  SumFunction(f) \in Nat /\ SumFunction(f) <= Cardinality(E)
<1>1. PICK it : Summing(it, f, S) /\ SumFunction(f) = it[S]
  BY SumOfValues
<1> DEFINE U(s) == UNION {P[k] : k \in s}
           G == {s \in SUBSET S : it[s] <= Cardinality(U(s))}
<1>2. \A s \in SUBSET S : U(s) \in SUBSET E
  OBVIOUS
<1>3. \A T \in SUBSET E : IsFiniteSet(T) /\ Cardinality(T) \in Nat
                          /\ Cardinality(T) <= Cardinality(E)
  BY FS_Subset, FS_CardinalityType
<1>4. ASSUME NEW s \in SUBSET S, \A k \in s : s \ {k} \in G PROVE s \in G
  <2>1. CASE s = {}
    <3>1. U(s) = {} /\ it[s] = 0
      BY <1>1, <2>1 DEF Summing
    <3>2. Cardinality({}) = 0
      BY FS_EmptySet
    <3> HIDE DEF U
    <3>3. it[s] <= Cardinality(U(s))
      BY <3>1, <3>2
    <3> QED BY <3>3 DEF G
  <2>2. CASE s # {}
    <3>1. PICK k \in s : TRUE
      BY <2>2
    <3> DEFINE A == P[k]
               B == U(s \ {k})
    <3>2. /\ it[s] = f[k] + it[s \ {k}] /\ it[s \ {k}] \in Nat
          /\ f[k] \in Nat /\ it[s] \in Nat
      BY <1>1 DEF Summing
    <3>3. A \in SUBSET E /\ B \in SUBSET E /\ A \cap B = {}
      OBVIOUS
    <3>4. it[s \ {k}] <= Cardinality(B) /\ f[k] <= Cardinality(A)
      BY <1>4
    <3>5. U(s) = A \cup B
      OBVIOUS
    <3> HIDE DEF A, B, U
    <3>6. Cardinality(A \cup B) = Cardinality(A) + Cardinality(B)
                                  - Cardinality({})
      BY <1>3, <3>3, FS_Union
    <3>7. Cardinality(U(s)) = Cardinality(A) + Cardinality(B)
      <4>1. Cardinality(A) \in Nat /\ Cardinality(B) \in Nat
        BY <1>3, <3>3
      <4>2. Cardinality({}) = 0
        BY FS_EmptySet
      <4> QED BY <3>5, <3>6, <4>1, <4>2
    <3>8. it[s] <= Cardinality(U(s))
      BY <1>3, <3>2, <3>3, <3>4, <3>7
    <3> QED BY <3>8 DEF G
  <2> QED BY <2>1, <2>2
<1>5. it[S] <= Cardinality(U(S))
  <2> HIDE DEF U
  <2> HIDE DEF G
  <2>1. \A s \in SUBSET S : s \in G
    BY <1>4, SubsetInduction
  <2> QED BY <2>1 DEF G
<1>6. it[S] \in Nat
  BY <1>1 DEF Summing
<1> HIDE DEF U
<1>7. Cardinality(U(S)) \in Nat /\ Cardinality(U(S)) <= Cardinality(E)
      /\ Cardinality(E) \in Nat
  BY <1>2, <1>3
<1> QED BY <1>1, <1>5, <1>6, <1>7

-----------------------------------------------------------------------------
(* The tracker                                                             *)

LEMMA ConstantsTyped ==
    /\ NumKeywords \in Nat /\ NumKeywords >= 1
    /\ MaxKeywords \in Nat /\ MaxVideos \in Nat /\ MaxComments \in Nat
    /\ MaxProfiles \in Nat /\ MaxAuthorVideos \in Nat
    /\ MaxObservations \in Nat /\ MaxObservations >= 1
    /\ MaxKeywords >= 1 /\ MaxVideos >= 1 /\ MaxAuthorVideos >= 1
    /\ MaxProfiles >= 1
    /\ MaxPages \in Nat /\ MaxTime \in Nat /\ MaxSteps \in Nat
    /\ MaxTime >= 1 /\ MaxPages >= 1
    /\ Calls \subseteq Nat /\ Seen \subseteq Sighting /\ IsFiniteSet(User)
<1>1. MaxKeywords \in Nat /\ MaxKeywords >= 1
  BY BudgetAssumption
<1>2. NumKeywords \in Nat /\ NumKeywords >= 1
  BY BudgetAssumption, <1>1
<1> QED BY <1>1, <1>2, BudgetAssumption, CollectionAssumption

LEMMA LimitNames ==
    /\ LimitName = {"max_keywords", "max_videos_per_keyword",
                    "max_comments_per_video", "max_profiles",
                    "max_author_videos", "max_total_observations"}
    /\ DOMAIN Limit \subseteq LimitName
<1>1. 1..6 = {1, 2, 3, 4, 5, 6}
  OBVIOUS
<1>2. LimitName = {LimitOrder[1], LimitOrder[2], LimitOrder[3],
                   LimitOrder[4], LimitOrder[5], LimitOrder[6]}
  BY <1>1 DEF LimitName
<1>3. LimitName = {"max_keywords", "max_videos_per_keyword",
                    "max_comments_per_video", "max_profiles",
                    "max_author_videos", "max_total_observations"}
  BY <1>2 DEF LimitOrder
<1> QED BY <1>3 DEF Limit

(* The first of some limits is a limit.                                     *)
LEMMA FirstIsLimit ==
    ASSUME NEW S \in SUBSET LimitName, S # {}
    PROVE  First(S) \in LimitName
<1> DEFINE I == {i \in 1..6 : LimitOrder[i] \in S}
<1>1. I \in SUBSET Nat /\ I # {}
  BY DEF LimitName
<1>2. PICK i \in I : \A j \in I : i <= j
  BY <1>1, LeastExists
<1>3. \A j \in 1..(i - 1) : LimitOrder[j] \notin S
  <2>1. SUFFICES ASSUME NEW j \in 1..(i - 1), LimitOrder[j] \in S PROVE FALSE
    OBVIOUS
  <2>2. j \in 1..6 /\ ~(i <= j)
    BY <1>2
  <2> QED BY <1>2, <2>1, <2>2
<1>4. \E n \in 1..6 : /\ LimitOrder[n] \in S
                      /\ \A j \in 1..(n - 1) : LimitOrder[j] \notin S
  BY <1>2, <1>3
<1>5. \E n \in 1..6 : First(S) = LimitOrder[n]
  BY <1>4 DEF First
<1> QED BY <1>5 DEF LimitName

(* One more element makes a finite set larger by one at most.               *)
LEMMA OneMore ==
    ASSUME NEW A, IsFiniteSet(A), NEW x, NEW B \in SUBSET {x}
    PROVE  /\ IsFiniteSet(A \cup B)
           /\ Cardinality(A) \in Nat /\ Cardinality(A \cup B) \in Nat
           /\ Cardinality(A \cup B) <= Cardinality(A) + 1
<1>1. Cardinality(A) \in Nat
  BY FS_CardinalityType
<1>2. CASE B = {}
  <2> DEFINE C == A \cup B
  <2>1. C = A
    BY <1>2
  <2> HIDE DEF C
  <2>2. IsFiniteSet(C) /\ Cardinality(C) <= Cardinality(A) + 1
    BY <1>1, <2>1
  <2> QED BY <1>1, <2>1, <2>2 DEF C
<1>3. CASE B # {}
  <2>1. A \cup B = A \cup {x}
    BY <1>3
  <2>2. IsFiniteSet(A \cup {x})
        /\ Cardinality(A \cup {x}) =
             IF x \in A THEN Cardinality(A) ELSE Cardinality(A) + 1
    BY FS_AddElement
  <2> QED BY <1>1, <2>1, <2>2
<1> QED BY <1>2, <1>3

\* A has room for what B adds.
HasRoom(A, B, n) == B \subseteq A \/ ~(Cardinality(A) >= n)

(* What a limit admits keeps the limit.                                     *)
LEMMA WithinLimit ==
    ASSUME NEW A, IsFiniteSet(A), NEW x, NEW B \in SUBSET {x},
           NEW n \in Nat, Cardinality(A) <= n,
           HasRoom(A, B, n)
    PROVE  IsFiniteSet(A \cup B) /\ Cardinality(A \cup B) <= n
<1>1. CASE B \subseteq A
  <2>1. A \cup B = A
    BY <1>1
  <2> QED BY <2>1
<1>2. CASE ~(B \subseteq A)
  <2> DEFINE C == A \cup B
  <2>1. /\ IsFiniteSet(C) /\ Cardinality(A) \in Nat /\ Cardinality(C) \in Nat
        /\ Cardinality(C) <= Cardinality(A) + 1
    BY OneMore
  <2> HIDE DEF C
  <2>2. Cardinality(C) <= n
    BY <1>2, <2>1 DEF HasRoom
  <2> QED BY <2>1, <2>2 DEF C
<1> QED BY <1>1, <1>2

\* u counts all that t counts.
Grows(t, u) ==
    /\ t.total <= u.total /\ t.profiles \subseteq u.profiles
    /\ \A k \in Keyword : t.videos[k] \subseteq u.videos[k]
    /\ \A v \in User : t.authored[v] \subseteq u.authored[v]

(* What counts in a tracker counts in one that has grown from it.           *)
LEMMA NotedGrows ==
    ASSUME NEW t \in Tracker, NEW u \in Tracker, Grows(t, u),
           NEW e \in Evidence, Noted(e, t)
    PROVE  Noted(e, u)
<1>1. /\ e.keyword \in Keyword /\ e.number \in Nat /\ e.sighting.user \in User
      /\ t.total \in Nat /\ u.total \in Nat
  BY ConstantsTyped DEF Evidence, Sighting, Tracker
<1> QED BY <1>1 DEF Noted, Grows

LEMMA NewTrackerOK == TrackerOK(NewTracker)
<1>1. IsFiniteSet({}) /\ Cardinality({}) = 0
  BY FS_EmptySet
<1>2. NewTracker \in Tracker
  BY ConstantsTyped DEF NewTracker, Tracker
<1> QED BY <1>1, <1>2, ConstantsTyped DEF NewTracker, TrackerOK

LEMMA AllowKeywordOK ==
    ASSUME NEW t, TrackerOK(t), NEW k \in Keyword
    PROVE  /\ TrackerOK(AllowKeyword(t, k))
           /\ Grows(t, AllowKeyword(t, k))
           /\ AllowKeyword(t, k).total = t.total
           /\ ~KeywordAllowed(t) =>
                  AllowKeyword(t, k).reasons = {"max_keywords"}
<1> DEFINE u == AllowKeyword(t, k)
<1>1. t \in Tracker
  BY DEF TrackerOK
<1>2. PICK ks \in SUBSET Keyword, rs \in SUBSET LimitName :
          u = [t EXCEPT !.keywords = ks, !.reasons = rs]
  <2>1. CASE KeywordAllowed(t)
    <3>1. /\ t.keywords \cup {k} \in SUBSET Keyword
          /\ {"max_keywords"} \in SUBSET LimitName
          /\ {} \in SUBSET LimitName
      BY <1>1, LimitNames DEF Tracker
    <3> QED BY <2>1, <3>1 DEF AllowKeyword
  <2>2. CASE ~KeywordAllowed(t)
    <3>1. /\ t.keywords \in SUBSET Keyword
          /\ {"max_keywords"} \in SUBSET LimitName
      BY <1>1, LimitNames DEF Tracker
    <3>2. u = [t EXCEPT !.keywords = t.keywords,
                        !.reasons = {"max_keywords"}]
      BY <1>1, <2>2 DEF AllowKeyword, Tracker
    <3> QED BY <3>1, <3>2
  <2> QED BY <2>1, <2>2
<1>3. ~KeywordAllowed(t) => u.reasons = {"max_keywords"}
  BY <1>1 DEF AllowKeyword, Tracker
<1> HIDE DEF u
<1>4. u \in Tracker
  BY <1>1, <1>2 DEF Tracker
<1>5. /\ u.profiles = t.profiles /\ u.videos = t.videos
      /\ u.authored = t.authored /\ u.total = t.total
  BY <1>1, <1>2 DEF Tracker
<1>6. TrackerOK(u)
  BY <1>4, <1>5 DEF TrackerOK
<1>7. t.total \in Nat
  BY <1>1, ConstantsTyped DEF Tracker
<1>8. Grows(t, u)
  BY <1>5, <1>7 DEF Grows
<1> QED BY <1>3, <1>5, <1>6, <1>8 DEF u

(* Taking a sighting that no limit forbids keeps the limits, and counts it. *)
LEMMA TakeOK ==
    ASSUME NEW t, TrackerOK(t), NEW s \in Sighting, NEW k \in Keyword,
           ~Exhausted(t), New(t, s, k) \cap AtLimit(t, s, k) = {}
    PROVE  LET n == Take(t, s, k)
           IN  /\ TrackerOK(n) /\ Grows(t, n) /\ n.total = t.total + 1
               /\ s.user \in n.profiles
               /\ s.video \in n.videos[k] \cup {None}
               /\ s.source = "profile" =>
                      s.video \in n.authored[s.user] \cup {None}
<1> DEFINE n == Take(t, s, k)
           a == Added(s, k)
<1>1. t \in Tracker /\ t.total \in Nat /\ t.total < MaxObservations
      /\ MaxObservations \in Nat
  BY ConstantsTyped DEF TrackerOK, Tracker, Exhausted
<1>2. /\ s.user \in User /\ s.video \in Video \cup {None}
      /\ s.comment \in Comment \cup {None} /\ Scope(s) \in Video \cup {None}
  BY DEF Sighting, Scope
<1>3. /\ a.max_keywords = {k}
      /\ a.max_videos_per_keyword = {s.video} \ {None}
      /\ a.max_comments_per_video = {s.comment} \ {None}
      /\ a.max_profiles = {s.user}
      /\ a.max_author_videos = IF s.source = "profile"
                               THEN {s.video} \ {None} ELSE {}
  BY DEF Added
<1>4. /\ HasRoom(t.profiles, a.max_profiles, MaxProfiles)
      /\ HasRoom(t.videos[k], a.max_videos_per_keyword, MaxVideos)
      /\ HasRoom(t.authored[s.user], a.max_author_videos, MaxAuthorVideos)
  BY DEF New, AtLimit, Limit, Counted, HasRoom
<1> HIDE DEF a
<1>5. /\ n.total = t.total + 1 /\ n.reasons = t.reasons
      /\ n.keywords = t.keywords \cup {k}
      /\ n.profiles = t.profiles \cup a.max_profiles
      /\ n.videos = [t.videos EXCEPT ![k] = @ \cup a.max_videos_per_keyword]
      /\ n.comments = [t.comments EXCEPT
                          ![Scope(s)] = @ \cup a.max_comments_per_video]
      /\ n.authored = [t.authored EXCEPT
                          ![s.user] = @ \cup a.max_author_videos]
      /\ n = [keywords |-> n.keywords, videos |-> n.videos,
              comments |-> n.comments, profiles |-> n.profiles,
              authored |-> n.authored, total |-> n.total,
              reasons |-> n.reasons]
  <2>1. n = [t EXCEPT !.keywords = @ \cup {k},
                      !.videos[k] = @ \cup a.max_videos_per_keyword,
                      !.comments[Scope(s)] = @ \cup a.max_comments_per_video,
                      !.profiles = @ \cup a.max_profiles,
                      !.authored[s.user] = @ \cup a.max_author_videos,
                      !.total = @ + 1]
    BY <1>3 DEF Take, a
  <2> HIDE DEF n
  <2> QED BY <1>1, <2>1 DEF Tracker
<1> HIDE DEF n
<1>6. n \in Tracker
  <2>1. /\ t.keywords \in SUBSET Keyword /\ t.profiles \in SUBSET User
        /\ t.videos \in [Keyword -> SUBSET Video]
        /\ t.comments \in [Video \cup {None} -> SUBSET Comment]
        /\ t.authored \in [User -> SUBSET Video]
        /\ t.reasons \in SUBSET LimitName
    BY <1>1 DEF Tracker
  <2>2. /\ n.keywords \in SUBSET Keyword /\ n.profiles \in SUBSET User
        /\ n.reasons \in SUBSET LimitName
    BY <1>2, <1>3, <1>5, <2>1
  <2>3. n.videos \in [Keyword -> SUBSET Video]
    <3> DEFINE new == t.videos[k] \cup a.max_videos_per_keyword
    <3>1. new \in SUBSET Video
      BY <1>2, <1>3, <2>1
    <3>2. n.videos = [t.videos EXCEPT ![k] = new]
      BY <1>5
    <3> HIDE DEF new
    <3> QED BY <2>1, <3>1, <3>2
  <2>4. n.comments \in [Video \cup {None} -> SUBSET Comment]
    <3> DEFINE new == t.comments[Scope(s)] \cup a.max_comments_per_video
    <3>1. new \in SUBSET Comment
      BY <1>2, <1>3, <2>1
    <3>2. n.comments = [t.comments EXCEPT ![Scope(s)] = new]
      BY <1>5
    <3> HIDE DEF new
    <3> QED BY <2>1, <3>1, <3>2
  <2>5. n.authored \in [User -> SUBSET Video]
    <3> DEFINE new == t.authored[s.user] \cup a.max_author_videos
    <3>1. new \in SUBSET Video
      BY <1>2, <1>3, <2>1
    <3>2. n.authored = [t.authored EXCEPT ![s.user] = new]
      BY <1>5
    <3> HIDE DEF new
    <3> QED BY <2>1, <3>1, <3>2
  <2>6. n.total \in 0..MaxObservations
    BY <1>1, <1>5
  <2> QED BY <1>5, <2>2, <2>3, <2>4, <2>5, <2>6 DEF Tracker
<1>7. Cardinality(n.profiles) <= MaxProfiles
  <2>1. IsFiniteSet(t.profiles)
    BY <1>1, ConstantsTyped, FS_Subset DEF Tracker
  <2>2. a.max_profiles \in SUBSET {s.user}
        /\ Cardinality(t.profiles) <= MaxProfiles /\ MaxProfiles \in Nat
    BY <1>3, ConstantsTyped DEF TrackerOK
  <2>3. Cardinality(t.profiles \cup a.max_profiles) <= MaxProfiles
    BY <1>4, <2>1, <2>2, WithinLimit
  <2> QED BY <1>5, <2>3
<1>8. ASSUME NEW j \in Keyword
      PROVE  IsFiniteSet(n.videos[j]) /\ Cardinality(n.videos[j]) <= MaxVideos
  <2>1. IsFiniteSet(t.videos[j]) /\ Cardinality(t.videos[j]) <= MaxVideos
    BY DEF TrackerOK
  <2>2. CASE j = k
    <3>1. a.max_videos_per_keyword \in SUBSET {s.video} /\ MaxVideos \in Nat
      BY <1>3, ConstantsTyped
    <3>2. n.videos[j] = t.videos[j] \cup a.max_videos_per_keyword
      BY <1>1, <1>5, <2>2 DEF Tracker
    <3>3. HasRoom(t.videos[j], a.max_videos_per_keyword, MaxVideos)
      BY <1>4, <2>2
    <3>4. /\ IsFiniteSet(t.videos[j] \cup a.max_videos_per_keyword)
          /\ Cardinality(t.videos[j] \cup a.max_videos_per_keyword)
                 <= MaxVideos
      BY <2>1, <3>1, <3>3, WithinLimit
    <3> QED BY <3>2, <3>4
  <2>3. CASE j # k
    BY <1>1, <1>5, <2>1, <2>3 DEF Tracker
  <2> QED BY <2>2, <2>3
<1>9. ASSUME NEW u \in User
      PROVE  /\ IsFiniteSet(n.authored[u])
             /\ Cardinality(n.authored[u]) <= MaxAuthorVideos
  <2>1. /\ IsFiniteSet(t.authored[u])
        /\ Cardinality(t.authored[u]) <= MaxAuthorVideos
    BY DEF TrackerOK
  <2>2. CASE u = s.user
    <3>1. a.max_author_videos \in SUBSET {s.video} /\ MaxAuthorVideos \in Nat
      BY <1>3, ConstantsTyped
    <3>2. n.authored[u] = t.authored[u] \cup a.max_author_videos
      BY <1>1, <1>5, <2>2 DEF Tracker
    <3>3. HasRoom(t.authored[u], a.max_author_videos, MaxAuthorVideos)
      BY <1>4, <2>2
    <3>4. /\ IsFiniteSet(t.authored[u] \cup a.max_author_videos)
          /\ Cardinality(t.authored[u] \cup a.max_author_videos)
                 <= MaxAuthorVideos
      BY <2>1, <3>1, <3>3, WithinLimit
    <3> QED BY <3>2, <3>4
  <2>3. CASE u # s.user
    BY <1>1, <1>5, <2>1, <2>3 DEF Tracker
  <2> QED BY <2>2, <2>3
<1>10. TrackerOK(n)
  BY <1>6, <1>7, <1>8, <1>9 DEF TrackerOK
<1>11. Grows(t, n)
  <2>1. \A j \in Keyword : t.videos[j] \subseteq n.videos[j]
    BY <1>1, <1>5 DEF Tracker
  <2>2. \A u \in User : t.authored[u] \subseteq n.authored[u]
    BY <1>1, <1>5 DEF Tracker
  <2>3. t.total <= n.total /\ t.profiles \subseteq n.profiles
    BY <1>1, <1>5
  <2> QED BY <2>1, <2>2, <2>3 DEF Grows
<1>12. /\ s.user \in n.profiles /\ s.video \in n.videos[k] \cup {None}
       /\ s.source = "profile" =>
              s.video \in n.authored[s.user] \cup {None}
  <2>1. n.videos[k] = t.videos[k] \cup a.max_videos_per_keyword
    BY <1>1, <1>5 DEF Tracker
  <2>2. n.authored[s.user] = t.authored[s.user] \cup a.max_author_videos
    BY <1>1, <1>2, <1>5 DEF Tracker
  <2> QED BY <1>3, <1>5, <2>1, <2>2
<1> QED BY <1>5, <1>10, <1>11, <1>12 DEF n

(* consume_observation keeps the limits; what it accepts counts.            *)
LEMMA ConsumeOK ==
    ASSUME NEW t, TrackerOK(t), NEW s \in Sighting, NEW k \in Keyword
    PROVE  LET d == Consume(t, s, k)
               e == EvidenceOf(s, k, d.tracker)
           IN  /\ TrackerOK(d.tracker) /\ Grows(t, d.tracker)
               /\ d.accepted \in BOOLEAN /\ d.reached \in SUBSET LimitName
               /\ d.accepted => /\ d.tracker.total = t.total + 1
                                /\ e \in Evidence /\ Noted(e, d.tracker)
               /\ ~d.accepted => d.reason \in LimitName
<1> DEFINE d == Consume(t, s, k)
           met == New(t, s, k) \cap AtLimit(t, s, k)
           n == Take(t, s, k)
<1>1. t \in Tracker /\ t.total \in Nat
  BY ConstantsTyped DEF TrackerOK, Tracker
<1>2. CASE Exhausted(t) \/ met # {}
  <2> DEFINE reason == IF Exhausted(t) THEN "max_total_observations"
                       ELSE First(met)
  <2>1. reason \in LimitName
    <3>1. met \in SUBSET LimitName
      BY LimitNames DEF New
    <3>2. ~Exhausted(t) => First(met) \in LimitName
      BY <1>2, <3>1, FirstIsLimit
    <3> QED BY <3>2, LimitNames
  <2>2. /\ ~d.accepted /\ d.accepted \in BOOLEAN /\ d.reason = reason
        /\ d.reached = {}
        /\ d.tracker = [t EXCEPT !.reasons = {reason}]
    BY <1>2 DEF Consume
  <2> HIDE DEF d, met, reason
  <2>3. d.tracker \in Tracker
    BY <1>1, <2>1, <2>2 DEF Tracker
  <2>4. /\ d.tracker.total = t.total /\ d.tracker.profiles = t.profiles
        /\ d.tracker.videos = t.videos /\ d.tracker.authored = t.authored
    BY <1>1, <2>2 DEF Tracker
  <2>5. TrackerOK(d.tracker) /\ Grows(t, d.tracker)
    BY <1>1, <2>3, <2>4 DEF TrackerOK, Grows
  <2> QED BY <2>1, <2>2, <2>5 DEF d
<1>3. CASE ~Exhausted(t) /\ met = {}
  <2> DEFINE reached == (New(t, s, k) \cap AtLimit(n, s, k)) \cup Total(n)
             e == EvidenceOf(s, k, d.tracker)
  <2>1. reached \in SUBSET LimitName
    BY LimitNames DEF New, Total
  <2>2. /\ d.accepted /\ d.accepted \in BOOLEAN /\ d.reached = reached
        /\ d.tracker = [n EXCEPT !.reasons = reached]
    BY <1>3 DEF Consume
  <2>3. /\ TrackerOK(n) /\ Grows(t, n) /\ n.total = t.total + 1
        /\ s.user \in n.profiles /\ s.video \in n.videos[k] \cup {None}
        /\ s.source = "profile" =>
               s.video \in n.authored[s.user] \cup {None}
    BY <1>3, TakeOK
  <2> HIDE DEF d, n, reached
  <2>4. n \in Tracker
    BY <2>3 DEF TrackerOK
  <2>5. d.tracker \in Tracker
    BY <2>1, <2>2, <2>4 DEF Tracker
  <2>6. /\ d.tracker.total = n.total /\ d.tracker.profiles = n.profiles
        /\ d.tracker.videos = n.videos /\ d.tracker.authored = n.authored
    BY <2>2, <2>4 DEF Tracker
  <2>7. TrackerOK(d.tracker) /\ Grows(t, d.tracker)
    BY <2>3, <2>5, <2>6 DEF TrackerOK, Grows
  <2>8. d.tracker.total \in 1..MaxObservations
    BY <1>1, <2>3, <2>4, <2>6, ConstantsTyped DEF Tracker
  <2>9. e \in Evidence
    BY <2>8 DEF EvidenceOf, Evidence
  <2>10. Noted(e, d.tracker)
    BY <2>3, <2>6, <2>8, ConstantsTyped DEF Noted, EvidenceOf
  <2> HIDE DEF e
  <2> QED BY <2>1, <2>2, <2>3, <2>6, <2>7, <2>9, <2>10 DEF d, e
<1> QED BY <1>2, <1>3

(* An accepted observation is told from all earlier ones by its number.     *)
LEMMA OneMoreNoted ==
    ASSUME NEW t, TrackerOK(t), NEW u, TrackerOK(u), Grows(t, u),
           u.total = t.total + 1,
           NEW found \in SUBSET Evidence, AllNoted(found, t),
           NEW e \in Evidence, Noted(e, u), e.number = u.total
    PROVE  AllNoted(found \cup {e}, u)
<1>1. t \in Tracker /\ u \in Tracker /\ t.total \in Nat /\ u.total \in Nat
  BY ConstantsTyped DEF TrackerOK, Tracker
<1>2. ASSUME NEW f \in found PROVE Noted(f, u) /\ f.number # e.number
  <2>1. f \in Evidence /\ Noted(f, t)
    BY DEF AllNoted
  <2>2. f.number \in Nat /\ f.number <= t.total
    BY <2>1, ConstantsTyped DEF Evidence, Noted
  <2> QED BY <1>1, <2>1, <2>2, NotedGrows
<1> QED BY <1>2 DEF AllNoted

(* Found evidence still counts when the tracker has grown.                  *)
LEMMA StillNoted ==
    ASSUME NEW t, TrackerOK(t), NEW u, TrackerOK(u), Grows(t, u),
           NEW found \in SUBSET Evidence, AllNoted(found, t)
    PROVE  AllNoted(found, u)
<1>1. t \in Tracker /\ u \in Tracker
  BY DEF TrackerOK
<1> QED BY <1>1, NotedGrows DEF AllNoted

-----------------------------------------------------------------------------
(* The plain search                                                        *)

(* A set of indices has a greatest one.                                     *)
LEMMA MaxOfIndices ==
    ASSUME NEW n \in Nat, NEW s \in SUBSET (1..n), s # {}
    PROVE  Max(s) \in s
<1> DEFINE N == {n - i : i \in s}
<1>1. N \in SUBSET Nat /\ N # {}
  <2>1. ASSUME NEW i \in s PROVE n - i \in Nat
    <3>1. i \in 1..n
      OBVIOUS
    <3> QED BY <3>1
  <2>2. N # {}
    OBVIOUS
  <2> QED BY <2>1, <2>2
<1>2. PICK m \in N : \A j \in N : m <= j
  BY <1>1, LeastExists
<1>3. PICK i \in s : m = n - i
  BY <1>2
<1>4. ASSUME NEW j \in s PROVE i >= j
  <2>1. n - i <= n - j
    BY <1>2, <1>3
  <2>2. i \in Int /\ j \in Int
    OBVIOUS
  <2> QED BY <2>1, <2>2
<1>5. \E x \in s : \A y \in s : x >= y
  BY <1>4
<1> QED BY <1>5 DEF Max

\* What a search for users has after some of them; before is what was found
\* before the search.
SearchResult(before) ==
    {v \in [tracker : Tracker, found : SUBSET Evidence,
            reasons : [User -> SUBSET Reasons]] :
        /\ TrackerOK(v.tracker) /\ Grows(tracker, v.tracker)
        /\ AllNoted(before \cup v.found, v.tracker)
        /\ \A e \in v.found : /\ e.keyword = keyword
                              /\ e.sighting.source = "direct_user"}

LEMMA AddUserOK ==
    ASSUME TrackerOK(tracker), keyword \in Keyword,
           NEW before \in SUBSET Evidence,
           NEW v \in SearchResult(before), NEW u \in User
    PROVE  AddUser(v, u) \in SearchResult(before)
<1> DEFINE s == DirectUser(u)
           d == Consume(v.tracker, s, keyword)
           e == EvidenceOf(s, keyword, d.tracker)
           r == AddUser(v, u)
<1>1. s \in Sighting /\ s.source = "direct_user"
  BY DEF DirectUser, Sighting, Source
<1>2. /\ TrackerOK(v.tracker) /\ Grows(tracker, v.tracker)
      /\ v.found \in SUBSET Evidence /\ v.reasons \in [User -> SUBSET Reasons]
      /\ AllNoted(before \cup v.found, v.tracker)
      /\ \A f \in v.found : f.keyword = keyword
                            /\ f.sighting.source = "direct_user"
  BY DEF SearchResult
<1>3. /\ TrackerOK(d.tracker) /\ Grows(v.tracker, d.tracker)
      /\ d.accepted \in BOOLEAN /\ d.reached \in SUBSET LimitName
      /\ d.accepted => /\ d.tracker.total = v.tracker.total + 1
                       /\ e \in Evidence /\ Noted(e, d.tracker)
  BY <1>1, <1>2, ConsumeOK
<1>4. /\ e.keyword = keyword /\ e.sighting = s
      /\ e.number = d.tracker.total
  BY DEF EvidenceOf
<1>5. /\ r = [tracker |-> r.tracker, found |-> r.found, reasons |-> r.reasons]
      /\ r.tracker = d.tracker
      /\ r.found = IF d.accepted THEN v.found \cup {e} ELSE v.found
      /\ r.reasons = [v.reasons EXCEPT ![u] = @ \cup d.reached]
  BY DEF AddUser
<1> HIDE DEF s, d, e, r
<1>6. Grows(tracker, d.tracker)
  <2>1. tracker \in Tracker /\ v.tracker \in Tracker /\ d.tracker \in Tracker
    BY <1>2, <1>3 DEF TrackerOK
  <2>2. tracker.total \in Nat /\ v.tracker.total \in Nat
        /\ d.tracker.total \in Nat
    BY <2>1, ConstantsTyped DEF Tracker
  <2> QED BY <1>2, <1>3, <2>2 DEF Grows
<1>7. r.reasons \in [User -> SUBSET Reasons]
  <2>1. v.reasons[u] \cup d.reached \in SUBSET Reasons
    BY <1>2, <1>3 DEF Reasons
  <2> QED BY <1>2, <1>5, <2>1
<1>8. /\ r.found \in SUBSET Evidence
      /\ AllNoted(before \cup r.found, r.tracker)
      /\ \A f \in r.found : f.keyword = keyword
                            /\ f.sighting.source = "direct_user"
  <2> DEFINE all == before \cup v.found
  <2>1. all \in SUBSET Evidence /\ AllNoted(all, v.tracker)
    BY <1>2
  <2>2. CASE d.accepted
    <3> HIDE DEF all
    <3>1. AllNoted(all \cup {e}, d.tracker)
      BY <1>2, <1>3, <1>4, <2>1, <2>2, OneMoreNoted
    <3>2. before \cup r.found = all \cup {e} /\ r.found = v.found \cup {e}
      BY <1>5, <2>2 DEF all
    <3> QED BY <1>1, <1>2, <1>3, <1>4, <1>5, <2>2, <3>1, <3>2
  <2>3. CASE ~d.accepted
    <3> HIDE DEF all
    <3>1. AllNoted(all, d.tracker)
      BY <1>2, <1>3, <2>1, StillNoted
    <3> QED BY <1>2, <1>5, <2>3, <3>1 DEF all
  <2> QED BY <1>3, <2>2, <2>3
<1>9. r.tracker \in Tracker
  BY <1>3, <1>5 DEF TrackerOK
<1>10. r \in [tracker : Tracker, found : SUBSET Evidence,
              reasons : [User -> SUBSET Reasons]]
  BY <1>5, <1>7, <1>8, <1>9
<1> QED BY <1>3, <1>5, <1>6, <1>8, <1>10 DEF SearchResult, r

(* A search finds what the budget allows, whatever the listing names.       *)
LEMMA SearchedOK ==
    ASSUME TrackerOK(tracker), keyword \in Keyword,
           NEW before \in SUBSET Evidence, AllNoted(before, tracker),
           NEW users \in Listing
    PROVE  Searched(users) \in SearchResult(before)
<1>1. PICK n \in Nat : users \in [1..n -> User]
  <2>1. Cardinality(User) \in Nat
    BY ConstantsTyped, FS_CardinalityType
  <2> QED BY <2>1 DEF Listing
<1> DEFINE S == DOMAIN users
           V == SearchResult(before)
           base == [tracker |-> tracker, found |-> {}, reasons |-> NoReasons]
           Iter(i) == i = [s \in SUBSET S |->
                              IF s = {} THEN base
                              ELSE AddUser(i[s \ {Max(s)}], users[Max(s)])]
           it == CHOOSE i : Iter(i)
           c == [s \in SUBSET S |-> Max(s)]
           h == [p \in (SUBSET S) \X V |->
                    IF p[1] = {} THEN base ELSE AddUser(p[2], users[c[p[1]]])]
<1>2. Searched(users) = it[S]
  BY DEF Searched, FoldLeft, MapThenFoldSet
<1>3. S = 1..n /\ IsFiniteSet(S)
  BY <1>1, FS_Interval
<1>4. base \in V
  <2>1. tracker \in Tracker
    BY DEF TrackerOK
  <2>2. NoReasons \in [User -> SUBSET Reasons]
    BY DEF NoReasons
  <2>3. Grows(tracker, tracker)
    BY <2>1, ConstantsTyped DEF Grows, Tracker
  <2>4. before \cup base.found = before
    OBVIOUS
  <2> QED BY <2>1, <2>2, <2>3, <2>4 DEF SearchResult
<1>5. ASSUME NEW s \in SUBSET S, s # {}
      PROVE  Max(s) \in s /\ c[s] = Max(s)
  BY <1>3, <1>5, MaxOfIndices
<1>6. Choosing(c, S)
  BY <1>5 DEF Choosing
<1> HIDE DEF base, V, c
<1>7. ASSUME NEW s \in SUBSET S, NEW v \in V
      PROVE  /\ h[<<s, v>>] \in V
             /\ s = {} => h[<<s, v>>] = base
             /\ s # {} => h[<<s, v>>] = AddUser(v, users[Max(s)])
  <2>1. h[<<s, v>>] = IF s = {} THEN base ELSE AddUser(v, users[c[s]])
    OBVIOUS
  <2>2. CASE s = {}
    BY <1>4, <2>1, <2>2
  <2>3. CASE s # {}
    <3>1. c[s] = Max(s) /\ users[Max(s)] \in User
      BY <1>1, <1>3, <1>5, <2>3
    <3>2. AddUser(v, users[Max(s)]) \in V
      BY <3>1, AddUserOK DEF V
    <3> QED BY <2>1, <2>3, <3>1, <3>2
  <2> QED BY <2>2, <2>3
<1> HIDE DEF h
<1>8. Closed(h, S, V)
  BY <1>7 DEF Closed
<1>9. PICK g \in [SUBSET S -> V] : Folding(g, S, base, c, h)
  BY <1>3, <1>4, <1>6, <1>8, FoldExists
<1>10. Iter(g)
  <2>1. ASSUME NEW s \in SUBSET S
        PROVE  g[s] = IF s = {} THEN base
                      ELSE AddUser(g[s \ {Max(s)}], users[Max(s)])
    <3>1. CASE s = {}
      BY <1>9, <3>1 DEF Folding
    <3>2. CASE s # {}
      <4>1. g[s] = h[<<s, g[s \ {Max(s)}]>>] /\ g[s \ {Max(s)}] \in V
        BY <1>5, <1>9, <3>2 DEF Folding
      <4> QED BY <1>7, <3>2, <4>1
    <3> QED BY <3>1, <3>2
  <2> QED BY <2>1
<1>11. Iter(it)
  BY <1>10
<1> HIDE DEF it
<1>12. it[S] \in V
  <2> DEFINE G == {s \in SUBSET S : it[s] \in V}
  <2>1. ASSUME NEW s \in SUBSET S, \A x \in s : s \ {x} \in G PROVE s \in G
    <3>1. CASE s = {}
      BY <1>4, <1>11, <3>1
    <3>2. CASE s # {}
      <4>1. it[s] = AddUser(it[s \ {Max(s)}], users[Max(s)])
        BY <1>11, <3>2
      <4>2. Max(s) \in s /\ it[s \ {Max(s)}] \in V
        BY <1>5, <2>1, <3>2
      <4>3. users[Max(s)] \in User
        BY <1>1, <1>3, <4>2
      <4>4. it[s] \in V
        BY <4>1, <4>2, <4>3, AddUserOK DEF V
      <4> QED BY <4>4
    <3> QED BY <3>1, <3>2
  <2> HIDE DEF G
  <2>2. \A s \in SUBSET S : s \in G
    BY <1>3, <2>1, SubsetInduction
  <2> QED BY <2>2 DEF G
<1> QED BY <1>2, <1>12 DEF V

-----------------------------------------------------------------------------
(* What the steps of the agent do                                          *)

\* The run of the agent after some more of it.
RunOK(run) ==
    /\ run \in Agent /\ run.from = agent.from
    /\ run.pages <= budget.pages
    /\ agent.calls <= run.calls /\ run.calls <= budget.calls
    /\ IsFiniteSet(run.visited)
    /\ \A u \in User : agent.reasons[u] \subseteq run.reasons[u]
    /\ \A e \in run.found : e.keyword = keyword
    /\ run.found # {} => run.calls > 0

Clocked == clock' \in 0..MaxTime + 1 /\ clock <= clock'

Browsed ==
    /\ at \in {"opening", "browsing"} /\ at' \in {"browsing", "returned"}
    /\ Browsing /\ Clocked
    /\ RunOK(agent') /\ TrackerOK(tracker')
    /\ at' = "returned" => agent'.time = clock' - agent.from
    /\ AllNoted(merged.evidence \cup agent'.found, tracker')
    /\ \A c \in cut' :
           c \in cut \/ /\ c \in Keyword \X User /\ c[1] = keyword
                        /\ agent'.reasons[c[2]] # {}

LEMMA Ticks ==
    /\ MaxTime \in Nat /\ MaxTime >= 1
    /\ \A c \in 0..MaxTime + 1 : c \in Nat /\ c <= MaxTime + 1
<1>1. MaxTime \in Nat /\ MaxTime >= 1
  BY ConstantsTyped
<1> QED BY <1>1

LEMMA Duration ==
    ASSUME NEW from \in Nat, NEW now \in Nat, NEW then \in 0..MaxTime + 1,
           from <= now, now <= then
    PROVE  then - from \in 0..MaxTime + 1
<1>1. MaxTime \in Nat /\ then \in Nat
  BY Ticks
<1> QED BY <1>1

(* The parts of an agent that runs.                                         *)
LEMMA RunTyped ==
    ASSUME NEW run \in Agent
    PROVE  /\ run.steps \in Nat /\ run.pages \in Nat /\ run.calls \in Nat
           /\ run.found \in SUBSET Evidence /\ run.visited \in SUBSET Video
           /\ run.reasons \in [User -> SUBSET Reasons]
           /\ run.from \in 0..MaxTime + 1 /\ run.from \in Nat
           /\ run.time \in 0..MaxTime + 1 /\ run.time \in Nat
           /\ run.why \in Reasons \cup {""}
<1>1. /\ run.steps \in Nat /\ run.pages \in Nat /\ run.calls \in Nat
      /\ run.found \in SUBSET Evidence /\ run.visited \in SUBSET Video
      /\ run.reasons \in [User -> SUBSET Reasons]
      /\ run.from \in 0..MaxTime + 1 /\ run.time \in 0..MaxTime + 1
      /\ run.why \in Reasons \cup {""}
  BY DEF Agent
<1>2. run.from \in Nat /\ run.time \in Nat
  BY <1>1, Ticks
<1> QED BY <1>1, <1>2

(* Time passes in ticks, and not beyond the tick that stands for later.     *)
LEMMA LaterIsClocked ==
    ASSUME CollectInv, clock' \in Later
    PROVE  Clocked
<1>1. clock \in 0..MaxTime + 1
  BY DEF CollectInv, CollectionTypeOK
<1> QED BY <1>1, ConstantsTyped DEF Later, Clocked

LEMMA PassIsClocked ==
    ASSUME CollectInv, Pass
    PROVE  Clocked
BY LaterIsClocked DEF Pass

(* What the state is while the agent runs.                                  *)
LEMMA WhileBrowsing ==
    ASSUME CollectInv, at \in {"opening", "browsing"}
    PROVE  /\ RunOK(agent) /\ agent \in Agent /\ keyword \in Keyword
           /\ agent.from <= clock /\ clock \in Nat /\ agent.from \in Nat
           /\ budget.pages \in Nat /\ budget.calls \in Nat
           /\ merged.evidence \in SUBSET Evidence
           /\ cut \in SUBSET (Keyword \X User)
           /\ TrackerOK(tracker)
           /\ AllNoted(merged.evidence \cup agent.found, tracker)
<1>1. /\ agent \in Agent /\ keyword \in Keyword /\ clock \in 0..MaxTime + 1
      /\ budget \in [pages : Nat, calls : Nat]
      /\ merged.evidence \in SUBSET Evidence
      /\ cut \in SUBSET (Keyword \X User)
  BY DEF CollectInv, CollectionTypeOK
<1>2. /\ agent.from \in Nat /\ agent.calls \in Nat /\ clock \in Nat
      /\ budget.pages \in Nat /\ budget.calls \in Nat
  <2>1. agent.from \in Nat /\ agent.calls \in Nat
    BY <1>1, RunTyped
  <2>2. clock \in Nat
    BY <1>1, ConstantsTyped
  <2> QED BY <1>1, <2>1, <2>2
<1>3. Browses /\ Pending = agent.found
  BY DEF Browses, Pending
<1>4. /\ agent.pages <= budget.pages /\ agent.calls <= budget.calls
      /\ agent.found # {} => agent.calls > 0
      /\ agent.from <= clock
  BY <1>3 DEF CollectInv, BudgetOK, TimeOK
<1>5. /\ AllNoted(merged.evidence \cup agent.found, tracker)
      /\ \A e \in agent.found : e.keyword = keyword
  BY <1>3 DEF CollectInv, FoundOK
<1>6. IsFiniteSet(agent.visited) /\ TrackerOK(tracker)
  BY DEF CollectInv, FiniteOK
<1>7. RunOK(agent)
  BY <1>1, <1>2, <1>4, <1>5, <1>6 DEF RunOK
<1> QED BY <1>1, <1>2, <1>4, <1>5, <1>6, <1>7

(* A run that ends has all that it had, and its time.                       *)
LEMMA FinishOK ==
    ASSUME CollectInv, at \in {"opening", "browsing"}, Clocked,
           NEW run, RunOK(run), NEW why \in Reasons \cup {""},
           Finish(run, why)
    PROVE  /\ at' = "returned" /\ RunOK(agent')
           /\ agent'.time = clock' - agent.from
           /\ agent'.found = run.found /\ agent'.reasons = run.reasons
<1>1. run \in Agent /\ run.from = agent.from
  BY DEF RunOK
<1>2. clock' - run.from \in 0..MaxTime + 1
  <2>1. clock' \in 0..MaxTime + 1 /\ clock <= clock'
    BY DEF Clocked
  <2>2. agent.from <= clock /\ clock \in Nat /\ agent.from \in Nat
    BY WhileBrowsing
  <2>3. clock' - agent.from \in 0..MaxTime + 1
    BY <2>1, <2>2, Duration
  <2> QED BY <1>1, <2>3
<1>3. agent' = [run EXCEPT !.why = why, !.time = clock' - run.from]
      /\ at' = "returned"
  BY DEF Finish
<1>4. /\ agent'.time = clock' - run.from
      /\ agent'.found = run.found /\ agent'.reasons = run.reasons
      /\ agent'.pages = run.pages /\ agent'.calls = run.calls
      /\ agent'.visited = run.visited /\ agent'.from = run.from
  BY <1>1, <1>3 DEF Agent
<1>5. agent' \in Agent
  BY <1>1, <1>2, <1>3 DEF Agent
<1> QED BY <1>1, <1>3, <1>4, <1>5 DEF RunOK

(* One more call, maybe without a step that it led to.                      *)
LEMMA CalledOK ==
    ASSUME CollectInv, at \in {"opening", "browsing"},
           NEW c \in {0, 1}, c = 0 \/ MayStep, NEW s \in {0, 1},
           NEW run, run = [agent EXCEPT !.calls = @ + c, !.steps = @ + s]
    PROVE  /\ RunOK(run) /\ run.found = agent.found
           /\ run.reasons = agent.reasons /\ run.pages = agent.pages
           /\ run.visited = agent.visited /\ run.calls = agent.calls + c
<1>1. /\ RunOK(agent) /\ agent \in Agent /\ budget.calls \in Nat
  BY WhileBrowsing
<1>2. agent.calls \in Nat /\ agent.steps \in Nat /\ agent.calls <= budget.calls
  BY <1>1, RunTyped DEF RunOK
<1>3. /\ run.found = agent.found /\ run.reasons = agent.reasons
      /\ run.pages = agent.pages /\ run.calls = agent.calls + c
      /\ run.visited = agent.visited /\ run.from = agent.from
  BY <1>1 DEF Agent
<1>4. agent.calls + c \in Nat /\ agent.steps + s \in Nat
  BY <1>2
<1>5. run \in Agent
  BY <1>1, <1>4 DEF Agent
<1>6. agent.calls + c <= budget.calls /\ agent.calls <= agent.calls + c
  BY <1>1, <1>2 DEF MayStep
<1>7. run.found # {} => run.calls > 0
  BY <1>1, <1>2, <1>3 DEF RunOK
<1> QED BY <1>1, <1>3, <1>5, <1>6, <1>7 DEF RunOK

LEMMA SteppedOK ==
    ASSUME CollectInv, at = "browsing", MayStep
    PROVE  /\ RunOK(Stepped) /\ Stepped.found = agent.found
           /\ Stepped.reasons = agent.reasons /\ Stepped.pages = agent.pages
           /\ Stepped.visited = agent.visited
           /\ Stepped.calls = agent.calls + 1 /\ Stepped.calls > 0
<1>1. Stepped = [agent EXCEPT !.calls = @ + 1, !.steps = @ + 1]
  BY DEF Stepped
<1>2. /\ RunOK(Stepped) /\ Stepped.found = agent.found
      /\ Stepped.reasons = agent.reasons /\ Stepped.pages = agent.pages
      /\ Stepped.visited = agent.visited
      /\ Stepped.calls = agent.calls + 1
  BY <1>1, CalledOK
<1>3. agent.calls \in Nat
  BY WhileBrowsing, RunTyped
<1> QED BY <1>2, <1>3

\* Neither the tracker nor what was found or left out changes.
LEMMA QuietRun ==
    ASSUME CollectInv, at \in {"opening", "browsing"},
           at' \in {"browsing", "returned"}, Browsing, Clocked,
           UNCHANGED <<tracker, cut>>, RunOK(agent'),
           agent'.found = agent.found,
           at' = "returned" => agent'.time = clock' - agent.from
    PROVE  Browsed
<1>1. TrackerOK(tracker) /\ AllNoted(merged.evidence \cup agent.found, tracker)
  BY WhileBrowsing
<1>2. tracker' = tracker /\ cut' = cut
  OBVIOUS
<1>3. TrackerOK(tracker')
  BY <1>1, <1>2
<1>4. AllNoted(merged.evidence \cup agent'.found, tracker')
  BY <1>1, <1>2
<1> QED BY <1>2, <1>3, <1>4 DEF Browsed

(* The run ends, with what it has found so far.                             *)
LEMMA QuietEnd ==
    ASSUME CollectInv, at \in {"opening", "browsing"}, Browsing, Clocked,
           UNCHANGED <<tracker, cut>>,
           NEW run, RunOK(run), run.found = agent.found,
           NEW why \in Reasons \cup {""}, Finish(run, why)
    PROVE  Browsed
<1>1. /\ at' = "returned" /\ RunOK(agent')
      /\ agent'.time = clock' - agent.from /\ agent'.found = run.found
  BY FinishOK
<1> QED BY <1>1, QuietRun

LEMMA OpenBrowses ==
    ASSUME CollectInv, Open
    PROVE  Browsed
<1>1. /\ at = "opening" /\ Pass /\ agent' = [agent EXCEPT !.pages = 1]
      /\ at' = "browsing" /\ UNCHANGED <<tracker, cut>> /\ Browsing
  BY DEF Open
<1>2. RunOK(agent) /\ agent \in Agent /\ budget.pages \in Nat
  BY <1>1, WhileBrowsing
<1>3. budget.pages > 0
  BY <1>1 DEF CollectInv, BudgetOK
<1>4. /\ agent'.pages = 1 /\ agent'.calls = agent.calls
      /\ agent'.found = agent.found /\ agent'.reasons = agent.reasons
      /\ agent'.visited = agent.visited /\ agent'.from = agent.from
      /\ agent' \in Agent
  BY <1>1, <1>2 DEF Agent
<1>5. RunOK(agent')
  BY <1>2, <1>3, <1>4 DEF RunOK
<1>6. Clocked
  BY <1>1, PassIsClocked
<1> QED BY <1>1, <1>4, <1>5, <1>6, QuietRun

LEMMA LeavePlatformBrowses ==
    ASSUME CollectInv, LeavePlatform
    PROVE  Browsed
<1>1. /\ at \in {"opening", "browsing"} /\ Pass
      /\ UNCHANGED <<tracker, cut>> /\ Browsing
      /\ at = "browsing" => MayStep
  BY DEF LeavePlatform
<1>2. PICK called \in IF at = "opening" THEN {0} ELSE {0, 1} :
          Finish([agent EXCEPT !.calls = @ + called, !.steps = @ + called],
                 "unsafe_url")
  BY DEF LeavePlatform
<1> DEFINE run == [agent EXCEPT !.calls = @ + called, !.steps = @ + called]
<1>3. called \in {0, 1} /\ (called = 0 \/ MayStep)
  BY <1>1
<1> HIDE DEF run
<1>4. RunOK(run) /\ run.found = agent.found
  <2>1. run = [agent EXCEPT !.calls = @ + called, !.steps = @ + called]
    BY DEF run
  <2> QED BY <1>1, <1>3, <2>1, CalledOK
<1>5. Finish(run, "unsafe_url")
  BY <1>2 DEF run
<1>6. Clocked
  BY <1>1, PassIsClocked
<1>7. "unsafe_url" \in Reasons \cup {""}
  BY DEF Reasons
<1> QED BY <1>1, <1>4, <1>5, <1>6, <1>7, QuietEnd

LEMMA TimeOutBrowses ==
    ASSUME CollectInv, TimeOut
    PROVE  Browsed
<1>1. /\ at \in {"opening", "browsing"} /\ UNCHANGED <<tracker, cut>>
      /\ Browsing
      /\ at = "browsing" => MayStep
      /\ clock' \in {c \in {MaxTime, MaxTime + 1} : c >= clock}
  BY DEF TimeOut
<1>2. PICK called \in IF at = "opening" THEN {0} ELSE {0, 1} :
          Finish([agent EXCEPT !.calls = @ + called], "max_duration")
  BY DEF TimeOut
<1> DEFINE run == [agent EXCEPT !.calls = @ + called]
<1>3. called \in {0, 1} /\ (called = 0 \/ MayStep)
  BY <1>1
<1>4. agent \in Agent /\ clock \in Nat
  BY <1>1, WhileBrowsing
<1>5. run = [agent EXCEPT !.calls = @ + called, !.steps = @ + 0]
  <2>1. agent.steps \in Nat
    BY <1>4, RunTyped
  <2>2. agent.steps + 0 = agent.steps
    BY <2>1
  <2> QED BY <1>4, <2>2 DEF Agent
<1> HIDE DEF run
<1>6. RunOK(run) /\ run.found = agent.found
  <2>1. 0 \in {0, 1}
    OBVIOUS
  <2> QED BY <1>1, <1>3, <1>5, <2>1, CalledOK
<1>7. Finish(run, "max_duration")
  BY <1>2 DEF run
<1>8. Clocked
  BY <1>1, <1>4, Ticks DEF Clocked
<1>9. "max_duration" \in Reasons \cup {""}
  BY DEF Reasons
<1> QED BY <1>1, <1>6, <1>7, <1>8, <1>9, QuietEnd

LEMMA NoMoreStepsBrowses ==
    ASSUME CollectInv, NoMoreSteps
    PROVE  Browsed
<1>1. /\ at \in {"opening", "browsing"} /\ UNCHANGED <<tracker, cut>>
      /\ Browsing /\ clock' = clock
  BY DEF NoMoreSteps
<1>2. Clocked
  <2>1. clock \in 0..MaxTime + 1
    BY DEF CollectInv, CollectionTypeOK
  <2>2. clock \in Nat
    BY <2>1, Ticks
  <2>3. clock <= clock
    BY <2>2
  <2> QED BY <1>1, <2>1, <2>3 DEF Clocked
<1>3. PICK why \in Reasons \cup {""} : Finish(agent, why)
  BY DEF NoMoreSteps, Reasons
<1>4. RunOK(agent)
  BY <1>1, WhileBrowsing
<1> QED BY <1>1, <1>2, <1>3, <1>4, QuietEnd

LEMMA IdleStepBrowses ==
    ASSUME CollectInv, IdleStep
    PROVE  Browsed
<1>1. /\ at = "browsing" /\ MayStep /\ Pass /\ agent' = Stepped
      /\ at' = "browsing" /\ UNCHANGED <<tracker, cut>> /\ Browsing
  BY DEF IdleStep
<1>2. RunOK(agent') /\ agent'.found = agent.found
  BY <1>1, SteppedOK
<1>3. Clocked
  BY <1>1, PassIsClocked
<1> QED BY <1>1, <1>2, <1>3, QuietRun

LEMMA VisitBrowses ==
    ASSUME CollectInv, NEW v \in Video \cup {None}, NEW counted \in {0, 1},
           Visit(v, counted)
    PROVE  Browsed
<1>1. /\ at = "browsing" /\ MayStep /\ Pass /\ at' = "browsing"
      /\ agent.pages < budget.pages
      /\ agent' = [Stepped EXCEPT !.pages = @ + counted,
                                  !.visited = @ \cup ({v} \ {None})]
      /\ UNCHANGED <<tracker, cut>> /\ Browsing
  BY DEF Visit
<1>2. /\ RunOK(Stepped) /\ Stepped.found = agent.found
      /\ Stepped.pages = agent.pages /\ Stepped \in Agent
  BY <1>1, SteppedOK DEF RunOK
<1>3. Stepped.pages \in Nat /\ Stepped.visited \in SUBSET Video
  BY <1>2, RunTyped
<1>4. budget.pages \in Nat
  BY <1>1, WhileBrowsing
<1>5. /\ agent'.pages = Stepped.pages + counted
      /\ agent'.visited = Stepped.visited \cup ({v} \ {None})
      /\ agent'.calls = Stepped.calls /\ agent'.found = Stepped.found
      /\ agent'.reasons = Stepped.reasons /\ agent'.from = Stepped.from
  BY <1>1, <1>2 DEF Agent
<1>6. agent' \in Agent
  <2>1. Stepped.pages + counted \in Nat
        /\ Stepped.visited \cup ({v} \ {None}) \in SUBSET Video
    BY <1>3
  <2> QED BY <1>1, <1>2, <2>1 DEF Agent
<1>7. IsFiniteSet(agent'.visited)
  <2>1. IsFiniteSet(Stepped.visited)
    BY <1>2 DEF RunOK
  <2>2. \/ agent'.visited = Stepped.visited
        \/ agent'.visited = Stepped.visited \cup {v}
    BY <1>5
  <2> QED BY <2>1, <2>2, FS_AddElement
<1>8. agent'.pages <= budget.pages
  BY <1>1, <1>2, <1>3, <1>4, <1>5
<1>9. RunOK(agent')
  BY <1>2, <1>5, <1>6, <1>7, <1>8 DEF RunOK
<1>10. Clocked
  BY <1>1, PassIsClocked
<1> QED BY <1>1, <1>2, <1>5, <1>9, <1>10, QuietRun

LEMMA VisitTooManyBrowses ==
    ASSUME CollectInv, VisitTooMany
    PROVE  Browsed
<1>1. /\ at = "browsing" /\ MayStep /\ Pass /\ Finish(Stepped, "max_pages")
      /\ UNCHANGED <<tracker, cut>> /\ Browsing
  BY DEF VisitTooMany
<1>2. RunOK(Stepped) /\ Stepped.found = agent.found
  BY <1>1, SteppedOK
<1>3. Clocked /\ "max_pages" \in Reasons \cup {""}
  BY <1>1, PassIsClocked DEF Reasons
<1> QED BY <1>1, <1>2, <1>3, QuietEnd

LEMMA DoneBrowses ==
    ASSUME CollectInv, Done
    PROVE  Browsed
<1>1. /\ at = "browsing" /\ MayStep /\ Pass /\ Finish(Stepped, "")
      /\ UNCHANGED <<tracker, cut>> /\ Browsing
  BY DEF Done
<1>2. RunOK(Stepped) /\ Stepped.found = agent.found
  BY <1>1, SteppedOK
<1>3. Clocked /\ "" \in Reasons \cup {""}
  BY <1>1, PassIsClocked
<1> QED BY <1>1, <1>2, <1>3, QuietEnd

(* An extracted sighting counts when it is accepted, and leaves a reason    *)
(* for its user when it is not.                                             *)
LEMMA ExtractBrowses ==
    ASSUME CollectInv, NEW s \in Seen, Extract(s)
    PROVE  Browsed
<1> DEFINE d == Consume(tracker, s, keyword)
           e == EvidenceOf(s, keyword, d.tracker)
           run == IF d.accepted THEN Accepted(s, d) ELSE Refused(s, d.reason)
           why == IF d.accepted THEN "max_total_observations" ELSE d.reason
<1>1. /\ at = "browsing" /\ MayStep /\ Pass /\ Browsing
      /\ tracker' = d.tracker
      /\ cut' = IF d.accepted THEN cut ELSE cut \cup {<<keyword, s.user>>}
      /\ IF d.stop THEN Finish(run, why) ELSE agent' = run /\ UNCHANGED at
  BY DEF Extract
<1>2. /\ TrackerOK(tracker) /\ keyword \in Keyword /\ s \in Sighting
      /\ s.user \in User
      /\ merged.evidence \in SUBSET Evidence
      /\ AllNoted(merged.evidence \cup agent.found, tracker)
  BY <1>1, WhileBrowsing, ConstantsTyped DEF Sighting
<1>3. /\ TrackerOK(d.tracker) /\ Grows(tracker, d.tracker)
      /\ d.accepted \in BOOLEAN /\ d.reached \in SUBSET LimitName
      /\ d.accepted => /\ d.tracker.total = tracker.total + 1
                       /\ e \in Evidence /\ Noted(e, d.tracker)
      /\ ~d.accepted => d.reason \in LimitName
  BY <1>2, ConsumeOK
<1>4. e.keyword = keyword /\ e.number = d.tracker.total
  BY DEF EvidenceOf
<1>5. /\ RunOK(Stepped) /\ Stepped.found = agent.found
      /\ Stepped.reasons = agent.reasons /\ Stepped.calls > 0
      /\ Stepped \in Agent
  BY <1>1, SteppedOK DEF RunOK
<1>6. /\ Stepped.found \in SUBSET Evidence
      /\ Stepped.reasons \in [User -> SUBSET Reasons]
  BY <1>5, RunTyped
<1>7. why \in Reasons \cup {""}
  BY <1>3, LimitNames DEF Reasons
<1>8. /\ run = [Stepped EXCEPT !.found = run.found, !.reasons = run.reasons]
      /\ run.found = IF d.accepted THEN agent.found \cup {e} ELSE agent.found
      /\ d.accepted =>
             run.reasons = [Stepped.reasons EXCEPT
                               ![s.user] = @ \cup (d.reached \cap Truncated)]
      /\ ~d.accepted =>
             run.reasons = [Stepped.reasons EXCEPT
                               ![s.user] = @ \cup {d.reason}]
  <2>1. CASE d.accepted
    BY <1>5, <2>1 DEF Accepted, Agent
  <2>2. CASE ~d.accepted
    BY <1>5, <2>2 DEF Refused, Agent
  <2> QED BY <2>1, <2>2
<1> HIDE DEF d, e, run, why
<1>9. PICK more \in SUBSET Reasons :
          /\ run.reasons = [Stepped.reasons EXCEPT ![s.user] = @ \cup more]
          /\ ~d.accepted => more # {}
  <2>1. CASE d.accepted
    <3>1. d.reached \cap Truncated \in SUBSET Reasons
      BY <1>3 DEF Reasons
    <3> QED BY <1>8, <2>1, <3>1
  <2>2. CASE ~d.accepted
    <3>1. {d.reason} \in SUBSET Reasons
      BY <1>3, <2>2 DEF Reasons
    <3> QED BY <1>8, <2>2, <3>1
  <2> QED BY <2>1, <2>2
<1>10. /\ run.reasons \in [User -> SUBSET Reasons]
       /\ \A u \in User : Stepped.reasons[u] \subseteq run.reasons[u]
       /\ ~d.accepted => run.reasons[s.user] # {}
  <2> DEFINE new == Stepped.reasons[s.user] \cup more
  <2>1. new \in SUBSET Reasons
    BY <1>2, <1>6
  <2>2. run.reasons = [Stepped.reasons EXCEPT ![s.user] = new]
    BY <1>9
  <2>3. Stepped.reasons[s.user] \subseteq new /\ (~d.accepted => new # {})
    BY <1>9
  <2> HIDE DEF new
  <2> QED BY <1>2, <1>6, <2>1, <2>2, <2>3
<1>11. run.found \in SUBSET Evidence
  BY <1>3, <1>5, <1>6, <1>8
<1>12. /\ run \in Agent /\ run.from = Stepped.from
       /\ run.pages = Stepped.pages /\ run.calls = Stepped.calls
       /\ run.visited = Stepped.visited
  <2> DEFINE f == run.found
             r == run.reasons
  <2>1. run = [Stepped EXCEPT !.found = f, !.reasons = r]
        /\ f \in SUBSET Evidence /\ r \in [User -> SUBSET Reasons]
    BY <1>8, <1>10, <1>11
  <2> HIDE DEF f, r
  <2> QED BY <1>5, <2>1 DEF Agent
<1>13. \A f \in run.found : f.keyword = keyword
  BY <1>4, <1>5, <1>8 DEF RunOK
<1>14. RunOK(run)
  BY <1>5, <1>10, <1>12, <1>13 DEF RunOK
<1>15. AllNoted(merged.evidence \cup run.found, d.tracker)
  <2> DEFINE all == merged.evidence \cup agent.found
  <2>1. all \in SUBSET Evidence /\ AllNoted(all, tracker)
    BY <1>2, <1>5, <1>6
  <2> HIDE DEF all
  <2>2. CASE d.accepted
    <3>1. AllNoted(all \cup {e}, d.tracker)
      BY <1>2, <1>3, <1>4, <2>1, <2>2, OneMoreNoted
    <3>2. merged.evidence \cup run.found = all \cup {e}
      BY <1>8, <2>2 DEF all
    <3> QED BY <3>1, <3>2
  <2>3. CASE ~d.accepted
    <3>1. AllNoted(all, d.tracker)
      BY <1>2, <1>3, <2>1, StillNoted
    <3>2. merged.evidence \cup run.found = all
      BY <1>8, <2>3 DEF all
    <3> QED BY <3>1, <3>2
  <2> QED BY <1>3, <2>2, <2>3
<1>16. Clocked
  BY <1>1, PassIsClocked
<1>17. /\ at' \in {"browsing", "returned"} /\ RunOK(agent')
       /\ agent'.found = run.found /\ agent'.reasons = run.reasons
       /\ at' = "returned" => agent'.time = clock' - agent.from
  <2>1. CASE d.stop
    BY <1>1, <1>7, <1>14, <1>16, <2>1, FinishOK
  <2>2. CASE ~d.stop
    BY <1>1, <1>14, <2>2
  <2> QED BY <2>1, <2>2
<1>18. ASSUME NEW c \in cut'
       PROVE  c \in cut \/ /\ c \in Keyword \X User /\ c[1] = keyword
                           /\ agent'.reasons[c[2]] # {}
  <2>1. CASE d.accepted
    BY <1>1, <2>1
  <2>2. CASE ~d.accepted
    <3>1. c \in cut \/ c = <<keyword, s.user>>
      BY <1>1, <2>2
    <3>2. run.reasons[s.user] # {}
      BY <1>10, <2>2
    <3> QED BY <1>2, <1>17, <3>1, <3>2
  <2> QED BY <1>3, <2>1, <2>2
<1> QED BY <1>1, <1>3, <1>15, <1>16, <1>17, <1>18 DEF Browsed

LEMMA AgentBrowses ==
    ASSUME CollectInv, AgentStep
    PROVE  Browsed
BY OpenBrowses, LeavePlatformBrowses, TimeOutBrowses, NoMoreStepsBrowses,
   IdleStepBrowses, VisitBrowses, VisitTooManyBrowses, DoneBrowses,
   ExtractBrowses DEF AgentStep

-----------------------------------------------------------------------------
(* The figures of all keywords                                             *)

LEMMA KeywordsFinite == IsFiniteSet(Keyword)
<1>1. NumKeywords \in Int /\ 1 \in Int
  BY ConstantsTyped
<1> QED BY <1>1, FS_Interval DEF Keyword

LEMMA SumTyped ==
    ASSUME NEW f \in [Keyword -> Nat]
    PROVE  SumFunction(f) \in Nat
<1>1. PICK it : Summing(it, f, Keyword) /\ SumFunction(f) = it[Keyword]
  BY KeywordsFinite, SumOfValues
<1> QED BY <1>1 DEF Summing

LEMMA AllTyped ==
    ASSUME metrics \in [Keyword -> MetricType]
    PROVE  /\ AllPages \in Nat /\ AllCalls \in Nat /\ AllTime \in Nat
           /\ InAll("observations") \in Nat
<1>1. /\ [k \in Keyword |-> metrics[k]["pages"]] \in [Keyword -> Nat]
      /\ [k \in Keyword |-> metrics[k]["calls"]] \in [Keyword -> Nat]
      /\ [k \in Keyword |-> metrics[k]["time"]] \in [Keyword -> Nat]
      /\ [k \in Keyword |-> metrics[k]["observations"]] \in [Keyword -> Nat]
  BY DEF MetricType
<1> QED BY <1>1, SumTyped DEF AllPages, AllCalls, AllTime, InAll

\* A keyword that is reported adds its figures to those of the others.
LEMMA SumReported ==
    ASSUME NEW f \in [Keyword -> Nat], NEW g \in [Keyword -> Nat],
           NEW k \in Keyword, \A j \in Keyword \ {k} : f[j] = g[j], f[k] = 0
    PROVE  SumFunction(g) = SumFunction(f) + g[k]
<1>1. /\ SumFunction(f) \in Nat /\ SumFunction(g) \in Nat
      /\ SumFunction(f) + g[k] = SumFunction(g) + f[k]
  BY KeywordsFinite, SumChanged
<1> QED BY <1>1

LEMMA AllReported ==
    ASSUME metrics \in [Keyword -> MetricType], NEW k \in Keyword,
           metrics[k] = NoMetric, NEW m \in MetricType,
           metrics' = [metrics EXCEPT ![k] = m]
    PROVE  /\ AllPages' = AllPages + m.pages
           /\ AllCalls' = AllCalls + m.calls
           /\ AllTime' = AllTime + m.time
<1> DEFINE F(M, figure) == [j \in Keyword |-> M[j][figure]]
<1>1. ASSUME NEW figure \in {"pages", "calls", "time"}
      PROVE  SumFunction(F(metrics', figure)) =
                 SumFunction(F(metrics, figure)) + m[figure]
  <2>1. \A x \in MetricType : x[figure] \in Nat
    BY DEF MetricType
  <2>2. /\ metrics' \in [Keyword -> MetricType] /\ metrics'[k] = m
        /\ \A j \in Keyword \ {k} : metrics'[j] = metrics[j]
    OBVIOUS
  <2>3. NoMetric[figure] = 0
    BY DEF NoMetric
  <2> DEFINE f == F(metrics, figure)
             g == F(metrics', figure)
  <2>4. f \in [Keyword -> Nat] /\ g \in [Keyword -> Nat]
    BY <2>1, <2>2
  <2>5. /\ \A j \in Keyword \ {k} : f[j] = g[j]
        /\ f[k] = 0 /\ g[k] = m[figure]
    BY <2>2, <2>3
  <2> HIDE DEF f, g
  <2>6. SumFunction(g) = SumFunction(f) + g[k]
    BY <2>4, <2>5, SumReported
  <2> QED BY <2>5, <2>6 DEF f, g
<1>2. /\ AllPages = SumFunction(F(metrics, "pages"))
      /\ AllCalls = SumFunction(F(metrics, "calls"))
      /\ AllTime = SumFunction(F(metrics, "time"))
      /\ AllPages' = SumFunction(F(metrics', "pages"))
      /\ AllCalls' = SumFunction(F(metrics', "calls"))
      /\ AllTime' = SumFunction(F(metrics', "time"))
  BY DEF AllPages, AllCalls, AllTime, InAll
<1>3. /\ SumFunction(F(metrics', "pages")) =
             SumFunction(F(metrics, "pages")) + m["pages"]
      /\ SumFunction(F(metrics', "calls")) =
             SumFunction(F(metrics, "calls")) + m["calls"]
      /\ SumFunction(F(metrics', "time")) =
             SumFunction(F(metrics, "time")) + m["time"]
  BY <1>1
<1> HIDE DEF F
<1> QED BY <1>2, <1>3

LEMMA SameFigures ==
    ASSUME metrics' = metrics
    PROVE  /\ AllPages' = AllPages /\ AllCalls' = AllCalls
           /\ AllTime' = AllTime /\ Unreported' = Unreported
BY DEF AllPages, AllCalls, AllTime, InAll, Unreported

-----------------------------------------------------------------------------
(* The agent's steps keep the invariant                                    *)

LEMMA StateTyped ==
    ASSUME CollectionTypeOK
    PROVE  /\ keyword \in Nat /\ clock \in Nat /\ maxCalls \in Nat
           /\ budget.pages \in Nat /\ budget.calls \in Nat
           /\ totals.pages \in Nat /\ totals.calls \in Nat
           /\ totals.time \in Nat /\ MaxTime \in Nat /\ NumKeywords \in Nat
           /\ agent.pages \in Nat /\ agent.calls \in Nat
           /\ agent.from \in Nat /\ agent.time \in Nat
           /\ AllPages \in Nat /\ AllCalls \in Nat /\ AllTime \in Nat
<1>1. /\ budget.pages \in Nat /\ budget.calls \in Nat
      /\ totals.pages \in Nat /\ totals.calls \in Nat
      /\ totals.time \in Nat
  BY DEF CollectionTypeOK
<1>2. clock \in Nat /\ MaxTime \in Nat
  BY Ticks DEF CollectionTypeOK
<1>3. keyword \in Nat /\ NumKeywords \in Nat
  <2>1. NumKeywords \in Nat
    BY ConstantsTyped
  <2> QED BY <2>1 DEF CollectionTypeOK
<1>4. /\ agent.pages \in Nat /\ agent.calls \in Nat /\ agent.from \in Nat
      /\ agent.time \in Nat
  <2>1. agent \in Agent
    BY DEF CollectionTypeOK
  <2> QED BY <2>1, RunTyped
<1>5. AllPages \in Nat /\ AllCalls \in Nat /\ AllTime \in Nat
  BY AllTyped DEF CollectionTypeOK
<1>6. maxCalls \in Nat
  BY ConstantsTyped DEF CollectionTypeOK
<1> QED BY <1>1, <1>2, <1>3, <1>4, <1>5, <1>6

LEMMA BrowseKeeps ==
    ASSUME CollectInv, Browsed
    PROVE  CollectInv'
<1>1. /\ at \in {"opening", "browsing"} /\ at' \in {"browsing", "returned"}
      /\ clock' \in 0..MaxTime + 1 /\ clock <= clock'
      /\ RunOK(agent') /\ TrackerOK(tracker')
      /\ at' = "returned" => agent'.time = clock' - agent.from
      /\ AllNoted(merged.evidence \cup agent'.found, tracker')
      /\ \A c \in cut' :
             c \in cut \/ /\ c \in Keyword \X User /\ c[1] = keyword
                          /\ agent'.reasons[c[2]] # {}
  BY DEF Browsed, Clocked
<1>2. /\ keyword' = keyword /\ budget' = budget /\ stored' = stored
      /\ failed' = failed /\ maxCalls' = maxCalls /\ totals' = totals
      /\ metrics' = metrics /\ merged' = merged /\ fruitless' = fruitless
  BY DEF Browsed, Browsing, Collected
<1>3. /\ agent' \in Agent /\ agent'.from = agent.from
      /\ agent'.pages <= budget.pages
      /\ agent.calls <= agent'.calls /\ agent'.calls <= budget.calls
      /\ IsFiniteSet(agent'.visited)
      /\ \A u \in User : agent.reasons[u] \subseteq agent'.reasons[u]
      /\ \A e \in agent'.found : e.keyword = keyword
      /\ agent'.found # {} => agent'.calls > 0
  BY <1>1 DEF RunOK
<1>4. Browses /\ Browses' /\ Pending' = agent'.found
  BY <1>1 DEF Browses, Pending
<1>5. CollectionTypeOK /\ keyword \in Nat /\ clock \in Nat
  BY StateTyped DEF CollectInv
<1>6. CollectionTypeOK'
  <2>1. cut' \in SUBSET (Keyword \X User)
    BY <1>1 DEF CollectInv, CollectionTypeOK
  <2>2. tracker' \in Tracker
    BY <1>1 DEF TrackerOK
  <2> QED BY <1>1, <1>2, <1>3, <1>5, <2>1, <2>2 DEF CollectionTypeOK
<1>7. FiniteOK'
  BY <1>2, <1>3 DEF CollectInv, FiniteOK
<1>8. FoundOK'
  <2>1. \A e \in merged.evidence : e.keyword <= keyword /\ e.keyword < keyword
    BY <1>4 DEF CollectInv, FoundOK
  <2> QED BY <1>1, <1>2, <1>3, <1>4, <2>1 DEF FoundOK
<1>9. FiguresOK'
  BY <1>1, <1>2 DEF CollectInv, FiguresOK, Ended
<1>10. BudgetOK'
  BY <1>1, <1>2, <1>3, <1>4 DEF CollectInv, BudgetOK
<1>11. TimeOK'
  <2>1. /\ totals.time <= MaxTime /\ totals.time <= clock
        /\ totals.time <= agent.from /\ agent.from <= clock
        /\ agent.from <= MaxTime
    BY <1>4 DEF CollectInv, TimeOK
  <2>2. totals.time \in Nat /\ agent.from \in Nat /\ clock' \in Nat
    BY <1>1, <1>5, StateTyped, Ticks
  <2>3. totals.time <= clock' /\ agent.from <= clock'
    BY <1>1, <1>5, <2>1, <2>2
  <2>4. at' = "returned" => agent.from + agent'.time <= clock'
    BY <1>1, <2>2
  <2> QED BY <1>2, <1>3, <2>1, <2>3, <2>4 DEF TimeOK
<1>12. SumsOK'
  <2>1. /\ AllPages' = AllPages /\ AllCalls' = AllCalls /\ AllTime' = AllTime
    BY <1>2, SameFigures
  <2>2. \A figure \in {"pages", "calls", "time"} :
            Taken(figure) = 0 /\ Taken(figure)' = 0
    BY <1>1 DEF Taken
  <2>3. Tainted' = Tainted
    BY <1>2 DEF Tainted
  <2> QED BY <1>1, <1>2, <2>1, <2>2, <2>3 DEF CollectInv, SumsOK
<1>13. CutOK'
  <2>1. ASSUME NEW c \in cut'
        PROVE  /\ c[1] <= keyword
               /\ c[1] = keyword => agent'.reasons[c[2]] # {}
    <3>1. CASE c \in cut
      <4>1. c \in Keyword \X User
        BY <3>1 DEF CollectInv, CollectionTypeOK
      <4>2. /\ c[1] <= keyword
            /\ at = "opening" => c[1] < keyword
            /\ at = "browsing" /\ c[1] = keyword => agent.reasons[c[2]] # {}
        BY <3>1 DEF CollectInv, CutOK
      <4>3. c[1] = keyword => agent.reasons[c[2]] # {}
        BY <1>1, <1>5, <4>2
      <4> QED BY <1>3, <4>1, <4>2, <4>3
    <3>2. CASE c \notin cut
      BY <1>1, <1>5, <3>2
    <3> QED BY <3>1, <3>2
  <2>2. ASSUME NEW c \in cut', NEW e \in merged.evidence,
               c = <<e.keyword, e.sighting.user>>,
               e.sighting.source # "direct_user"
        PROVE  merged.reasons[e.sighting.user] # {}
    <3>1. e.keyword < keyword /\ e.keyword \in Nat
      <4>1. e.keyword \in Keyword
        BY DEF CollectInv, CollectionTypeOK, Evidence
      <4> QED BY <1>4, <4>1, ConstantsTyped
                 DEF CollectInv, FoundOK, Keyword
    <3>2. c \in cut
      BY <1>1, <1>5, <2>2, <3>1
    <3> QED BY <2>2, <3>2 DEF CollectInv, CutOK
  <2> QED BY <1>1, <1>2, <2>1, <2>2 DEF CutOK
<1>14. ToldOK'
  BY <1>1, <1>2, SameFigures DEF CollectInv, ToldOK
<1>15. StoredOK'
  <2>1. stored'.evidence = {}
    BY <1>1, <1>2 DEF CollectInv, StoredOK
  <2> QED BY <1>1, <2>1 DEF StoredOK, FailedLeavesNothing, CutIsMarked
<1> QED BY <1>1, <1>6, <1>7, <1>8, <1>9, <1>10, <1>11, <1>12, <1>13, <1>14,
           <1>15 DEF CollectInv

-----------------------------------------------------------------------------
(* Failures and ends keep the invariant                                    *)

\* The page of a search is counted although the search fails.
CountsPage ==
    /\ at = "searching"
    /\ budget' = [budget EXCEPT !.pages = @ - 1]
    /\ totals' = WithSearch(totals)

\* A keyword is given up.
Fails ==
    /\ at \in {"opening", "browsing", "returned", "searching"}
    /\ at' = "loop" /\ keyword' = keyword + 1
    /\ failed' = failed \cup {keyword}
    /\ clock' \in Later
    /\ TrackerOK(tracker') /\ AllNoted(merged.evidence, tracker')
    /\ UNCHANGED <<budget, totals>> \/ CountsPage
    /\ UNCHANGED <<maxCalls, agent, metrics, merged, fruitless, stored, cut>>

LEMMA FailsKeeps ==
    ASSUME CollectInv, Fails
    PROVE  CollectInv'
<1>1. /\ at \in {"opening", "browsing", "returned", "searching"}
      /\ at' = "loop" /\ keyword' = keyword + 1
      /\ failed' = failed \cup {keyword}
      /\ TrackerOK(tracker') /\ AllNoted(merged.evidence, tracker')
  BY DEF Fails
<1>2. /\ agent' = agent /\ metrics' = metrics /\ merged' = merged
      /\ stored' = stored /\ cut' = cut /\ maxCalls' = maxCalls
      /\ fruitless' = fruitless
  BY DEF Fails
<1>3. clock' \in 0..MaxTime + 1 /\ clock <= clock'
  BY LaterIsClocked DEF Fails, Clocked
<1>4. /\ CollectionTypeOK /\ keyword \in Keyword /\ keyword \in Nat
      /\ NumKeywords \in Nat
  BY <1>1, StateTyped DEF CollectInv, CollectionTypeOK
<1>5. ~Browses' /\ Pending' = {}
  BY <1>1 DEF Browses, Pending
<1>6. /\ \A e \in merged.evidence : e.keyword \in Nat
      /\ \A c \in cut : c[1] \in Nat
  <2>1. Keyword \subseteq Nat
    BY <1>4 DEF Keyword
  <2> QED BY <1>4, <2>1 DEF CollectionTypeOK, Evidence
<1>6a. /\ budget' \in [pages : Nat, calls : Nat]
       /\ totals' \in [pages : Nat, calls : Nat, time : Nat]
       /\ totals'.pages + budget'.pages = MaxPages
       /\ totals'.calls + budget'.calls = maxCalls
       /\ totals'.calls = totals.calls /\ totals'.time = totals.time
  <2>1. /\ budget \in [pages : Nat, calls : Nat]
        /\ totals \in [pages : Nat, calls : Nat, time : Nat]
        /\ totals.pages + budget.pages = MaxPages
        /\ totals.calls + budget.calls = maxCalls
        /\ at = "searching" => budget.pages > 0
    BY DEF CollectInv, CollectionTypeOK, BudgetOK
  <2>2. CASE UNCHANGED <<budget, totals>>
    BY <2>1, <2>2
  <2>3. CASE CountsPage
    <3>1. /\ budget' = [budget EXCEPT !.pages = @ - 1]
          /\ totals' = [totals EXCEPT !.pages = @ + 1]
          /\ budget.pages > 0
      BY <2>1, <2>3 DEF CountsPage, WithSearch
    <3>2. /\ budget.pages \in Nat /\ totals.pages \in Nat
          /\ budget.calls \in Nat /\ totals.calls \in Nat
      BY <2>1
    <3>3. /\ budget.pages - 1 \in Nat /\ totals.pages + 1 \in Nat
          /\ (totals.pages + 1) + (budget.pages - 1)
                 = totals.pages + budget.pages
      BY <3>1, <3>2
    <3> QED BY <2>1, <3>1, <3>3
  <2> QED BY <2>2, <2>3 DEF Fails
<1>7. CollectionTypeOK'
  <2>1. keyword' \in 1..NumKeywords + 1
    BY <1>1, <1>4 DEF Keyword
  <2>2. failed' \subseteq Keyword
    BY <1>1, <1>4 DEF CollectionTypeOK
  <2>3. tracker' \in Tracker
    BY <1>1 DEF TrackerOK
  <2> QED BY <1>1, <1>2, <1>3, <1>4, <1>6a, <2>1, <2>2, <2>3
          DEF CollectionTypeOK
<1>8. TrackerOK(tracker') /\ FiniteOK'
  BY <1>1, <1>2 DEF CollectInv, FiniteOK
<1>9. FoundOK'
  <2>1. merged'.evidence \cup Pending' = merged.evidence
    BY <1>2, <1>5
  <2>2. \A e \in merged.evidence : e.keyword < keyword + 1
    BY <1>4, <1>6 DEF CollectInv, FoundOK
  <2>3. AllNoted(merged'.evidence \cup Pending', tracker')
    BY <1>1, <2>1
  <2>4. \A e \in merged.evidence : e.keyword <= keyword + 1
    BY <1>4, <1>6, <2>2
  <2> QED BY <1>1, <1>2, <1>5, <2>2, <2>3, <2>4 DEF FoundOK
<1>10. FiguresOK'
  <2>1. \A k \in Keyword : k < keyword => k < keyword + 1
    BY <1>4 DEF Keyword
  <2> QED BY <1>1, <1>2, <2>1 DEF CollectInv, FiguresOK, Ended
<1>11. BudgetOK'
  <2>1. at' # "opening" /\ at' # "searching"
    BY <1>1
  <2> QED BY <1>2, <1>5, <1>6a, <2>1 DEF BudgetOK
<1>12. TimeOK'
  <2>1. totals.time <= MaxTime /\ totals.time <= clock
    BY DEF CollectInv, TimeOK
  <2>2. totals.time \in Nat /\ clock \in Nat /\ clock' \in Nat
    BY <1>3, <1>4, StateTyped, Ticks
  <2>3. totals.time <= clock'
    BY <1>3, <2>1, <2>2
  <2> QED BY <1>1, <1>5, <1>6a, <2>1, <2>3 DEF TimeOK
<1>13. SumsOK'
  <2>1. AllCalls' = AllCalls /\ Taken("calls")' = 0 /\ failed' # {}
    BY <1>1, <1>2, SameFigures DEF Taken
  <2>2. /\ totals.calls >= AllCalls + Taken("calls")
                           + (IF Tainted THEN 1 ELSE 0)
        /\ totals.calls \in Nat /\ AllCalls \in Nat /\ agent.calls \in Nat
    BY <1>1, <1>4, StateTyped DEF CollectInv, SumsOK
  <2>3. totals.calls >= AllCalls + (IF Tainted' THEN 1 ELSE 0)
    <3>1. CASE Tainted' /\ ~Tainted
      <4>1. PICK e \in merged.evidence : e.keyword = keyword
        BY <1>1, <1>2, <3>1 DEF Tainted
      <4>2. at = "searching"
        <5>1. ~(Browses \/ at = "loop")
          BY <1>4, <4>1 DEF CollectInv, FoundOK
        <5> QED BY <1>1, <5>1 DEF Browses
      <4>3. agent.calls > 0 /\ Taken("calls") = agent.calls
        BY <4>1, <4>2 DEF CollectInv, BudgetOK, Taken
      <4> QED BY <2>2, <3>1, <4>3
    <3>2. CASE ~Tainted' \/ Tainted
      <4>1. Taken("calls") \in Nat
        BY <2>2 DEF Taken
      <4> QED BY <2>2, <3>2, <4>1
    <3> QED BY <3>1, <3>2
  <2>4. totals'.calls = totals.calls
    BY <1>6a
  <2>5. totals.calls >= AllCalls + 0 + (IF Tainted' THEN 1 ELSE 0)
    BY <2>2, <2>3
  <2> QED BY <2>1, <2>4, <2>5 DEF SumsOK
<1>14. CutOK'
  <2>1. \A c \in cut : c[1] <= keyword + 1 /\ c[1] < keyword + 1
    BY <1>4, <1>6 DEF CollectInv, CutOK
  <2>2. \A c \in cut, e \in merged.evidence :
            c = <<e.keyword, e.sighting.user>>
            /\ e.sighting.source # "direct_user" =>
                merged.reasons[e.sighting.user] # {}
    BY DEF CollectInv, CutOK
  <2> QED BY <1>1, <1>2, <2>1, <2>2 DEF CutOK
<1>15. ToldOK'
  <2>1. \A k \in failed : k < keyword + 1
    <3>1. \A k \in failed : k < keyword
      BY DEF CollectInv, ToldOK
    <3>2. failed \subseteq Nat
      BY <1>4 DEF CollectionTypeOK, Keyword
    <3> QED BY <1>4, <3>1, <3>2
  <2>2. \A k \in Keyword :
            k < keyword + 1 =>
                metrics[k].reported \/ k \in failed \cup {keyword}
    <3>1. \A k \in Keyword : k < keyword + 1 => k < keyword \/ k = keyword
      BY <1>4 DEF Keyword
    <3> QED BY <3>1 DEF CollectInv, ToldOK
  <2>3. keyword < keyword + 1
    BY <1>4
  <2> QED BY <1>1, <1>2, <2>1, <2>2, <2>3 DEF ToldOK
<1>16. StoredOK'
  <2>1. stored'.evidence = {}
    BY <1>1, <1>2 DEF CollectInv, StoredOK
  <2> QED BY <1>1, <2>1 DEF StoredOK, FailedLeavesNothing, CutIsMarked
<1> QED BY <1>7, <1>8, <1>9, <1>10, <1>11, <1>12, <1>13, <1>14, <1>15, <1>16
        DEF CollectInv, TrackerOK

\* The stage ends, and changes at most what is stored.
Ends ==
    /\ at' \in Ended
    /\ at \notin Ended
    /\ at' # "cancelled" => at \in {"closing", "batch"}
    /\ UNCHANGED <<keyword, clock, tracker, budget, agent>>
    /\ Collected /\ History

LEMMA EndsKeeps ==
    ASSUME CollectInv, Ends, CollectionTypeOK', StoredOK'
    PROVE  CollectInv'
<1>1. /\ at' \in Ended
      /\ at' # "cancelled" => at \in {"closing", "batch"}
      /\ at \notin Ended
  BY DEF Ends
<1>2. /\ keyword' = keyword /\ clock' = clock /\ tracker' = tracker
      /\ budget' = budget /\ agent' = agent /\ maxCalls' = maxCalls
      /\ totals' = totals /\ metrics' = metrics /\ merged' = merged
      /\ fruitless' = fruitless /\ failed' = failed /\ cut' = cut
  BY DEF Ends, Collected, History
<1>3. ~Browses' /\ Pending' = {}
  BY <1>1 DEF Browses, Pending, Ended
<1>4. TrackerOK(tracker)' /\ FiniteOK'
  BY <1>2 DEF CollectInv, TrackerOK, FiniteOK
<1>5. FoundOK'
  <2>1. AllNoted(merged.evidence \cup {}, tracker)
    BY DEF CollectInv, FoundOK, AllNoted
  <2>2. AllNoted(merged'.evidence \cup Pending', tracker')
    BY <1>2, <1>3, <2>1
  <2>3. \A e \in merged.evidence : e.keyword <= keyword
    BY DEF CollectInv, FoundOK
  <2> QED BY <1>1, <1>2, <1>3, <2>2, <2>3 DEF FoundOK, Ended
<1>6. FiguresOK'
  BY <1>1, <1>2 DEF CollectInv, FiguresOK
<1>7. BudgetOK' /\ TimeOK'
  BY <1>1, <1>2, <1>3 DEF CollectInv, BudgetOK, TimeOK, Ended
<1>8. SumsOK'
  <2>1. /\ AllPages' = AllPages /\ AllCalls' = AllCalls
        /\ AllTime' = AllTime /\ Tainted' = Tainted
    BY <1>2, SameFigures DEF Tainted
  <2>2. at' # "cancelled" =>
            at # "cancelled" /\ \A figure \in {"pages", "calls", "time"} :
                Taken(figure) = 0 /\ Taken(figure)' = 0
    BY <1>1 DEF Taken, Ended
  <2> QED BY <1>2, <2>1, <2>2 DEF CollectInv, SumsOK
<1>9. CutOK'
  BY <1>1, <1>2 DEF CollectInv, CutOK, Ended
<1>10. ToldOK'
  BY <1>1, <1>2 DEF CollectInv, ToldOK, Ended
<1> QED BY <1>4, <1>5, <1>6, <1>7, <1>8, <1>9, <1>10
        DEF CollectInv, TrackerOK

(* The batch is refused, or the stage fails or is cancelled.                *)
LEMMA NothingStoredKeeps ==
    ASSUME CollectInv, FindNothing \/ RefuseBatch \/ StoreFails \/ Cancelled
    PROVE  CollectInv'
<1>1. /\ Ends /\ stored' = stored /\ at # "stored" /\ at' # "stored"
      /\ at' \in Ended
  BY DEF FindNothing, RefuseBatch, StoreFails, Cancelled, Ends, Ended
<1>2. CollectionTypeOK'
  BY <1>1 DEF CollectInv, CollectionTypeOK, Ends, Ended, Collected, History
<1>3. stored'.evidence = {}
  BY <1>1 DEF CollectInv, StoredOK
<1>4. StoredOK'
  BY <1>3 DEF StoredOK, FailedLeavesNothing, CutIsMarked
<1> QED BY <1>1, <1>2, <1>4, EndsKeeps

LEMMA StutterKeeps ==
    ASSUME CollectInv, UNCHANGED vars
    PROVE  CollectInv'
<1>1. /\ at' = at /\ keyword' = keyword /\ clock' = clock
      /\ tracker' = tracker /\ budget' = budget /\ agent' = agent
      /\ maxCalls' = maxCalls /\ totals' = totals /\ metrics' = metrics
      /\ merged' = merged /\ fruitless' = fruitless /\ failed' = failed
      /\ cut' = cut /\ stored' = stored
  BY DEF vars
<1>2. CollectionTypeOK' /\ TrackerOK(tracker)' /\ FiniteOK' /\ FoundOK'
  BY <1>1 DEF CollectInv, CollectionTypeOK, TrackerOK, FiniteOK, FoundOK,
              Pending, Browses
<1>3. FiguresOK' /\ BudgetOK' /\ TimeOK'
  BY <1>1 DEF CollectInv, FiguresOK, BudgetOK, TimeOK, Browses
<1>4. SumsOK'
  BY <1>1, SameFigures DEF CollectInv, SumsOK, Taken, Tainted
<1>5. CutOK' /\ ToldOK' /\ StoredOK'
  BY <1>1 DEF CollectInv, CutOK, ToldOK, StoredOK, Terminal, Unreported,
              FailedLeavesNothing, CutIsMarked
<1> QED BY <1>2, <1>3, <1>4, <1>5 DEF CollectInv, TrackerOK

-----------------------------------------------------------------------------
(* The batch                                                               *)

(* The numbers of what was found tell that it is not too much.              *)
LEMMA FoundFinite ==
    ASSUME NEW t, TrackerOK(t),
           NEW found \in SUBSET Evidence, AllNoted(found, t)
    PROVE  IsFiniteSet(found) /\ Cardinality(found) <= MaxObservations
<1> DEFINE f == [e \in found |-> e.number]
           N == 1..MaxObservations
<1>1. IsFiniteSet(N) /\ Cardinality(N) = MaxObservations
  <2>1. MaxObservations \in Int /\ 1 \in Int /\ ~(1 > MaxObservations)
    BY ConstantsTyped
  <2>2. Cardinality(N) = MaxObservations - 1 + 1
    BY <2>1, FS_Interval
  <2> QED BY <2>1, <2>2, FS_Interval
<1>2. f \in Injection(found, N)
  <2>1. \A e \in found : e.number \in N
    BY DEF Evidence
  <2>2. \A e, x \in found : e.number = x.number => e = x
    BY DEF AllNoted
  <2> HIDE DEF N
  <2> QED BY <2>1, <2>2 DEF Injection, IsInjective
<1> HIDE DEF f, N
<1> QED BY <1>1, <1>2, FS_Injection

(* What the tracker counts bounds what was found.                           *)
LEMMA FoundWithin ==
    ASSUME CollectInv
    PROVE  /\ IsFiniteSet(merged.evidence)
           /\ Cardinality(merged.evidence) <= MaxObservations
           /\ \A k \in Keyword :
                  LET found == OfKeyword(merged.evidence, k)
                  IN  /\ VideosIn(found) \subseteq tracker.videos[k]
                      /\ IsFiniteSet(VideosIn(found))
           /\ UsersIn(merged.evidence) \subseteq tracker.profiles
           /\ \A u \in User : AuthoredBy(u) \subseteq tracker.authored[u]
<1>1. /\ TrackerOK(tracker) /\ tracker \in Tracker
      /\ merged.evidence \in SUBSET Evidence
      /\ AllNoted(merged.evidence, tracker)
  BY DEF CollectInv, TrackerOK, CollectionTypeOK, FoundOK, AllNoted
<1>2. IsFiniteSet(merged.evidence)
      /\ Cardinality(merged.evidence) <= MaxObservations
  BY <1>1, FoundFinite
<1>3. \A e \in merged.evidence : Noted(e, tracker)
  BY <1>1 DEF AllNoted
<1>4. UsersIn(merged.evidence) \subseteq tracker.profiles
  BY <1>3 DEF UsersIn, Noted
<1>5. ASSUME NEW k \in Keyword
      PROVE  LET found == OfKeyword(merged.evidence, k)
             IN  /\ VideosIn(found) \subseteq tracker.videos[k]
                 /\ IsFiniteSet(VideosIn(found))
  <2>1. VideosIn(OfKeyword(merged.evidence, k)) \subseteq tracker.videos[k]
    BY <1>3 DEF VideosIn, OfKeyword, Noted
  <2>2. IsFiniteSet(tracker.videos[k])
    BY <1>1 DEF TrackerOK
  <2> QED BY <2>1, <2>2, FS_Subset
<1>6. \A u \in User : AuthoredBy(u) \subseteq tracker.authored[u]
  BY <1>3 DEF AuthoredBy, VideosIn, Authored, Noted
<1> QED BY <1>2, <1>4, <1>5, <1>6

(* The users that found evidence names are counted.                         *)
LEMMA UsersFinite ==
    ASSUME NEW found \in SUBSET Evidence
    PROVE  /\ UsersIn(found) \in SUBSET User
           /\ Cardinality(UsersIn(found)) \in Nat
<1>1. UsersIn(found) \in SUBSET User
  BY DEF UsersIn, Evidence, Sighting
<1>2. IsFiniteSet(UsersIn(found))
  BY <1>1, ConstantsTyped, FS_Subset
<1> QED BY <1>1, <1>2, FS_CardinalityType

LEMMA StoreBatchKeeps ==
    ASSUME CollectInv, StoreBatch
    PROVE  CollectInv'
<1>1. /\ at = "batch" /\ Complaints = {} /\ at' = "stored"
      /\ stored' = [evidence |-> StoredEvidence,
                    status |-> [u \in User |-> StoredStatus(u)],
                    videos |-> [k \in Keyword |->
                                   Cardinality(metrics[k].videos)],
                    candidates |-> [k \in Keyword |-> StoredCandidates(k)]]
      /\ UNCHANGED <<keyword, clock, tracker, budget, agent>>
      /\ Collected /\ History
  BY DEF StoreBatch
<1>2. Ends
  BY <1>1 DEF Ends, Ended
<1>3. /\ CollectionTypeOK /\ merged.evidence \in SUBSET Evidence
      /\ metrics \in [Keyword -> MetricType]
  BY DEF CollectInv, CollectionTypeOK
<1>4. CollectionTypeOK'
  <2>1. StoredEvidence \in SUBSET Stored
    BY <1>3 DEF StoredEvidence, CollectionTypeOK, Stored, Evidence
  <2>2. [u \in User |-> StoredStatus(u)]
            \in [User -> {"none", "candidate", "needs_more_evidence"}]
    BY <1>3 DEF StoredStatus, CollectionTypeOK
  <2>3. [k \in Keyword |-> Cardinality(metrics[k].videos)]
            \in [Keyword -> Nat]
    <3>1. \A k \in Keyword : Cardinality(metrics[k].videos) \in Nat
      BY FS_CardinalityType DEF CollectInv, FiniteOK
    <3> QED BY <3>1
  <2>4. [k \in Keyword |-> StoredCandidates(k)] \in [Keyword -> Nat]
    <3>1. ASSUME NEW k \in Keyword PROVE StoredCandidates(k) \in Nat
      <4> DEFINE x == Cardinality(UsersIn(OfKeyword(merged.evidence, k)))
                 y == metrics[k].candidates
      <4>1. x \in Nat
        <5>1. OfKeyword(merged.evidence, k) \in SUBSET Evidence
          BY <1>3 DEF OfKeyword
        <5> QED BY <5>1, UsersFinite
      <4>2. y \in Nat
        BY <1>3 DEF MetricType
      <4>3. StoredCandidates(k) = Max({x, y})
        BY DEF StoredCandidates
      <4> HIDE DEF x, y
      <4>4. \E m \in {x, y} : \A n \in {x, y} : m >= n
        BY <4>1, <4>2
      <4>5. Max({x, y}) \in {x, y}
        BY <4>4 DEF Max
      <4> QED BY <4>1, <4>2, <4>3, <4>5
    <3> QED BY <3>1
  <2>5. stored' \in [evidence : SUBSET Stored,
                     status : [User -> {"none", "candidate",
                                        "needs_more_evidence"}],
                     videos : [Keyword -> Nat], candidates : [Keyword -> Nat]]
    BY <1>1, <2>1, <2>2, <2>3, <2>4
  <2>6. /\ keyword' = keyword /\ clock' = clock /\ tracker' = tracker
        /\ budget' = budget /\ agent' = agent /\ maxCalls' = maxCalls
        /\ totals' = totals /\ metrics' = metrics /\ merged' = merged
        /\ fruitless' = fruitless /\ failed' = failed /\ cut' = cut
    BY <1>1 DEF Collected, History
  <2> QED BY <1>1, <1>3, <2>5, <2>6 DEF CollectionTypeOK, Ended
<1>5. StoredEvidence = {[keyword |-> e.keyword, sighting |-> e.sighting] :
                           e \in merged.evidence}
  BY <1>1 DEF StoredEvidence, CollectInv, StoredOK
<1>6. ~Tainted
  <2>1. ~Inconsistent
    <3>1. "totals" \in DOMAIN Complaint
          /\ Complaint["totals"] = Inconsistent
      BY DEF Complaint
    <3> QED BY <1>1, <3>1, Zenon DEF Complaints
  <2>2. totals.calls = AllCalls /\ AllCalls \in Nat
    BY <1>3, <2>1, StateTyped DEF Inconsistent
  <2>3. totals.calls >= AllCalls + 0 + (IF Tainted THEN 1 ELSE 0)
    BY <1>1 DEF CollectInv, SumsOK, Taken
  <2> QED BY <2>2, <2>3
<1>7. FailedLeavesNothing'
  <2>1. \A e \in StoredEvidence : e.keyword \notin failed
    BY <1>5, <1>6 DEF Tainted
  <2> QED BY <1>1, <2>1 DEF FailedLeavesNothing, History
<1>8. CutIsMarked'
  <2>1. ASSUME NEW c \in cut, NEW e \in StoredEvidence,
               c = <<e.keyword, e.sighting.user>>,
               e.sighting.source # "direct_user"
        PROVE  /\ e.sighting.user \in User
               /\ StoredStatus(e.sighting.user) = "needs_more_evidence"
    <3>1. PICK x \in merged.evidence :
              e = [keyword |-> x.keyword, sighting |-> x.sighting]
      BY <1>5
    <3>2. e.keyword = x.keyword /\ e.sighting = x.sighting
      BY <3>1
    <3>3. merged.reasons[x.sighting.user] # {}
      BY <2>1, <3>2 DEF CollectInv, CutOK
    <3>4. x.sighting.user \in UsersIn(merged.evidence)
      BY DEF UsersIn
    <3>5. x.sighting.user \in User
      BY <1>3 DEF Evidence, Sighting
    <3> QED BY <3>2, <3>3, <3>4, <3>5 DEF StoredStatus
  <2>2. /\ stored'.evidence = StoredEvidence /\ cut' = cut
        /\ \A u \in User : stored'.status[u] = StoredStatus(u)
    BY <1>1 DEF History
  <2> QED BY <2>1, <2>2 DEF CutIsMarked
<1>9. StoredOK'
  BY <1>1, <1>7, <1>8 DEF StoredOK
<1> QED BY <1>2, <1>4, <1>9, EndsKeeps

\* m are the figures of a keyword with the given evidence and use.
FiguresOf(m, found, use) ==
    /\ m \in MetricType /\ m.reported /\ IsFiniteSet(m.videos)
    /\ m.pages = use.pages /\ m.calls = use.calls /\ m.time = use.time
    /\ m.candidates = Cardinality(UsersIn(found))
    /\ m.observations = Cardinality(found)

(* The figures of a keyword are those of its evidence.                      *)
LEMMA MetricOK ==
    ASSUME NEW into, into.evidence \in SUBSET Evidence,
           into.reasons \in [User -> SUBSET Reasons], NEW k \in Keyword,
           IsFiniteSet(into.evidence),
           IsFiniteSet(VideosIn(OfKeyword(into.evidence, k))),
           NEW use \in [pages : Nat, calls : Nat, time : Nat],
           NEW why \in Reasons \cup {""},
           NEW visited \in SUBSET Video, IsFiniteSet(visited)
    PROVE  FiguresOf(Metric(into, k, use, why, visited),
                     OfKeyword(into.evidence, k), use)
<1> DEFINE m == Metric(into, k, use, why, visited)
           found == OfKeyword(into.evidence, k)
           users == UsersIn(found)
           R == into.reasons
           all == UNION {R[u] : u \in users}
           rs == all \cup ({why} \ {""})
<1>1. found \in SUBSET Evidence /\ IsFiniteSet(found)
  <2>1. found \in SUBSET into.evidence
    BY DEF OfKeyword
  <2> QED BY <2>1, FS_Subset
<1>2. m = [reported |-> TRUE, videos |-> VideosIn(found) \cup visited,
           candidates |-> Cardinality(users),
           pages |-> use.pages, calls |-> use.calls, time |-> use.time,
           authored |-> VideosIn(Authored(found)),
           observations |-> Cardinality(found), reasons |-> rs]
  BY DEF Metric
<1>3. IsFiniteSet(VideosIn(found))
  OBVIOUS
<1>4. R \in [User -> SUBSET Reasons]
  OBVIOUS
<1> HIDE DEF m, found, R
<1>5. /\ Cardinality(users) \in Nat /\ Cardinality(found) \in Nat
      /\ users \in SUBSET User
  BY <1>1, UsersFinite, FS_CardinalityType
<1>6. /\ VideosIn(found) \in SUBSET Video
      /\ VideosIn(Authored(found)) \in SUBSET Video
  BY <1>1 DEF VideosIn, Authored, Evidence, Sighting
<1>7. IsFiniteSet(VideosIn(found) \cup visited)
  BY <1>3, FS_Union
<1> HIDE DEF users
<1>8. rs \in SUBSET Reasons
  <2>1. \A u \in users : R[u] \in SUBSET Reasons
    BY <1>4, <1>5
  <2>2. ASSUME NEW x \in all PROVE x \in Reasons
    <3>1. PICK u \in users : x \in R[u]
      OBVIOUS
    <3> QED BY <2>1, <3>1
  <2>3. {why} \ {""} \in SUBSET Reasons
    OBVIOUS
  <2> HIDE DEF all
  <2> QED BY <2>2, <2>3
<1> HIDE DEF rs
<1>9. m \in MetricType
  BY <1>2, <1>5, <1>6, <1>8 DEF MetricType
<1>10. /\ m.reported /\ IsFiniteSet(m.videos)
       /\ m.pages = use.pages /\ m.calls = use.calls
       /\ m.time = use.time
       /\ m.candidates = Cardinality(users)
       /\ m.observations = Cardinality(found)
  BY <1>2, <1>7
<1> HIDE DEF all
<1> QED BY <1>9, <1>10 DEF m, found, users, FiguresOf

LEMMA CloseBatchKeeps ==
    ASSUME CollectInv, CloseBatch
    PROVE  CollectInv'
<1>1. /\ at = "closing" /\ at' = "batch"
      /\ metrics' = [k \in Keyword |->
                        IF k \in Unreported /\ Terminal # ""
                        THEN Metric(merged, k, NoUse, Terminal, {})
                        ELSE metrics[k]]
      /\ maxCalls' = maxCalls /\ keyword' = keyword /\ clock' = clock
      /\ tracker' = tracker /\ budget' = budget /\ agent' = agent
      /\ totals' = totals /\ merged' = merged /\ fruitless' = fruitless
      /\ stored' = stored /\ failed' = failed /\ cut' = cut
  BY DEF CloseBatch, History
<1>2. /\ CollectionTypeOK /\ merged.evidence \in SUBSET Evidence
      /\ merged.reasons \in [User -> SUBSET Reasons]
      /\ metrics \in [Keyword -> MetricType]
  BY DEF CollectInv, CollectionTypeOK
<1>3. ~Browses /\ ~Browses' /\ Pending = {} /\ Pending' = {}
  BY <1>1 DEF Browses, Pending
<1> DEFINE M(k) == Metric(merged, k, NoUse, Terminal, {})
           found(k) == OfKeyword(merged.evidence, k)
<1>4. Terminal \in Reasons \cup {""}
  <2>1. tracker.reasons \in SUBSET LimitName
    BY DEF CollectInv, CollectionTypeOK, Tracker
  <2>2. tracker.reasons # {} => First(tracker.reasons) \in Reasons
    BY <2>1, FirstIsLimit DEF Reasons
  <2> QED BY <2>2 DEF Terminal, Reasons
<1>5. ASSUME NEW k \in Keyword
      PROVE  /\ M(k) \in MetricType /\ M(k).reported
             /\ IsFiniteSet(M(k).videos)
             /\ M(k).pages = 0 /\ M(k).calls = 0 /\ M(k).time = 0
             /\ M(k).candidates = Cardinality(UsersIn(found(k)))
             /\ M(k).observations = Cardinality(found(k))
  <2>1. IsFiniteSet(merged.evidence)
        /\ IsFiniteSet(VideosIn(OfKeyword(merged.evidence, k)))
    BY FoundWithin
  <2>2. NoUse \in [pages : Nat, calls : Nat, time : Nat]
    BY DEF NoUse
  <2>3. {} \in SUBSET Video /\ IsFiniteSet({})
    BY FS_EmptySet
  <2>4. NoUse.pages = 0 /\ NoUse.calls = 0 /\ NoUse.time = 0
    BY DEF NoUse
  <2>5. FiguresOf(M(k), found(k), NoUse)
    BY <1>2, <1>4, <2>1, <2>2, <2>3, MetricOK
  <2> HIDE DEF M, found
  <2> QED BY <2>4, <2>5 DEF FiguresOf
<1> HIDE DEF M
<1>6. ASSUME NEW k \in Keyword
      PROVE  \/ /\ k \in Unreported /\ Terminal # "" /\ metrics'[k] = M(k)
             \/ /\ k \notin Unreported \/ Terminal = ""
                /\ metrics'[k] = metrics[k]
  BY <1>1 DEF M
<1>7. metrics' \in [Keyword -> MetricType]
  <2>1. metrics' = [k \in Keyword |-> metrics'[k]]
    BY <1>1
  <2>2. \A k \in Keyword : metrics'[k] \in MetricType
    BY <1>2, <1>5, <1>6
  <2> HIDE DEF found
  <2> QED BY <2>1, <2>2
<1>8. \A k \in Unreported : metrics[k] = NoMetric /\ k \in Keyword
  BY DEF CollectInv, FiguresOK, Unreported
<1>9. CollectionTypeOK'
  BY <1>1, <1>2, <1>7 DEF CollectionTypeOK
<1>10. TrackerOK(tracker)' /\ FiniteOK'
  BY <1>1, <1>5, <1>6 DEF CollectInv, TrackerOK, FiniteOK
<1>11. FoundOK'
  BY <1>1, <1>3 DEF CollectInv, FoundOK
<1>12. FiguresOK'
  <2>1. ASSUME NEW k \in Keyword
        PROVE  /\ ~metrics'[k].reported => metrics'[k] = NoMetric
               /\ metrics'[k].reported =>
                      /\ metrics'[k].candidates =
                             Cardinality(UsersIn(found(k)))
                      /\ metrics'[k].observations = Cardinality(found(k))
    <3>1. CASE metrics'[k] = M(k)
      BY <1>5, <3>1
    <3>2. CASE metrics'[k] = metrics[k]
      BY <3>2 DEF CollectInv, FiguresOK
    <3> QED BY <1>6, <3>1, <3>2
  <2> QED BY <1>1, <2>1 DEF FiguresOK
<1>13. BudgetOK' /\ TimeOK'
  BY <1>1, <1>3 DEF CollectInv, BudgetOK, TimeOK
<1>14. SumsOK'
  <2>1. ASSUME NEW k \in Keyword, NEW figure \in {"pages", "calls", "time"}
        PROVE  metrics'[k][figure] = metrics[k][figure]
    <3>1. CASE k \in Unreported /\ metrics'[k] = M(k)
      <4>1. metrics[k][figure] = 0
        BY <1>8, <3>1 DEF NoMetric
      <4>2. M(k)[figure] = 0
        BY <1>5
      <4> QED BY <3>1, <4>1, <4>2
    <3> QED BY <1>6, <3>1
  <2>2. /\ AllPages' = AllPages /\ AllCalls' = AllCalls
        /\ AllTime' = AllTime
    <3>1. /\ [k \in Keyword |-> metrics'[k]["pages"]] =
                 [k \in Keyword |-> metrics[k]["pages"]]
          /\ [k \in Keyword |-> metrics'[k]["calls"]] =
                 [k \in Keyword |-> metrics[k]["calls"]]
          /\ [k \in Keyword |-> metrics'[k]["time"]] =
                 [k \in Keyword |-> metrics[k]["time"]]
      BY <2>1
    <3> QED BY <3>1 DEF AllPages, AllCalls, AllTime, InAll
  <2>3. /\ Tainted' = Tainted
        /\ \A figure \in {"pages", "calls", "time"} :
               Taken(figure) = 0 /\ Taken(figure)' = 0
    BY <1>1 DEF Tainted, Taken
  <2> QED BY <1>1, <2>2, <2>3 DEF CollectInv, SumsOK
<1>15. CutOK'
  BY <1>1 DEF CollectInv, CutOK
<1>16. ToldOK'
  <2>1. ASSUME NEW k \in Keyword, metrics[k].reported
        PROVE  metrics'[k].reported
    <3>1. k \notin Unreported
      BY <2>1 DEF Unreported
    <3> QED BY <1>6, <2>1, <3>1
  <2>2. ASSUME failed = {}, NEW k \in Keyword
        PROVE  metrics'[k].reported
    <3>1. CASE keyword > NumKeywords
      <4>1. k < keyword
        BY <1>2, <3>1, StateTyped DEF Keyword
      <4> QED BY <2>1, <2>2, <4>1 DEF CollectInv, ToldOK
    <3>2. CASE Terminal # ""
      <4>1. CASE k \in Unreported
        BY <1>5, <1>6, <3>2, <4>1
      <4>2. CASE k \notin Unreported
        BY <2>1, <4>2 DEF Unreported
      <4> QED BY <4>1, <4>2
    <3> QED BY <1>1, <3>1, <3>2 DEF CollectInv, ToldOK
  <2>3. failed = {} => Unreported' = {}
    BY <2>2 DEF Unreported
  <2> QED BY <1>1, <2>1, <2>3 DEF CollectInv, ToldOK
<1>17. StoredOK'
  <2>1. stored'.evidence = {}
    BY <1>1 DEF CollectInv, StoredOK
  <2> QED BY <1>1, <2>1 DEF StoredOK, FailedLeavesNothing, CutIsMarked
<1> QED BY <1>9, <1>10, <1>11, <1>12, <1>13, <1>14, <1>15, <1>16, <1>17
        DEF CollectInv, TrackerOK

-----------------------------------------------------------------------------
(* From keyword to keyword                                                 *)

LEMMA StartKeywordKeeps ==
    ASSUME CollectInv, StartKeyword
    PROVE  CollectInv'
<1>1. /\ at = "loop" /\ at' \in {"opening", "returned"}
      /\ keyword <= NumKeywords /\ budget.pages > 0 /\ clock < MaxTime
      /\ tracker' = AllowKeyword(tracker, keyword)
      /\ at' = "opening" <=> budget.calls > 0
      /\ keyword' = keyword /\ clock' = clock /\ budget' = budget
      /\ stored' = stored /\ maxCalls' = maxCalls /\ totals' = totals
      /\ metrics' = metrics /\ merged' = merged /\ fruitless' = fruitless
      /\ failed' = failed /\ cut' = cut
  BY DEF StartKeyword, MayStart, Collected, History
<1>2. CollectionTypeOK /\ keyword \in Keyword /\ clock \in 0..MaxTime + 1
  <2>1. /\ CollectionTypeOK /\ clock \in 0..MaxTime + 1
        /\ keyword \in 1..NumKeywords + 1
    BY DEF CollectInv, CollectionTypeOK
  <2>2. NumKeywords \in Nat
    BY ConstantsTyped
  <2>3. keyword \in 1..NumKeywords
    BY <1>1, <2>1, <2>2
  <2> QED BY <2>1, <2>3 DEF Keyword
<1>3. /\ agent' \in Agent /\ agent'.pages = 0 /\ agent'.calls = 0
      /\ agent'.found = {} /\ agent'.visited = {} /\ agent'.from = clock
      /\ agent'.time = 0
  <2>1. 0 \in 0..MaxTime + 1 /\ 0 \in Nat
    BY Ticks
  <2>2. PICK why \in {"", "max_llm_calls"} :
            agent' = [steps |-> 0, pages |-> 0, calls |-> 0, found |-> {},
                      visited |-> {}, reasons |-> NoReasons, from |-> clock,
                      time |-> 0, why |-> why]
    <3>1. CASE budget.calls > 0
      <4>1. agent' = NewAgent
        BY <3>1 DEF StartKeyword
      <4> QED BY <4>1 DEF NewAgent
    <3>2. CASE ~(budget.calls > 0)
      <4>1. agent' = [NewAgent EXCEPT !.why = "max_llm_calls"]
        BY <3>2 DEF StartKeyword
      <4> QED BY <4>1 DEF NewAgent
    <3> QED BY <3>1, <3>2
  <2>3. NoReasons \in [User -> SUBSET Reasons] /\ why \in Reasons \cup {""}
        /\ {} \in SUBSET Evidence /\ {} \in SUBSET Video
    BY DEF NoReasons, Reasons
  <2> QED BY <1>2, <2>1, <2>2, <2>3 DEF Agent
<1>4. /\ TrackerOK(tracker') /\ Grows(tracker, tracker')
      /\ TrackerOK(tracker)
  BY <1>1, <1>2, AllowKeywordOK DEF CollectInv
<1>5. Browses' /\ Pending' = {} /\ ~Browses
  BY <1>1, <1>3 DEF Browses, Pending
<1>6. CollectionTypeOK'
  <2>1. tracker' \in Tracker
    BY <1>4 DEF TrackerOK
  <2> QED BY <1>1, <1>2, <1>3, <2>1 DEF CollectionTypeOK
<1>7. FiniteOK'
  BY <1>1, <1>3, FS_EmptySet DEF CollectInv, FiniteOK
<1>8. FoundOK'
  <2>1. /\ merged.evidence \in SUBSET Evidence
        /\ AllNoted(merged.evidence, tracker)
    BY <1>2 DEF CollectInv, FoundOK, AllNoted, CollectionTypeOK
  <2>2. AllNoted(merged.evidence, tracker')
    BY <1>4, <2>1, StillNoted
  <2>3. merged'.evidence \cup Pending' = merged.evidence
    BY <1>1, <1>5
  <2>4. AllNoted(merged'.evidence \cup Pending', tracker')
    BY <2>2, <2>3
  <2>5. \A e \in merged.evidence : e.keyword <= keyword /\ e.keyword < keyword
    BY <1>1 DEF CollectInv, FoundOK
  <2> QED BY <1>1, <1>5, <2>4, <2>5 DEF FoundOK
<1>9. FiguresOK'
  BY <1>1 DEF CollectInv, FiguresOK, Ended
<1>10. BudgetOK'
  <2>1. budget.pages \in Nat /\ budget.calls \in Nat
    BY <1>2, StateTyped
  <2> QED BY <1>1, <1>3, <1>5, <2>1 DEF CollectInv, BudgetOK
<1>11. TimeOK'
  <2>1. /\ totals.time <= MaxTime /\ totals.time <= clock
        /\ clock \in Nat /\ MaxTime \in Nat
    BY <1>2, StateTyped DEF CollectInv, TimeOK
  <2> QED BY <1>1, <1>3, <2>1 DEF TimeOK
<1>12. SumsOK'
  <2>1. /\ AllPages' = AllPages /\ AllCalls' = AllCalls /\ AllTime' = AllTime
        /\ Tainted' = Tainted
    BY <1>1, SameFigures DEF Tainted
  <2>2. \A figure \in {"pages", "calls", "time"} :
            Taken(figure) = 0 /\ Taken(figure)' = 0
    BY <1>1 DEF Taken
  <2> QED BY <1>1, <2>1, <2>2 DEF CollectInv, SumsOK
<1>13. CutOK'
  <2>1. \A c \in cut : c[1] \in Nat /\ c[1] <= keyword /\ c[1] < keyword
    <3>1. \A c \in cut : c[1] \in Nat
      BY <1>2, ConstantsTyped DEF CollectionTypeOK, Keyword
    <3> QED BY <1>1, <3>1 DEF CollectInv, CutOK
  <2>2. \A c \in cut : c[1] # keyword
    BY <1>2, <2>1, StateTyped
  <2> QED BY <1>1, <2>1, <2>2 DEF CollectInv, CutOK
<1>14. ToldOK'
  BY <1>1, SameFigures DEF CollectInv, ToldOK
<1>15. StoredOK'
  <2>1. stored'.evidence = {}
    BY <1>1 DEF CollectInv, StoredOK
  <2> QED BY <1>1, <2>1 DEF StoredOK, FailedLeavesNothing, CutIsMarked
<1> QED BY <1>4, <1>6, <1>7, <1>8, <1>9, <1>10, <1>11, <1>12, <1>13, <1>14,
           <1>15 DEF CollectInv

(* What stops the keywords early explains why the others are not reported.  *)
LEMMA StopKeywordsKeeps ==
    ASSUME CollectInv, StopKeywords
    PROVE  CollectInv'
<1>1. /\ at = "loop" /\ ~MayStart /\ at' = "closing"
      /\ tracker' = IF keyword <= NumKeywords
                    THEN AllowKeyword(tracker, keyword) ELSE tracker
      /\ keyword' = keyword /\ clock' = clock /\ budget' = budget
      /\ agent' = agent
      /\ stored' = stored /\ maxCalls' = maxCalls /\ totals' = totals
      /\ metrics' = metrics /\ merged' = merged /\ fruitless' = fruitless
      /\ failed' = failed /\ cut' = cut
  BY DEF StopKeywords, Collected, History
<1>2. /\ CollectionTypeOK /\ keyword \in Nat /\ keyword >= 1
      /\ NumKeywords \in Nat /\ clock \in Nat /\ MaxTime \in Nat
      /\ budget.pages \in Nat
  <2>1. CollectionTypeOK /\ NumKeywords \in Nat
    BY ConstantsTyped DEF CollectInv
  <2>2. keyword >= 1
    BY <2>1 DEF CollectionTypeOK
  <2> QED BY <2>1, <2>2, StateTyped
<1>3. keyword <= NumKeywords => keyword \in Keyword
  BY <1>2 DEF Keyword
<1>4. /\ TrackerOK(tracker') /\ Grows(tracker, tracker')
      /\ TrackerOK(tracker)
      /\ keyword <= NumKeywords /\ ~KeywordAllowed(tracker) =>
             tracker'.reasons = {"max_keywords"}
  <2>1. TrackerOK(tracker)
    BY DEF CollectInv
  <2>2. CASE keyword <= NumKeywords
    BY <1>1, <1>3, <2>1, <2>2, AllowKeywordOK
  <2>3. CASE ~(keyword <= NumKeywords)
    <3>1. tracker.total \in Nat
      BY <2>1, ConstantsTyped DEF TrackerOK, Tracker
    <3> QED BY <1>1, <2>1, <2>3, <3>1 DEF Grows
  <2> QED BY <2>2, <2>3
<1>5. ~Browses' /\ Pending' = {} /\ ~Browses
  BY <1>1 DEF Browses, Pending
<1>6. CollectionTypeOK'
  <2>1. tracker' \in Tracker
    BY <1>4 DEF TrackerOK
  <2> QED BY <1>1, <1>2, <2>1 DEF CollectionTypeOK
<1>7. FiniteOK'
  BY <1>1 DEF CollectInv, FiniteOK
<1>8. FoundOK'
  <2>1. /\ merged.evidence \in SUBSET Evidence
        /\ AllNoted(merged.evidence, tracker)
    BY <1>2 DEF CollectInv, FoundOK, AllNoted, CollectionTypeOK
  <2>2. AllNoted(merged.evidence, tracker')
    BY <1>4, <2>1, StillNoted
  <2>3. merged'.evidence \cup Pending' = merged.evidence
    BY <1>1, <1>5
  <2>4. AllNoted(merged'.evidence \cup Pending', tracker')
    BY <2>2, <2>3
  <2> QED BY <1>1, <1>5, <2>4 DEF CollectInv, FoundOK
<1>9. FiguresOK'
  BY <1>1 DEF CollectInv, FiguresOK, Ended
<1>10. BudgetOK' /\ TimeOK'
  BY <1>1, <1>5 DEF CollectInv, BudgetOK, TimeOK
<1>11. SumsOK'
  <2>1. /\ AllPages' = AllPages /\ AllCalls' = AllCalls /\ AllTime' = AllTime
        /\ Tainted' = Tainted
    BY <1>1, SameFigures DEF Tainted
  <2>2. \A figure \in {"pages", "calls", "time"} :
            Taken(figure) = 0 /\ Taken(figure)' = 0
    BY <1>1 DEF Taken
  <2> QED BY <1>1, <2>1, <2>2 DEF CollectInv, SumsOK
<1>12. CutOK'
  BY <1>1 DEF CollectInv, CutOK
<1>13. keyword > NumKeywords \/ Terminal' # ""
  <2>1. CASE keyword > NumKeywords
    BY <2>1
  <2>2. CASE budget.pages <= 0 \/ clock >= MaxTime
    BY <1>1, <2>2 DEF Terminal
  <2>3. CASE keyword <= NumKeywords /\ ~KeywordAllowed(tracker)
    <3>1. tracker'.reasons = {"max_keywords"}
      BY <1>4, <2>3
    <3>2. First({"max_keywords"}) \in LimitName
      BY LimitNames, FirstIsLimit
    <3>3. First(tracker'.reasons) # "" /\ tracker'.reasons # {}
      BY <3>1, <3>2, LimitNames
    <3>4. Terminal' = IF budget'.pages <= 0 THEN "max_pages"
                      ELSE IF totals'.time >= MaxTime \/ clock' >= MaxTime
                           THEN "max_duration_minutes"
                      ELSE IF tracker'.reasons # {}
                           THEN First(tracker'.reasons)
                      ELSE ""
      BY DEF Terminal
    <3> QED BY <3>3, <3>4
  <2>4. \/ keyword > NumKeywords \/ budget.pages <= 0 \/ clock >= MaxTime
        \/ keyword <= NumKeywords /\ ~KeywordAllowed(tracker)
    BY <1>1, <1>2 DEF MayStart
  <2> QED BY <2>1, <2>2, <2>3, <2>4
<1>14. ToldOK'
  BY <1>1, <1>13, SameFigures DEF CollectInv, ToldOK
<1>15. StoredOK'
  <2>1. stored'.evidence = {}
    BY <1>1 DEF CollectInv, StoredOK
  <2> QED BY <1>1, <2>1 DEF StoredOK, FailedLeavesNothing, CutIsMarked
<1> QED BY <1>4, <1>6, <1>7, <1>8, <1>9, <1>10, <1>11, <1>12, <1>14, <1>15
        DEF CollectInv

-----------------------------------------------------------------------------
(* What a keyword found is taken                                           *)

Candidates == [evidence : SUBSET Evidence, reasons : [User -> SUBSET Reasons]]

\* m has all of into and found, and the reasons of those whom found names.
Merged(m, into, found, reasons) ==
    /\ m \in Candidates /\ m.evidence = into.evidence \cup found
    /\ \A u \in User : into.reasons[u] \subseteq m.reasons[u]
    /\ \A u \in UsersIn(found) : reasons[u] \subseteq m.reasons[u]

(* Merging keeps all evidence, and the reasons of the users it names.       *)
LEMMA MergeOK ==
    ASSUME NEW into \in Candidates, NEW found \in SUBSET Evidence,
           NEW reasons \in [User -> SUBSET Reasons]
    PROVE  Merged(Merge(into, found, reasons), into, found, reasons)
<1> DEFINE m == Merge(into, found, reasons)
           R == into.reasons
           rs == [u \in User |-> R[u] \cup
                     IF u \in UsersIn(found) THEN reasons[u] ELSE {}]
<1>1. into.evidence \in SUBSET Evidence /\ R \in [User -> SUBSET Reasons]
  BY DEF Candidates
<1>2. m = [evidence |-> into.evidence \cup found, reasons |-> rs]
  BY DEF Merge
<1>3. UsersIn(found) \in SUBSET User
  BY UsersFinite
<1> HIDE DEF m, R
<1>4. rs \in [User -> SUBSET Reasons]
  BY <1>1
<1>5. /\ \A u \in User : R[u] \subseteq rs[u]
      /\ \A u \in UsersIn(found) : reasons[u] \subseteq rs[u]
  BY <1>1, <1>3
<1> HIDE DEF rs
<1>6. m \in Candidates /\ m.evidence = into.evidence \cup found
      /\ m.reasons = rs
  BY <1>1, <1>2, <1>4 DEF Candidates
<1> QED BY <1>5, <1>6 DEF m, R, Merged

LEMMA VideosFinite ==
    ASSUME NEW t, TrackerOK(t), NEW k \in Keyword,
           NEW found \in SUBSET Evidence, AllNoted(found, t)
    PROVE  IsFiniteSet(VideosIn(OfKeyword(found, k)))
<1>1. VideosIn(OfKeyword(found, k)) \in SUBSET t.videos[k]
  BY DEF VideosIn, OfKeyword, AllNoted, Noted
<1>2. IsFiniteSet(t.videos[k])
  BY DEF TrackerOK
<1> QED BY <1>1, <1>2, FS_Subset

\* The keyword is reported, and the next one is taken.
Reports(use) ==
    /\ at' = "loop" /\ keyword' = keyword + 1 /\ fruitless' \subseteq Keyword
    /\ \E m : /\ metrics' = [metrics EXCEPT ![keyword] = m]
              /\ FiguresOf(m, OfKeyword(merged'.evidence, keyword), use)

LEMMA ReportReports ==
    ASSUME CollectInv, at \in {"returned", "searching"}, TrackerOK(tracker'),
           NEW candidates \in Candidates, merged' = candidates,
           AllNoted(candidates.evidence, tracker'),
           NEW use \in [pages : Nat, calls : Nat, time : Nat],
           NEW why \in Reasons \cup {""},
           Report(candidates, use, why)
    PROVE  Reports(use)
<1> DEFINE m == Metric(candidates, keyword, use, why, agent.visited)
<1>1. /\ candidates.evidence \in SUBSET Evidence
      /\ candidates.reasons \in [User -> SUBSET Reasons]
  BY DEF Candidates
<1>2. keyword \in Keyword /\ fruitless \subseteq Keyword /\ agent \in Agent
  BY DEF CollectInv, CollectionTypeOK
<1>3. agent.visited \in SUBSET Video /\ IsFiniteSet(agent.visited)
  BY <1>2, RunTyped DEF CollectInv, FiniteOK
<1>4. /\ IsFiniteSet(candidates.evidence)
      /\ IsFiniteSet(VideosIn(OfKeyword(candidates.evidence, keyword)))
  BY <1>1, <1>2, FoundFinite, VideosFinite
<1>5. FiguresOf(m, OfKeyword(candidates.evidence, keyword), use)
  BY <1>1, <1>2, <1>3, <1>4, MetricOK
<1>6. /\ metrics' = [metrics EXCEPT ![keyword] = m]
      /\ keyword' = keyword + 1 /\ at' = "loop"
  BY DEF Report
<1>7. fruitless' \in {fruitless, fruitless \cup {keyword}}
  BY DEF Report
<1> HIDE DEF m
<1> QED BY <1>2, <1>5, <1>6, <1>7 DEF Reports

(* A report adds the use of the keyword to the sums, and tells of what is   *)
(* now found for it; nothing is found for the other keywords.               *)
LEMMA ReportsKeeps ==
    ASSUME CollectInv, at \in {"returned", "searching"},
           NEW use, Reports(use),
           merged.evidence \subseteq merged'.evidence,
           \A e \in merged'.evidence :
               e \in merged.evidence \/ e.keyword = keyword
    PROVE  /\ metrics' \in [Keyword -> MetricType]
           /\ \A k \in Keyword : IsFiniteSet(metrics'[k].videos)
           /\ FiguresOK'
           /\ AllPages' = AllPages + use.pages
           /\ AllCalls' = AllCalls + use.calls
           /\ AllTime' = AllTime + use.time
           /\ metrics'[keyword].reported
           /\ \A k \in Keyword :
                  metrics[k].reported => metrics'[k].reported
<1>1. /\ keyword \in Keyword /\ metrics \in [Keyword -> MetricType]
      /\ keyword \in Nat
  BY StateTyped DEF CollectInv, CollectionTypeOK
<1>2. PICK m : /\ metrics' = [metrics EXCEPT ![keyword] = m]
               /\ FiguresOf(m, OfKeyword(merged'.evidence, keyword), use)
  BY DEF Reports
<1>3. /\ m \in MetricType /\ m.reported /\ IsFiniteSet(m.videos)
      /\ m.pages = use.pages /\ m.calls = use.calls /\ m.time = use.time
      /\ m.candidates =
             Cardinality(UsersIn(OfKeyword(merged'.evidence, keyword)))
      /\ m.observations = Cardinality(OfKeyword(merged'.evidence, keyword))
  BY <1>2 DEF FiguresOf
<1>4. metrics[keyword] = NoMetric
  <2>1. ~(keyword < keyword)
    BY <1>1
  <2>2. at \notin {"batch"} \cup Ended
    BY DEF Ended
  <2>3. ~metrics[keyword].reported
    BY <1>1, <2>1, <2>2 DEF CollectInv, FiguresOK
  <2> QED BY <1>1, <2>3 DEF CollectInv, FiguresOK
<1>5. /\ metrics' \in [Keyword -> MetricType] /\ metrics'[keyword] = m
      /\ \A k \in Keyword \ {keyword} : metrics'[k] = metrics[k]
  BY <1>1, <1>2, <1>3
<1>6. \A k \in Keyword : IsFiniteSet(metrics'[k].videos)
  BY <1>3, <1>5 DEF CollectInv, FiniteOK
<1>7. FiguresOK'
  <2>1. ASSUME NEW k \in Keyword
        PROVE  /\ ~metrics'[k].reported => metrics'[k] = NoMetric
               /\ metrics'[k].reported =>
                      LET found == OfKeyword(merged'.evidence, k)
                      IN  /\ metrics'[k].candidates =
                                 Cardinality(UsersIn(found))
                          /\ metrics'[k].observations = Cardinality(found)
                          /\ k < keyword + 1
    <3>1. CASE k = keyword
      <4>1. keyword < keyword + 1
        BY <1>1
      <4> QED BY <1>3, <1>5, <3>1, <4>1
    <3>2. CASE k # keyword
      <4>1. OfKeyword(merged'.evidence, k) = OfKeyword(merged.evidence, k)
        BY <3>2 DEF OfKeyword
      <4>2. k < keyword => k < keyword + 1
        BY <1>1, ConstantsTyped DEF Keyword
      <4>3. at \notin {"batch"} \cup Ended
        BY DEF Ended
      <4> QED BY <1>5, <3>2, <4>1, <4>2, <4>3 DEF CollectInv, FiguresOK
    <3> QED BY <3>1, <3>2
  <2> QED BY <2>1 DEF Reports, FiguresOK
<1>8. /\ AllPages' = AllPages + m.pages /\ AllCalls' = AllCalls + m.calls
      /\ AllTime' = AllTime + m.time
  BY <1>1, <1>2, <1>3, <1>4, AllReported
<1>9. \A k \in Keyword : metrics[k].reported => metrics'[k].reported
  BY <1>3, <1>5
<1> QED BY <1>3, <1>5, <1>6, <1>7, <1>8, <1>9

\* The agent's result is added to the totals and to the candidates.
Takes ==
    /\ at = "returned" /\ at' \in {"searching", "loop"} /\ Clocked
    /\ agent.time <= MaxTime - agent.from
    /\ budget' = [pages |-> budget.pages - agent.pages,
                  calls |-> budget.calls - agent.calls]
    /\ totals' = [pages |-> totals.pages + agent.pages,
                  calls |-> totals.calls + agent.calls,
                  time |-> totals.time + agent.time]
    /\ UNCHANGED <<maxCalls, tracker, stored>> /\ History
    /\ agent' \in Agent /\ agent'.visited = agent.visited
    /\ \A figure \in {"pages", "calls", "time"} :
           agent'[figure] = agent[figure]
    /\ merged' \in Candidates
    /\ merged'.evidence = merged.evidence \cup agent.found
    /\ \A u \in User : merged.reasons[u] \subseteq merged'.reasons[u]
    /\ \A u \in UsersIn(agent.found) :
           agent.reasons[u] \subseteq merged'.reasons[u]
    /\ at' = "searching" => /\ budget'.pages > 0
                            /\ UNCHANGED <<keyword, metrics, fruitless>>
    /\ at' = "loop" => Reports(Use)

LEMMA TakeResultTakes ==
    ASSUME CollectInv, TakeResult
    PROVE  Takes
<1> DEFINE left == [pages |-> budget.pages - agent.pages,
                    calls |-> budget.calls - agent.calls]
           why == Reason(left, totals.time + agent.time)
           reasons == IF why \in PerUser \cup {""} THEN agent.reasons
                      ELSE MarkAll(agent.reasons, why)
           candidates == Merge(merged, agent.found, reasons)
<1>1. /\ at = "returned" /\ agent.time <= MaxTime - agent.from
      /\ clock' \in Later
      /\ budget' = left
      /\ totals' = [pages |-> totals.pages + agent.pages,
                    calls |-> totals.calls + agent.calls,
                    time |-> totals.time + agent.time]
      /\ merged' = candidates
      /\ agent' = [agent EXCEPT !.why = why]
      /\ \/ /\ left.pages > 0 /\ at' = "searching"
            /\ UNCHANGED <<keyword, metrics, fruitless>>
         \/ Report(candidates, Use, why)
      /\ UNCHANGED <<maxCalls, tracker, stored>> /\ History
  BY DEF TakeResult
<1>2. /\ agent \in Agent /\ merged \in Candidates /\ TrackerOK(tracker)
      /\ AllNoted(merged.evidence \cup agent.found, tracker)
  <2>1. Browses
    BY <1>1 DEF Browses
  <2>2. agent \in Agent /\ merged \in Candidates
    BY DEF CollectInv, CollectionTypeOK, Candidates
  <2> QED BY <2>1, <2>2 DEF CollectInv, FoundOK, Pending
<1>3. /\ agent.found \in SUBSET Evidence
      /\ agent.reasons \in [User -> SUBSET Reasons]
      /\ agent.why \in Reasons \cup {""}
      /\ agent.pages \in Nat /\ agent.calls \in Nat /\ agent.time \in Nat
  BY <1>2, RunTyped
<1>4. why \in Reasons \cup {""}
  BY <1>3 DEF Reason, Reasons
<1>5. Clocked
  BY <1>1, LaterIsClocked
<1>6. Use \in [pages : Nat, calls : Nat, time : Nat]
  BY <1>3 DEF Use
<1> HIDE DEF why, left
<1>7. /\ reasons \in [User -> SUBSET Reasons]
      /\ \A u \in User : agent.reasons[u] \subseteq reasons[u]
  <2>1. CASE why \in PerUser \cup {""}
    BY <1>3, <2>1
  <2>2. CASE why \notin PerUser \cup {""}
    <3>1. why \in Reasons
      BY <1>4, <2>2
    <3> QED BY <1>3, <2>2, <3>1 DEF MarkAll
  <2> QED BY <2>1, <2>2
<1> HIDE DEF reasons
<1>8. /\ candidates \in Candidates
      /\ candidates.evidence = merged.evidence \cup agent.found
      /\ \A u \in User : merged.reasons[u] \subseteq candidates.reasons[u]
      /\ \A u \in UsersIn(agent.found) :
             reasons[u] \subseteq candidates.reasons[u]
  <2>1. Merged(candidates, merged, agent.found, reasons)
    BY <1>2, <1>3, <1>7, MergeOK
  <2> HIDE DEF candidates
  <2> QED BY <2>1 DEF Merged
<1> HIDE DEF candidates
<1>9. UsersIn(agent.found) \in SUBSET User
  BY <1>3, UsersFinite
<1>10. /\ agent' \in Agent /\ agent'.visited = agent.visited
       /\ \A figure \in {"pages", "calls", "time"} :
              agent'[figure] = agent[figure]
  BY <1>1, <1>2, <1>4 DEF Agent
<1>11. TrackerOK(tracker') /\ AllNoted(candidates.evidence, tracker')
  BY <1>1, <1>2, <1>8
<1>12. \/ at' = "searching" /\ budget'.pages > 0
          /\ UNCHANGED <<keyword, metrics, fruitless>>
       \/ at' = "loop" /\ Reports(Use)
  <2>1. CASE Report(candidates, Use, why)
    <3>1. Reports(Use)
      BY <1>1, <1>4, <1>6, <1>8, <1>11, <2>1, ReportReports
    <3> QED BY <3>1 DEF Reports
  <2>2. CASE /\ left.pages > 0 /\ at' = "searching"
             /\ UNCHANGED <<keyword, metrics, fruitless>>
    BY <1>1, <2>2
  <2> QED BY <1>1, <2>1, <2>2
<1>13. \A u \in UsersIn(agent.found) :
           agent.reasons[u] \subseteq merged'.reasons[u]
  BY <1>1, <1>7, <1>8, <1>9
<1> HIDE DEF Reports
<1> QED BY <1>1, <1>5, <1>8, <1>10, <1>12, <1>13 DEF Takes, left

LEMMA TakesKeeps ==
    ASSUME CollectInv, Takes
    PROVE  CollectInv'
<1>1. /\ at = "returned" /\ at' \in {"searching", "loop"}
      /\ clock' \in 0..MaxTime + 1 /\ clock <= clock'
      /\ agent.time <= MaxTime - agent.from
      /\ budget'.pages = budget.pages - agent.pages
      /\ budget'.calls = budget.calls - agent.calls
      /\ totals'.pages = totals.pages + agent.pages
      /\ totals'.calls = totals.calls + agent.calls
      /\ totals'.time = totals.time + agent.time
      /\ merged' \in Candidates
      /\ merged'.evidence = merged.evidence \cup agent.found
      /\ tracker' = tracker
  BY DEF Takes, Clocked
<1>2. /\ maxCalls' = maxCalls /\ stored' = stored
      /\ failed' = failed /\ cut' = cut
      /\ agent' \in Agent /\ agent'.visited = agent.visited
      /\ agent'.pages = agent.pages /\ agent'.calls = agent.calls
      /\ agent'.time = agent.time
      /\ \A figure \in {"pages", "calls", "time"} :
             agent'[figure] = agent[figure]
  BY DEF Takes, History
<1>3. /\ at' = "searching" => /\ budget'.pages > 0 /\ keyword' = keyword
                              /\ metrics' = metrics /\ fruitless' = fruitless
      /\ at' = "loop" => Reports(Use) /\ keyword' = keyword + 1
                         /\ fruitless' \subseteq Keyword
  BY DEF Takes, Reports
<1>4. Browses /\ Pending = agent.found /\ ~Browses' /\ Pending' = {}
  BY <1>1 DEF Browses, Pending
<1>5. /\ CollectionTypeOK /\ keyword \in Keyword /\ keyword \in Nat
      /\ NumKeywords \in Nat
  BY <1>1, StateTyped DEF CollectInv, CollectionTypeOK
<1>6. /\ \A e \in merged.evidence : e.keyword \in Nat /\ e.keyword < keyword
      /\ \A e \in agent.found : e.keyword = keyword
  <2>1. \A e \in merged.evidence : e.keyword \in Nat
    BY <1>5 DEF CollectionTypeOK, Evidence, Keyword
  <2> QED BY <1>4, <2>1 DEF CollectInv, FoundOK
<1>7. /\ agent.pages <= budget.pages /\ agent.calls <= budget.calls
      /\ agent.found # {} => agent.calls > 0
      /\ totals.pages + budget.pages = MaxPages
      /\ totals.calls + budget.calls = maxCalls
  BY <1>4 DEF CollectInv, BudgetOK
<1>8. /\ budget.pages \in Nat /\ budget.calls \in Nat /\ agent.pages \in Nat
      /\ agent.calls \in Nat /\ agent.time \in Nat /\ agent.from \in Nat
      /\ totals.pages \in Nat /\ totals.calls \in Nat /\ totals.time \in Nat
      /\ clock \in Nat /\ MaxTime \in Nat
      /\ AllPages \in Nat /\ AllCalls \in Nat /\ AllTime \in Nat
  BY <1>5, StateTyped
<1>9. at' = "loop" =>
          /\ metrics' \in [Keyword -> MetricType]
          /\ \A k \in Keyword : IsFiniteSet(metrics'[k].videos)
          /\ FiguresOK'
          /\ AllPages' = AllPages + agent.pages
          /\ AllCalls' = AllCalls + agent.calls
          /\ AllTime' = AllTime + agent.time
          /\ metrics'[keyword].reported
          /\ \A k \in Keyword :
                 metrics[k].reported => metrics'[k].reported
  <2>1. Use.pages = agent.pages /\ Use.calls = agent.calls
        /\ Use.time = agent.time
    BY DEF Use
  <2>2. /\ merged.evidence \subseteq merged'.evidence
        /\ \A e \in merged'.evidence :
               e \in merged.evidence \/ e.keyword = keyword
    BY <1>1, <1>6
  <2>3. ASSUME at' = "loop"
        PROVE  /\ metrics' \in [Keyword -> MetricType]
               /\ \A k \in Keyword : IsFiniteSet(metrics'[k].videos)
               /\ FiguresOK'
               /\ AllPages' = AllPages + Use.pages
               /\ AllCalls' = AllCalls + Use.calls
               /\ AllTime' = AllTime + Use.time
               /\ metrics'[keyword].reported
               /\ \A k \in Keyword :
                      metrics[k].reported => metrics'[k].reported
    BY <1>1, <1>3, <2>2, <2>3, ReportsKeeps
  <2> QED BY <2>1, <2>3
<1>10. keyword' \in 1..NumKeywords + 1 /\ keyword <= keyword'
  <2>1. keyword' \in {keyword, keyword + 1}
    BY <1>1, <1>3
  <2> QED BY <1>5, <2>1 DEF Keyword
<1>11. CollectionTypeOK'
  <2>1. budget' \in [pages : Nat, calls : Nat]
    <3>1. /\ budget.pages - agent.pages \in Nat
          /\ budget.calls - agent.calls \in Nat
      BY <1>7, <1>8
    <3> QED BY <3>1 DEF Takes
  <2>2. totals' \in [pages : Nat, calls : Nat, time : Nat]
    <3>1. /\ totals.pages + agent.pages \in Nat
          /\ totals.calls + agent.calls \in Nat
          /\ totals.time + agent.time \in Nat
      BY <1>8
    <3> QED BY <3>1 DEF Takes
  <2>3. metrics' \in [Keyword -> MetricType] /\ fruitless' \subseteq Keyword
    BY <1>1, <1>3, <1>5, <1>9 DEF CollectionTypeOK
  <2>4. at' = "searching" => keyword' \in Keyword
    BY <1>3, <1>5
  <2> QED BY <1>1, <1>2, <1>5, <1>10, <2>1, <2>2, <2>3, <2>4
          DEF CollectionTypeOK, Candidates
<1>12. TrackerOK(tracker') /\ FiniteOK'
  <2>1. \A k \in Keyword : IsFiniteSet(metrics'[k].videos)
    BY <1>1, <1>3, <1>9 DEF CollectInv, FiniteOK
  <2> QED BY <1>1, <1>2, <2>1 DEF CollectInv, FiniteOK
<1>13. FoundOK'
  <2>1. AllNoted(merged.evidence \cup agent.found, tracker)
    BY <1>4 DEF CollectInv, FoundOK
  <2>2. merged'.evidence \cup Pending' = merged.evidence \cup agent.found
    BY <1>1, <1>4
  <2>3. AllNoted(merged'.evidence \cup Pending', tracker')
    BY <1>1, <2>1, <2>2
  <2>4. ASSUME NEW e \in merged'.evidence
        PROVE  /\ e.keyword <= keyword'
               /\ at' = "loop" => e.keyword < keyword'
    <3>1. e.keyword \in Nat /\ e.keyword <= keyword
      BY <1>1, <1>5, <1>6
    <3>2. keyword' \in Nat
      BY <1>5, <1>10
    <3> QED BY <1>3, <1>5, <1>10, <3>1, <3>2
  <2> QED BY <1>4, <2>3, <2>4 DEF FoundOK
<1>14. FiguresOK'
  <2>1. CASE at' = "loop"
    BY <1>9, <2>1
  <2>2. CASE at' = "searching"
    <3>1. ASSUME NEW k \in Keyword, metrics[k].reported
          PROVE  k < keyword
                 /\ OfKeyword(merged'.evidence, k) =
                        OfKeyword(merged.evidence, k)
      <4>1. at \notin {"batch"} \cup Ended
        BY <1>1 DEF Ended
      <4>2. k < keyword
        BY <3>1, <4>1 DEF CollectInv, FiguresOK
      <4>3. k # keyword
        BY <1>5, <4>2
      <4> QED BY <1>1, <1>6, <4>2, <4>3 DEF OfKeyword
    <3> QED BY <1>3, <2>2, <3>1 DEF CollectInv, FiguresOK
  <2> QED BY <1>1, <2>1, <2>2
<1>15. BudgetOK'
  <2>1. /\ totals'.pages + budget'.pages = MaxPages
        /\ totals'.calls + budget'.calls = maxCalls
    BY <1>1, <1>7, <1>8
  <2>2. (\E e \in merged'.evidence : e.keyword = keyword) => agent.calls > 0
    <3>1. SUFFICES ASSUME NEW e \in merged'.evidence, e.keyword = keyword
                   PROVE  agent.calls > 0
      OBVIOUS
    <3>2. e \notin merged.evidence
      BY <1>5, <1>6, <3>1
    <3> QED BY <1>1, <1>7, <3>2
  <2> QED BY <1>1, <1>2, <1>3, <1>4, <2>1, <2>2 DEF BudgetOK
<1>16. TimeOK'
  <2>1. /\ totals.time <= agent.from /\ agent.from <= MaxTime
        /\ agent.from + agent.time <= clock
    BY <1>1, <1>4 DEF CollectInv, TimeOK
  <2>2. clock' \in Nat
    BY <1>1, Ticks
  <2>3. totals.time + agent.time <= MaxTime
        /\ totals.time + agent.time <= clock'
    BY <1>1, <1>8, <2>1, <2>2
  <2> QED BY <1>1, <1>4, <2>3 DEF TimeOK
<1>17. SumsOK'
  <2>1. Tainted' = Tainted
    <3>1. keyword \notin failed
      <4>1. ~(keyword < keyword)
        BY <1>5
      <4> QED BY <4>1 DEF CollectInv, ToldOK
    <3> QED BY <1>1, <1>2, <1>6, <3>1 DEF Tainted
  <2>2. /\ AllPages' + Taken("pages")' = AllPages + agent.pages
        /\ AllCalls' + Taken("calls")' = AllCalls + agent.calls
        /\ AllTime' + Taken("time")' = AllTime + agent.time
    <3>1. CASE at' = "loop"
      <4>1. Taken("pages")' = 0 /\ Taken("calls")' = 0 /\ Taken("time")' = 0
        BY <3>1 DEF Taken
      <4> QED BY <1>8, <1>9, <3>1, <4>1
    <3>2. CASE at' = "searching"
      <4>1. /\ AllPages' = AllPages /\ AllCalls' = AllCalls
            /\ AllTime' = AllTime
        BY <1>3, <3>2, SameFigures
      <4>2. /\ Taken("pages")' = agent.pages /\ Taken("calls")' = agent.calls
            /\ Taken("time")' = agent.time
        BY <1>2, <3>2 DEF Taken
      <4> QED BY <4>1, <4>2
    <3> QED BY <1>1, <3>1, <3>2
  <2>3. Taken("pages") = 0 /\ Taken("calls") = 0 /\ Taken("time") = 0
    BY <1>1 DEF Taken
  <2>4. /\ totals.calls >= AllCalls + 0 + (IF Tainted THEN 1 ELSE 0)
        /\ failed = {} => /\ totals.pages = AllPages + 0
                          /\ totals.calls = AllCalls + 0
                          /\ totals.time = AllTime + 0
    BY <1>1, <2>3 DEF CollectInv, SumsOK
  <2>5. /\ totals'.calls >= AllCalls' + Taken("calls")'
                            + (IF Tainted THEN 1 ELSE 0)
        /\ failed = {} => /\ totals'.pages = AllPages' + Taken("pages")'
                          /\ totals'.calls = AllCalls' + Taken("calls")'
                          /\ totals'.time = AllTime' + Taken("time")'
    BY <1>1, <1>8, <2>2, <2>4
  <2> QED BY <1>2, <2>1, <2>5 DEF SumsOK
<1>18. CutOK'
  <2>1. ASSUME NEW c \in cut
        PROVE  c[1] <= keyword' /\ (at' = "loop" => c[1] < keyword')
    <3>1. c[1] <= keyword /\ c[1] \in Nat
      BY <1>5 DEF CollectInv, CutOK, CollectionTypeOK, Keyword
    <3>2. keyword' \in Nat
      BY <1>5, <1>10
    <3> QED BY <1>3, <1>5, <1>10, <3>1, <3>2
  <2>2. ASSUME NEW c \in cut, NEW e \in merged'.evidence,
               c = <<e.keyword, e.sighting.user>>,
               e.sighting.source # "direct_user"
        PROVE  merged'.reasons[e.sighting.user] # {}
    <3>1. e.sighting.user \in User
      BY <1>1 DEF Candidates, Evidence, Sighting
    <3>2. CASE e \in merged.evidence
      <4>1. merged.reasons[e.sighting.user] # {}
        BY <2>2, <3>2 DEF CollectInv, CutOK
      <4> QED BY <3>1, <4>1 DEF Takes
    <3>3. CASE e \in agent.found
      <4>1. c[1] = keyword /\ c[2] = e.sighting.user
        BY <1>6, <2>2, <3>3
      <4>2. agent.reasons[e.sighting.user] # {}
        BY <1>1, <4>1 DEF CollectInv, CutOK
      <4>3. e.sighting.user \in UsersIn(agent.found)
        BY <3>3 DEF UsersIn
      <4> QED BY <4>2, <4>3 DEF Takes
    <3> QED BY <1>1, <3>2, <3>3
  <2> QED BY <1>1, <1>2, <2>1, <2>2 DEF CutOK
<1>19. ToldOK'
  <2>1. \A k \in failed : k < keyword'
    <3>1. \A k \in failed : k < keyword
      BY DEF CollectInv, ToldOK
    <3>2. failed \subseteq Nat /\ keyword' \in Nat
      BY <1>5, <1>10 DEF CollectionTypeOK, Keyword
    <3> QED BY <1>5, <1>10, <3>1, <3>2
  <2>2. \A k \in Keyword :
            k < keyword' => metrics'[k].reported \/ k \in failed
    <3>1. CASE at' = "searching"
      BY <1>3, <3>1 DEF CollectInv, ToldOK
    <3>2. CASE at' = "loop"
      <4>1. \A k \in Keyword : k < keyword' => k < keyword \/ k = keyword
        BY <1>3, <1>5, <3>2 DEF Keyword
      <4> QED BY <1>9, <3>2, <4>1 DEF CollectInv, ToldOK
    <3> QED BY <1>1, <3>1, <3>2
  <2> QED BY <1>1, <1>2, <2>1, <2>2 DEF ToldOK
<1>20. StoredOK'
  <2>1. stored'.evidence = {}
    BY <1>1, <1>2 DEF CollectInv, StoredOK
  <2> QED BY <1>1, <2>1 DEF StoredOK, FailedLeavesNothing, CutIsMarked
<1> QED BY <1>11, <1>12, <1>13, <1>14, <1>15, <1>16, <1>17, <1>18, <1>19,
           <1>20 DEF CollectInv

\* A search adds users to what the keyword found.
Searches ==
    /\ at = "searching" /\ at' = "loop" /\ Clocked
    /\ budget' = [budget EXCEPT !.pages = @ - 1]
    /\ totals' = WithSearch(totals)
    /\ UNCHANGED <<maxCalls, agent, stored>> /\ History
    /\ TrackerOK(tracker')
    /\ merged' \in Candidates
    /\ merged.evidence \subseteq merged'.evidence
    /\ \A u \in User : merged.reasons[u] \subseteq merged'.reasons[u]
    /\ AllNoted(merged'.evidence, tracker')
    /\ \A e \in merged'.evidence :
           e \in merged.evidence \/ /\ e.keyword = keyword
                                    /\ e.sighting.source = "direct_user"
    /\ Reports([Use EXCEPT !.pages = @ + 1])

LEMMA SearchUsersSearches ==
    ASSUME CollectInv, NEW users \in Listing, SearchUsers(users)
    PROVE  Searches
<1> DEFINE all == Searched(users)
           left == [budget EXCEPT !.pages = @ - 1]
           limit == IF left.pages <= 0 THEN "max_pages"
                    ELSE IF clock' >= MaxTime THEN "max_duration_minutes"
                    ELSE ""
           reasons == IF limit = "" THEN all.reasons
                      ELSE MarkAll(all.reasons, limit)
           candidates == Merge(merged, all.found, reasons)
           use == [Use EXCEPT !.pages = @ + 1]
           why == IF limit = "" THEN agent.why ELSE limit
<1>1. /\ at = "searching" /\ clock' \in Later /\ tracker' = all.tracker
      /\ budget' = left /\ totals' = WithSearch(totals)
      /\ merged' = candidates /\ Report(candidates, use, why)
      /\ UNCHANGED <<maxCalls, agent, stored>> /\ History
  BY DEF SearchUsers
<1>2. /\ agent \in Agent /\ merged \in Candidates /\ TrackerOK(tracker)
      /\ merged.evidence \in SUBSET Evidence
      /\ AllNoted(merged.evidence, tracker) /\ keyword \in Keyword
  BY <1>1 DEF CollectInv, CollectionTypeOK, Candidates, FoundOK, AllNoted
<1>3. all \in SearchResult(merged.evidence)
  BY <1>2, SearchedOK
<1> HIDE DEF all
<1>4. /\ TrackerOK(all.tracker) /\ all.found \in SUBSET Evidence
      /\ all.reasons \in [User -> SUBSET Reasons]
      /\ AllNoted(merged.evidence \cup all.found, all.tracker)
      /\ \A e \in all.found : /\ e.keyword = keyword
                              /\ e.sighting.source = "direct_user"
  BY <1>3 DEF SearchResult
<1>5. Clocked
  BY <1>1, LaterIsClocked
<1>6. use \in [pages : Nat, calls : Nat, time : Nat]
  <2>1. agent.pages \in Nat /\ agent.calls \in Nat /\ agent.time \in Nat
    BY <1>2, RunTyped
  <2>2. agent.pages + 1 \in Nat
    BY <2>1
  <2> QED BY <2>1, <2>2 DEF Use
<1>7. limit \in Reasons \cup {""}
  BY DEF Reasons
<1>8. agent.why \in Reasons \cup {""}
  BY <1>2, RunTyped
<1> HIDE DEF left, limit
<1>9. why \in Reasons \cup {""}
  BY <1>7, <1>8
<1>10. reasons \in [User -> SUBSET Reasons]
  <2>1. CASE limit = ""
    BY <1>4, <2>1
  <2>2. CASE limit # ""
    <3>1. limit \in Reasons
      BY <1>7, <2>2
    <3> QED BY <1>4, <2>2, <3>1 DEF MarkAll
  <2> QED BY <2>1, <2>2
<1> HIDE DEF reasons, use, why
<1>11. Merged(candidates, merged, all.found, reasons)
  BY <1>2, <1>4, <1>10, MergeOK
<1> HIDE DEF candidates
<1>12. /\ candidates \in Candidates
       /\ candidates.evidence = merged.evidence \cup all.found
       /\ \A u \in User : merged.reasons[u] \subseteq candidates.reasons[u]
  BY <1>11 DEF Merged
<1>13. TrackerOK(tracker') /\ AllNoted(candidates.evidence, tracker')
  BY <1>1, <1>4, <1>12
<1>14. Reports(use)
  BY <1>1, <1>6, <1>9, <1>12, <1>13, ReportReports
<1>15. at' = "loop"
  BY <1>14 DEF Reports
<1> QED BY <1>1, <1>4, <1>5, <1>12, <1>13, <1>14, <1>15
        DEF Searches, left, use

LEMMA SearchesKeeps ==
    ASSUME CollectInv, Searches
    PROVE  CollectInv'
<1>1. /\ at = "searching" /\ at' = "loop"
      /\ clock' \in 0..MaxTime + 1 /\ clock <= clock'
      /\ budget' = [budget EXCEPT !.pages = @ - 1]
      /\ totals' = [totals EXCEPT !.pages = @ + 1]
      /\ maxCalls' = maxCalls /\ agent' = agent /\ stored' = stored
      /\ failed' = failed /\ cut' = cut
      /\ TrackerOK(tracker') /\ merged' \in Candidates
      /\ merged.evidence \subseteq merged'.evidence
      /\ \A u \in User : merged.reasons[u] \subseteq merged'.reasons[u]
      /\ AllNoted(merged'.evidence, tracker')
      /\ \A e \in merged'.evidence :
             e \in merged.evidence \/ /\ e.keyword = keyword
                                      /\ e.sighting.source = "direct_user"
  BY DEF Searches, Clocked, WithSearch, History
<1>2. keyword' = keyword + 1 /\ fruitless' \subseteq Keyword
  BY DEF Searches, Reports
<1>3. ~Browses /\ ~Browses' /\ Pending' = {}
  BY <1>1 DEF Browses, Pending
<1>4. /\ CollectionTypeOK /\ keyword \in Keyword /\ keyword \in Nat
      /\ NumKeywords \in Nat
      /\ budget \in [pages : Nat, calls : Nat]
      /\ totals \in [pages : Nat, calls : Nat, time : Nat]
  BY <1>1, StateTyped DEF CollectInv, CollectionTypeOK
<1>5. /\ budget.pages \in Nat /\ budget.calls \in Nat /\ agent.pages \in Nat
      /\ agent.calls \in Nat /\ agent.time \in Nat
      /\ totals.pages \in Nat /\ totals.calls \in Nat /\ totals.time \in Nat
      /\ clock \in Nat /\ MaxTime \in Nat
      /\ AllPages \in Nat /\ AllCalls \in Nat /\ AllTime \in Nat
  BY <1>4, StateTyped
<1>6. /\ budget.pages > 0 /\ totals.pages + budget.pages = MaxPages
      /\ totals.calls + budget.calls = maxCalls
  BY <1>1 DEF CollectInv, BudgetOK
<1>7. /\ budget'.pages = budget.pages - 1 /\ budget'.calls = budget.calls
      /\ totals'.pages = totals.pages + 1 /\ totals'.calls = totals.calls
      /\ totals'.time = totals.time
  BY <1>1, <1>4
<1>8. /\ metrics' \in [Keyword -> MetricType]
      /\ \A k \in Keyword : IsFiniteSet(metrics'[k].videos)
      /\ FiguresOK'
      /\ AllPages' = AllPages + (agent.pages + 1)
      /\ AllCalls' = AllCalls + agent.calls
      /\ AllTime' = AllTime + agent.time
      /\ metrics'[keyword].reported
      /\ \A k \in Keyword : metrics[k].reported => metrics'[k].reported
  <2> DEFINE use == [Use EXCEPT !.pages = @ + 1]
  <2>1. use.pages = agent.pages + 1 /\ use.calls = agent.calls
        /\ use.time = agent.time
    BY DEF Use
  <2>2. Reports(use)
    BY DEF Searches
  <2>3. \A e \in merged'.evidence :
            e \in merged.evidence \/ e.keyword = keyword
    BY <1>1
  <2> HIDE DEF use
  <2>4. /\ metrics' \in [Keyword -> MetricType]
        /\ \A k \in Keyword : IsFiniteSet(metrics'[k].videos)
        /\ FiguresOK'
        /\ AllPages' = AllPages + use.pages
        /\ AllCalls' = AllCalls + use.calls
        /\ AllTime' = AllTime + use.time
        /\ metrics'[keyword].reported
        /\ \A k \in Keyword : metrics[k].reported => metrics'[k].reported
    BY <1>1, <2>2, <2>3, ReportsKeeps
  <2> QED BY <2>1, <2>4
<1>9. \A e \in merged'.evidence : e.keyword \in Nat /\ e.keyword <= keyword
  <2>1. \A e \in merged'.evidence : e.keyword \in Keyword
    BY <1>1 DEF Candidates, Evidence
  <2>2. Keyword \subseteq Nat /\ keyword <= keyword
    BY <1>4 DEF Keyword
  <2> QED BY <1>1, <2>1, <2>2 DEF CollectInv, FoundOK
<1>10. CollectionTypeOK'
  <2>1. keyword' \in 1..NumKeywords + 1
    BY <1>2, <1>4 DEF Keyword
  <2>2. budget' \in [pages : Nat, calls : Nat]
    <3>1. budget.pages - 1 \in Nat
      BY <1>5, <1>6
    <3> QED BY <1>1, <1>4, <3>1
  <2>3. totals' \in [pages : Nat, calls : Nat, time : Nat]
    <3>1. totals.pages + 1 \in Nat
      BY <1>5
    <3> QED BY <1>1, <1>4, <3>1
  <2>4. tracker' \in Tracker
    BY <1>1 DEF TrackerOK
  <2> QED BY <1>1, <1>2, <1>4, <1>8, <2>1, <2>2, <2>3, <2>4
          DEF CollectionTypeOK, Candidates
<1>11. FiniteOK'
  BY <1>1, <1>8 DEF CollectInv, FiniteOK
<1>12. FoundOK'
  <2>1. merged'.evidence \cup Pending' = merged'.evidence
    BY <1>3
  <2>2. AllNoted(merged'.evidence \cup Pending', tracker')
    BY <1>1, <2>1
  <2>3. \A e \in merged'.evidence :
            e.keyword <= keyword + 1 /\ e.keyword < keyword + 1
    BY <1>4, <1>9
  <2> QED BY <1>2, <1>3, <2>2, <2>3 DEF FoundOK
<1>13. BudgetOK'
  <2>1. /\ totals'.pages + budget'.pages = MaxPages
        /\ totals'.calls + budget'.calls = maxCalls
    BY <1>5, <1>6, <1>7
  <2> QED BY <1>1, <1>3, <2>1 DEF BudgetOK
<1>14. TimeOK'
  <2>1. totals.time <= MaxTime /\ totals.time <= clock
    BY DEF CollectInv, TimeOK
  <2>2. clock' \in Nat
    BY <1>1, Ticks
  <2>3. totals.time <= clock'
    BY <1>1, <1>5, <2>1, <2>2
  <2> QED BY <1>1, <1>3, <1>7, <2>1, <2>3 DEF TimeOK
<1>15. SumsOK'
  <2>1. Tainted' = Tainted
    <3>1. keyword \notin failed
      <4>1. ~(keyword < keyword)
        BY <1>4
      <4> QED BY <4>1 DEF CollectInv, ToldOK
    <3> QED BY <1>1, <3>1 DEF Tainted
  <2>2. /\ Taken("pages") = agent.pages /\ Taken("calls") = agent.calls
        /\ Taken("time") = agent.time
        /\ Taken("pages")' = 0 /\ Taken("calls")' = 0 /\ Taken("time")' = 0
    BY <1>1 DEF Taken
  <2>3. /\ totals.calls >= AllCalls + agent.calls
                           + (IF Tainted THEN 1 ELSE 0)
        /\ failed = {} => /\ totals.pages = AllPages + agent.pages
                          /\ totals.calls = AllCalls + agent.calls
                          /\ totals.time = AllTime + agent.time
    BY <1>1, <2>2 DEF CollectInv, SumsOK
  <2>4. /\ totals'.calls >= AllCalls' + 0 + (IF Tainted THEN 1 ELSE 0)
        /\ failed = {} => /\ totals'.pages = AllPages' + 0
                          /\ totals'.calls = AllCalls' + 0
                          /\ totals'.time = AllTime' + 0
    BY <1>5, <1>7, <1>8, <2>3
  <2> QED BY <1>1, <2>1, <2>2, <2>4 DEF SumsOK
<1>16. CutOK'
  <2>1. \A c \in cut : c[1] <= keyword + 1 /\ c[1] < keyword + 1
    <3>1. \A c \in cut : c[1] \in Nat /\ c[1] <= keyword
      BY <1>4 DEF CollectInv, CutOK, CollectionTypeOK, Keyword
    <3> QED BY <1>4, <3>1
  <2>2. ASSUME NEW c \in cut, NEW e \in merged'.evidence,
               c = <<e.keyword, e.sighting.user>>,
               e.sighting.source # "direct_user"
        PROVE  merged'.reasons[e.sighting.user] # {}
    <3>1. e.sighting.user \in User
      BY <1>1 DEF Candidates, Evidence, Sighting
    <3>2. e \in merged.evidence
      BY <1>1, <2>2
    <3>3. merged.reasons[e.sighting.user] # {}
      BY <2>2, <3>2 DEF CollectInv, CutOK
    <3> QED BY <1>1, <3>1, <3>3
  <2> QED BY <1>1, <1>2, <2>1, <2>2 DEF CutOK
<1>17. ToldOK'
  <2>1. \A k \in failed : k < keyword + 1
    <3>1. \A k \in failed : k < keyword
      BY DEF CollectInv, ToldOK
    <3>2. failed \subseteq Nat
      BY <1>4 DEF CollectionTypeOK, Keyword
    <3> QED BY <1>4, <3>1, <3>2
  <2>2. \A k \in Keyword :
            k < keyword + 1 => metrics'[k].reported \/ k \in failed
    <3>1. \A k \in Keyword : k < keyword + 1 => k < keyword \/ k = keyword
      BY <1>4 DEF Keyword
    <3> QED BY <1>8, <3>1 DEF CollectInv, ToldOK
  <2> QED BY <1>1, <1>2, <2>1, <2>2 DEF ToldOK
<1>18. StoredOK'
  <2>1. stored'.evidence = {}
    BY <1>1 DEF CollectInv, StoredOK
  <2> QED BY <1>1, <2>1 DEF StoredOK, FailedLeavesNothing, CutIsMarked
<1> QED BY <1>1, <1>8, <1>10, <1>11, <1>12, <1>13, <1>14, <1>15, <1>16,
           <1>17, <1>18 DEF CollectInv


-----------------------------------------------------------------------------
(* The invariant                                                           *)

LEMMA FailingFails ==
    ASSUME CollectInv, KeywordFails \/ ResultTooLate
    PROVE  Fails
<1>1. /\ at \in {"opening", "browsing", "returned", "searching"}
      /\ at' = "loop" /\ keyword' = keyword + 1
      /\ failed' = failed \cup {keyword} /\ clock' \in Later
      /\ UNCHANGED <<tracker, budget, agent, stored, cut>> /\ Collected
  BY DEF KeywordFails, ResultTooLate
<1>2. TrackerOK(tracker) /\ AllNoted(merged.evidence, tracker)
  BY DEF CollectInv, FoundOK, AllNoted
<1> QED BY <1>1, <1>2 DEF Fails, Collected

LEMMA SearchFailing ==
    ASSUME CollectInv, NEW users \in Listing, SearchFails(users)
    PROVE  Fails
<1> DEFINE all == Searched(users)
<1>1. /\ at = "searching" /\ at' = "loop" /\ keyword' = keyword + 1
      /\ failed' = failed \cup {keyword} /\ clock' \in Later
      /\ tracker' = all.tracker
      /\ budget' = [budget EXCEPT !.pages = @ - 1]
      /\ totals' = WithSearch(totals)
      /\ UNCHANGED <<maxCalls, agent, metrics, merged, fruitless, stored,
                      cut>>
  BY DEF SearchFails
<1>2. /\ TrackerOK(tracker) /\ keyword \in Keyword
      /\ merged.evidence \in SUBSET Evidence
      /\ AllNoted(merged.evidence, tracker)
  BY <1>1 DEF CollectInv, CollectionTypeOK, FoundOK, AllNoted
<1>3. all \in SearchResult(merged.evidence)
  BY <1>2, SearchedOK
<1> HIDE DEF all
<1>4. /\ TrackerOK(all.tracker)
      /\ AllNoted(merged.evidence \cup all.found, all.tracker)
  BY <1>3 DEF SearchResult
<1>5. AllNoted(merged.evidence, all.tracker)
  BY <1>4 DEF AllNoted
<1> QED BY <1>1, <1>4, <1>5 DEF Fails, CountsPage

\* Nothing is reported in the beginning.
LEMMA NoSums ==
    ASSUME metrics = [k \in Keyword |-> NoMetric]
    PROVE  AllPages = 0 /\ AllCalls = 0 /\ AllTime = 0
<1>1. ASSUME NEW figure \in {"pages", "calls", "time"}
      PROVE  InAll(figure) = 0
  <2> DEFINE f == [k \in Keyword |-> metrics[k][figure]]
             P == [k \in Keyword |-> {}]
  <2>1. NoMetric[figure] = 0
    BY DEF NoMetric
  <2>2. f \in [Keyword -> Nat] /\ \A k \in Keyword : f[k] = 0
    BY <2>1
  <2>3. IsFiniteSet({}) /\ Cardinality({}) = 0
    BY FS_EmptySet
  <2>4. /\ \A k \in Keyword : P[k] \subseteq {} /\ f[k] <= Cardinality(P[k])
        /\ \A k, l \in Keyword : k # l => P[k] \cap P[l] = {}
    BY <2>2, <2>3
  <2>5. InAll(figure) = SumFunction(f)
    BY DEF InAll
  <2> HIDE DEF f, P
  <2>6. SumFunction(f) \in Nat /\ SumFunction(f) <= Cardinality({})
    BY <2>2, <2>3, <2>4, KeywordsFinite, SumOfParts
  <2> QED BY <2>3, <2>5, <2>6
<1> QED BY <1>1 DEF AllPages, AllCalls, AllTime

LEMMA CollectInit == Init => CollectInv
<1> SUFFICES ASSUME Init PROVE CollectInv
  OBVIOUS
<1>1. /\ at = "loop" /\ keyword = 1 /\ clock = 0 /\ tracker = NewTracker
      /\ maxCalls \in Calls
      /\ budget = [pages |-> MaxPages, calls |-> maxCalls]
      /\ agent = NewAgent
      /\ totals = [pages |-> 0, calls |-> 0, time |-> 0]
      /\ metrics = [k \in Keyword |-> NoMetric]
      /\ merged = [evidence |-> {}, reasons |-> NoReasons]
      /\ fruitless = {} /\ failed = {} /\ cut = {}
      /\ stored = [evidence |-> {}, status |-> [u \in User |-> "none"],
                   videos |-> [k \in Keyword |-> 0],
                   candidates |-> [k \in Keyword |-> 0]]
  BY DEF Init
<1>2. TrackerOK(tracker)
  BY <1>1, NewTrackerOK
<1>3. IsFiniteSet({}) /\ maxCalls \in Nat /\ 1 \in Keyword
  BY <1>1, FS_EmptySet, ConstantsTyped DEF Keyword
<1>4. agent \in Agent
  <2>1. NoReasons \in [User -> SUBSET Reasons]
    BY DEF NoReasons
  <2>2. 0 \in 0..MaxTime + 1
    BY Ticks
  <2> QED BY <1>1, <2>1, <2>2 DEF NewAgent, Agent
<1>5. NoMetric \in MetricType
  BY DEF NoMetric, MetricType
<1>6. CollectionTypeOK
  <2>1. 1 \in 1..NumKeywords + 1 /\ 0 \in 0..MaxTime + 1 /\ MaxPages \in Nat
    BY ConstantsTyped
  <2>2. /\ merged \in [evidence : SUBSET Evidence,
                       reasons : [User -> SUBSET Reasons]]
        /\ metrics \in [Keyword -> MetricType]
        /\ totals \in [pages : Nat, calls : Nat, time : Nat]
        /\ budget \in [pages : Nat, calls : Nat]
    BY <1>1, <1>3, <1>5, <2>1 DEF NoReasons
  <2>3. stored \in [evidence : SUBSET Stored,
                    status : [User -> {"none", "candidate",
                                       "needs_more_evidence"}],
                    videos : [Keyword -> Nat],
                    candidates : [Keyword -> Nat]]
    BY <1>1
  <2> QED BY <1>1, <1>2, <1>4, <2>1, <2>2, <2>3
          DEF CollectionTypeOK, TrackerOK
<1>7. FiniteOK
  BY <1>1, <1>3 DEF FiniteOK, NewAgent, NoMetric
<1>8. merged.evidence = {} /\ agent.found = {} /\ ~Browses
  BY <1>1 DEF NewAgent, Browses
<1>9. FoundOK
  BY <1>8 DEF FoundOK, Pending, AllNoted
<1>10. FiguresOK
  BY <1>1 DEF FiguresOK, NoMetric
<1>11. BudgetOK
  BY <1>1, <1>3, <1>8, ConstantsTyped DEF BudgetOK
<1>12. TimeOK
  BY <1>1, <1>8, ConstantsTyped DEF TimeOK
<1>13. SumsOK
  <2>1. AllPages = 0 /\ AllCalls = 0 /\ AllTime = 0
    BY <1>1, NoSums
  <2>2. ~Tainted
    BY <1>8 DEF Tainted
  <2>3. \A figure \in {"pages", "calls", "time"} : Taken(figure) = 0
    BY <1>1 DEF Taken
  <2> QED BY <1>1, <2>1, <2>2, <2>3 DEF SumsOK
<1>14. CutOK /\ StoredOK
  BY <1>1, <1>8 DEF CutOK, StoredOK, FailedLeavesNothing, CutIsMarked
<1>15. ToldOK
  <2>1. \A k \in Keyword : ~(k < keyword)
    BY <1>1, ConstantsTyped DEF Keyword
  <2> QED BY <1>1, <2>1 DEF ToldOK
<1> QED BY <1>2, <1>6, <1>7, <1>9, <1>10, <1>11, <1>12, <1>13, <1>14, <1>15
        DEF CollectInv

LEMMA CollectNext == CollectInv /\ [Next]_vars => CollectInv'
<1> SUFFICES ASSUME CollectInv, [Next]_vars PROVE CollectInv'
  OBVIOUS
<1>1. CASE AgentStep
  BY <1>1, AgentBrowses, BrowseKeeps
<1>2. CASE KeywordStep
  <2>1. CASE StartKeyword
    BY <2>1, StartKeywordKeeps
  <2>2. CASE StopKeywords
    BY <2>2, StopKeywordsKeeps
  <2>3. CASE KeywordFails \/ ResultTooLate
    BY <2>3, FailingFails, FailsKeeps
  <2>4. CASE TakeResult
    BY <2>4, TakeResultTakes, TakesKeeps
  <2>5. CASE \E users \in Listing : SearchUsers(users)
    BY <2>5, SearchUsersSearches, SearchesKeeps
  <2>6. CASE \E users \in Listing : SearchFails(users)
    BY <2>6, SearchFailing, FailsKeeps
  <2> QED BY <1>2, <2>1, <2>2, <2>3, <2>4, <2>5, <2>6 DEF KeywordStep
<1>3. CASE BatchStep \/ Cancelled
  BY <1>3, NothingStoredKeeps, StoreBatchKeeps, CloseBatchKeeps
  DEF BatchStep
<1>4. CASE UNCHANGED vars
  BY <1>4, StutterKeeps
<1> QED BY <1>1, <1>2, <1>3, <1>4 DEF Next

LEMMA CollectInvariance == Spec => []CollectInv
BY CollectInit, CollectNext, PTL DEF Spec

-----------------------------------------------------------------------------
(* What the stage promises                                                 *)

(* The state of the collect stage has its types: among others, the budget   *)
(* is never overdrawn, and the tracker never counts past the limit of all   *)
(* observations (_collect_acquisition, ExplorationBudgetTracker).           *)
THEOREM CollectionTypeCorrect == Spec => []CollectionTypeOK
<1>1. CollectInv => CollectionTypeOK
  BY DEF CollectInv
<1> QED BY <1>1, CollectInvariance, PTL

(* Nothing that a failed keyword found is stored                            *)
(* (_collect_acquisition, _run_acquisition_collect).                        *)
THEOREM FailuresAreNotStored == Spec => []FailedLeavesNothing
<1>1. CollectInv => FailedLeavesNothing
  BY DEF CollectInv, StoredOK
<1> QED BY <1>1, CollectInvariance, PTL

(* A user some of whose evidence the agent left out for a limit, and who    *)
(* has other evidence of the agent of the same keyword in the database, is  *)
(* stored as one to be looked at again (truncation_reasons_by_user).  Users *)
(* of whom the agent kept nothing for the keyword are not covered: another  *)
(* keyword or the plain search may store them as complete candidates.       *)
THEOREM CutUsersAreMarked == Spec => []CutIsMarked
<1>1. CollectInv => CutIsMarked
  BY DEF CollectInv, StoredOK
<1> QED BY <1>1, CollectInvariance, PTL

(* The part of what was found is no more than its whole.                    *)
LEMMA Fewer ==
    ASSUME NEW B, IsFiniteSet(B), NEW A \in SUBSET B, NEW n \in Nat,
           Cardinality(B) <= n
    PROVE  ~(Cardinality(A) > n)
<1>1. /\ IsFiniteSet(A) /\ Cardinality(A) <= Cardinality(B)
      /\ Cardinality(A) \in Nat /\ Cardinality(B) \in Nat
  BY FS_Subset, FS_CardinalityType
<1> QED BY <1>1

(* What the tracker counted bounds the batch.                               *)
LEMMA BatchWithin ==
    ASSUME CollectInv
    PROVE  /\ ~(Cardinality(UsersIn(merged.evidence)) > MaxProfiles)
           /\ ~(Cardinality(merged.evidence) > MaxObservations)
           /\ \A k \in Keyword :
                  LET found == OfKeyword(merged.evidence, k)
                  IN  /\ ~(Cardinality(VideosIn(found)) > MaxVideos)
                      /\ ~(Cardinality(UsersIn(found)) > MaxProfiles)
           /\ \A u \in User :
                  ~(Cardinality(AuthoredBy(u)) > MaxAuthorVideos)
<1>1. /\ IsFiniteSet(merged.evidence)
      /\ Cardinality(merged.evidence) <= MaxObservations
      /\ UsersIn(merged.evidence) \subseteq tracker.profiles
      /\ \A k \in Keyword : VideosIn(OfKeyword(merged.evidence, k))
                                \subseteq tracker.videos[k]
      /\ \A u \in User : AuthoredBy(u) \subseteq tracker.authored[u]
  BY FoundWithin
<1>2. /\ Cardinality(tracker.profiles) <= MaxProfiles
      /\ \A k \in Keyword : /\ IsFiniteSet(tracker.videos[k])
                            /\ Cardinality(tracker.videos[k]) <= MaxVideos
      /\ \A u \in User :
             /\ IsFiniteSet(tracker.authored[u])
             /\ Cardinality(tracker.authored[u]) <= MaxAuthorVideos
  BY DEF CollectInv, TrackerOK
<1>3. IsFiniteSet(tracker.profiles)
  <2>1. tracker.profiles \subseteq User
    BY DEF CollectInv, TrackerOK, Tracker
  <2> QED BY <2>1, ConstantsTyped, FS_Subset
<1>4. ~(Cardinality(UsersIn(merged.evidence)) > MaxProfiles)
  BY <1>1, <1>2, <1>3, ConstantsTyped, Fewer
<1>5. ~(Cardinality(merged.evidence) > MaxObservations)
  <2>1. merged.evidence \subseteq merged.evidence
    OBVIOUS
  <2> QED BY <1>1, <2>1, ConstantsTyped, Fewer
<1>6. ASSUME NEW k \in Keyword
      PROVE  LET found == OfKeyword(merged.evidence, k)
             IN  /\ ~(Cardinality(VideosIn(found)) > MaxVideos)
                 /\ ~(Cardinality(UsersIn(found)) > MaxProfiles)
  <2>1. ~(Cardinality(VideosIn(OfKeyword(merged.evidence, k))) > MaxVideos)
    BY <1>1, <1>2, ConstantsTyped, Fewer
  <2>2. UsersIn(OfKeyword(merged.evidence, k)) \subseteq tracker.profiles
    BY <1>1 DEF UsersIn, OfKeyword
  <2>3. ~(Cardinality(UsersIn(OfKeyword(merged.evidence, k))) > MaxProfiles)
    BY <1>2, <1>3, <2>2, ConstantsTyped, Fewer
  <2> QED BY <2>1, <2>3
<1>7. \A u \in User : ~(Cardinality(AuthoredBy(u)) > MaxAuthorVideos)
  BY <1>1, <1>2, ConstantsTyped, Fewer
<1> QED BY <1>4, <1>5, <1>6, <1>7

(* The keywords report no observation twice, and none that is not there.    *)
LEMMA ObservationsReported ==
    ASSUME CollectInv
    PROVE  ~(InAll("observations") > MaxObservations)
<1> DEFINE f == [k \in Keyword |-> metrics[k]["observations"]]
           P == [k \in Keyword |-> OfKeyword(merged.evidence, k)]
<1>1. metrics \in [Keyword -> MetricType]
  BY DEF CollectInv, CollectionTypeOK
<1>2. f \in [Keyword -> Nat]
  BY <1>1 DEF MetricType
<1>3. /\ IsFiniteSet(merged.evidence)
      /\ Cardinality(merged.evidence) <= MaxObservations
  BY FoundWithin
<1>4. ASSUME NEW k \in Keyword
      PROVE  P[k] \subseteq merged.evidence /\ f[k] <= Cardinality(P[k])
  <2>1. P[k] = OfKeyword(merged.evidence, k)
        /\ P[k] \subseteq merged.evidence
    BY DEF OfKeyword
  <2>2. Cardinality(P[k]) \in Nat
    BY <1>3, <2>1, FS_Subset, FS_CardinalityType
  <2>3. CASE metrics[k].reported
    <3>1. f[k] = Cardinality(P[k])
      BY <2>1, <2>3 DEF CollectInv, FiguresOK
    <3> QED BY <2>1, <2>2, <3>1
  <2>4. CASE ~metrics[k].reported
    <3>1. f[k] = 0
      BY <2>4 DEF CollectInv, FiguresOK, NoMetric
    <3> QED BY <2>1, <2>2, <3>1
  <2> QED BY <2>3, <2>4
<1>5. \A k, l \in Keyword : k # l => P[k] \cap P[l] = {}
  BY DEF OfKeyword
<1>6. InAll("observations") = SumFunction(f)
  BY DEF InAll
<1> HIDE DEF f, P
<1>7. /\ SumFunction(f) \in Nat
      /\ SumFunction(f) <= Cardinality(merged.evidence)
  BY <1>2, <1>3, <1>4, <1>5, KeywordsFinite, SumOfParts
<1>8. MaxObservations \in Nat /\ Cardinality(merged.evidence) \in Nat
  BY <1>3, ConstantsTyped, FS_CardinalityType
<1> QED BY <1>3, <1>6, <1>7, <1>8

(* What was used is within the budget, and adds up.                         *)
LEMMA BatchAddsUp ==
    ASSUME CollectInv, at = "batch", failed = {}
    PROVE  /\ ~(AllPages > MaxPages \/ totals.pages > MaxPages)
           /\ ~(AllCalls > maxCalls \/ totals.calls > maxCalls)
           /\ ~(AllTime > MaxTime \/ totals.time > MaxTime)
           /\ ~Inconsistent
<1>1. /\ budget.pages \in Nat /\ budget.calls \in Nat
      /\ totals.pages \in Nat /\ totals.calls \in Nat
      /\ totals.time \in Nat /\ MaxTime \in Nat /\ MaxPages \in Nat
      /\ maxCalls \in Nat
      /\ AllPages \in Nat /\ AllCalls \in Nat /\ AllTime \in Nat
  BY StateTyped, ConstantsTyped DEF CollectInv
<1>2. \A figure \in {"pages", "calls", "time"} : Taken(figure) = 0
  BY DEF Taken
<1>3. /\ totals.pages = AllPages + 0 /\ totals.calls = AllCalls + 0
      /\ totals.time = AllTime + 0
  BY <1>2 DEF CollectInv, SumsOK
<1>4. /\ totals.pages + budget.pages = MaxPages
      /\ totals.calls + budget.calls = maxCalls /\ totals.time <= MaxTime
  BY DEF CollectInv, BudgetOK, TimeOK
<1> QED BY <1>1, <1>3, <1>4 DEF Inconsistent

(* A batch of keywords none of which failed is complete, within the budget  *)
(* and adds up: at most the pages merely visited, the authors of a keyword  *)
(* together, and comments without a video can count for too much            *)
(* (_collect_acquisition, _validate_acquisition_batch).                     *)
THEOREM CollectedBatchIsAccepted == Spec => []OwnBatchIsAccepted
<1>1. CollectInv => OwnBatchIsAccepted
  <2> SUFFICES ASSUME CollectInv, at = "batch", failed = {}
               PROVE  Complaints \subseteq
                          {"explored", "all_authors", "comments"}
    BY DEF OwnBatchIsAccepted
  <2>1. DOMAIN Complaint =
            {"profiles", "observations", "videos", "comments",
             "author_videos", "missing", "explored", "candidates",
             "all_authors", "pages", "calls", "time", "reported", "totals"}
    BY DEF Complaint
  <2>2. /\ ~Complaint["profiles"] /\ ~Complaint["observations"]
        /\ ~Complaint["videos"] /\ ~Complaint["author_videos"]
    BY BatchWithin DEF Complaint
  <2>3. ~Complaint["missing"]
    BY DEF CollectInv, ToldOK, Complaint
  <2>4. ~Complaint["candidates"]
    <3>1. \A k \in Reported : k \in Keyword /\ metrics[k].reported
      BY DEF Reported, Unreported
    <3>2. \A k \in Reported : ~(metrics[k].candidates > MaxProfiles)
      BY <3>1, BatchWithin DEF CollectInv, FiguresOK
    <3> QED BY <3>2 DEF Complaint
  <2>5. /\ ~Complaint["pages"] /\ ~Complaint["calls"]
        /\ ~Complaint["time"] /\ ~Complaint["totals"]
    BY BatchAddsUp DEF Complaint
  <2>6. ~Complaint["reported"]
    BY ObservationsReported DEF Complaint
  <2> QED BY <2>1, <2>2, <2>3, <2>4, <2>5, <2>6, Zenon DEF Complaints
<1> QED BY <1>1, CollectInvariance, PTL
=============================================================================
