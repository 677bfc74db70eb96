---------------------------- MODULE LookupProofs ----------------------------
(***************************************************************************)
(* Proofs about what a lookup, a cone and a chat answer tell, for every    *)
(* number of objects, input list, budget and request, while the pipeline   *)
(* commits between the statements that read.  What is listed is within     *)
(* the caps and says when it was cut, totals and qualifying totals cover   *)
(* every object inside the radius, and a count has each object once.  In   *)
(* a chat an answer that was cut says so too, every identifier is answered *)
(* or is in the request the answer points to, and an entry lists objects   *)
(* of its own identifier only.                                             *)
(***************************************************************************)
EXTENDS ReadProofs

-----------------------------------------------------------------------------
\* How many a bounded list has: the ranks of a strict order on n elements are
\* the numbers below n, each once.
RankOf(R, S, x) == Cardinality(Preceding(R, S, x))

LEMMA RanksAreDistinct ==
    ASSUME NEW S, IsFiniteSet(S), NEW R, Orders(R, S)
    PROVE  /\ \A x \in S : RankOf(R, S, x) \in 0 .. Cardinality(S) - 1
           /\ \A x, y \in S : RankOf(R, S, x) = RankOf(R, S, y) => x = y
<1>1. Cardinality(S) \in Nat
    BY FS_CardinalityType
<1>2. ASSUME NEW x \in S
      PROVE  /\ IsFiniteSet(Preceding(R, S, x)) /\ RankOf(R, S, x) \in Nat
             /\ RankOf(R, S, x) < Cardinality(S)
    <2>1. Preceding(R, S, x) \in SUBSET (S \ {x})
        BY DEF Preceding, Orders
    <2>2. IsFiniteSet(S \ {x}) /\ Cardinality(S \ {x}) = Cardinality(S) - 1
        BY FS_RemoveElement
    <2>3. /\ IsFiniteSet(Preceding(R, S, x))
          /\ Cardinality(Preceding(R, S, x)) <= Cardinality(S \ {x})
        BY <2>1, <2>2, FS_Subset
    <2>4. Cardinality(Preceding(R, S, x)) \in Nat
        BY <2>3, FS_CardinalityType
    <2> QED BY <1>1, <2>2, <2>3, <2>4 DEF RankOf
<1>3. ASSUME NEW x \in S, NEW y \in S, <<x, y>> \in R
      PROVE  RankOf(R, S, x) < RankOf(R, S, y)
    <2>1. x # y /\ <<x, x>> \notin R
        BY <1>3 DEF Orders
    <2>2. Preceding(R, S, x) \in SUBSET (Preceding(R, S, y) \ {x})
        BY <1>3, <2>1 DEF Preceding, Orders
    <2>3. x \in Preceding(R, S, y)
        BY <1>3 DEF Preceding
    <2>4. /\ IsFiniteSet(Preceding(R, S, y) \ {x})
          /\ Cardinality(Preceding(R, S, y) \ {x}) = RankOf(R, S, y) - 1
        BY <1>2, <2>3, FS_RemoveElement DEF RankOf
    <2>5. RankOf(R, S, x) <= RankOf(R, S, y) - 1
        BY <2>2, <2>4, FS_Subset DEF RankOf
    <2> QED BY <1>2, <2>5
<1>4. ASSUME NEW x \in S, NEW y \in S, RankOf(R, S, x) = RankOf(R, S, y), x # y
      PROVE  FALSE
    <2>1. RankOf(R, S, x) \in Nat /\ RankOf(R, S, y) \in Nat
        BY <1>2
    <2>2. <<x, y>> \in R \/ <<y, x>> \in R
        BY <1>4 DEF Orders
    <2> QED BY <1>3, <1>4, <2>1, <2>2
<1> QED BY <1>1, <1>2, <1>4

LEMMA RanksAreAll ==
    ASSUME NEW S, IsFiniteSet(S), NEW R, Orders(R, S), NEW k \in 0 .. Cardinality(S) - 1
    PROVE  \E x \in S : RankOf(R, S, x) = k
<1>1. Cardinality(S) \in Nat
    BY FS_CardinalityType
<1>2. PICK g : g = [x \in S |-> RankOf(R, S, x)]
    OBVIOUS
<1>3. PICK N : N = 0 .. Cardinality(S) - 1
    OBVIOUS
<1>4. IsFiniteSet(N) /\ Cardinality(N) = Cardinality(S)
    BY <1>1, <1>3, FS_Interval
<1>5. g \in Injection(S, N)
    <2>1. g \in [S -> N]
        BY <1>2, <1>3, RanksAreDistinct
    <2>2. \A x, y \in S : g[x] = g[y] => x = y
        BY <1>2, RanksAreDistinct
    <2> QED BY <2>1, <2>2 DEF Injection, IsInjective
<1>6. g \in Surjection(S, N)
    BY <1>4, <1>5, FS_Injection
<1> QED BY <1>2, <1>3, <1>6 DEF Surjection

LEMMA LeadersCount ==
    ASSUME NEW S, IsFiniteSet(S), NEW R, Orders(R, S), NEW n \in Nat, NEW L,
           L \subseteq S, \A o \in S : o \in L <=> Cardinality(Preceding(R, S, o)) < n
    PROVE  /\ Cardinality(S) <= n => L = S
           /\ n <= Cardinality(S) => Cardinality(L) = n
<1>1. Cardinality(S) \in Nat /\ IsFiniteSet(L)
    BY FS_CardinalityType, FS_Subset
<1>2. \A o \in S : o \in L <=> RankOf(R, S, o) < n
    BY DEF RankOf
<1>3. ASSUME Cardinality(S) <= n PROVE L = S
    <2>1. \A o \in S : RankOf(R, S, o) < n
        BY <1>1, <1>3, RanksAreDistinct
    <2> QED BY <1>2, <2>1
<1>4. ASSUME n <= Cardinality(S) PROVE Cardinality(L) = n
    <2>1. PICK g : g = [x \in L |-> RankOf(R, S, x)]
        OBVIOUS
    <2>2. PICK N : N = 0 .. n - 1
        OBVIOUS
    <2>3. \A x \in L : g[x] \in N
        BY <1>2, <2>1, <2>2, RanksAreDistinct
    <2>4. \A x, y \in L : g[x] = g[y] => x = y
        BY <2>1, RanksAreDistinct
    <2>5. ASSUME NEW k \in N PROVE \E x \in L : g[x] = k
        <3>1. k \in 0 .. Cardinality(S) - 1
            BY <1>1, <1>4, <2>2
        <3>2. PICK x \in S : RankOf(R, S, x) = k
            BY <3>1, RanksAreAll
        <3>3. k < n
            BY <2>2
        <3> QED BY <1>2, <2>1, <3>2, <3>3
    <2>6. Cardinality(N) = Cardinality(L)
        BY <1>1, <2>3, <2>4, <2>5, OneToOne
    <2>7. Cardinality(N) = n
        <3>1. Cardinality(0 .. n - 1) = IF 0 > n - 1 THEN 0 ELSE n - 1 - 0 + 1
            BY FS_Interval
        <3> QED BY <2>2, <3>1
    <2> QED BY <2>6, <2>7
<1> QED BY <1>3, <1>4

\* The first n in ingest order.
LEMMA LeadingCounts ==
    ASSUME StoreTyped, NEW S, S \subseteq Objects, NEW n \in Nat
    PROVE  /\ IsFiniteSet(S) /\ Leading(S, n, Sooner) \subseteq S
           /\ Cardinality(S) <= n => Leading(S, n, Sooner) = S
           /\ n <= Cardinality(S) => Cardinality(Leading(S, n, Sooner)) = n
<1>1. PICK R : R = {p \in S \X S : Sooner(p[1], p[2])}
    OBVIOUS
<1>2. IsFiniteSet(S) /\ Orders(R, S)
    BY <1>1, IngestOrders, ConstantsTyped, FS_Subset
<1>3. \A x, y \in S : <<x, y>> \in R <=> Sooner(x, y)
    BY <1>1
<1>4. \A o \in S : {p \in S : Sooner(p, o)} = Preceding(R, S, o)
    BY <1>3 DEF Preceding
<1>5. PICK L : L = Leading(S, n, Sooner)
    OBVIOUS
<1>6. L \subseteq S /\ \A o \in S : o \in L <=> Cardinality(Preceding(R, S, o)) < n
    BY <1>4, <1>5 DEF Leading
<1>7. (Cardinality(S) <= n => L = S) /\ (n <= Cardinality(S) => Cardinality(L) = n)
    BY <1>2, <1>6, LeadersCount
<1> QED BY <1>2, <1>5, <1>6, <1>7

-----------------------------------------------------------------------------
\* The budget of a lookup: what all its cones list fits, because each lists no
\* more than what the shares of those before it leave.
Listings(S, A) == {p \in S \X Objects : p[2] \in A[p[1]]}

LEMMA ListingsOfOne ==
    ASSUME NEW S, IsFiniteSet(S), NEW A, NEW i \in S, A[i] \subseteq Objects
    PROVE  /\ IsFiniteSet(Listings(S, A)) /\ IsFiniteSet(A[i])
           /\ Cardinality({p \in Listings(S, A) : p[1] = i}) = Cardinality(A[i])
<1>1. IsFiniteSet(S \X Objects)
    BY ConstantsTyped, FS_Product
<1>2. IsFiniteSet(Listings(S, A))
    <2>1. Listings(S, A) \in SUBSET (S \X Objects)
        BY DEF Listings
    <2> QED BY <1>1, <2>1, FS_Subset
<1>3. PICK F : F = {p \in Listings(S, A) : p[1] = i}
    OBVIOUS
<1>4. IsFiniteSet(A[i])
    BY ConstantsTyped, FS_Subset
<1>5. PICK g : g = [o \in A[i] |-> <<i, o>>]
    OBVIOUS
<1>6. Cardinality(F) = Cardinality(A[i])
    <2>1. \A o \in A[i] : g[o] \in F
        BY <1>3, <1>5 DEF Listings
    <2>2. \A x, y \in A[i] : g[x] = g[y] => x = y
        <3> SUFFICES ASSUME NEW x \in A[i], NEW y \in A[i], g[x] = g[y] PROVE x = y
            OBVIOUS
        <3>1. <<i, x>> = <<i, y>>
            BY <1>5
        <3> QED BY <3>1
    <2>3. ASSUME NEW p \in F PROVE \E o \in A[i] : g[o] = p
        <3>1. p \in S \X Objects /\ p[2] \in A[p[1]] /\ p[1] = i
            BY <1>3 DEF Listings
        <3>2. p = <<i, p[2]>> /\ p[2] \in A[i]
            BY <3>1
        <3>3. g[p[2]] = p
            BY <1>5, <3>2
        <3> QED BY <3>2, <3>3
    <2> QED BY <1>4, <2>1, <2>2, <2>3, OneToOne
<1> QED BY <1>2, <1>3, <1>4, <1>6

LEMMA SumOfSizes ==
    ASSUME NEW S, IsFiniteSet(S), NEW A, \A i \in S : A[i] \subseteq Objects,
           NEW f, \A i \in S : TermOf(f, i) = Cardinality(A[i])
    PROVE  /\ IsFiniteSet(Listings(S, A)) /\ SumOf(f, S) = Cardinality(Listings(S, A))
           /\ Cardinality(Listings(S, A)) \in Nat
<1>1. PICK K : K = Listings(S, A)
    OBVIOUS
<1>2. IsFiniteSet(K)
    <2>1. IsFiniteSet(S \X Objects)
        BY ConstantsTyped, FS_Product
    <2>2. K \in SUBSET (S \X Objects)
        BY <1>1 DEF Listings
    <2> QED BY <2>1, <2>2, FS_Subset
<1>3. PICK h : h = [p \in K |-> p[1]]
    OBVIOUS
<1>4. \A p \in K : h[p] \in S
    BY <1>1, <1>3 DEF Listings
<1>5. ASSUME NEW i \in S PROVE TermOf(f, i) = Cardinality({p \in K : h[p] = i})
    <2>1. {p \in K : h[p] = i} = {p \in K : p[1] = i}
        BY <1>3
    <2>2. Cardinality({p \in K : p[1] = i}) = Cardinality(A[i])
        BY <1>1, ListingsOfOne
    <2> QED BY <2>1, <2>2
<1>6. SumOf(f, S) = Cardinality(K)
    BY <1>2, <1>4, <1>5, SumCountsAll
<1>7. Cardinality(K) \in Nat
    BY <1>2, FS_CardinalityType
<1> QED BY <1>1, <1>2, <1>6, <1>7

LEMMA LastOfNumbers ==
    ASSUME NEW S, S \subseteq Nat, IsFiniteSet(S), S # {}
    PROVE  \E m \in S : \A i \in S : i <= m
<1>1. PICK R : R = {p \in S \X S : p[1] < p[2]}
    OBVIOUS
<1>2. \A x, y \in S : <<x, y>> \in R <=> x < y
    BY <1>1
<1>3. Orders(R, S)
    BY <1>2 DEF Orders
<1>4. PICK m \in S : \A i \in S \ {m} : <<i, m>> \in R
    BY <1>3, OrderEnds
<1>5. \A i \in S \ {m} : i < m
    BY <1>2, <1>4
<1>6. \A i \in S : i \in Nat
    OBVIOUS
<1> QED BY <1>5, <1>6

EarlierThan(S, i) == {j \in S : j < i}

LEMMA BudgetIsKept ==
    ASSUME NEW S, S \subseteq Nat, IsFiniteSet(S), NEW budget \in Nat, NEW A, NEW B,
           \A i \in S : A[i] \subseteq Objects /\ B[i] \subseteq Objects /\ A[i] \subseteq B[i],
           NEW spent, \A i \in S : spent[i] = Cardinality(Listings(EarlierThan(S, i), B)),
           \A i \in S : Cardinality(A[i]) <= IF spent[i] > budget THEN 0 ELSE budget - spent[i]
    PROVE  Cardinality(Listings(S, A)) <= budget
<1>1. PICK T : T = {i \in S : A[i] # {}}
    OBVIOUS
<1>2. CASE T = {}
    <2>1. Listings(S, A) = {}
        BY <1>1, <1>2 DEF Listings
    <2> QED BY <2>1, FS_EmptySet
<1>3. CASE T # {}
    <2>1. T \in SUBSET S
        BY <1>1
    <2>2. PICK m \in T : \A i \in T : i <= m
        BY <1>3, <2>1, FS_Subset, LastOfNumbers
    <2>3. m \in S /\ A[m] # {} /\ A[m] \subseteq Objects
        BY <1>1
    <2>4. PICK E : E = EarlierThan(S, m)
        OBVIOUS
    <2>5. IsFiniteSet(E) /\ E \subseteq S
        <3>1. E \in SUBSET S
            BY <2>4 DEF EarlierThan
        <3> QED BY <3>1, FS_Subset
    <2>6. PICK F, G : F = Listings(E, B) /\ G = {p \in Listings(S, A) : p[1] = m}
        OBVIOUS
    <2>7. IsFiniteSet(E \X Objects) /\ F \in SUBSET (E \X Objects)
        BY <2>5, <2>6, ConstantsTyped, FS_Product DEF Listings
    <2>8. IsFiniteSet(F) /\ Cardinality(F) \in Nat /\ Cardinality(F) = spent[m]
        BY <2>3, <2>4, <2>6, <2>7, FS_Subset, FS_CardinalityType
    <2>9. IsFiniteSet(Listings(S, A)) /\ IsFiniteSet(A[m]) /\ Cardinality(G) = Cardinality(A[m])
        BY <2>3, <2>6, ListingsOfOne
    <2>10. IsFiniteSet(G) /\ Cardinality(G) \in Nat /\ Cardinality(G) # 0
        <3>1. G \in SUBSET Listings(S, A)
            BY <2>6
        <3>2. IsFiniteSet(G) /\ Cardinality(G) \in Nat
            BY <2>9, <3>1, FS_Subset, FS_CardinalityType
        <3>3. Cardinality(A[m]) # 0
            BY <2>3, <2>9, FS_EmptySet
        <3> QED BY <2>9, <3>2, <3>3
    <2>11. Listings(S, A) \subseteq F \cup G
        <3> SUFFICES ASSUME NEW p \in Listings(S, A), p \notin G PROVE p \in F
            OBVIOUS
        <3>1. p \in S \X Objects /\ p[2] \in A[p[1]] /\ p[1] # m
            BY <2>6 DEF Listings
        <3>2. p[1] \in S /\ p[2] \in Objects /\ p = <<p[1], p[2]>>
            BY <3>1
        <3>3. p[1] \in T
            BY <1>1, <3>1, <3>2
        <3>4. p[1] < m
            <4>1. p[1] <= m
                BY <2>2, <3>3
            <4>2. p[1] \in Nat /\ m \in Nat
                BY <2>3, <3>2
            <4> QED BY <3>1, <4>1, <4>2
        <3>5. p[1] \in E /\ p[2] \in B[p[1]]
            BY <2>4, <3>1, <3>2, <3>4 DEF EarlierThan
        <3>6. p \in E \X Objects
            BY <3>2, <3>5
        <3> QED BY <2>6, <3>5, <3>6 DEF Listings
    <2>12. /\ IsFiniteSet(F \cup G)
           /\ Cardinality(F \cup G) = Cardinality(F) + Cardinality(G) - Cardinality(F \cap G)
        BY <2>8, <2>10, FS_Union
    <2>13. Cardinality(F \cap G) \in Nat
        BY <2>8, FS_Intersection, FS_CardinalityType
    <2>14. Cardinality(Listings(S, A)) <= Cardinality(F \cup G) /\ Cardinality(Listings(S, A)) \in Nat
        BY <2>9, <2>11, <2>12, FS_Subset, FS_CardinalityType
    <2>15. PICK l, u, f, g, x : /\ l = Cardinality(Listings(S, A)) /\ u = Cardinality(F \cup G)
                               /\ f = Cardinality(F) /\ g = Cardinality(G)
                               /\ x = Cardinality(F \cap G)
        OBVIOUS
    <2>16. g <= IF f > budget THEN 0 ELSE budget - f
        BY <2>3, <2>8, <2>9, <2>15
    <2>17. /\ l \in Nat /\ f \in Nat /\ g \in Nat /\ g # 0 /\ x \in Nat
           /\ u = f + g - x /\ l <= u
        BY <2>8, <2>10, <2>12, <2>13, <2>14, <2>15
    <2>18. l <= budget
        BY <2>16, <2>17
    <2> QED BY <2>15, <2>18
<1> QED BY <1>2, <1>3

LEMMA LargerOfTwo ==
    ASSUME NEW a \in Int, NEW b \in Int
    PROVE  Max({a, b}) = IF a >= b THEN a ELSE b
<1>1. PICK m : m = IF a >= b THEN a ELSE b
    OBVIOUS
<1>2. m \in {a, b} /\ \A y \in {a, b} : m >= y
    BY <1>1
<1>3. \A x \in {a, b} : (\A y \in {a, b} : x >= y) => x = m
    BY <1>1
<1> QED BY <1>1, <1>2, <1>3 DEF Max

-----------------------------------------------------------------------------
\* A count: every distinct object is counted once, as one of its results has it.
LEMMA StatusesAreFinite == IsFiniteSet(ObjectStatuses) /\ IsFiniteSet(ObjectReasons)
<1>1. \A a, b, c, d, e : IsFiniteSet({a, b, c, d, e})
    <2> SUFFICES ASSUME NEW a, NEW b, NEW c, NEW d, NEW e PROVE IsFiniteSet({a, b, c, d, e})
        OBVIOUS
    <2>1. IsFiniteSet({a})
        BY FS_Singleton
    <2>2. IsFiniteSet({a} \cup {b})
        BY <2>1, FS_AddElement
    <2>3. IsFiniteSet(({a} \cup {b}) \cup {c})
        BY <2>2, FS_AddElement
    <2>4. IsFiniteSet((({a} \cup {b}) \cup {c}) \cup {d})
        BY <2>3, FS_AddElement
    <2>5. IsFiniteSet(((({a} \cup {b}) \cup {c}) \cup {d}) \cup {e})
        BY <2>4, FS_AddElement
    <2>6. ((({a} \cup {b}) \cup {c}) \cup {d}) \cup {e} = {a, b, c, d, e}
        OBVIOUS
    <2> QED BY <2>5, <2>6
<1>2. \A a, b, c, d, e, f, g : IsFiniteSet({a, b, c, d, e, f, g})
    <2> SUFFICES ASSUME NEW a, NEW b, NEW c, NEW d, NEW e, NEW f, NEW g
                 PROVE  IsFiniteSet({a, b, c, d, e, f, g})
        OBVIOUS
    <2>1. IsFiniteSet({a, b, c, d, e})
        BY <1>1
    <2>2. IsFiniteSet({a, b, c, d, e} \cup {f})
        BY <2>1, FS_AddElement
    <2>3. IsFiniteSet(({a, b, c, d, e} \cup {f}) \cup {g})
        BY <2>2, FS_AddElement
    <2>4. ({a, b, c, d, e} \cup {f}) \cup {g} = {a, b, c, d, e, f, g}
        OBVIOUS
    <2> QED BY <2>3, <2>4
<1> QED BY <1>1, <1>2 DEF ObjectStatuses, ObjectReasons

EntriesKnown(q) ==
    \A i \in DOMAIN q.results : \A o \in DOMAIN q.results[i].entries :
        o \in Objects /\ q.results[i].entries[o].status \in ObjectStatuses

MarksKnown(q) ==
    \A i \in DOMAIN q.results : \A o \in DOMAIN q.results[i].entries :
        /\ q.results[i].marks[o].reason \in ObjectReasons
        /\ q.results[i].marks[o].yes <=> q.results[i].marks[o].reason = "meets_filters"

CountedObjects(q) == UNION {DOMAIN q.results[i].entries : i \in DOMAIN q.results}

LEMMA FirstOfNumbers ==
    ASSUME NEW S, S \subseteq Nat, IsFiniteSet(S), S # {}
    PROVE  Min(S) \in S
<1>1. PICK R : R = {p \in S \X S : p[1] < p[2]}
    OBVIOUS
<1>2. \A x, y \in S : <<x, y>> \in R <=> x < y
    BY <1>1
<1>3. Orders(R, S)
    BY <1>2 DEF Orders
<1>4. PICK m \in S : \A y \in S \ {m} : <<m, y>> \in R
    BY <1>3, OrderBegins
<1>5. \A y \in S \ {m} : m < y
    BY <1>2, <1>4
<1>6. \A y \in S : y \in Nat
    OBVIOUS
<1>7. \A y \in S : m <= y
    BY <1>5, <1>6
<1> QED BY <1>7 DEF Min

LEMMA CountedIs ==
    ASSUME NEW q, DOMAIN q.results \subseteq Nat, IsFiniteSet(DOMAIN q.results),
           NEW o \in CountedObjects(q)
    PROVE  \E i \in DOMAIN q.results :
              /\ o \in DOMAIN q.results[i].entries
              /\ CountedEntry(q, o).status = q.results[i].entries[o].status
              /\ CountedEntry(q, o).mark = IF q.spec.on THEN q.results[i].marks[o]
                                           ELSE [yes |-> FALSE, reason |-> "none"]
<1>1. PICK J : J = {j \in DOMAIN q.results : o \in DOMAIN q.results[j].entries}
    OBVIOUS
<1>2. J # {} /\ J \subseteq Nat /\ IsFiniteSet(J)
    <2>1. J \in SUBSET DOMAIN q.results
        BY <1>1
    <2> QED BY <1>1, <2>1, FS_Subset DEF CountedObjects
<1>3. PICK i : i = Min(J)
    OBVIOUS
<1>4. i \in J
    BY <1>2, <1>3, FirstOfNumbers
<1>5. CountedEntry(q, o) = [status |-> q.results[i].entries[o].status,
                            mark |-> IF q.spec.on THEN q.results[i].marks[o]
                                     ELSE [yes |-> FALSE, reason |-> "none"]]
    BY <1>1, <1>3 DEF CountedEntry
<1> QED BY <1>1, <1>4, <1>5

BodyOf(q, K) ==
    [total |-> Cardinality(K),
     byStatus |-> [s \in ObjectStatuses |-> Cardinality({o \in K : CountedEntry(q, o).status = s})],
     byReason |-> [r \in ObjectReasons |->
                      Cardinality({o \in K : CountedEntry(q, o).mark.reason = r})],
     qualifying |-> Cardinality({o \in K : CountedEntry(q, o).mark.yes})]

LEMMA CountIs ==
    ASSUME NEW q PROVE CountBody(q) = BodyOf(q, CountedObjects(q))
BY DEF CountBody, BodyOf, CountedObjects

LEMMA BodyAddsUp ==
    ASSUME NEW q, DOMAIN q.results \subseteq Nat, IsFiniteSet(DOMAIN q.results),
           EntriesKnown(q), q.spec.on => MarksKnown(q),
           NEW body, body = CountBody(q)
    PROVE  /\ SumOf(body.byStatus, DOMAIN body.byStatus) = body.total
           /\ q.spec.on => /\ SumOf(body.byReason, DOMAIN body.byReason) = body.total
                           /\ body.qualifying = body.byReason["meets_filters"]
<1>1. PICK K : K = CountedObjects(q)
    OBVIOUS
<1>2. K \subseteq Objects /\ IsFiniteSet(K)
    <2>1. K \in SUBSET Objects
        BY <1>1 DEF CountedObjects, EntriesKnown
    <2> QED BY <2>1, ConstantsTyped, FS_Subset
<1>3. PICK S, R : /\ S = [s \in ObjectStatuses |->
                             Cardinality({o \in K : CountedEntry(q, o).status = s})]
                  /\ R = [r \in ObjectReasons |->
                             Cardinality({o \in K : CountedEntry(q, o).mark.reason = r})]
    OBVIOUS
<1>4. PICK n : n = Cardinality({o \in K : CountedEntry(q, o).mark.yes})
    OBVIOUS
<1>5. body.byStatus = S /\ body.byReason = R /\ body.total = Cardinality(K) /\ body.qualifying = n
    BY <1>1, <1>3, <1>4, CountIs DEF BodyOf
<1>6. DOMAIN S = ObjectStatuses /\ DOMAIN R = ObjectReasons
    BY <1>3
<1>7. SumOf(S, ObjectStatuses) = Cardinality(K)
    <2>1. PICK h : h = [o \in K |-> CountedEntry(q, o).status]
        OBVIOUS
    <2>2. ASSUME NEW o \in K PROVE h[o] \in ObjectStatuses
        <3>1. \E i \in DOMAIN q.results :
                 /\ o \in DOMAIN q.results[i].entries
                 /\ CountedEntry(q, o).status = q.results[i].entries[o].status
            BY <1>1, CountedIs
        <3> QED BY <2>1, <3>1 DEF EntriesKnown
    <2>3. ASSUME NEW s \in ObjectStatuses PROVE TermOf(S, s) = Cardinality({o \in K : h[o] = s})
        <3>1. {o \in K : h[o] = s} = {o \in K : CountedEntry(q, o).status = s}
            BY <2>1
        <3> QED BY <1>3, <1>6, <3>1 DEF TermOf
    <2> QED BY <1>2, <2>2, <2>3, StatusesAreFinite, SumCountsAll
<1>8. ASSUME q.spec.on
      PROVE  SumOf(R, ObjectReasons) = Cardinality(K) /\ n = R["meets_filters"]
    <2>1. PICK h : h = [o \in K |-> CountedEntry(q, o).mark.reason]
        OBVIOUS
    <2>2. ASSUME NEW o \in K
          PROVE  /\ h[o] \in ObjectReasons
                 /\ CountedEntry(q, o).mark.yes <=> h[o] = "meets_filters"
        <3>1. \E i \in DOMAIN q.results :
                 /\ o \in DOMAIN q.results[i].entries
                 /\ CountedEntry(q, o).mark = q.results[i].marks[o]
            BY <1>1, <1>8, CountedIs
        <3> QED BY <1>8, <2>1, <3>1 DEF MarksKnown
    <2>3. ASSUME NEW r \in ObjectReasons PROVE TermOf(R, r) = Cardinality({o \in K : h[o] = r})
        <3>1. {o \in K : h[o] = r} = {o \in K : CountedEntry(q, o).mark.reason = r}
            BY <2>1
        <3> QED BY <1>3, <1>6, <3>1 DEF TermOf
    <2>4. SumOf(R, ObjectReasons) = Cardinality(K)
        BY <1>2, <2>2, <2>3, StatusesAreFinite, SumCountsAll
    <2>5. {o \in K : CountedEntry(q, o).mark.yes}
              = {o \in K : CountedEntry(q, o).mark.reason = "meets_filters"}
        BY <2>1, <2>2
    <2>6. "meets_filters" \in ObjectReasons
        BY DEF ObjectReasons
    <2> QED BY <1>3, <1>4, <2>4, <2>5, <2>6
<1> QED BY <1>5, <1>6, <1>7, <1>8

-----------------------------------------------------------------------------
\* The numbers of an answer.  A request counts at several moments; what it counted
\* is compared with what is there now only when nothing was committed since it began.
Live == Running \/ Answered

Quiet == writes = req.since

SinceInv == writes \in Nat /\ req.since \in 0 .. writes

\* Nothing a request can see has changed.
Rests == \A o \in Objects : /\ Committed(o)' <=> Committed(o)
                            /\ Committed(o) => rows'[o] = rows[o]

LEMMA CommitsAreCounted ==
    ASSUME StoreTyped, StoreStep PROVE writes' = writes + 1 \/ (writes' = writes /\ Rests)
<1>1. CASE Tick
    BY <1>1 DEF Tick, Rests, Committed
<1>2. ASSUME NEW o \in Objects, Stamp(o) PROVE writes' = writes /\ Rests
    <2>1. rows[o] \in Rows
        BY DEF StoreTyped
    <2> DEFINE row == [[rows[o] EXCEPT !.status = "stamped"] EXCEPT !.ingest = clock]
    <2>2. rows' = [rows EXCEPT ![o] = row] /\ row.status = "stamped" /\ ~ Committed(o)
        BY <1>2, <2>1 DEF Stamp, Committed, Rows
    <2> HIDE DEF row
    <2>3. rows'[o].status = "stamped" /\ \A x \in Objects \ {o} : rows'[x] = rows[x]
        BY <2>2 DEF StoreTyped
    <2>4. writes' = writes
        BY <1>2 DEF Stamp
    <2> QED BY <2>2, <2>3, <2>4 DEF Rests, Committed
<1>3. ASSUME NEW o \in Objects, NEW row, Commit(o, row) PROVE writes' = writes + 1
    BY <1>3 DEF Commit
<1> QED BY <1>1, <1>2, <1>3
        DEF StoreStep, CommitIngest, RecordDelivery, Queue, SaveTns, SaveMatch, Finish, Notify,
            Revert

LEMMA InsideRests ==
    ASSUME Rests, NEW c, NEW pin PROVE Inside(c, pin)' = Inside(c, pin)
BY DEF Rests, Inside

\* Those of S that qualify, by the rows as they are.
Qualified(S, spec) == {o \in S : Qualifies(o, rows[o], spec)}

LEMMA QualifiedRests ==
    ASSUME Rests, NEW S, S \subseteq Objects, \A o \in S : Committed(o), NEW spec
    PROVE  Qualified(S, spec)' = Qualified(S, spec)
BY DEF Rests, Qualified, Qualifies, MatchOk, ObjectOk

\* What is asked for, and what is counted of it.
SameRequest(q, p) ==
    /\ q.route = p.route /\ q.spec = p.spec /\ q.count = p.count /\ q.since = p.since
    /\ q.inputs = p.inputs /\ q.budget = p.budget /\ q.cone.centre = p.cone.centre
    /\ q.cone.asOf = p.cone.asOf /\ q.cone.after = p.cone.after

SameNumbers(q, p) == SameRequest(q, p) /\ q.candidates = p.candidates /\ q.cut = p.cut

\* A step that counts nothing.
NumbersStay ==
    /\ SameNumbers(req', req) /\ req'.results = req.results
    /\ req'.pc = req.pc \/ (Building /\ Building')
    /\ writes' = writes + 1 \/ (writes' = writes /\ Rests)

LEMMA CommitsCountNothing ==
    ASSUME TruthInv, StoreStepSeen
    PROVE  NumbersStay /\ req'.pc = req.pc /\ req'.asked = req.asked /\ req'.built = req.built
<1>1. StoreTyped /\ StoreStep /\ IsRequest(req)
    BY DEF TruthInv, Shape, StoreStepSeen
<1>2. \E told : req' = req \/ req' = [req EXCEPT !.told = told]
    BY DEF StoreStepSeen
<1> QED BY <1>1, <1>2, CommitsAreCounted
        DEF IsRequest, RequestFields, NumbersStay, SameNumbers, SameRequest

LEMMA RestIsQuiet == ASSUME UNCHANGED rows PROVE Rests
BY DEF Rests, Committed

LEMMA BuildingCountsNothing ==
    ASSUME TruthInv, BuildStep
    PROVE  /\ NumbersStay /\ UNCHANGED storeVars /\ req'.asked = req.asked
           /\ req'.pc # "built" \/ BuildObjects
<1>1. Building /\ Building' /\ UNCHANGED storeVars
    BY BuildSteps
<1>2. SameNumbers(req', req) /\ req'.results = req.results /\ req'.asked = req.asked
    BY BuildSteps DEF RequestFields, SameNumbers, SameRequest
<1>3. Rests /\ writes' = writes
    BY <1>1, RestIsQuiet DEF storeVars
<1> QED BY <1>1, <1>2, <1>3, BuildSteps DEF NumbersStay, Building, Gathering

LEMMA OthersCountNothing ==
    ASSUME UNCHANGED <<storeVars, req>>
    PROVE  NumbersStay /\ req'.pc = req.pc /\ req'.asked = req.asked /\ req'.built = req.built
<1>1. Rests /\ writes' = writes
    BY RestIsQuiet DEF storeVars
<1> QED BY <1>1 DEF NumbersStay, SameNumbers, SameRequest

\* Enter says which statements come next and what they ask for, nothing else.
LEMMA EnterCountsNothing ==
    ASSUME NEW q, IsRequest(q), NEW e, e = Enter(q)
    PROVE  /\ IsRequest(e) /\ SameNumbers(e, q) /\ e.results = q.results
           /\ e.pc \in {"filter", "answered", "alerts", "names", "search"}
           /\ e.pc = "answered" => ~q.spec.on
<1>1. \/ \E pc \in {"filter", "answered", "names", "search"} :
            e = [q EXCEPT !.pc = pc] /\ (pc = "answered" => ~q.spec.on)
      \/ \E asked : e = [q EXCEPT !.pc = "alerts", !.asked = asked]
    BY DEF Enter
<1>2. ASSUME NEW pc \in {"filter", "answered", "names", "search"}, e = [q EXCEPT !.pc = pc]
      PROVE  IsRequest(e) /\ SameNumbers(e, q) /\ e.results = q.results /\ e.pc = pc
    BY <1>2 DEF IsRequest, RequestFields, SameNumbers, SameRequest
<1>3. ASSUME NEW asked, e = [q EXCEPT !.pc = "alerts", !.asked = asked]
      PROVE  IsRequest(e) /\ SameNumbers(e, q) /\ e.results = q.results /\ e.pc = "alerts"
    BY <1>3 DEF IsRequest, RequestFields, SameNumbers, SameRequest
<1> QED BY <1>1, <1>2, <1>3

\* A request that starts has counted nothing yet.
LEMMA RequestsCountNothing ==
    ASSUME NEW q
    PROVE  LET s == Started(q)
           IN  /\ s.since = writes /\ s.budget = 0 /\ s.cut = FALSE
               /\ s.spec = q.spec /\ s.count = q.count /\ s.route = q.route
               /\ s.candidates = <<>>
<1> DEFINE base == [FreshRequest EXCEPT
                      !.pc = q.pc, !.route = q.route, !.detail = q.detail, !.spec = q.spec,
                      !.count = q.count, !.migrated = q.migrated, !.since = writes]
           told == [o \in Objects |-> {AnswerNow(o, rows[o], base)}]
           s == [base EXCEPT !.told = told]
<1>1. /\ IsRequest(base) /\ base.since = writes /\ base.budget = 0 /\ base.cut = FALSE
      /\ base.spec = q.spec /\ base.count = q.count /\ base.route = q.route
      /\ base.candidates = <<>>
  <2>1. DOMAIN FreshRequest = RequestFields /\ IsRequest(FreshRequest)
    BY DEF FreshRequest, IsRequest, RequestFields
  <2>2. FreshRequest.budget = 0 /\ FreshRequest.cut = FALSE /\ FreshRequest.candidates = <<>>
    BY DEF FreshRequest
  <2> HIDE DEF base
  <2>3. DOMAIN base = RequestFields /\ IsRequest(base)
    BY <2>1 DEF base, IsRequest, RequestFields
  <2> QED BY <2>1, <2>2, <2>3 DEF base, RequestFields
<1>2. Started(q) = s
    BY DEF Started
<1> HIDE DEF base, told
<1>3. /\ s.since = base.since /\ s.budget = base.budget /\ s.cut = base.cut
      /\ s.spec = base.spec /\ s.count = base.count /\ s.route = base.route
      /\ s.candidates = base.candidates
    BY <1>1 DEF IsRequest, RequestFields
<1> HIDE DEF s
<1> QED BY <1>1, <1>2, <1>3

-----------------------------------------------------------------------------
\* What each step leaves of the numbers, and what it makes of the results.
Free(q) == LET free == MaxListed - Cardinality(IdInputs(q)) IN IF free < 0 THEN 0 ELSE free

\* A lookup that has counted nothing.
Uncounted(q) ==
    /\ q.since = writes /\ q.cut = FALSE /\ DOMAIN q.candidates = {} /\ q.budget = Free(q)
    /\ DOMAIN q.results = DOMAIN q.inputs
    /\ \A i \in DOMAIN q.results : q.results[i] = NewResult("invalid_input", NotACone)

LEMMA SubmitCounts ==
    ASSUME TruthInv, NEW r, NEW migrated, Submit(r, migrated)
    PROVE  /\ UNCHANGED storeVars
           /\ \/ req'.pc = "refused" /\ req'.since = req.since
              \/ /\ Uncounted(req') /\ req'.route = r.route /\ DOMAIN req'.inputs = DOMAIN r.inputs
                 /\ \A i \in DOMAIN r.inputs : /\ req'.inputs[i].kind = r.inputs[i].kind
                                                 /\ req'.inputs[i].of = r.inputs[i].of
                 /\ req'.pc \in {"filter", "answered", "alerts", "names", "search"}
                 /\ req'.pc = "answered" => ~req'.spec.on
<1>1. UNCHANGED storeVars /\ IsRequest(req)
    BY DEF TruthInv, Shape, Submit
<1>2. CASE Refusal(r) # "none"
    <2>1. req' = [req EXCEPT !.pc = "refused", !.route = r.route]
        BY <1>2 DEF Submit
    <2>2. req'.pc = "refused" /\ req'.since = req.since
        BY <1>1, <2>1 DEF IsRequest, RequestFields
    <2> QED BY <1>1, <2>2
<1>3. CASE Refusal(r) = "none"
    <2> DEFINE given == [pc |-> "start", route |-> r.route, detail |-> LookupDetail(r),
                         spec |-> ParseFilters(r.filters), count |-> r.response = "count",
                         migrated |-> migrated]
               parsed == [i \in DOMAIN r.inputs |->
                            [kind |-> r.inputs[i].kind, of |-> r.inputs[i].of,
                             valid |-> InputValid(r.inputs[i], r)]]
               results == [i \in DOMAIN parsed |-> NewResult("invalid_input", NotACone)]
    <2>1. PICK q : q = Started(given)
        OBVIOUS
    <2>2. PICK p : p = [q EXCEPT !.inputs = parsed]
        OBVIOUS
    <2>3. req' = Enter([p EXCEPT !.todo = Groups(p), !.budget = Free(p), !.results = results])
        BY <1>3, <2>1, <2>2 DEF Submit, Free
    <2>4. PICK e : e = [p EXCEPT !.todo = Groups(p), !.budget = Free(p), !.results = results]
        OBVIOUS
    <2>5. /\ IsRequest(q) /\ q.route = r.route /\ q.since = writes /\ q.cut = FALSE
          /\ q.candidates = <<>>
        <3>1. given.route = r.route
            OBVIOUS
        <3> HIDE DEF given
        <3> QED BY <2>1, <3>1, RequestStarts, RequestsCountNothing
    <2>6. /\ DOMAIN results = DOMAIN parsed /\ DOMAIN parsed = DOMAIN r.inputs
          /\ \A i \in DOMAIN results : results[i] = NewResult("invalid_input", NotACone)
          /\ \A i \in DOMAIN r.inputs : /\ parsed[i].kind = r.inputs[i].kind
                                          /\ parsed[i].of = r.inputs[i].of
        OBVIOUS
    <2> HIDE DEF given, parsed, results
    <2>7. /\ IsRequest(p) /\ p.inputs = parsed /\ p.candidates = q.candidates
          /\ p.route = q.route /\ p.since = q.since /\ p.cut = q.cut
        BY <2>2, <2>5 DEF IsRequest, RequestFields
    <2>8. /\ IsRequest(e) /\ e.inputs = parsed /\ e.candidates = q.candidates
          /\ e.route = q.route /\ e.since = q.since /\ e.cut = q.cut
          /\ e.budget = Free(p) /\ e.results = results
        BY <2>4, <2>7 DEF IsRequest, RequestFields
    <2>9. req' = Enter(e)
        BY <2>3, <2>4
    <2>10. /\ SameNumbers(req', e) /\ req'.results = e.results
           /\ req'.pc \in {"filter", "answered", "alerts", "names", "search"}
           /\ req'.pc = "answered" => ~e.spec.on
        BY <2>8, <2>9, EnterCountsNothing
    <2>11. req'.inputs = parsed /\ p.inputs = parsed
        BY <2>7, <2>8, <2>10 DEF SameNumbers, SameRequest
    <2>12. Free(req') = Free(p)
        <3>1. IdInputs(req') = IdInputs(p)
            BY <2>11, InputsByKind
        <3> QED BY <3>1 DEF Free
    <2>13. DOMAIN req'.candidates = {}
        <3>1. DOMAIN <<>> = {}
            OBVIOUS
        <3> QED BY <2>5, <2>8, <2>10, <3>1 DEF SameNumbers
    <2>14. /\ req'.since = writes /\ req'.cut = FALSE /\ req'.budget = Free(req')
           /\ req'.route = r.route /\ req'.spec = e.spec
        BY <2>5, <2>8, <2>10, <2>12 DEF SameNumbers, SameRequest
    <2>15. /\ DOMAIN req'.results = DOMAIN req'.inputs /\ DOMAIN req'.inputs = DOMAIN r.inputs
           /\ \A i \in DOMAIN req'.results : req'.results[i] = NewResult("invalid_input", NotACone)
        BY <2>6, <2>8, <2>10, <2>11
    <2>16. Uncounted(req')
        BY <1>1, <2>13, <2>14, <2>15 DEF Uncounted
    <2>17. req'.pc = "answered" => ~req'.spec.on
        BY <2>10, <2>14
    <2> QED BY <1>1, <2>6, <2>10, <2>11, <2>14, <2>15, <2>16, <2>17
<1> QED BY <1>2, <1>3

LEMMA NamesCount ==
    ASSUME TruthInv, ResolveNames
    PROVE  /\ UNCHANGED storeVars /\ SameNumbers(req', req) /\ req.pc = "names" /\ req'.pc = "search"
           /\ DOMAIN req'.results = DOMAIN req.results
           /\ \A i \in DOMAIN req.results :
                 \/ req'.results[i] = req.results[i]
                 \/ \E status : req'.results[i] = NewResult(status, NotRun)
<1>1. IsRequest(req) /\ req.pc = "names" /\ UNCHANGED storeVars
    BY DEF TruthInv, Shape, ResolveNames
<1>2. PICK current \in BOOLEAN :
         LET unresolved == {i \in ConeInputs(req) :
                               /\ req.inputs[i].kind = "tns"
                               /\ ~current \/ TnsPlace[req.inputs[i].of] = "unknown"}
             status == IF current THEN "tns_name_not_found" ELSE "resolver_unavailable"
         IN  req' = [req EXCEPT
                       !.pc = "search",
                       !.results = [i \in DOMAIN @ |->
                           IF i \in unresolved THEN NewResult(status, NotRun) ELSE @[i]]]
    BY DEF ResolveNames
<1> DEFINE unresolved == {i \in ConeInputs(req) :
                             /\ req.inputs[i].kind = "tns"
                             /\ ~current \/ TnsPlace[req.inputs[i].of] = "unknown"}
           status == IF current THEN "tns_name_not_found" ELSE "resolver_unavailable"
           results == [i \in DOMAIN req.results |->
                          IF i \in unresolved THEN NewResult(status, NotRun) ELSE req.results[i]]
<1>3. /\ DOMAIN results = DOMAIN req.results
      /\ \A i \in DOMAIN results : \/ results[i] = req.results[i]
                                   \/ results[i] = NewResult(status, NotRun)
    OBVIOUS
<1>4. req' = [req EXCEPT !.pc = "search", !.results = results]
    BY <1>2
<1> HIDE DEF unresolved, status, results
<1>5. req'.pc = "search" /\ req'.results = results /\ SameNumbers(req', req)
    BY <1>1, <1>4 DEF IsRequest, RequestFields, SameNumbers, SameRequest
<1> QED BY <1>1, <1>3, <1>5

LEMMA SearchCounts ==
    ASSUME TruthInv, SearchAll, NEW searched, searched = Searched(req)
    PROVE  /\ UNCHANGED storeVars /\ SameRequest(req', req) /\ req.pc = "search" /\ req'.pc = "alerts"
           /\ DOMAIN req'.results = DOMAIN req.results /\ DOMAIN req'.candidates = searched
           /\ \A i \in DOMAIN req.results :
                 req'.results[i] = IF i \in searched THEN ConeResult(req, i) ELSE req.results[i]
           /\ \A i \in searched :
                 req'.candidates[i] = Inside(CentreOf(req.inputs[i]), Unpinned)
           /\ req'.cut <=> \E i \in searched : req'.results[i].truncation = "per_request_limit"
<1> DEFINE results == [i \in DOMAIN req.results |->
                          IF i \in searched THEN ConeResult(req, i) ELSE req.results[i]]
           candidates == [i \in searched |-> Inside(CentreOf(req.inputs[i]), Unpinned)]
           asked == UNION {results[i].ids : i \in searched}
           cut == \E i \in searched : results[i].truncation = "per_request_limit"
<1>1. IsRequest(req) /\ req.pc = "search" /\ UNCHANGED storeVars
    BY DEF TruthInv, Shape, SearchAll
<1>2. req' = [req EXCEPT !.pc = "alerts", !.results = results, !.candidates = candidates,
                         !.asked = asked, !.cut = cut]
    BY DEF SearchAll
<1>3. /\ DOMAIN results = DOMAIN req.results /\ DOMAIN candidates = searched
      /\ \A i \in DOMAIN req.results :
            results[i] = IF i \in searched THEN ConeResult(req, i) ELSE req.results[i]
      /\ \A i \in searched : candidates[i] = Inside(CentreOf(req.inputs[i]), Unpinned)
      /\ cut <=> \E i \in searched : results[i].truncation = "per_request_limit"
    OBVIOUS
<1> HIDE DEF results, candidates, asked, cut
<1>4. /\ SameRequest(req', req) /\ req'.pc = "alerts" /\ req'.results = results
      /\ req'.candidates = candidates /\ req'.cut = cut
    BY <1>1, <1>2 DEF IsRequest, RequestFields, SameRequest
<1> QED BY <1>1, <1>3, <1>4

LEMMA AssembleCounts ==
    ASSUME TruthInv, Assemble
    PROVE  /\ UNCHANGED storeVars /\ SameNumbers(req', req) /\ req.pc = "built" /\ req.route # "cone"
           /\ req'.pc \in {"filter", "answered", "alerts", "names", "search"}
           /\ req'.pc = "answered" => ~req'.spec.on
           /\ DOMAIN req'.results = DOMAIN req.results
           /\ \A i \in DOMAIN req.results :
                 /\ req'.results[i].total = req.results[i].total
                 /\ req'.results[i].truncation = req.results[i].truncation
                 /\ i \in ConeInputs(req) => req'.results[i].ids = req.results[i].ids
                 /\ \/ req'.results[i].ids = req.results[i].ids
                    \/ i \in IdInputs(req) /\ req'.results[i].ids = {req.inputs[i].of}
                 /\ \A o \in DOMAIN req'.results[i].entries :
                       \/ /\ o \in DOMAIN req.results[i].entries
                          /\ req'.results[i].entries[o] = req.results[i].entries[o]
                       \/ o \in req.asked /\ req'.results[i].entries[o] = req.built[o]
<1> DEFINE entries(ids) == [o \in ids |-> req.built[o]]
           mine == IF Head(req.todo) = "id" THEN IdInputs(req) ELSE ConeInputs(req)
           filled(i) ==
               IF Head(req.todo) = "id"
               THEN LET o == req.inputs[i].of
                    IN  [req.results[i] EXCEPT !.status = req.built[o].status,
                                               !.ids = {o}, !.entries = entries({o})]
               ELSE [req.results[i] EXCEPT !.entries = entries(req.results[i].ids)]
           results == [i \in DOMAIN req.results |-> IF i \in mine THEN filled(i)
                                                    ELSE req.results[i]]
<1>1. /\ IsRequest(req) /\ req.pc = "built" /\ req.route # "cone"
      /\ UNCHANGED storeVars /\ Running /\ Building
    BY DEF TruthInv, Shape, Assemble, Running, Building, Gathering
<1>2. req' = Enter([req EXCEPT !.todo = Tail(@), !.built = <<>>, !.asked = {},
                               !.results = results])
    BY DEF Assemble
<1>3. PICK q : q = [req EXCEPT !.todo = Tail(@), !.built = <<>>, !.asked = {},
                               !.results = results]
    OBVIOUS
<1>4. /\ req.todo \in {<<"id">>, <<"cone">>, <<"id", "cone">>, <<"cone", "id">>}
      /\ req.todo \in {<<"id">>, <<"id", "cone">>} =>
            \A i \in IdInputs(req) : req.inputs[i].of \in req.asked
      /\ req.todo \in {<<"cone">>, <<"cone", "id">>} =>
            \A i \in ConeInputs(req) : req.results[i].ids \subseteq req.asked
    BY <1>1 DEF TruthInv, LookupRight
<1>5. \A i \in DOMAIN req.results : IsResult(req.results[i])
    BY DEF TruthInv, Shape
<1>6. ASSUME NEW i \in DOMAIN req.results
      PROVE  /\ results[i].total = req.results[i].total
             /\ results[i].truncation = req.results[i].truncation
             /\ i \in ConeInputs(req) => results[i].ids = req.results[i].ids
             /\ \/ results[i].ids = req.results[i].ids
                \/ i \in IdInputs(req) /\ results[i].ids = {req.inputs[i].of}
             /\ \A o \in DOMAIN results[i].entries :
                   \/ /\ o \in DOMAIN req.results[i].entries
                      /\ results[i].entries[o] = req.results[i].entries[o]
                   \/ o \in req.asked /\ results[i].entries[o] = req.built[o]
    <2>1. CASE i \notin mine
        <3>1. results[i] = req.results[i]
            BY <2>1
        <3> HIDE DEF results, mine
        <3> QED BY <3>1
    <2>2. CASE i \in mine /\ Head(req.todo) = "id"
        <3> DEFINE o == req.inputs[i].of
                   es == [x \in {o} |-> req.built[x]]
                   status == req.built[o].status
        <3>1. i \in IdInputs(req) /\ i \notin ConeInputs(req)
            BY <2>2, NoInputOfBothKinds
        <3>2. o \in req.asked
            BY <1>4, <2>2, <3>1
        <3>3. results[i] = [req.results[i] EXCEPT !.status = status, !.ids = {o}, !.entries = es]
            BY <2>2
        <3>4. DOMAIN es = {o} /\ es[o] = req.built[o]
            OBVIOUS
        <3> HIDE DEF results, mine, es, status
        <3>5. /\ results[i].total = req.results[i].total /\ results[i].entries = es
              /\ results[i].truncation = req.results[i].truncation /\ results[i].ids = {o}
            BY <1>5, <3>3 DEF IsResult, ResultFields
        <3>6. results[i].ids = {req.inputs[i].of}
            BY <3>5
        <3> HIDE DEF o
        <3> QED BY <3>1, <3>2, <3>4, <3>5, <3>6
    <2>3. CASE i \in mine /\ Head(req.todo) # "id"
        <3> DEFINE ids == req.results[i].ids
                   es == [x \in ids |-> req.built[x]]
        <3>1. ids \subseteq req.asked
            BY <1>4, <2>3
        <3>2. results[i] = [req.results[i] EXCEPT !.entries = es]
            BY <2>3
        <3>3. DOMAIN es = ids /\ \A x \in ids : es[x] = req.built[x]
            OBVIOUS
        <3> HIDE DEF results, mine, es
        <3>4. /\ results[i].total = req.results[i].total /\ results[i].entries = es
              /\ results[i].truncation = req.results[i].truncation /\ results[i].ids = ids
            BY <1>5, <3>2 DEF IsResult, ResultFields
        <3> QED BY <3>1, <3>3, <3>4
    <2> QED BY <2>1, <2>2, <2>3
<1>7. DOMAIN results = DOMAIN req.results
    OBVIOUS
<1> HIDE DEF results, mine, filled, entries
<1>8. IsRequest(q) /\ SameNumbers(q, req) /\ q.results = results
    BY <1>1, <1>3 DEF IsRequest, RequestFields, SameNumbers, SameRequest
<1>9. req' = Enter(q)
    BY <1>2, <1>3
<1>10. /\ SameNumbers(req', q) /\ req'.results = q.results
       /\ req'.pc \in {"filter", "answered", "alerts", "names", "search"}
       /\ req'.pc = "answered" => ~q.spec.on
    BY <1>8, <1>9, EnterCountsNothing
<1>11. SameNumbers(req', req) /\ req'.results = results /\ req'.spec = q.spec
    BY <1>8, <1>10 DEF SameNumbers, SameRequest
<1>12. req'.pc = "answered" => ~req'.spec.on
    BY <1>10, <1>11
<1> QED BY <1>1, <1>6, <1>7, <1>10, <1>11, <1>12

LEMMA FiltersCount ==
    ASSUME TruthInv, ApplyFilters
    PROVE  /\ UNCHANGED storeVars /\ SameNumbers(req', req) /\ req.pc = "filter" /\ req.route # "cone"
           /\ req'.pc = "answered" /\ DOMAIN req'.results = DOMAIN req.results
           /\ \E ids, quals :
                 /\ ids = UNION {CandidatesOf(req, i) : i \in DOMAIN req.results}
                 /\ quals = QualifyObjects(ids, req.spec)
                 /\ \A i \in DOMAIN req.results :
                       /\ req'.results[i].total = req.results[i].total
                       /\ req'.results[i].ids = req.results[i].ids
                       /\ req'.results[i].truncation = req.results[i].truncation
                       /\ req'.results[i].entries = req.results[i].entries
                       /\ \A o \in DOMAIN req.results[i].entries :
                             req'.results[i].marks[o]
                                 = MarkOf(o, req.results[i].entries[o].status, quals, req.spec)
                       /\ i \in ConeInputs(req) =>
                             \E m : /\ IsResult(m) /\ m.total = req.results[i].total
                                    /\ req'.results[i]
                                           = MarkResult(m, CandidatesOf(req, i), quals, req.spec)
<1>1. /\ IsRequest(req) /\ req.pc = "filter" /\ req.route # "cone" /\ UNCHANGED storeVars
    BY DEF TruthInv, Shape, ApplyFilters
<1>2. PICK ids : ids = UNION {CandidatesOf(req, i) : i \in DOMAIN req.results}
    OBVIOUS
<1>3. PICK quals : quals = QualifyObjects(ids, req.spec)
    OBVIOUS
<1> DEFINE res(i) == MarkEntries(req.results[i], quals, req.spec)
           marked(i) ==
               IF ~req.inputs[i].valid THEN [res(i) EXCEPT !.reason = "invalid_input"]
               ELSE IF req.inputs[i].kind = "id"
               THEN LET mark == res(i).marks[req.inputs[i].of]
                    IN  [res(i) EXCEPT !.yes = mark.yes, !.reason = mark.reason]
               ELSE MarkResult(res(i), CandidatesOf(req, i), quals, req.spec)
           results == [i \in DOMAIN req.results |-> marked(i)]
<1>4. req' = [req EXCEPT !.pc = "answered", !.results = results]
    BY <1>2, <1>3 DEF ApplyFilters
<1>5. DOMAIN results = DOMAIN req.results
    OBVIOUS
<1>6. ASSUME NEW i \in DOMAIN req.results
      PROVE  /\ results[i].total = req.results[i].total
             /\ results[i].ids = req.results[i].ids
             /\ results[i].truncation = req.results[i].truncation
             /\ results[i].entries = req.results[i].entries
             /\ \A o \in DOMAIN req.results[i].entries :
                   results[i].marks[o] = MarkOf(o, req.results[i].entries[o].status, quals, req.spec)
             /\ i \in ConeInputs(req) =>
                   \E m : /\ IsResult(m) /\ m.total = req.results[i].total
                          /\ results[i] = MarkResult(m, CandidatesOf(req, i), quals, req.spec)
    <2>1. PICK m : m = MarkEntries(req.results[i], quals, req.spec)
        OBVIOUS
    <2>2. IsResult(req.results[i])
        BY DEF TruthInv, Shape
    <2>3. /\ IsResult(m) /\ m.entries = req.results[i].entries /\ m.ids = req.results[i].ids
          /\ m.total = req.results[i].total /\ m.truncation = req.results[i].truncation
          /\ \A o \in DOMAIN req.results[i].entries :
                m.marks[o] = MarkOf(o, req.results[i].entries[o].status, quals, req.spec)
        BY <2>1, <2>2, EntriesMarked
    <2>4. results[i] = IF ~req.inputs[i].valid THEN [m EXCEPT !.reason = "invalid_input"]
                       ELSE IF req.inputs[i].kind = "id"
                       THEN [m EXCEPT !.yes = m.marks[req.inputs[i].of].yes,
                                      !.reason = m.marks[req.inputs[i].of].reason]
                       ELSE MarkResult(m, CandidatesOf(req, i), quals, req.spec)
        BY <2>1
    <2> HIDE DEF results
    <2>5. /\ results[i].entries = m.entries /\ results[i].marks = m.marks
          /\ results[i].ids = m.ids /\ results[i].total = m.total
          /\ results[i].truncation = m.truncation
        <3>1. CASE ~ req.inputs[i].valid
            <4>1. results[i] = [m EXCEPT !.reason = "invalid_input"]
                BY <2>4, <3>1
            <4> QED BY <2>3, <4>1 DEF IsResult, ResultFields
        <3>2. CASE req.inputs[i].valid /\ req.inputs[i].kind = "id"
            <4>1. PICK mark : mark = m.marks[req.inputs[i].of]
                OBVIOUS
            <4>2. results[i] = [m EXCEPT !.yes = mark.yes, !.reason = mark.reason]
                BY <2>4, <3>2, <4>1
            <4> QED BY <2>3, <4>2 DEF IsResult, ResultFields
        <3>3. CASE req.inputs[i].valid /\ req.inputs[i].kind # "id"
            <4>1. results[i] = MarkResult(m, CandidatesOf(req, i), quals, req.spec)
                BY <2>4, <3>3
            <4> QED BY <2>3, <4>1, ResultMarked
        <3> QED BY <3>1, <3>2, <3>3
    <2>6. ASSUME i \in ConeInputs(req)
          PROVE  results[i] = MarkResult(m, CandidatesOf(req, i), quals, req.spec)
        <3>1. req.inputs[i].valid /\ req.inputs[i].kind # "id"
            BY <2>6, InputsByKind DEF IsCone
        <3> QED BY <2>4, <3>1
    <2> QED BY <2>3, <2>5, <2>6
<1> HIDE DEF results
<1>7. req'.pc = "answered" /\ req'.results = results /\ SameNumbers(req', req)
    BY <1>1, <1>4 DEF IsRequest, RequestFields, SameNumbers, SameRequest
<1>8. \A i \in DOMAIN req.results :
         /\ req'.results[i].total = req.results[i].total
         /\ req'.results[i].ids = req.results[i].ids
         /\ req'.results[i].truncation = req.results[i].truncation
         /\ req'.results[i].entries = req.results[i].entries
         /\ \A o \in DOMAIN req.results[i].entries :
               req'.results[i].marks[o] = MarkOf(o, req.results[i].entries[o].status, quals, req.spec)
         /\ i \in ConeInputs(req) =>
               \E m : /\ IsResult(m) /\ m.total = req.results[i].total
                      /\ req'.results[i] = MarkResult(m, CandidatesOf(req, i), quals, req.spec)
    BY <1>6, <1>7
<1> QED BY <1>1, <1>2, <1>3, <1>5, <1>7, <1>8

LEMMA FirstPageHasNoPlace ==
    ASSUME ConeInv, NEW t \in Tokens \cup {NoToken}, req.pc \in {"start", "paused"}, t.kind = "none"
    PROVE  t.at = <<>>
<1>1. ASSUME t \in Tokens, req.pc = "paused" PROVE FALSE
    <2>1. /\ IsToken(req.cone.token) /\ req.cone.token.kind # "none"
        BY <1>1 DEF ConeInv, ConeHolds, ConeTyped, PageIsServed
    <2>2. t = req.cone.token
          \/ t = [req.cone.token EXCEPT !.at = <<MaxTime + 1, 0>>]
          \/ t = [req.cone.token EXCEPT !.kind = "recent_crossmatches"]
        BY <1>1 DEF Tokens
    <2> QED BY <2>1, <2>2 DEF IsToken
<1>2. t = NoToken \/ t = [NoToken EXCEPT !.kind = "garbage"]
    BY <1>1 DEF Tokens
<1> QED BY <1>2 DEF NoToken

LEMMA AskCounts ==
    ASSUME TruthInv, ConeInv, NEW p, NEW t \in Tokens \cup {NoToken}, AskCone(p, t)
    PROVE  /\ UNCHANGED storeVars
           /\ \/ req'.pc = "refused" /\ req'.since = req.since
              \/ /\ req'.pc = "page" /\ req'.route = "cone" /\ req'.since = writes
                 /\ req'.results = <<>>
                 /\ req'.count => req'.cone.after = <<>>
<1>1. IsRequest(req) /\ UNCHANGED storeVars /\ req.pc \in {"start", "paused"}
    BY DEF TruthInv, Shape, AskCone
<1>2. CASE ConeRefusal(p, t) # "none"
    <2>1. req' = [req EXCEPT !.pc = "refused"]
        BY <1>2 DEF AskCone
    <2>2. req'.pc = "refused" /\ req'.since = req.since
        BY <1>1, <2>1 DEF IsRequest, RequestFields
    <2> QED BY <1>1, <2>2
<1>3. CASE ConeRefusal(p, t) = "none"
    <2> DEFINE first == t.kind = "none"
               count == p.response = "count"
               walked == IF ~first /\ t = req.cone.token THEN req.cone ELSE FreshCone
               centre == IF first THEN p.centre ELSE t.centre
               asOf == IF count THEN Unpinned ELSE IF first THEN clock ELSE t.asOf
               size == ConeSize(p)
               cone == [walked EXCEPT !.centre = centre, !.asOf = asOf, !.after = t.at,
                                      !.size = size, !.order = p.order]
    <2>1. count => t.at = <<>>
        <3>1. count => t.kind = "none"
            BY <1>3 DEF ConeRefusal
        <3> QED BY <1>1, <3>1, FirstPageHasNoPlace
    <2>2. IsConeRecord(walked)
        <3>1. IsConeRecord(FreshCone)
            BY DEF IsConeRecord, ConeFields, FreshCone
        <3>2. CASE ~first /\ t = req.cone.token
            <4>1. req.pc = "paused"
                <5>1. t = NoToken \/ t = [NoToken EXCEPT !.kind = "garbage"] => t.kind # "cone_search"
                    BY DEF NoToken
                <5>2. t.kind = "cone_search"
                    BY <1>3, <3>2 DEF ConeRefusal, TokenRefused
                <5> QED BY <1>1, <5>1, <5>2 DEF Tokens
            <4>2. IsConeRecord(req.cone)
                BY <4>1 DEF ConeInv, ConeHolds, ConeTyped
            <4>3. walked = req.cone
                BY <3>2
            <4> QED BY <4>2, <4>3
        <3> QED BY <3>1, <3>2
    <2>3. PICK given : /\ given.pc = "page" /\ given.route = "cone" /\ given.count = count
                       /\ req' = [Started(given) EXCEPT !.cone = cone]
        <3> DEFINE detail == IF count THEN "ids"
                             ELSE IF ~first THEN t.detail
                             ELSE IF p.detail = "absent" THEN "matches" ELSE p.detail
                   given == [pc |-> "page", route |-> "cone", detail |-> detail,
                             spec |-> ParseFilters(p.filters), count |-> count,
                             migrated |-> TRUE]
        <3>1. req' = [Started(given) EXCEPT !.cone = cone]
            BY <1>3 DEF AskCone
        <3>2. given.pc = "page" /\ given.route = "cone" /\ given.count = count
            OBVIOUS
        <3> HIDE DEF given, cone, count
        <3> QED BY <3>1, <3>2
    <2>4. PICK s : s = Started(given)
        OBVIOUS
    <2>5. /\ IsRequest(s) /\ s.pc = "page" /\ s.route = "cone" /\ s.count = count
          /\ s.since = writes /\ s.results = <<>>
        <3> HIDE DEF count
        <3> QED BY <2>3, <2>4, RequestStarts, RequestsCountNothing
    <2> HIDE DEF walked, centre, asOf, size, count, first
    <2>6. cone.after = t.at
        BY <2>2 DEF IsConeRecord, ConeFields
    <2> HIDE DEF cone
    <2>7. /\ req'.pc = "page" /\ req'.route = "cone" /\ req'.count = count /\ req'.cone = cone
          /\ req'.since = writes /\ req'.results = <<>>
        BY <2>3, <2>4, <2>5 DEF IsRequest, RequestFields
    <2>8. req'.count => req'.cone.after = <<>>
        BY <2>1, <2>6, <2>7
    <2> QED BY <1>1, <2>7, <2>8
<1> QED BY <1>2, <1>3

LEMMA FirstOfRest == ASSUME NEW n PROVE ListFirst(n) \subseteq Rest
BY DEF ListFirst, Leading

LEMMA FetchCounts ==
    ASSUME TruthInv, ConeInv, FetchPage
    PROVE  /\ UNCHANGED storeVars /\ SameRequest(req', req) /\ req.pc = "page" /\ req.route = "cone"
           /\ req'.pc \in {"total", "whole", "alerts"}
           /\ req'.pc # "total" /\ Rest = {} => req.cone.after = <<>>
           /\ req'.pc = "total" => Rest = {}
           /\ req'.pc = "alerts" => ~req.spec.on \/ req.count
           /\ req'.candidates = <<IF req.count THEN Rest ELSE ListFirst(req.cone.size)>>
           /\ \E res : /\ req'.results = <<res>> /\ DOMAIN res.entries = {} /\ res.ids \subseteq Rest
                       /\ res.total = IF Rest = {} THEN 0 ELSE Cardinality(PinnedSet)
<1>1. /\ IsRequest(req) /\ UNCHANGED storeVars /\ req.pc = "page" /\ req.route = "cone"
    BY DEF TruthInv, Shape, ConeRight, FetchPage
<1>2. PICK c : c = req.cone
    OBVIOUS
<1>3. IsConeRecord(c)
    BY <1>1, <1>2 DEF ConeInv, ConeHolds, ConeTyped
<1> DEFINE page == IF req.count THEN Rest ELSE ListFirst(c.size)
           total == IF Rest = {} THEN 0 ELSE Cardinality(PinnedSet)
           res == [NewResult(FoundOrNot(total), total) EXCEPT !.ids = page]
           pc == IF Rest = {} /\ c.after # <<>> THEN "total"
                 ELSE IF req.spec.on /\ ~req.count THEN "whole" ELSE "alerts"
           more == ~req.count /\ Rest # page
           due == IF c.after = <<>> THEN PinnedSet ELSE c.due
           cone == [c EXCEPT !.page = page, !.more = more, !.due = due]
<1>4. req' = [req EXCEPT !.pc = pc, !.asked = page, !.results = <<res>>,
                         !.candidates = <<page>>, !.cone = cone]
    <2>1. req' = [req EXCEPT !.pc = pc, !.asked = page, !.results = <<res>>,
                             !.candidates = <<page>>, !.cone.page = page,
                             !.cone.more = more, !.cone.due = due]
        BY <1>2 DEF FetchPage
    <2> HIDE DEF page, res, pc, more, due
    <2> QED BY <1>1, <1>2, <2>1 DEF IsRequest, RequestFields
<1>5. /\ pc \in {"total", "whole", "alerts"} /\ (pc # "total" /\ Rest = {} => c.after = <<>>)
      /\ pc = "total" => Rest = {}
      /\ pc = "alerts" => ~req.spec.on \/ req.count
    OBVIOUS
<1>6. res.total = total /\ DOMAIN res.entries = {} /\ res.ids = page
    <2> HIDE DEF page, total
    <2>1. PICK new : new = NewResult(FoundOrNot(total), total)
        OBVIOUS
    <2>2. IsResult(new) /\ new.total = total /\ DOMAIN new.entries = {}
        BY <2>1, NewResults
    <2>3. res = [new EXCEPT !.ids = page]
        BY <2>1
    <2> HIDE DEF res
    <2> QED BY <2>2, <2>3 DEF IsResult, ResultFields
<1>7. page = IF req.count THEN Rest ELSE ListFirst(req.cone.size)
    BY <1>2
<1>8. /\ total = IF Rest = {} THEN 0 ELSE Cardinality(PinnedSet)
      /\ page \subseteq Rest
    BY FirstOfRest
<1> HIDE DEF page, pc, res, more, due, total
<1>9. cone.centre = c.centre /\ cone.asOf = c.asOf /\ cone.after = c.after
    BY <1>3 DEF IsConeRecord, ConeFields
<1> HIDE DEF cone
<1>10. /\ req'.pc = pc /\ req'.results = <<res>> /\ req'.candidates = <<page>>
       /\ SameRequest(req', req)
    BY <1>1, <1>2, <1>4, <1>9 DEF IsRequest, RequestFields, SameRequest
<1> QED BY <1>1, <1>2, <1>5, <1>6, <1>7, <1>8, <1>10

LEMMA WholeCounts ==
    ASSUME TruthInv, CountWhole
    PROVE  /\ UNCHANGED storeVars /\ SameNumbers(req', req) /\ req.pc = "total" /\ req.route = "cone"
           /\ req'.pc \in {"whole", "alerts"} /\ (req'.pc = "alerts" => ~req.spec.on)
           /\ DOMAIN req'.results = {1} /\ req'.results[1].total = Cardinality(PinnedSet)
           /\ DOMAIN req.results = {1} /\ req'.results[1].entries = req.results[1].entries
           /\ req'.results[1].ids = req.results[1].ids
<1>1. IsRequest(req) /\ UNCHANGED storeVars /\ req.pc = "total" /\ req.route = "cone" /\ Running
    BY DEF TruthInv, Shape, ConeRight, CountWhole, Running
<1>2. DOMAIN req.results = {1} /\ IsResult(req.results[1])
    BY <1>1 DEF TruthInv, Shape, ConeRight
<1> DEFINE total == Cardinality(PinnedSet)
           pc == IF req.spec.on THEN "whole" ELSE "alerts"
           status == FoundOrNot(total)
           res == [req.results[1] EXCEPT !.total = total, !.status = status]
           results == [req.results EXCEPT ![1] = res]
<1>3. req' = [req EXCEPT !.pc = pc, !.results = results]
    BY <1>1, <1>2 DEF CountWhole, IsRequest, RequestFields
<1>4. pc \in {"whole", "alerts"} /\ (pc = "alerts" => ~req.spec.on)
    OBVIOUS
<1>5. total = Cardinality(PinnedSet)
    OBVIOUS
<1> HIDE DEF total, pc, status
<1>6. res.total = total /\ res.entries = req.results[1].entries /\ res.ids = req.results[1].ids
    BY <1>2 DEF IsResult, ResultFields
<1> HIDE DEF res
<1>7. DOMAIN results = {1} /\ results[1] = res
    BY <1>2
<1> HIDE DEF results
<1>8. req'.pc = pc /\ req'.results = results /\ SameNumbers(req', req)
    BY <1>1, <1>3 DEF IsRequest, RequestFields, SameNumbers, SameRequest
<1> QED BY <1>1, <1>2, <1>4, <1>5, <1>6, <1>7, <1>8

LEMMA CandidatesCount ==
    ASSUME TruthInv, FetchCandidates
    PROVE  /\ UNCHANGED storeVars /\ SameRequest(req', req) /\ req.pc = "whole" /\ req.route = "cone"
           /\ req'.pc = "alerts" /\ req'.results = req.results /\ req'.candidates = <<PinnedSet>>
<1>1. IsRequest(req) /\ UNCHANGED storeVars /\ req.pc = "whole" /\ req.route = "cone"
    BY DEF TruthInv, Shape, ConeRight, FetchCandidates
<1>2. req' = [req EXCEPT !.pc = "alerts", !.candidates = <<PinnedSet>>]
    BY DEF FetchCandidates
<1> QED BY <1>1, <1>2 DEF IsRequest, RequestFields, SameRequest

LEMMA PageCounts ==
    ASSUME TruthInv, ConeInv, MakePage
    PROVE  /\ UNCHANGED storeVars /\ SameNumbers(req', req) /\ req.pc = "built" /\ req.route = "cone"
           /\ req'.pc \in {"filter", "paused", "answered"} /\ (req'.pc # "filter" => ~req.spec.on)
           /\ DOMAIN req.results = {1} /\ DOMAIN req'.results = {1}
           /\ req'.results[1].total = req.results[1].total
           /\ req'.results[1].ids = req.results[1].ids
           /\ \A o \in DOMAIN req'.results[1].entries :
                 o \in req.asked /\ req'.results[1].entries[o] = req.built[o]
<1>1. IsRequest(req) /\ UNCHANGED storeVars /\ req.pc = "built" /\ req.route = "cone" /\ Running
    BY DEF TruthInv, Shape, MakePage, Running
<1>2. /\ DOMAIN req.results = {1} /\ req.results[1].ids \subseteq req.asked
      /\ IsResult(req.results[1])
    BY <1>1 DEF TruthInv, Shape, ConeRight
<1>3. IsConeRecord(req.cone)
    BY <1>1 DEF ConeInv, ConeHolds, ConeTyped
<1> DEFINE ids == req.results[1].ids
           entries == [o \in ids |-> req.built[o]]
           res == [req.results[1] EXCEPT !.entries = entries]
           results == [req.results EXCEPT ![1] = res]
           next == req.cone.more /\ req.cone.order = "ingest"
           pc == IF req.spec.on THEN "filter" ELSE IF next THEN "paused" ELSE "answered"
           seen == req.cone.seen \cup req.cone.page
           token == IF ~next THEN NoToken
                    ELSE [kind |-> "cone_search",
                          at |-> <<rows[LastListed].ingest, LastListed>>,
                          asOf |-> req.cone.asOf, centre |-> req.cone.centre,
                          detail |-> req.detail]
           cone == [req.cone EXCEPT !.seen = seen, !.token = token]
<1>4. req' = [req EXCEPT !.pc = pc, !.results = results, !.cone = cone]
    <2>1. req' = [req EXCEPT !.pc = pc, !.results[1].entries = entries,
                             !.cone.seen = seen, !.cone.token = token]
        BY DEF MakePage
    <2> HIDE DEF pc, token, entries, seen
    <2> QED BY <1>1, <1>2, <2>1 DEF IsRequest, RequestFields
<1>5. pc \in {"filter", "paused", "answered"} /\ (pc # "filter" => ~req.spec.on)
    OBVIOUS
<1>6. DOMAIN entries = ids /\ \A o \in ids : entries[o] = req.built[o]
    OBVIOUS
<1> HIDE DEF entries, pc, token, seen, next
<1>7. res.total = req.results[1].total /\ res.entries = entries /\ res.ids = req.results[1].ids
    BY <1>2 DEF IsResult, ResultFields
<1> HIDE DEF res
<1>8. DOMAIN results = {1} /\ results[1] = res
    BY <1>2
<1> HIDE DEF results
<1>9. cone.centre = req.cone.centre /\ cone.asOf = req.cone.asOf /\ cone.after = req.cone.after
    BY <1>3 DEF IsConeRecord, ConeFields
<1> HIDE DEF cone
<1>10. req'.pc = pc /\ req'.results = results /\ SameNumbers(req', req)
    BY <1>1, <1>4, <1>9 DEF IsRequest, RequestFields, SameNumbers, SameRequest
<1> QED BY <1>1, <1>2, <1>5, <1>6, <1>7, <1>8, <1>10

LEMMA MarkCounts ==
    ASSUME TruthInv, MarkPage
    PROVE  /\ UNCHANGED storeVars /\ SameNumbers(req', req) /\ req.pc = "filter" /\ req.route = "cone"
           /\ req'.pc \in {"paused", "answered"}
           /\ DOMAIN req.results = {1} /\ DOMAIN req'.results = {1}
           /\ \E m, quals :
                 /\ quals = QualifyObjects(req.candidates[1] \cup req.results[1].ids, req.spec)
                 /\ IsResult(m) /\ m.total = req.results[1].total
                 /\ req'.results[1] = MarkResult(m, req.candidates[1], quals, req.spec)
                 /\ req'.results[1].total = req.results[1].total
                 /\ req'.results[1].entries = req.results[1].entries
                 /\ \A o \in DOMAIN req.results[1].entries :
                       req'.results[1].marks[o]
                           = MarkOf(o, req.results[1].entries[o].status, quals, req.spec)
<1>1. /\ IsRequest(req) /\ UNCHANGED storeVars /\ req.pc = "filter" /\ req.route = "cone"
      /\ DOMAIN req.results = {1} /\ IsResult(req.results[1])
    BY DEF TruthInv, Shape, ConeRight, MarkPage, Running
<1>2. PICK quals : quals = QualifyObjects(req.candidates[1] \cup req.results[1].ids, req.spec)
    OBVIOUS
<1>3. PICK m : m = MarkEntries(req.results[1], quals, req.spec)
    OBVIOUS
<1>4. PICK res : res = MarkResult(m, req.candidates[1], quals, req.spec)
    OBVIOUS
<1> DEFINE pc == IF req.cone.token.kind # "none" THEN "paused" ELSE "answered"
           results == [req.results EXCEPT ![1] = res]
<1>5. req' = [req EXCEPT !.pc = pc, !.results = results]
    <2>1. req' = [req EXCEPT !.pc = pc,
                             !.results[1] = MarkResult(MarkEntries(@, quals, req.spec),
                                                       req.candidates[1], quals, req.spec)]
        BY <1>2 DEF MarkPage
    <2>2. req' = [req EXCEPT !.pc = pc, !.results[1] = res]
        BY <1>1, <1>3, <1>4, <2>1
    <2> HIDE DEF pc
    <2> QED BY <1>1, <2>2 DEF IsRequest, RequestFields
<1>6. /\ IsResult(m) /\ m.total = req.results[1].total /\ m.entries = req.results[1].entries
      /\ \A o \in DOMAIN req.results[1].entries :
            m.marks[o] = MarkOf(o, req.results[1].entries[o].status, quals, req.spec)
    BY <1>1, <1>3, EntriesMarked
<1>7. res.total = m.total /\ res.entries = m.entries /\ res.marks = m.marks
    BY <1>4, <1>6, ResultMarked
<1>8. DOMAIN results = {1} /\ results[1] = res
    BY <1>1
<1>9. pc \in {"paused", "answered"}
    OBVIOUS
<1> HIDE DEF pc, results
<1>10. req'.pc = pc /\ req'.results = results /\ SameNumbers(req', req)
    BY <1>1, <1>5 DEF IsRequest, RequestFields, SameNumbers, SameRequest
<1>11. /\ req'.results[1] = MarkResult(m, req.candidates[1], quals, req.spec)
       /\ req'.results[1].total = req.results[1].total
       /\ req'.results[1].entries = req.results[1].entries
       /\ \A o \in DOMAIN req.results[1].entries :
             req'.results[1].marks[o] = MarkOf(o, req.results[1].entries[o].status, quals, req.spec)
    BY <1>4, <1>6, <1>7, <1>8, <1>10
<1>12. \E n, q :
          /\ q = QualifyObjects(req.candidates[1] \cup req.results[1].ids, req.spec)
          /\ IsResult(n) /\ n.total = req.results[1].total
          /\ req'.results[1] = MarkResult(n, req.candidates[1], q, req.spec)
          /\ req'.results[1].total = req.results[1].total
          /\ req'.results[1].entries = req.results[1].entries
          /\ \A o \in DOMAIN req.results[1].entries :
                req'.results[1].marks[o] = MarkOf(o, req.results[1].entries[o].status, q, req.spec)
    BY <1>2, <1>6, <1>11
<1>13. DOMAIN req'.results = {1}
    BY <1>8, <1>10
<1> QED BY <1>1, <1>9, <1>10, <1>12, <1>13

-----------------------------------------------------------------------------
\* What an answer has counted so far.  The statuses of the entries are those a
\* count distinguishes:
EntryInv ==
    /\ req.pc = "built" => \A o \in req.asked : req.built[o].status \in ObjectStatuses
    /\ Live => /\ IsFiniteSet(DOMAIN req.results) /\ DOMAIN req.results \subseteq Nat
               /\ \A i \in DOMAIN req.results : \A o \in DOMAIN req.results[i].entries :
                     req.results[i].entries[o].status \in ObjectStatuses
    /\ Answered /\ req.spec.on => MarksKnown(req)

\* The cones of a lookup share what the IDs leave of the budget.
ListedAsTold(q) ==
    LET cones == DOMAIN q.candidates
    IN  /\ Cardinality(Listings(cones, [i \in cones |-> q.results[i].ids])) <= Free(q)
        /\ \A i \in cones :
              /\ q.results[i].ids \subseteq Objects
              /\ q.results[i].total > Cardinality(q.results[i].ids)
                    <=> q.results[i].truncation # "none"
              /\ q.results[i].truncation = "per_input_limit"
                    => Cardinality(q.results[i].ids) = MaxPerCone

LookupNumbers(q) ==
    /\ IsFiniteSet(DOMAIN q.inputs) /\ DOMAIN q.inputs \subseteq Nat
    /\ DOMAIN q.results = DOMAIN q.inputs /\ DOMAIN q.candidates \subseteq ConeInputs(q)
    /\ q.budget = Free(q)
    /\ \A i \in DOMAIN q.results \ DOMAIN q.candidates : q.results[i].total \in {NotACone, NotRun}
    /\ \A i \in DOMAIN q.candidates :
          q.candidates[i] \subseteq Objects /\ q.results[i].total = Cardinality(q.candidates[i])
    /\ ~q.count => ListedAsTold(q)
    /\ q.cut <=> \E i \in DOMAIN q.candidates : q.results[i].truncation = "per_request_limit"

CandidatesInside(q) ==
    \A i \in DOMAIN q.candidates : q.candidates[i] = Inside(CentreOf(q.inputs[i]), Unpinned)

QualifyingRight(q) ==
    \A i \in DOMAIN q.candidates :
        q.results[i].qualifying = Cardinality(Qualified(q.candidates[i], q.spec))

LookupCounted ==
    Live /\ req.route # "cone" =>
        /\ LookupNumbers(req)
        /\ Quiet => CandidatesInside(req)
        /\ Quiet /\ Answered /\ req.spec.on => QualifyingRight(req)

\* A cone counts what is inside, and what of it qualifies, in statements of their
\* own.
ConeCounted ==
    Live /\ req.route = "cone" =>
        /\ req.count => req.cone.after = <<>>
        /\ Quiet /\ req.pc \notin {"page", "total"} => req.results[1].total = Cardinality(PinnedSet)
        /\ Quiet /\ req.spec.on /\ (Building \/ req.pc = "filter") =>
              req.candidates[1] = PinnedSet
        /\ Quiet /\ req.spec.on /\ Answered =>
              req.results[1].qualifying = Cardinality(Qualified(PinnedSet, req.spec))

NumberInv == SinceInv /\ EntryInv /\ LookupCounted /\ ConeCounted

-----------------------------------------------------------------------------
LEMMA StatusesOfEntries ==
    ASSUME NEW o, NEW status, NEW records, NEW matched, NEW matches, NEW brokers, NEW tns,
           NEW detail
    PROVE  EntryFrom(o, status, records, matched, matches, brokers, tns, detail).status
               \in ObjectStatuses
<1>1. EntryFrom(o, status, records, matched, matches, brokers, tns, detail).status
          = StatusFrom(status, CurrentRecord(records), matched)
    BY DEF EntryFrom
<1> QED BY <1>1 DEF StatusFrom, ObjectStatuses

LEMMA BuiltStatuses ==
    ASSUME TruthInv, BuildObjects
    PROVE  \A o \in req'.asked : req'.built[o].status \in ObjectStatuses
<1> DEFINE built == [o \in req.asked |-> EntryOf(o, req.pc = "assoc" /\ rows[o].tns)]
<1>1. req' = [req EXCEPT !.built = built, !.read = NothingRead, !.pc = "built"]
    BY DEF BuildObjects
<1>2. ASSUME NEW o \in req.asked PROVE built[o].status \in ObjectStatuses
    BY StatusesOfEntries DEF EntryOf
<1> HIDE DEF built
<1>3. req'.built = built /\ req'.asked = req.asked
    BY <1>1 DEF TruthInv, Shape, IsRequest, RequestFields
<1> QED BY <1>2, <1>3

\* Numbers that were inherited are still right.
LEMMA NumbersInherited ==
    ASSUME NEW p, NEW q, LookupNumbers(p), SameNumbers(q, p), DOMAIN q.results = DOMAIN p.results,
           \A i \in DOMAIN p.results : q.results[i].total = p.results[i].total,
           \A i \in DOMAIN p.candidates : /\ q.results[i].ids = p.results[i].ids
                                          /\ q.results[i].truncation = p.results[i].truncation
    PROVE  LookupNumbers(q) /\ ConeInputs(q) = ConeInputs(p) /\ IdInputs(q) = IdInputs(p)
<1>1. ConeInputs(q) = ConeInputs(p) /\ IdInputs(q) = IdInputs(p)
    <2>1. q.inputs = p.inputs
        BY DEF SameNumbers, SameRequest
    <2> QED BY <2>1 DEF IdInputs, ConeInputs, ValidOf
<1>2. Free(q) = Free(p)
    BY <1>1 DEF Free
<1>3. q.candidates = p.candidates /\ q.inputs = p.inputs /\ q.count = p.count /\ q.budget = p.budget
      /\ q.cut = p.cut
    BY DEF SameNumbers, SameRequest
<1>4. DOMAIN p.candidates \subseteq DOMAIN p.results
    BY InputsByKind DEF LookupNumbers
<1>5. ASSUME ~q.count PROVE ListedAsTold(q)
    <2>1. ListedAsTold(p)
        BY <1>3, <1>5 DEF LookupNumbers
    <2>2. [i \in DOMAIN q.candidates |-> q.results[i].ids]
              = [i \in DOMAIN p.candidates |-> p.results[i].ids]
        BY <1>3
    <2>3. \A i \in DOMAIN p.candidates : q.results[i].total = p.results[i].total
        BY <1>4
    <2>4. Cardinality(Listings(DOMAIN q.candidates,
                               [i \in DOMAIN q.candidates |-> q.results[i].ids])) <= Free(q)
        BY <1>2, <1>3, <2>1, <2>2 DEF ListedAsTold
    <2>5. \A i \in DOMAIN q.candidates :
              /\ q.results[i].ids \subseteq Objects
              /\ q.results[i].total > Cardinality(q.results[i].ids)
                    <=> q.results[i].truncation # "none"
              /\ q.results[i].truncation = "per_input_limit"
                    => Cardinality(q.results[i].ids) = MaxPerCone
        BY <1>3, <2>1, <2>3 DEF ListedAsTold
    <2> QED BY <2>4, <2>5 DEF ListedAsTold
<1>6. \A i \in DOMAIN q.candidates :
          q.candidates[i] \subseteq Objects /\ q.results[i].total = Cardinality(q.candidates[i])
    BY <1>3, <1>4 DEF LookupNumbers
<1>7. \A i \in DOMAIN q.results \ DOMAIN q.candidates : q.results[i].total \in {NotACone, NotRun}
    BY <1>3 DEF LookupNumbers
<1>8. q.cut <=> \E i \in DOMAIN q.candidates : q.results[i].truncation = "per_request_limit"
    BY <1>3 DEF LookupNumbers
<1> QED BY <1>1, <1>2, <1>3, <1>5, <1>6, <1>7, <1>8 DEF LookupNumbers

LEMMA InsideIsObjects ==
    ASSUME NEW c, NEW pin
    PROVE  /\ Inside(c, pin) \subseteq Objects /\ IsFiniteSet(Inside(c, pin))
           /\ Cardinality(Inside(c, pin)) \in Nat /\ \A o \in Inside(c, pin) : Committed(o)
<1>1. Inside(c, pin) \in SUBSET Objects /\ \A o \in Inside(c, pin) : Committed(o)
    BY DEF Inside
<1> QED BY <1>1, ConstantsTyped, FS_Subset, FS_CardinalityType

LEMMA QuietGoesOn ==
    ASSUME SinceInv, req'.since = req.since, writes' = writes + 1 \/ (writes' = writes /\ Rests)
    PROVE  SinceInv' /\ (Quiet' => Quiet /\ Rests)
BY DEF SinceInv, Quiet

\* Commits, and the statements that build entries, count nothing.
LEMMA NumbersKept ==
    ASSUME TruthInv, NumberInv, NumbersStay,
           req'.pc = "built" => \A o \in req'.asked : req'.built[o].status \in ObjectStatuses
    PROVE  NumberInv'
<1>1. /\ SameNumbers(req', req) /\ req'.results = req.results
      /\ req'.pc = req.pc \/ (Building /\ Building')
    BY DEF NumbersStay
<1>2. (Live' <=> Live) /\ (Answered' <=> Answered) /\ (Building' <=> Building)
      /\ \A p \in {"page", "total", "filter"} : req'.pc = p <=> req.pc = p
    BY <1>1 DEF Live, Running, Answered, Building, Gathering
<1>3. SinceInv' /\ (Quiet' => Quiet /\ Rests)
    BY <1>1, QuietGoesOn DEF NumberInv, NumbersStay, SameNumbers, SameRequest
<1>4. /\ req'.route = req.route /\ req'.spec = req.spec /\ req'.count = req.count
      /\ req'.candidates = req.candidates /\ req'.inputs = req.inputs
      /\ req'.cone.centre = req.cone.centre /\ req'.cone.asOf = req.cone.asOf
      /\ req'.cone.after = req.cone.after
    BY <1>1 DEF SameNumbers, SameRequest
<1>5. EntryInv'
    <2>1. Answered' /\ req'.spec.on => MarksKnown(req')
        BY <1>1, <1>2, <1>4 DEF NumberInv, EntryInv, MarksKnown
    <2> QED BY <1>1, <1>2, <2>1 DEF NumberInv, EntryInv
<1>6. LookupCounted'
    <2> SUFFICES ASSUME Live', req'.route # "cone"
                 PROVE  /\ LookupNumbers(req')
                        /\ Quiet' => CandidatesInside(req)'
                        /\ Quiet' /\ Answered' /\ req'.spec.on => QualifyingRight(req)'
        BY DEF LookupCounted
    <2>1. LookupCounted /\ Live /\ req.route # "cone"
        BY <1>2, <1>4 DEF NumberInv
    <2>2. LookupNumbers(req')
        BY <1>1, <2>1, NumbersInherited DEF LookupCounted
    <2>3. ASSUME Quiet' PROVE CandidatesInside(req) /\ CandidatesInside(req)'
        BY <1>3, <1>4, <2>1, <2>3, InsideRests DEF LookupCounted, CandidatesInside
    <2>4. ASSUME Quiet', Answered', req'.spec.on PROVE QualifyingRight(req)'
        <3>1. CandidatesInside(req) /\ QualifyingRight(req) /\ Rests
            BY <1>2, <1>3, <1>4, <2>1, <2>3, <2>4 DEF LookupCounted
        <3>2. ASSUME NEW i \in DOMAIN req.candidates
              PROVE  Qualified(req.candidates[i], req.spec)' = Qualified(req.candidates[i], req.spec)
            <4>1. req.candidates[i] \subseteq Objects /\ \A o \in req.candidates[i] : Committed(o)
                BY <3>1, InsideIsObjects DEF CandidatesInside
            <4>2. \A S, spec : S \subseteq Objects /\ (\A o \in S : Committed(o)) =>
                                   Qualified(S, spec)' = Qualified(S, spec)
                BY <3>1, QualifiedRests
            <4> QED BY <1>4, <4>1, <4>2
        <3> QED BY <1>1, <1>4, <3>1, <3>2 DEF QualifyingRight
    <2> QED BY <2>2, <2>3, <2>4
<1>7. ConeCounted'
    <2> SUFFICES ASSUME Live', req'.route = "cone"
                 PROVE  /\ req'.count => req'.cone.after = <<>>
                        /\ Quiet' /\ req'.pc \notin {"page", "total"} =>
                              req'.results[1].total = Cardinality(PinnedSet')
                        /\ Quiet' /\ req'.spec.on /\ (Building' \/ req'.pc = "filter") =>
                              req'.candidates[1] = PinnedSet'
                        /\ Quiet' /\ req'.spec.on /\ Answered' =>
                              req'.results[1].qualifying = Cardinality(Qualified(PinnedSet, req.spec)')
        BY DEF ConeCounted
    <2>1. ConeCounted /\ Live /\ req.route = "cone"
        BY <1>2, <1>4 DEF NumberInv
    <2>2. ASSUME Quiet'
          PROVE  /\ PinnedSet' = PinnedSet
                 /\ Qualified(PinnedSet, req.spec)' = Qualified(PinnedSet, req.spec)
        <3>1. PinnedSet' = PinnedSet
            BY <1>3, <1>4, <2>2, InsideRests DEF PinnedSet
        <3>2. PinnedSet \subseteq Objects /\ \A o \in PinnedSet : Committed(o)
            BY InsideIsObjects DEF PinnedSet
        <3>3. \A S, spec : S \subseteq Objects /\ (\A o \in S : Committed(o)) =>
                               Qualified(S, spec)' = Qualified(S, spec)
            BY <1>3, <2>2, QualifiedRests
        <3> QED BY <1>4, <3>1, <3>2, <3>3
    <2> QED BY <1>1, <1>2, <1>3, <1>4, <2>1, <2>2 DEF ConeCounted
<1> QED BY <1>3, <1>5, <1>6, <1>7 DEF NumberInv

-----------------------------------------------------------------------------
\* A lookup, step by step.
LEMMA BudgetIsNatural ==
    ASSUME NEW q, IsFiniteSet(DOMAIN q.inputs)
    PROVE  Free(q) \in Nat
<1>1. IdInputs(q) \in SUBSET (DOMAIN q.inputs)
    BY InputsByKind
<1>2. Cardinality(IdInputs(q)) \in Nat
    BY <1>1, FS_Subset, FS_CardinalityType
<1>3. MaxListed \in Nat
    BY LookupAssumption
<1> QED BY <1>2, <1>3 DEF Free

LEMMA NothingCounted ==
    ASSUME NEW q, IsFiniteSet(DOMAIN q.inputs), DOMAIN q.inputs \subseteq Nat,
           DOMAIN q.results = DOMAIN q.inputs, DOMAIN q.candidates = {}, q.budget = Free(q),
           ~q.cut, \A i \in DOMAIN q.results : q.results[i].total \in {NotACone, NotRun}
    PROVE  LookupNumbers(q) /\ CandidatesInside(q) /\ QualifyingRight(q)
<1>1. Free(q) \in Nat
    BY BudgetIsNatural
<1>2. ListedAsTold(q)
    <2>1. PICK A : A = [i \in DOMAIN q.candidates |-> q.results[i].ids]
        OBVIOUS
    <2>2. Listings(DOMAIN q.candidates, A) = {}
        BY DEF Listings
    <2>3. Cardinality(Listings(DOMAIN q.candidates, A)) <= Free(q)
        BY <1>1, <2>2, FS_EmptySet
    <2> QED BY <2>1, <2>3 DEF ListedAsTold
<1> QED BY <1>2 DEF LookupNumbers, CandidatesInside, QualifyingRight

LEMMA SinceStays ==
    ASSUME SinceInv, UNCHANGED storeVars, req'.since \in {req.since, writes}
    PROVE  SinceInv'
BY DEF SinceInv, storeVars

LEMMA RefusedCountsNothing ==
    ASSUME NumberInv, UNCHANGED storeVars, req'.pc = "refused", req'.since = req.since
    PROVE  NumberInv'
<1>1. ~Live' /\ ~Answered'
    BY DEF Live, Running, Answered
<1>2. SinceInv'
    BY SinceStays DEF NumberInv
<1> QED BY <1>1, <1>2 DEF NumberInv, EntryInv, LookupCounted, ConeCounted

LEMMA SubmitNumbers ==
    ASSUME TruthInv, NumberInv, NEW r, NEW migrated, NEW n \in Nat, DOMAIN r.inputs = 1 .. n,
           r.route # "cone", Submit(r, migrated)
    PROVE  NumberInv'
<1>1. /\ UNCHANGED storeVars
      /\ \/ req'.pc = "refused" /\ req'.since = req.since
         \/ /\ Uncounted(req') /\ req'.route = r.route /\ DOMAIN req'.inputs = DOMAIN r.inputs
            /\ req'.pc \in {"filter", "answered", "alerts", "names", "search"}
            /\ req'.pc = "answered" => ~req'.spec.on
    BY SubmitCounts
<1>2. CASE req'.pc = "refused" /\ req'.since = req.since
    BY <1>1, <1>2, RefusedCountsNothing
<1>3. CASE req'.pc # "refused"
    <2>1. /\ Uncounted(req') /\ req'.route # "cone" /\ DOMAIN req'.inputs = 1 .. n
          /\ req'.pc \in {"filter", "answered", "alerts", "names", "search"}
          /\ req'.pc = "answered" => ~req'.spec.on
        BY <1>1, <1>3
    <2>2. IsFiniteSet(DOMAIN req'.inputs) /\ DOMAIN req'.inputs \subseteq Nat
        BY <2>1, FS_Interval
    <2>3. \A i \in DOMAIN req'.results : /\ req'.results[i].total = NotACone
                                        /\ DOMAIN req'.results[i].entries = {}
        BY <2>1, NewResults DEF Uncounted
    <2>4. LookupNumbers(req')
        BY <2>1, <2>2, <2>3, NothingCounted DEF Uncounted
    <2>5. CandidatesInside(req)'
        BY <2>1 DEF Uncounted, CandidatesInside
    <2>6. QualifyingRight(req)'
        BY <2>1 DEF Uncounted, QualifyingRight
    <2>7. SinceInv'
        BY <1>1, <2>1, SinceStays DEF NumberInv, Uncounted
    <2>8. EntryInv'
        BY <2>1, <2>2, <2>3 DEF EntryInv, Uncounted, Answered
    <2> QED BY <2>1, <2>4, <2>5, <2>6, <2>7, <2>8 DEF NumberInv, LookupCounted, ConeCounted
<1> QED BY <1>1, <1>2, <1>3

\* Before the cones are searched there are no candidates.
LEMMA NoCandidatesYet ==
    ASSUME TruthInv, NumberInv, req.pc \in {"names", "search"}
    PROVE  /\ req.route # "cone" /\ Live /\ LookupNumbers(req) /\ DOMAIN req.candidates = {} /\ ~req.cut
           /\ \A i \in DOMAIN req.results : req.results[i].total \in {NotACone, NotRun}
<1>1. req.route # "cone" /\ Running /\ Live
    BY DEF TruthInv, ConeRight, Running, Live
<1>2. LookupNumbers(req)
    BY <1>1 DEF NumberInv, LookupCounted
<1>3. DOMAIN req.candidates = {}
    BY <1>1 DEF TruthInv, LookupRight, ConeAhead
<1>4. /\ ~req.cut /\ \A i \in DOMAIN req.results : req.results[i].total \in {NotACone, NotRun}
    BY <1>2, <1>3 DEF LookupNumbers
<1> QED BY <1>1, <1>2, <1>3, <1>4

LEMMA NamesNumbers ==
    ASSUME TruthInv, NumberInv, ResolveNames
    PROVE  NumberInv'
<1>1. /\ UNCHANGED storeVars /\ SameNumbers(req', req) /\ req.pc = "names" /\ req'.pc = "search"
      /\ DOMAIN req'.results = DOMAIN req.results
      /\ \A i \in DOMAIN req.results :
            \/ req'.results[i] = req.results[i]
            \/ \E status : req'.results[i] = NewResult(status, NotRun)
    BY NamesCount
<1>2. /\ req.route # "cone" /\ Live /\ LookupNumbers(req) /\ DOMAIN req.candidates = {} /\ ~req.cut
      /\ \A i \in DOMAIN req.results : req.results[i].total \in {NotACone, NotRun}
    BY <1>1, NoCandidatesYet
<1>3. /\ req'.route # "cone" /\ req'.inputs = req.inputs /\ req'.candidates = req.candidates
      /\ req'.since = req.since /\ req'.budget = req.budget /\ ~req'.cut
    BY <1>1, <1>2 DEF SameNumbers, SameRequest
<1>4. \A i \in DOMAIN req'.results : req'.results[i].total \in {NotACone, NotRun}
    BY <1>1, <1>2, NewResults
<1>5. /\ IsFiniteSet(DOMAIN req'.inputs) /\ DOMAIN req'.inputs \subseteq Nat
      /\ DOMAIN req'.results = DOMAIN req'.inputs /\ req'.budget = Free(req')
    <2>1. IdInputs(req') = IdInputs(req)
        BY <1>3 DEF IdInputs, ValidOf
    <2> QED BY <1>1, <1>2, <1>3, <2>1 DEF LookupNumbers, Free
<1>6. DOMAIN req'.candidates = {}
    BY <1>2, <1>3
<1>7. LookupNumbers(req')
    BY <1>3, <1>4, <1>5, <1>6, NothingCounted
<1>8. CandidatesInside(req)'
    BY <1>6 DEF CandidatesInside
<1>9. EntryInv'
    <2>1. ASSUME NEW i \in DOMAIN req'.results, NEW o \in DOMAIN req'.results[i].entries
          PROVE  req'.results[i].entries[o].status \in ObjectStatuses
        <3>1. \A status : DOMAIN NewResult(status, NotRun).entries = {}
            BY NewResults
        <3>2. req'.results[i] = req.results[i]
            BY <1>1, <2>1, <3>1
        <3> QED BY <1>1, <1>2, <2>1, <3>2 DEF NumberInv, EntryInv
    <2> QED BY <1>1, <1>5, <2>1 DEF EntryInv, Answered
<1>10. SinceInv'
    BY <1>1, <1>3, SinceStays DEF NumberInv
<1>11. ~Answered'
    BY <1>1 DEF Answered
<1> QED BY <1>3, <1>7, <1>8, <1>9, <1>10, <1>11 DEF NumberInv, LookupCounted, ConeCounted

LEMMA AssembleNumbers ==
    ASSUME TruthInv, NumberInv, Assemble
    PROVE  NumberInv'
<1>1. /\ UNCHANGED storeVars /\ SameNumbers(req', req) /\ req.pc = "built" /\ req.route # "cone"
      /\ req'.pc \in {"filter", "answered", "alerts", "names", "search"}
      /\ req'.pc = "answered" => ~req'.spec.on
      /\ DOMAIN req'.results = DOMAIN req.results
      /\ \A i \in DOMAIN req.results :
            /\ req'.results[i].total = req.results[i].total
            /\ req'.results[i].truncation = req.results[i].truncation
            /\ i \in ConeInputs(req) => req'.results[i].ids = req.results[i].ids
            /\ \A o \in DOMAIN req'.results[i].entries :
                  \/ /\ o \in DOMAIN req.results[i].entries
                     /\ req'.results[i].entries[o] = req.results[i].entries[o]
                  \/ o \in req.asked /\ req'.results[i].entries[o] = req.built[o]
    BY AssembleCounts
<1>2. Live /\ LookupNumbers(req) /\ (Quiet => CandidatesInside(req))
    BY <1>1 DEF Live, Running, NumberInv, LookupCounted
<1>3. req'.route # "cone" /\ req'.inputs = req.inputs /\ req'.candidates = req.candidates
      /\ req'.since = req.since
    BY <1>1 DEF SameNumbers, SameRequest
<1>4. DOMAIN req.candidates \subseteq ConeInputs(req) /\ ConeInputs(req) \subseteq DOMAIN req.results
    BY <1>2, InputsByKind DEF LookupNumbers
<1>5. LookupNumbers(req')
    BY <1>1, <1>2, <1>4, NumbersInherited
<1>6. Rests /\ writes' = writes
    BY <1>1, RestIsQuiet DEF storeVars
<1>7. Quiet' => CandidatesInside(req)'
    BY <1>2, <1>3, <1>6, InsideRests DEF Quiet, CandidatesInside
<1>8. EntryInv'
    <2>1. ASSUME NEW i \in DOMAIN req'.results, NEW o \in DOMAIN req'.results[i].entries
          PROVE  req'.results[i].entries[o].status \in ObjectStatuses
        BY <1>1, <1>2, <2>1 DEF NumberInv, EntryInv
    <2> QED BY <1>1, <1>2, <2>1 DEF NumberInv, EntryInv, Answered
<1>9. SinceInv'
    BY <1>1, <1>3, SinceStays DEF NumberInv
<1>10. Answered' => ~req'.spec.on
    BY <1>1 DEF Answered
<1> QED BY <1>3, <1>5, <1>7, <1>8, <1>9, <1>10 DEF NumberInv, LookupCounted, ConeCounted

-----------------------------------------------------------------------------
\* A cone lists no more than its share, nor than what is left for it.
InsideOf(q, i) == Inside(CentreOf(q.inputs[i]), Unpinned)

LEMMA ShareCounts ==
    ASSUME StoreTyped, NEW q, NEW i
    PROVE  /\ InsideOf(q, i) \subseteq Objects /\ Share(q, i) \subseteq InsideOf(q, i)
           /\ Cardinality(InsideOf(q, i)) \in Nat /\ Cardinality(Share(q, i)) \in Nat
           /\ IsFiniteSet(Share(q, i))
           /\ InsideOf(q, i) # Share(q, i) =>
                 /\ Cardinality(Share(q, i)) = MaxPerCone
                 /\ Cardinality(InsideOf(q, i)) > Cardinality(Share(q, i))
<1>1. PICK all : all = InsideOf(q, i)
    OBVIOUS
<1>2. PICK share : share = Share(q, i)
    OBVIOUS
<1>3. all \subseteq Objects /\ IsFiniteSet(all) /\ Cardinality(all) \in Nat
    BY <1>1, InsideIsObjects DEF InsideOf
<1>4. share = Leading(all, MaxPerCone, Sooner)
    BY <1>1, <1>2 DEF Share, InsideOf
<1>5. MaxPerCone \in Nat
    BY LookupAssumption
<1>6. /\ share \subseteq all /\ (Cardinality(all) <= MaxPerCone => share = all)
      /\ MaxPerCone <= Cardinality(all) => Cardinality(share) = MaxPerCone
    BY <1>3, <1>4, <1>5, LeadingCounts
<1>7. IsFiniteSet(share) /\ Cardinality(share) \in Nat
    BY <1>3, <1>6, FS_Subset, FS_CardinalityType
<1>8. all # share => Cardinality(share) = MaxPerCone /\ Cardinality(all) > Cardinality(share)
    BY <1>3, <1>5, <1>6
<1> QED BY <1>1, <1>2, <1>3, <1>6, <1>7, <1>8

LEMMA LeftCounts ==
    ASSUME StoreTyped, NEW q, NEW S, S = Searched(q), IsFiniteSet(S), S \subseteq Nat, q.budget \in Nat,
           NEW B, \A j \in S : B[j] = Share(q, j), NEW i \in S,
           NEW spent, spent = Cardinality(Listings(EarlierThan(S, i), B))
    PROVE  spent \in Nat /\ LeftFor(q, i) = IF spent > q.budget THEN 0 ELSE q.budget - spent
<1>1. PICK before : before = {j \in S : j < i}
    OBVIOUS
<1>2. PICK f : f = [j \in before |-> Cardinality(Share(q, j))]
    OBVIOUS
<1>3. before \in SUBSET S /\ before = EarlierThan(S, i)
    BY <1>1 DEF EarlierThan
<1>4. IsFiniteSet(before)
    BY <1>3, FS_Subset
<1>5. \A j \in before : B[j] \subseteq Objects /\ TermOf(f, j) = Cardinality(B[j])
    BY <1>2, <1>3, ShareCounts DEF TermOf
<1>6. SumOf(f, before) = spent /\ spent \in Nat
    BY <1>3, <1>4, <1>5, SumOfSizes
<1>7. LeftFor(q, i) = IF SumOf(f, before) > q.budget THEN 0 ELSE q.budget - SumOf(f, before)
    <2>1. before = {j \in Searched(q) : j < i}
        BY <1>1
    <2> QED BY <1>2, <2>1 DEF LeftFor
<1> QED BY <1>6, <1>7

LEMMA ConeCounts ==
    ASSUME StoreTyped, NEW q, NEW i, LeftFor(q, i) \in Nat, NEW r, r = ConeResult(q, i)
    PROVE  /\ r.total = Cardinality(InsideOf(q, i)) /\ DOMAIN r.entries = {}
           /\ ~q.count =>
                 /\ r.ids \subseteq Share(q, i) /\ Cardinality(r.ids) <= LeftFor(q, i)
                 /\ r.total > Cardinality(r.ids) <=> r.truncation # "none"
                 /\ r.truncation = "per_input_limit" => Cardinality(r.ids) = MaxPerCone
<1>1. PICK all : all = InsideOf(q, i)
    OBVIOUS
<1>2. PICK share : share = Share(q, i)
    OBVIOUS
<1>3. PICK left : left = LeftFor(q, i)
    OBVIOUS
<1>4. PICK base : base = NewResult(FoundOrNot(Cardinality(all)), Cardinality(all))
    OBVIOUS
<1>5. IsResult(base) /\ base.total = Cardinality(all) /\ DOMAIN base.entries = {}
    BY <1>4, NewResults
<1>6. PICK over \in BOOLEAN : over <=> Cardinality(share) > left
    OBVIOUS
<1>7. PICK ids : ids = IF over THEN Leading(share, left, Sooner) ELSE share
    OBVIOUS
<1>8. PICK cut : cut = IF over THEN "per_request_limit"
                       ELSE IF all # share THEN "per_input_limit" ELSE "none"
    OBVIOUS
<1>9. r = IF q.count THEN [base EXCEPT !.ids = all]
          ELSE [base EXCEPT !.ids = ids, !.truncation = cut]
    BY <1>1, <1>2, <1>3, <1>4, <1>6, <1>7, <1>8 DEF ConeResult, InsideOf
<1>10. /\ r.total = Cardinality(all) /\ DOMAIN r.entries = {}
       /\ ~q.count => r.ids = ids /\ r.truncation = cut
    BY <1>5, <1>9 DEF IsResult, ResultFields
<1>11. /\ all \subseteq Objects /\ share \subseteq all
       /\ Cardinality(all) \in Nat /\ Cardinality(share) \in Nat /\ IsFiniteSet(share)
       /\ all # share => /\ Cardinality(share) = MaxPerCone
                         /\ Cardinality(all) > Cardinality(share)
    BY <1>1, <1>2, ShareCounts
<1>12. IsFiniteSet(all)
    BY <1>11, ConstantsTyped, FS_Subset
<1>13. Cardinality(share) <= Cardinality(all)
    BY <1>11, <1>12, FS_Subset
<1>14. /\ ids \subseteq share /\ Cardinality(ids) <= left
       /\ Cardinality(all) > Cardinality(ids) <=> cut # "none"
       /\ cut = "per_input_limit" => Cardinality(ids) = MaxPerCone
    <2>1. CASE over
        <3>1. left \in Nat /\ share \subseteq Objects
            BY <1>3, <1>11
        <3>2. /\ Leading(share, left, Sooner) \subseteq share
              /\ left <= Cardinality(share) => Cardinality(Leading(share, left, Sooner)) = left
            BY <3>1, LeadingCounts
        <3>3. ids = Leading(share, left, Sooner) /\ cut = "per_request_limit"
            BY <1>7, <1>8, <2>1
        <3>4. Cardinality(ids) = left /\ Cardinality(share) > left
            BY <1>6, <1>11, <2>1, <3>1, <3>2, <3>3
        <3> QED BY <1>11, <1>13, <3>1, <3>2, <3>3, <3>4
    <2>2. CASE ~over
        <3>1. ids = share /\ cut = IF all # share THEN "per_input_limit" ELSE "none"
            BY <1>7, <1>8, <2>2
        <3>2. Cardinality(share) <= left
            BY <1>3, <1>6, <1>11, <2>2
        <3> QED BY <1>11, <3>1, <3>2
    <2> QED BY <2>1, <2>2
<1> QED BY <1>1, <1>2, <1>3, <1>10, <1>14

LEMMA SearchListsAsTold ==
    ASSUME StoreTyped, NEW p, NEW q, NEW S, S = Searched(p), IsFiniteSet(S), S \subseteq Nat,
           p.budget \in Nat, Free(q) = p.budget, ~p.count, DOMAIN q.candidates = S,
           \A i \in S : q.results[i] = ConeResult(p, i)
    PROVE  ListedAsTold(q)
<1>1. PICK A : A = [i \in S |-> q.results[i].ids]
    OBVIOUS
<1>2. PICK B : B = [i \in S |-> Share(p, i)]
    OBVIOUS
<1>3. PICK spent : spent = [i \in S |-> Cardinality(Listings(EarlierThan(S, i), B))]
    OBVIOUS
<1>4. ASSUME NEW i \in S
      PROVE  /\ spent[i] \in Nat
             /\ LeftFor(p, i) = IF spent[i] > p.budget THEN 0 ELSE p.budget - spent[i]
    <2>1. spent[i] = Cardinality(Listings(EarlierThan(S, i), B))
        BY <1>3
    <2>2. \A j \in S : B[j] = Share(p, j)
        BY <1>2
    <2> QED BY <2>1, <2>2, LeftCounts
<1>5. ASSUME NEW i \in S
      PROVE  /\ A[i] \subseteq B[i] /\ B[i] \subseteq Objects /\ Cardinality(A[i]) <= LeftFor(p, i)
             /\ q.results[i].total > Cardinality(q.results[i].ids)
                   <=> q.results[i].truncation # "none"
             /\ q.results[i].truncation = "per_input_limit"
                   => Cardinality(q.results[i].ids) = MaxPerCone
    <2>1. LeftFor(p, i) \in Nat
        BY <1>4
    <2>2. PICK r : r = q.results[i]
        OBVIOUS
    <2>3. r = ConeResult(p, i)
        BY <2>2
    <2>4. /\ r.ids \subseteq Share(p, i) /\ Cardinality(r.ids) <= LeftFor(p, i)
          /\ r.total > Cardinality(r.ids) <=> r.truncation # "none"
          /\ r.truncation = "per_input_limit" => Cardinality(r.ids) = MaxPerCone
        BY <2>1, <2>3, ConeCounts
    <2>5. A[i] = r.ids /\ B[i] = Share(p, i)
        BY <1>1, <1>2, <2>2
    <2>6. B[i] \subseteq Objects
        BY <2>5, ShareCounts
    <2> QED BY <2>2, <2>4, <2>5, <2>6
<1>6. \A i \in S : A[i] \subseteq Objects /\ B[i] \subseteq Objects /\ A[i] \subseteq B[i]
    BY <1>5
<1>7. \A i \in S : spent[i] = Cardinality(Listings(EarlierThan(S, i), B))
    BY <1>3
<1>8. \A i \in S : Cardinality(A[i]) <= IF spent[i] > p.budget THEN 0 ELSE p.budget - spent[i]
    BY <1>4, <1>5
<1>9. Cardinality(Listings(S, A)) <= p.budget
    BY <1>6, <1>7, <1>8, BudgetIsKept
<1>10. \A i \in S : q.results[i].ids \subseteq Objects
    BY <1>1, <1>6
<1> QED BY <1>1, <1>5, <1>9, <1>10 DEF ListedAsTold

LEMMA SearchNumbers ==
    ASSUME TruthInv, NumberInv, SearchAll
    PROVE  NumberInv'
<1>1. PICK S : S = Searched(req)
    OBVIOUS
<1>2. /\ UNCHANGED storeVars /\ SameRequest(req', req) /\ req.pc = "search" /\ req'.pc = "alerts"
      /\ DOMAIN req'.results = DOMAIN req.results /\ DOMAIN req'.candidates = S
      /\ \A i \in DOMAIN req.results :
            req'.results[i] = IF i \in S THEN ConeResult(req, i) ELSE req.results[i]
      /\ \A i \in S : req'.candidates[i] = InsideOf(req, i)
      /\ req'.cut <=> \E i \in S : req'.results[i].truncation = "per_request_limit"
    BY <1>1, SearchCounts DEF InsideOf
<1>3. /\ req.route # "cone" /\ Live /\ LookupNumbers(req) /\ DOMAIN req.candidates = {}
      /\ \A i \in DOMAIN req.results : req.results[i].total \in {NotACone, NotRun}
    BY <1>2, NoCandidatesYet
<1>4. /\ req'.route # "cone" /\ req'.inputs = req.inputs /\ req'.budget = req.budget
      /\ req'.since = req.since /\ req'.count = req.count
    BY <1>2, <1>3 DEF SameRequest
<1>5. /\ IsFiniteSet(DOMAIN req.inputs) /\ DOMAIN req.inputs \subseteq Nat /\ req.budget = Free(req)
      /\ DOMAIN req.results = DOMAIN req.inputs
    BY <1>3 DEF LookupNumbers
<1>6. IdInputs(req') = IdInputs(req) /\ ConeInputs(req') = ConeInputs(req)
    BY <1>4, InputsByKind
<1>7. /\ S \subseteq ConeInputs(req) /\ ConeInputs(req) \subseteq DOMAIN req.inputs
    BY <1>1, InputsByKind DEF Searched
<1>8. IsFiniteSet(S) /\ S \subseteq Nat /\ S \subseteq DOMAIN req.results
    BY <1>5, <1>7, FS_Subset
<1>9. Free(req') = Free(req) /\ Free(req) \in Nat
    BY <1>5, <1>6, BudgetIsNatural DEF Free
<1>10. StoreTyped
    BY DEF TruthInv, Shape
<1>11. ASSUME NEW i \in S PROVE LeftFor(req, i) \in Nat
    <2>1. PICK B : B = [j \in S |-> Share(req, j)]
        OBVIOUS
    <2>2. \A j \in S : B[j] = Share(req, j)
        BY <2>1
    <2>3. PICK spent : spent = Cardinality(Listings(EarlierThan(S, i), B))
        OBVIOUS
    <2>4. req.budget \in Nat
        BY <1>5, <1>9
    <2>5. spent \in Nat /\ LeftFor(req, i) = IF spent > req.budget THEN 0 ELSE req.budget - spent
        BY <1>1, <1>8, <1>10, <2>2, <2>3, <2>4, LeftCounts
    <2> QED BY <2>4, <2>5
<1>12. ASSUME NEW i \in S
       PROVE  /\ req'.candidates[i] = InsideOf(req', i) /\ req'.candidates[i] \subseteq Objects
              /\ req'.results[i].total = Cardinality(req'.candidates[i])
              /\ DOMAIN req'.results[i].entries = {}
    <2>1. PICK r : r = ConeResult(req, i)
        OBVIOUS
    <2>2. r.total = Cardinality(InsideOf(req, i)) /\ DOMAIN r.entries = {}
        BY <1>10, <1>11, <2>1, ConeCounts
    <2>3. req'.results[i] = r
        BY <1>2, <1>8, <2>1
    <2>4. InsideOf(req, i) \subseteq Objects /\ InsideOf(req', i) = InsideOf(req, i)
        BY <1>4, <1>10, ShareCounts DEF InsideOf
    <2> QED BY <1>2, <2>2, <2>3, <2>4
<1>13. \A i \in DOMAIN req'.results \ S : req'.results[i].total \in {NotACone, NotRun}
    BY <1>2, <1>3
<1>14. ~req'.count => ListedAsTold(req')
    <2> SUFFICES ASSUME ~req'.count PROVE ListedAsTold(req')
        OBVIOUS
    <2>1. req.budget \in Nat /\ Free(req') = req.budget /\ ~req.count
        BY <1>4, <1>5, <1>9
    <2>2. \A i \in S : req'.results[i] = ConeResult(req, i)
        BY <1>2, <1>8
    <2>3. PICK q : q = req'
        OBVIOUS
    <2>4. /\ Free(q) = req.budget /\ DOMAIN q.candidates = S
          /\ \A i \in S : q.results[i] = ConeResult(req, i)
        BY <1>2, <2>1, <2>2, <2>3
    <2>5. ListedAsTold(q)
        BY <1>1, <1>8, <1>10, <2>1, <2>4, SearchListsAsTold
    <2> QED BY <2>3, <2>5
<1>15. LookupNumbers(req')
    <2>1. S \subseteq ConeInputs(req')
        BY <1>6, <1>7
    <2>2. req'.budget = Free(req') /\ DOMAIN req'.results = DOMAIN req'.inputs
        BY <1>2, <1>4, <1>5, <1>9
    <2>3. IsFiniteSet(DOMAIN req'.inputs) /\ DOMAIN req'.inputs \subseteq Nat
        BY <1>4, <1>5
    <2> QED BY <1>2, <1>12, <1>13, <1>14, <2>1, <2>2, <2>3 DEF LookupNumbers
<1>16. CandidatesInside(req)'
    <2>1. Unpinned' = Unpinned
        BY DEF Unpinned
    <2>2. Rests
        BY <1>2, RestIsQuiet DEF storeVars
    <2>3. ASSUME NEW i \in S
          PROVE  Inside(CentreOf(req.inputs[i]), Unpinned)' = Inside(CentreOf(req'.inputs[i]), Unpinned)
        BY <1>4, <2>2, InsideRests
    <2>4. \A i \in S : req'.candidates[i] = Inside(CentreOf(req'.inputs[i]), Unpinned)
        BY <1>12 DEF InsideOf
    <2> QED BY <1>2, <1>4, <2>3, <2>4 DEF CandidatesInside
<1>17. EntryInv'
    <2>1. ASSUME NEW i \in DOMAIN req'.results, NEW o \in DOMAIN req'.results[i].entries
          PROVE  req'.results[i].entries[o].status \in ObjectStatuses
        <3>1. i \notin S /\ req'.results[i] = req.results[i]
            BY <1>2, <1>12, <2>1
        <3> QED BY <1>2, <1>3, <2>1, <3>1 DEF NumberInv, EntryInv
    <2>2. IsFiniteSet(DOMAIN req'.results) /\ DOMAIN req'.results \subseteq Nat
        BY <1>2, <1>5
    <2> QED BY <1>2, <2>1, <2>2 DEF EntryInv, Answered
<1>18. SinceInv'
    BY <1>2, <1>4, SinceStays DEF NumberInv
<1>19. ~Answered'
    BY <1>2 DEF Answered
<1> QED BY <1>4, <1>15, <1>16, <1>17, <1>18, <1>19 DEF NumberInv, LookupCounted, ConeCounted

\* The reason of an object is one that a count reports.
LEMMA MarkIsKnown ==
    ASSUME NEW o, NEW status \in ObjectStatuses, NEW ids, NEW spec, NEW quals,
           quals = QualifyObjects(ids, spec), NEW mark, mark = MarkOf(o, status, quals, spec)
    PROVE  mark.reason \in ObjectReasons /\ (mark.yes <=> mark.reason = "meets_filters")
<1>1. CASE o \notin DOMAIN quals \/ status = "not_in_service"
    <2>1. mark = [yes |-> FALSE, reason |-> "not_in_service"]
        BY <1>1 DEF MarkOf
    <2> QED BY <2>1 DEF ObjectReasons
<1>2. CASE ~(o \notin DOMAIN quals \/ status = "not_in_service")
    <2>1. mark = IF ~quals[o].object THEN [yes |-> FALSE, reason |-> "object_filters_not_met"]
                 ELSE IF quals[o].match THEN [yes |-> TRUE, reason |-> "meets_filters"]
                 ELSE IF status = "coincident_sources"
                      THEN [yes |-> FALSE, reason |-> "no_source_meets_filters"]
                 ELSE [yes |-> FALSE, reason |-> status]
        BY <1>2 DEF MarkOf
    <2>2. \/ mark = [yes |-> FALSE, reason |-> "object_filters_not_met"]
          \/ mark = [yes |-> TRUE, reason |-> "meets_filters"]
          \/ mark = [yes |-> FALSE, reason |-> "no_source_meets_filters"]
          \/ mark = [yes |-> FALSE, reason |-> status] /\ status # "coincident_sources"
        BY <2>1
    <2>3. (status # "coincident_sources" => status \in ObjectReasons) /\ status # "meets_filters"
        BY DEF ObjectReasons, ObjectStatuses
    <2>4. {"object_filters_not_met", "meets_filters", "no_source_meets_filters"} \subseteq ObjectReasons
        BY DEF ObjectReasons
    <2>5. CASE mark = [yes |-> FALSE, reason |-> status] /\ status # "coincident_sources"
        BY <2>3, <2>5
    <2>6. CASE mark = [yes |-> FALSE, reason |-> "object_filters_not_met"]
        BY <2>4, <2>6
    <2>7. CASE mark = [yes |-> TRUE, reason |-> "meets_filters"]
        BY <2>4, <2>7
    <2>8. CASE mark = [yes |-> FALSE, reason |-> "no_source_meets_filters"]
        BY <2>4, <2>8
    <2> QED BY <2>2, <2>5, <2>6, <2>7, <2>8
<1> QED BY <1>1, <1>2

\* One statement over every candidate finds those of a result that qualify.
LEMMA QualifyingOf ==
    ASSUME NEW C, C \subseteq Objects, \A o \in C : Committed(o), NEW ids, C \subseteq ids,
           NEW spec, NEW quals, quals = QualifyObjects(ids, spec),
           NEW m, IsResult(m), m.total = Cardinality(C),
           NEW r, r = MarkResult(m, C, quals, spec)
    PROVE  r.qualifying = Cardinality(Qualified(C, spec))
<1>1. IsFiniteSet(C) /\ Cardinality(C) \in Nat
    BY ConstantsTyped, FS_Subset, FS_CardinalityType
<1>2. PICK counted : counted = {o \in C \cap DOMAIN quals : quals[o].object /\ quals[o].match}
    OBVIOUS
<1>3. DOMAIN quals = {x \in ids : Committed(x)}
    BY DEF QualifyObjects
<1>4. ASSUME NEW o \in C
      PROVE  o \in DOMAIN quals /\ (quals[o].object /\ quals[o].match <=> Qualifies(o, rows[o], spec))
    <2>1. o \in ids /\ Committed(o)
        OBVIOUS
    <2>2. quals[o] = [object |-> ObjectOk(o, spec), match |-> MatchOk(rows[o], spec)]
        BY <2>1 DEF QualifyObjects
    <2> QED BY <1>3, <2>1, <2>2 DEF Qualifies
<1>5. counted = Qualified(C, spec)
    BY <1>2, <1>4 DEF Qualified
<1>6. CASE m.total <= 0
    <2>1. r = [m EXCEPT !.yes = FALSE, !.reason = m.status, !.qualifying = m.total]
        BY <1>6 DEF MarkResult
    <2>2. r.qualifying = m.total
        BY <2>1 DEF IsResult, ResultFields
    <2>3. Cardinality(C) = 0
        BY <1>1, <1>6
    <2>4. C = {}
        BY <1>1, <2>3, FS_EmptySet
    <2>5. Qualified(C, spec) = {}
        BY <2>4 DEF Qualified
    <2> QED BY <2>2, <2>4, <2>5
<1>7. CASE ~(m.total <= 0)
    <2>1. PICK n, yes, why : /\ n = Cardinality(counted) /\ yes = (counted # {})
                             /\ why = IF counted # {} THEN "meets_filters"
                                      ELSE "no_object_meets_filters"
        OBVIOUS
    <2>2. r = [m EXCEPT !.yes = yes, !.reason = why, !.qualifying = n]
        BY <1>2, <1>7, <2>1 DEF MarkResult
    <2>3. r.qualifying = n
        BY <2>2 DEF IsResult, ResultFields
    <2> QED BY <1>5, <2>1, <2>3
<1> QED BY <1>6, <1>7

LEMMA FiltersNumbers ==
    ASSUME TruthInv, NumberInv, ApplyFilters
    PROVE  NumberInv'
<1>1. PICK ids, quals :
         /\ UNCHANGED storeVars /\ SameNumbers(req', req) /\ req.pc = "filter" /\ req.route # "cone"
         /\ req'.pc = "answered" /\ DOMAIN req'.results = DOMAIN req.results
         /\ ids = UNION {CandidatesOf(req, i) : i \in DOMAIN req.results}
         /\ quals = QualifyObjects(ids, req.spec)
         /\ \A i \in DOMAIN req.results :
               /\ req'.results[i].total = req.results[i].total
               /\ req'.results[i].ids = req.results[i].ids
               /\ req'.results[i].truncation = req.results[i].truncation
               /\ req'.results[i].entries = req.results[i].entries
               /\ \A o \in DOMAIN req.results[i].entries :
                     req'.results[i].marks[o]
                         = MarkOf(o, req.results[i].entries[o].status, quals, req.spec)
               /\ i \in ConeInputs(req) =>
                     \E m : /\ IsResult(m) /\ m.total = req.results[i].total
                            /\ req'.results[i] = MarkResult(m, CandidatesOf(req, i), quals, req.spec)
    BY FiltersCount
<1>2. /\ Live /\ LookupNumbers(req) /\ (Quiet => CandidatesInside(req))
      /\ IsFiniteSet(DOMAIN req.results) /\ DOMAIN req.results \subseteq Nat
      /\ \A i \in DOMAIN req.results : \A o \in DOMAIN req.results[i].entries :
            req.results[i].entries[o].status \in ObjectStatuses
    BY <1>1 DEF Live, Running, NumberInv, LookupCounted, EntryInv
<1>3. /\ req'.route # "cone" /\ req'.inputs = req.inputs /\ req'.candidates = req.candidates
      /\ req'.since = req.since /\ req'.spec = req.spec
    BY <1>1 DEF SameNumbers, SameRequest
<1>4. DOMAIN req.candidates \subseteq ConeInputs(req) /\ ConeInputs(req) \subseteq DOMAIN req.results
    BY <1>2, InputsByKind DEF LookupNumbers
<1>5. LookupNumbers(req')
    BY <1>1, <1>2, <1>4, NumbersInherited
<1>6. Rests /\ writes' = writes
    BY <1>1, RestIsQuiet DEF storeVars
<1>7. Quiet' => CandidatesInside(req) /\ CandidatesInside(req)'
    BY <1>2, <1>3, <1>6, InsideRests DEF Quiet, CandidatesInside
<1>8. ASSUME Quiet' PROVE QualifyingRight(req)'
    <2>1. CandidatesInside(req)
        BY <1>7, <1>8
    <2>2. ASSUME NEW i \in DOMAIN req.candidates
          PROVE  req'.results[i].qualifying = Cardinality(Qualified(req.candidates[i], req.spec)')
        <3>1. PICK C : C = req.candidates[i]
            OBVIOUS
        <3>2. C \subseteq Objects /\ (\A o \in C : Committed(o))
            BY <2>1, <2>2, <3>1, InsideIsObjects DEF CandidatesInside
        <3>3. i \in ConeInputs(req) /\ i \in DOMAIN req.results
            BY <1>4
        <3>4. CandidatesOf(req, i) = C
            BY <3>1 DEF CandidatesOf
        <3>5. C \subseteq ids
            BY <1>1, <3>3, <3>4
        <3>6. PICK m : /\ IsResult(m) /\ m.total = req.results[i].total
                       /\ req'.results[i] = MarkResult(m, C, quals, req.spec)
            BY <1>1, <3>3, <3>4
        <3>7. m.total = Cardinality(C)
            BY <1>2, <3>1, <3>6 DEF LookupNumbers
        <3>8. PICK r : r = req'.results[i]
            OBVIOUS
        <3>9. r.qualifying = Cardinality(Qualified(C, req.spec))
            <4>1. r = MarkResult(m, C, quals, req.spec)
                BY <3>6, <3>8
            <4>2. quals = QualifyObjects(ids, req.spec)
                BY <1>1
            <4> QED BY <3>2, <3>5, <3>6, <3>7, <4>1, <4>2, QualifyingOf
        <3>10. \A S, spec : S \subseteq Objects /\ (\A o \in S : Committed(o)) =>
                                Qualified(S, spec)' = Qualified(S, spec)
            BY <1>6, QualifiedRests
        <3>11. Qualified(req.candidates[i], req.spec)' = Qualified(C, req.spec)
            <4>1. \A S, spec : S \subseteq Objects /\ (\A o \in S : Committed(o)) =>
                     {o \in S : Qualifies(o, rows[o], spec)'} = {o \in S : Qualifies(o, rows[o], spec)}
                BY <3>10 DEF Qualified
            <4> QED BY <1>3, <3>1, <3>2, <4>1 DEF Qualified
        <3> QED BY <3>8, <3>9, <3>11
    <2> QED BY <1>3, <2>2 DEF QualifyingRight
<1>9. EntryInv'
    <2>1. ASSUME NEW i \in DOMAIN req'.results, NEW o \in DOMAIN req'.results[i].entries
          PROVE  /\ req'.results[i].entries[o].status \in ObjectStatuses
                 /\ req'.results[i].marks[o].reason \in ObjectReasons
                 /\ req'.results[i].marks[o].yes
                       <=> req'.results[i].marks[o].reason = "meets_filters"
        <3>1. /\ o \in DOMAIN req.results[i].entries
              /\ req.results[i].entries[o].status \in ObjectStatuses
            BY <1>1, <1>2, <2>1
        <3>2. PICK status \in ObjectStatuses : status = req.results[i].entries[o].status
            BY <3>1
        <3>3. PICK mark : mark = MarkOf(o, status, quals, req.spec)
            OBVIOUS
        <3>4. quals = QualifyObjects(ids, req.spec)
            BY <1>1
        <3>5. mark.reason \in ObjectReasons /\ (mark.yes <=> mark.reason = "meets_filters")
            BY <3>3, <3>4, MarkIsKnown
        <3>6. req'.results[i].marks[o] = mark /\ req'.results[i].entries = req.results[i].entries
            BY <1>1, <2>1, <3>1, <3>2, <3>3
        <3> QED BY <3>1, <3>5, <3>6
    <2>2. MarksKnown(req')
        BY <2>1 DEF MarksKnown
    <2>3. MarksKnown(req)'
        BY <2>2 DEF MarksKnown
    <2> QED BY <1>1, <1>2, <2>1, <2>3 DEF EntryInv
<1>10. SinceInv'
    BY <1>1, <1>3, SinceStays DEF NumberInv
<1> QED BY <1>3, <1>5, <1>7, <1>8, <1>9, <1>10 DEF NumberInv, LookupCounted, ConeCounted

-----------------------------------------------------------------------------
\* A cone, step by step.
LEMMA AskNumbers ==
    ASSUME TruthInv, ConeInv, NumberInv, NEW p, NEW t \in Tokens \cup {NoToken}, AskCone(p, t)
    PROVE  NumberInv'
<1>1. /\ UNCHANGED storeVars
      /\ \/ req'.pc = "refused" /\ req'.since = req.since
         \/ /\ req'.pc = "page" /\ req'.route = "cone" /\ req'.since = writes
            /\ req'.results = <<>>
            /\ req'.count => req'.cone.after = <<>>
    BY AskCounts
<1>2. CASE req'.pc = "refused"
    BY <1>1, <1>2, RefusedCountsNothing
<1>3. CASE req'.pc # "refused"
    <2>1. /\ req'.pc = "page" /\ req'.route = "cone" /\ req'.since = writes
          /\ req'.results = <<>>
          /\ req'.count => req'.cone.after = <<>>
        BY <1>1, <1>3
    <2>2. SinceInv'
        BY <1>1, <2>1, SinceStays DEF NumberInv
    <2>3. IsFiniteSet(DOMAIN req'.results) /\ DOMAIN req'.results = {}
        <3>1. DOMAIN <<>> = {}
            OBVIOUS
        <3> QED BY <2>1, <3>1, FS_EmptySet
    <2>4. EntryInv'
        BY <2>1, <2>3 DEF EntryInv, Answered
    <2> QED BY <2>1, <2>2, <2>4 DEF NumberInv, LookupCounted, ConeCounted, Building, Gathering, Answered
<1> QED BY <1>2, <1>3

LEMMA PinnedIsFinite ==
    /\ PinnedSet \subseteq Objects /\ IsFiniteSet(PinnedSet) /\ Cardinality(PinnedSet) \in Nat
    /\ \A o \in PinnedSet : Committed(o)
BY InsideIsObjects DEF PinnedSet

LEMMA RestOfFirst ==
    ASSUME req.cone.after = <<>> PROVE Rest = PinnedSet
BY DEF Rest, After

LEMMA PinnedRests ==
    ASSUME Rests, req'.cone.centre = req.cone.centre, req'.cone.asOf = req.cone.asOf
    PROVE  PinnedSet' = PinnedSet
BY InsideRests DEF PinnedSet

\* What a cone has of its results is one result.
LEMMA OneIsFinite == IsFiniteSet({1}) /\ {1} \subseteq Nat
<1>1. IsFiniteSet({1})
    BY FS_Singleton
<1> QED BY <1>1

LEMMA FetchNumbers ==
    ASSUME TruthInv, ConeInv, NumberInv, FetchPage
    PROVE  NumberInv'
<1>1. PICK res :
         /\ UNCHANGED storeVars /\ SameRequest(req', req) /\ req.pc = "page" /\ req.route = "cone"
         /\ req'.pc \in {"total", "whole", "alerts"}
         /\ req'.pc # "total" /\ Rest = {} => req.cone.after = <<>>
         /\ req'.pc = "alerts" => ~req.spec.on \/ req.count
         /\ req'.candidates = <<IF req.count THEN Rest ELSE ListFirst(req.cone.size)>>
         /\ req'.results = <<res>> /\ DOMAIN res.entries = {}
         /\ res.total = IF Rest = {} THEN 0 ELSE Cardinality(PinnedSet)
    BY FetchCounts
<1>2. Live /\ (req.count => req.cone.after = <<>>)
    BY <1>1 DEF Live, Running, NumberInv, ConeCounted
<1>3. /\ req'.route = "cone" /\ req'.since = req.since /\ req'.spec = req.spec
      /\ req'.count = req.count /\ req'.cone.centre = req.cone.centre
      /\ req'.cone.asOf = req.cone.asOf /\ req'.cone.after = req.cone.after
    BY <1>1 DEF SameRequest
<1>4. PinnedSet' = PinnedSet
    BY <1>1, <1>3, RestIsQuiet, PinnedRests DEF storeVars
<1>5. DOMAIN req'.results = {1} /\ req'.results[1] = res
    BY <1>1
<1>6. req'.pc # "total" => req'.results[1].total = Cardinality(PinnedSet')
    <2>1. CASE Rest = {} /\ req'.pc # "total"
        <3>1. PinnedSet = {}
            BY <1>1, <2>1, RestOfFirst
        <3> QED BY <1>1, <1>4, <1>5, <2>1, <3>1, FS_EmptySet
    <2>2. CASE Rest # {}
        BY <1>1, <1>4, <1>5, <2>2
    <2> QED BY <2>1, <2>2
<1>7. req'.spec.on /\ (Building' \/ req'.pc = "filter") => req'.candidates[1] = PinnedSet'
    <2> SUFFICES ASSUME req'.spec.on, Building' \/ req'.pc = "filter"
                 PROVE  req'.candidates[1] = PinnedSet'
        OBVIOUS
    <2>1. req'.pc = "alerts"
        BY <1>1 DEF Building, Gathering
    <2>2. req.count
        BY <1>1, <1>3, <2>1
    <2>3. req'.candidates = <<Rest>>
        BY <1>1, <2>2
    <2> QED BY <1>2, <1>4, <2>2, <2>3, RestOfFirst
<1>8. SinceInv'
    BY <1>1, <1>3, SinceStays DEF NumberInv
<1>9. EntryInv'
    BY <1>1, <1>5, OneIsFinite DEF EntryInv, Answered
<1>10. ~Answered'
    BY <1>1 DEF Answered
<1> QED BY <1>2, <1>3, <1>6, <1>7, <1>8, <1>9, <1>10 DEF NumberInv, LookupCounted, ConeCounted

LEMMA WholeNumbers ==
    ASSUME TruthInv, ConeInv, NumberInv, CountWhole
    PROVE  NumberInv'
<1>1. /\ UNCHANGED storeVars /\ SameNumbers(req', req) /\ req.pc = "total" /\ req.route = "cone"
      /\ req'.pc \in {"whole", "alerts"} /\ (req'.pc = "alerts" => ~req.spec.on)
      /\ DOMAIN req'.results = {1} /\ req'.results[1].total = Cardinality(PinnedSet)
      /\ DOMAIN req.results = {1} /\ req'.results[1].entries = req.results[1].entries
    BY WholeCounts
<1>2. Live /\ (req.count => req.cone.after = <<>>)
    BY <1>1 DEF Live, Running, NumberInv, ConeCounted
<1>3. /\ req'.route = "cone" /\ req'.since = req.since /\ req'.spec = req.spec
      /\ req'.count = req.count /\ req'.cone.centre = req.cone.centre
      /\ req'.cone.asOf = req.cone.asOf /\ req'.cone.after = req.cone.after
    BY <1>1 DEF SameNumbers, SameRequest
<1>4. PinnedSet' = PinnedSet
    BY <1>1, <1>3, RestIsQuiet, PinnedRests DEF storeVars
<1>5. SinceInv'
    BY <1>1, <1>3, SinceStays DEF NumberInv
<1>6. EntryInv'
    BY <1>1, <1>2, OneIsFinite DEF EntryInv, Answered, NumberInv
<1>7. ~Answered' /\ (req'.spec.on => ~Building' /\ req'.pc # "filter")
    BY <1>1, <1>3 DEF Answered, Building, Gathering
<1> QED BY <1>1, <1>2, <1>3, <1>4, <1>5, <1>6, <1>7 DEF NumberInv, LookupCounted, ConeCounted

LEMMA CandidatesNumbers ==
    ASSUME TruthInv, ConeInv, NumberInv, FetchCandidates
    PROVE  NumberInv'
<1>1. /\ UNCHANGED storeVars /\ SameRequest(req', req) /\ req.pc = "whole" /\ req.route = "cone"
      /\ req'.pc = "alerts" /\ req'.results = req.results /\ req'.candidates = <<PinnedSet>>
    BY CandidatesCount
<1>2. Live /\ ConeCounted
    BY <1>1 DEF Live, Running, NumberInv
<1>3. /\ req'.route = "cone" /\ req'.since = req.since /\ req'.spec = req.spec
      /\ req'.count = req.count /\ req'.cone.centre = req.cone.centre
      /\ req'.cone.asOf = req.cone.asOf /\ req'.cone.after = req.cone.after
    BY <1>1 DEF SameRequest
<1>4. PinnedSet' = PinnedSet /\ (Quiet' => Quiet)
    BY <1>1, <1>3, RestIsQuiet, PinnedRests DEF storeVars, Quiet
<1>5. SinceInv'
    BY <1>1, <1>3, SinceStays DEF NumberInv
<1>6. EntryInv'
    BY <1>1, <1>2 DEF EntryInv, Answered, NumberInv
<1>7. ~Answered' /\ req'.candidates[1] = PinnedSet'
    BY <1>1, <1>4 DEF Answered
<1>8. Quiet' => req'.results[1].total = Cardinality(PinnedSet')
    BY <1>1, <1>2, <1>4 DEF ConeCounted
<1> QED BY <1>2, <1>1, <1>3, <1>5, <1>6, <1>7, <1>8 DEF NumberInv, LookupCounted, ConeCounted

LEMMA PageNumbers ==
    ASSUME TruthInv, ConeInv, NumberInv, MakePage
    PROVE  NumberInv'
<1>1. /\ UNCHANGED storeVars /\ SameNumbers(req', req) /\ req.pc = "built" /\ req.route = "cone"
      /\ req'.pc \in {"filter", "paused", "answered"} /\ (req'.pc # "filter" => ~req.spec.on)
      /\ DOMAIN req.results = {1} /\ DOMAIN req'.results = {1}
      /\ req'.results[1].total = req.results[1].total
      /\ \A o \in DOMAIN req'.results[1].entries :
            o \in req.asked /\ req'.results[1].entries[o] = req.built[o]
    BY PageCounts
<1>2. Live /\ Building /\ ConeCounted
    BY <1>1 DEF Live, Running, Building, Gathering, NumberInv
<1>3. /\ req'.route = "cone" /\ req'.since = req.since /\ req'.spec = req.spec
      /\ req'.count = req.count /\ req'.cone.centre = req.cone.centre
      /\ req'.cone.asOf = req.cone.asOf /\ req'.cone.after = req.cone.after
      /\ req'.candidates = req.candidates
    BY <1>1 DEF SameNumbers, SameRequest
<1>4. PinnedSet' = PinnedSet /\ (Quiet' => Quiet)
    BY <1>1, <1>3, RestIsQuiet, PinnedRests DEF storeVars, Quiet
<1>5. SinceInv'
    BY <1>1, <1>3, SinceStays DEF NumberInv
<1>6. ~(Answered' /\ req'.spec.on) /\ req'.pc # "built"
    BY <1>1, <1>3 DEF Answered
<1>7. EntryInv'
    <2>1. ASSUME NEW o \in DOMAIN req'.results[1].entries
          PROVE  req'.results[1].entries[o].status \in ObjectStatuses
        BY <1>1, <2>1 DEF EntryInv, NumberInv
    <2> QED BY <1>1, <1>6, <2>1, OneIsFinite DEF EntryInv
<1>8. Quiet' => req'.results[1].total = Cardinality(PinnedSet')
    BY <1>1, <1>2, <1>4 DEF ConeCounted
<1>9. Quiet' /\ req'.spec.on => req'.candidates[1] = PinnedSet'
    BY <1>2, <1>1, <1>3, <1>4 DEF ConeCounted
<1> QED BY <1>2, <1>1, <1>3, <1>5, <1>6, <1>7, <1>8, <1>9 DEF NumberInv, LookupCounted, ConeCounted

LEMMA MarkNumbers ==
    ASSUME TruthInv, ConeInv, NumberInv, MarkPage
    PROVE  NumberInv'
<1>1. PICK m, quals :
         /\ UNCHANGED storeVars /\ SameNumbers(req', req) /\ req.pc = "filter" /\ req.route = "cone"
         /\ req'.pc \in {"paused", "answered"}
         /\ DOMAIN req.results = {1} /\ DOMAIN req'.results = {1}
         /\ quals = QualifyObjects(req.candidates[1] \cup req.results[1].ids, req.spec)
         /\ IsResult(m) /\ m.total = req.results[1].total
         /\ req'.results[1] = MarkResult(m, req.candidates[1], quals, req.spec)
         /\ req'.results[1].total = req.results[1].total
         /\ req'.results[1].entries = req.results[1].entries
         /\ \A o \in DOMAIN req.results[1].entries :
               req'.results[1].marks[o]
                   = MarkOf(o, req.results[1].entries[o].status, quals, req.spec)
    BY MarkCounts
<1>2. Live /\ ConeCounted
    BY <1>1 DEF Live, Running, NumberInv
<1>3. /\ req'.route = "cone" /\ req'.since = req.since /\ req'.spec = req.spec
      /\ req'.count = req.count /\ req'.cone.centre = req.cone.centre
      /\ req'.cone.asOf = req.cone.asOf /\ req'.cone.after = req.cone.after
    BY <1>1 DEF SameNumbers, SameRequest
<1>4. PinnedSet' = PinnedSet /\ (Quiet' => Quiet) /\ Rests
    BY <1>1, <1>3, RestIsQuiet, PinnedRests DEF storeVars, Quiet
<1>5. SinceInv'
    BY <1>1, <1>3, SinceStays DEF NumberInv
<1>6. ~Building' /\ req'.pc # "filter" /\ req'.pc # "built"
    BY <1>1 DEF Building, Gathering
<1>7. Quiet' => req'.results[1].total = Cardinality(PinnedSet')
    BY <1>1, <1>2, <1>4 DEF ConeCounted
<1>8. Quiet' /\ req'.spec.on =>
         req'.results[1].qualifying = Cardinality(Qualified(PinnedSet, req.spec)')
    <2> SUFFICES ASSUME Quiet', req'.spec.on
                 PROVE  req'.results[1].qualifying = Cardinality(Qualified(PinnedSet, req.spec)')
        OBVIOUS
    <2>1. PICK C : C = PinnedSet
        OBVIOUS
    <2>2. C \subseteq Objects /\ (\A o \in C : Committed(o))
        BY <2>1, PinnedIsFinite
    <2>3. req.candidates[1] = C /\ req.results[1].total = Cardinality(C)
        BY <1>1, <1>2, <1>3, <1>4, <2>1 DEF ConeCounted
    <2>4. PICK ids : ids = C \cup req.results[1].ids
        OBVIOUS
    <2>5. PICK r : r = req'.results[1]
        OBVIOUS
    <2>6. /\ quals = QualifyObjects(ids, req.spec) /\ r = MarkResult(m, C, quals, req.spec)
          /\ m.total = Cardinality(C) /\ C \subseteq ids
        BY <1>1, <2>3, <2>4, <2>5
    <2>7. r.qualifying = Cardinality(Qualified(C, req.spec))
        BY <1>1, <2>2, <2>6, QualifyingOf
    <2>8. Qualified(PinnedSet, req.spec)' = Qualified(C, req.spec)
        <3>1. \A S, spec : S \subseteq Objects /\ (\A o \in S : Committed(o)) =>
                             Qualified(S, spec)' = Qualified(S, spec)
            BY <1>4, QualifiedRests
        <3>2. \A S, spec : S \subseteq Objects /\ (\A o \in S : Committed(o)) =>
                 {o \in S : Qualifies(o, rows[o], spec)'} = {o \in S : Qualifies(o, rows[o], spec)}
            BY <3>1 DEF Qualified
        <3> QED BY <1>3, <1>4, <2>1, <2>2, <3>2 DEF Qualified
    <2> QED BY <2>5, <2>7, <2>8
<1>9. EntryInv'
    <2>1. ASSUME NEW o \in DOMAIN req'.results[1].entries
          PROVE  /\ req'.results[1].entries[o].status \in ObjectStatuses
                 /\ req'.results[1].marks[o].reason \in ObjectReasons
                 /\ req'.results[1].marks[o].yes
                       <=> req'.results[1].marks[o].reason = "meets_filters"
        <3>1. /\ o \in DOMAIN req.results[1].entries
              /\ req.results[1].entries[o].status \in ObjectStatuses
            BY <1>1, <1>2, <2>1 DEF NumberInv, EntryInv
        <3>2. PICK status \in ObjectStatuses : status = req.results[1].entries[o].status
            BY <3>1
        <3>3. PICK mark : mark = MarkOf(o, status, quals, req.spec)
            OBVIOUS
        <3>4. PICK ids : ids = req.candidates[1] \cup req.results[1].ids
            OBVIOUS
        <3>5. quals = QualifyObjects(ids, req.spec)
            BY <1>1, <3>4
        <3>6. mark.reason \in ObjectReasons /\ (mark.yes <=> mark.reason = "meets_filters")
            BY <3>3, <3>5, MarkIsKnown
        <3>7. req'.results[1].marks[o] = mark /\ req'.results[1].entries = req.results[1].entries
            BY <1>1, <3>1, <3>2, <3>3
        <3> QED BY <3>1, <3>2, <3>6, <3>7
    <2>2. MarksKnown(req)'
        BY <1>1, <2>1 DEF MarksKnown
    <2> QED BY <1>1, <1>6, <2>1, <2>2, OneIsFinite DEF EntryInv
<1> QED BY <1>1, <1>2, <1>3, <1>5, <1>6, <1>7, <1>8, <1>9 DEF NumberInv, LookupCounted, ConeCounted

-----------------------------------------------------------------------------
\* The inputs a chat looks up are numbered from one.
LEMMA ChatInputsNumbered ==
    ASSUME NEW raws \in ChatAsks, NEW idents, idents = Classified(raws),
           NEW inputs, inputs = LookupInputs(idents)
    PROVE  \E n \in Nat : DOMAIN inputs = 1 .. n
<1>1. DOMAIN raws = 1 .. Len(raws) /\ Len(raws) \in Nat
    BY ChatAssumption
<1>2. IsFiniteSet(DOMAIN raws)
    BY <1>1, FS_Interval
<1>3. \E S \in SUBSET DOMAIN raws : DOMAIN idents = 1 .. Cardinality(S)
    <2> DEFINE Same(i, j) == /\ KindOf(raws[i]) = KindOf(raws[j]) /\ LookedUp(KindOf(raws[i]))
                             /\ raws[i].of = raws[j].of
               First(i) == \A j \in 1 .. i - 1 : ~Same(i, j)
               S == {i \in DOMAIN raws : First(i)}
               kept == InOrder(S, <)
    <2>1. DOMAIN idents = DOMAIN kept
        BY DEF Classified
    <2>2. DOMAIN kept = 1 .. Cardinality(S)
        BY DEF InOrder
    <2>3. S \in SUBSET DOMAIN raws
        OBVIOUS
    <2> HIDE DEF S, kept
    <2> QED BY <2>1, <2>2, <2>3
<1>4. IsFiniteSet(DOMAIN idents)
    <2>1. PICK S \in SUBSET DOMAIN raws : DOMAIN idents = 1 .. Cardinality(S)
        BY <1>3
    <2>2. IsFiniteSet(S)
        BY <1>2, FS_Subset
    <2>3. Cardinality(S) \in Nat
        BY <2>2, FS_CardinalityType
    <2> QED BY <2>1, <2>3, FS_Interval
<1>5. \E W \in SUBSET DOMAIN idents : DOMAIN inputs = 1 .. Cardinality(W)
    <2> DEFINE W == {n \in DOMAIN idents : LookedUp(idents[n].kind)}
               wanted == InOrder(W, <)
    <2>1. DOMAIN inputs = DOMAIN wanted
        BY DEF LookupInputs
    <2>2. DOMAIN wanted = 1 .. Cardinality(W)
        BY DEF InOrder
    <2>3. W \in SUBSET DOMAIN idents
        OBVIOUS
    <2> HIDE DEF W, wanted
    <2> QED BY <2>1, <2>2, <2>3
<1>6. PICK W \in SUBSET DOMAIN idents : DOMAIN inputs = 1 .. Cardinality(W)
    BY <1>5
<1>7. IsFiniteSet(W)
    BY <1>4, FS_Subset
<1>8. Cardinality(W) \in Nat
    BY <1>7, FS_CardinalityType
<1> QED BY <1>6, <1>8

LEMMA OthersKeepNumbers ==
    ASSUME TruthInv, NumberInv, UNCHANGED <<storeVars, req>> PROVE NumberInv'
<1>1. NumbersStay /\ req'.pc = req.pc /\ req'.asked = req.asked /\ req'.built = req.built
    BY OthersCountNothing
<1>2. req'.pc = "built" => \A o \in req'.asked : req'.built[o].status \in ObjectStatuses
    BY <1>1 DEF NumberInv, EntryInv
<1> QED BY <1>1, <1>2, NumbersKept

LEMMA CommitsKeepNumbers ==
    ASSUME TruthInv, NumberInv, StoreStepSeen PROVE NumberInv'
<1>1. NumbersStay /\ req'.pc = req.pc /\ req'.asked = req.asked /\ req'.built = req.built
    BY CommitsCountNothing
<1>2. req'.pc = "built" => \A o \in req'.asked : req'.built[o].status \in ObjectStatuses
    BY <1>1 DEF NumberInv, EntryInv
<1> QED BY <1>1, <1>2, NumbersKept

LEMMA BuildKeepsNumbers ==
    ASSUME TruthInv, NumberInv, BuildStep PROVE NumberInv'
<1>1. NumbersStay /\ (req'.pc # "built" \/ BuildObjects)
    BY BuildingCountsNothing
<1>2. req'.pc = "built" => \A o \in req'.asked : req'.built[o].status \in ObjectStatuses
    BY <1>1, BuiltStatuses
<1> QED BY <1>1, <1>2, NumbersKept

LEMMA LookupsKeepNumbers == ASSUME TruthInv, NumberInv, LookupStep PROVE NumberInv'
<1>1. ASSUME NEW r \in Lookups, NEW migrated \in BOOLEAN, Submit(r, migrated) PROVE NumberInv'
    <2>1. r.route # "cone"
        BY LookupAssumption DEF LookupParams
    <2>2. DOMAIN r.inputs = 1 .. Len(r.inputs) /\ Len(r.inputs) \in Nat
        BY LookupAssumption
    <2>3. PICK n \in Nat : DOMAIN r.inputs = 1 .. n
        BY <2>2
    <2> QED BY <1>1, <2>1, <2>3, SubmitNumbers
<1> QED BY <1>1, NamesNumbers, SearchNumbers, AssembleNumbers, FiltersNumbers DEF LookupStep

LEMMA ConesKeepNumbers == ASSUME TruthInv, ConeInv, NumberInv, ConeStep PROVE NumberInv'
<1>1. ASSUME NEW p \in ConeAsks, NEW t \in Tokens, AskCone(p, t) PROVE NumberInv'
    BY <1>1, AskNumbers
<1> QED BY <1>1, FetchNumbers, WholeNumbers, CandidatesNumbers, PageNumbers, MarkNumbers DEF ConeStep

LEMMA ChatsKeepNumbers == ASSUME TruthInv, ConeInv, NumberInv, ChatStep PROVE NumberInv'
<1>1. ASSUME NEW raws \in ChatAsks, AskLookup(raws) PROVE NumberInv'
    <2>1. CASE UNCHANGED <<storeVars, req>>
        BY <2>1, OthersKeepNumbers
    <2>2. CASE ~ UNCHANGED <<storeVars, req>>
        <3>1. PICK idents : idents = Classified(raws)
            OBVIOUS
        <3>2. PICK inputs : inputs = LookupInputs(idents)
            OBVIOUS
        <3>3. PICK r : r = [route |-> "lookup", body |-> TRUE, detail |-> "full",
                            radius |-> "absent", filters |-> {}, response |-> "absent",
                            inputs |-> inputs]
            OBVIOUS
        <3>4. Submit(r, TRUE)
            BY <1>1, <2>2, <3>1, <3>2, <3>3 DEF AskLookup
        <3>5. PICK n \in Nat : DOMAIN inputs = 1 .. n
            BY <3>1, <3>2, ChatInputsNumbered
        <3>6. r.route # "cone" /\ r.inputs = inputs
            BY <3>3
        <3> QED BY <3>4, <3>5, <3>6, SubmitNumbers
    <2> QED BY <2>1, <2>2
<1>2. ASSUME NEW c, AskNear(c) PROVE NumberInv'
    <2>1. PICK p : AskCone(p, NoToken)
        BY <1>2 DEF AskNear
    <2> QED BY <2>1, AskNumbers
<1>3. CASE Project
    BY <1>3, OthersKeepNumbers DEF Project
<1>4. CASE ResolveNames \/ SearchAll \/ Assemble
    BY <1>4, NamesNumbers, SearchNumbers, AssembleNumbers
<1>5. CASE FetchPage \/ CountWhole \/ MakePage
    BY <1>5, FetchNumbers, WholeNumbers, PageNumbers
<1> QED BY <1>1, <1>2, <1>3, <1>4, <1>5 DEF ChatStep

LEMMA NumbersBegin == ASSUME Init PROVE NumberInv
<1>1. writes = 0 /\ req = FreshRequest
    BY DEF Init, WalkInit, InitStore
<1>2. req.pc = "start" /\ req.since = 0
    BY <1>1 DEF FreshRequest
<1>3. ~Live /\ ~Answered
    BY <1>2 DEF Live, Running, Answered
<1> QED BY <1>1, <1>2, <1>3 DEF NumberInv, SinceInv, EntryInv, LookupCounted, ConeCounted

-----------------------------------------------------------------------------
\* What the numbers of an answer are follows.
LEMMA AnsweredLookup ==
    ASSUME NumberInv, req.pc = "answered", req.route # "cone", NEW cones,
           cones = {i \in DOMAIN req.results : req.results[i].total >= 0}
    PROVE  /\ LookupNumbers(req) /\ cones = DOMAIN req.candidates
           /\ IsFiniteSet(cones) /\ IsFiniteSet(IdInputs(req)) /\ Cardinality(IdInputs(req)) \in Nat
<1>1. LookupNumbers(req)
    BY DEF NumberInv, LookupCounted, Live, Answered
<1>2. /\ IsFiniteSet(DOMAIN req.inputs) /\ DOMAIN req.results = DOMAIN req.inputs
      /\ DOMAIN req.candidates \subseteq ConeInputs(req)
      /\ ConeInputs(req) \subseteq DOMAIN req.inputs /\ IdInputs(req) \subseteq DOMAIN req.inputs
    BY <1>1, InputsByKind DEF LookupNumbers
<1>3. ASSUME NEW i \in DOMAIN req.candidates PROVE req.results[i].total \in Nat
    <2>1. req.candidates[i] \in SUBSET Objects /\ req.results[i].total = Cardinality(req.candidates[i])
        BY <1>1 DEF LookupNumbers
    <2> QED BY <2>1, ConstantsTyped, FS_Subset, FS_CardinalityType
<1>4. \A i \in DOMAIN req.results \ DOMAIN req.candidates : req.results[i].total \in {-2, -1}
    BY <1>1 DEF LookupNumbers, NotACone, NotRun
<1>5. cones = DOMAIN req.candidates
    <2>1. \A i \in DOMAIN req.candidates : i \in cones
        BY <1>2, <1>3
    <2>2. \A i \in cones : i \in DOMAIN req.candidates
        BY <1>4
    <2> QED BY <2>1, <2>2
<1>6. cones \in SUBSET DOMAIN req.inputs /\ IdInputs(req) \in SUBSET DOMAIN req.inputs
    BY <1>2, <1>5
<1>7. IsFiniteSet(cones) /\ IsFiniteSet(IdInputs(req))
    BY <1>2, <1>6, FS_Subset
<1> QED BY <1>1, <1>5, <1>7, FS_CardinalityType

LEMMA ListingFollows == ASSUME NumberInv PROVE ListingIsBounded
<1> SUFFICES ASSUME req.pc = "answered", req.route \notin {"cone", "none"}, ~req.count
             PROVE  ListingIsBounded
    BY DEF ListingIsBounded
<1>1. PICK cones : cones = {i \in DOMAIN req.results : req.results[i].total >= 0}
    OBVIOUS
<1>2. PICK ids : ids = Cardinality(IdInputs(req))
    OBVIOUS
<1>3. /\ LookupNumbers(req) /\ cones = DOMAIN req.candidates
      /\ IsFiniteSet(cones) /\ ids \in Nat
    BY <1>1, <1>2, AnsweredLookup
<1>4. ListedAsTold(req)
    BY <1>3 DEF LookupNumbers
<1>5. PICK A : A = [i \in cones |-> req.results[i].ids]
    OBVIOUS
<1>6. PICK f : f = [i \in cones |-> Cardinality(req.results[i].ids)]
    OBVIOUS
<1>7. /\ \A i \in cones : A[i] \subseteq Objects
      /\ \A i \in cones : TermOf(f, i) = Cardinality(A[i])
    BY <1>3, <1>4, <1>5, <1>6 DEF ListedAsTold, TermOf
<1>8. /\ SumOf(f, cones) = Cardinality(Listings(cones, A)) /\ Cardinality(Listings(cones, A)) \in Nat
    BY <1>3, <1>7, SumOfSizes
<1>9. Cardinality(Listings(cones, A)) <= Free(req)
    BY <1>3, <1>4, <1>5 DEF ListedAsTold
<1>10. MaxListed \in Nat
    BY LookupAssumption
<1>11. SumOf(f, cones) + ids <= Max({MaxListed, ids})
    <2>1. Max({MaxListed, ids}) = IF MaxListed >= ids THEN MaxListed ELSE ids
        BY <1>3, <1>10, LargerOfTwo
    <2>2. Free(req) = IF MaxListed - ids < 0 THEN 0 ELSE MaxListed - ids
        BY <1>2 DEF Free
    <2> QED BY <1>3, <1>8, <1>9, <1>10, <2>1, <2>2
<1>12. \A i \in cones :
          /\ req.results[i].total > Cardinality(req.results[i].ids)
                <=> req.results[i].truncation # "none"
          /\ req.results[i].truncation = "per_input_limit"
                => Cardinality(req.results[i].ids) = MaxPerCone
    BY <1>3, <1>4 DEF ListedAsTold
<1>13. req.cut <=> \E i \in cones : req.results[i].truncation = "per_request_limit"
    BY <1>3 DEF LookupNumbers
<1> QED BY <1>1, <1>2, <1>6, <1>11, <1>12, <1>13 DEF ListingIsBounded

LEMMA LookupTotalsFollow == ASSUME NumberInv PROVE LookupTotalsAgree
<1> SUFFICES ASSUME req.pc = "answered", req.route \notin {"cone", "none"}, writes = req.since,
                    NEW i \in ConeInputs(req), req.results[i].total >= 0
             PROVE  LET inside == Inside(CentreOf(req.inputs[i]), Unpinned)
                    IN  /\ req.results[i].total = Cardinality(inside)
                        /\ req.spec.on => req.results[i].qualifying =
                              Cardinality({o \in inside : Qualifies(o, rows[o], req.spec)})
    BY DEF LookupTotalsAgree
<1>1. PICK cones : cones = {j \in DOMAIN req.results : req.results[j].total >= 0}
    OBVIOUS
<1>2. LookupNumbers(req) /\ cones = DOMAIN req.candidates
    BY <1>1, AnsweredLookup
<1>3. i \in DOMAIN req.candidates
    <2>1. i \in DOMAIN req.results
        BY <1>2, InputsByKind DEF LookupNumbers
    <2> QED BY <1>1, <1>2, <2>1
<1>4. CandidatesInside(req) /\ (req.spec.on => QualifyingRight(req))
    BY DEF NumberInv, LookupCounted, Live, Answered, Quiet
<1>5. PICK inside : inside = Inside(CentreOf(req.inputs[i]), Unpinned)
    OBVIOUS
<1>6. req.candidates[i] = inside /\ req.results[i].total = Cardinality(inside)
    BY <1>2, <1>3, <1>4, <1>5 DEF CandidatesInside, LookupNumbers
<1>7. req.spec.on => req.results[i].qualifying
                        = Cardinality({o \in inside : Qualifies(o, rows[o], req.spec)})
    BY <1>3, <1>4, <1>6 DEF QualifyingRight, Qualified
<1> QED BY <1>5, <1>6, <1>7

LEMMA ConeTotalsFollow == ASSUME NumberInv PROVE ConeTotalsAgree
<1> SUFFICES ASSUME req.route = "cone", Answered, writes = req.since
             PROVE  /\ req.results[1].total = Cardinality(PinnedSet)
                    /\ req.spec.on => req.results[1].qualifying =
                          Cardinality({o \in PinnedSet : Qualifies(o, rows[o], req.spec)})
    BY DEF ConeTotalsAgree
<1>1. ConeCounted /\ Live /\ Quiet /\ req.pc \notin {"page", "total"}
    BY DEF NumberInv, Live, Quiet, Answered
<1> QED BY <1>1 DEF ConeCounted, Qualified

LEMMA CountsFollow == ASSUME TruthInv, NumberInv PROVE CountsAddUp
<1> SUFFICES ASSUME req.pc = "answered", req.count, req.route # "none" PROVE CountsAddUp
    BY DEF CountsAddUp
<1>1. Answered /\ Live
    BY DEF Answered, Live
<1>2. IsFiniteSet(DOMAIN req.results) /\ DOMAIN req.results \subseteq Nat
    BY <1>1 DEF NumberInv, EntryInv
<1>3. EntriesKnown(req)
    BY <1>1 DEF NumberInv, EntryInv, EntriesKnown, TruthInv, EntriesRight, Shape
<1>4. req.spec.on => MarksKnown(req)
    BY <1>1 DEF NumberInv, EntryInv
<1>5. PICK body : body = CountBody(req)
    OBVIOUS
<1>6. /\ SumOf(body.byStatus, DOMAIN body.byStatus) = body.total
      /\ req.spec.on => /\ SumOf(body.byReason, DOMAIN body.byReason) = body.total
                        /\ body.qualifying = body.byReason["meets_filters"]
    BY <1>2, <1>3, <1>4, <1>5, BodyAddsUp
<1> QED BY <1>5, <1>6 DEF CountsAddUp

LEMMA NumbersAreKept == Spec => []NumberInv
<1>1. Init => NumberInv
    BY NumbersBegin
<1>2. ASSUME TruthInv, ConeInv, NumberInv, [Next]_readVars PROVE NumberInv'
    <2>1. CASE UNCHANGED readVars
        BY <1>2, <2>1, OthersKeepNumbers DEF readVars
    <2>2. CASE StoreStepSeen
        BY <1>2, <2>2, CommitsKeepNumbers
    <2>3. CASE WalkStep /\ UNCHANGED req
        <3>1. UNCHANGED storeVars
            BY <2>3 DEF WalkStep, Ask, FetchRows, LoadMatches, Deliver
        <3> QED BY <1>2, <2>3, <3>1, OthersKeepNumbers
    <2>4. CASE SummaryStep /\ UNCHANGED req
        <3>1. UNCHANGED storeVars
            BY <2>4 DEF SummaryStep, AskSummary, NightRows, PendingCount, Reliability,
                        BrokerCounts, CatalogBuckets, Top
        <3> QED BY <1>2, <2>4, <3>1, OthersKeepNumbers
    <2>5. CASE LookupStep
        BY <1>2, <2>5, LookupsKeepNumbers
    <2>6. CASE BuildStep
        BY <1>2, <2>6, BuildKeepsNumbers
    <2>7. CASE ConeStep
        BY <1>2, <2>7, ConesKeepNumbers
    <2>8. CASE ChatStep
        BY <1>2, <2>8, ChatsKeepNumbers
    <2> QED BY <1>2, <2>1, <2>2, <2>3, <2>4, <2>5, <2>6, <2>7, <2>8 DEF Next
<1> QED BY <1>1, <1>2, TruthIsKept, ConeIsKept, PTL DEF Spec

\* The numbers of an answer and its lists tell the same story: what a lookup lists
\* is within its budget and says when it was cut, totals and qualifying totals cover
\* every object inside when nothing was committed meanwhile, and a count has each
\* object once, under its status and its reason.
THEOREM NumbersStayTrue == Spec => []NumbersAgree
<1>1. TruthInv /\ NumberInv => NumbersAgree
    BY ListingFollows, LookupTotalsFollow, CountsFollow, ConeTotalsFollow DEF NumbersAgree
<1> QED BY <1>1, TruthIsKept, NumbersAreKept, PTL

-----------------------------------------------------------------------------
\* Counting up, and loops over 1 .. n.
LEMMA CountsUp ==
    ASSUME NEW n \in Nat, NEW S, 0 \in S, \A k \in 0 .. n : k \in S /\ k < n => k + 1 \in S
    PROVE  \A k \in 0 .. n : k \in S
<1>1. PICK T : T = {k \in 0 .. n : k \notin S}
    OBVIOUS
<1>2. ASSUME T # {} PROVE FALSE
    <2>1. PICK R : R = {p \in T \X T : p[1] < p[2]}
        OBVIOUS
    <2>2. \A x, y \in T : <<x, y>> \in R <=> x < y
        BY <2>1
    <2>3. \A x \in T : x \in Nat
        BY <1>1
    <2>4. Orders(R, T)
        BY <2>2, <2>3 DEF Orders
    <2>5. IsFiniteSet(T)
        <3>1. IsFiniteSet(0 .. n) /\ T \in SUBSET (0 .. n)
            BY <1>1, FS_Interval
        <3> QED BY <3>1, FS_Subset
    <2>6. PICK m \in T : \A y \in T \ {m} : <<m, y>> \in R
        BY <1>2, <2>4, <2>5, OrderBegins
    <2>7. m \in 0 .. n /\ m \notin S /\ m # 0 /\ m - 1 \in 0 .. n
        BY <1>1
    <2>8. m - 1 \notin T
        <3>1. ASSUME m - 1 \in T PROVE FALSE
            <4>1. m \in Nat /\ m - 1 \in T \ {m}
                BY <2>3, <3>1
            <4>2. <<m, m - 1>> \in R
                BY <2>6, <4>1
            <4>3. m < m - 1
                BY <2>2, <4>1, <4>2
            <4> QED BY <4>1, <4>3
        <3> QED BY <3>1
    <2>9. m - 1 \in S /\ m - 1 < n /\ (m - 1) + 1 = m
        BY <1>1, <2>7, <2>8
    <2> QED BY <2>7, <2>9
<1> QED BY <1>1, <1>2

UpTo(k) == 1 .. k

LEMMA UpToBegins ==
    ASSUME NEW n \in Nat, NEW k \in 1 .. n
    PROVE  /\ UpTo(k) \in SUBSET (1 .. n) /\ UpTo(k) # {} /\ Max(UpTo(k)) = k
           /\ UpTo(k) \ {k} = UpTo(k - 1)
<1>1. k \in UpTo(k) /\ \A y \in UpTo(k) : k >= y
    BY DEF UpTo
<1>2. \A x \in UpTo(k) : (\A y \in UpTo(k) : x >= y) => x = k
    BY DEF UpTo
<1>3. Max(UpTo(k)) = k
    BY <1>1, <1>2 DEF Max
<1>4. UpTo(k) \in SUBSET (1 .. n)
    BY DEF UpTo
<1>5. ASSUME NEW x PROVE x \in UpTo(k) \ {k} <=> x \in UpTo(k - 1)
    BY DEF UpTo
<1>6. UpTo(k) \ {k} = UpTo(k - 1)
    BY <1>5
<1>7. UpTo(k) # {}
    BY <1>1
<1> QED BY <1>3, <1>4, <1>6, <1>7

LEMMA LastIs ==
    ASSUME NEW S, S \subseteq Nat, IsFiniteSet(S), S # {}
    PROVE  Max(S) \in S /\ \A i \in S : i <= Max(S)
<1>1. PICK m \in S : \A i \in S : i <= m
    BY LastOfNumbers
<1>2. \A i \in S : m >= i
    BY <1>1
<1> QED BY <1>2 DEF Max

\* The function on subsets a fold over a set of numbers is defined by, for a step
\* given as a function.
Folds(step, base, S, w) ==
    w = [s \in SUBSET S |-> IF s = {} THEN base ELSE step[<<w[s \ {Max(s)}], Max(s)>>]]

LEMMA FoldExists ==
    ASSUME NEW S, S \subseteq Nat, IsFiniteSet(S), NEW A, NEW base \in A,
           NEW step \in [A \X S -> A]
    PROVE  \E w \in [SUBSET S -> A] : Folds(step, base, S, w)
<1> DEFINE Has(s) == \E w \in [SUBSET s -> A] : Folds(step, base, s, w)
<1>1. PICK T : T = {s \in SUBSET S : ~Has(s)}
    OBVIOUS
<1>2. ASSUME T # {} PROVE FALSE
    <2>1. PICK s \in T : \A r \in T : r \subseteq s => r = s
        <3>1. \A r \in T : r \subseteq S
            BY <1>1
        <3> HIDE DEF Has
        <3> QED BY <1>2, <3>1, SmallestSubset
    <2>2. s \in SUBSET S /\ ~Has(s)
        BY <1>1
    <2>3. s # {}
        <3>1. ASSUME s = {} PROVE Has(s)
            <4>1. PICK w : w = [r \in SUBSET {} |-> base]
                OBVIOUS
            <4>2. w \in [SUBSET {} -> A] /\ Folds(step, base, {}, w)
                BY <4>1 DEF Folds
            <4> QED BY <3>1, <4>2
        <3> QED BY <2>2, <3>1
    <2>4. PICK m : m = Max(s)
        OBVIOUS
    <2>5. m \in s /\ \A i \in s : i <= m
        <3>1. s \subseteq Nat /\ IsFiniteSet(s)
            BY <2>2, FS_Subset
        <3> QED BY <2>3, <2>4, <3>1, LastIs
    <2>6. PICK p : p = s \ {m}
        OBVIOUS
    <2>7. Has(p)
        <3>1. p \in SUBSET S /\ p \subseteq s /\ p # s
            BY <2>2, <2>5, <2>6
        <3> HIDE DEF Has
        <3> QED BY <1>1, <2>1, <3>1
    <2>8. PICK v \in [SUBSET p -> A] : Folds(step, base, p, v)
        BY <2>7
    <2>9. PICK w : w = [r \in SUBSET s |-> IF m \in r THEN step[<<v[r \ {m}], m>>] ELSE v[r]]
        OBVIOUS
    <2>10. \A r \in SUBSET s : /\ r \ {m} \in SUBSET p /\ (m \in r => Max(r) = m)
                               /\ m \notin r => r \in SUBSET p
        <3> SUFFICES ASSUME NEW r \in SUBSET s
                     PROVE  r \ {m} \in SUBSET p /\ (m \in r => Max(r) = m)
                            /\ (m \notin r => r \in SUBSET p)
            OBVIOUS
        <3>1. ASSUME m \in r PROVE Max(r) = m
            <4>1. r \subseteq Nat /\ IsFiniteSet(r)
                BY <2>2, FS_Subset
            <4>2. Max(r) \in r /\ \A i \in r : i <= Max(r)
                BY <3>1, <4>1, LastIs
            <4>3. Max(r) <= m /\ m <= Max(r) /\ m \in Nat /\ Max(r) \in Nat
                BY <2>5, <3>1, <4>1, <4>2
            <4> QED BY <4>3
        <3> QED BY <2>6, <3>1
    <2>11. w \in [SUBSET s -> A]
        <3> SUFFICES ASSUME NEW r \in SUBSET s PROVE w[r] \in A
            BY <2>9
        <3>1. m \in S
            BY <2>2, <2>5
        <3> QED BY <2>8, <2>9, <2>10, <3>1
    <2>12. ASSUME NEW r \in SUBSET s
           PROVE  w[r] = IF r = {} THEN base ELSE step[<<w[r \ {Max(r)}], Max(r)>>]
        <3>1. CASE m \in r
            <4>1. w[r] = step[<<v[r \ {m}], m>>] /\ Max(r) = m
                BY <2>9, <2>10, <3>1
            <4>2. r \ {m} \in SUBSET s /\ w[r \ {m}] = v[r \ {m}]
                BY <2>9
            <4> QED BY <3>1, <4>1, <4>2
        <3>2. CASE m \notin r
            <4>1. w[r] = v[r] /\ r \in SUBSET p
                BY <2>9, <2>10, <3>2
            <4>2. v[r] = IF r = {} THEN base ELSE step[<<v[r \ {Max(r)}], Max(r)>>]
                BY <2>8, <4>1 DEF Folds
            <4>3. \A x : r \ {x} \in SUBSET s /\ m \notin r \ {x}
                BY <3>2
            <4>4. \A x : w[r \ {x}] = v[r \ {x}]
                BY <2>9, <4>3
            <4> QED BY <4>1, <4>2, <4>4
        <3> QED BY <3>1, <3>2
    <2>13. Folds(step, base, s, w)
        BY <2>9, <2>12 DEF Folds
    <2> QED BY <2>2, <2>11, <2>13
<1> HIDE DEF Has
<1>3. S \in SUBSET S
    OBVIOUS
<1>4. Has(S)
    BY <1>1, <1>2, <1>3
<1> QED BY <1>4 DEF Has

\* The same with the step unfolded, and the values it takes on 1 .. k, one by one.
LEMMA FoldTyped ==
    ASSUME NEW n \in Nat, NEW A, NEW base \in A, NEW step \in [A \X (1 .. n) -> A]
    PROVE  \E w : /\ Folds(step, base, 1 .. n, w)
                  /\ \A s \in SUBSET (1 .. n) :
                        s # {} => w[s \ {Max(s)}] \in A /\ Max(s) \in 1 .. n
<1>1. IsFiniteSet(1 .. n) /\ 1 .. n \subseteq Nat
    BY FS_Interval
<1>2. PICK w \in [SUBSET (1 .. n) -> A] : Folds(step, base, 1 .. n, w)
    BY <1>1, FoldExists
<1>3. ASSUME NEW s \in SUBSET (1 .. n), s # {}
      PROVE  w[s \ {Max(s)}] \in A /\ Max(s) \in 1 .. n
    <2>1. IsFiniteSet(s) /\ s \subseteq Nat
        BY <1>1, FS_Subset
    <2>2. Max(s) \in s
        BY <1>3, <2>1, LastIs
    <2>3. \A x : s \ {x} \in SUBSET (1 .. n)
        OBVIOUS
    <2> QED BY <1>2, <2>2, <2>3
<1> QED BY <1>2, <1>3

-----------------------------------------------------------------------------
\* Answers as sequences of entries, over any values for what an entry is of.
Entry(U, V) ==
    [position : Nat, kind : U, of : U, status : U, objects : Seq(V), found : Int]

Sums(s, c) ==
    /\ DOMAIN c = 0 .. Len(s) /\ c[0] = 0
    /\ \A k \in 1 .. Len(s) : c[k] = c[k - 1] + Len(s[k].objects)

LEMMA EntriesTyped ==
    ASSUME NEW U, NEW V, NEW s \in Seq(Entry(U, V)), NEW k \in 1 .. Len(s)
    PROVE  /\ s[k] \in Entry(U, V) /\ s[k].objects \in Seq(V) /\ Len(s[k].objects) \in Nat
           /\ s[k].position \in Nat /\ s[k].found \in Int
<1>1. s[k] \in Entry(U, V)
    OBVIOUS
<1> QED BY <1>1 DEF Entry

LEMMA CountUnfolds ==
    ASSUME NEW U, NEW V, NEW s \in Seq(Entry(U, V))
    PROVE  \E c : Sums(s, c) /\ ObjectCount(s) = c[Len(s)]
<1>1. PICK n \in Nat : n = Len(s)
    OBVIOUS
<1>2. DOMAIN s = 1 .. n /\ \A k \in 1 .. n : Len(s[k].objects) \in Nat
    BY <1>1 DEF Entry
<1>3. PICK step : step = [p \in Nat \X (1 .. n) |-> p[1] + Len(s[p[2]].objects)]
    OBVIOUS
<1>4. step \in [Nat \X (1 .. n) -> Nat]
    BY <1>2, <1>3
<1>5. PICK w : /\ Folds(step, 0, 1 .. n, w)
               /\ \A t \in SUBSET (1 .. n) :
                     t # {} => w[t \ {Max(t)}] \in Nat /\ Max(t) \in 1 .. n
    BY <1>4, FoldTyped
<1>6. w = [t \in SUBSET (1 .. n) |->
             IF t = {} THEN 0 ELSE w[t \ {Max(t)}] + Len(s[Max(t)].objects)]
    <2>1. \A t \in SUBSET (1 .. n) :
             t # {} => step[<<w[t \ {Max(t)}], Max(t)>>]
                         = w[t \ {Max(t)}] + Len(s[Max(t)].objects)
        BY <1>3, <1>5
    <2> QED BY <1>5, <2>1 DEF Folds
<1>7. \E v : /\ v = [t \in SUBSET (1 .. n) |->
                       IF t = {} THEN 0 ELSE v[t \ {Max(t)}] + Len(s[Max(t)].objects)]
             /\ ObjectCount(s) = v[1 .. n]
    BY <1>2, <1>6 DEF ObjectCount, FoldLeft, MapThenFoldSet
<1>8. PICK v : /\ v = [t \in SUBSET (1 .. n) |->
                         IF t = {} THEN 0 ELSE v[t \ {Max(t)}] + Len(s[Max(t)].objects)]
               /\ ObjectCount(s) = v[1 .. n]
    BY <1>7
<1>9. PICK c : c = [k \in 0 .. n |-> v[UpTo(k)]]
    OBVIOUS
<1>10. c[0] = 0
    <2>1. UpTo(0) = {} /\ 0 \in 0 .. n /\ {} \in SUBSET (1 .. n)
        BY DEF UpTo
    <2>2. v[{}] = 0
        BY <1>8, <2>1
    <2> QED BY <1>9, <2>1, <2>2
<1>11. ASSUME NEW k \in 1 .. n PROVE c[k] = c[k - 1] + Len(s[k].objects)
    <2>1. /\ UpTo(k) \in SUBSET (1 .. n) /\ UpTo(k) # {} /\ Max(UpTo(k)) = k
          /\ UpTo(k) \ {k} = UpTo(k - 1)
        BY UpToBegins
    <2>2. v[UpTo(k)] = v[UpTo(k - 1)] + Len(s[k].objects)
        <3>1. PICK t \in SUBSET (1 .. n) : t = UpTo(k)
            BY <2>1
        <3>2. PICK r : r = UpTo(k - 1)
            OBVIOUS
        <3>3. t # {} /\ Max(t) = k /\ t \ {k} = r
            BY <2>1, <3>1, <3>2
        <3>4. v[t] = v[t \ {Max(t)}] + Len(s[Max(t)].objects)
            BY <1>8, <3>3
        <3>5. v[t] = v[r] + Len(s[k].objects)
            BY <3>3, <3>4
        <3> QED BY <3>1, <3>2, <3>5
    <2>3. k \in 0 .. n /\ k - 1 \in 0 .. n
        OBVIOUS
    <2> QED BY <1>9, <2>2, <2>3
<1>12. c[n] = ObjectCount(s)
    <2>1. n \in 0 .. n /\ UpTo(n) = 1 .. n
        BY DEF UpTo
    <2> QED BY <1>8, <1>9, <2>1
<1> QED BY <1>1, <1>9, <1>10, <1>11, <1>12 DEF Sums

LEMMA SumsAreNatural ==
    ASSUME NEW U, NEW V, NEW s \in Seq(Entry(U, V)), NEW c, Sums(s, c)
    PROVE  \A k \in 0 .. Len(s) : c[k] \in Nat
<1>1. PICK n \in Nat : n = Len(s)
    OBVIOUS
<1>2. PICK S : S = {k \in 0 .. n : c[k] \in Nat}
    OBVIOUS
<1>3. 0 \in S
    BY <1>2 DEF Sums
<1>4. ASSUME NEW k \in 0 .. n, k \in S, k < n PROVE k + 1 \in S
    <2>1. k + 1 \in 1 .. n /\ (k + 1) - 1 = k
        BY <1>4
    <2>2. c[k + 1] = c[k] + Len(s[k + 1].objects)
        BY <1>1, <2>1 DEF Sums
    <2>3. Len(s[k + 1].objects) \in Nat /\ c[k] \in Nat
        BY <1>1, <1>2, <1>4, <2>1 DEF Entry
    <2> QED BY <1>2, <2>1, <2>2, <2>3
<1>5. \A k \in 0 .. n : k \in S
    BY <1>3, <1>4, CountsUp
<1> QED BY <1>1, <1>2, <1>5

\* A count is the last of its partial sums, whatever they are called.
LEMMA CountIsLast ==
    ASSUME NEW U, NEW V, NEW s \in Seq(Entry(U, V)), NEW c, Sums(s, c)
    PROVE  ObjectCount(s) = c[Len(s)] /\ ObjectCount(s) \in Nat
<1>1. PICK n \in Nat : n = Len(s)
    OBVIOUS
<1>2. PICK b : Sums(s, b) /\ ObjectCount(s) = b[n]
    BY <1>1, CountUnfolds
<1>3. PICK S : S = {k \in 0 .. n : b[k] = c[k]}
    OBVIOUS
<1>4. 0 \in S
    BY <1>2, <1>3 DEF Sums
<1>5. ASSUME NEW k \in 0 .. n, k \in S, k < n PROVE k + 1 \in S
    <2>1. k + 1 \in 1 .. n /\ (k + 1) - 1 = k
        BY <1>5
    <2>2. c[k + 1] = c[k] + Len(s[k + 1].objects) /\ b[k + 1] = b[k] + Len(s[k + 1].objects)
        BY <1>1, <1>2, <2>1 DEF Sums
    <2> QED BY <1>3, <1>5, <2>1, <2>2
<1>6. \A k \in 0 .. n : k \in S
    BY <1>4, <1>5, CountsUp
<1>7. n \in 0 .. n
    OBVIOUS
<1>8. c[n] \in Nat
    BY <1>1, <1>7, SumsAreNatural
<1> QED BY <1>1, <1>2, <1>3, <1>6, <1>7, <1>8

LEMMA CountOfNone ==
    ASSUME NEW U, NEW V, NEW s \in Seq(Entry(U, V)), Holders(s) = {}
    PROVE  ObjectCount(s) = 0
<1>1. PICK n \in Nat : n = Len(s) /\ DOMAIN s = 1 .. n
    OBVIOUS
<1>2. PICK c : c = [k \in 0 .. n |-> 0]
    OBVIOUS
<1>3. ASSUME NEW k \in 1 .. n PROVE c[k] = c[k - 1] + Len(s[k].objects)
    <2>1. k \in 0 .. n /\ k - 1 \in 0 .. n
        OBVIOUS
    <2>2. s[k].objects = <<>>
        BY <1>1 DEF Holders
    <2>3. Len(<<>>) = 0
        OBVIOUS
    <2> QED BY <1>2, <2>1, <2>2, <2>3
<1>4. Sums(s, c) /\ c[n] = 0
    BY <1>1, <1>2, <1>3 DEF Sums
<1> QED BY <1>1, <1>4, CountIsLast

LEMMA CountAppended ==
    ASSUME NEW U, NEW V, NEW s \in Seq(Entry(U, V)), NEW e \in Entry(U, V)
    PROVE  ObjectCount(Append(s, e)) = ObjectCount(s) + Len(e.objects)
<1>1. PICK n \in Nat : n = Len(s) /\ DOMAIN s = 1 .. n
    OBVIOUS
<1>2. PICK b : Sums(s, b) /\ ObjectCount(s) = b[n]
    BY <1>1, CountUnfolds
<1>3. PICK t : t = Append(s, e)
    OBVIOUS
<1>4. /\ t \in Seq(Entry(U, V)) /\ Len(t) = n + 1 /\ t[n + 1] = e
      /\ \A k \in 1 .. n : t[k] = s[k]
    BY <1>1, <1>3
<1>5. PICK c : c = [k \in 0 .. n + 1 |-> IF k = n + 1 THEN b[n] + Len(e.objects) ELSE b[k]]
    OBVIOUS
<1>6. ASSUME NEW k \in 1 .. n + 1 PROVE c[k] = c[k - 1] + Len(t[k].objects)
    <2>1. k \in 0 .. n + 1 /\ k - 1 \in 0 .. n + 1 /\ k - 1 # n + 1
        OBVIOUS
    <2>2. CASE k = n + 1
        <3>1. k - 1 = n
            BY <2>2
        <3> QED BY <1>4, <1>5, <2>1, <2>2, <3>1
    <2>3. CASE k # n + 1
        <3>1. k \in 1 .. n
            BY <2>3
        <3>2. b[k] = b[k - 1] + Len(s[k].objects)
            BY <1>1, <1>2, <3>1 DEF Sums
        <3> QED BY <1>4, <1>5, <2>1, <2>3, <3>1, <3>2
    <2> QED BY <2>2, <2>3
<1>7. c[0] = 0 /\ c[n + 1] = b[n] + Len(e.objects)
    <2>1. 0 \in 0 .. n + 1 /\ 0 # n + 1 /\ n + 1 \in 0 .. n + 1
        OBVIOUS
    <2> QED BY <1>2, <1>5, <2>1 DEF Sums
<1>8. Sums(t, c)
    BY <1>4, <1>5, <1>6, <1>7 DEF Sums
<1>9. ObjectCount(t) = c[n + 1]
    BY <1>4, <1>8, CountIsLast
<1> QED BY <1>2, <1>3, <1>7, <1>9

LEMMA FirstOnes ==
    ASSUME NEW V, NEW s \in Seq(V), NEW m \in 0 .. Len(s)
    PROVE  /\ SubSeq(s, 1, m) \in Seq(V) /\ Len(SubSeq(s, 1, m)) = m
           /\ ToSet(SubSeq(s, 1, m)) \subseteq ToSet(s)
<1>1. PICK p : p = SubSeq(s, 1, m)
    OBVIOUS
<1>2. p \in Seq(V) /\ Len(p) = m /\ \A k \in 1 .. m : p[k] = s[k]
    BY <1>1
<1>3. DOMAIN p = 1 .. m /\ DOMAIN s = 1 .. Len(s)
    BY <1>2
<1>4. \A k \in DOMAIN p : k \in DOMAIN s /\ p[k] = s[k]
    BY <1>2, <1>3
<1>5. ToSet(p) \subseteq ToSet(s)
    BY <1>4 DEF ToSet
<1> QED BY <1>1, <1>2, <1>5

\* Popping the last object: what is left, and that the count is one less.
Popped(objects) == SubSeq(objects, 1, Len(objects) - 1)

LEMMA PoppedIs ==
    ASSUME NEW V, NEW objects \in Seq(V), objects # <<>>
    PROVE  /\ Popped(objects) \in Seq(V) /\ Len(Popped(objects)) = Len(objects) - 1
           /\ ToSet(Popped(objects)) \subseteq ToSet(objects)
           /\ Popped(objects) = <<>> <=> Len(objects) = 1
           /\ Len(objects) \in Nat \ {0}
<1>0. Len(objects) \in Nat /\ Len(objects) # 0
    OBVIOUS
<1>1. PICK n \in Nat : n = Len(objects) - 1 /\ n \in 0 .. Len(objects)
  <2>1. Len(objects) - 1 \in Nat /\ Len(objects) - 1 \in 0 .. Len(objects)
    BY <1>0
  <2> WITNESS Len(objects) - 1 \in Nat
  <2> QED BY <2>1
<1>2. PICK p : p = Popped(objects)
    OBVIOUS
<1>3. p \in Seq(V) /\ Len(p) = n /\ ToSet(p) \subseteq ToSet(objects)
    BY <1>1, <1>2, FirstOnes DEF Popped
<1>4. p = <<>> <=> n = 0
    BY <1>3
<1> QED BY <1>1, <1>2, <1>3, <1>4

\* The sequence without the n-th of its entries.
LEMMA WithoutOne ==
    ASSUME NEW S, NEW s \in Seq(S), NEW n \in 1 .. Len(s), NEW t, t = RemoveAt(s, n)
    PROVE  /\ t \in Seq(S) /\ Len(t) = Len(s) - 1
           /\ \A k \in 1 .. Len(t) : t[k] = IF k < n THEN s[k] ELSE s[k + 1]
<1>1. PICK m \in Nat : m = Len(s)
    OBVIOUS
<1>2. PICK p : p = SubSeq(s, 1, n - 1)
    OBVIOUS
<1>3. PICK r : r = SubSeq(s, n + 1, m)
    OBVIOUS
<1>4. p \in Seq(S) /\ Len(p) = n - 1 /\ \A k \in 1 .. n - 1 : p[k] = s[k]
    BY <1>1, <1>2
<1>5. r \in Seq(S) /\ Len(r) = m - n /\ \A k \in 1 .. m - n : r[k] = s[n + k]
    BY <1>1, <1>3
<1>6. t = p \o r
    BY <1>1, <1>2, <1>3 DEF RemoveAt
<1>7. t \in Seq(S) /\ Len(t) = m - 1
    BY <1>1, <1>4, <1>5, <1>6
<1>8. ASSUME NEW k \in 1 .. m - 1 PROVE t[k] = IF k < n THEN s[k] ELSE s[k + 1]
    <2>1. CASE k < n
        BY <1>1, <1>4, <1>5, <1>6, <2>1
    <2>2. CASE ~(k < n)
        <3>1. k - (n - 1) \in 1 .. m - n /\ n + (k - (n - 1)) = k + 1
            BY <1>1, <2>2
        <3>2. t[k] = r[k - (n - 1)]
            BY <1>1, <1>4, <1>5, <1>6, <2>2
        <3> QED BY <1>5, <2>2, <3>1, <3>2
    <2> QED BY <2>1, <2>2
<1> QED BY <1>1, <1>7, <1>8

\* What _fit leaves: the last entry with objects has one less, or is gone.
Lessened(s, n, t) ==
    /\ Len(t) = Len(s) /\ \A k \in 1 .. Len(s) : k # n => t[k] = s[k]
    /\ t[n] = [s[n] EXCEPT !.objects = Popped(s[n].objects)]

Emptied(s, n, t) == Len(s[n].objects) = 1 /\ t = RemoveAt(s, n)

LEMMA WithoutLastIs ==
    ASSUME NEW U, NEW V, NEW s \in Seq(Entry(U, V)), Holders(s) # {}, NEW t, t = WithoutLast(s)
    PROVE  /\ t \in Seq(Entry(U, V))
           /\ \E n \in Holders(s) : Lessened(s, n, t) \/ Emptied(s, n, t)
<1>1. PICK m \in Nat : m = Len(s) /\ DOMAIN s = 1 .. m
    OBVIOUS
<1>2. Holders(s) \in SUBSET (1 .. m) /\ 1 .. m \subseteq Nat
    BY <1>1 DEF Holders
<1>3. IsFiniteSet(Holders(s)) /\ Holders(s) \subseteq Nat
    <2>1. IsFiniteSet(1 .. m)
        BY FS_Interval
    <2>2. IsFiniteSet(Holders(s))
        BY <1>2, <2>1, FS_Subset
    <2> QED BY <1>2, <2>2
<1>4. PICK n : n = Max(Holders(s))
    OBVIOUS
<1>5. n \in Holders(s) /\ n \in 1 .. m
    BY <1>2, <1>3, <1>4, LastIs
<1>6. s[n] \in Entry(U, V) /\ s[n].objects # <<>> /\ s[n].objects \in Seq(V)
    <2>1. s[n].objects # <<>>
        BY <1>5 DEF Holders
    <2> QED BY <1>1, <1>5, <2>1, EntriesTyped
<1>7. PICK rest : rest = [s EXCEPT ![n].objects = Popped(s[n].objects)]
    OBVIOUS
<1>8. t = IF rest[n].objects = <<>> THEN RemoveAt(s, n) ELSE rest
    BY <1>4, <1>7 DEF WithoutLast, Front, Popped
<1>9. PICK e : e = [s[n] EXCEPT !.objects = Popped(s[n].objects)]
    OBVIOUS
<1>10. e \in Entry(U, V) /\ e.objects = Popped(s[n].objects)
    <2>1. Popped(s[n].objects) \in Seq(V)
        BY <1>6, PoppedIs
    <2> QED BY <1>6, <1>9, <2>1 DEF Entry
<1>11. rest[n] = e /\ rest \in Seq(Entry(U, V)) /\ Len(rest) = m
       /\ \A k \in 1 .. m : k # n => rest[k] = s[k]
    BY <1>1, <1>5, <1>7, <1>9, <1>10
<1>12. CASE rest[n].objects = <<>>
    <2>1. Len(s[n].objects) = 1
        BY <1>6, <1>10, <1>11, <1>12, PoppedIs
    <2>2. t = RemoveAt(s, n)
        BY <1>8, <1>12
    <2>3. t \in Seq(Entry(U, V))
        BY <1>1, <1>5, <2>2, WithoutOne
    <2> QED BY <1>5, <2>1, <2>2, <2>3 DEF Emptied
<1>13. CASE rest[n].objects # <<>>
    BY <1>1, <1>5, <1>8, <1>9, <1>11, <1>13 DEF Lessened
<1> QED BY <1>12, <1>13

LEMMA CountLessened ==
    ASSUME NEW U, NEW V, NEW s \in Seq(Entry(U, V)), NEW t \in Seq(Entry(U, V)),
           NEW n \in Holders(s), Lessened(s, n, t)
    PROVE  ObjectCount(t) = ObjectCount(s) - 1
<1>1. PICK m \in Nat : m = Len(s) /\ DOMAIN s = 1 .. m
    OBVIOUS
<1>2. n \in 1 .. m /\ s[n].objects # <<>> /\ s[n].objects \in Seq(V) /\ Len(t) = m
    <2>1. n \in 1 .. m /\ s[n].objects # <<>> /\ Len(t) = m
        BY <1>1 DEF Holders, Lessened
    <2> QED BY <1>1, <2>1, EntriesTyped
<1>3. Len(t[n].objects) = Len(s[n].objects) - 1 /\ Len(s[n].objects) \in Nat
    <2>1. t[n].objects = Popped(s[n].objects)
        BY <1>1, <1>2 DEF Lessened, Entry
    <2> QED BY <1>2, <2>1, PoppedIs
<1>4. PICK b : Sums(s, b) /\ ObjectCount(s) = b[m]
    BY <1>1, CountUnfolds
<1>5. \A k \in 0 .. m : b[k] \in Nat
    BY <1>1, <1>4, SumsAreNatural
<1>6. PICK c : c = [k \in 0 .. m |-> IF k < n THEN b[k] ELSE b[k] - 1]
    OBVIOUS
<1>7. ASSUME NEW k \in 1 .. m PROVE c[k] = c[k - 1] + Len(t[k].objects)
    <2>1. k \in 0 .. m /\ k - 1 \in 0 .. m /\ b[k] \in Nat /\ b[k - 1] \in Nat
        BY <1>5
    <2>2. b[k] = b[k - 1] + Len(s[k].objects)
        BY <1>1, <1>4 DEF Sums
    <2>3. CASE k = n
        <3>1. k - 1 < n /\ ~(k < n)
            BY <2>3
        <3>2. c[k] = b[k] - 1 /\ c[k - 1] = b[k - 1]
            BY <1>6, <2>1, <3>1
        <3> QED BY <1>3, <2>1, <2>2, <2>3, <3>2
    <2>4. CASE k # n
        <3>1. t[k] = s[k]
            BY <1>1, <2>4 DEF Lessened
        <3>2. k < n <=> k - 1 < n
            BY <1>2, <2>4
        <3>3. PICK l \in Nat : l = Len(s[k].objects) /\ l = Len(t[k].objects)
            BY <1>1, <3>1, EntriesTyped
        <3>4. PICK x \in Nat, y \in Nat : x = b[k] /\ y = b[k - 1]
            BY <2>1
        <3>5. x = y + l
            BY <2>2, <3>3, <3>4
        <3>6. c[k] = c[k - 1] + l
            <4>1. CASE k < n
                BY <1>6, <2>1, <3>2, <3>4, <3>5, <4>1
            <4>2. CASE ~(k < n)
                <5>1. c[k] = x - 1 /\ c[k - 1] = y - 1
                    BY <1>6, <2>1, <3>2, <3>4, <4>2
                <5> QED BY <3>4, <3>5, <5>1
            <4> QED BY <4>1, <4>2
        <3> QED BY <3>3, <3>6
    <2> QED BY <2>3, <2>4
<1>8. c[0] = 0 /\ c[m] = b[m] - 1
    <2>1. 0 \in 0 .. m /\ m \in 0 .. m /\ 0 < n /\ ~(m < n)
        BY <1>2
    <2> QED BY <1>4, <1>6, <2>1 DEF Sums
<1>9. Sums(t, c)
    BY <1>2, <1>6, <1>7, <1>8 DEF Sums
<1> QED BY <1>2, <1>4, <1>8, <1>9, CountIsLast

LEMMA CountEmptied ==
    ASSUME NEW U, NEW V, NEW s \in Seq(Entry(U, V)), NEW t \in Seq(Entry(U, V)),
           NEW n \in Holders(s), Emptied(s, n, t)
    PROVE  ObjectCount(t) = ObjectCount(s) - 1
<1>1. PICK m \in Nat : m = Len(s) /\ DOMAIN s = 1 .. m
    OBVIOUS
<1>2. n \in 1 .. m /\ Len(s[n].objects) = 1 /\ t = RemoveAt(s, n) /\ m - 1 \in Nat
    BY <1>1 DEF Holders, Emptied
<1>3. Len(t) = m - 1 /\ \A k \in 1 .. m - 1 : t[k] = IF k < n THEN s[k] ELSE s[k + 1]
    BY <1>1, <1>2, WithoutOne
<1>4. PICK b : Sums(s, b) /\ ObjectCount(s) = b[m]
    BY <1>1, CountUnfolds
<1>5. \A k \in 0 .. m : b[k] \in Nat
    BY <1>1, <1>4, SumsAreNatural
<1>6. \A k \in 1 .. m : b[k] = b[k - 1] + Len(s[k].objects)
    BY <1>1, <1>4 DEF Sums
<1>7. PICK c : c = [k \in 0 .. m - 1 |-> IF k < n THEN b[k] ELSE b[k + 1] - 1]
    OBVIOUS
<1>8. ASSUME NEW k \in 1 .. m - 1 PROVE c[k] = c[k - 1] + Len(t[k].objects)
    <2>1. /\ k \in 0 .. m - 1 /\ k - 1 \in 0 .. m - 1 /\ (k - 1) + 1 = k /\ (k + 1) - 1 = k
          /\ k \in 1 .. m /\ k + 1 \in 1 .. m /\ k - 1 \in 0 .. m
        BY <1>2
    <2>2. b[k] \in Nat /\ b[k - 1] \in Nat /\ b[k + 1] \in Nat
        BY <1>5, <2>1
    <2>3. b[k] = b[k - 1] + Len(s[k].objects) /\ b[k + 1] = b[k] + Len(s[k + 1].objects)
        BY <1>6, <2>1
    <2>4. PICK l \in Nat, h \in Nat : l = Len(s[k].objects) /\ h = Len(s[k + 1].objects)
        BY <1>1, <2>1, EntriesTyped
    <2>5. CASE k < n
        <3>1. k - 1 < n
            BY <1>2, <2>5
        <3>2. c[k] = b[k] /\ c[k - 1] = b[k - 1] /\ t[k] = s[k]
            BY <1>3, <1>7, <2>1, <2>5, <3>1
        <3> QED BY <2>3, <3>2
    <2>6. CASE k = n
        <3>1. k - 1 < n /\ ~(k < n)
            BY <2>6
        <3>2. c[k] = b[k + 1] - 1 /\ c[k - 1] = b[k - 1] /\ t[k] = s[k + 1]
            BY <1>3, <1>7, <2>1, <3>1
        <3>3. l = 1 /\ h = Len(t[k].objects)
            BY <1>2, <2>4, <2>6, <3>2
        <3>4. b[k + 1] = b[k] + h /\ b[k] = b[k - 1] + 1
            BY <2>3, <2>4, <3>3
        <3>5. c[k] = c[k - 1] + h
            BY <2>2, <3>2, <3>4
        <3> QED BY <3>3, <3>5
    <2>7. CASE k > n
        <3>1. ~(k - 1 < n) /\ ~(k < n)
            BY <1>2, <2>7
        <3>2. c[k] = b[k + 1] - 1 /\ c[k - 1] = b[k] - 1 /\ t[k] = s[k + 1]
            BY <1>3, <1>7, <2>1, <3>1
        <3>3. h = Len(t[k].objects) /\ b[k + 1] = b[k] + h
            BY <2>3, <2>4, <3>2
        <3>4. PICK x \in Nat, y \in Nat : x = b[k + 1] /\ y = b[k]
            BY <2>2
        <3>5. c[k] = x - 1 /\ c[k - 1] = y - 1 /\ x = y + h
            BY <3>2, <3>3, <3>4
        <3>6. c[k] = c[k - 1] + h
            BY <3>4, <3>5
        <3> QED BY <3>3, <3>6
    <2> QED BY <1>2, <2>5, <2>6, <2>7
<1>9. c[0] = 0 /\ c[m - 1] = b[m] - 1
    <2>1. 0 \in 0 .. m - 1 /\ 0 < n /\ m - 1 \in 0 .. m - 1 /\ (m - 1) + 1 = m
        BY <1>2
    <2>2. c[0] = 0
        BY <1>4, <1>7, <2>1 DEF Sums
    <2>3. CASE m - 1 < n
        <3>1. m = n /\ m \in 1 .. m
            BY <1>2, <2>3
        <3>2. b[m] = b[m - 1] + 1
            BY <1>2, <1>6, <3>1
        <3>3. b[m - 1] \in Nat
            BY <1>2, <1>5
        <3>4. c[m - 1] = b[m - 1]
            BY <1>7, <2>1, <2>3
        <3> QED BY <2>2, <3>2, <3>3, <3>4
    <2>4. CASE ~(m - 1 < n)
        BY <1>7, <2>1, <2>2, <2>4
    <2> QED BY <2>3, <2>4
<1>10. Sums(t, c)
    BY <1>3, <1>7, <1>8, <1>9 DEF Sums
<1> QED BY <1>3, <1>4, <1>9, <1>10, CountIsLast

-----------------------------------------------------------------------------
\* What a cut leaves of the first k entries: some of them, in their order, with
\* some of their objects, and all that have none.
Ascends(s) == \A d, e \in DOMAIN s : d < e => s[d].position < s[e].position

PartOf(a, b) ==
    /\ a.position = b.position /\ a.kind = b.kind /\ a.of = b.of
    /\ ToSet(a.objects) \subseteq ToSet(b.objects)

Answers(t, entry) == \E e \in DOMAIN t : t[e].position = entry.position

LeftOf(t, s, k) == Ascends(t) /\ \A e \in DOMAIN t : \E i \in 1 .. k : PartOf(t[e], s[i])

LEMMA AscendingAreDistinct ==
    ASSUME NEW U, NEW V, NEW s \in Seq(Entry(U, V)), Ascends(s),
           NEW i \in DOMAIN s, NEW j \in DOMAIN s, s[i].position = s[j].position
    PROVE  i = j
<1>1. i \in 1 .. Len(s) /\ j \in 1 .. Len(s)
    OBVIOUS
<1>2. s[i].position \in Nat /\ s[j].position \in Nat
    BY <1>1, EntriesTyped
<1>3. i < j => s[i].position < s[j].position
    BY DEF Ascends
<1>4. j < i => s[j].position < s[i].position
    BY DEF Ascends
<1> QED BY <1>1, <1>2, <1>3, <1>4

LEMMA LessenedIsLeft ==
    ASSUME NEW U, NEW V, NEW s \in Seq(Entry(U, V)), NEW m \in Nat, NEW t \in Seq(Entry(U, V)),
           LeftOf(t, s, m), NEW n \in Holders(t), NEW r \in Seq(Entry(U, V)), Lessened(t, n, r)
    PROVE  LeftOf(r, s, m) /\ \A i \in 1 .. m : Answers(t, s[i]) => Answers(r, s[i])
<1>1. DOMAIN r = DOMAIN t
    BY DEF Lessened
<1>2. ASSUME NEW e \in DOMAIN t PROVE PartOf(r[e], t[e])
    <2>1. e \in 1 .. Len(t)
        OBVIOUS
    <2>2. CASE e = n
        <3>1. t[e] \in Entry(U, V) /\ t[e].objects \in Seq(V)
            BY <2>1, EntriesTyped
        <3>2. t[e].objects # <<>>
            BY <2>2 DEF Holders
        <3>3. r[e] = [t[e] EXCEPT !.objects = Popped(t[e].objects)]
            BY <2>2 DEF Lessened
        <3>4. /\ r[e].position = t[e].position /\ r[e].kind = t[e].kind /\ r[e].of = t[e].of
              /\ r[e].objects = Popped(t[e].objects)
            BY <3>1, <3>3 DEF Entry
        <3>5. ToSet(r[e].objects) \subseteq ToSet(t[e].objects)
            BY <3>1, <3>2, <3>4, PoppedIs
        <3> QED BY <3>4, <3>5 DEF PartOf
    <2>3. CASE e # n
        <3>1. r[e] = t[e]
            BY <2>1, <2>3 DEF Lessened
        <3> QED BY <3>1 DEF PartOf
    <2> QED BY <2>2, <2>3
<1>3. \A e \in DOMAIN t : r[e].position = t[e].position
    BY <1>2 DEF PartOf
<1>4. Ascends(r)
    BY <1>1, <1>3 DEF LeftOf, Ascends
<1>5. ASSUME NEW e \in DOMAIN r PROVE \E i \in 1 .. m : PartOf(r[e], s[i])
    <2>1. PICK i \in 1 .. m : PartOf(t[e], s[i])
        BY <1>1 DEF LeftOf
    <2>2. PartOf(r[e], s[i])
        BY <1>1, <1>2, <2>1 DEF PartOf
    <2> QED BY <2>2
<1>6. \A i \in 1 .. m : Answers(t, s[i]) => Answers(r, s[i])
    BY <1>1, <1>3 DEF Answers
<1> QED BY <1>4, <1>5, <1>6 DEF LeftOf

LEMMA EmptiedIsLeft ==
    ASSUME NEW U, NEW V, NEW s \in Seq(Entry(U, V)), Ascends(s), NEW m \in Nat, m = Len(s),
           NEW t \in Seq(Entry(U, V)), LeftOf(t, s, m), NEW n \in Holders(t),
           NEW r \in Seq(Entry(U, V)), Emptied(t, n, r)
    PROVE  /\ LeftOf(r, s, m)
           /\ \A i \in 1 .. m : s[i].objects = <<>> /\ Answers(t, s[i]) => Answers(r, s[i])
<1>1. PICK l \in Nat : l = Len(t) /\ DOMAIN t = 1 .. l
    OBVIOUS
<1>2. n \in 1 .. l /\ t[n].objects # <<>> /\ r = RemoveAt(t, n)
    BY <1>1 DEF Holders, Emptied
<1>3. DOMAIN r = 1 .. l - 1 /\ \A k \in 1 .. l - 1 : r[k] = IF k < n THEN t[k] ELSE t[k + 1]
    <2>1. /\ r \in Seq(Entry(U, V)) /\ Len(r) = Len(t) - 1
          /\ \A k \in 1 .. Len(r) : r[k] = IF k < n THEN t[k] ELSE t[k + 1]
        BY <1>1, <1>2, WithoutOne
    <2>2. DOMAIN r = 1 .. l - 1 /\ Len(r) = l - 1
        BY <1>1, <2>1
    <2> QED BY <2>1, <2>2
<1>4. PICK f : f = [k \in 1 .. l - 1 |-> IF k < n THEN k ELSE k + 1]
    OBVIOUS
<1>5. \A k \in 1 .. l - 1 : f[k] \in 1 .. l /\ r[k] = t[f[k]]
    BY <1>2, <1>3, <1>4
<1>6. \A d, e \in 1 .. l - 1 : d < e => f[d] < f[e]
    BY <1>2, <1>4
<1>7. Ascends(r)
    <2>1. ASSUME NEW d \in DOMAIN r, NEW e \in DOMAIN r, d < e
          PROVE  r[d].position < r[e].position
        <3>1. f[d] \in DOMAIN t /\ f[e] \in DOMAIN t /\ f[d] < f[e]
            BY <1>1, <1>3, <1>5, <1>6, <2>1
        <3>2. t[f[d]].position < t[f[e]].position
            BY <3>1 DEF LeftOf, Ascends
        <3> QED BY <1>3, <1>5, <3>2
    <2> QED BY <2>1 DEF Ascends
<1>8. \A e \in DOMAIN r : \E i \in 1 .. m : PartOf(r[e], s[i])
    BY <1>1, <1>3, <1>5 DEF LeftOf
<1>9. ASSUME NEW i \in 1 .. m, s[i].objects = <<>>, Answers(t, s[i]) PROVE Answers(r, s[i])
    <2>1. PICK e \in 1 .. l : t[e].position = s[i].position
        BY <1>1, <1>9 DEF Answers
    <2>2. ASSUME e = n PROVE FALSE
        <3>1. PICK j \in 1 .. m : PartOf(t[n], s[j])
            BY <1>1, <1>2 DEF LeftOf
        <3>2. i \in DOMAIN s /\ j \in DOMAIN s /\ s[i].position = s[j].position
            BY <2>1, <2>2, <3>1 DEF PartOf
        <3>3. i = j
            BY <3>2, AscendingAreDistinct
        <3>4. ToSet(t[n].objects) \subseteq ToSet(<<>>)
            BY <1>9, <3>1, <3>3 DEF PartOf
        <3>5. ToSet(<<>>) = {}
            BY DEF ToSet
        <3>6. t[n].objects \in Seq(V)
            BY <1>1, <1>2, EntriesTyped
        <3>7. t[n].objects[1] \in ToSet(t[n].objects)
            BY <1>2, <3>6 DEF ToSet
        <3> QED BY <3>4, <3>5, <3>7
    <2>3. CASE e < n
        <3>1. e \in 1 .. l - 1 /\ r[e] = t[e]
            BY <1>2, <1>3, <2>3
        <3> QED BY <1>3, <2>1, <3>1 DEF Answers
    <2>4. CASE e > n
        <3>1. e - 1 \in 1 .. l - 1 /\ ~(e - 1 < n) /\ (e - 1) + 1 = e
            BY <1>2, <2>4
        <3>2. r[e - 1] = t[e]
            BY <1>3, <3>1
        <3> QED BY <1>3, <2>1, <3>1, <3>2 DEF Answers
    <2> QED BY <1>2, <2>2, <2>3, <2>4
<1> QED BY <1>7, <1>8, <1>9 DEF LeftOf

LEMMA WithoutLastIsLeft ==
    ASSUME NEW U, NEW V, NEW s \in Seq(Entry(U, V)), Ascends(s), NEW m \in Nat, m = Len(s),
           NEW t \in Seq(Entry(U, V)), LeftOf(t, s, m), Holders(t) # {},
           NEW r, r = WithoutLast(t)
    PROVE  /\ r \in Seq(Entry(U, V)) /\ ObjectCount(r) = ObjectCount(t) - 1
           /\ LeftOf(r, s, m)
           /\ \A i \in 1 .. m : s[i].objects = <<>> /\ Answers(t, s[i]) => Answers(r, s[i])
<1>1. r \in Seq(Entry(U, V)) /\ \E n \in Holders(t) : Lessened(t, n, r) \/ Emptied(t, n, r)
    BY WithoutLastIs
<1>2. PICK n \in Holders(t) : Lessened(t, n, r) \/ Emptied(t, n, r)
    BY <1>1
<1>3. CASE Lessened(t, n, r)
    BY <1>1, <1>3, CountLessened, LessenedIsLeft
<1>4. CASE Emptied(t, n, r)
    BY <1>1, <1>4, CountEmptied, EmptiedIsLeft
<1> QED BY <1>2, <1>3, <1>4

-----------------------------------------------------------------------------
\* The number of objects: CapStep goes through the entries.
Cuts(U, V) == [left : Nat, kept : Seq(Entry(U, V)), cut : BOOLEAN]

LEMMA SmallerOfTwo ==
    ASSUME NEW a \in Int, NEW b \in Int
    PROVE  Min({a, b}) = IF a <= b THEN a ELSE b
<1>1. PICK m : m = IF a <= b THEN a ELSE b
    OBVIOUS
<1>2. m \in {a, b} /\ \A y \in {a, b} : m <= y
    BY <1>1
<1>3. \A x \in {a, b} : (\A y \in {a, b} : x <= y) => x = m
    BY <1>1
<1> QED BY <1>1, <1>2, <1>3 DEF Min

Trimmed(objects, left) == SubSeq(objects, 1, Min({left, Len(objects)}))

LEMMA TrimmedIs ==
    ASSUME NEW V, NEW objects \in Seq(V), NEW left \in Nat
    PROVE  /\ Trimmed(objects, left) \in Seq(V)
           /\ Len(Trimmed(objects, left)) = Min({left, Len(objects)})
           /\ ToSet(Trimmed(objects, left)) \subseteq ToSet(objects)
<1>1. PICK m \in Nat : m = Min({left, Len(objects)}) /\ m <= Len(objects)
    <2>1. left \in Int /\ Len(objects) \in Int /\ Len(objects) \in Nat
        OBVIOUS
    <2>2. Min({left, Len(objects)}) = IF left <= Len(objects) THEN left ELSE Len(objects)
        BY <2>1, SmallerOfTwo
    <2> QED BY <2>1, <2>2
<1>2. m \in 0 .. Len(objects) /\ Trimmed(objects, left) = SubSeq(objects, 1, m)
    BY <1>1 DEF Trimmed
<1> QED BY <1>1, <1>2, FirstOnes

\* The two ways of CapStep: the entry is left out, or taken as far as it fits.
LeftOut(acc, e, r) == e.objects # <<>> /\ acc.left = 0 /\ r = [acc EXCEPT !.cut = TRUE]

Taken(acc, e, x, r) ==
    /\ e.objects = <<>> \/ acc.left > 0
    /\ x = [e EXCEPT !.objects = Trimmed(e.objects, acc.left)]
    /\ r = [left |-> acc.left - Min({acc.left, Len(e.objects)}), kept |-> Append(acc.kept, x),
            cut |-> acc.cut \/ Len(e.objects) > acc.left]

LEMMA CapStepIs ==
    ASSUME NEW U, NEW V, NEW acc \in Cuts(U, V), NEW e \in Entry(U, V),
           NEW r, r = CapStep(acc, e)
    PROVE  /\ r \in Cuts(U, V)
           /\ LeftOut(acc, e, r) \/ \E x \in Entry(U, V) : Taken(acc, e, x, r)
<1>1. e.objects \in Seq(V) /\ acc.left \in Nat /\ acc.kept \in Seq(Entry(U, V)) /\ acc.cut \in BOOLEAN
    BY DEF Entry, Cuts
<1>2. CASE e.objects # <<>> /\ acc.left <= 0
    <2>1. r = [acc EXCEPT !.cut = TRUE] /\ acc.left = 0
        BY <1>1, <1>2 DEF CapStep
    <2>2. r \in Cuts(U, V)
        BY <2>1 DEF Cuts
    <2> QED BY <1>2, <2>1, <2>2 DEF LeftOut
<1>3. CASE ~(e.objects # <<>> /\ acc.left <= 0)
    <2>1. PICK x : x = [e EXCEPT !.objects = Trimmed(e.objects, acc.left)]
        OBVIOUS
    <2>2. x \in Entry(U, V)
        <3>1. Trimmed(e.objects, acc.left) \in Seq(V)
            BY <1>1, TrimmedIs
        <3> QED BY <2>1, <3>1 DEF Entry
    <2>3. r = [left |-> acc.left - Min({acc.left, Len(e.objects)}), kept |-> Append(acc.kept, x),
               cut |-> acc.cut \/ Len(e.objects) > acc.left]
        BY <1>3, <2>1 DEF CapStep, Trimmed
    <2>4. acc.left - Min({acc.left, Len(e.objects)}) \in Nat
        BY <1>1, SmallerOfTwo
    <2>5. Append(acc.kept, x) \in Seq(Entry(U, V))
        BY <1>1, <2>2
    <2>6. r \in Cuts(U, V)
        BY <1>1, <2>3, <2>4, <2>5 DEF Cuts
    <2>7. Taken(acc, e, x, r)
        BY <1>1, <1>3, <2>1, <2>3 DEF Taken
    <2> QED BY <2>2, <2>6, <2>7
<1> QED BY <1>2, <1>3

Uncut == [left |-> ChatObjects, kept |-> <<>>, cut |-> FALSE]

CapsFrom(s, a) ==
    /\ a[0] = Uncut
    /\ \A k \in 1 .. Len(s) : a[k] = CapStep(a[k - 1], s[k])

LEMMA CapUnfolds ==
    ASSUME NEW U, NEW V, NEW s \in Seq(Entry(U, V))
    PROVE  \E a : CapsFrom(s, a) /\ Capped(s) = a[Len(s)]
<1>1. PICK n \in Nat : n = Len(s)
    OBVIOUS
<1>2. DOMAIN s = 1 .. n /\ \A k \in 1 .. n : s[k] \in Entry(U, V)
    BY <1>1
<1>3. PICK step : step = [p \in Cuts(U, V) \X (1 .. n) |-> CapStep(p[1], s[p[2]])]
    OBVIOUS
<1>4. step \in [Cuts(U, V) \X (1 .. n) -> Cuts(U, V)]
    <2>1. ASSUME NEW acc \in Cuts(U, V), NEW k \in 1 .. n
          PROVE  CapStep(acc, s[k]) \in Cuts(U, V)
        <3>1. PICK r : r = CapStep(acc, s[k])
            OBVIOUS
        <3> QED BY <1>2, <3>1, CapStepIs
    <2> QED BY <1>3, <2>1
<1>5. Uncut \in Cuts(U, V)
    BY ChatAssumption DEF Uncut, Cuts
<1>6. PICK w : /\ Folds(step, Uncut, 1 .. n, w)
               /\ \A t \in SUBSET (1 .. n) :
                     t # {} => w[t \ {Max(t)}] \in Cuts(U, V) /\ Max(t) \in 1 .. n
    BY <1>4, <1>5, FoldTyped
<1>7. w = [t \in SUBSET (1 .. n) |->
             IF t = {} THEN Uncut ELSE CapStep(w[t \ {Max(t)}], s[Max(t)])]
    <2>1. \A t \in SUBSET (1 .. n) :
             t # {} => step[<<w[t \ {Max(t)}], Max(t)>>] = CapStep(w[t \ {Max(t)}], s[Max(t)])
        BY <1>3, <1>6
    <2> QED BY <1>6, <2>1 DEF Folds
<1>8. \E v : /\ v = [t \in SUBSET (1 .. n) |->
                       IF t = {} THEN Uncut ELSE CapStep(v[t \ {Max(t)}], s[Max(t)])]
             /\ Capped(s) = v[1 .. n]
    BY <1>2, <1>7 DEF Capped, FoldLeft, MapThenFoldSet, Uncut
<1>9. PICK v : /\ v = [t \in SUBSET (1 .. n) |->
                         IF t = {} THEN Uncut ELSE CapStep(v[t \ {Max(t)}], s[Max(t)])]
               /\ Capped(s) = v[1 .. n]
    BY <1>8
<1>10. PICK a : a = [k \in 0 .. n |-> v[UpTo(k)]]
    OBVIOUS
<1>11. a[0] = Uncut
    <2>1. UpTo(0) = {} /\ 0 \in 0 .. n /\ {} \in SUBSET (1 .. n)
        BY DEF UpTo
    <2>2. v[{}] = Uncut
        BY <1>9, <2>1
    <2> QED BY <1>10, <2>1, <2>2
<1>12. ASSUME NEW k \in 1 .. n PROVE a[k] = CapStep(a[k - 1], s[k])
    <2>1. PICK t, r : t = UpTo(k) /\ r = UpTo(k - 1)
        OBVIOUS
    <2>2. t \in SUBSET (1 .. n) /\ t # {} /\ Max(t) = k /\ t \ {k} = r
        BY <2>1, UpToBegins
    <2>3. v[t] = CapStep(v[t \ {Max(t)}], s[Max(t)])
        BY <1>9, <2>2
    <2>4. v[t] = CapStep(v[r], s[k])
        BY <2>2, <2>3
    <2>5. k \in 0 .. n /\ k - 1 \in 0 .. n
        OBVIOUS
    <2> QED BY <1>10, <2>1, <2>4, <2>5
<1>13. a[n] = Capped(s)
    <2>1. n \in 0 .. n /\ UpTo(n) = 1 .. n
        BY DEF UpTo
    <2> QED BY <1>9, <1>10, <2>1
<1> QED BY <1>1, <1>11, <1>12, <1>13 DEF CapsFrom

\* After k entries: what is listed and what may still be listed make up the cap, an
\* entry that is missing had objects, and the cut is known.
KeptSoFar(acc, s, c, k) ==
    /\ acc.left + ObjectCount(acc.kept) = ChatObjects
    /\ LeftOf(acc.kept, s, k)
    /\ \A i \in 1 .. k : Answers(acc.kept, s[i]) \/ (acc.cut /\ s[i].objects # <<>>)
    /\ ObjectCount(acc.kept) <= c[k]
    /\ acc.cut <=> ObjectCount(acc.kept) < c[k]

LEMMA CountIsNatural ==
    ASSUME NEW U, NEW V, NEW s \in Seq(Entry(U, V)) PROVE ObjectCount(s) \in Nat
<1>1. PICK c : Sums(s, c)
    BY CountUnfolds
<1> QED BY <1>1, CountIsLast

LEMMA LeftOutKeeps ==
    ASSUME NEW U, NEW V, NEW s \in Seq(Entry(U, V)), NEW c, Sums(s, c),
           NEW k \in 1 .. Len(s), NEW acc \in Cuts(U, V), KeptSoFar(acc, s, c, k - 1),
           NEW r \in Cuts(U, V), LeftOut(acc, s[k], r)
    PROVE  KeptSoFar(r, s, c, k)
<1>1. r.left = acc.left /\ r.kept = acc.kept /\ r.cut = TRUE /\ s[k].objects # <<>>
    BY DEF LeftOut, Cuts
<1>2. s[k].objects \in Seq(V)
    BY EntriesTyped
<1>3. PICK l \in Nat \ {0} : l = Len(s[k].objects)
    BY <1>1, <1>2
<1>4. PICK x \in Nat, y \in Nat : x = c[k - 1] /\ y = c[k]
    <2>1. k - 1 \in 0 .. Len(s) /\ k \in 0 .. Len(s)
        OBVIOUS
    <2> QED BY <2>1, SumsAreNatural
<1>5. y = x + l
    BY <1>3, <1>4 DEF Sums
<1>6. PICK m \in Nat : m = ObjectCount(acc.kept)
    BY CountIsNatural DEF Cuts
<1>7. m <= x
    BY <1>4, <1>6 DEF KeptSoFar
<1>8. m < y /\ m <= y
    BY <1>5, <1>7
<1>9. \A i \in 1 .. k : i \in 1 .. k - 1 \/ i = k
    OBVIOUS
<1>10. \A i \in 1 .. k - 1 : i \in 1 .. k
    OBVIOUS
<1>11. LeftOf(r.kept, s, k)
    BY <1>1, <1>10 DEF KeptSoFar, LeftOf
<1>12. \A i \in 1 .. k : Answers(r.kept, s[i]) \/ (r.cut /\ s[i].objects # <<>>)
    BY <1>1, <1>9 DEF KeptSoFar
<1> QED BY <1>1, <1>4, <1>6, <1>8, <1>11, <1>12 DEF KeptSoFar

LEMMA TakenIsLeft ==
    ASSUME NEW U, NEW V, NEW s \in Seq(Entry(U, V)), Ascends(s), NEW k \in 1 .. Len(s),
           NEW t \in Seq(Entry(U, V)), LeftOf(t, s, k - 1),
           NEW x \in Entry(U, V), PartOf(x, s[k])
    PROVE  LeftOf(Append(t, x), s, k)
<1>1. PICK n \in Nat : n = Len(t) /\ DOMAIN t = 1 .. n
    OBVIOUS
<1>2. PICK r : r = Append(t, x)
    OBVIOUS
<1>3. DOMAIN r = 1 .. n + 1 /\ r[n + 1] = x /\ \A e \in 1 .. n : r[e] = t[e]
    BY <1>1, <1>2
<1>4. ASSUME NEW e \in 1 .. n PROVE t[e].position < x.position
    <2>1. PICK i \in 1 .. k - 1 : PartOf(t[e], s[i])
        BY <1>1 DEF LeftOf
    <2>2. i \in DOMAIN s /\ k \in DOMAIN s /\ i < k
        OBVIOUS
    <2>3. s[i].position < s[k].position
        BY <2>2 DEF Ascends
    <2> QED BY <2>1, <2>3 DEF PartOf
<1>5. ASSUME NEW d \in DOMAIN r, NEW e \in DOMAIN r, d < e PROVE r[d].position < r[e].position
    <2>1. d \in 1 .. n
        BY <1>3, <1>5
    <2>2. CASE e = n + 1
        BY <1>3, <1>4, <2>1, <2>2
    <2>3. CASE e # n + 1
        <3>1. e \in 1 .. n
            BY <1>3, <2>3
        <3>2. t[d].position < t[e].position
            BY <1>1, <1>5, <2>1, <3>1 DEF LeftOf, Ascends
        <3> QED BY <1>3, <2>1, <3>1, <3>2
    <2> QED BY <2>2, <2>3
<1>6. ASSUME NEW e \in DOMAIN r PROVE \E i \in 1 .. k : PartOf(r[e], s[i])
    <2>1. CASE e = n + 1
        <3>1. k \in 1 .. k
            OBVIOUS
        <3> QED BY <1>3, <2>1, <3>1
    <2>2. CASE e # n + 1
        <3>1. e \in 1 .. n
            BY <1>3, <2>2
        <3>2. PICK i \in 1 .. k - 1 : PartOf(t[e], s[i])
            BY <1>1, <3>1 DEF LeftOf
        <3>3. i \in 1 .. k
            OBVIOUS
        <3> QED BY <1>3, <3>1, <3>2, <3>3
    <2> QED BY <2>1, <2>2
<1> QED BY <1>2, <1>5, <1>6 DEF LeftOf, Ascends

LEMMA TakenKeeps ==
    ASSUME NEW U, NEW V, NEW s \in Seq(Entry(U, V)), Ascends(s), NEW c, Sums(s, c),
           NEW k \in 1 .. Len(s), NEW acc \in Cuts(U, V), KeptSoFar(acc, s, c, k - 1),
           NEW r \in Cuts(U, V), NEW x \in Entry(U, V), Taken(acc, s[k], x, r)
    PROVE  KeptSoFar(r, s, c, k)
<1>1. PICK e \in Entry(U, V) : e = s[k] /\ e.objects \in Seq(V)
    BY EntriesTyped
<1>2. PICK left \in Nat : left = acc.left
    BY DEF Cuts
<1>3. PICK t \in Seq(Entry(U, V)) : t = acc.kept
    BY DEF Cuts
<1>4. PICK l \in Nat : l = Len(e.objects)
    BY <1>1
<1>5. PICK h \in Nat : h = Min({left, l}) /\ h <= left /\ h <= l /\ (h < l <=> l > left)
    <2>1. Min({left, l}) = IF left <= l THEN left ELSE l
        BY SmallerOfTwo
    <2> QED BY <2>1
<1>6. /\ x = [e EXCEPT !.objects = Trimmed(e.objects, left)]
      /\ r = [left |-> left - h, kept |-> Append(t, x), cut |-> acc.cut \/ l > left]
    BY <1>1, <1>2, <1>3, <1>4, <1>5 DEF Taken
<1>7. /\ x.position = e.position /\ x.kind = e.kind /\ x.of = e.of
      /\ x.objects = Trimmed(e.objects, left)
    BY <1>1, <1>6 DEF Entry
<1>8. PartOf(x, e) /\ Len(x.objects) = h
    <2>1. /\ Len(Trimmed(e.objects, left)) = Min({left, Len(e.objects)})
          /\ ToSet(Trimmed(e.objects, left)) \subseteq ToSet(e.objects)
        BY <1>1, TrimmedIs
    <2> QED BY <1>4, <1>5, <1>7, <2>1 DEF PartOf
<1>9. PICK m \in Nat : m = ObjectCount(t)
    BY CountIsNatural
<1>10. ObjectCount(r.kept) = m + h /\ r.left = left - h /\ r.kept = Append(t, x)
       /\ r.cut = (acc.cut \/ l > left)
    <2>1. ObjectCount(Append(t, x)) = ObjectCount(t) + Len(x.objects)
        BY CountAppended
    <2> QED BY <1>6, <1>8, <1>9, <2>1
<1>11. PICK p \in Nat, q \in Nat : p = c[k - 1] /\ q = c[k]
    <2>1. k - 1 \in 0 .. Len(s) /\ k \in 0 .. Len(s)
        OBVIOUS
    <2> QED BY <2>1, SumsAreNatural
<1>12. q = p + l
    BY <1>1, <1>4, <1>11 DEF Sums
<1>13. left + m = ChatObjects /\ m <= p /\ (acc.cut <=> m < p)
    BY <1>2, <1>3, <1>9, <1>11 DEF KeptSoFar
<1>14. (left - h) + (m + h) = ChatObjects /\ m + h <= q
    BY <1>5, <1>12, <1>13
<1>15. (acc.cut \/ l > left) <=> m + h < q
    <2>1. CASE acc.cut
        BY <1>5, <1>12, <1>13, <2>1
    <2>2. CASE ~acc.cut
        <3>1. m = p
            BY <1>13, <2>2
        <3>2. m + h < q <=> h < l
            BY <1>12, <3>1
        <3> QED BY <1>5, <2>2, <3>2
    <2> QED BY <2>1, <2>2
<1>16. LeftOf(r.kept, s, k)
    BY <1>1, <1>3, <1>8, <1>10, TakenIsLeft DEF KeptSoFar
<1>17. ASSUME NEW i \in 1 .. k
       PROVE  Answers(r.kept, s[i]) \/ (r.cut /\ s[i].objects # <<>>)
    <2>1. PICK n \in Nat : n = Len(t) /\ DOMAIN t = 1 .. n
        OBVIOUS
    <2>2. DOMAIN r.kept = 1 .. n + 1 /\ r.kept[n + 1] = x /\ \A j \in 1 .. n : r.kept[j] = t[j]
        BY <1>10, <2>1
    <2>3. CASE i = k
        <3>1. n + 1 \in DOMAIN r.kept /\ r.kept[n + 1].position = s[i].position
            BY <1>1, <1>7, <2>2, <2>3
        <3> QED BY <3>1 DEF Answers
    <2>4. CASE i # k
        <3>1. i \in 1 .. k - 1
            BY <2>4
        <3>2. Answers(t, s[i]) \/ (acc.cut /\ s[i].objects # <<>>)
            BY <1>3, <3>1 DEF KeptSoFar
        <3>3. Answers(t, s[i]) => Answers(r.kept, s[i])
            <4>1. \A j \in DOMAIN t : j \in DOMAIN r.kept /\ r.kept[j] = t[j]
                BY <2>1, <2>2
            <4> QED BY <4>1 DEF Answers
        <3> QED BY <1>10, <3>2, <3>3
    <2> QED BY <2>3, <2>4
<1> QED BY <1>10, <1>11, <1>14, <1>15, <1>16, <1>17 DEF KeptSoFar

\* What the cap on objects leaves.
LEMMA CappedIs ==
    ASSUME NEW U, NEW V, NEW s \in Seq(Entry(U, V)), Ascends(s)
    PROVE  LET acc == Capped(s)
           IN  /\ acc \in Cuts(U, V) /\ LeftOf(acc.kept, s, Len(s))
               /\ ObjectCount(acc.kept) <= ChatObjects
               /\ ObjectCount(acc.kept) <= ObjectCount(s)
               /\ acc.cut <=> ObjectCount(acc.kept) < ObjectCount(s)
               /\ \A i \in 1 .. Len(s) :
                     Answers(acc.kept, s[i]) \/ (acc.cut /\ s[i].objects # <<>>)
<1>1. PICK n \in Nat : n = Len(s)
    OBVIOUS
<1>2. PICK c : Sums(s, c) /\ ObjectCount(s) = c[n]
    BY <1>1, CountUnfolds
<1>3. PICK a : CapsFrom(s, a) /\ Capped(s) = a[n]
    BY <1>1, CapUnfolds
<1>4. PICK S : S = {k \in 0 .. n : a[k] \in Cuts(U, V) /\ KeptSoFar(a[k], s, c, k)}
    OBVIOUS
<1>5. 0 \in S
    <2>1. a[0] = Uncut /\ Uncut.left = ChatObjects /\ Uncut.kept = <<>> /\ Uncut.cut = FALSE
        BY <1>3 DEF CapsFrom, Uncut
    <2>2. a[0] \in Cuts(U, V)
        BY <2>1, ChatAssumption DEF Cuts, Uncut
    <2>3. ObjectCount(<<>>) = 0
        <3>1. <<>> \in Seq(Entry(U, V)) /\ Holders(<<>>) = {}
            BY DEF Holders
        <3> QED BY <3>1, CountOfNone
    <2>4. c[0] = 0
        BY <1>2 DEF Sums
    <2>5. LeftOf(<<>>, s, 0)
        BY DEF LeftOf, Ascends
    <2>6. \A i \in 1 .. 0 : FALSE
        OBVIOUS
    <2>7. KeptSoFar(a[0], s, c, 0)
        BY <2>1, <2>3, <2>4, <2>5, <2>6, ChatAssumption DEF KeptSoFar
    <2> QED BY <1>4, <2>2, <2>7
<1>6. ASSUME NEW k \in 0 .. n, k \in S, k < n PROVE k + 1 \in S
    <2>1. k + 1 \in 1 .. Len(s) /\ (k + 1) - 1 = k /\ k + 1 \in 0 .. n
        BY <1>1, <1>6
    <2>2. a[k + 1] = CapStep(a[k], s[k + 1])
        BY <1>3, <2>1 DEF CapsFrom
    <2>3. a[k] \in Cuts(U, V) /\ KeptSoFar(a[k], s, c, k)
        BY <1>4, <1>6
    <2>4. s[k + 1] \in Entry(U, V)
        BY <2>1, EntriesTyped
    <2>5. /\ a[k + 1] \in Cuts(U, V)
          /\ \/ LeftOut(a[k], s[k + 1], a[k + 1])
             \/ \E x \in Entry(U, V) : Taken(a[k], s[k + 1], x, a[k + 1])
        BY <2>2, <2>3, <2>4, CapStepIs
    <2>6. CASE LeftOut(a[k], s[k + 1], a[k + 1])
        <3>1. KeptSoFar(a[k + 1], s, c, k + 1)
            BY <1>2, <2>1, <2>3, <2>5, <2>6, LeftOutKeeps
        <3> QED BY <1>4, <2>1, <2>5, <3>1
    <2>7. CASE \E x \in Entry(U, V) : Taken(a[k], s[k + 1], x, a[k + 1])
        <3>1. PICK x \in Entry(U, V) : Taken(a[k], s[k + 1], x, a[k + 1])
            BY <2>7
        <3>2. KeptSoFar(a[k + 1], s, c, k + 1)
            BY <1>2, <2>1, <2>3, <2>5, <3>1, TakenKeeps
        <3> QED BY <1>4, <2>1, <2>5, <3>2
    <2> QED BY <2>5, <2>6, <2>7
<1>7. n \in S
    <2>1. \A k \in 0 .. n : k \in S
        BY <1>5, <1>6, CountsUp
    <2> QED BY <2>1
<1>8. PICK acc \in Cuts(U, V) : acc = Capped(s) /\ KeptSoFar(acc, s, c, n)
    BY <1>3, <1>4, <1>7
<1>9. ObjectCount(acc.kept) <= ChatObjects
    <2>1. acc.left \in Nat /\ ObjectCount(acc.kept) \in Nat
        BY CountIsNatural DEF Cuts
    <2> QED BY <1>8, <2>1, ChatAssumption DEF KeptSoFar
<1> QED BY <1>1, <1>2, <1>8, <1>9 DEF KeptSoFar

-----------------------------------------------------------------------------
\* The size: Fitted drops one object at a time, as often as there are objects.
OneDropped(t) == IF TooBig(t) /\ Holders(t) # {} THEN WithoutLast(t) ELSE t

DropsFrom(s, n, a) == a[0] = s /\ \A k \in 1 .. n : a[k] = OneDropped(a[k - 1])

LEMMA FitUnfolds ==
    ASSUME NEW U, NEW V, NEW s \in Seq(Entry(U, V)), NEW n \in Nat, n = ObjectCount(s)
    PROVE  \E a : DropsFrom(s, n, a) /\ Fitted(s) = a[n]
<1> DEFINE A == Seq(Entry(U, V))
<1>1. PICK q : q = [k \in 1 .. n |-> k]
    OBVIOUS
<1>2. DOMAIN q = 1 .. n
    BY <1>1
<1>3. PICK step : step = [p \in A \X (1 .. n) |-> OneDropped(p[1])]
    OBVIOUS
<1>4. step \in [A \X (1 .. n) -> A]
    <2>1. ASSUME NEW t \in A PROVE OneDropped(t) \in A
        <3>1. CASE TooBig(t) /\ Holders(t) # {}
            <4>1. PICK r : r = WithoutLast(t)
                OBVIOUS
            <4>2. r \in A
                BY <3>1, <4>1, WithoutLastIs
            <4> QED BY <3>1, <4>1, <4>2 DEF OneDropped
        <3>2. CASE ~(TooBig(t) /\ Holders(t) # {})
            BY <3>2 DEF OneDropped
        <3> QED BY <3>1, <3>2
    <2> HIDE DEF A
    <2> QED BY <1>3, <2>1
<1> HIDE DEF A
<1>5. s \in A
    BY DEF A
<1>6. PICK w : /\ Folds(step, s, 1 .. n, w)
               /\ \A t \in SUBSET (1 .. n) :
                     t # {} => w[t \ {Max(t)}] \in A /\ Max(t) \in 1 .. n
    BY <1>4, <1>5, FoldTyped
<1>7. w = [t \in SUBSET (1 .. n) |-> IF t = {} THEN s ELSE OneDropped(w[t \ {Max(t)}])]
    <2>1. \A t \in SUBSET (1 .. n) :
             t # {} => step[<<w[t \ {Max(t)}], Max(t)>>] = OneDropped(w[t \ {Max(t)}])
        BY <1>3, <1>6
    <2> QED BY <1>6, <2>1 DEF Folds
<1>8. \E v : /\ v = [t \in SUBSET (1 .. n) |->
                       IF t = {} THEN s ELSE OneDropped(v[t \ {Max(t)}])]
             /\ Fitted(s) = v[1 .. n]
    BY <1>1, <1>2, <1>7 DEF Fitted, FoldLeft, MapThenFoldSet, OneDropped
<1>9. PICK v : /\ v = [t \in SUBSET (1 .. n) |->
                         IF t = {} THEN s ELSE OneDropped(v[t \ {Max(t)}])]
               /\ Fitted(s) = v[1 .. n]
    BY <1>8
<1>10. PICK a : a = [k \in 0 .. n |-> v[UpTo(k)]]
    OBVIOUS
<1>11. a[0] = s
    <2>1. UpTo(0) = {} /\ 0 \in 0 .. n /\ {} \in SUBSET (1 .. n)
        BY DEF UpTo
    <2>2. v[{}] = s
        BY <1>9, <2>1
    <2> QED BY <1>10, <2>1, <2>2
<1>12. ASSUME NEW k \in 1 .. n PROVE a[k] = OneDropped(a[k - 1])
    <2>1. PICK t, r : t = UpTo(k) /\ r = UpTo(k - 1)
        OBVIOUS
    <2>2. t \in SUBSET (1 .. n) /\ t # {} /\ Max(t) = k /\ t \ {k} = r
        BY <2>1, UpToBegins
    <2>3. v[t] = OneDropped(v[t \ {Max(t)}])
        BY <1>9, <2>2
    <2>4. v[t] = OneDropped(v[r])
        BY <2>2, <2>3
    <2>5. k \in 0 .. n /\ k - 1 \in 0 .. n
        OBVIOUS
    <2> QED BY <1>10, <2>1, <2>4, <2>5
<1>13. a[n] = Fitted(s)
    <2>1. n \in 0 .. n /\ UpTo(n) = 1 .. n
        BY DEF UpTo
    <2> QED BY <1>9, <1>10, <2>1
<1> QED BY <1>11, <1>12, <1>13 DEF DropsFrom

\* After k rounds over entries t that are themselves left of s: it fits, or no
\* object is left, or each round dropped one.
FitSoFar(r, t, s, k) ==
    /\ LeftOf(r, s, Len(s))
    /\ \A i \in 1 .. Len(s) : s[i].objects = <<>> /\ Answers(t, s[i]) => Answers(r, s[i])
    /\ r = t \/ ObjectCount(r) < ObjectCount(t)
    /\ ~TooBig(r) \/ Holders(r) = {} \/ ObjectCount(r) = ObjectCount(t) - k

LEMMA FittedIs ==
    ASSUME NEW U, NEW V, NEW s \in Seq(Entry(U, V)), Ascends(s),
           NEW t \in Seq(Entry(U, V)), LeftOf(t, s, Len(s)), NEW r, r = Fitted(t)
    PROVE  /\ r \in Seq(Entry(U, V)) /\ LeftOf(r, s, Len(s))
           /\ \A i \in 1 .. Len(s) : s[i].objects = <<>> /\ Answers(t, s[i]) => Answers(r, s[i])
           /\ r = t \/ ObjectCount(r) < ObjectCount(t)
           /\ TooBig(r) => ObjectCount(r) = 0
<1>1. PICK n \in Nat : n = ObjectCount(t)
    BY CountIsNatural
<1>2. PICK a : DropsFrom(t, n, a) /\ r = a[n]
    BY <1>1, FitUnfolds
<1>3. PICK S : S = {k \in 0 .. n : a[k] \in Seq(Entry(U, V)) /\ FitSoFar(a[k], t, s, k)}
    OBVIOUS
<1>4. 0 \in S
    <2>1. a[0] = t
        BY <1>2 DEF DropsFrom
    <2>2. FitSoFar(t, t, s, 0)
        BY <1>1 DEF FitSoFar
    <2> QED BY <1>3, <2>1, <2>2
<1>5. ASSUME NEW k \in 0 .. n, k \in S, k < n PROVE k + 1 \in S
    <2>1. k + 1 \in 1 .. n /\ (k + 1) - 1 = k /\ k + 1 \in 0 .. n
        BY <1>5
    <2>2. PICK q \in Seq(Entry(U, V)) : q = a[k] /\ FitSoFar(q, t, s, k)
        BY <1>3, <1>5
    <2>3. PICK x : x = a[k + 1]
        OBVIOUS
    <2>4. x = OneDropped(q)
        BY <1>2, <2>1, <2>2, <2>3 DEF DropsFrom
    <2>5. CASE TooBig(q) /\ Holders(q) # {}
        <3>1. x = WithoutLast(q)
            BY <2>4, <2>5 DEF OneDropped
        <3>2. /\ x \in Seq(Entry(U, V)) /\ ObjectCount(x) = ObjectCount(q) - 1
              /\ LeftOf(x, s, Len(s))
              /\ \A i \in 1 .. Len(s) :
                    s[i].objects = <<>> /\ Answers(q, s[i]) => Answers(x, s[i])
            <4>1. LeftOf(q, s, Len(s)) /\ Len(s) \in Nat
                BY <2>2 DEF FitSoFar
            <4> QED BY <2>5, <3>1, <4>1, WithoutLastIsLeft
        <3>3. ObjectCount(q) = n - k
            BY <1>1, <2>2, <2>5 DEF FitSoFar
        <3>4. ObjectCount(x) = n - (k + 1) /\ ObjectCount(x) < n
            BY <3>2, <3>3
        <3>5. \A i \in 1 .. Len(s) : s[i].objects = <<>> /\ Answers(t, s[i]) => Answers(x, s[i])
            BY <2>2, <3>2 DEF FitSoFar
        <3>6. FitSoFar(x, t, s, k + 1)
            BY <1>1, <3>2, <3>4, <3>5 DEF FitSoFar
        <3> QED BY <1>3, <2>1, <2>3, <3>2, <3>6
    <2>6. CASE ~(TooBig(q) /\ Holders(q) # {})
        <3>1. x = q
            BY <2>4, <2>6 DEF OneDropped
        <3>2. FitSoFar(x, t, s, k + 1)
            BY <2>2, <2>6, <3>1 DEF FitSoFar
        <3> QED BY <1>3, <2>1, <2>2, <2>3, <3>1, <3>2
    <2> QED BY <2>5, <2>6
<1>6. n \in S
    <2>1. \A k \in 0 .. n : k \in S
        BY <1>4, <1>5, CountsUp
    <2> QED BY <2>1
<1>7. r \in Seq(Entry(U, V)) /\ FitSoFar(r, t, s, n)
    BY <1>2, <1>3, <1>6
<1>8. TooBig(r) => ObjectCount(r) = 0
    <2>1. CASE Holders(r) = {}
        BY <1>7, <2>1, CountOfNone
    <2>2. CASE ObjectCount(r) = ObjectCount(t) - n
        BY <1>1, <2>2
    <2> QED BY <1>7, <2>1, <2>2 DEF FitSoFar
<1> QED BY <1>7, <1>8 DEF FitSoFar

-----------------------------------------------------------------------------
\* The answer as a whole: what is cut is told, and what is missing had objects.
LEMMA AnswerIs ==
    ASSUME NEW U, NEW V, NEW s \in Seq(Entry(U, V)), Ascends(s), NEW found \in Int,
           ObjectCount(s) <= found,
           NEW acc, acc = Capped(s), NEW answer, answer = Assembled(acc.kept, acc.cut, found)
    PROVE  /\ answer.results \in Seq(Entry(U, V)) /\ LeftOf(answer.results, s, Len(s))
           /\ answer.found = found
           /\ answer.reasons # {} <=> answer.returned < found
           /\ answer.returned <= ChatObjects
           /\ TooBig(answer.results) => answer.returned = 0
           /\ answer.returned = ObjectCount(answer.results) /\ answer.returned \in Nat
           /\ \A i \in 1 .. Len(s) :
                 Answers(answer.results, s[i]) \/ (answer.reasons # {} /\ s[i].objects # <<>>)
<1>1. /\ acc \in Cuts(U, V) /\ LeftOf(acc.kept, s, Len(s))
      /\ ObjectCount(acc.kept) <= ChatObjects
      /\ ObjectCount(acc.kept) <= ObjectCount(s)
      /\ acc.cut <=> ObjectCount(acc.kept) < ObjectCount(s)
      /\ \A i \in 1 .. Len(s) : Answers(acc.kept, s[i]) \/ (acc.cut /\ s[i].objects # <<>>)
    BY CappedIs
<1>2. PICK t \in Seq(Entry(U, V)) : t = acc.kept
    BY <1>1 DEF Cuts
<1>3. PICK r : r = Fitted(t)
    OBVIOUS
<1>4. /\ r \in Seq(Entry(U, V)) /\ LeftOf(r, s, Len(s))
      /\ \A i \in 1 .. Len(s) : s[i].objects = <<>> /\ Answers(t, s[i]) => Answers(r, s[i])
      /\ r = t \/ ObjectCount(r) < ObjectCount(t)
      /\ TooBig(r) => ObjectCount(r) = 0
    BY <1>1, <1>2, <1>3, FittedIs
<1>5. PICK own : own = (IF acc.cut THEN {"chat_object_limit"} ELSE {}) \cup
                       (IF r # t THEN {"chat_size_limit"} ELSE {})
    OBVIOUS
<1>6. own = {} <=> ~acc.cut /\ r = t
    BY <1>5
<1>7. answer = [results |-> r, found |-> found, returned |-> ObjectCount(r),
                reasons |-> IF own = {} /\ ObjectCount(r) < found THEN {"api_listing_limit"}
                            ELSE own]
    BY <1>2, <1>3, <1>5 DEF Assembled
<1>8. /\ answer.results = r /\ answer.found = found /\ answer.returned = ObjectCount(r)
      /\ answer.reasons = IF own = {} /\ ObjectCount(r) < found THEN {"api_listing_limit"}
                          ELSE own
    BY <1>7
<1>9. PICK x \in Nat, y \in Nat, z \in Nat :
         x = ObjectCount(r) /\ y = ObjectCount(t) /\ z = ObjectCount(s)
    BY <1>4, CountIsNatural
<1>10. y <= ChatObjects /\ y <= z /\ z <= found /\ (acc.cut <=> y < z) /\ (r = t \/ x < y)
    BY <1>1, <1>2, <1>4, <1>9
<1>11. x <= y
    BY <1>9, <1>10
<1>12. own # {} => x < found
    BY <1>6, <1>10, <1>11
<1>13. answer.reasons # {} <=> x < found
    BY <1>8, <1>9, <1>12
<1>14. x <= ChatObjects
    BY <1>10, <1>11, ChatAssumption
<1>15. ASSUME NEW i \in 1 .. Len(s), ~Answers(r, s[i])
       PROVE  answer.reasons # {} /\ s[i].objects # <<>>
    <2>1. CASE Answers(t, s[i])
        <3>1. s[i].objects # <<>>
            BY <1>4, <1>15, <2>1
        <3>2. r # t
            BY <1>15, <2>1
        <3> QED BY <1>6, <1>8, <3>1, <3>2
    <2>2. CASE ~Answers(t, s[i])
        <3>1. acc.cut /\ s[i].objects # <<>>
            BY <1>1, <1>2, <2>2
        <3> QED BY <1>6, <1>8, <3>1
    <2> QED BY <2>1, <2>2
<1> QED BY <1>4, <1>8, <1>9, <1>13, <1>14, <1>15

\* The objects found are at least those listed.
FoundSum(s) == LET AddFound(sum, entry) == sum + entry.found IN FoldLeft(AddFound, 0, s)

LEMMA FoundUnfolds ==
    ASSUME NEW U, NEW V, NEW s \in Seq(Entry(U, V))
    PROVE  \E c : /\ c[0] = 0 /\ \A k \in 1 .. Len(s) : c[k] = c[k - 1] + s[k].found
                  /\ FoundSum(s) = c[Len(s)]
<1>1. PICK n \in Nat : n = Len(s)
    OBVIOUS
<1>2. DOMAIN s = 1 .. n /\ \A k \in 1 .. n : s[k].found \in Int
    BY <1>1, EntriesTyped
<1>3. PICK step : step = [p \in Int \X (1 .. n) |-> p[1] + s[p[2]].found]
    OBVIOUS
<1>4. step \in [Int \X (1 .. n) -> Int]
    BY <1>2, <1>3
<1>5. PICK w : /\ Folds(step, 0, 1 .. n, w)
               /\ \A t \in SUBSET (1 .. n) :
                     t # {} => w[t \ {Max(t)}] \in Int /\ Max(t) \in 1 .. n
    <2>1. 0 \in Int
        OBVIOUS
    <2> QED BY <1>4, <2>1, FoldTyped
<1>6. w = [t \in SUBSET (1 .. n) |->
             IF t = {} THEN 0 ELSE w[t \ {Max(t)}] + s[Max(t)].found]
    <2>1. \A t \in SUBSET (1 .. n) :
             t # {} => step[<<w[t \ {Max(t)}], Max(t)>>] = w[t \ {Max(t)}] + s[Max(t)].found
        BY <1>3, <1>5
    <2> QED BY <1>5, <2>1 DEF Folds
<1>7. \E v : /\ v = [t \in SUBSET (1 .. n) |->
                       IF t = {} THEN 0 ELSE v[t \ {Max(t)}] + s[Max(t)].found]
             /\ FoundSum(s) = v[1 .. n]
    BY <1>2, <1>6 DEF FoundSum, FoldLeft, MapThenFoldSet
<1>8. PICK v : /\ v = [t \in SUBSET (1 .. n) |->
                         IF t = {} THEN 0 ELSE v[t \ {Max(t)}] + s[Max(t)].found]
               /\ FoundSum(s) = v[1 .. n]
    BY <1>7
<1>9. PICK c : c = [k \in 0 .. n |-> v[UpTo(k)]]
    OBVIOUS
<1>10. c[0] = 0
    <2>1. UpTo(0) = {} /\ 0 \in 0 .. n /\ {} \in SUBSET (1 .. n)
        BY DEF UpTo
    <2>2. v[{}] = 0
        BY <1>8, <2>1
    <2> QED BY <1>9, <2>1, <2>2
<1>11. ASSUME NEW k \in 1 .. n PROVE c[k] = c[k - 1] + s[k].found
    <2>1. PICK t, r : t = UpTo(k) /\ r = UpTo(k - 1)
        OBVIOUS
    <2>2. t \in SUBSET (1 .. n) /\ t # {} /\ Max(t) = k /\ t \ {k} = r
        BY <2>1, UpToBegins
    <2>3. v[t] = v[t \ {Max(t)}] + s[Max(t)].found
        BY <1>8, <2>2
    <2>4. v[t] = v[r] + s[k].found
        BY <2>2, <2>3
    <2>5. k \in 0 .. n /\ k - 1 \in 0 .. n
        OBVIOUS
    <2> QED BY <1>9, <2>1, <2>4, <2>5
<1>12. c[n] = FoundSum(s)
    <2>1. n \in 0 .. n /\ UpTo(n) = 1 .. n
        BY DEF UpTo
    <2> QED BY <1>8, <1>9, <2>1
<1> QED BY <1>1, <1>10, <1>11, <1>12

LEMMA FoundCovers ==
    ASSUME NEW U, NEW V, NEW s \in Seq(Entry(U, V)),
           \A k \in 1 .. Len(s) : s[k].found >= Len(s[k].objects)
    PROVE  FoundSum(s) \in Int /\ ObjectCount(s) <= FoundSum(s)
<1>1. PICK n \in Nat : n = Len(s)
    OBVIOUS
<1>2. PICK b : Sums(s, b) /\ ObjectCount(s) = b[n]
    BY <1>1, CountUnfolds
<1>3. \A k \in 0 .. n : b[k] \in Nat
    BY <1>1, <1>2, SumsAreNatural
<1>4. PICK c : /\ c[0] = 0 /\ \A k \in 1 .. n : c[k] = c[k - 1] + s[k].found
               /\ FoundSum(s) = c[n]
    BY <1>1, FoundUnfolds
<1>5. PICK S : S = {k \in 0 .. n : c[k] \in Int /\ b[k] <= c[k]}
    OBVIOUS
<1>6. 0 \in S
    BY <1>2, <1>4, <1>5 DEF Sums
<1>7. ASSUME NEW k \in 0 .. n, k \in S, k < n PROVE k + 1 \in S
    <2>1. k + 1 \in 1 .. n /\ (k + 1) - 1 = k /\ k + 1 \in 0 .. n
        BY <1>7
    <2>2. PICK l \in Nat, f \in Int : l = Len(s[k + 1].objects) /\ f = s[k + 1].found /\ f >= l
        BY <1>1, <2>1, EntriesTyped
    <2>3. PICK x \in Nat, y \in Int : x = b[k] /\ y = c[k] /\ x <= y
        BY <1>3, <1>5, <1>7
    <2>4. b[k + 1] = x + l /\ c[k + 1] = y + f
        BY <1>1, <1>2, <1>4, <2>1, <2>2, <2>3 DEF Sums
    <2>5. ASSUME NEW i \in Nat, NEW j \in Int, NEW h \in Nat, NEW g \in Int, i <= j, g >= h
          PROVE  j + g \in Int /\ i + h <= j + g
        BY <2>5
    <2>6. y + f \in Int /\ x + l <= y + f
        BY <2>2, <2>3, <2>5
    <2> QED BY <1>5, <2>1, <2>4, <2>6
<1>8. n \in S
    <2>1. \A k \in 0 .. n : k \in S
        BY <1>6, <1>7, CountsUp
    <2> QED BY <2>1
<1> QED BY <1>2, <1>4, <1>5, <1>8

-----------------------------------------------------------------------------
\* A set listed in order: every element once, at its rank.
Ranked(R, S, k) == CHOOSE x \in S : RankOf(R, S, x) = k

LEMMA RankedInOrder ==
    ASSUME NEW S, IsFiniteSet(S), NEW R, Orders(R, S), NEW f, DOMAIN f = 1 .. Cardinality(S),
           \A n \in 1 .. Cardinality(S) : f[n] = Ranked(R, S, n - 1)
    PROVE  /\ Cardinality(S) \in Nat /\ \A n \in DOMAIN f : f[n] \in S
           /\ \A x \in S : RankOf(R, S, x) + 1 \in DOMAIN f /\ f[RankOf(R, S, x) + 1] = x
           /\ \A d, e \in DOMAIN f : d < e => <<f[d], f[e]>> \in R
<1>1. PICK n \in Nat : n = Cardinality(S)
    BY FS_CardinalityType
<1>2. /\ \A x \in S : RankOf(R, S, x) \in 0 .. n - 1
      /\ \A x, y \in S : RankOf(R, S, x) = RankOf(R, S, y) => x = y
    BY <1>1, RanksAreDistinct
<1>3. ASSUME NEW k \in 1 .. n PROVE f[k] \in S /\ RankOf(R, S, f[k]) = k - 1
    <2>1. k - 1 \in 0 .. Cardinality(S) - 1
        BY <1>1
    <2>2. \E x \in S : RankOf(R, S, x) = k - 1
        BY <2>1, RanksAreAll
    <2>3. f[k] = Ranked(R, S, k - 1)
        BY <1>1
    <2> QED BY <2>2, <2>3 DEF Ranked
<1>4. ASSUME NEW x \in S
      PROVE  RankOf(R, S, x) + 1 \in DOMAIN f /\ f[RankOf(R, S, x) + 1] = x
    <2>1. PICK k \in 1 .. n : k = RankOf(R, S, x) + 1 /\ k - 1 = RankOf(R, S, x)
        BY <1>2
    <2>2. f[k] \in S /\ RankOf(R, S, f[k]) = RankOf(R, S, x)
        BY <1>3, <2>1
    <2>3. f[k] = x
        BY <1>2, <2>2
    <2> QED BY <1>1, <2>1, <2>3
<1>5. ASSUME NEW d \in DOMAIN f, NEW e \in DOMAIN f, d < e PROVE <<f[d], f[e]>> \in R
    <2>1. PICK x \in S, y \in S : x = f[d] /\ y = f[e]
        BY <1>1, <1>3
    <2>2. RankOf(R, S, x) = d - 1 /\ RankOf(R, S, y) = e - 1
        BY <1>1, <1>3, <2>1
    <2>3. d \in Int /\ e \in Int
        BY <1>1
    <2>4. x # y
        BY <1>5, <2>2, <2>3
    <2>5. ASSUME <<y, x>> \in R PROVE FALSE
        <3>1. Preceding(R, S, y) \in SUBSET Preceding(R, S, x)
            BY <2>5 DEF Orders, Preceding
        <3>2. Preceding(R, S, x) \in SUBSET S
            BY DEF Preceding
        <3>3. IsFiniteSet(Preceding(R, S, x))
            BY <3>2, FS_Subset
        <3>4. RankOf(R, S, y) <= RankOf(R, S, x)
            BY <3>1, <3>3, FS_Subset DEF RankOf
        <3> QED BY <1>5, <2>2, <2>3, <3>4
    <2> QED BY <2>1, <2>4, <2>5 DEF Orders
<1> QED BY <1>1, <1>3, <1>4, <1>5

Below(S, x) == {y \in S : y < x}

NumbersUp(S) ==
    [n \in 1 .. Cardinality(S) |-> CHOOSE x \in S : Cardinality({y \in S : y < x}) = n - 1]

SoonestFirst(S) ==
    [n \in 1 .. Cardinality(S) |->
       CHOOSE x \in S : Cardinality({y \in S : Sooner(y, x)}) = n - 1]

LEMMA NumbersInOrder ==
    ASSUME NEW S, S \subseteq Nat, IsFiniteSet(S), NEW f, f = NumbersUp(S)
    PROVE  /\ DOMAIN f = 1 .. Cardinality(S) /\ Cardinality(S) \in Nat
           /\ \A n \in DOMAIN f : f[n] \in S
           /\ \A d, e \in DOMAIN f : d < e => f[d] < f[e]
           /\ \A x \in S : Cardinality(Below(S, x)) + 1 \in DOMAIN f
                           /\ f[Cardinality(Below(S, x)) + 1] = x
<1>1. PICK R : R = {p \in S \X S : p[1] < p[2]}
    OBVIOUS
<1>2. \A x, y \in S : <<x, y>> \in R <=> x < y
    BY <1>1
<1>3. \A x \in S : x \in Nat
    OBVIOUS
<1>4. Orders(R, S)
    BY <1>2, <1>3 DEF Orders
<1>5. ASSUME NEW x \in S PROVE RankOf(R, S, x) = Cardinality(Below(S, x))
    <2>1. Preceding(R, S, x) = Below(S, x)
        BY <1>2 DEF Preceding, Below
    <2> QED BY <2>1 DEF RankOf
<1>6. DOMAIN f = 1 .. Cardinality(S)
    BY DEF NumbersUp
<1>7. ASSUME NEW n \in 1 .. Cardinality(S)
      PROVE  f[n] = Ranked(R, S, n - 1)
    <2>1. f[n] = CHOOSE x \in S : Cardinality(Below(S, x)) = n - 1
        BY DEF NumbersUp, Below
    <2>2. \A x \in S : RankOf(R, S, x) = n - 1 <=> Cardinality(Below(S, x)) = n - 1
        BY <1>5
    <2> QED BY <2>1, <2>2 DEF Ranked
<1>8. /\ Cardinality(S) \in Nat /\ \A n \in DOMAIN f : f[n] \in S
      /\ \A x \in S : RankOf(R, S, x) + 1 \in DOMAIN f /\ f[RankOf(R, S, x) + 1] = x
      /\ \A d, e \in DOMAIN f : d < e => <<f[d], f[e]>> \in R
    <2>1. \A n \in 1 .. Cardinality(S) : f[n] = Ranked(R, S, n - 1)
        BY <1>7
    <2>2. IsFiniteSet(S) /\ Orders(R, S) /\ DOMAIN f = 1 .. Cardinality(S)
        BY <1>4, <1>6
    <2>3. \A g : /\ DOMAIN g = 1 .. Cardinality(S)
                 /\ \A n \in 1 .. Cardinality(S) : g[n] = Ranked(R, S, n - 1)
                 => /\ Cardinality(S) \in Nat /\ \A n \in DOMAIN g : g[n] \in S
                    /\ \A x \in S : RankOf(R, S, x) + 1 \in DOMAIN g /\ g[RankOf(R, S, x) + 1] = x
                    /\ \A d, e \in DOMAIN g : d < e => <<g[d], g[e]>> \in R
        BY <2>2, RankedInOrder
    <2> QED BY <2>1, <2>2, <2>3
<1> QED BY <1>2, <1>5, <1>6, <1>8

\* The objects of an entry are those of its result.
LEMMA ObjectsInOrder ==
    ASSUME StoreTyped, NEW S, S \subseteq Objects, NEW f, f = SoonestFirst(S)
    PROVE  /\ f \in Seq(Objects) /\ Len(f) = Cardinality(S) /\ ToSet(f) \subseteq S
           /\ f # <<>> => S # {}
<1>1. IsFiniteSet(S)
    BY ConstantsTyped, FS_Subset
<1>2. PICK R : R = {p \in S \X S : Sooner(p[1], p[2])}
    OBVIOUS
<1>3. Orders(R, S)
    BY <1>2, IngestOrders
<1>4. \A x, y \in S : <<x, y>> \in R <=> Sooner(x, y)
    BY <1>2
<1>5. ASSUME NEW x \in S PROVE RankOf(R, S, x) = Cardinality({y \in S : Sooner(y, x)})
    <2>1. Preceding(R, S, x) = {y \in S : Sooner(y, x)}
        BY <1>4 DEF Preceding
    <2> QED BY <2>1 DEF RankOf
<1>6. f = [n \in 1 .. Cardinality(S) |->
             CHOOSE x \in S : Cardinality({y \in S : Sooner(y, x)}) = n - 1]
    BY DEF SoonestFirst
<1>7. ASSUME NEW n \in 1 .. Cardinality(S)
      PROVE  f[n] = Ranked(R, S, n - 1)
    <2>1. \A x \in S : RankOf(R, S, x) = n - 1 <=> Cardinality({y \in S : Sooner(y, x)}) = n - 1
        BY <1>5
    <2> QED BY <1>6, <2>1 DEF Ranked
<1>8. Cardinality(S) \in Nat /\ \A n \in DOMAIN f : f[n] \in S
    <2>1. DOMAIN f = 1 .. Cardinality(S)
        BY <1>6
    <2> QED BY <1>1, <1>3, <1>7, <2>1, RankedInOrder
<1>9. f \in [1 .. Cardinality(S) -> S]
    BY <1>6, <1>8
<1>10. f \in Seq(S) /\ Len(f) = Cardinality(S)
    BY <1>8, <1>9
<1>11. f \in Seq(Objects)
    <2>1. f \in [1 .. Cardinality(S) -> Objects]
        BY <1>9
    <2> QED BY <1>8, <2>1
<1>12. ToSet(f) \subseteq S
    BY <1>8 DEF ToSet
<1>13. f # <<>> => S # {}
    <2>1. ASSUME S = {} PROVE f = <<>>
        <3>1. Cardinality(S) = 0
            BY <2>1, FS_EmptySet
        <3> QED BY <1>10, <3>1
    <2> QED BY <2>1
<1> QED BY <1>10, <1>11, <1>12, <1>13

-----------------------------------------------------------------------------
\* The identifiers of a chat keep the order given.
LEMMA IdentsInOrder ==
    ASSUME NEW raws \in ChatAsks, NEW idents, idents = Classified(raws)
    PROVE  \E n \in Nat : /\ DOMAIN idents = 1 .. n
                          /\ \A k \in 1 .. n : idents[k].position \in Nat
                          /\ \A d, e \in 1 .. n : d < e => idents[d].position < idents[e].position
<1>1. DOMAIN raws = 1 .. Len(raws) /\ Len(raws) \in Nat
    BY ChatAssumption
<1>2. IsFiniteSet(DOMAIN raws) /\ DOMAIN raws \subseteq Nat
    BY <1>1, FS_Interval
<1>3. \E S \in SUBSET DOMAIN raws : \E kept :
         /\ kept = NumbersUp(S) /\ DOMAIN idents = DOMAIN kept
         /\ \A k \in DOMAIN kept : idents[k].position = kept[k]
    <2> DEFINE Same(i, j) == /\ KindOf(raws[i]) = KindOf(raws[j]) /\ LookedUp(KindOf(raws[i]))
                             /\ raws[i].of = raws[j].of
               First(i) == \A j \in 1 .. i - 1 : ~Same(i, j)
               S == {i \in DOMAIN raws : First(i)}
               kept == InOrder(S, <)
    <2>1. idents = [n \in DOMAIN kept |-> [position |-> kept[n], kind |-> KindOf(raws[kept[n]]),
                                           of |-> raws[kept[n]].of]]
        BY DEF Classified
    <2>2. kept = NumbersUp(S)
        BY DEF InOrder, NumbersUp
    <2>3. S \in SUBSET DOMAIN raws
        OBVIOUS
    <2> HIDE DEF S, kept
    <2> QED BY <2>1, <2>2, <2>3
<1>4. PICK S, kept :
         /\ S \in SUBSET DOMAIN raws
         /\ kept = NumbersUp(S) /\ DOMAIN idents = DOMAIN kept
         /\ \A k \in DOMAIN kept : idents[k].position = kept[k]
    BY <1>3
<1>5. IsFiniteSet(S) /\ S \subseteq Nat
    BY <1>2, <1>4, FS_Subset
<1>6. /\ DOMAIN kept = 1 .. Cardinality(S) /\ Cardinality(S) \in Nat
      /\ \A k \in DOMAIN kept : kept[k] \in S
      /\ \A d, e \in DOMAIN kept : d < e => kept[d] < kept[e]
    BY <1>4, <1>5, NumbersInOrder
<1> QED BY <1>4, <1>5, <1>6

\* The result of an identifier that is looked up is the one of its own input.
LEMMA ResultIsItsOwn ==
    ASSUME NEW idents, NEW n \in Nat, DOMAIN idents = 1 .. n,
           NEW inputs, inputs = LookupInputs(idents)
    PROVE  /\ \E m \in Nat : DOMAIN inputs = 1 .. m
           /\ \A k \in 1 .. n : LookedUp(idents[k].kind) =>
                 /\ ResultOf(idents, k) \in DOMAIN inputs
                 /\ inputs[ResultOf(idents, k)].kind = idents[k].kind
                 /\ inputs[ResultOf(idents, k)].of = idents[k].of
<1>1. PICK W : W = {k \in 1 .. n : LookedUp(idents[k].kind)}
    OBVIOUS
<1>2. W \in SUBSET (1 .. n) /\ IsFiniteSet(1 .. n) /\ 1 .. n \subseteq Nat
    BY <1>1, FS_Interval
<1>3. IsFiniteSet(W) /\ W \subseteq Nat
    BY <1>2, FS_Subset
<1>4. \E wanted : /\ wanted = NumbersUp(W) /\ DOMAIN inputs = DOMAIN wanted
                  /\ \A k \in DOMAIN wanted : /\ inputs[k].kind = idents[wanted[k]].kind
                                              /\ inputs[k].of = idents[wanted[k]].of
    <2> DEFINE V == {k \in DOMAIN idents : LookedUp(idents[k].kind)}
               wanted == InOrder(V, <)
    <2>1. inputs = [k \in DOMAIN wanted |->
                      [kind |-> idents[wanted[k]].kind, ok |-> TRUE,
                       radius |-> FALSE, of |-> idents[wanted[k]].of]]
        BY DEF LookupInputs
    <2>2. wanted = NumbersUp(V)
        BY DEF InOrder, NumbersUp
    <2>3. V = W
        BY <1>1
    <2> HIDE DEF V, wanted
    <2> QED BY <2>1, <2>2, <2>3
<1>5. PICK wanted : /\ wanted = NumbersUp(W) /\ DOMAIN inputs = DOMAIN wanted
                    /\ \A k \in DOMAIN wanted : /\ inputs[k].kind = idents[wanted[k]].kind
                                                /\ inputs[k].of = idents[wanted[k]].of
    BY <1>4
<1>6. /\ DOMAIN wanted = 1 .. Cardinality(W) /\ Cardinality(W) \in Nat
      /\ \A x \in W : Cardinality(Below(W, x)) + 1 \in DOMAIN wanted
                      /\ wanted[Cardinality(Below(W, x)) + 1] = x
    BY <1>3, <1>5, NumbersInOrder
<1>7. ASSUME NEW k \in 1 .. n, LookedUp(idents[k].kind)
      PROVE  /\ ResultOf(idents, k) \in DOMAIN wanted /\ wanted[ResultOf(idents, k)] = k
    <2>1. PICK B : B = Below(W, k)
        OBVIOUS
    <2>2. k \in W /\ B \in SUBSET W /\ k \notin B
        BY <1>1, <1>2, <1>7, <2>1 DEF Below
    <2>3. IsFiniteSet(B) /\ Cardinality(B) \in Nat
        BY <1>3, <2>2, FS_Subset, FS_CardinalityType
    <2>4. {j \in 1 .. k : LookedUp(idents[j].kind)} = B \cup {k}
        BY <1>1, <1>7, <2>1 DEF Below
    <2>5. Cardinality(B \cup {k}) = Cardinality(B) + 1
        BY <2>2, <2>3, FS_AddElement
    <2>6. ResultOf(idents, k) = Cardinality(B) + 1
        BY <2>4, <2>5 DEF ResultOf
    <2> QED BY <1>6, <2>1, <2>2, <2>6
<1> QED BY <1>5, <1>6, <1>7

-----------------------------------------------------------------------------
\* A chat and its request.
ChatFields == {"pc", "tool", "idents", "answer"}
IsChat == chat = [f \in ChatFields |-> chat[f]]

\* The request asks for what the identifiers denote, in their order.
AskedAs(inputs) ==
    /\ req.route # "cone" /\ Live /\ DOMAIN req.inputs = DOMAIN inputs
    /\ \A i \in DOMAIN inputs : /\ req.inputs[i].kind = inputs[i].kind
                                /\ req.inputs[i].of = inputs[i].of

LookupAsked ==
    \E raws \in ChatAsks :
        /\ chat.idents = Classified(raws)
        /\ IF LookupInputs(chat.idents) = <<>> THEN req.pc = "start"
           ELSE req.pc = "refused" \/ AskedAs(LookupInputs(chat.idents))

NearAsked == req.pc = "refused" \/ (Live /\ req.route = "cone")

\* What the result of an input may list: the object itself, or those in its radius.
Belongs(o, input) ==
    /\ o \in Objects
    /\ IF input.kind = "id" THEN o = input.of ELSE o \in Inside(CentreOf(input), Unpinned)

ListsTheirOwn ==
    \A i \in DOMAIN req.results : \A o \in req.results[i].ids : Belongs(o, req.inputs[i])

\* A page lists objects that its total counts.
PageIsCounted ==
    req.pc # "page" =>
        /\ DOMAIN req.results = {1} /\ req.results[1].ids \subseteq Objects
        /\ req.results[1].total \in Nat
        /\ Cardinality(req.results[1].ids) <= req.results[1].total
        /\ req.pc = "total" => req.results[1].ids = {}

\* A chat between its request and its answer.
ChatAsked ==
    /\ chat.pc = "start" /\ part = "chat" => req.pc = "start"
    /\ chat.pc = "waiting" =>
          /\ chat.tool \in {"lookup", "near"}
          /\ chat.tool = "lookup" => LookupAsked
          /\ chat.tool = "near" => NearAsked
          /\ Live /\ req.route # "cone" => ListsTheirOwn
          /\ Live /\ req.route = "cone" => PageIsCounted
    /\ chat.pc = "answered" => req.pc \in {"start", "answered"}

ChatInv ==
    /\ IsChat /\ chat.pc \in {"start", "waiting", "refused", "answered"}
    /\ chat.pc # "start" => part = "chat"
    /\ ChatAsked /\ NothingIsHidden

\* What a request has asked for stays; what it lists is shown step by step.
LEMMA ChatWaits ==
    ASSUME ChatInv, UNCHANGED <<chat, part>>, chat.pc # "answered",
           req'.route = req.route, req'.inputs = req.inputs,
           req'.pc = req.pc \/ (Live /\ Live'),
           chat.pc = "waiting" /\ Live /\ req.route # "cone" => ListsTheirOwn',
           chat.pc = "waiting" /\ Live /\ req.route = "cone" => PageIsCounted'
    PROVE  ChatInv'
<1>1. Live' <=> Live
    BY DEF Live, Running, Answered
<1>2. req'.pc = "start" <=> req.pc = "start"
    BY <1>1 DEF Live, Running, Answered
<1>3. req'.pc = "refused" <=> req.pc = "refused"
    BY <1>1 DEF Live, Running, Answered
<1>4. \A inputs : AskedAs(inputs) => AskedAs(inputs)'
    BY <1>1 DEF AskedAs
<1>5. LookupAsked => LookupAsked'
    <2>1. ASSUME NEW raws \in ChatAsks, chat.idents = Classified(raws),
                 IF LookupInputs(chat.idents) = <<>> THEN req.pc = "start"
                 ELSE req.pc = "refused" \/ AskedAs(LookupInputs(chat.idents))
          PROVE  LookupAsked'
        <3>1. PICK inputs : inputs = LookupInputs(chat.idents)
            OBVIOUS
        <3>2. chat'.idents = Classified(raws) /\ LookupInputs(chat'.idents) = inputs
            BY <2>1, <3>1
        <3>3. IF inputs = <<>> THEN req'.pc = "start" ELSE req'.pc = "refused" \/ AskedAs(inputs)'
            BY <1>2, <1>3, <1>4, <2>1, <3>1
        <3> QED BY <3>2, <3>3 DEF LookupAsked
    <2> QED BY <2>1 DEF LookupAsked
<1>6. NearAsked => NearAsked'
    BY <1>1, <1>3 DEF NearAsked
<1>7. ChatAsked'
    BY <1>1, <1>2, <1>5, <1>6 DEF ChatInv, ChatAsked
<1>8. NothingIsHidden'
    BY DEF NothingIsHidden, TruncationIsTold, EveryIdentifierAnswered, EntriesAreTheirOwn
<1> QED BY <1>7, <1>8 DEF ChatInv, IsChat

\* What may be listed goes on to be so.
LEMMA BelongingStays ==
    ASSUME \A o \in Objects : RowKept(o), NEW o, NEW input, Belongs(o, input)
    PROVE  Belongs(o, input)'
BY DEF Belongs, RowKept, Inside, Unpinned

LEMMA ChatSeesCommits ==
    ASSUME TruthInv, ChatInv, StoreStepSeen, UNCHANGED <<chat, part>>, chat.pc # "answered"
    PROVE  ChatInv'
<1>1. SameNumbers(req', req) /\ req'.results = req.results /\ req'.pc = req.pc
    BY CommitsCountNothing DEF NumbersStay
<1>2. \A o \in Objects : RowKept(o)
    <2>1. StoreTyped /\ StoreStep
        BY DEF TruthInv, Shape, StoreStepSeen
    <2> QED BY <2>1, StoreGoesOn
<1>3. ListsTheirOwn => ListsTheirOwn'
    BY <1>1, <1>2, BelongingStays DEF ListsTheirOwn, SameNumbers, SameRequest
<1>4. PageIsCounted => PageIsCounted'
    BY <1>1 DEF PageIsCounted
<1> QED BY <1>1, <1>3, <1>4, ChatWaits DEF SameNumbers, SameRequest, ChatInv, ChatAsked

LEMMA ChatBuilds ==
    ASSUME TruthInv, ChatInv, BuildStep, UNCHANGED <<chat, part>>, chat.pc # "answered"
    PROVE  ChatInv'
<1>1. SameNumbers(req', req) /\ req'.results = req.results /\ UNCHANGED storeVars
    BY BuildingCountsNothing DEF NumbersStay
<1>2. Building /\ Building'
    BY BuildSteps
<1>3. Live /\ Live' /\ req.pc \notin {"page", "total"} /\ req'.pc \notin {"page", "total"}
    BY <1>2 DEF Building, Gathering, Live, Running, Answered
<1>4. ListsTheirOwn => ListsTheirOwn'
    BY <1>1 DEF ListsTheirOwn, Belongs, Inside, Committed, SameNumbers, SameRequest, storeVars
<1>5. PageIsCounted => PageIsCounted'
    BY <1>1, <1>3 DEF PageIsCounted
<1> QED BY <1>1, <1>3, <1>4, <1>5, ChatWaits DEF SameNumbers, SameRequest, ChatInv, ChatAsked

LEMMA ChatResolves ==
    ASSUME TruthInv, ChatInv, ResolveNames, UNCHANGED <<chat, part>>, chat.pc # "answered"
    PROVE  ChatInv'
<1>1. /\ UNCHANGED storeVars /\ SameNumbers(req', req) /\ req.pc = "names" /\ req'.pc = "search"
      /\ DOMAIN req'.results = DOMAIN req.results
      /\ \A i \in DOMAIN req.results :
            \/ req'.results[i] = req.results[i]
            \/ \E status : req'.results[i] = NewResult(status, NotRun)
    BY NamesCount
<1>2. Live /\ Live' /\ req.route # "cone"
    BY <1>1 DEF Live, Running, Answered, TruthInv, ConeRight
<1>3. ASSUME ListsTheirOwn PROVE ListsTheirOwn'
    <2>1. ASSUME NEW i \in DOMAIN req.results, NEW o \in req'.results[i].ids
          PROVE  o \in req.results[i].ids
        BY <1>1, <2>1, NewResults
    <2> QED BY <1>1, <1>3, <2>1
            DEF ListsTheirOwn, Belongs, Inside, Committed, SameNumbers, SameRequest, storeVars
<1> QED BY <1>1, <1>2, <1>3, ChatWaits DEF SameNumbers, SameRequest, ChatInv, ChatAsked

\* A cone lists some of what is inside.
LEMMA ConeListsInside ==
    ASSUME NEW q, NEW i, NEW r, r = ConeResult(q, i) PROVE r.ids \subseteq InsideOf(q, i)
<1>1. PICK all : all = InsideOf(q, i)
    OBVIOUS
<1>2. PICK share : share = Share(q, i)
    OBVIOUS
<1>3. PICK left : left = LeftFor(q, i)
    OBVIOUS
<1>4. PICK base : base = NewResult(FoundOrNot(Cardinality(all)), Cardinality(all))
    OBVIOUS
<1>5. IsResult(base)
    BY <1>4, NewResults
<1>6. share \subseteq all
    BY <1>1, <1>2 DEF Share, Leading, InsideOf
<1>7. PICK ids : ids = IF Cardinality(share) > left THEN Leading(share, left, Sooner) ELSE share
    OBVIOUS
<1>8. ids \subseteq all
    <2>1. Leading(share, left, Sooner) \subseteq share
        BY DEF Leading
    <2> QED BY <1>6, <1>7, <2>1
<1>9. PICK cut : cut = IF Cardinality(share) > left THEN "per_request_limit"
                       ELSE IF all # share THEN "per_input_limit" ELSE "none"
    OBVIOUS
<1>10. r = IF q.count THEN [base EXCEPT !.ids = all]
           ELSE [base EXCEPT !.ids = ids, !.truncation = cut]
    BY <1>1, <1>2, <1>3, <1>4, <1>7, <1>9 DEF ConeResult, InsideOf
<1>11. r.ids = IF q.count THEN all ELSE ids
    BY <1>5, <1>10 DEF IsResult, ResultFields
<1> QED BY <1>1, <1>8, <1>11

LEMMA ChatSearches ==
    ASSUME TruthInv, ChatInv, SearchAll, UNCHANGED <<chat, part>>, chat.pc # "answered"
    PROVE  ChatInv'
<1>1. PICK searched : searched = Searched(req)
    OBVIOUS
<1>2. /\ UNCHANGED storeVars /\ SameRequest(req', req) /\ req.pc = "search" /\ req'.pc = "alerts"
      /\ DOMAIN req'.results = DOMAIN req.results
      /\ \A i \in DOMAIN req.results :
            req'.results[i] = IF i \in searched THEN ConeResult(req, i) ELSE req.results[i]
    BY <1>1, SearchCounts
<1>3. Live /\ Live' /\ req.route # "cone"
    BY <1>2 DEF Live, Running, Answered, TruthInv, ConeRight
<1>4. ASSUME ListsTheirOwn PROVE ListsTheirOwn'
    <2>1. ASSUME NEW i \in DOMAIN req.results, NEW o \in req'.results[i].ids
          PROVE  Belongs(o, req.inputs[i])
        <3>1. CASE i \in searched
            <4>1. o \in InsideOf(req, i)
                BY <1>2, <2>1, <3>1, ConeListsInside
            <4>2. req.inputs[i].kind # "id"
                BY <1>1, <3>1, InputsByKind DEF Searched, IsCone
            <4>3. o \in Objects
                BY <4>1 DEF InsideOf, Inside
            <4> QED BY <4>1, <4>2, <4>3 DEF Belongs, InsideOf
        <3>2. CASE i \notin searched
            BY <1>2, <1>4, <2>1, <3>2 DEF ListsTheirOwn
        <3> QED BY <3>1, <3>2
    <2>2. \A i, o : Belongs(o, req.inputs[i]) => Belongs(o, req.inputs[i])'
        BY <1>2 DEF Belongs, Inside, Committed, SameRequest, storeVars
    <2> QED BY <1>2, <2>1, <2>2 DEF ListsTheirOwn
<1> QED BY <1>2, <1>3, <1>4, ChatWaits DEF SameRequest, ChatInv, ChatAsked

LEMMA ChatAssembles ==
    ASSUME TruthInv, ChatInv, Assemble, UNCHANGED <<chat, part>>, chat.pc # "answered"
    PROVE  ChatInv'
<1>1. /\ UNCHANGED storeVars /\ SameNumbers(req', req) /\ req.pc = "built" /\ req.route # "cone"
      /\ req'.pc \in {"filter", "answered", "alerts", "names", "search"}
      /\ DOMAIN req'.results = DOMAIN req.results
      /\ \A i \in DOMAIN req.results :
            \/ req'.results[i].ids = req.results[i].ids
            \/ i \in IdInputs(req) /\ req'.results[i].ids = {req.inputs[i].of}
    BY AssembleCounts
<1>2. Live /\ Live' /\ Running
    BY <1>1 DEF Live, Running, Answered
<1>3. ASSUME ListsTheirOwn PROVE ListsTheirOwn'
    <2>1. ASSUME NEW i \in DOMAIN req.results, NEW o \in req'.results[i].ids
          PROVE  Belongs(o, req.inputs[i])
        <3>1. CASE req'.results[i].ids = req.results[i].ids
            BY <1>3, <2>1, <3>1 DEF ListsTheirOwn
        <3>2. CASE i \in IdInputs(req) /\ req'.results[i].ids = {req.inputs[i].of}
            <4>1. req.inputs[i].kind = "id" /\ o = req.inputs[i].of
                BY <2>1, <3>2, InputsByKind
            <4>2. o \in Objects
                BY <1>1, <1>2, <3>2, <4>1 DEF TruthInv, LookupRight
            <4> QED BY <4>1, <4>2 DEF Belongs
        <3> QED BY <1>1, <3>1, <3>2
    <2>2. \A i, o : Belongs(o, req.inputs[i]) => Belongs(o, req.inputs[i])'
        BY <1>1 DEF Belongs, Inside, Committed, SameNumbers, SameRequest, storeVars
    <2>3. req'.inputs = req.inputs
        BY <1>1 DEF SameNumbers, SameRequest
    <2> QED BY <1>1, <2>1, <2>2, <2>3 DEF ListsTheirOwn
<1> QED BY <1>1, <1>2, <1>3, ChatWaits DEF SameNumbers, SameRequest, ChatInv, ChatAsked

LEMMA ChatFetches ==
    ASSUME TruthInv, ConeInv, ChatInv, FetchPage, UNCHANGED <<chat, part>>, chat.pc # "answered"
    PROVE  ChatInv'
<1>1. /\ SameRequest(req', req) /\ req.pc = "page" /\ req.route = "cone"
      /\ req'.pc \in {"total", "whole", "alerts"} /\ (req'.pc = "total" => Rest = {})
    BY FetchCounts
<1>2. PICK res : /\ req'.results = <<res>> /\ res.ids \subseteq Rest
                 /\ res.total = IF Rest = {} THEN 0 ELSE Cardinality(PinnedSet)
    BY FetchCounts
<1>3. Live /\ Live'
    BY <1>1 DEF Live, Running, Answered
<1>4. Rest \subseteq PinnedSet /\ PinnedSet \subseteq Objects /\ IsFiniteSet(PinnedSet)
      /\ Cardinality(PinnedSet) \in Nat
    BY PinnedIsFinite DEF Rest
<1>5. res.ids \in SUBSET PinnedSet /\ (Rest = {} => res.ids = {})
    BY <1>2, <1>4
<1>6. res.total \in Nat /\ Cardinality(res.ids) <= res.total
    <2>1. Cardinality(res.ids) <= Cardinality(PinnedSet)
        BY <1>4, <1>5, FS_Subset
    <2>2. Rest = {} => Cardinality(res.ids) = 0
        BY <1>5, FS_EmptySet
    <2> QED BY <1>2, <1>4, <2>1, <2>2
<1>7. DOMAIN req'.results = {1} /\ req'.results[1] = res
    BY <1>2
<1>8. PageIsCounted'
    <2>1. res.ids \subseteq Objects
        BY <1>4, <1>5
    <2> QED BY <1>1, <1>5, <1>6, <1>7, <2>1 DEF PageIsCounted
<1> QED BY <1>1, <1>3, <1>8, ChatWaits DEF SameRequest

LEMMA ChatCountsWhole ==
    ASSUME TruthInv, ChatInv, CountWhole, UNCHANGED <<chat, part>>, chat.pc # "answered"
    PROVE  ChatInv'
<1>1. /\ SameNumbers(req', req) /\ req.pc = "total" /\ req.route = "cone"
      /\ req'.pc \in {"whole", "alerts"}
      /\ DOMAIN req'.results = {1} /\ req'.results[1].total = Cardinality(PinnedSet)
      /\ req'.results[1].ids = req.results[1].ids
    BY WholeCounts
<1>2. Live /\ Live'
    BY <1>1 DEF Live, Running, Answered
<1>3. ASSUME PageIsCounted PROVE PageIsCounted'
    <2>1. req.results[1].ids = {}
        BY <1>1, <1>3 DEF PageIsCounted
    <2>2. Cardinality(req'.results[1].ids) = 0
        BY <1>1, <2>1, FS_EmptySet
    <2>3. Cardinality(PinnedSet) \in Nat
        BY PinnedIsFinite
    <2>4. req'.results[1].total \in Nat
          /\ Cardinality(req'.results[1].ids) <= req'.results[1].total
        BY <1>1, <2>2, <2>3
    <2>5. req'.results[1].ids \subseteq Objects
        BY <1>1, <2>1
    <2> QED BY <1>1, <2>4, <2>5 DEF PageIsCounted
<1> QED BY <1>1, <1>2, <1>3, ChatWaits DEF SameNumbers, SameRequest, ChatInv, ChatAsked

LEMMA ChatPages ==
    ASSUME TruthInv, ConeInv, ChatInv, MakePage, UNCHANGED <<chat, part>>, chat.pc # "answered"
    PROVE  ChatInv'
<1>1. /\ SameNumbers(req', req) /\ req.pc = "built" /\ req.route = "cone"
      /\ req'.pc \in {"filter", "paused", "answered"}
      /\ DOMAIN req'.results = {1} /\ req'.results[1].total = req.results[1].total
      /\ req'.results[1].ids = req.results[1].ids
    BY PageCounts
<1>2. Live /\ Live'
    BY <1>1 DEF Live, Running, Answered
<1>3. PageIsCounted => PageIsCounted'
    BY <1>1 DEF PageIsCounted
<1> QED BY <1>1, <1>2, <1>3, ChatWaits DEF SameNumbers, SameRequest, ChatInv, ChatAsked

LEMMA ChatAsksLookup ==
    ASSUME TruthInv, ChatInv, part = "chat", part' = part, NEW raws \in ChatAsks, AskLookup(raws)
    PROVE  ChatInv'
<1>1. IsChat /\ chat.pc = "start" /\ req.pc = "start"
    BY DEF ChatInv, ChatAsked, AskLookup
<1>2. CASE chat' = [chat EXCEPT !.pc = "refused"]
    <2>1. IsChat' /\ chat'.pc = "refused"
        BY <1>1, <1>2 DEF IsChat, ChatFields
    <2>2. NothingIsHidden'
        BY <2>1 DEF NothingIsHidden, TruncationIsTold, EveryIdentifierAnswered,
                    EntriesAreTheirOwn
    <2> QED BY <2>1, <2>2 DEF ChatInv, ChatAsked
<1>3. CASE chat' # [chat EXCEPT !.pc = "refused"]
    <2>1. PICK idents : idents = Classified(raws)
        OBVIOUS
    <2>2. PICK inputs : inputs = LookupInputs(idents)
        OBVIOUS
    <2>3. PICK r : r = [route |-> "lookup", body |-> TRUE, detail |-> "full",
                        radius |-> "absent", filters |-> {}, response |-> "absent",
                        inputs |-> inputs]
        OBVIOUS
    <2>4. /\ chat' = [chat EXCEPT !.pc = "waiting", !.tool = "lookup", !.idents = idents]
          /\ IF inputs = <<>> THEN UNCHANGED <<storeVars, req>> ELSE Submit(r, TRUE)
        BY <1>3, <2>1, <2>2, <2>3 DEF AskLookup
    <2>5. /\ IsChat' /\ chat'.pc = "waiting" /\ chat'.tool = "lookup"
          /\ chat'.idents = Classified(raws) /\ LookupInputs(chat'.idents) = inputs
        BY <1>1, <2>1, <2>2, <2>4 DEF IsChat, ChatFields
    <2>6. NothingIsHidden'
        BY <2>5 DEF NothingIsHidden, TruncationIsTold, EveryIdentifierAnswered, EntriesAreTheirOwn
    <2>7. SUFFICES /\ IF inputs = <<>> THEN req'.pc = "start"
                      ELSE req'.pc = "refused" \/ AskedAs(inputs)'
                   /\ Live' /\ req'.route # "cone" => ListsTheirOwn'
                   /\ Live' => req'.route # "cone"
        <3>1. LookupAsked'
            BY <2>5, <2>7 DEF LookupAsked
        <3>2. ChatAsked'
            BY <2>5, <2>7, <3>1 DEF ChatAsked
        <3> QED BY <2>5, <2>6, <3>2 DEF ChatInv
    <2>8. CASE inputs = <<>>
        BY <1>1, <2>4, <2>8 DEF Live, Running, Answered
    <2>9. CASE inputs # <<>>
        <3>1. Submit(r, TRUE) /\ r.route = "lookup" /\ r.inputs = inputs
            BY <2>3, <2>4, <2>9
        <3>2. CASE req'.pc = "refused"
            BY <2>9, <3>2 DEF Live, Running, Answered
        <3>3. CASE req'.pc # "refused"
            <4>1. /\ Uncounted(req') /\ req'.route = "lookup" /\ DOMAIN req'.inputs = DOMAIN inputs
                  /\ \A i \in DOMAIN inputs : /\ req'.inputs[i].kind = inputs[i].kind
                                              /\ req'.inputs[i].of = inputs[i].of
                  /\ req'.pc \in {"filter", "answered", "alerts", "names", "search"}
                BY <3>1, <3>3, SubmitCounts
            <4>2. Live'
                BY <4>1 DEF Live, Running, Answered
            <4>3. AskedAs(inputs)'
                BY <4>1, <4>2 DEF AskedAs
            <4>4. \A i \in DOMAIN req'.results : req'.results[i].ids = {}
                BY <4>1, NewResults DEF Uncounted
            <4>5. ListsTheirOwn'
                BY <4>4 DEF ListsTheirOwn
            <4> QED BY <2>9, <4>1, <4>3, <4>5
        <3> QED BY <3>2, <3>3
    <2> QED BY <2>8, <2>9
<1> QED BY <1>2, <1>3

LEMMA ChatAsksNear ==
    ASSUME TruthInv, ConeInv, ChatInv, part = "chat", part' = part, NEW c, AskNear(c)
    PROVE  ChatInv'
<1>1. IsChat /\ chat.pc = "start" /\ req.pc = "start"
    BY DEF ChatInv, ChatAsked, AskNear
<1>2. PICK p : AskCone(p, NoToken)
    BY DEF AskNear
<1>3. chat' = [chat EXCEPT !.pc = "waiting", !.tool = "near"]
    BY DEF AskNear
<1>4. IsChat' /\ chat'.pc = "waiting" /\ chat'.tool = "near"
    BY <1>1, <1>3 DEF IsChat, ChatFields
<1>5. req'.pc = "refused" \/ (req'.pc = "page" /\ req'.route = "cone")
    BY <1>2, AskCounts
<1>6. NearAsked' /\ (Live' => req'.route = "cone" /\ req'.pc = "page")
    BY <1>5 DEF NearAsked, Live, Running, Answered
<1>7. ChatAsked'
    BY <1>4, <1>6 DEF ChatAsked, PageIsCounted
<1>8. NothingIsHidden'
    BY <1>4 DEF NothingIsHidden, TruncationIsTold, EveryIdentifierAnswered, EntriesAreTheirOwn
<1> QED BY <1>4, <1>7, <1>8 DEF ChatInv

-----------------------------------------------------------------------------
\* The answer of a lookup.  An entry lists objects of its result, in order.
LEMMA EntryForIs ==
    ASSUME StoreTyped, NEW idents, NEW n, NEW res, res = req.results[ResultOf(idents, n)],
           LookedUp(idents[n].kind) => res.ids \subseteq Objects /\ res.total \in Int,
           NEW e, e = EntryFor(idents, n)
    PROVE  /\ e.position = idents[n].position /\ e.kind = idents[n].kind /\ e.of = idents[n].of
           /\ e = [position |-> e.position, kind |-> e.kind, of |-> e.of, status |-> e.status,
                   objects |-> e.objects, found |-> e.found]
           /\ e.objects \in Seq(Objects) /\ e.found \in Int /\ e.found >= Len(e.objects)
           /\ LookedUp(idents[n].kind) => /\ ToSet(e.objects) \subseteq res.ids
                                          /\ e.objects # <<>> => res.ids # {}
           /\ ~LookedUp(idents[n].kind) => e.objects = <<>>
<1> DEFINE ident == idents[n]
           base == [position |-> ident.position, kind |-> ident.kind, of |-> ident.of,
                    status |-> ident.kind, objects |-> <<>>, found |-> 0]
           objects == InOrder(res.ids, Sooner)
           found == IF ident.kind = "tns" /\ res.total > Len(objects) THEN res.total
                    ELSE Len(objects)
<1>1. e = IF ~LookedUp(ident.kind) THEN base
          ELSE [base EXCEPT !.status = res.status, !.objects = objects, !.found = found]
    BY DEF EntryFor
<1>2. objects = SoonestFirst(res.ids)
    BY DEF InOrder, SoonestFirst
<1>3. CASE ~LookedUp(ident.kind)
    <2>1. e = base
        BY <1>1, <1>3
    <2>2. Len(<<>>) = 0 /\ <<>> \in Seq(Objects)
        OBVIOUS
    <2> HIDE DEF objects, found
    <2> QED BY <1>3, <2>1, <2>2
<1>4. CASE LookedUp(ident.kind)
    <2>1. /\ objects \in Seq(Objects) /\ Len(objects) = Cardinality(res.ids)
          /\ ToSet(objects) \subseteq res.ids /\ (objects # <<>> => res.ids # {})
        BY <1>2, <1>4, ObjectsInOrder
    <2> HIDE DEF objects
    <2>2. found \in Int /\ found >= Len(objects)
        <3>1. PICK l \in Nat : l = Len(objects)
            BY <2>1
        <3>2. PICK t \in Int : t = res.total
            BY <1>4
        <3> QED BY <3>1, <3>2
    <2> HIDE DEF found
    <2>3. e = [base EXCEPT !.status = res.status, !.objects = objects, !.found = found]
        BY <1>1, <1>4
    <2>4. e = [position |-> ident.position, kind |-> ident.kind, of |-> ident.of,
               status |-> res.status, objects |-> objects, found |-> found]
        BY <2>3
    <2> QED BY <1>4, <2>1, <2>2, <2>4
<1> QED BY <1>3, <1>4

\* The entries of a lookup, in the order of its identifiers.
LEMMA EntriesAre ==
    ASSUME StoreTyped, NEW raws \in ChatAsks, NEW idents, idents = Classified(raws),
           \A n \in DOMAIN idents : LookedUp(idents[n].kind) =>
               /\ req.results[ResultOf(idents, n)].ids \subseteq Objects
               /\ req.results[ResultOf(idents, n)].total \in Int,
           NEW s, s = [n \in DOMAIN idents |-> EntryFor(idents, n)]
    PROVE  \E U : /\ s \in Seq(Entry(U, Objects)) /\ DOMAIN idents = 1 .. Len(s)
                  /\ Ascends(s)
                  /\ \A k \in 1 .. Len(s) : s[k].found >= Len(s[k].objects)
<1>1. PICK n \in Nat : /\ DOMAIN idents = 1 .. n
                       /\ \A k \in 1 .. n : idents[k].position \in Nat
                       /\ \A d, e \in 1 .. n : d < e => idents[d].position < idents[e].position
    BY IdentsInOrder
<1>2. DOMAIN s = 1 .. n
    BY <1>1
<1>3. ASSUME NEW k \in 1 .. n
      PROVE  /\ s[k].position = idents[k].position
             /\ s[k] = [position |-> s[k].position, kind |-> s[k].kind, of |-> s[k].of,
                        status |-> s[k].status, objects |-> s[k].objects, found |-> s[k].found]
             /\ s[k].objects \in Seq(Objects) /\ s[k].found \in Int
             /\ s[k].found >= Len(s[k].objects)
    <2>1. PICK res : res = req.results[ResultOf(idents, k)]
        OBVIOUS
    <2>2. LookedUp(idents[k].kind) => res.ids \subseteq Objects /\ res.total \in Int
        BY <1>1, <2>1
    <2>3. s[k] = EntryFor(idents, k)
        BY <1>1
    <2> QED BY <2>1, <2>2, <2>3, EntryForIs
<1>4. PICK U : U = {s[k].kind : k \in 1 .. n} \cup {s[k].of : k \in 1 .. n}
                     \cup {s[k].status : k \in 1 .. n}
    OBVIOUS
<1>5. ASSUME NEW k \in 1 .. n PROVE s[k] \in Entry(U, Objects)
    <2>1. s[k].kind \in U /\ s[k].of \in U /\ s[k].status \in U
        BY <1>4
    <2>2. s[k].position \in Nat
        BY <1>1, <1>3
    <2>3. PICK r : r = s[k]
        OBVIOUS
    <2>4. /\ r = [position |-> r.position, kind |-> r.kind, of |-> r.of, status |-> r.status,
                  objects |-> r.objects, found |-> r.found]
          /\ r.position \in Nat /\ r.kind \in U /\ r.of \in U /\ r.status \in U
          /\ r.objects \in Seq(Objects) /\ r.found \in Int
        BY <1>3, <2>1, <2>2, <2>3
    <2>5. r \in Entry(U, Objects)
        BY <2>4 DEF Entry
    <2> QED BY <2>3, <2>5
<1>6. s \in Seq(Entry(U, Objects)) /\ Len(s) = n
    <2>1. s = [k \in 1 .. n |-> s[k]]
        BY <1>1
    <2>2. s \in [1 .. n -> Entry(U, Objects)]
        BY <1>5, <2>1
    <2> QED BY <2>2
<1>7. Ascends(s)
    <2>1. \A d, e \in 1 .. n : d < e => s[d].position < s[e].position
        BY <1>1, <1>3
    <2> QED BY <1>2, <2>1 DEF Ascends
<1> QED BY <1>1, <1>3, <1>6, <1>7

\* The chat's answer to a lookup tells everything.
LEMMA LookupTells ==
    ASSUME TruthInv, NumberInv, ChatInv, Project, chat.tool = "lookup"
    PROVE  NothingIsHidden'
<1>1. /\ IsChat /\ chat.pc = "waiting" /\ req' = req /\ rows' = rows
      /\ LookupInputs(chat.idents) # <<>> => req.pc = "answered"
      /\ StoreTyped
    BY DEF ChatInv, Project, storeVars, TruthInv, Shape
<1>2. PICK raws, idents :
         /\ raws \in ChatAsks
         /\ idents = chat.idents /\ idents = Classified(raws)
         /\ LookupInputs(idents) # <<>> => AskedAs(LookupInputs(idents))
    BY <1>1 DEF ChatInv, ChatAsked, LookupAsked
<1>3. PICK n \in Nat : DOMAIN idents = 1 .. n
    BY <1>2, IdentsInOrder
<1>4. PICK inputs : inputs = LookupInputs(idents)
    OBVIOUS
<1>5. ASSUME NEW k \in 1 .. n, LookedUp(idents[k].kind), NEW res,
             res = req.results[ResultOf(idents, k)]
      PROVE  /\ res.total \in Int /\ res.ids \subseteq Objects
             /\ \A o \in res.ids :
                   IF idents[k].kind = "id" THEN o = idents[k].of
                   ELSE idents[k].kind = "tns" /\ o \in Inside(TnsPlace[idents[k].of], Unpinned)
    <2>1. PICK i : i = ResultOf(idents, k)
        OBVIOUS
    <2>2. i \in DOMAIN inputs /\ inputs[i].kind = idents[k].kind /\ inputs[i].of = idents[k].of
        BY <1>3, <1>4, <1>5, <2>1, ResultIsItsOwn
    <2>3. inputs # <<>>
        BY <2>2
    <2>4. AskedAs(inputs)
        BY <1>2, <1>4, <2>3
    <2>5. /\ req.route # "cone" /\ Live /\ i \in DOMAIN req.inputs
          /\ req.inputs[i].kind = idents[k].kind /\ req.inputs[i].of = idents[k].of
        BY <2>2, <2>4 DEF AskedAs
    <2>6. ListsTheirOwn /\ LookupNumbers(req)
        BY <1>1, <2>5 DEF ChatInv, ChatAsked, NumberInv, LookupCounted
    <2>7. i \in DOMAIN req.results /\ res = req.results[i]
        BY <1>5, <2>1, <2>5, <2>6 DEF LookupNumbers
    <2>8. res.total \in Int
        <3>1. CASE i \in DOMAIN req.candidates
            <4>1. req.candidates[i] \in SUBSET Objects /\ res.total = Cardinality(req.candidates[i])
                BY <2>6, <2>7, <3>1 DEF LookupNumbers
            <4>2. Cardinality(req.candidates[i]) \in Nat
                BY <4>1, ConstantsTyped, FS_Subset, FS_CardinalityType
            <4> QED BY <4>1, <4>2
        <3>2. CASE i \notin DOMAIN req.candidates
            BY <2>6, <2>7, <3>2 DEF LookupNumbers, NotACone, NotRun
        <3> QED BY <3>1, <3>2
    <2>9. ASSUME NEW o \in res.ids
          PROVE  /\ o \in Objects
                 /\ IF idents[k].kind = "id" THEN o = idents[k].of
                    ELSE idents[k].kind = "tns" /\ o \in Inside(TnsPlace[idents[k].of], Unpinned)
        <3>1. Belongs(o, req.inputs[i])
            BY <2>6, <2>7, <2>9 DEF ListsTheirOwn
        <3>2. idents[k].kind \in {"id", "tns"}
            BY <1>5 DEF LookedUp
        <3> QED BY <2>5, <3>1, <3>2 DEF Belongs, CentreOf
    <2> QED BY <2>8, <2>9
<1>6. PICK s : s = [k \in DOMAIN idents |-> EntryFor(idents, k)]
    OBVIOUS
<1>7. \A k \in DOMAIN idents : LookedUp(idents[k].kind) =>
         /\ req.results[ResultOf(idents, k)].ids \subseteq Objects
         /\ req.results[ResultOf(idents, k)].total \in Int
    BY <1>3, <1>5
<1>8. PICK U : /\ s \in Seq(Entry(U, Objects)) /\ DOMAIN idents = 1 .. Len(s)
               /\ Ascends(s) /\ \A k \in 1 .. Len(s) : s[k].found >= Len(s[k].objects)
    BY <1>1, <1>2, <1>6, <1>7, EntriesAre
<1>9. Len(s) = n
    BY <1>3, <1>8
<1>10. ASSUME NEW k \in 1 .. n
       PROVE  /\ s[k].position = idents[k].position /\ s[k].kind = idents[k].kind
              /\ s[k].of = idents[k].of
              /\ s[k].objects # <<>> => /\ LookedUp(idents[k].kind)
                                        /\ req.results[ResultOf(idents, k)].ids # {}
              /\ \A o \in ToSet(s[k].objects) :
                    IF s[k].kind = "id" THEN o = s[k].of
                    ELSE s[k].kind = "tns" /\ o \in Inside(TnsPlace[s[k].of], Unpinned)
    <2>1. PICK res : res = req.results[ResultOf(idents, k)]
        OBVIOUS
    <2>2. PICK e : e = EntryFor(idents, k)
        OBVIOUS
    <2>3. s[k] = e
        BY <1>3, <1>6, <2>2
    <2>4. LookedUp(idents[k].kind) => res.ids \subseteq Objects /\ res.total \in Int
        BY <1>5, <2>1
    <2>5. /\ e.position = idents[k].position /\ e.kind = idents[k].kind /\ e.of = idents[k].of
          /\ LookedUp(idents[k].kind) => /\ ToSet(e.objects) \subseteq res.ids
                                         /\ e.objects # <<>> => res.ids # {}
          /\ ~LookedUp(idents[k].kind) => e.objects = <<>>
        <3>1. StoreTyped
            BY <1>1
        <3>2. e.position = idents[k].position /\ e.kind = idents[k].kind /\ e.of = idents[k].of
            BY <2>1, <2>2, <2>4, <3>1, EntryForIs
        <3>3. LookedUp(idents[k].kind) => ToSet(e.objects) \subseteq res.ids
            BY <2>1, <2>2, <2>4, <3>1, EntryForIs
        <3>4. LookedUp(idents[k].kind) => (e.objects # <<>> => res.ids # {})
            BY <2>1, <2>2, <2>4, <3>1, EntryForIs
        <3>5. ~LookedUp(idents[k].kind) => e.objects = <<>>
            BY <2>1, <2>2, <2>4, <3>1, EntryForIs
        <3> QED BY <3>2, <3>3, <3>4, <3>5
    <2>6. ToSet(<<>>) = {}
        BY DEF ToSet
    <2>7. ASSUME NEW o \in ToSet(e.objects)
          PROVE  IF idents[k].kind = "id" THEN o = idents[k].of
                 ELSE idents[k].kind = "tns" /\ o \in Inside(TnsPlace[idents[k].of], Unpinned)
        <3>1. LookedUp(idents[k].kind) /\ o \in res.ids
            BY <2>5, <2>6, <2>7
        <3> QED BY <1>5, <2>1, <3>1
    <2> QED BY <2>1, <2>3, <2>5, <2>7
<1>11. PICK acc : acc = Capped(s)
    OBVIOUS
<1>12. PICK found \in Int : found = FoundSum(s) /\ ObjectCount(s) <= found
    BY <1>8, FoundCovers
<1>13. PICK answer : answer = Assembled(acc.kept, acc.cut, found)
    OBVIOUS
<1>14. /\ answer.results \in Seq(Entry(U, Objects)) /\ LeftOf(answer.results, s, n)
       /\ answer.found = found
       /\ answer.reasons # {} <=> answer.returned < found
       /\ answer.returned <= ChatObjects
       /\ TooBig(answer.results) => answer.returned = 0
       /\ \A i \in 1 .. n :
             Answers(answer.results, s[i]) \/ (answer.reasons # {} /\ s[i].objects # <<>>)
    <2>1. /\ s \in Seq(Entry(U, Objects)) /\ Ascends(s)
          /\ found \in Int /\ ObjectCount(s) <= found
        BY <1>8, <1>12
    <2>2. /\ answer.results \in Seq(Entry(U, Objects)) /\ LeftOf(answer.results, s, Len(s))
          /\ answer.found = found /\ answer.returned <= ChatObjects
          /\ TooBig(answer.results) => answer.returned = 0
        BY <2>1, <1>11, <1>13, AnswerIs
    <2>3. answer.reasons # {} => answer.returned < found
        BY <2>1, <1>11, <1>13, AnswerIs
    <2>4. answer.returned < found => answer.reasons # {}
        BY <2>1, <1>11, <1>13, AnswerIs
    <2>5. \A i \in 1 .. Len(s) :
             Answers(answer.results, s[i]) \/ (answer.reasons # {} /\ s[i].objects # <<>>)
        BY <2>1, <1>11, <1>13, AnswerIs
    <2> QED BY <1>9, <2>2, <2>3, <2>4, <2>5
<1>15. ProjectLookup = answer
    <2>1. ProjectLookup = Assembled(Capped(s).kept, Capped(s).cut, FoundSum(s))
        BY <1>2, <1>6 DEF ProjectLookup, FoundSum
    <2> QED BY <1>11, <1>12, <1>13, <2>1
<1>16. /\ chat'.pc = "answered" /\ chat'.tool = "lookup" /\ chat'.idents = idents
       /\ chat'.answer = answer
    <2>1. chat' = [chat EXCEPT !.pc = "answered", !.answer = answer]
        BY <1>15 DEF Project
    <2> QED BY <1>1, <1>2, <2>1 DEF IsChat, ChatFields
<1>17. TruncationIsTold'
    BY <1>14, <1>16 DEF TruncationIsTold
<1>18. EveryIdentifierAnswered'
    <2>1. \A d, e \in DOMAIN answer.results :
             d < e => answer.results[d].position < answer.results[e].position
        BY <1>14 DEF LeftOf, Ascends
    <2>2. ASSUME NEW k \in DOMAIN idents,
                 ~ \E e \in DOMAIN answer.results :
                      answer.results[e].position = idents[k].position
          PROVE  /\ answer.reasons # {} /\ LookedUp(idents[k].kind)
                 /\ req.results[ResultOf(idents, k)].ids # {}
        <3>1. k \in 1 .. n /\ ~ Answers(answer.results, s[k])
            BY <1>3, <1>10, <2>2 DEF Answers
        <3> QED BY <1>10, <1>14, <3>1
    <2> QED BY <1>1, <1>16, <2>1, <2>2 DEF EveryIdentifierAnswered
<1>19. EntriesAreTheirOwn'
    <2>1. ASSUME NEW e \in DOMAIN answer.results, NEW o \in ToSet(answer.results[e].objects)
          PROVE  LET entry == answer.results[e]
                 IN  IF entry.kind = "id" THEN o = entry.of
                     ELSE entry.kind = "tns" /\ o \in Inside(TnsPlace[entry.of], Unpinned)
        <3>1. PICK i \in 1 .. n : PartOf(answer.results[e], s[i])
            BY <1>14 DEF LeftOf
        <3> QED BY <1>10, <2>1, <3>1 DEF PartOf
    <2>2. \A c : Inside(c, Unpinned)' = Inside(c, Unpinned)
        BY <1>1 DEF Inside, Committed
    <2> QED BY <1>16, <2>1, <2>2 DEF EntriesAreTheirOwn
<1> QED BY <1>17, <1>18, <1>19 DEF NothingIsHidden

-----------------------------------------------------------------------------
\* The answer of a near position: one entry.
NearEntry(res, centre, objects) ==
    [position |-> 1, kind |-> "near", of |-> centre, status |-> res.status,
     objects |-> objects, found |-> res.total]

LEMMA NearTells ==
    ASSUME TruthInv, ChatInv, Project, chat.tool = "near"
    PROVE  NothingIsHidden'
<1>1. IsChat /\ chat.pc = "waiting" /\ req.pc = "answered"
    BY DEF ChatInv, Project
<1>2. Live /\ req.route = "cone" /\ PageIsCounted
    BY <1>1 DEF ChatInv, ChatAsked, NearAsked
<1>3. PICK res : res = req.results[1]
    OBVIOUS
<1>4. /\ res.ids \in SUBSET Objects /\ res.total \in Nat
      /\ Cardinality(res.ids) <= res.total
    BY <1>1, <1>2, <1>3 DEF PageIsCounted
<1>5. PICK m \in Nat : m = Cardinality(res.ids)
    <2>1. IsFiniteSet(res.ids)
        BY <1>4, ConstantsTyped, FS_Subset
    <2> QED BY <2>1, FS_CardinalityType
<1>6. PICK total \in Int : total = res.total /\ m <= total
    BY <1>4, <1>5
<1>7. \E objects :
         /\ \E x : objects = [k \in 1 .. m |-> x[k]]
         /\ ProjectNear =
              LET entry == NearEntry(res, req.cone.centre, objects)
                  capped == Capped(<<entry>>)
              IN  [Assembled(capped.kept, capped.cut, res.total) EXCEPT
                     !.results = IF @ = <<>> THEN <<[entry EXCEPT !.objects = <<>>]>> ELSE @]
    <2> DEFINE Closer(o, p) == Nearer(req.cone.centre, o, p)
               objects == InOrder(res.ids, Closer)
    <2>1. ProjectNear =
            LET entry == NearEntry(res, req.cone.centre, objects)
                capped == Capped(<<entry>>)
            IN  [Assembled(capped.kept, capped.cut, res.total) EXCEPT
                   !.results = IF @ = <<>> THEN <<[entry EXCEPT !.objects = <<>>]>> ELSE @]
        BY <1>3 DEF ProjectNear, NearEntry
    <2>2. objects = [k \in 1 .. m |-> CHOOSE x \in res.ids :
                        Cardinality({y \in res.ids : Closer(y, x)}) = k - 1]
        BY <1>5 DEF InOrder
    <2>3. objects = [k \in 1 .. m |-> objects[k]]
        BY <2>2
    <2> HIDE DEF objects
    <2> QED BY <2>1, <2>3
<1>8. PICK objects, x :
         /\ objects = [k \in 1 .. m |-> x[k]]
         /\ ProjectNear =
              LET entry == NearEntry(res, req.cone.centre, objects)
                  capped == Capped(<<entry>>)
              IN  [Assembled(capped.kept, capped.cut, res.total) EXCEPT
                     !.results = IF @ = <<>> THEN <<[entry EXCEPT !.objects = <<>>]>> ELSE @]
    BY <1>7
<1>9. PICK V : V = {x[k] : k \in 1 .. m}
    OBVIOUS
<1>10. objects \in Seq(V) /\ Len(objects) = m
    <2>1. objects \in [1 .. m -> V]
        BY <1>8, <1>9
    <2> QED BY <2>1
<1>11. PICK entry : entry = NearEntry(res, req.cone.centre, objects)
    OBVIOUS
<1>12. PICK U : U = {"near", req.cone.centre, res.status}
    OBVIOUS
<1>13. entry \in Entry(U, V) /\ entry.found = total /\ entry.objects = objects
    <2>1. PICK c \in U, status \in U, near \in U :
             c = req.cone.centre /\ status = res.status /\ near = "near"
        BY <1>12
    <2>2. entry = [position |-> 1, kind |-> near, of |-> c, status |-> status,
                   objects |-> objects, found |-> total]
        BY <1>6, <1>11, <2>1 DEF NearEntry
    <2>3. 1 \in Nat /\ total \in Int
        OBVIOUS
    <2>4. entry \in Entry(U, V)
        BY <1>10, <2>1, <2>2, <2>3 DEF Entry
    <2> QED BY <2>2, <2>4
<1>14. PICK s \in Seq(Entry(U, V)) : s = <<entry>> /\ Len(s) = 1 /\ s[1] = entry /\ DOMAIN s = {1}
    <2>1. <<entry>> \in Seq(Entry(U, V)) /\ Len(<<entry>>) = 1
        BY <1>13
    <2>2. <<entry>>[1] = entry /\ DOMAIN <<entry>> = {1}
        OBVIOUS
    <2> QED BY <2>1, <2>2
<1>15. Ascends(s)
    BY <1>14 DEF Ascends
<1>16. ObjectCount(s) <= total
    <2>1. \A k \in 1 .. Len(s) : s[k].found >= Len(s[k].objects)
        BY <1>6, <1>10, <1>13, <1>14
    <2>2. ObjectCount(s) <= FoundSum(s)
        BY <2>1, FoundCovers
    <2>3. PICK c : /\ c[0] = 0 /\ \A k \in 1 .. Len(s) : c[k] = c[k - 1] + s[k].found
                   /\ FoundSum(s) = c[Len(s)]
        BY FoundUnfolds
    <2>4. c[1] = c[0] + total
        <3>1. 1 \in 1 .. Len(s) /\ 1 - 1 = 0
            BY <1>14
        <3> QED BY <1>13, <1>14, <2>3, <3>1
    <2> QED BY <1>14, <2>2, <2>3, <2>4
<1>17. PICK acc : acc = Capped(s)
    OBVIOUS
<1>18. PICK a : a = Assembled(acc.kept, acc.cut, total)
    OBVIOUS
<1>19. /\ a.results \in Seq(Entry(U, V)) /\ a.found = total /\ a.returned <= ChatObjects
       /\ TooBig(a.results) => a.returned = 0
    BY <1>15, <1>16, <1>17, <1>18, AnswerIs
<1>20. a.returned = ObjectCount(a.results) /\ a.returned \in Nat
    BY <1>15, <1>16, <1>17, <1>18, AnswerIs
<1>21. a.reasons # {} => a.returned < total
    BY <1>15, <1>16, <1>17, <1>18, <1>20, AnswerIs
<1>22. a.returned < total => a.reasons # {}
    BY <1>15, <1>16, <1>17, <1>18, AnswerIs
<1>23. a.results = <<>> => a.returned = 0
    <2>1. Holders(<<>>) = {} /\ <<>> \in Seq(Entry(U, V))
        BY DEF Holders
    <2> QED BY <1>20, <2>1, CountOfNone
<1>24. \E r : /\ r = a.results \/ a.results = <<>>
              /\ ProjectNear = [results |-> r, found |-> a.found, returned |-> a.returned,
                                reasons |-> a.reasons]
    <2>1. PICK emptied : emptied = <<[entry EXCEPT !.objects = <<>>]>>
        OBVIOUS
    <2>2. ProjectNear = [a EXCEPT !.results = IF @ = <<>> THEN emptied ELSE @]
        BY <1>6, <1>8, <1>11, <1>14, <1>17, <1>18, <2>1
    <2>3. \E fitted, returned, reasons :
             a = [results |-> fitted, found |-> total, returned |-> returned, reasons |-> reasons]
        BY <1>18 DEF Assembled
    <2> QED BY <2>2, <2>3
<1>25. PICK r, answer : /\ r = a.results \/ a.results = <<>>
                        /\ answer = ProjectNear /\ answer.results = r /\ answer.found = total
                        /\ answer.returned = a.returned /\ answer.reasons = a.reasons
    BY <1>19, <1>24
<1>26. TooBig(r) => answer.returned = 0
    BY <1>19, <1>23, <1>25
<1>27. chat'.pc = "answered" /\ chat'.tool = "near" /\ chat'.answer = answer
    <2>1. chat' = [chat EXCEPT !.pc = "answered", !.answer = answer]
        BY <1>25 DEF Project
    <2> QED BY <1>1, <2>1 DEF IsChat, ChatFields
<1>28. TruncationIsTold'
    <2>1. answer.reasons # {} => answer.returned < answer.found
        BY <1>21, <1>25
    <2>2. answer.returned < answer.found => answer.reasons # {}
        BY <1>22, <1>25
    <2>3. answer.returned <= ChatObjects
        BY <1>19, <1>25
    <2>4. TooBig(answer.results) => answer.returned = 0
        BY <1>25, <1>26
    <2> QED BY <1>27, <2>1, <2>2, <2>3, <2>4 DEF TruncationIsTold
<1>29. EveryIdentifierAnswered' /\ EntriesAreTheirOwn'
    BY <1>27 DEF EveryIdentifierAnswered, EntriesAreTheirOwn
<1> QED BY <1>28, <1>29 DEF NothingIsHidden

LEMMA ChatProjects ==
    ASSUME TruthInv, NumberInv, ChatInv, Project, UNCHANGED part
    PROVE  ChatInv'
<1>1. /\ IsChat /\ chat.pc = "waiting" /\ req' = req /\ chat.tool \in {"lookup", "near"}
      /\ part = "chat"
    BY DEF ChatInv, ChatAsked, Project
<1>2. NothingIsHidden'
    BY <1>1, LookupTells, NearTells
<1>3. req.pc \in {"start", "answered"}
    <2>1. CASE chat.tool = "near"
        BY <2>1 DEF Project
    <2>2. CASE chat.tool = "lookup" /\ LookupInputs(chat.idents) # <<>>
        BY <2>2 DEF Project
    <2>3. CASE chat.tool = "lookup" /\ LookupInputs(chat.idents) = <<>>
        BY <1>1, <2>3 DEF ChatInv, ChatAsked, LookupAsked
    <2> QED BY <1>1, <2>1, <2>2, <2>3
<1>4. IsChat' /\ chat'.pc = "answered"
    <2>1. PICK answer : chat' = [chat EXCEPT !.pc = "answered", !.answer = answer]
        BY DEF Project
    <2> QED BY <1>1, <2>1 DEF IsChat, ChatFields
<1>5. ChatAsked'
    BY <1>1, <1>3, <1>4 DEF ChatAsked
<1> QED BY <1>1, <1>2, <1>4, <1>5 DEF ChatInv

-----------------------------------------------------------------------------
\* A chat that was answered is over: nothing in its part of the service acts.
LEMMA AnsweredChatRests ==
    ASSUME ChatInv, chat.pc = "answered", Next
    PROVE  FALSE
<1>1. part = "chat" /\ req.pc \in {"start", "answered"}
    BY DEF ChatInv, ChatAsked
<1>2. CASE StoreStepSeen /\ {walk.pc, IF part = "chat" THEN chat.pc ELSE req.pc, night.pc}
                              \cap Finished = {}
    BY <1>1, <1>2 DEF Finished
<1>3. ~BuildStep
    BY <1>1 DEF BuildStep, ReadAlerts, ReadRecords, ReadMatched, ReadMatches, ReadBrokers,
           BuildObjects
<1>4. ~ChatStep
    <2>1. /\ ~ \E raws \in ChatAsks : AskLookup(raws)
          /\ ~ \E c \in ChatCentres : AskNear(c)
          /\ ~Project
        BY DEF AskLookup, AskNear, Project
    <2>2. ~(ResolveNames \/ SearchAll \/ Assemble \/ FetchPage \/ CountWhole \/ MakePage)
        BY <1>1 DEF ResolveNames, SearchAll, Assemble, FetchPage, CountWhole, MakePage
    <2> QED BY <2>1, <2>2 DEF ChatStep
<1> QED BY <1>1, <1>2, <1>3, <1>4 DEF Next

\* Steps outside of a chat.
LEMMA NoChatYet ==
    ASSUME ChatInv, part # "chat", UNCHANGED <<chat, part>>
    PROVE  ChatInv'
<1>1. chat.pc = "start" /\ IsChat
    BY DEF ChatInv
<1>2. NothingIsHidden'
    BY <1>1 DEF NothingIsHidden, TruncationIsTold, EveryIdentifierAnswered, EntriesAreTheirOwn
<1> QED BY <1>1, <1>2 DEF ChatInv, ChatAsked, IsChat

LEMMA ChatGoesOn ==
    ASSUME TruthInv, ConeInv, NumberInv, ChatInv, part = "chat", part' = part, ChatStep
    PROVE  ChatInv'
<1>1. ASSUME NEW raws \in ChatAsks, AskLookup(raws) PROVE ChatInv'
    BY <1>1, ChatAsksLookup
<1>2. ASSUME NEW c \in ChatCentres, AskNear(c) PROVE ChatInv'
    BY <1>2, ChatAsksNear
<1>3. CASE Project
    BY <1>3, ChatProjects
<1>4. CASE /\ ResolveNames \/ SearchAll \/ Assemble \/ FetchPage \/ CountWhole \/ MakePage
           /\ UNCHANGED chat
    <2>1. chat.pc # "answered"
        BY <1>4 DEF ChatInv, ChatAsked, ResolveNames, SearchAll, Assemble, FetchPage, CountWhole,
                    MakePage
    <2> QED BY <1>4, <2>1, ChatResolves, ChatSearches, ChatAssembles, ChatFetches, ChatCountsWhole,
               ChatPages
<1> QED BY <1>1, <1>2, <1>3, <1>4 DEF ChatStep

LEMMA ChatBegins == ASSUME Init PROVE ChatInv
<1>1. chat = FreshChat /\ req = FreshRequest
    BY DEF Init
<1>2. IsChat /\ chat.pc = "start"
    BY <1>1 DEF FreshChat, IsChat, ChatFields
<1>3. req.pc = "start"
    BY <1>1 DEF FreshRequest
<1>4. NothingIsHidden
    BY <1>2 DEF NothingIsHidden, TruncationIsTold, EveryIdentifierAnswered, EntriesAreTheirOwn
<1> QED BY <1>2, <1>3, <1>4 DEF ChatInv, ChatAsked

LEMMA ChatStays == ASSUME ChatInv, UNCHANGED readVars PROVE ChatInv'
<1>1. CASE chat.pc = "answered"
    <2>1. NothingIsHidden'
        BY DEF ChatInv, readVars, storeVars, NothingIsHidden, TruncationIsTold,
               EveryIdentifierAnswered, EntriesAreTheirOwn, Inside, Committed
    <2> QED BY <1>1, <2>1 DEF ChatInv, ChatAsked, IsChat, readVars
<1>2. CASE chat.pc # "answered"
    <2>1. req' = req /\ UNCHANGED <<chat, part, rows>>
        BY DEF readVars, storeVars
    <2>2. ListsTheirOwn => ListsTheirOwn'
        BY <2>1 DEF ListsTheirOwn, Belongs, Inside, Committed
    <2>3. PageIsCounted => PageIsCounted'
        BY <2>1 DEF PageIsCounted
    <2> QED BY <1>2, <2>1, <2>2, <2>3, ChatWaits DEF ChatInv, ChatAsked
<1> QED BY <1>1, <1>2

\* However an answer of the chat is cut, it says so exactly when it lists fewer
\* objects than were found, every distinct identifier is answered in the order given
\* or is in the request a truncated answer points to, and an entry lists objects of
\* its own identifier only.
THEOREM ChatTellsEverything == Spec => []NothingIsHidden
<1>1. Init => ChatInv
    BY ChatBegins
<1>2. ASSUME TruthInv, ConeInv, NumberInv, ChatInv, [Next]_readVars PROVE ChatInv'
    <2>1. CASE UNCHANGED readVars
        BY <1>2, <2>1, ChatStays
    <2>2. CASE Next /\ part # "chat"
        <3>1. UNCHANGED <<chat, part>>
            BY <2>2 DEF Next
        <3> QED BY <1>2, <2>2, <3>1, NoChatYet
    <2>3. CASE Next /\ part = "chat"
        <3>1. chat.pc # "answered"
            BY <1>2, <2>3, AnsweredChatRests
        <3>2. \/ StoreStepSeen /\ UNCHANGED <<chat, part>>
              \/ ChatStep /\ part' = part
              \/ BuildStep /\ UNCHANGED <<chat, part>>
            BY <2>3 DEF Next
        <3> QED BY <1>2, <2>3, <3>1, <3>2, ChatSeesCommits, ChatGoesOn, ChatBuilds
    <2> QED BY <1>2, <2>1, <2>2, <2>3
<1>3. ChatInv => NothingIsHidden
    BY DEF ChatInv
<1> QED BY <1>1, <1>2, <1>3, TruthIsKept, ConeIsKept, NumbersAreKept, PTL DEF Spec
=============================================================================
