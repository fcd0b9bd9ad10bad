----------------------------- MODULE Readings_proofs -----------------------------
(***************************************************************************)
(* What is proved of the functions that keep no state: the filter, the score  *)
(* and the card of a match agree on every offer and every profile, and the     *)
(* counts beside the filters and on the badge are those of the listing.       *)
(***************************************************************************)
EXTENDS Readings, FiniteSetTheorems, SequenceTheorems, WellFoundedInduction, TLAPS

\* An offer that "only matches" keeps misses nothing essential: its score is not capped.
LEMMA PassedIsNotCapped ==
    ASSUME NEW o, NEW p, Passes(o, p)
    PROVE ~Capped(o, p)
<1>1. SUFFICES ASSUME NEW c \in Criteria, Misses(o, p, c) PROVE FALSE
  BY DEF Capped
<1>2. CASE c \in Listed
  <2>1. Counts(p, c) /\ o.value[c] \notin p.wanted[c] \union {Unknown}
    BY <1>1, <1>2 DEF Misses, Listed
  <2>2. QED
    BY <1>2, <2>1 DEF Passes
<1>3. CASE c \notin Listed
  <2>1. c = "LOCATION" /\ Counts(p, c) /\ ~p.relocates /\ o.place # "unknown" /\ ~Reachable(o, p)
    BY <1>1, <1>3 DEF Misses
  <2>2. QED
    BY <2>1 DEF Passes
<1>4. QED
  BY <1>2, <1>3

\* What a line of the card is about, and when it is a miss.
LEMMA MissesOnTheCard ==
    ASSUME NEW o, NEW p, NEW r \in Reasons(o, p), ~r.met,
           o.high \in {"unknown", "below", "above"}
    PROVE \/ r.kind \in Listed /\ o.value[r.kind] \notin p.wanted[r.kind] \union {Unknown}
          \/ r.kind = "SALARY" /\ o.high = "below"
<1> DEFINE OfListed == UNION {When(Shown(o, p, c), Lists(o, p, c)) : c \in Listed}
           OfTexts  == UNION {When(c \in p.texts /\ o.rank[c] > 0, Reason(c, TRUE)) : c \in Texts}
<1> HIDE DEF OfListed, OfTexts
<1>1. \/ r \in OfListed
      \/ r \in OfTexts
      \/ r \in When(InCity(o, p), Reason("city", TRUE))
      \/ r \in When(InCountry(o, p) /\ ~InCity(o, p), Reason("country", TRUE))
      \/ r \in When(p.required /\ o.required, Reason("required", TRUE))
      \/ r \in When(p.salary /\ o.high # "unknown", Reason("SALARY", o.high = "above"))
      \/ r \in When(o.followed, Reason("followed", TRUE))
  BY DEF Reasons, OfListed, OfTexts
<1>3. CASE r \in OfListed
  <2>1. PICK c \in Listed : r \in When(Shown(o, p, c), Lists(o, p, c))
    BY <1>3 DEF OfListed
  <2>2. Shown(o, p, c) /\ r = Lists(o, p, c)
    BY <2>1 DEF When
  <2>3. r.kind = c /\ (r.met <=> o.value[c] \in p.wanted[c])
    BY <2>2 DEF Lists, Reason
  <2>4. o.value[c] # Unknown
    BY <2>2 DEF Shown
  <2>5. QED
    BY <2>3, <2>4
<1>4. CASE r \in OfTexts
  <2>1. PICK c \in Texts : r \in When(c \in p.texts /\ o.rank[c] > 0, Reason(c, TRUE))
    BY <1>4 DEF OfTexts
  <2>2. r = Reason(c, TRUE)
    BY <2>1 DEF When
  <2>3. QED
    BY <2>2 DEF Reason
<1>5. CASE r \in When(p.salary /\ o.high # "unknown", Reason("SALARY", o.high = "above"))
  <2>1. o.high # "unknown" /\ r = Reason("SALARY", o.high = "above")
    BY <1>5 DEF When
  <2>2. r.kind = "SALARY" /\ (r.met <=> o.high = "above")
    BY <2>1 DEF Reason
  <2>3. QED
    BY <2>1, <2>2
<1>6. CASE \/ r \in When(InCity(o, p), Reason("city", TRUE))
           \/ r \in When(InCountry(o, p) /\ ~InCity(o, p), Reason("country", TRUE))
           \/ r \in When(p.required /\ o.required, Reason("required", TRUE))
           \/ r \in When(o.followed, Reason("followed", TRUE))
  <2>1. \E kind \in {"city", "country", "required", "followed"} : r = Reason(kind, TRUE)
    BY <1>6 DEF When
  <2>2. QED
    BY <2>1 DEF Reason
<1>7. QED
  BY <1>1, <1>3, <1>4, <1>5, <1>6
-----------------------------------------------------------------------------
(* Sums over sets.                                                          *)

\* What is said of the subsets of a finite set is said of all of them, if one it is not said
\* of always has a smaller one.
LEMMA SmallestSubset ==
    ASSUME NEW S, IsFiniteSet(S), NEW Bad \in SUBSET SUBSET S,
           \A s \in Bad : \E t \in Bad : t \subseteq s /\ t # s
    PROVE Bad = {}
<1>1. SUFFICES ASSUME Bad # {} PROVE FALSE
  OBVIOUS
<1>2. IsWellFoundedOn(StrictSubsetOrdering(S), SUBSET S)
  <2>1. FiniteSubsetsOf(S) = SUBSET S
    BY FS_FiniteSubsetsOfFinite
  <2>2. QED
    BY <2>1, FS_StrictSubsetOrderingWellFounded
<1>3. PICK s \in Bad : \A t \in Bad : <<t, s>> \notin StrictSubsetOrdering(S)
  BY <1>1, <1>2, WFMin
<1>4. PICK t \in Bad : t \subseteq s /\ t # s
  BY <1>3
<1>5. <<t, s>> \in StrictSubsetOrdering(S)
  BY <1>4 DEF StrictSubsetOrdering
<1>6. QED
  BY <1>3, <1>5

\* g sums up w over the subsets of S, as a fold does: a member of each set first, then the
\* rest of it.
First(s) == CHOOSE x \in s : TRUE
Sums(g, w, S) ==
    g = [s \in SUBSET S |-> IF s = {} THEN 0 ELSE w[First(s)] + g[s \ {First(s)}]]

\* The member counted first is one of the set.
LEMMA FirstOf ==
    \A s : s # {} => First(s) \in s
BY DEF First


\* A set of numbers that is not empty has a least one.
LEMMA LeastNumber ==
    ASSUME NEW S \in SUBSET Nat, S # {}
    PROVE \E x \in S : \A y \in S : x =< y
<1> DEFINE Less == {ss \in Nat \X Nat : ss[1] < ss[2]}
<1>1. IsWellFoundedOn(Less, Nat)
  BY NatLessThanWellFounded, Zenon DEF OpToRel
<1>2. PICK x \in S : \A y \in S : <<y, x>> \notin Less
  <2> HIDE DEF Less
  <2>1. QED
    BY <1>1, WFMin
<1>3. ASSUME NEW y \in S
      PROVE x =< y
  <2>1. x \in Nat /\ y \in Nat /\ ~(y < x)
    BY <1>2
  <2>2. QED
    BY <2>1
<1>4. QED
  BY <1>3

\* The rest of a set is smaller by one.
LEMMA RestIsSmaller ==
    ASSUME NEW S, IsFiniteSet(S), NEW s \in SUBSET S, s # {}
    PROVE /\ First(s) \in s /\ s \ {First(s)} \in SUBSET S
          /\ s \ {First(s)} \subseteq s /\ s \ {First(s)} # s
          /\ Cardinality(s) \in Nat /\ Cardinality(s \ {First(s)}) = Cardinality(s) - 1
<1>1. First(s) \in s
  BY FirstOf
<1>2. IsFiniteSet(s)
  BY FS_Subset
<1>3. Cardinality(s) \in Nat /\ Cardinality(s \ {First(s)}) = Cardinality(s) - 1
  BY <1>1, <1>2, FS_CardinalityType, FS_RemoveElement
<1>4. QED
  BY <1>1, <1>3

\* There is such a sum: one that is right of the subsets of up to n members gives one that
\* is right of those of up to n + 1.
LEMMA SumsExist ==
    ASSUME NEW S, IsFiniteSet(S), NEW w
    PROVE \E g : Sums(g, w, S)
<1> DEFINE Of(g, s) == IF s = {} THEN 0 ELSE w[First(s)] + g[s \ {First(s)}]
           Right(g, n) == \A s \in SUBSET S : Cardinality(s) <= n => g[s] = Of(g, s)
           Bad == {n \in Nat : ~\E g : Right(g, n)}
<1>1. 0 \notin Bad
  <2> DEFINE g == [s \in SUBSET S |-> 0]
  <2>1. ASSUME NEW s \in SUBSET S, Cardinality(s) <= 0
        PROVE s = {}
    <3>1. IsFiniteSet(s) /\ Cardinality(s) \in Nat
      BY FS_Subset, FS_CardinalityType
    <3>2. Cardinality(s) = 0
      BY <2>1, <3>1
    <3>3. QED
      BY <3>1, <3>2, FS_EmptySet
  <2>2. Right(g, 0)
    BY <2>1
  <2>3. QED
    BY <2>2
<1>2. ASSUME NEW n \in Nat, n \notin Bad
      PROVE n + 1 \notin Bad
  <2>1. PICK g : Right(g, n)
    BY <1>2
  <2> DEFINE h == [s \in SUBSET S |-> Of(g, s)]
  <2>2. ASSUME NEW s \in SUBSET S, Cardinality(s) <= n + 1
        PROVE h[s] = Of(h, s)
    <3>1. CASE s = {}
      BY <3>1
    <3>2. CASE s # {}
      <4>1. s \ {First(s)} \in SUBSET S /\ Cardinality(s \ {First(s)}) <= n
        BY <2>2, <3>2, RestIsSmaller
      <4>2. g[s \ {First(s)}] = h[s \ {First(s)}]
        BY <2>1, <4>1
      <4>3. h[s] = w[First(s)] + g[s \ {First(s)}]
        BY <3>2
      <4> HIDE DEF h
      <4>4. QED
        BY <3>2, <4>2, <4>3
    <3>3. QED
      BY <3>1, <3>2
  <2> HIDE DEF h
  <2>3. Right(h, n + 1)
    BY <2>2
  <2>4. QED
    BY <2>3
<1>3. Bad = {}
  <2>1. SUFFICES ASSUME Bad # {} PROVE FALSE
    OBVIOUS
  <2>2. PICK n \in Bad : \A m \in Bad : n =< m
    <3> HIDE DEF Bad
    <3>1. Bad \in SUBSET Nat
      BY DEF Bad
    <3>2. QED
      BY <2>1, <3>1, LeastNumber
  <2>3. n \in Nat /\ n # 0
    BY <1>1
  <2>4. n - 1 \in Nat /\ n - 1 \notin Bad /\ (n - 1) + 1 = n
    <3> HIDE DEF Bad
    <3>1. QED
      BY <2>2, <2>3
  <2> HIDE DEF Bad
  <2>5. QED
    BY <1>2, <2>4
<1>4. PICK g : Right(g, Cardinality(S))
  BY <1>3, FS_CardinalityType
<1> DEFINE h == [s \in SUBSET S |-> g[s]]
<1>5. ASSUME NEW s \in SUBSET S
      PROVE h[s] = Of(h, s)
  <2>1. Cardinality(s) <= Cardinality(S)
    BY FS_Subset
  <2>2. g[s] = Of(g, s)
    BY <1>4, <2>1
  <2>3. QED
    BY <2>2, RestIsSmaller
<1>6. Sums(h, w, S)
  BY <1>5 DEF Sums
<1>7. QED
  BY <1>6

\* A sum of numbers is a number, and at least none of what is counted is negative.
LEMMA SumsAreNumbers ==
    ASSUME NEW S, IsFiniteSet(S), NEW w, NEW g, Sums(g, w, S),
           \A x \in S : w[x] \in Nat
    PROVE \A s \in SUBSET S : g[s] \in Nat
<1> DEFINE Bad == {s \in SUBSET S : g[s] \notin Nat}
<1>1. ASSUME NEW s \in Bad
      PROVE \E t \in Bad : t \subseteq s /\ t # s
  <2>1. s \in SUBSET S /\ g[s] \notin Nat
    OBVIOUS
  <2>2. g[s] = IF s = {} THEN 0 ELSE w[First(s)] + g[s \ {First(s)}]
    BY <2>1 DEF Sums
  <2>3. s # {}
    BY <2>1, <2>2
  <2> DEFINE t == s \ {First(s)}
  <2>4. t \in SUBSET S /\ t \subseteq s /\ t # s /\ w[First(s)] \in Nat
    BY <2>1, <2>3, RestIsSmaller
  <2>5. g[t] \notin Nat
    BY <2>1, <2>2, <2>3, <2>4
  <2>6. QED
    BY <2>4, <2>5
<1>2. Bad = {}
  <2>1. Bad \in SUBSET SUBSET S
    OBVIOUS
  <2> HIDE DEF Bad
  <2>2. QED
    BY <1>1, <2>1, SmallestSubset
<1>3. QED
  BY <1>2

\* It does not matter which member is counted first.
LEMMA SumsTakeAny ==
    ASSUME NEW S, IsFiniteSet(S), NEW w, NEW g, Sums(g, w, S),
           \A x \in S : w[x] \in Nat, NEW u \in SUBSET S, NEW z \in u
    PROVE g[u] = w[z] + g[u \ {z}]
<1> DEFINE Bad == {s \in SUBSET S : \E x \in s : g[s] # w[x] + g[s \ {x}]}
<1>1. ASSUME NEW s \in Bad
      PROVE \E t \in Bad : t \subseteq s /\ t # s
  <2>1. PICK x \in s : g[s] # w[x] + g[s \ {x}]
    OBVIOUS
  <2> DEFINE y == First(s)
  <2>2. s \in SUBSET S /\ y \in s
    BY RestIsSmaller
  <2> HIDE DEF y
  <2>3. g[s] = w[y] + g[s \ {y}]
    BY <2>1, <2>2 DEF Sums, y
  <2>4. x # y
    BY <2>1, <2>3
  <2> DEFINE sx == s \ {x}
             sy == s \ {y}
             both == s \ {x, y}
  <2>5. sx \in SUBSET S /\ sy \in SUBSET S /\ y \in sx /\ x \in sy
        /\ sx \ {y} = both /\ sy \ {x} = both /\ both \in SUBSET S
    BY <2>1, <2>2, <2>4
  <2>6. sx \subseteq s /\ sx # s /\ sy \subseteq s /\ sy # s
    BY <2>1, <2>2
  <2>7. SUFFICES ASSUME sx \notin Bad, sy \notin Bad PROVE FALSE
    BY <2>6
  <2>8. g[sx] = w[y] + g[both] /\ g[sy] = w[x] + g[both]
    <3> HIDE DEF sx, sy, both
    <3>1. QED
      BY <2>5, <2>7
  <2>9. g[both] \in Nat /\ w[x] \in Nat /\ w[y] \in Nat
    BY <2>2, <2>5, SumsAreNumbers
  <2>10. g[s] = w[y] + (w[x] + g[both]) /\ g[sx] = w[y] + g[both]
    BY <2>3, <2>8
  <2>11. g[s] = w[x] + g[sx]
    <3> HIDE DEF sx, sy, both, Bad
    <3>1. QED
      BY <2>9, <2>10
  <2>12. QED
    BY <2>1, <2>11
<1>2. Bad = {}
  <2>1. Bad \in SUBSET SUBSET S
    OBVIOUS
  <2> HIDE DEF Bad
  <2>2. QED
    BY <1>1, <2>1, SmallestSubset
<1>3. QED
  BY <1>2

\* Of two sums over the same members, the one of the smaller numbers is the smaller.
LEMMA SumsCompare ==
    ASSUME NEW S, IsFiniteSet(S), NEW w, NEW g, Sums(g, w, S), \A x \in S : w[x] \in Nat,
           NEW T, IsFiniteSet(T), NEW v, NEW h, Sums(h, v, T), \A x \in T : v[x] \in Nat,
           NEW U \in SUBSET S, U \subseteq T, \A x \in U : w[x] <= v[x]
    PROVE g[U] <= h[U]
<1> DEFINE Bad == {s \in SUBSET U : ~(g[s] <= h[s])}
<1>1. ASSUME NEW s \in Bad
      PROVE \E t \in Bad : t \subseteq s /\ t # s
  <2>1. s \in SUBSET U /\ s \in SUBSET S /\ s \in SUBSET T /\ ~(g[s] <= h[s])
    OBVIOUS
  <2>2. /\ g[s] = IF s = {} THEN 0 ELSE w[First(s)] + g[s \ {First(s)}]
        /\ h[s] = IF s = {} THEN 0 ELSE v[First(s)] + h[s \ {First(s)}]
    BY <2>1 DEF Sums
  <2>3. s # {}
    BY <2>1, <2>2
  <2> DEFINE x == First(s)
             t == s \ {First(s)}
  <2>4. x \in U /\ t \in SUBSET U /\ t \in SUBSET S /\ t \in SUBSET T /\ t \subseteq s /\ t # s
    BY <2>1, <2>3, RestIsSmaller
  <2>5. w[x] \in Nat /\ v[x] \in Nat /\ w[x] <= v[x] /\ g[t] \in Nat /\ h[t] \in Nat
    <3> HIDE DEF x, t
    <3>1. QED
      BY <2>4, SumsAreNumbers
  <2>6. g[s] = w[x] + g[t] /\ h[s] = v[x] + h[t]
    BY <2>2, <2>3
  <2>7. ~(g[t] <= h[t])
    <3> HIDE DEF x, t, Bad
    <3>1. QED
      BY <2>1, <2>5, <2>6
  <2>8. QED
    BY <2>4, <2>7
<1>2. Bad = {}
  <2>1. Bad \in SUBSET SUBSET U /\ IsFiniteSet(U)
    BY FS_Subset
  <2> HIDE DEF Bad
  <2>2. QED
    BY <1>1, <2>1, SmallestSubset
<1>3. QED
  BY <1>2

\* Two sums of the same numbers are the same.
LEMMA SumsAgree ==
    ASSUME NEW S, IsFiniteSet(S), NEW w, NEW g, Sums(g, w, S), \A x \in S : w[x] \in Nat,
           NEW T, IsFiniteSet(T), NEW v, NEW h, Sums(h, v, T), \A x \in T : v[x] \in Nat,
           NEW U \in SUBSET S, U \subseteq T, \A x \in U : w[x] = v[x]
    PROVE g[U] = h[U]
<1>1. g[U] \in Nat /\ h[U] \in Nat
  BY SumsAreNumbers
<1>2. \A x \in U : w[x] <= v[x] /\ v[x] <= w[x]
  OBVIOUS
<1>3. g[U] <= h[U]
  BY <1>2, SumsCompare
<1>4. h[U] <= g[U]
  <2>1. U \in SUBSET T /\ U \subseteq S
    OBVIOUS
  <2>2. QED
    BY <1>2, <2>1, SumsCompare
<1>5. QED
  BY <1>1, <1>3, <1>4
-----------------------------------------------------------------------------
\* There are finitely many criteria.
LEMMA CriteriaFinite == IsFiniteSet(Criteria)
<1> DEFINE list == <<"DOMAIN", "SENIORITY", "EMPLOYMENT_TYPE", "REMOTE_TYPE", "INDUSTRY", "TITLE",
                     "KEYWORDS", "MOTIVATION", "RESUME", "LOCATION", "SALARY", "FRESHNESS">>
           f == [i \in 1 .. 12 |-> list[i]]
<1>1. IsFiniteSet(1 .. 12)
  <2>1. \A a, b \in Int : IsFiniteSet(a .. b)
    BY FS_Interval
  <2>2. 1 \in Int /\ 12 \in Int
    OBVIOUS
  <2>3. QED
    BY <2>1, <2>2
<1>2. Criteria = {list[i] : i \in 1 .. 12}
  BY DEF Criteria, Listed, Texts
<1>3. f \in Surjection(1 .. 12, Criteria)
  <2> HIDE DEF list
  <2>1. QED
    BY <1>2 DEF Surjection
<1>4. QED
  <2> HIDE DEF f
  <2>1. QED
    BY <1>1, <1>3, FS_Surjection

\* The points of an offer on each criterion, and those it could have.
EarnedBy(o, p) == [c \in Criteria |-> Earned(o, p, c)]
CeilingOf(o, p) == [c \in Criteria |-> Ceiling(o, p, c)]

\* And on some criteria together.
EarnedOn(o, p, S) == MapThenSumSet(LAMBDA c : Earned(o, p, c), S)
CeilingOn(o, p, S) == MapThenSumSet(LAMBDA c : Ceiling(o, p, c), S)

\* What the score adds up are such sums.
LEMMA EarnedAddsUp ==
    ASSUME NEW o, NEW p, NEW S \in SUBSET Criteria
    PROVE \E g : Sums(g, EarnedBy(o, p), S) /\ EarnedOn(o, p, S) = g[S]
<1> DEFINE Step(g) == [s \in SUBSET S |-> IF s = {} THEN 0
                                 ELSE Earned(o, p, First(s)) + g[s \ {First(s)}]]
           it == CHOOSE g : g = Step(g)
<1>1. EarnedOn(o, p, S) = it[S]
  BY DEF EarnedOn, MapThenSumSet, MapThenFoldSet, First
<1>2. \A g : Sums(g, EarnedBy(o, p), S) <=> g = Step(g)
  <2>1. \A s \in SUBSET S : s # {} => EarnedBy(o, p)[First(s)] = Earned(o, p, First(s))
    BY FirstOf DEF EarnedBy
  <2>2. QED
    BY <2>1 DEF Sums
<1>3. IsFiniteSet(S)
  BY CriteriaFinite, FS_Subset
<1>4. \E g : g = Step(g)
  BY <1>2, <1>3, SumsExist
<1>5. it = Step(it)
  <2> HIDE DEF Step
  <2>1. QED
    BY <1>4
<1>6. QED
  <2> HIDE DEF it, Step
  <2>1. QED
    BY <1>1, <1>2, <1>5

\* And what it could have added up.
LEMMA CeilingAddsUp ==
    ASSUME NEW o, NEW p, NEW S \in SUBSET Criteria
    PROVE \E g : Sums(g, CeilingOf(o, p), S) /\ CeilingOn(o, p, S) = g[S]
<1> DEFINE Step(g) == [s \in SUBSET S |-> IF s = {} THEN 0
                                 ELSE Ceiling(o, p, First(s)) + g[s \ {First(s)}]]
           it == CHOOSE g : g = Step(g)
<1>1. CeilingOn(o, p, S) = it[S]
  BY DEF CeilingOn, MapThenSumSet, MapThenFoldSet, First
<1>2. \A g : Sums(g, CeilingOf(o, p), S) <=> g = Step(g)
  <2>1. \A s \in SUBSET S : s # {} => CeilingOf(o, p)[First(s)] = Ceiling(o, p, First(s))
    BY FirstOf DEF CeilingOf
  <2>2. QED
    BY <2>1 DEF Sums
<1>3. IsFiniteSet(S)
  BY CriteriaFinite, FS_Subset
<1>4. \E g : g = Step(g)
  BY <1>2, <1>3, SumsExist
<1>5. it = Step(it)
  <2> HIDE DEF Step
  <2>1. QED
    BY <1>4
<1>6. QED
  <2> HIDE DEF it, Step
  <2>1. QED
    BY <1>1, <1>2, <1>5

-----------------------------------------------------------------------------
(* The points. *)

\* Profiles and offers are what they are said to be; a criterion is worth something.
LEMMA Worth ==
    ASSUME NEW p \in Profiles, NEW c \in Criteria
    PROVE /\ Multiple(p, c) \in 0 .. 4 /\ Base[c] \in 0 .. 40 /\ Hit(p, c) \in Nat
          /\ c = "LOCATION" => Hit(p, c) = 120 * Multiple(p, c)
<1>1. p.weights[c] \in {"IGNORED", "NICE_TO_HAVE", "NORMAL", "ESSENTIAL"}
  BY DEF Profiles, Multiplier
<1>2. Multiple(p, c) \in {0, 1, 2, 4}
  BY <1>1 DEF Multiple, Multiplier
<1>3. Base[c] \in {40, 35, 30, 25, 20, 15, 10} /\ (c = "LOCATION" => Base[c] = 30)
  BY DEF Base, Criteria, Listed, Texts
<1>4. Hit(p, c) = 4 * Base[c] * Multiple(p, c)
  BY DEF Hit, Points
<1>5. QED
  BY <1>2, <1>3, <1>4

\* Dividing a number that is not negative.
LEMMA Divides ==
    ASSUME NEW n \in Nat, NEW d \in Nat \ {0}
    PROVE n \div d \in Nat /\ d * (n \div d) <= n /\ n < d * (n \div d) + d
OBVIOUS

\* An offer earns no fraction of a point, and none is taken from it.
LEMMA EarnedIsNumber ==
    ASSUME NEW o \in Offers, NEW p \in Profiles, NEW c \in Criteria, Counts(p, c)
    PROVE Earned(o, p, c) \in Nat /\ Ceiling(o, p, c) \in Nat
<1>1. Hit(p, c) \in Nat /\ Multiple(p, c) \in Nat
  BY Worth
<1>2. Ceiling(o, p, c) \in Nat
  BY <1>1 DEF Ceiling
<1>3. CASE c \in Listed
  BY <1>1, <1>2, <1>3 DEF Earned, Listed, Texts
<1>4. CASE c = "TITLE"
  BY <1>1, <1>2, <1>4 DEF Earned, Listed
<1>5. CASE c \in Texts \ {"TITLE"}
  <2>1. o.rank[c] \in 0 .. 2
    BY <1>5 DEF Offers
  <2>2. Hit(p, c) * o.rank[c] \in Nat
    BY <1>1, <2>1
  <2>3. Earned(o, p, c) = (Hit(p, c) * o.rank[c]) \div 2
    BY <1>5 DEF Earned, Listed, Texts
  <2>4. QED
    BY <1>2, <2>2, <2>3, Divides
<1>6. CASE c = "LOCATION"
  <2>1. Multiple(p, "LOCATION") \in Nat
    BY <1>1, <1>6
  <2>2. LocationEarned(o, p) \in Nat
    BY <2>1 DEF LocationEarned, Points
  <2>3. Earned(o, p, c) = LocationEarned(o, p)
    BY <1>6 DEF Earned, Listed, Texts
  <2>4. QED
    BY <1>2, <2>2, <2>3
<1>7. CASE c = "SALARY"
  BY <1>1, <1>2, <1>7 DEF Earned, Listed, Texts
<1>8. CASE c = "FRESHNESS"
  <2>1. p.maxAge = 2
    BY <1>8 DEF Counts, Filled, Listed, Texts, Profiles
  <2>2. o.age \in {-1, 0, 3, 9}
    BY DEF Offers
  <2> DEFINE ages == {0, 2 * p.maxAge - o.age}
  <2>3. Max(ages) \in Nat
    <3>1. \E x \in ages : \A y \in ages : x >= y
      BY <2>1, <2>2
    <3>2. Max(ages) \in ages /\ \A y \in ages : Max(ages) >= y
      <4> HIDE DEF ages
      <4>1. QED
        BY <3>1 DEF Max
    <3>3. \A y \in ages : y \in Int
      BY <2>1, <2>2
    <3>4. Max(ages) \in Int /\ Max(ages) >= 0
      BY <3>2, <3>3
    <3> HIDE DEF ages
    <3>5. QED
      BY <3>4
  <2>4. Hit(p, c) * Max(ages) \in Nat /\ 2 * p.maxAge \in Nat \ {0}
    <3> HIDE DEF ages
    <3>1. QED
      BY <1>1, <2>1, <2>3
  <2>5. Earned(o, p, c) = IF o.age < 0 THEN 0 ELSE (Hit(p, c) * Max(ages)) \div (2 * p.maxAge)
    BY <1>8 DEF Earned, Listed, Texts
  <2> HIDE DEF ages
  <2>6. QED
    BY <1>2, <2>4, <2>5, Divides
<1>9. QED
  BY <1>2, <1>3, <1>4, <1>5, <1>6, <1>7, <1>8 DEF Criteria

-----------------------------------------------------------------------------
(* The score. *)

\* The criteria that count.
Counted(p) == {c \in Criteria : Counts(p, c)}
Percent(e, k) == IF k = 0 THEN 0 ELSE (200 * e + k) \div (2 * k)

Cut(o, p) == IF Capped(o, p) THEN EssentialMissCeiling ELSE 100

\* With what is added to both for the keywords required and for the companies followed.
Earns(o, p, followsAny) ==
    EarnedOn(o, p, Counted(p)) + (IF p.required /\ o.required THEN Points(30, 2) ELSE 0)
                               + (IF followsAny /\ o.followed THEN Points(8, 2) ELSE 0)
Could(o, p, followsAny) ==
    CeilingOn(o, p, Counted(p)) + (IF p.required THEN Points(30, 2) ELSE 0)
                                + (IF followsAny THEN Points(8, 2) ELSE 0)

\* The score: a percentage, cut at a hundred and at a cap.
Least(x, y) == Min({100, x, y})

\* The score is the least of a hundred, a percentage and a cap.
LEMMA ScoreIs ==
    ASSUME NEW o, NEW p, NEW followsAny
    PROVE Score(o, p, followsAny)
            = Least(Percent(Earns(o, p, followsAny), Could(o, p, followsAny)), Cut(o, p))
BY Zenon DEF Score, Rateable, Least, Percent, Cut, Earns, Could, EarnedOn, CeilingOn, Counted

\* What a percentage is taken of is the same sum.
LEMMA RateableIs == \A o, p, f : Rateable(o, p, f) = Could(o, p, f)
BY Zenon DEF Rateable, Could, CeilingOn, Counted


\* The weights of a sum over criteria that count are numbers.
LEMMA NumbersToAdd ==
    ASSUME NEW o \in Offers, NEW p \in Profiles, NEW S \in SUBSET Counted(p)
    PROVE /\ S \in SUBSET Criteria /\ IsFiniteSet(S)
          /\ \A c \in S : EarnedBy(o, p)[c] \in Nat /\ CeilingOf(o, p)[c] \in Nat
          /\ \A c \in S : EarnedBy(o, p)[c] = Earned(o, p, c) /\ CeilingOf(o, p)[c] = Ceiling(o,
                 p, c)
<1>1. S \in SUBSET Criteria /\ \A c \in S : Counts(p, c)
  BY DEF Counted
<1>2. IsFiniteSet(S)
  BY <1>1, CriteriaFinite, FS_Subset
<1>3. \A c \in S : EarnedBy(o, p)[c] = Earned(o, p, c) /\ CeilingOf(o, p)[c] = Ceiling(o, p, c)
  BY <1>1 DEF EarnedBy, CeilingOf
<1>4. \A c \in S : Earned(o, p, c) \in Nat /\ Ceiling(o, p, c) \in Nat
  BY <1>1, EarnedIsNumber
<1>5. QED
  BY <1>1, <1>2, <1>3, <1>4

\* What is earned and what could be are numbers.
LEMMA NumbersEarned ==
    ASSUME NEW o \in Offers, NEW p \in Profiles, NEW S \in SUBSET Counted(p)
    PROVE EarnedOn(o, p, S) \in Nat /\ CeilingOn(o, p, S) \in Nat
<1>1. /\ S \in SUBSET Criteria /\ IsFiniteSet(S)
      /\ \A c \in S : EarnedBy(o, p)[c] \in Nat /\ CeilingOf(o, p)[c] \in Nat
  BY NumbersToAdd
<1>2. PICK g : Sums(g, EarnedBy(o, p), S) /\ EarnedOn(o, p, S) = g[S]
  BY <1>1, EarnedAddsUp
<1>3. PICK h : Sums(h, CeilingOf(o, p), S) /\ CeilingOn(o, p, S) = h[S]
  BY <1>1, CeilingAddsUp
<1>4. g[S] \in Nat
  BY <1>1, <1>2, SumsAreNumbers
<1>5. h[S] \in Nat
  BY <1>1, <1>3, SumsAreNumbers
<1>6. QED
  BY <1>2, <1>3, <1>4, <1>5

\* Two offers that earn the same on each of some criteria earn the same on all of them.
LEMMA SameEarned ==
    ASSUME NEW o \in Offers, NEW p \in Profiles, NEW oo \in Offers, NEW pp \in Profiles,
           NEW S \in SUBSET Counted(p), S \subseteq Counted(pp),
           \A d \in S : Earned(o, p, d) = Earned(oo, pp, d) /\ Ceiling(o, p, d) = Ceiling(oo, pp, d)
    PROVE EarnedOn(o, p, S) = EarnedOn(oo, pp, S) /\ CeilingOn(o, p, S) = CeilingOn(oo, pp, S)
<1>1. /\ S \in SUBSET Criteria /\ IsFiniteSet(S)
      /\ \A c \in S : EarnedBy(o, p)[c] \in Nat /\ CeilingOf(o, p)[c] \in Nat
      /\ \A c \in S : EarnedBy(o, p)[c] = Earned(o, p, c) /\ CeilingOf(o, p)[c] = Ceiling(o, p, c)
  BY NumbersToAdd
<1>2. /\ \A c \in S : EarnedBy(oo, pp)[c] \in Nat /\ CeilingOf(oo, pp)[c] \in Nat
      /\ \A c \in S : EarnedBy(oo, pp)[c] = Earned(oo, pp, c)
                      /\ CeilingOf(oo, pp)[c] = Ceiling(oo, pp, c)
  BY NumbersToAdd
<1>3. /\ \A c \in S : EarnedBy(o, p)[c] = EarnedBy(oo, pp)[c]
      /\ \A c \in S : CeilingOf(o, p)[c] = CeilingOf(oo, pp)[c]
  BY <1>1, <1>2
<1>4. EarnedOn(o, p, S) = EarnedOn(oo, pp, S)
  <2>1. PICK g : Sums(g, EarnedBy(o, p), S) /\ EarnedOn(o, p, S) = g[S]
    BY <1>1, EarnedAddsUp
  <2>2. PICK h : Sums(h, EarnedBy(oo, pp), S) /\ EarnedOn(oo, pp, S) = h[S]
    BY <1>1, EarnedAddsUp
  <2>3. g[S] = h[S]
    BY <1>1, <1>2, <1>3, <2>1, <2>2, SumsAgree
  <2>4. QED
    BY <2>1, <2>2, <2>3
<1>5. CeilingOn(o, p, S) = CeilingOn(oo, pp, S)
  <2>1. PICK g : Sums(g, CeilingOf(o, p), S) /\ CeilingOn(o, p, S) = g[S]
    BY <1>1, CeilingAddsUp
  <2>2. PICK h : Sums(h, CeilingOf(oo, pp), S) /\ CeilingOn(oo, pp, S) = h[S]
    BY <1>1, CeilingAddsUp
  <2>3. g[S] = h[S]
    BY <1>1, <1>2, <1>3, <2>1, <2>2, SumsAgree
  <2>4. QED
    BY <2>1, <2>2, <2>3
<1>6. QED
  BY <1>4, <1>5

\* A criterion can be counted apart.
LEMMA CountedApart ==
    ASSUME NEW o \in Offers, NEW p \in Profiles, NEW S \in SUBSET Counted(p), NEW c \in S
    PROVE /\ EarnedOn(o, p, S) = Earned(o, p, c) + EarnedOn(o, p, S \ {c})
          /\ CeilingOn(o, p, S) = Ceiling(o, p, c) + CeilingOn(o, p, S \ {c})
<1> DEFINE R == S \ {c}
<1>1. /\ S \in SUBSET Criteria /\ IsFiniteSet(S)
      /\ \A d \in S : EarnedBy(o, p)[d] \in Nat /\ CeilingOf(o, p)[d] \in Nat
      /\ \A d \in S : EarnedBy(o, p)[d] = Earned(o, p, d) /\ CeilingOf(o, p)[d] = Ceiling(o, p, d)
  BY NumbersToAdd
<1>2. R \in SUBSET Criteria /\ IsFiniteSet(R) /\ R \subseteq S /\ R \in SUBSET S
      /\ \A d \in R : EarnedBy(o, p)[d] \in Nat /\ CeilingOf(o, p)[d] \in Nat
  BY <1>1, FS_Subset
<1> HIDE DEF R
<1>3. EarnedOn(o, p, S) = Earned(o, p, c) + EarnedOn(o, p, R)
  <2>1. PICK g : Sums(g, EarnedBy(o, p), S) /\ EarnedOn(o, p, S) = g[S]
    BY <1>1, EarnedAddsUp
  <2>2. PICK h : Sums(h, EarnedBy(o, p), R) /\ EarnedOn(o, p, R) = h[R]
    BY <1>2, EarnedAddsUp
  <2>3. g[R] = h[R]
    BY <1>1, <1>2, <2>1, <2>2, SumsAgree
  <2>4. g[S] = EarnedBy(o, p)[c] + g[R]
    <3>1. S \in SUBSET S /\ c \in S
      OBVIOUS
    <3> DEFINE w == EarnedBy(o, p)
    <3>2. Sums(g, w, S) /\ IsFiniteSet(S) /\ \A d \in S : w[d] \in Nat
      BY <1>1, <2>1
    <3> HIDE DEF w
    <3>3. g[S] = w[c] + g[S \ {c}]
      BY <3>1, <3>2, SumsTakeAny, SMTT(30)
    <3>4. QED
      BY <3>3 DEF R, w
  <2>5. QED
    BY <1>1, <2>1, <2>2, <2>3, <2>4
<1>4. CeilingOn(o, p, S) = Ceiling(o, p, c) + CeilingOn(o, p, R)
  <2>1. PICK g : Sums(g, CeilingOf(o, p), S) /\ CeilingOn(o, p, S) = g[S]
    BY <1>1, CeilingAddsUp
  <2>2. PICK h : Sums(h, CeilingOf(o, p), R) /\ CeilingOn(o, p, R) = h[R]
    BY <1>2, CeilingAddsUp
  <2>3. g[R] = h[R]
    BY <1>1, <1>2, <2>1, <2>2, SumsAgree
  <2>4. g[S] = CeilingOf(o, p)[c] + g[R]
    <3>1. S \in SUBSET S /\ c \in S
      OBVIOUS
    <3> DEFINE w == CeilingOf(o, p)
    <3>2. Sums(g, w, S) /\ IsFiniteSet(S) /\ \A d \in S : w[d] \in Nat
      BY <1>1, <2>1
    <3> HIDE DEF w
    <3>3. g[S] = w[c] + g[S \ {c}]
      BY <3>1, <3>2, SumsTakeAny, SMTT(30)
    <3>4. QED
      BY <3>3 DEF R, w
  <2>5. QED
    BY <1>1, <2>1, <2>2, <2>3, <2>4
<1>5. QED
  BY <1>3, <1>4 DEF R
-----------------------------------------------------------------------------
(* Percentages. *)

\* A quotient is at least what can be taken out.
LEMMA TakenOut ==
    ASSUME NEW n \in Nat, NEW d \in Nat \ {0}, NEW m \in Int, d * m <= n
    PROVE m <= n \div d
<1> DEFINE q == n \div d
<1>1. q \in Nat /\ n < d * q + d
  BY Divides
<1> HIDE DEF q
<1>2. SUFFICES ASSUME m >= q + 1 PROVE FALSE
  BY <1>1 DEF q
<1>3. d * m >= d * (q + 1)
  BY <1>1, <1>2
<1>4. d * (q + 1) = d * q + d
  BY <1>1
<1>5. QED
  BY <1>1, <1>3, <1>4

\* A percentage, rounded to the nearest: no more than half a point above the exact one, and
\* the greatest such number.
LEMMA PercentIsNumber ==
    ASSUME NEW e \in Nat, NEW k \in Nat \ {0}
    PROVE /\ Percent(e, k) \in Nat /\ 2 * k * Percent(e, k) <= 200 * e + k
          /\ \A m \in Int : 2 * k * m <= 200 * e + k => m <= Percent(e, k)
<1> DEFINE n == 200 * e + k  d == 2 * k  q == n \div d
<1>1. n \in Nat /\ d \in Nat \ {0}
  OBVIOUS
<1>2. Percent(e, k) = q
  BY DEF Percent
<1>3. q \in Nat /\ d * q <= n /\ \A m \in Int : d * m <= n => m <= q
  <2> HIDE DEF n, d
  <2>1. QED
    BY <1>1, Divides, TakenOut
<1>4. QED
  <2> HIDE DEF q
  <2>1. QED
    BY <1>2, <1>3

\* A percentage of nothing is nothing.
LEMMA PercentIsNatural == \A e, k \in Nat : Percent(e, k) \in Nat
<1>1. \A e \in Nat : Percent(e, 0) = 0
  BY DEF Percent
<1>2. QED
  BY <1>1, PercentIsNumber

\* What is wanted and there raises a percentage, up to a hundred of them.
LEMMA HitHelps ==
    ASSUME NEW e \in Nat, NEW k \in Nat \ {0}, NEW h \in Nat,
           NEW m \in Nat, m <= 100, m <= Percent(e, k)
    PROVE m <= Percent(e + h, k + h)
<1> DEFINE q == Percent(e, k)
<1>1. q \in Nat /\ 2 * k * q <= 200 * e + k
  BY PercentIsNumber
<1>2. m <= q
  OBVIOUS
<1> HIDE DEF q
<1>3. k * m <= k * q
  BY <1>1, <1>2
<1>4. 2 * k * m <= 200 * e + k
  BY <1>1, <1>3
<1>5. h * m <= h * 100
  OBVIOUS
<1>6. 2 * (k + h) * m = 2 * k * m + 2 * (h * m)
  OBVIOUS
<1>7. 2 * (k + h) * m <= 200 * (e + h) + (k + h)
  <2> DEFINE a == 2 * k * m  b == h * m
  <2>1. a \in Int /\ b \in Int /\ a <= 200 * e + k /\ b <= h * 100
    BY <1>4, <1>5
  <2>2. 2 * (k + h) * m = a + 2 * b
    BY <1>6
  <2> HIDE DEF a, b
  <2>3. QED
    BY <2>1, <2>2
<1>8. e + h \in Nat /\ k + h \in Nat \ {0} /\ m \in Int
  OBVIOUS
<1>9. QED
  BY <1>7, <1>8, PercentIsNumber

\* What is said and not wanted lowers one.
LEMMA MissHurts ==
    ASSUME NEW e \in Nat, NEW k \in Nat \ {0}, NEW h \in Nat
    PROVE Percent(e, k + h) <= Percent(e, k)
<1> DEFINE q == Percent(e, k + h)
<1>1. k + h \in Nat \ {0}
  OBVIOUS
<1>2. q \in Nat /\ 2 * (k + h) * q <= 200 * e + (k + h)
  BY <1>1, PercentIsNumber
<1>3. Percent(e, k) \in Nat
  BY PercentIsNumber
<1> HIDE DEF q
<1>4. CASE q = 0
  BY <1>3, <1>4 DEF q
<1>5. CASE q # 0
  <2>1. h * q >= h * 1
    BY <1>2, <1>5
  <2>2. 2 * (k + h) * q = 2 * k * q + 2 * (h * q)
    BY <1>2
  <2>3. 2 * k * q <= 200 * e + k
    <3> DEFINE a == 2 * k * q  b == h * q
    <3>1. a \in Int /\ b \in Int /\ b >= h /\ a + 2 * b <= 200 * e + (k + h)
      BY <1>2, <2>1, <2>2
    <3> HIDE DEF a, b
    <3>2. a <= 200 * e + k
      BY <3>1
    <3>3. QED
      BY <3>2 DEF a
  <2>4. QED
    BY <1>2, <2>3, PercentIsNumber DEF q
<1>6. QED
  BY <1>4, <1>5

\* The least of a hundred, a percentage and a cap.
LEMMA LeastOfThree ==
    ASSUME NEW x \in Int, NEW y \in Int
    PROVE /\ Least(x, y) \in Int
          /\ Least(x, y) <= 100 /\ Least(x, y) <= x /\ Least(x, y) <= y
          /\ \A m \in Int : m <= 100 /\ m <= x /\ m <= y => m <= Least(x, y)
<1> DEFINE S == {100, x, y}
<1>1. \E z \in S : \A w \in S : z <= w
  <2>1. CASE 100 <= x /\ 100 <= y
    BY <2>1
  <2>2. CASE x <= 100 /\ x <= y
    BY <2>2
  <2>3. CASE y <= 100 /\ y <= x
    BY <2>3
  <2>4. QED
    BY <2>1, <2>2, <2>3
<1>2. Min(S) \in S /\ \A w \in S : Min(S) <= w
  <2> HIDE DEF S
  <2>1. QED
    BY <1>1 DEF Min
<1>3. QED
  BY <1>2 DEF Least
-----------------------------------------------------------------------------
(* An offer that says something else on one criterion, a profile that mutes it. *)
Said(o, c, x) == [o EXCEPT !.value[c] = x]
Muted(p, c) == [p EXCEPT !.weights[c] = "IGNORED"]

Wished == Listed \ {"REMOTE_TYPE"}

\* It is an offer, and like the first in everything else.
LEMMA SaidIs ==
    ASSUME NEW o \in Offers, NEW c \in Wished, NEW x \in Values \union {Unknown}
    PROVE /\ Said(o, c, x) \in Offers
          /\ Said(o, c, x).value[c] = x
          /\ \A d \in Listed \ {c} : Said(o, c, x).value[d] = o.value[d]
          /\ Said(o, c, x).rank = o.rank /\ Said(o, c, x).place = o.place
          /\ Said(o, c, x).low = o.low /\ Said(o, c, x).high = o.high
          /\ Said(o, c, x).foreign = o.foreign
          /\ Said(o, c, x).age = o.age /\ Said(o, c, x).required = o.required
          /\ Said(o, c, x).followed = o.followed
<1>1. o.value \in [Listed -> Values \union {Unknown}] /\ c \in Listed
  BY DEF Offers, Wished
<1>2. [o.value EXCEPT ![c] = x] \in [Listed -> Values \union {Unknown}]
  BY <1>1
<1>3. Said(o, c, x) = [o EXCEPT !.value = [o.value EXCEPT ![c] = x]]
  BY DEF Said
<1>4. QED
  BY <1>1, <1>2, <1>3 DEF Offers

\* It is a profile, and like the first in everything else.
LEMMA MutedIs ==
    ASSUME NEW p \in Profiles, NEW c \in Wished
    PROVE /\ Muted(p, c) \in Profiles
          /\ Muted(p, c).weights[c] = "IGNORED"
          /\ \A d \in Criteria \ {c} : Muted(p, c).weights[d] = p.weights[d]
          /\ Muted(p, c).wanted = p.wanted /\ Muted(p, c).texts = p.texts
          /\ Muted(p, c).places = p.places /\ Muted(p, c).relocates = p.relocates
          /\ Muted(p, c).salary = p.salary /\ Muted(p, c).currency = p.currency
          /\ Muted(p, c).maxAge = p.maxAge /\ Muted(p, c).required = p.required
          /\ Muted(p, c).excludes = p.excludes
<1>1. p.weights \in [Criteria -> DOMAIN Multiplier] /\ c \in Criteria
  BY DEF Profiles, Wished, Criteria
<1>2. "IGNORED" \in DOMAIN Multiplier
  BY DEF Multiplier
<1>3. [p.weights EXCEPT ![c] = "IGNORED"] \in [Criteria -> DOMAIN Multiplier]
  BY <1>1, <1>2
<1>4. Muted(p, c) = [p EXCEPT !.weights = [p.weights EXCEPT ![c] = "IGNORED"]]
  BY DEF Muted
<1>5. QED
  BY <1>1, <1>3, <1>4 DEF Profiles

\* On every other criterion it makes no difference.
LEMMA SameElsewhere ==
    ASSUME NEW o \in Offers, NEW p \in Profiles, NEW c \in Wished,
           NEW x \in Values \union {Unknown}, NEW d \in Criteria \ {c}
    PROVE /\ Counts(Muted(p, c), d) <=> Counts(p, d)
          /\ Earned(Said(o, c, x), p, d) = Earned(o, Muted(p, c), d)
          /\ Ceiling(Said(o, c, x), p, d) = Ceiling(o, Muted(p, c), d)
          /\ Misses(Said(o, c, x), p, d) <=> Misses(o, Muted(p, c), d)
<1> DEFINE oo == Said(o, c, x)
           pp == Muted(p, c)
<1>1. /\ oo.value["REMOTE_TYPE"] = o.value["REMOTE_TYPE"]
      /\ \A e \in Listed \ {c} : oo.value[e] = o.value[e]
      /\ oo.rank = o.rank /\ oo.place = o.place /\ oo.low = o.low /\ oo.high = o.high
      /\ oo.foreign = o.foreign
      /\ oo.age = o.age
  BY SaidIs DEF Wished, Listed
<1>2. /\ pp.weights[d] = p.weights[d]
      /\ pp.wanted = p.wanted /\ pp.texts = p.texts /\ pp.places = p.places
      /\ pp.relocates = p.relocates /\ pp.salary = p.salary /\ pp.currency = p.currency
      /\ pp.maxAge = p.maxAge
  BY MutedIs
<1> HIDE DEF oo, pp
<1>3. Multiple(pp, d) = Multiple(p, d) /\ Hit(pp, d) = Hit(p, d) /\ (Essential(pp, d) <=>
       Essential(p, d))
  BY <1>2 DEF Multiple, Hit, Essential
<1>4. Filled(pp, d) <=> Filled(p, d)
  BY <1>2 DEF Filled
<1>5. Counts(pp, d) <=> Counts(p, d)
  BY <1>3, <1>4 DEF Counts
<1>6. (InCity(oo, p) <=> InCity(o, pp)) /\ (InCountry(oo, p) <=> InCountry(o, pp))
      /\ (RemoteWillDo(oo, p) <=> RemoteWillDo(o, pp)) /\ (Priced(oo, p) <=> Priced(o, pp))
  BY <1>1, <1>2 DEF InCity, InCountry, RemoteWillDo, AcceptsRemote, Priced, Comparable
<1>7. Ceiling(oo, p, d) = Ceiling(o, pp, d)
  <2>1. CASE d \in Listed
    BY <1>1, <1>3, <2>1 DEF Ceiling, Listed
  <2>2. CASE d \notin Listed
    BY <1>1, <1>3, <1>6, <2>2, Zenon DEF Ceiling
  <2>3. QED
    BY <2>1, <2>2
<1>8. Earned(oo, p, d) = Earned(o, pp, d)
  <2>1. CASE d \in Listed
    BY <1>1, <1>2, <1>3, <2>1 DEF Earned, Listed, Texts
  <2>2. CASE d = "LOCATION"
    <3>1. LocationEarned(oo, p) = LocationEarned(o, pp)
      BY <1>1, <1>2, <1>3, <1>6, <2>2 DEF LocationEarned
    <3>2. Earned(oo, p, d) = LocationEarned(oo, p) /\ Earned(o, pp, d) = LocationEarned(o, pp)
      BY <2>2 DEF Earned, Listed, Texts
    <3>3. QED
      BY <3>1, <3>2
  <2>3. CASE d = "TITLE"
    BY <1>1, <1>3, <2>3 DEF Earned, Listed, Texts
  <2>4. CASE d \in Texts \ {"TITLE"}
    BY <1>1, <1>3, <2>4 DEF Earned, Listed, Texts
  <2>5. CASE d = "SALARY"
    BY <1>1, <1>3, <1>6, <2>5 DEF Earned, Listed, Texts, PaysEnough
  <2>6. CASE d = "FRESHNESS"
    BY <1>1, <1>2, <1>3, <2>6 DEF Earned, Listed, Texts
  <2>7. QED
    BY <2>1, <2>2, <2>3, <2>4, <2>5, <2>6 DEF Criteria
<1>9. Misses(oo, p, d) <=> Misses(o, pp, d)
  <2>1. d \in Listed => oo.value[d] = o.value[d]
    BY <1>1
  <2>2. Reachable(oo, p) <=> Reachable(o, pp)
    BY <1>6 DEF Reachable
  <2>3. QED
    BY <1>1, <1>2, <1>3, <1>5, <2>1, <2>2 DEF Misses
<1>10. QED
  BY <1>5, <1>7, <1>8, <1>9 DEF oo, pp

\* A muted criterion does not count, and is not missed.
LEMMA MutedOut ==
    ASSUME NEW o \in Offers, NEW p \in Profiles, NEW c \in Wished
    PROVE /\ ~Counts(Muted(p, c), c) /\ ~Misses(o, Muted(p, c), c)
          /\ Counted(Muted(p, c)) = Counted(p) \ {c}
<1>1. ~Counts(Muted(p, c), c)
  BY MutedIs DEF Counts, Multiple, Multiplier
<1>2. ~Misses(o, Muted(p, c), c)
  BY <1>1 DEF Misses
<1>3. ASSUME NEW d \in Criteria \ {c}
      PROVE Counts(Muted(p, c), d) <=> Counts(p, d)
  <2>1. PICK x : x \in Values \union {Unknown}
    OBVIOUS
  <2>2. QED
    BY <2>1, SameElsewhere
<1>4. QED
  BY <1>1, <1>2, <1>3 DEF Counted

\* What is earned and what could be, in all: what the muted profile makes of the offer, and
\* what the criterion adds if it counts.
LEMMA CountedWith ==
    ASSUME NEW o \in Offers, NEW p \in Profiles, NEW c \in Wished,
           NEW x \in Values \union {Unknown}
    PROVE LET oo == Said(o, c, x)  pp == Muted(p, c) IN
          /\ EarnedOn(oo, p, Counted(p)) = (IF Counts(p, c) THEN Earned(oo, p, c) ELSE 0)
                                           + EarnedOn(o, pp, Counted(pp))
          /\ CeilingOn(oo, p, Counted(p)) = (IF Counts(p, c) THEN Ceiling(oo, p, c) ELSE 0)
                                            + CeilingOn(o, pp, Counted(pp))
          /\ EarnedOn(o, pp, Counted(pp)) \in Nat /\ CeilingOn(o, pp, Counted(pp)) \in Nat
<1> DEFINE oo == Said(o, c, x)
           pp == Muted(p, c)
           U == Counted(pp)
<1>1. oo \in Offers /\ pp \in Profiles /\ U = Counted(p) \ {c} /\ c \in Criteria
  BY SaidIs, MutedIs, MutedOut DEF Wished, Criteria
<1>2. ASSUME NEW d \in U
      PROVE Earned(oo, p, d) = Earned(o, pp, d) /\ Ceiling(oo, p, d) = Ceiling(o, pp, d)
  <2>1. d \in Criteria \ {c}
    BY <1>1 DEF Counted
  <2>2. QED
    BY <2>1, SameElsewhere
<1> HIDE DEF oo, pp
<1>3. EarnedOn(oo, p, U) = EarnedOn(o, pp, U) /\ CeilingOn(oo, p, U) = CeilingOn(o, pp, U)
  <2>1. U \in SUBSET Counted(p) /\ U \subseteq Counted(pp)
    BY <1>1
  <2> HIDE DEF U
  <2>2. QED
    BY <1>1, <1>2, <2>1, SameEarned
<1>4. EarnedOn(o, pp, U) \in Nat /\ CeilingOn(o, pp, U) \in Nat
  BY <1>1, NumbersEarned
<1>5. CASE Counts(p, c)
  <2>1. c \in Counted(p) /\ Counted(p) \in SUBSET Counted(p)
    BY <1>1, <1>5 DEF Counted
  <2>2. /\ EarnedOn(oo, p, Counted(p)) = Earned(oo, p, c) + EarnedOn(oo, p, Counted(p) \ {c})
        /\ CeilingOn(oo, p, Counted(p)) = Ceiling(oo, p, c) + CeilingOn(oo, p, Counted(p) \ {c})
    BY <1>1, <2>1, CountedApart
  <2>3. QED
    BY <1>1, <1>3, <1>4, <1>5, <2>2 DEF oo, pp
<1>6. CASE ~Counts(p, c)
  <2>1. U = Counted(p)
    BY <1>1, <1>6 DEF Counted
  <2>2. QED
    BY <1>3, <1>4, <1>6, <2>1 DEF oo, pp
<1>7. QED
  BY <1>5, <1>6

\* One cap more can only be the criterion's.
LEMMA CutWith ==
    ASSUME NEW o \in Offers, NEW p \in Profiles, NEW c \in Wished,
           NEW x \in Values \union {Unknown}
    PROVE LET oo == Said(o, c, x)  pp == Muted(p, c) IN
          /\ Cut(o, pp) \in Int /\ Cut(oo, p) \in Int
          /\ Cut(oo, p) <= Cut(o, pp)
          /\ ~Misses(oo, p, c) => Cut(oo, p) = Cut(o, pp)
<1> DEFINE oo == Said(o, c, x)
           pp == Muted(p, c)
<1>1. \A d \in Criteria \ {c} : Misses(oo, p, d) <=> Misses(o, pp, d)
  BY SameElsewhere
<1>2. ~Misses(o, pp, c) /\ c \in Criteria
  BY MutedOut DEF Wished, Criteria
<1> HIDE DEF oo, pp
<1>3. Capped(o, pp) => Capped(oo, p)
  BY <1>1, <1>2 DEF Capped
<1>4. ~Misses(oo, p, c) /\ Capped(oo, p) => Capped(o, pp)
  BY <1>1, <1>2 DEF Capped
<1>5. QED
  BY <1>3, <1>4 DEF Cut, EssentialMissCeiling, oo, pp

\* The score an offer has if it says x on a criterion, and the one it has with the criterion
\* muted: the points of the second, and those of the criterion if it counts.
LEMMA ScoreWith ==
    ASSUME NEW o \in Offers, NEW p \in Profiles, NEW c \in Wished,
           NEW x \in Values \union {Unknown}, NEW f \in BOOLEAN
    PROVE LET e == Earns(o, Muted(p, c), f)  k == Could(o, Muted(p, c), f) IN
            /\ e \in Nat /\ k \in Nat
            /\ Score(o, Muted(p, c), f) = Least(Percent(e, k), Cut(o, Muted(p, c)))
            /\ Score(Said(o, c, x), p, f)
                = Least(Percent(e + (IF Counts(p, c) THEN Earned(Said(o, c, x), p, c) ELSE 0),
                                    k + (IF Counts(p, c) THEN Ceiling(Said(o, c, x), p, c) ELSE 0)),
                       Cut(Said(o, c, x), p))
<1> DEFINE oo == Said(o, c, x)
           pp == Muted(p, c)
           e == Earns(o, pp, f)
           k == Could(o, pp, f)
           earned == IF Counts(p, c) THEN Earned(oo, p, c) ELSE 0
           ceiling == IF Counts(p, c) THEN Ceiling(oo, p, c) ELSE 0
<1>1. oo \in Offers /\ pp \in Profiles /\ c \in Criteria
      /\ pp.required = p.required /\ oo.required = o.required /\ oo.followed = o.followed
  BY SaidIs, MutedIs DEF Wished, Criteria
<1>2. /\ EarnedOn(oo, p, Counted(p)) = earned + EarnedOn(o, pp, Counted(pp))
      /\ CeilingOn(oo, p, Counted(p)) = ceiling + CeilingOn(o, pp, Counted(pp))
      /\ EarnedOn(o, pp, Counted(pp)) \in Nat /\ CeilingOn(o, pp, Counted(pp)) \in Nat
  BY CountedWith
<1>3. earned \in Nat /\ ceiling \in Nat
  BY <1>1, EarnedIsNumber
<1>4. Points(30, 2) = 240 /\ Points(8, 2) = 64
  BY DEF Points
<1> HIDE DEF oo, pp, earned, ceiling
<1>5. e \in Nat /\ k \in Nat
  BY <1>2, <1>4 DEF Earns, Could
<1>6. Earns(oo, p, f) = e + earned /\ Could(oo, p, f) = k + ceiling
  BY <1>1, <1>2, <1>3, <1>4 DEF Earns, Could
<1> HIDE DEF e, k
<1>7. Score(o, pp, f) = Least(Percent(e, k), Cut(o, pp))
  BY ScoreIs DEF e, k
<1>8. Score(oo, p, f) = Least(Percent(e + earned, k + ceiling), Cut(oo, p))
  BY <1>6, ScoreIs
<1>9. QED
  BY <1>5, <1>7, <1>8, Zenon DEF oo, pp, e, k, earned, ceiling

\* What an offer does not say is as good as muted, what is wanted no worse than that, and
\* anything else no better where there is something else to rate it by.
LEMMA SaidAndMuted ==
    ASSUME NEW o \in Offers, NEW p \in Profiles, NEW c \in Wished,
           NEW x \in Values \union {Unknown}, Unknown \notin Values,
           NEW f \in BOOLEAN
    PROVE LET with  == Score(Said(o, c, x), p, f)
              muted == Score(o, Muted(p, c), f)
          IN /\ x = Unknown => with = muted
             /\ x \in p.wanted[c] => with >= muted
             /\ x \in Values \ p.wanted[c] /\ Rateable(o, Muted(p, c), f) > 0 => muted >= with
<1> DEFINE oo == Said(o, c, x)
           pp == Muted(p, c)
           earned == IF Counts(p, c) THEN Earned(oo, p, c) ELSE 0
           ceiling == IF Counts(p, c) THEN Ceiling(oo, p, c) ELSE 0
           cut == Cut(oo, p)
           uncut == Cut(o, pp)
<1>1. c \in Listed /\ c \in Criteria /\ p.wanted[c] \in SUBSET Values /\ oo.value[c] = x
  BY SaidIs DEF Wished, Criteria, Profiles
<1> DEFINE e == Earns(o, pp, f)
           k == Could(o, pp, f)
<1>2. /\ e \in Nat /\ k \in Nat
      /\ Score(o, pp, f) = Least(Percent(e, k), uncut)
      /\ Score(oo, p, f) = Least(Percent(e + earned, k + ceiling), cut)
  BY ScoreWith, Zenon
<1>14. Rateable(o, pp, f) = k
  BY RateableIs
<1> HIDE DEF e, k
<1>3. uncut \in Int /\ cut \in Int /\ cut <= uncut /\ (~Misses(oo, p, c) => cut = uncut)
  BY CutWith
<1>4. Hit(p, c) \in Nat
  BY <1>1, Worth
<1>5. Earned(oo, p, c) = IF x \in p.wanted[c] THEN Hit(p, c) ELSE 0
  BY <1>1 DEF Earned, Listed, Texts
<1>6. Ceiling(oo, p, c) = IF x = Unknown THEN 0 ELSE Hit(p, c)
  BY <1>1 DEF Ceiling, Listed
<1>7. x \in p.wanted[c] \union {Unknown} => ~Misses(oo, p, c)
  BY <1>1 DEF Misses, Listed
<1> HIDE DEF oo, pp, cut, uncut
<1>8. CASE x = Unknown
  <2>1. earned = 0 /\ ceiling = 0
    BY <1>1, <1>5, <1>6, <1>8
  <2>2. e + earned = e /\ k + ceiling = k /\ cut = uncut
    BY <1>2, <1>3, <1>7, <1>8, <2>1
  <2> HIDE DEF earned, ceiling
  <2>3. Score(oo, p, f) = Score(o, pp, f)
    BY <1>2, <2>2
  <2>4. QED
    BY <1>1, <1>8, <2>3 DEF oo, pp
<1> DEFINE h == IF Counts(p, c) THEN Hit(p, c) ELSE 0
           better == Percent(e + h, k + h)
           plain == Percent(e, k)
           worse == Percent(e, k + h)
<1>9. h \in Nat /\ e + h \in Nat /\ k + h \in Nat
  BY <1>2, <1>4
<1>10. better \in Nat /\ plain \in Nat /\ worse \in Nat
  <2> HIDE DEF h
  <2>1. QED
    BY <1>2, <1>9, PercentIsNatural
<1>11. CASE x \in p.wanted[c]
  <2>1. earned = h /\ ceiling = h /\ cut = uncut
    BY <1>1, <1>3, <1>5, <1>6, <1>7, <1>11
  <2> DEFINE m == Least(plain, uncut)
  <2>2. m \in Int /\ m <= 100 /\ m <= plain /\ m <= uncut
    <3> HIDE DEF better, plain, worse
    <3>1. plain \in Int /\ uncut \in Int
      BY <1>3, <1>10
    <3>2. QED
      BY <3>1, LeastOfThree
  <2>3. m <= better
    <3>1. CASE m < 0
      <4> HIDE DEF m, better
      <4>1. QED
        BY <1>10, <2>2, <3>1
    <3>4. CASE k = 0
      <4>1. plain = 0
        BY <3>4 DEF Percent
      <4> HIDE DEF m, better, plain
      <4>2. QED
        BY <1>10, <2>2, <4>1
    <3>2. CASE m >= 0 /\ k # 0
      <4> HIDE DEF m, h
      <4>1. m \in Nat
        BY <2>2, <3>2
      <4>2. QED
        BY <1>2, <1>9, <2>2, <3>2, <4>1, HitHelps
    <3>3. QED
      <4> HIDE DEF m, better
      <4>1. QED
        BY <2>2, <3>1, <3>2, <3>4
  <2>4. m <= Least(better, uncut)
    <3> HIDE DEF m, better
    <3>1. QED
      BY <1>3, <1>10, <2>2, <2>3, LeastOfThree
  <2>5. Score(oo, p, f) = Least(better, uncut) /\ Score(o, pp, f) = m
    <3> HIDE DEF earned, ceiling, h
    <3>1. QED
      BY <1>2, <2>1
  <2>6. Least(better, uncut) \in Int
    <3> HIDE DEF better
    <3>1. QED
      BY <1>3, <1>10, LeastOfThree
  <2>7. Score(oo, p, f) >= Score(o, pp, f)
    <3> HIDE DEF m, better
    <3>1. QED
      BY <2>2, <2>4, <2>5, <2>6
  <2>8. QED
    BY <1>1, <1>11, <2>7 DEF oo, pp
<1>12. CASE x \in Values \ p.wanted[c] /\ k > 0
  <2>1. earned = 0 /\ ceiling = h
    BY <1>5, <1>6, <1>12
  <2>2. worse <= plain
    <3> HIDE DEF h
    <3>1. QED
      BY <1>2, <1>9, <1>12, MissHurts
  <2> DEFINE m == Least(worse, cut)
  <2>3. m \in Int /\ m <= 100 /\ m <= worse /\ m <= cut
    <3> HIDE DEF better, plain, worse
    <3>1. worse \in Int /\ cut \in Int
      BY <1>3, <1>10
    <3>2. QED
      BY <3>1, LeastOfThree
  <2>4. m <= Least(plain, uncut) /\ Least(plain, uncut) \in Int
    <3> HIDE DEF m, better, plain, worse
    <3>1. m <= plain /\ m <= uncut /\ m \in Int /\ m <= 100
      BY <1>3, <1>10, <2>2, <2>3
    <3>2. plain \in Int /\ uncut \in Int
      BY <1>3, <1>10
    <3>3. QED
      BY <3>1, <3>2, LeastOfThree
  <2>5. Score(oo, p, f) = m /\ Score(o, pp, f) = Least(plain, uncut)
    <3>1. e + earned = e
      BY <1>2, <2>1
    <3> HIDE DEF earned, ceiling, h
    <3>2. QED
      BY <1>2, <2>1, <3>1
  <2>6. Score(o, pp, f) >= Score(oo, p, f)
    <3> HIDE DEF m, plain
    <3>1. QED
      BY <2>3, <2>4, <2>5
  <2>7. QED
    BY <1>12, <2>6 DEF oo, pp
<1>13. QED
  BY <1>8, <1>11, <1>12, <1>14 DEF pp

\* Every offer has a score, be it meant or not.
LEMMA ScoreIsNumber ==
    ASSUME NEW o \in Offers, NEW p \in Profiles, NEW followsAny \in BOOLEAN
    PROVE Score(o, p, followsAny) \in Int
<1> DEFINE e == Earns(o, p, followsAny)
           k == Could(o, p, followsAny)
<1>1. EarnedOn(o, p, Counted(p)) \in Nat /\ CeilingOn(o, p, Counted(p)) \in Nat
  BY NumbersEarned
<1>2. Points(30, 2) = 240 /\ Points(8, 2) = 64
  BY DEF Points
<1>3. e \in Nat /\ k \in Nat
  BY <1>1, <1>2 DEF Earns, Could
<1>4. Percent(e, k) \in Int
  <2>1. CASE k = 0
    <3> HIDE DEF e, k
    <3>1. QED
      BY <2>1 DEF Percent
  <2>2. CASE k # 0
    <3> HIDE DEF e, k
    <3>1. QED
      BY <1>3, <2>2, PercentIsNumber
  <2>3. QED
    BY <2>1, <2>2
<1>5. Cut(o, p) \in Int
  BY DEF Cut, EssentialMissCeiling
<1>6. Score(o, p, followsAny) = Least(Percent(e, k), Cut(o, p))
  BY ScoreIs
<1> HIDE DEF e, k
<1>7. QED
  BY <1>4, <1>5, <1>6, LeastOfThree

\* A board to read.
Board(viewer, rows, query) ==
    /\ viewer \in Viewers /\ Table(rows)
    /\ query \in Queries(UNION {query.chosen[d] : d \in Dimensions})

-----------------------------------------------------------------------------
(* Facets. *)

\* A facet leaves out one dimension: its count is that of the query with one value of it.
LEMMA FacetCounts ==
    ASSUME NEW viewer, NEW rows, NEW query, Board(viewer, rows, query),
           NEW d \in Dimensions, NEW x
    PROVE {row \in Selected(viewer, rows, query, {d}) : x \in row.says[d]}
            = Selected(viewer, rows, [query EXCEPT !.chosen[d] = {x}], {})
<1> DEFINE names == UNION {query.chosen[e] : e \in Dimensions}
           only == [query EXCEPT !.chosen[d] = {x}]
<1>1. query \in Queries(names)
  BY DEF Board
<1> HIDE DEF names
<1>2. only = [query EXCEPT !.chosen = [query.chosen EXCEPT ![d] = {x}]]
  OBVIOUS
<1>3. query.chosen \in [Dimensions -> SUBSET names]
  BY <1>1 DEF Queries
<1>4. /\ only.closed = query.closed /\ only.statuses = query.statuses
      /\ only.saved = query.saved /\ only.tracked = query.tracked
      /\ only.followed = query.followed /\ only.onlyMatches = query.onlyMatches
      /\ only.minScore = query.minScore /\ only.maxScore = query.maxScore
      /\ only.paid = query.paid /\ only.since = query.since /\ only.searched = query.searched
      /\ only.chosen = [query.chosen EXCEPT ![d] = {x}]
  BY <1>1, <1>2 DEF Queries
<1>5. only.chosen[d] = {x} /\ \A e \in Dimensions \ {d} : only.chosen[e] = query.chosen[e]
  BY <1>3, <1>4
<1> HIDE DEF only
<1>6. \A row : Chosen(only, row, {}) <=> Chosen(query, row, {d}) /\ x \in row.says[d]
  BY <1>5 DEF Chosen
<1> DEFINE Kept(q, row) ==
               /\ q.closed \/ ~row.closed
               /\ q.statuses = {} \/ StatusOf(row) \in q.statuses
               /\ q.saved => Has(row, "saved")
               /\ q.tracked = "yes" => Has(row, "tracked")
               /\ q.tracked = "no" => ~Has(row, "tracked")
               /\ q.followed => row.offer.followed
               /\ ~row.excluded
               /\ q.onlyMatches => Passes(row.offer, viewer.profile)
               /\ HasScore(viewer.profile, viewer.followsAny) /\ q.minScore > 0
                     => RowScore(viewer, row) >= q.minScore
               /\ q.paid => row.pays
               /\ q.since # None => row.posted >= q.since
               /\ HasScore(viewer.profile, viewer.followsAny) /\ q.maxScore < 100
                     => RowScore(viewer, row) <= q.maxScore
               /\ q.searched => row.found
<1>k. \A q, skip : Selected(viewer, rows, q, skip)
                        = {row \in rows : Kept(q, row) /\ Chosen(q, row, skip)}
  BY DEF Selected
<1>e. \A row : Kept(only, row) <=> Kept(query, row)
  BY <1>4
<1> HIDE DEF Kept
<1>7. ASSUME NEW row \in rows
      PROVE  row \in Selected(viewer, rows, only, {})
                <=> row \in Selected(viewer, rows, query, {d}) /\ x \in row.says[d]
  <2>1. row \in Selected(viewer, rows, only, {}) <=> Kept(only, row) /\ Chosen(only, row, {})
    BY <1>k, Zenon
  <2>2. row \in Selected(viewer, rows, query, {d}) <=> Kept(query, row) /\ Chosen(query, row, {d})
    BY <1>k, Zenon
  <2>3. Chosen(only, row, {}) <=> Chosen(query, row, {d}) /\ x \in row.says[d]
    BY <1>6, Zenon
  <2>4. Kept(only, row) <=> Kept(query, row)
    BY <1>e, Zenon
  <2>5. QED
    BY <2>1, <2>2, <2>3, <2>4, Zenon
<1>8. Selected(viewer, rows, only, {}) \subseteq rows /\ Selected(viewer, rows, query, {d})
       \subseteq rows
  BY DEF Selected
<1>9. QED
  BY <1>7, <1>8 DEF only

\* So each count of a facet is that of the listing it leads to.
LEMMA FacetsAdd ==
    ASSUME NEW viewer, NEW rows, NEW query, Board(viewer, rows, query), NEW d \in Dimensions
    PROVE LET facet == Facet(viewer, rows, query, d)
          IN \A x \in DOMAIN facet :
                facet[x] = Cardinality(Selected(viewer, rows, [query EXCEPT !.chosen[d] = {x}], {}))
<1> DEFINE open == Selected(viewer, rows, query, {d})
           facet == Facet(viewer, rows, query, d)
<1>1. facet = [x \in UNION {row.says[d] : row \in open} |->
                    Cardinality({row \in open : x \in row.says[d]})]
  BY DEF Facet
<1>2. \A x \in DOMAIN facet : facet[x] = Cardinality({row \in open : x \in row.says[d]})
  <2> HIDE DEF facet, open
  <2>1. QED
    BY <1>1
<1>3. \A x : {row \in open : x \in row.says[d]}
                = Selected(viewer, rows, [query EXCEPT !.chosen[d] = {x}], {})
  BY FacetCounts
<1>4. QED
  <2> HIDE DEF facet, open
  <2>1. \A x \in DOMAIN facet :
            facet[x] = Cardinality(Selected(viewer, rows, [query EXCEPT !.chosen[d] = {x}], {}))
    BY <1>2, <1>3
  <2>2. QED
    BY <2>1 DEF facet
-----------------------------------------------------------------------------
(* Pages. *)

\* The rows that come before one, and how many they are.
Ahead(v, rows, q, row) == {other \in Selected(v, rows, q, {}) : Before(v, q, other, row)}
Rank(v, rows, q, row) == Cardinality(Ahead(v, rows, q, row))

\* A page is the rows whose ranks are on it.
LEMMA PageIs ==
    ASSUME NEW v, NEW rows, NEW q, NEW page, NEW limit
    PROVE Page(v, rows, q, page, limit)
            = {row \in Selected(v, rows, q, {}) :
                    Rank(v, rows, q, row) \in (page - 1) * limit .. page * limit - 1}
BY DEF Page, Rank, Ahead

\* Rows are ordered by two numbers.
LEMMA KeysAreNumbers ==
    ASSUME NEW v, NEW rows, NEW q, Board(v, rows, q), NEW row \in rows
    PROVE \E i, j \in Int : SortKey(v, q, row) = <<i, j>>
<1>1. row.posted \in Int /\ row.title \in Int /\ row.rank \in Int /\ row.offer \in Offers
  BY DEF Board, Table
<1>2. RowScore(v, row) \in Int
  BY <1>1, ScoreIsNumber DEF RowScore, Board, Viewers
<1>3. -RowScore(v, row) \in Int /\ -row.posted \in Int /\ -row.rank \in Int
  BY <1>1, <1>2
<1>4. SortKey(v, q, row) \in {<<-RowScore(v, row), -row.posted>>, <<-row.rank, -row.posted>>,
                              <<row.title, 0>>, <<-row.posted, 0>>}
  BY DEF SortKey
<1>5. QED
  BY <1>1, <1>3, <1>4

\* The order is strict and total.
LEMMA Ordered ==
    ASSUME NEW v, NEW rows, NEW q, Board(v, rows, q), NEW a \in rows, NEW b \in rows, NEW c \in rows
    PROVE /\ ~Before(v, q, a, a)
          /\ Before(v, q, a, b) /\ Before(v, q, b, c) => Before(v, q, a, c)
          /\ a # b => Before(v, q, a, b) \/ Before(v, q, b, a)
<1>1. PICK i, j \in Int : SortKey(v, q, a) = <<i, j>>
  BY KeysAreNumbers
<1>2. PICK k, l \in Int : SortKey(v, q, b) = <<k, l>>
  BY KeysAreNumbers
<1>3. PICK m, n \in Int : SortKey(v, q, c) = <<m, n>>
  BY KeysAreNumbers
<1>4. a.id \in Int /\ b.id \in Int /\ c.id \in Int /\ (a.id = b.id => a = b)
  BY DEF Board, Table
<1>5. Before(v, q, a, a) <=> i < i \/ (i = i /\ j < j) \/ (i = i /\ j = j /\ a.id < a.id)
  BY <1>1 DEF Before
<1>6. Before(v, q, a, b) <=> i < k \/ (i = k /\ j < l) \/ (i = k /\ j = l /\ a.id < b.id)
  BY <1>1, <1>2 DEF Before
<1>7. Before(v, q, b, a) <=> k < i \/ (k = i /\ l < j) \/ (k = i /\ l = j /\ b.id < a.id)
  BY <1>1, <1>2 DEF Before
<1>8. Before(v, q, b, c) <=> k < m \/ (k = m /\ l < n) \/ (k = m /\ l = n /\ b.id < c.id)
  BY <1>2, <1>3 DEF Before
<1>9. Before(v, q, a, c) <=> i < m \/ (i = m /\ j < n) \/ (i = m /\ j = n /\ a.id < c.id)
  BY <1>1, <1>3 DEF Before
<1>10. ~Before(v, q, a, a)
  BY <1>4, <1>5
<1>11. Before(v, q, a, b) /\ Before(v, q, b, c) => Before(v, q, a, c)
  BY <1>4, <1>6, <1>8, <1>9
<1>12. a # b => Before(v, q, a, b) \/ Before(v, q, b, a)
  BY <1>4, <1>6, <1>7
<1>13. QED
  BY <1>10, <1>11, <1>12

\* A rank is a number, no two rows have the same, and none is beyond the last.
LEMMA Ranked ==
    ASSUME NEW v, NEW rows, NEW q, Board(v, rows, q),
           NEW a \in Selected(v, rows, q, {}), NEW b \in Selected(v, rows, q, {})
    PROVE /\ IsFiniteSet(Selected(v, rows, q, {})) /\ Cardinality(rows) \in Nat
          /\ Rank(v, rows, q, a) \in Nat /\ Rank(v, rows, q, a) < Cardinality(rows)
          /\ Before(v, q, a, b) => Rank(v, rows, q, a) < Rank(v, rows, q, b)
          /\ a # b => Rank(v, rows, q, a) # Rank(v, rows, q, b)
<1> DEFINE all == Selected(v, rows, q, {})
           A == Ahead(v, rows, q, a)
           B == Ahead(v, rows, q, b)
<1>1. IsFiniteSet(rows) /\ all \in SUBSET rows
  BY DEF Board, Table, Selected
<1>2. A \in SUBSET all /\ B \in SUBSET all /\ A \in SUBSET rows /\ a \notin A
  <2>1. ~Before(v, q, a, a)
    BY <1>1, Ordered
  <2>2. QED
    BY <1>1, <2>1 DEF Ahead
<1> HIDE DEF all
<1>3. IsFiniteSet(all) /\ IsFiniteSet(A) /\ IsFiniteSet(B) /\ Cardinality(rows) \in Nat
      /\ Cardinality(A) \in Nat /\ Cardinality(B) \in Nat
  BY <1>1, <1>2, FS_Subset, FS_CardinalityType
<1>4. Cardinality(A) < Cardinality(rows)
  <2>1. a \in rows
    BY <1>1 DEF all
  <2>2. A # rows
    BY <1>2, <2>1
  <2> HIDE DEF A
  <2>3. Cardinality(A) <= Cardinality(rows) /\ (Cardinality(rows) = Cardinality(A) => rows = A)
    BY <1>1, <1>2, FS_Subset
  <2>4. QED
    BY <1>3, <2>2, <2>3
<1>5. ASSUME NEW x \in all, NEW y \in all, Before(v, q, x, y)
      PROVE Rank(v, rows, q, x) < Rank(v, rows, q, y)
  <2> DEFINE X == Ahead(v, rows, q, x)
             Y == Ahead(v, rows, q, y)
  <2>1. X \subseteq Y
    <3>1. ASSUME NEW z \in X PROVE z \in Y
      <4>1. z \in all /\ Before(v, q, z, x)
        BY DEF Ahead, all
      <4>2. Before(v, q, z, y)
        BY <1>1, <1>5, <4>1, Ordered
      <4>3. QED
        BY <4>1, <4>2 DEF Ahead, all
    <3>2. QED
      BY <3>1
  <2>2. x \in Y /\ x \notin X
    <3>1. ~Before(v, q, x, x)
      BY <1>1, Ordered
    <3>2. QED
      BY <1>5, <3>1 DEF Ahead, all
  <2>3. Y \in SUBSET all
    BY DEF Ahead, all
  <2> HIDE DEF X, Y
  <2>4. IsFiniteSet(Y) /\ X \in SUBSET Y /\ X # Y
    BY <1>3, <2>1, <2>2, <2>3, FS_Subset
  <2>5. IsFiniteSet(X) /\ Cardinality(X) <= Cardinality(Y) /\ Cardinality(X) # Cardinality(Y)
    BY <2>4, FS_Subset
  <2>6. Cardinality(X) \in Nat /\ Cardinality(Y) \in Nat
    BY <2>4, <2>5, FS_CardinalityType
  <2>7. QED
    BY <2>5, <2>6 DEF X, Y, Rank
<1>6. a \in all /\ b \in all
  BY DEF all
<1>7. Rank(v, rows, q, a) = Cardinality(A) /\ Rank(v, rows, q, b) = Cardinality(B)
  BY DEF Rank
<1>8. a # b => Before(v, q, a, b) \/ Before(v, q, b, a)
  BY <1>1, <1>6, Ordered
<1> HIDE DEF A, B
<1>9. a # b => Rank(v, rows, q, a) # Rank(v, rows, q, b)
  BY <1>3, <1>5, <1>6, <1>7, <1>8
<1>10. QED
  BY <1>3, <1>4, <1>5, <1>6, <1>7, <1>9 DEF all

\* The pages of a listing: every offer is on one, none on two, and a page holds two.
LEMMA PagesPart ==
    ASSUME NEW v, NEW rows, NEW q, Board(v, rows, q)
    PROVE LET all   == Selected(v, rows, q, {})
              At(k) == Page(v, rows, q, k, 2)
              pages == 1 .. Cardinality(rows)
          IN /\ UNION {At(k) : k \in pages} = all
             /\ \A k \in pages : Cardinality(At(k)) <= 2 /\ \A j \in pages \ {k} : At(j) \cap
                    At(k) = {}
<1> DEFINE all == Selected(v, rows, q, {})
           At(k) == Page(v, rows, q, k, 2)
           pages == 1 .. Cardinality(rows)
           R(row) == Rank(v, rows, q, row)
<1>1. \A k : At(k) = {row \in all : R(row) \in (k - 1) * 2 .. k * 2 - 1}
  BY PageIs
<1>2. \A a, b \in all : R(a) \in Nat /\ R(a) < Cardinality(rows) /\ (a # b => R(a) # R(b))
  BY Ranked
<1>3. IsFiniteSet(rows) /\ Cardinality(rows) \in Nat
  BY FS_CardinalityType DEF Board, Table
<1> HIDE DEF all, At, R
<1>4. UNION {At(k) : k \in pages} = all
  <2>1. ASSUME NEW row \in all
        PROVE \E k \in pages : row \in At(k)
    <3> DEFINE r == R(row)
               k == (r \div 2) + 1
    <3>1. r \in Nat /\ r < Cardinality(rows)
      BY <1>2
    <3> HIDE DEF r
    <3>2. k \in 1 .. Cardinality(rows) /\ r \in (k - 1) * 2 .. k * 2 - 1
      BY <1>3, <3>1
    <3> HIDE DEF k
    <3>3. row \in At(k)
      BY <1>1, <3>2 DEF r
    <3>4. QED
      BY <3>2, <3>3
  <2>2. QED
    BY <1>1, <2>1
<1>5. ASSUME NEW k \in pages, NEW j \in pages \ {k}
      PROVE At(j) \cap At(k) = {}
  <2>1. k \in Nat /\ j \in Nat /\ j # k
    BY <1>3
  <2>2. SUFFICES ASSUME NEW row \in At(j), row \in At(k) PROVE FALSE
    OBVIOUS
  <2>3. R(row) \in (k - 1) * 2 .. k * 2 - 1 /\ R(row) \in (j - 1) * 2 .. j * 2 - 1
    BY <1>1, <2>2
  <2>4. QED
    BY <2>1, <2>3
<1>6. ASSUME NEW k \in pages
      PROVE Cardinality(At(k)) <= 2
  <2> DEFINE f == [row \in At(k) |-> R(row)]
             places == (k - 1) * 2 .. k * 2 - 1
  <2>1. k \in Nat
    BY <1>3
  <2>2. IsFiniteSet(places) /\ Cardinality(places) = 2
    <3> DEFINE i == (k - 1) * 2  j == k * 2 - 1
    <3>1. i \in Int /\ j \in Int /\ i <= j /\ j - i + 1 = 2
      BY <2>1
    <3> HIDE DEF i, j
    <3>2. IsFiniteSet(i .. j) /\ Cardinality(i .. j) = 2
      BY <3>1, FS_Interval
    <3>3. QED
      BY <3>2 DEF i, j
  <2>3. \A row \in At(k) : R(row) \in places /\ row \in all
    BY <1>1
  <2> HIDE DEF places
  <2>4. f \in [At(k) -> places]
    BY <2>3
  <2>5. \A a, b \in At(k) : f[a] = f[b] => a = b
    BY <1>2, <2>3
  <2>6. f \in Injection(At(k), places)
    <3> HIDE DEF f
    <3>1. QED
      BY <2>4, <2>5 DEF Injection, IsInjective
  <2> HIDE DEF f
  <2>7. QED
    BY <2>2, <2>6, FS_Injection
<1>7. QED
  BY <1>4, <1>5, <1>6 DEF all, At
-----------------------------------------------------------------------------
(* The badge and the dashboard. *)
NewStrong ==
    [closed |-> FALSE, statuses |-> {"NEW"}, chosen |-> [d \in Dimensions |-> {}],
     saved |-> FALSE, tracked |-> "any", followed |-> FALSE, onlyMatches |-> TRUE,
     minScore |-> StrongFitScore, maxScore |-> 100, paid |-> FALSE, since |-> None,
     searched |-> FALSE, sort |-> "default"]

\* What the badge counts is listed.
LEMMA NewIsListed ==
    ASSUME NEW v, NEW rows
    PROVE CountNew(v, rows) \subseteq Selected(v, rows, NewStrong, {})
<1>1. SUFFICES ASSUME NEW row \in CountNew(v, rows) PROVE row \in Selected(v, rows, NewStrong, {})
  OBVIOUS
<1>2. /\ row \in rows /\ ~row.closed /\ row.interaction = None
      /\ Passes(row.offer, v.profile) /\ ~row.excluded
      /\ HasScore(v.profile, v.followsAny) => RowScore(v, row) >= StrongFitScore
  BY DEF CountNew
<1>3. StatusOf(row) = "NEW"
  BY <1>2 DEF StatusOf
<1>4. Chosen(NewStrong, row, {})
  BY DEF Chosen, NewStrong
<1>5. QED
  BY <1>2, <1>3, <1>4 DEF Selected, NewStrong

\* And is a strong match.
LEMMA NewIsStrong ==
    ASSUME NEW v, NEW rows, HasScore(v.profile, v.followsAny)
    PROVE CountNew(v, rows) \subseteq StrongMatches(v, rows)
<1>1. SUFFICES ASSUME NEW row \in CountNew(v, rows) PROVE row \in StrongMatches(v, rows)
  OBVIOUS
<1>2. /\ row \in rows /\ ~row.closed /\ row.interaction = None /\ ~row.excluded
      /\ RowScore(v, row) >= StrongFitScore
  BY DEF CountNew
<1>3. StatusOf(row) = "NEW" /\ ~Has(row, "saved") /\ ~Has(row, "tracked")
  BY <1>2 DEF StatusOf, Has
<1>4. Chosen(Strong, row, {})
  BY DEF Chosen, Strong, Ask
<1>5. row \in Selected(v, rows, Strong, {})
  BY <1>2, <1>3, <1>4 DEF Selected, Strong, Ask
<1>6. IsConfigured(v.profile)
  BY DEF HasScore
<1>7. QED
  BY <1>5, <1>6 DEF StrongMatches

\* The top match is the best of them.
LEMMA TopIsBest ==
    ASSUME NEW v, NEW rows, v \in Viewers, Table(rows), HasScore(v.profile, v.followsAny),
           NEW top \in TopMatches(v, rows, 1), NEW row \in StrongMatches(v, rows)
    PROVE RowScore(v, top) >= RowScore(v, row) /\ RowScore(v, top) >= StrongFitScore
<1> DEFINE all == Selected(v, rows, Strong, {})
<1>1. row \in all
  BY DEF StrongMatches
<1>2. top \in Page(v, rows, Strong, 1, 1)
  BY DEF TopMatches, Highlights
<1>3. top \in all /\ Rank(v, rows, Strong, top) \in (1 - 1) * 1 .. 1 * 1 - 1
  BY <1>2, PageIs
<1>4. Rank(v, rows, Strong, top) = 0
  BY <1>3
<1>5. Board(v, rows, Strong)
  <2> DEFINE names == UNION {Strong.chosen[d] : d \in Dimensions}
  <2>1. Strong.chosen \in [Dimensions -> SUBSET names]
    BY DEF Strong, Ask
  <2>2. Strong \in Queries(names)
    <3> HIDE DEF names
    <3>1. QED
      BY <2>1 DEF Strong, Ask, Queries, Statuses, Sorts, StrongFitScore
  <2>3. QED
    BY <2>2 DEF Board
<1>6. ~Before(v, Strong, row, top)
  <2>1. IsFiniteSet(all)
    BY <1>1, <1>5, Ranked
  <2>2. Ahead(v, rows, Strong, top) \in SUBSET all
    BY DEF Ahead
  <2> HIDE DEF all
  <2>3. IsFiniteSet(Ahead(v, rows, Strong, top))
    BY <2>1, <2>2, FS_Subset
  <2>4. Ahead(v, rows, Strong, top) = {}
    BY <1>4, <2>3, FS_EmptySet DEF Rank
  <2>5. QED
    BY <1>1, <2>4 DEF Ahead, all
<1>7. RowScore(v, top) >= StrongFitScore /\ top \in rows /\ row \in rows
  BY <1>1, <1>3 DEF Selected, Strong, Ask, StrongFitScore
<1>8. SortKey(v, Strong, row) = <<-RowScore(v, row), -row.posted>>
      /\ SortKey(v, Strong, top) = <<-RowScore(v, top), -top.posted>>
  BY DEF SortKey, SortBy, Strong, Ask
<1>9. RowScore(v, row) \in Int /\ RowScore(v, top) \in Int
  <2>1. row.offer \in Offers /\ top.offer \in Offers
    BY <1>7 DEF Table
  <2>2. QED
    BY <2>1, ScoreIsNumber DEF RowScore, Viewers
<1>10. ~(-RowScore(v, row) < -RowScore(v, top))
  BY <1>6, <1>8 DEF Before
<1>11. QED
  BY <1>7, <1>9, <1>10

\* No more answers than applications sent.
LEMMA RateIsLow ==
    ASSUME NEW applications, IsFiniteSet(applications), ResponseRate(applications) # None
    PROVE ResponseRate(applications) <= 100
<1> DEFINE out == EverSent(applications)
           back == {a \in applications : a.status \in Answered}
           sent == Cardinality(out)
           answered == Cardinality(back)
<1>1. out \in SUBSET applications /\ back \in SUBSET out
  BY DEF EverSent
<1> HIDE DEF out, back
<1>2. IsFiniteSet(out) /\ IsFiniteSet(back) /\ answered <= sent
  <2>1. IsFiniteSet(out)
    BY <1>1, FS_Subset
  <2>2. QED
    BY <1>1, <2>1, FS_Subset
<1>3. sent \in Nat /\ answered \in Nat
  BY <1>2, FS_CardinalityType
<1>4. ResponseRate(applications) = IF sent = 0 THEN None ELSE (200 * answered + sent) \div (2 *
       sent)
  BY DEF ResponseRate, out, back
<1> HIDE DEF sent, answered
<1>5. sent # 0
  BY <1>4
<1> DEFINE n == 200 * answered + sent
           d == 2 * sent
<1>6. n \in Nat /\ d \in Nat \ {0} /\ n < d * 101
  BY <1>2, <1>3, <1>5
<1> HIDE DEF n, d
<1>7. n \div d \in Nat /\ d * (n \div d) <= n
  BY <1>6, Divides
<1>8. n \div d <= 100
  <2> DEFINE q == n \div d
  <2> HIDE DEF q
  <2>1. SUFFICES ASSUME q >= 101 PROVE FALSE
    BY <1>7 DEF q
  <2>2. d * q >= d * 101
    BY <1>6, <1>7, <2>1 DEF q
  <2>3. d * q <= n /\ d * q \in Int
    BY <1>6, <1>7 DEF q
  <2>4. QED
    BY <1>6, <2>2, <2>3
<1>9. QED
  BY <1>4, <1>5, <1>8 DEF n, d
-----------------------------------------------------------------------------
(* The streak. *)

\* The runs of days that end on day i, by their lengths.
Runs(act, i) == {n \in 0 .. i : \A j \in 0 .. n - 1 : act[i - j] > 0}

\* A set of numbers up to i has a greatest.
LEMMA GreatestNumber ==
    ASSUME NEW i \in Nat, NEW S \in SUBSET (0 .. i), S # {}
    PROVE Max(S) \in S /\ \A y \in S : y <= Max(S)
<1> DEFINE T == {i - x : x \in S}
<1>1. T \in SUBSET Nat /\ T # {}
  <2>1. \A x \in S : i - x \in Nat
    OBVIOUS
  <2>2. QED
    BY <2>1
<1>2. PICK t \in T : \A u \in T : t <= u
  <2> HIDE DEF T
  <2>1. QED
    BY <1>1, LeastNumber
<1>3. PICK x \in S : t = i - x
  BY <1>2
<1>4. ASSUME NEW y \in S PROVE x >= y
  <2>1. i - x <= i - y
    BY <1>2, <1>3
  <2>2. x \in Int /\ y \in Int
    OBVIOUS
  <2>3. QED
    BY <2>1, <2>2
<1>5. Max(S) \in S /\ \A y \in S : Max(S) >= y
  BY <1>4 DEF Max
<1>6. QED
  BY <1>5

\* The longest of them is none on a day without activity, and otherwise one day longer than
\* the day before's.
LEMMA LongestRun ==
    ASSUME NEW n \in Nat, NEW act \in [1 .. n -> Nat], NEW i \in 0 .. n
    PROVE /\ Max(Runs(act, i)) \in 0 .. i
          /\ i = 0 => Max(Runs(act, i)) = 0
          /\ i > 0 /\ act[i] = 0 => Max(Runs(act, i)) = 0
          /\ i > 0 /\ act[i] > 0 => Max(Runs(act, i)) = 1 + Max(Runs(act, i - 1))
<1>1. ASSUME NEW k \in 0 .. n
      PROVE /\ Runs(act, k) \in SUBSET (0 .. k) /\ 0 \in Runs(act, k)
            /\ Max(Runs(act, k)) \in Runs(act, k)
            /\ \A y \in Runs(act, k) : y <= Max(Runs(act, k))
  <2>1. Runs(act, k) \in SUBSET (0 .. k) /\ 0 \in Runs(act, k) /\ k \in Nat
    BY DEF Runs
  <2>2. QED
    BY <2>1, GreatestNumber
<1>2. Max(Runs(act, i)) \in 0 .. i
  BY <1>1
<1>3. i = 0 => Max(Runs(act, i)) = 0
  BY <1>2
<1>4. ASSUME i > 0, act[i] = 0
      PROVE Max(Runs(act, i)) = 0
  <2> DEFINE m == Max(Runs(act, i))
  <2>1. m \in 0 .. i /\ m \in Runs(act, i)
    BY <1>1
  <2> HIDE DEF m
  <2>2. SUFFICES ASSUME m # 0 PROVE FALSE
    BY DEF m
  <2>3. 0 \in 0 .. m - 1 /\ i - 0 = i
    BY <2>1, <2>2
  <2>4. act[i] > 0
    BY <2>1, <2>3 DEF Runs
  <2>5. QED
    BY <1>4, <2>4
<1>5. ASSUME i > 0, act[i] > 0
      PROVE Max(Runs(act, i)) = 1 + Max(Runs(act, i - 1))
  <2> DEFINE m == Max(Runs(act, i))
             l == Max(Runs(act, i - 1))
  <2>1. i - 1 \in 0 .. n
    BY <1>5
  <2>2. m \in 0 .. i /\ m \in Runs(act, i) /\ \A y \in Runs(act, i) : y <= m
    BY <1>1
  <2>3. l \in Runs(act, i - 1) /\ \A y \in Runs(act, i - 1) : y <= l
    BY <1>1, <2>1
  <2>4. l \in 0 .. i - 1
    BY <1>1, <2>1
  <2> HIDE DEF m, l
  <2>5. 1 + l \in Runs(act, i)
    <3>1. 1 + l \in 0 .. i
      BY <2>4
    <3>2. ASSUME NEW j \in 0 .. (1 + l) - 1
          PROVE act[i - j] > 0
      <4>1. CASE j = 0
        BY <1>5, <4>1
      <4>2. CASE j # 0
        <5>1. j - 1 \in 0 .. l - 1 /\ (i - 1) - (j - 1) = i - j
          BY <2>4, <4>2
        <5>2. act[(i - 1) - (j - 1)] > 0
          BY <2>3, <5>1 DEF Runs
        <5>3. QED
          BY <5>1, <5>2
      <4>3. QED
        BY <4>1, <4>2
    <3>3. QED
      BY <3>1, <3>2 DEF Runs
  <2>6. m >= 1 + l
    BY <2>2, <2>4, <2>5
  <2>7. m - 1 \in Runs(act, i - 1)
    <3>1. m - 1 \in 0 .. i - 1
      BY <2>2, <2>4, <2>6
    <3>2. ASSUME NEW j \in 0 .. (m - 1) - 1
          PROVE act[(i - 1) - j] > 0
      <4>1. j + 1 \in 0 .. m - 1 /\ i - (j + 1) = (i - 1) - j
        BY <2>2
      <4>2. act[i - (j + 1)] > 0
        BY <2>2, <4>1 DEF Runs
      <4>3. QED
        BY <4>1, <4>2
    <3>3. QED
      BY <3>1, <3>2 DEF Runs
  <2>8. m - 1 <= l
    BY <2>3, <2>7
  <2>9. m = 1 + l
    BY <2>2, <2>4, <2>6, <2>8
  <2>10. QED
    BY <2>9 DEF m, l
<1>6. QED
  BY <1>2, <1>3, <1>4, <1>5

\* The streak is the longest run that ends today, or yesterday if nothing was done yet.
LEMMA StreakIs ==
    ASSUME NEW n \in Nat, NEW act \in [1 .. n -> Nat], Len(act) = n
    PROVE LET upTo == IF n > 0 /\ act[n] = 0 THEN n - 1 ELSE n
          IN StreakOf(act) = Max(Runs(act, upTo))
<1> DEFINE Step(b) == [i \in 0 .. n |->
                           IF i = 0 THEN 0
                           ELSE IF act[i] > 0 THEN 1 + b[i - 1]
                           ELSE IF i < n THEN 0 ELSE b[i - 1]]
           back == CHOOSE b : b = Step(b)
           longest(i) == Max(Runs(act, i))
           h == [i \in 0 .. n |-> IF i < n \/ i = 0 \/ act[i] > 0 THEN longest(i) ELSE longest(i
                  - 1)]
<1>1. StreakOf(act) = back[n]
  BY DEF StreakOf
<1>2. ASSUME NEW i \in 0 .. n
      PROVE /\ longest(i) \in 0 .. i
            /\ i = 0 => longest(i) = 0
            /\ i > 0 /\ act[i] = 0 => longest(i) = 0
            /\ i > 0 /\ act[i] > 0 => longest(i) = 1 + longest(i - 1)
  BY LongestRun
<1> HIDE DEF longest
<1>3. ASSUME NEW i \in 0 .. n
      PROVE h[i] = Step(h)[i]
  <2>1. CASE i = 0
    BY <1>2, <2>1
  <2>2. CASE i # 0
    <3>1. i - 1 \in 0 .. n /\ i - 1 < n /\ i > 0 /\ act[i] \in Nat
      BY <2>2
    <3>2. h[i - 1] = longest(i - 1)
      BY <3>1
    <3>3. h[i] = IF i < n \/ act[i] > 0 THEN longest(i) ELSE longest(i - 1)
      BY <2>2
    <3>4. Step(h)[i] = IF act[i] > 0 THEN 1 + longest(i - 1)
                       ELSE IF i < n THEN 0 ELSE longest(i - 1)
      <4> HIDE DEF h
      <4>1. QED
        BY <2>2, <3>2
    <3> HIDE DEF h, Step
    <3>5. QED
      BY <1>2, <3>1, <3>3, <3>4
  <2>3. QED
    BY <2>1, <2>2
<1>4. h = Step(h)
  <2>1. DOMAIN h = 0 .. n /\ h = [i \in 0 .. n |-> h[i]]
    OBVIOUS
  <2>2. Step(h) = [i \in 0 .. n |-> Step(h)[i]]
    <3> HIDE DEF h
    <3>1. QED
      OBVIOUS
  <2> HIDE DEF h, Step
  <2>3. QED
    BY <1>3, <2>1, <2>2
<1>5. back = Step(back)
  <2> HIDE DEF h, Step
  <2>1. QED
    BY <1>4
<1> DEFINE Bad == {i \in 0 .. n : back[i] # h[i]}
<1> HIDE DEF back
<1>6. 0 \notin Bad
  BY <1>2, <1>5
<1>7. ASSUME NEW i \in Bad
      PROVE i - 1 \in Bad
  <2>1. i \in 0 .. n /\ i # 0 /\ back[i] # h[i]
    BY <1>6
  <2>2. i - 1 \in 0 .. n
    BY <2>1
  <2>3. SUFFICES ASSUME back[i - 1] = h[i - 1] PROVE FALSE
    BY <2>2
  <2>4. \A b : Step(b)[i] = IF act[i] > 0 THEN 1 + b[i - 1] ELSE IF i < n THEN 0 ELSE b[i - 1]
    BY <2>1
  <2> HIDE DEF h, Step
  <2>5. back[i] = Step(back)[i] /\ h[i] = Step(h)[i]
    BY <1>4, <1>5
  <2>6. Step(back)[i] = Step(h)[i]
    BY <2>3, <2>4
  <2>7. QED
    BY <2>1, <2>5, <2>6
<1>8. Bad = {}
  <2>1. SUFFICES ASSUME Bad # {} PROVE FALSE
    OBVIOUS
  <2>2. Bad \in SUBSET Nat
    OBVIOUS
  <2> HIDE DEF Bad
  <2>3. PICK i \in Bad : \A j \in Bad : i <= j
    BY <2>1, <2>2, LeastNumber
  <2>4. i \in Nat /\ i <= i - 1
    BY <1>7, <2>2, <2>3
  <2>5. QED
    BY <2>4
<1>9. back[n] = h[n]
  <2>1. n \in 0 .. n
    OBVIOUS
  <2> HIDE DEF h
  <2>2. QED
    BY <1>8, <2>1
<1>10. act[n] \in Nat \/ n = 0
  OBVIOUS
<1>11. h[n] = longest(IF n > 0 /\ act[n] = 0 THEN n - 1 ELSE n)
  BY <1>10
<1>12. QED
  BY <1>1, <1>9, <1>11 DEF longest

\* And so it is on the dashboard.
LEMMA StreakShown ==
    ASSUME NEW days \in Nat, NEW applications, IsFiniteSet(applications)
    PROVE LET act  == Activity(applications, days)
              upTo == IF days > 0 /\ act[days] = 0 THEN days - 1 ELSE days
          IN StreakOf(act) = Max({n \in 0 .. upTo : \A i \in 0 .. n - 1 : act[upTo - i] > 0})
<1> DEFINE act == Activity(applications, days)
<1>1. act = [day \in 1 .. days |-> Cardinality({a \in applications : a.sent = day})]
  BY DEF Activity
<1>2. \A day \in 1 .. days : Cardinality({a \in applications : a.sent = day}) \in Nat
  <2>1. \A day : IsFiniteSet({a \in applications : a.sent = day})
    BY FS_Subset
  <2>2. QED
    BY <2>1, FS_CardinalityType
<1>3. act \in [1 .. days -> Nat]
  BY <1>1, <1>2
<1>4. Len(act) = days
  <2>1. act \in Seq(Nat)
    BY <1>3, SeqDef, Zenon
  <2>2. DOMAIN act = 1 .. days /\ DOMAIN act = 1 .. Len(act) /\ Len(act) \in Nat
    <3> HIDE DEF act
    <3>1. QED
      BY <1>3, <2>1
  <2> HIDE DEF act
  <2>3. QED
    BY <2>2
<1> HIDE DEF act
<1>5. LET upTo == IF days > 0 /\ act[days] = 0 THEN days - 1 ELSE days
      IN StreakOf(act) = Max(Runs(act, upTo))
  BY <1>3, <1>4, StreakIs
<1>6. QED
  BY <1>5, Zenon DEF Runs, act
-----------------------------------------------------------------------------
(* Boards are read page by page.                                            *)

\* Boards is instantiated in another module, whose counts are these.
LEMMA CountsAlike == \A S : L!Cardinality(S) = Cardinality(S)
BY DEF L!Cardinality, Cardinality

\* The page a posting is on.
LEMMA OnPage ==
    ASSUME NEW n \in Nat
    PROVE /\ n \div PAGE_SIZE \in Nat
          /\ PAGE_SIZE * (n \div PAGE_SIZE) <= n
          /\ n < PAGE_SIZE * (n \div PAGE_SIZE) + PAGE_SIZE
BY PagesAssumption

\* Page k + 1 starts with posting PAGE_SIZE * k + 1.
LEMMA StartsWith ==
    ASSUME NEW k \in Nat
    PROVE (PAGE_SIZE * k) \div PAGE_SIZE = k
BY PagesAssumption

\* And so it is of the numbers of the pages.
LEMMA LeastOf ==
    ASSUME NEW S \in SUBSET Nat, S # {}
    PROVE L!Min(S) \in S
BY LeastNumber DEF L!Min

\* Reading a board ends, at the last page it may ask for if not before.
LEMMA LastPageEnds ==
    ASSUME NEW adapter \in L!Adapters, NEW b
    PROVE /\ L!LastPage(adapter, b) \in 1 .. MAX_PAGES
          /\ L!Ends(adapter, b, L!LastPage(adapter, b))
<1> DEFINE ends == {p \in 1 .. MAX_PAGES : L!Ends(adapter, b, p)}
<1>1. L!Ends(adapter, b, MAX_PAGES)
  BY DEF L!Ends, L!Adapters
<1>2. MAX_PAGES \in 1 .. MAX_PAGES
  BY PagesAssumption
<1>3. ends \in SUBSET Nat /\ ends # {}
  BY <1>1, <1>2
<1>4. L!Min(ends) \in ends
  BY <1>3, LeastOf
<1>5. L!LastPage(adapter, b) = L!Min(ends)
  BY DEF L!LastPage
<1>6. QED
  BY <1>4, <1>5

\* The postings of the pages before a page, of a board none of whose pages goes wrong.
LEMMA ReadSoFar ==
    ASSUME NEW adapter \in L!Adapters \ {"once"}, NEW b \in L!Boards, b.bad = 0,
           adapter = "teamtailor" => ~b.flat,
           NEW p \in Nat \ {0}
    PROVE /\ L!Answer(adapter, b, p) = {i \in L!All(b) : (i - 1) \div PAGE_SIZE = p - 1}
          /\ L!Before(adapter, b, p) = {i \in L!All(b) : (i - 1) \div PAGE_SIZE < p - 1}
<1>1. ASSUME NEW q \in Nat \ {0}
      PROVE L!Answer(adapter, b, q) = {i \in L!All(b) : (i - 1) \div PAGE_SIZE = q - 1}
  <2>1. q # b.bad
    BY <1>1
  <2>2. QED
    BY <2>1 DEF L!Answer, L!Adapters
<1>2. ASSUME NEW i \in L!All(b)
      PROVE i \in L!Before(adapter, b, p) <=> (i - 1) \div PAGE_SIZE < p - 1
  <2>1. i - 1 \in Nat /\ (i - 1) \div PAGE_SIZE \in Nat
    <3>1. i \in Nat \ {0}
      BY DEF L!All
    <3>2. QED
      BY <3>1, OnPage
  <2>2. i \in L!Before(adapter, b, p) <=> \E q \in 1 .. p - 1 : i \in L!Answer(adapter, b, q)
    BY DEF L!Before
  <2>3. \A q \in 1 .. p - 1 : i \in L!Answer(adapter, b, q) <=> (i - 1) \div PAGE_SIZE = q - 1
    BY <1>1
  <2> DEFINE page == (i - 1) \div PAGE_SIZE
  <2>4. (\E q \in 1 .. p - 1 : page = q - 1) <=> page < p - 1
    <3> HIDE DEF page
    <3>1. page \in Nat
      BY <2>1 DEF page
    <3>2. page < p - 1 => page + 1 \in 1 .. p - 1 /\ page = (page + 1) - 1
      BY <3>1
    <3>3. \A q \in 1 .. p - 1 : page = q - 1 => page < p - 1
      BY <3>1
    <3>4. QED
      BY <3>2, <3>3
  <2>5. QED
    BY <2>2, <2>3, <2>4
<1>3. L!Before(adapter, b, p) \subseteq L!All(b)
  <2>1. \A q \in 1 .. p - 1 : L!Answer(adapter, b, q) \subseteq L!All(b)
    BY <1>1
  <2>2. QED
    BY <2>1 DEF L!Before
<1>4. QED
  BY <1>1, <1>2, <1>3

\* A page of postings that is empty is past the last of them, for they are in order.
LEMMA NothingBehind ==
    ASSUME NEW size \in Nat, NEW p \in Nat \ {0},
           \A i \in 1 .. size : (i - 1) \div PAGE_SIZE # p - 1
    PROVE \A i \in 1 .. size : (i - 1) \div PAGE_SIZE < p - 1
<1>1. SUFFICES ASSUME NEW i \in 1 .. size, (i - 1) \div PAGE_SIZE >= p - 1
               PROVE FALSE
  <2>1. \A i \in 1 .. size : (i - 1) \div PAGE_SIZE \in Nat
    BY OnPage
  <2>2. QED
    BY <1>1, <2>1
<1> DEFINE k == p - 1
           page == (i - 1) \div PAGE_SIZE
           j == PAGE_SIZE * k + 1
<1>2. /\ k \in Nat /\ page \in Nat /\ page >= k
      /\ PAGE_SIZE \in Nat \ {0} /\ i - 1 \in Nat
      /\ PAGE_SIZE * page <= i - 1
  BY <1>1, OnPage, PagesAssumption
<1>3. PAGE_SIZE * k \in Nat /\ PAGE_SIZE * k <= PAGE_SIZE * page
  <2> HIDE DEF k, page
  <2>1. PICK d \in Nat : page = k + d
    BY <1>2
  <2>2. PAGE_SIZE * page = PAGE_SIZE * k + PAGE_SIZE * d
    BY <1>2, <2>1
  <2>3. PAGE_SIZE * d \in Nat /\ PAGE_SIZE * k \in Nat
    BY <1>2
  <2>4. QED
    BY <2>2, <2>3
<1>4. j \in 1 .. size /\ j - 1 = PAGE_SIZE * k
  <2> DEFINE start == PAGE_SIZE * k
  <2>1. start \in Nat /\ start <= i - 1
    BY <1>2, <1>3
  <2> HIDE DEF start
  <2>2. start + 1 \in 1 .. size /\ (start + 1) - 1 = start
    BY <2>1
  <2>3. QED
    BY <2>2 DEF start
<1>5. (j - 1) \div PAGE_SIZE = k
  BY <1>2, <1>4, StartsWith
<1>6. QED
  BY <1>4, <1>5

\* The last page of a board that counts its postings, or says it has one page only: all of
\* it was read, or the adapter says that it stopped short.
LEMMA CapIsOwned ==
    ASSUME NEW adapter \in {"workday", "teamtailor"}, NEW b \in L!Boards, b.bad = 0, b.counts
    PROVE L!MarksPartial(adapter, b) \/ L!UpTo(adapter, b, L!LastPage(adapter, b)) = L!All(b)
<1> DEFINE last == L!LastPage(adapter, b)
<1>1. last \in Nat \ {0} /\ last <= MAX_PAGES /\ L!Ends(adapter, b, last)
  BY LastPageEnds, PagesAssumption DEF L!Adapters
<1> HIDE DEF last
<1>2. L!All(b) = 1 .. b.size /\ b.size \in Nat
  BY PagesAssumption DEF L!All, L!Boards
<1>3. CASE adapter = "teamtailor" /\ b.flat
  <2>1. \A p \in Nat \ {0} : L!Answer(adapter, b, p) = L!All(b)
    BY <1>3 DEF L!Answer
  <2>2. L!Before(adapter, b, last) \subseteq L!All(b)
    BY <1>1, <2>1 DEF L!Before
  <2>3. QED
    BY <1>1, <2>1, <2>2 DEF L!UpTo, last
<1>4. CASE ~(adapter = "teamtailor" /\ b.flat)
  <2>1. /\ L!Answer(adapter, b, last) = {i \in L!All(b) : (i - 1) \div PAGE_SIZE = last - 1}
        /\ L!Before(adapter, b, last) = {i \in L!All(b) : (i - 1) \div PAGE_SIZE < last - 1}
    BY <1>1, <1>4, ReadSoFar DEF L!Adapters
  <2>2. CASE L!Answer(adapter, b, last) = {}
    <3>1. \A i \in 1 .. b.size : (i - 1) \div PAGE_SIZE # last - 1
      BY <1>2, <2>1, <2>2
    <3>2. \A i \in 1 .. b.size : (i - 1) \div PAGE_SIZE < last - 1
      BY <1>1, <1>2, <3>1, NothingBehind
    <3>3. QED
      BY <1>2, <2>1, <2>2, <3>2 DEF L!UpTo, last
  <2>3. CASE L!Answer(adapter, b, last) # {} /\ adapter = "workday"
    <3> DEFINE read == L!UpTo(adapter, b, last)
    <3>1. read \in SUBSET L!All(b) /\ IsFiniteSet(L!All(b)) /\ Cardinality(L!All(b)) = b.size
      <4>1. read \subseteq L!All(b)
        BY <2>1 DEF L!UpTo
      <4>2. IsFiniteSet(1 .. b.size) /\ Cardinality(1 .. b.size) = b.size
        BY <1>2, FS_Interval
      <4>3. QED
        BY <1>2, <4>1, <4>2
    <3>2. L!Cardinality(read) = Cardinality(read)
      BY CountsAlike
    <3>3. Cardinality(read) \in Nat /\ Cardinality(read) <= b.size
          /\ (Cardinality(read) = b.size => read = L!All(b))
      <4> HIDE DEF read
      <4>1. QED
        BY <3>1, FS_Subset, FS_CardinalityType
    <3>4. L!Cardinality(read) >= b.size \/ last = MAX_PAGES
      BY <1>1, <2>3 DEF L!Ends
    <3>5. CASE L!Cardinality(read) >= b.size
      BY <1>2, <3>2, <3>3, <3>5 DEF last
    <3>6. CASE last = MAX_PAGES /\ ~(L!Cardinality(read) >= b.size)
      <4>1. b.size > L!Cardinality(read)
        <5> HIDE DEF read
        <5>1. QED
          BY <1>2, <3>2, <3>3, <3>6
      <4>2. QED
        BY <2>3, <3>6, <4>1 DEF L!MarksPartial, last
    <3>7. QED
      BY <3>4, <3>5, <3>6
  <2>4. CASE L!Answer(adapter, b, last) # {} /\ adapter = "teamtailor"
    <3>1. ~(L!Answer(adapter, b, last) \subseteq L!Before(adapter, b, last))
      <4>1. PICK i \in L!Answer(adapter, b, last) : TRUE
        BY <2>4
      <4>2. i \in L!All(b) /\ (i - 1) \div PAGE_SIZE = last - 1
        BY <2>1
      <4>3. ~((i - 1) \div PAGE_SIZE < last - 1)
        BY <1>1, <4>2
      <4>4. QED
        BY <2>1, <4>3
    <3>2. last = MAX_PAGES
      BY <1>1, <2>4, <3>1 DEF L!Ends
    <3>3. QED
      BY <2>4, <3>1, <3>2 DEF L!MarksPartial, last
  <2>5. QED
    BY <2>2, <2>3, <2>4
<1>5. QED
  BY <1>3, <1>4

\* A board of which nothing was read has nothing on it, or its first page went wrong.
LEMMA NothingRead ==
    ASSUME NEW adapter \in L!Adapters, NEW b \in L!Boards,
           L!UpTo(adapter, b, L!LastPage(adapter, b)) = {}
    PROVE b.size = 0 \/ b.bad = 1
<1> DEFINE last == L!LastPage(adapter, b)
<1>1. SUFFICES ASSUME b.size # 0, b.bad # 1
               PROVE FALSE
  OBVIOUS
<1>2. 1 \in L!All(b)
  <2>1. b.size \in Nat
    BY PagesAssumption DEF L!Boards
  <2>2. QED
    BY <1>1, <2>1 DEF L!All
<1>3. 1 \in L!Answer(adapter, b, 1)
  <2>1. 1 - 1 = 0 /\ 0 \div PAGE_SIZE = 0
    <3>1. PAGE_SIZE * 0 = 0
      BY PagesAssumption
    <3>2. QED
      BY <3>1, StartsWith
  <2>2. (1 - 1) \div PAGE_SIZE = 1 - 1
    BY <2>1
  <2>3. QED
    BY <1>1, <1>2, <2>2 DEF L!Answer
<1>4. last \in Nat /\ last >= 1
  BY LastPageEnds, PagesAssumption
<1>5. 1 \in L!UpTo(adapter, b, last)
  <2> HIDE DEF last
  <2>1. CASE last = 1
    BY <1>3, <2>1 DEF L!UpTo
  <2>2. CASE last # 1
    <3>1. 1 \in 1 .. last - 1
      BY <1>4, <2>2
    <3>2. QED
      BY <1>3, <3>1 DEF L!UpTo, L!Before
  <2>3. QED
    BY <2>1, <2>2
<1>6. QED
  BY <1>5

\* What the pipeline makes of a board says what was not read of it.
LEMMA DiscoveryOwnsUp ==
    ASSUME NEW adapter \in L!Adapters, NEW board \in L!Boards, NEW later \in L!Boards,
           NEW fast, NEW previous
    PROVE LET found == L!Discover(adapter, board, later, fast, previous)
              steady == board.bad = 0 /\ later = board
          IN /\ adapter \in {"workday", "teamtailor"} /\ board.counts /\ steady
                => found.partial \/ found.jobs = L!All(board)
             /\ found.jobs = {} /\ ~found.error
                => board.size = 0 \/ (board.bad = 1 /\ board.how = "null")
<1> DEFINE light == L!Fetch(adapter, board)
           full  == L!Fetch(adapter, later)
           again == fast /\ light.jobs # {} /\ light.jobs # previous
           jobs  == IF again /\ full.jobs # {} THEN full.jobs ELSE light.jobs
           found == L!Discover(adapter, board, later, fast, previous)
           last  == L!LastPage(adapter, board)
<1>1. /\ found.jobs = jobs
      /\ found.partial <=> jobs # {} /\ (light.partial \/ (again /\ full.partial))
      /\ found.error <=> jobs = {} /\ (light.failed \/ (again /\ full.failed))
  BY DEF L!Discover
<1>2. /\ light.failed <=> board.how = "throws" /\ board.bad \in 1 .. last
      /\ light.jobs = IF light.failed THEN {} ELSE L!UpTo(adapter, board, last)
      /\ light.partial <=> L!MarksPartial(adapter, board) /\ ~light.failed
  BY DEF L!Fetch
<1> HIDE DEF light, full, found, last
<1>3. ASSUME adapter \in {"workday", "teamtailor"}, board.counts, board.bad = 0, later = board
      PROVE found.partial \/ found.jobs = L!All(board)
  <2>1. full = light
    BY <1>3 DEF full, light
  <2>2. jobs = light.jobs
    BY <2>1
  <2>3. ~light.failed
    BY <1>2, <1>3, LastPageEnds
  <2>4. light.partial \/ light.jobs = L!All(board)
    BY <1>2, <1>3, <2>3, CapIsOwned DEF last
  <2>5. CASE light.jobs # {}
    BY <1>1, <2>2, <2>4, <2>5
  <2>6. CASE light.jobs = {}
    <3>1. board.size = 0
      BY <1>2, <1>3, <2>3, <2>6, NothingRead DEF last
    <3>2. L!All(board) = {}
      BY <3>1 DEF L!All
    <3>3. QED
      BY <1>1, <2>2, <2>6, <3>2
  <2>7. QED
    BY <2>5, <2>6
<1>4. ASSUME found.jobs = {}, ~found.error
      PROVE board.size = 0 \/ (board.bad = 1 /\ board.how = "null")
  <2>1. light.jobs = {} /\ ~light.failed
    BY <1>1, <1>4
  <2>2. board.size = 0 \/ board.bad = 1
    BY <1>2, <2>1, NothingRead DEF last
  <2>3. last \in Nat /\ 1 \in 1 .. last
    BY LastPageEnds, PagesAssumption DEF last
  <2>4. board.bad = 1 => board.how # "throws"
    BY <1>2, <2>1, <2>3
  <2>5. board.how \in {"null", "throws"}
    BY DEF L!Boards
  <2>6. QED
    BY <2>2, <2>4, <2>5
<1>5. QED
  BY <1>3, <1>4 DEF found
-----------------------------------------------------------------------------
(* Of the copies of an offer one is kept.                                   *)

\* The plausible copies of a list, which of them beats which, and those that none beats.
Plausible(found) == {i \in DOMAIN found : found[i].plausible}
Beats(found, j, i) ==
    /\ found[j].key = found[i].key
    /\ \/ found[j].richness > found[i].richness
       \/ found[j].richness = found[i].richness /\ j < i
Unbeaten(found) == {k \in Plausible(found) : \A j \in Plausible(found) : ~Beats(found, j, k)}
Copied(found) ==
    /\ Len(found) \in Nat /\ DOMAIN found = 1 .. Len(found)
    /\ \A i \in DOMAIN found : found[i].richness \in Nat

\* The copies that are kept.
LEMMA KeptAreUnbeaten ==
    \A found : L!NormalizeJobs(found) = {found[i] : i \in Unbeaten(found)}
BY DEF L!NormalizeJobs, Unbeaten, Plausible, Beats

\* One copy beats another in one direction only, and whoever beats the one that beats is
\* better still.
LEMMA BeatsOrders ==
    ASSUME NEW found, Copied(found),
           NEW h \in DOMAIN found, NEW i \in DOMAIN found, NEW j \in DOMAIN found
    PROVE /\ ~Beats(found, i, i)
          /\ Beats(found, h, i) /\ Beats(found, i, j) => Beats(found, h, j)
          /\ found[h].key = found[i].key => Beats(found, h, i) \/ Beats(found, i, h) \/ h = i
          /\ Beats(found, h, i) => found[h].key = found[i].key
                                   /\ found[h].richness >= found[i].richness
<1>1. /\ found[h].richness \in Nat /\ found[i].richness \in Nat /\ found[j].richness \in Nat
      /\ h \in Nat /\ i \in Nat /\ j \in Nat
  BY DEF Copied
<1>2. QED
  BY <1>1 DEF Beats

\* Each plausible copy is kept, or is beaten by one that is.
LEMMA SomeoneWins ==
    ASSUME NEW found, Copied(found), NEW i \in Plausible(found)
    PROVE \E k \in Unbeaten(found) : k = i \/ Beats(found, k, i)
<1> DEFINE All == Plausible(found)
           Betters(k) == {j \in All : Beats(found, j, k)}
           Field == {k \in All : k = i \/ Beats(found, k, i)}
           Sets == {Betters(k) : k \in Field}
<1>1. IsFiniteSet(DOMAIN found) /\ IsFiniteSet(All)
  <2>1. IsFiniteSet(DOMAIN found)
    BY FS_Interval DEF Copied
  <2>2. All \in SUBSET DOMAIN found
    BY DEF Plausible
  <2>3. QED
    BY <2>1, <2>2, FS_Subset
<1>2. IsWellFoundedOn(StrictSubsetOrdering(All), SUBSET All)
  <2> HIDE DEF All
  <2>1. QED
    BY <1>1, FS_StrictSubsetOrderingWellFounded, FS_FiniteSubsetsOfFinite
<1>3. Sets \subseteq SUBSET All /\ Sets # {}
  <2>1. i \in Field
    OBVIOUS
  <2>2. QED
    BY <2>1
<1>4. PICK least \in Sets : \A other \in Sets : <<other, least>> \notin StrictSubsetOrdering(All)
  <2> HIDE DEF All, Sets
  <2>1. QED
    BY <1>2, <1>3, WFMin
<1>5. PICK k \in Field : least = Betters(k)
  OBVIOUS
<1>6. ASSUME NEW j \in All, Beats(found, j, k)
      PROVE FALSE
  <2>1. {h \in All : Beats(found, h, j)} \subseteq {h \in All : Beats(found, h, k)}
    BY <1>6, BeatsOrders DEF Plausible
  <2>2. j \in Betters(k) /\ j \notin Betters(j)
    BY <1>6, BeatsOrders DEF Plausible
  <2>3. j \in Field
    <3>1. CASE k = i
      BY <1>6, <3>1
    <3>2. CASE Beats(found, k, i)
      BY <1>6, <3>2, BeatsOrders DEF Plausible
    <3>3. QED
      BY <1>5, <3>1, <3>2
  <2>4. Betters(j) \in Sets /\ Betters(j) \in SUBSET All /\ least \in SUBSET All
    BY <1>5, <2>3
  <2>5. Betters(j) \subseteq least /\ Betters(j) # least
    BY <1>5, <2>1, <2>2
  <2>6. <<Betters(j), least>> \in StrictSubsetOrdering(All)
    <3> HIDE DEF Betters, All
    <3>1. QED
      BY <2>4, <2>5 DEF StrictSubsetOrdering
  <2>7. QED
    BY <1>4, <2>4, <2>6
<1>7. k \in Unbeaten(found)
  BY <1>5, <1>6 DEF Unbeaten
<1>8. QED
  BY <1>5, <1>7

\* The keys that are kept are those of the plausible copies, whatever their order.
LEMMA KeysKept ==
    ASSUME NEW found, Copied(found)
    PROVE {job.key : job \in L!NormalizeJobs(found)} = {found[i].key : i \in Plausible(found)}
<1> DEFINE kept == L!NormalizeJobs(found)
<1>1. kept = {found[i] : i \in Unbeaten(found)}
  BY KeptAreUnbeaten
<1> HIDE DEF kept
<1>2. Unbeaten(found) \subseteq Plausible(found)
  BY DEF Unbeaten
<1>3. ASSUME NEW i \in Plausible(found)
      PROVE \E k \in Unbeaten(found) : found[k].key = found[i].key
  BY SomeoneWins DEF Beats
<1>4. QED
  BY <1>1, <1>2, <1>3 DEF kept

\* Of two copies that are kept, the keys differ.
LEMMA KeysDiffer ==
    ASSUME NEW found, Copied(found),
           NEW one \in L!NormalizeJobs(found), NEW other \in L!NormalizeJobs(found),
           one.key = other.key
    PROVE one = other
<1>1. PICK i \in Unbeaten(found), j \in Unbeaten(found) : one = found[i] /\ other = found[j]
  BY KeptAreUnbeaten
<1>2. i \in Plausible(found) /\ j \in Plausible(found) /\ ~Beats(found, i, j) /\ ~Beats(found, j, i)
  BY DEF Unbeaten
<1>3. i = j
  BY <1>1, <1>2, BeatsOrders DEF Plausible
<1>4. QED
  BY <1>1, <1>3

\* As many copies are kept as keys.
LEMMA OneCopyPerKey ==
    ASSUME NEW found, Copied(found)
    PROVE Cardinality(L!NormalizeJobs(found))
          = Cardinality({job.key : job \in L!NormalizeJobs(found)})
<1> DEFINE kept == L!NormalizeJobs(found)
           keys == {job.key : job \in kept}
           f == [job \in kept |-> job.key]
           g == [i \in Unbeaten(found) |-> found[i]]
<1>1. IsFiniteSet(kept)
  <2>1. IsFiniteSet(DOMAIN found) /\ Unbeaten(found) \in SUBSET DOMAIN found
    BY FS_Interval DEF Copied, Unbeaten, Plausible
  <2>2. IsFiniteSet(Unbeaten(found))
    BY <2>1, FS_Subset
  <2>3. g \in Surjection(Unbeaten(found), kept)
    BY KeptAreUnbeaten DEF Surjection
  <2> HIDE DEF g, kept
  <2>4. QED
    BY <2>2, <2>3, FS_Surjection
<1>2. f \in Surjection(kept, keys)
  BY DEF Surjection
<1>3. \A one, other \in kept : one.key = other.key => one = other
  BY KeysDiffer
<1>4. f \in Injection(kept, keys)
  <2> HIDE DEF kept
  <2>1. f \in [kept -> keys]
    OBVIOUS
  <2>2. \A one, other \in kept : f[one] = f[other] => one = other
    BY <1>3
  <2> HIDE DEF f, keys
  <2>3. QED
    BY <2>1, <2>2 DEF Injection, IsInjective
<1>5. QED
  <2> HIDE DEF f, kept, keys
  <2>1. Cardinality(keys) = Cardinality(kept)
    BY <1>1, <1>2, <1>4, FS_Surjection
  <2>2. QED
    BY <2>1 DEF kept, keys

\* Read backwards, a list has the same copies.
LEMMA ReadBackwards ==
    ASSUME NEW found, Copied(found)
    PROVE LET back == [i \in DOMAIN found |-> found[Len(found) + 1 - i]]
          IN /\ Copied(back)
             /\ {back[i].key : i \in Plausible(back)} = {found[i].key : i \in Plausible(found)}
<1> DEFINE n == Len(found)
           back == [i \in DOMAIN found |-> found[n + 1 - i]]
           turned(i) == n + 1 - i
<1>1. n \in Nat /\ DOMAIN found = 1 .. n /\ \A i \in 1 .. n : found[i].richness \in Nat
  BY DEF Copied
<1>2. \A i \in 1 .. n : turned(i) \in 1 .. n /\ turned(turned(i)) = i
  <2> HIDE DEF n
  <2>1. QED
    BY <1>1
<1>3. DOMAIN back = 1 .. n /\ \A i \in 1 .. n : back[i] = found[turned(i)]
  BY <1>1
<1>4. Len(back) = n
  <2>1. back \in Seq({found[i] : i \in 1 .. n})
    <3>1. \A i \in 1 .. n : back[i] \in {found[j] : j \in 1 .. n}
      BY <1>2, <1>3
    <3>2. back = [i \in 1 .. n |-> back[i]]
      BY <1>1, <1>3
    <3> DEFINE some == {found[j] : j \in 1 .. n}
    <3> HIDE DEF back, n, some
    <3>3. back \in [1 .. n -> some]
      BY <3>1, <3>2 DEF some
    <3>4. QED
      BY <1>1, <3>3, SeqDef, Zenon DEF some
  <2>2. DOMAIN back = 1 .. Len(back) /\ Len(back) \in Nat
    <3> HIDE DEF back
    <3>1. QED
      BY <2>1
  <2> HIDE DEF back, n
  <2>3. QED
    BY <1>1, <1>3, <2>2
<1>5. Copied(back)
  <2>1. \A i \in 1 .. n : back[i].richness \in Nat
    BY <1>1, <1>2, <1>3
  <2> HIDE DEF back, n
  <2>2. QED
    BY <1>1, <1>3, <1>4, <2>1 DEF Copied
<1>6. \A i \in 1 .. n : i \in Plausible(back) <=> turned(i) \in Plausible(found)
  <2> HIDE DEF back, n
  <2>1. QED
    BY <1>1, <1>2, <1>3 DEF Plausible
<1>7. Plausible(back) \subseteq 1 .. n /\ Plausible(found) \subseteq 1 .. n
  BY <1>1, <1>3 DEF Plausible
<1> HIDE DEF back, n, turned
<1>8. \A i \in Plausible(back) : turned(i) \in Plausible(found) /\ back[i].key =
       found[turned(i)].key
  BY <1>3, <1>6, <1>7
<1>9. \A i \in Plausible(found) : turned(i) \in Plausible(back) /\ back[turned(i)].key =
       found[i].key
  BY <1>2, <1>3, <1>6, <1>7
<1>10. {back[i].key : i \in Plausible(back)} = {found[i].key : i \in Plausible(found)}
  BY <1>8, <1>9
<1>11. QED
  BY <1>5, <1>10 DEF back, n

\* What is filled in is one of the sheets there are.
Sheets ==
    /\ sheet.kind = "match" => case \in MatchCases
    /\ sheet.kind = "board" => case \in BoardCases
    /\ sheet.kind = "dashboard" => case \in DashboardCases
    /\ sheet.kind = "places" => case \in PlaceCases
    /\ sheet.kind = "listing" => case \in ListingCases
    /\ sheet.kind = "copies" => case \in CopyCases

\* A sheet is filled in once, with one of those.
LEMMA SheetsKept == Spec => []Sheets
<1>1. Init => Sheets
  BY DEF Init, Sheets
<1>2. Sheets /\ [Next]_sheet => Sheets'
  <2>1. SUFFICES ASSUME Sheets, [Next]_sheet PROVE Sheets'
    OBVIOUS
  <2>2. CASE UNCHANGED sheet
    BY <2>1, <2>2 DEF Sheets, case
  <2>3. ASSUME NEW kind, NEW cases, Fill(kind, cases),
               /\ kind = "match" => cases = MatchCases
               /\ kind = "board" => cases = BoardCases
               /\ kind = "dashboard" => cases = DashboardCases
               /\ kind = "places" => cases = PlaceCases
               /\ kind = "listing" => cases = ListingCases
               /\ kind = "copies" => cases = CopyCases
        PROVE Sheets'
    <3>1. PICK x \in cases : sheet' = [kind |-> kind, case |-> x]
      BY <2>3 DEF Fill
    <3>2. sheet'.kind = kind /\ case' = x
      BY <3>1 DEF case
    <3>3. QED
      BY <2>3, <3>2 DEF Sheets
  <2>4. CASE Next
    BY <2>3, <2>4 DEF Next
  <2>5. QED
    BY <2>1, <2>2, <2>4
<1>3. QED
  BY <1>1, <1>2, PTL DEF Spec

\* Whatever the size of a board, of its pages and of the cap on them, what a listing leaves
\* out it says, and of the copies of an offer it keeps the richest and only that one.
THEOREM ListingTold == Spec => []ListingHonest
<1>1. ASSUME Sheets PROVE TruncatedSaysSo
  <2>1. SUFFICES ASSUME sheet.kind = "listing"
                 PROVE LET found == L!Discover(case.adapter, case.board, case.later, case.fast,
                        case.previous)
                           steady == case.board.bad = 0 /\ case.later = case.board
                       IN /\ case.adapter \in {"workday", "teamtailor"} /\ case.board.counts /\
                              steady
                             => found.partial \/ found.jobs = L!All(case.board)
                          /\ found.jobs = {} /\ ~found.error
                             => case.board.size = 0 \/ (case.board.bad = 1 /\ case.board.how =
                                    "null")
    BY Zenon DEF TruncatedSaysSo
  <2>2. case.adapter \in L!Adapters /\ case.board \in L!Boards /\ case.later \in L!Boards
    BY <1>1, <2>1, SheetsAssumption DEF Sheets
  <2> DEFINE adapter == case.adapter
             board == case.board
             later == case.later
             fast == case.fast
             previous == case.previous
  <2> HIDE DEF adapter, board, later, fast, previous
  <2>3. LET found == L!Discover(adapter, board, later, fast, previous)
            steady == board.bad = 0 /\ later = board
        IN /\ adapter \in {"workday", "teamtailor"} /\ board.counts /\ steady
              => found.partial \/ found.jobs = L!All(board)
           /\ found.jobs = {} /\ ~found.error
              => board.size = 0 \/ (board.bad = 1 /\ board.how = "null")
    BY <2>2, DiscoveryOwnsUp, Zenon DEF adapter, board, later
  <2>4. QED
    BY <2>3, Zenon DEF adapter, board, later, fast, previous
<1>2. ASSUME Sheets PROVE RichestKept
  <2>1. SUFFICES ASSUME sheet.kind = "copies"
                 PROVE LET kept == L!NormalizeJobs(case)
                           back == [i \in DOMAIN case |-> case[Len(case) + 1 - i]]
                           Keys(jobs) == {job.key : job \in jobs}
                       IN /\ \A i \in DOMAIN case : case[i].plausible =>
                               \E job \in kept : job.key = case[i].key
                                                 /\ job.richness >= case[i].richness
                          /\ Cardinality(kept) = Cardinality(Keys(kept))
                          /\ Keys(kept) = Keys(L!NormalizeJobs(back))
    BY Zenon DEF RichestKept
  <2>2. Copied(case)
    BY <1>2, <2>1, SheetsAssumption DEF Sheets, Copied
  <2> DEFINE found == case
             back == [i \in DOMAIN found |-> found[Len(found) + 1 - i]]
  <2>3. Copied(found)
    BY <2>2
  <2> HIDE DEF found
  <2>4. ASSUME NEW i \in DOMAIN found, found[i].plausible
        PROVE \E job \in L!NormalizeJobs(found) : job.key = found[i].key
                                                  /\ job.richness >= found[i].richness
    <3>1. i \in Plausible(found)
      BY <2>4 DEF Plausible
    <3>2. PICK k \in Unbeaten(found) : k = i \/ Beats(found, k, i)
      BY <2>3, <3>1, SomeoneWins
    <3>3. k \in DOMAIN found
      BY DEF Unbeaten, Plausible
    <3>4. found[k].key = found[i].key /\ found[k].richness >= found[i].richness
      BY <2>3, <3>2, <3>3, BeatsOrders DEF Copied
    <3>5. found[k] \in L!NormalizeJobs(found)
      BY KeptAreUnbeaten
    <3>6. QED
      BY <3>4, <3>5
  <2>5. Cardinality(L!NormalizeJobs(found)) = Cardinality({job.key : job \in
         L!NormalizeJobs(found)})
    BY <2>3, OneCopyPerKey
  <2>6. {job.key : job \in L!NormalizeJobs(found)} = {job.key : job \in L!NormalizeJobs(back)}
    <3>1. Copied(back)
          /\ {back[i].key : i \in Plausible(back)} = {found[i].key : i \in Plausible(found)}
      BY <2>3, ReadBackwards
    <3> HIDE DEF back
    <3>2. QED
      BY <2>3, <3>1, KeysKept
  <2>7. QED
    BY <2>4, <2>5, <2>6, Zenon DEF found
<1>3. Sheets => ListingHonest
  BY <1>1, <1>2 DEF ListingHonest
<1>4. QED
  BY <1>3, SheetsKept, PTL

\* The score, the card and the filter agree, for every offer and every profile: one that is
\* capped, or whose card shows a miss on a criterion that counts and is compared, is one that
\* the filter hides, but for a minimum that is enough beside a maximum that is not.
THEOREM MissHidden == Spec => []MissIsHidden
<1>1. ASSUME Sheets PROVE MissIsHidden
  <2> DEFINE o == case.offer
             p == case.profile
  <2>1. SUFFICES ASSUME sheet.kind = "match", Passes(o, p)
                 PROVE /\ ~Capped(o, p)
                       /\ \A r \in Reasons(o, p) :
                            \/ r.met
                            \/ ~(Counts(p, r.kind)
                                 /\ (r.kind = "SALARY" => Comparable(o, p) /\ o.low # "above"))
    BY DEF MissIsHidden
  <2>4. o \in Offers
    BY <1>1, <2>1, SheetsAssumption DEF Sheets
  <2> HIDE DEF o, p
  <2>5. o.high \in {"unknown", "below", "above"}
    BY <2>4 DEF Offers
  <2>2. ASSUME NEW r \in Reasons(o, p), ~r.met, Counts(p, r.kind),
               r.kind = "SALARY" => Comparable(o, p) /\ o.low # "above"
        PROVE FALSE
    <3>1. CASE r.kind \in Listed /\ o.value[r.kind] \notin p.wanted[r.kind] \union {Unknown}
      BY <2>1, <2>2, <3>1 DEF Passes
    <3>2. CASE r.kind = "SALARY" /\ o.high = "below"
      BY <2>1, <2>2, <3>2 DEF Passes, Priced, PaysEnough
    <3>3. QED
      BY <2>2, <2>5, <3>1, <3>2, MissesOnTheCard
  <2>3. QED
    BY <2>1, <2>2, PassedIsNotCapped
<1>2. QED
  BY <1>1, SheetsKept, PTL

\* What an offer does not say is not held against it, for every offer, every profile, and
\* readers who follow companies or none: its score is what it would be with the criterion
\* muted, no better than with what was wanted, and no worse than with something else where
\* there is something else to rate it by.
THEOREM UnknownForgiven == Spec => []UnknownNeverHurts
<1>1. ASSUME Sheets PROVE UnknownNeverHurts
  <2>1. SUFFICES ASSUME sheet.kind = "match", NEW c \in Wished, NEW f \in BOOLEAN
                 PROVE LET With(x) == Score(Said(case.offer, c, x), case.profile, f)
                           muted   == Score(case.offer, Muted(case.profile, c), f)
                           wanted  == case.profile.wanted[c]
                       IN /\ With(Unknown) = muted
                          /\ \A x \in wanted : With(x) >= muted
                          /\ wanted # {} /\ Rateable(case.offer, Muted(case.profile, c), f) > 0
                             => \A x \in Values \ wanted : muted >= With(x)
    BY Zenon DEF UnknownNeverHurts, Wished, Said, Muted
  <2> DEFINE o == case.offer
             p == case.profile
  <2>2. o \in Offers /\ p \in Profiles /\ Unknown \notin Values
    <3>1. case \in [offer : Offers, profile : Profiles]
      BY <1>1, <2>1, SheetsAssumption DEF Sheets
    <3>2. QED
      BY <3>1, SheetsAssumption
  <2>3. p.wanted[c] \in SUBSET Values
    BY <2>2 DEF Profiles, Wished
  <2> HIDE DEF o, p
  <2>4. Score(Said(o, c, Unknown), p, f) = Score(o, Muted(p, c), f)
    BY <2>2, SaidAndMuted
  <2>5. ASSUME NEW x \in p.wanted[c]
        PROVE Score(Said(o, c, x), p, f) >= Score(o, Muted(p, c), f)
    BY <2>2, <2>3, SaidAndMuted
  <2>6. ASSUME NEW x \in Values \ p.wanted[c], Rateable(o, Muted(p, c), f) > 0
        PROVE Score(o, Muted(p, c), f) >= Score(Said(o, c, x), p, f)
    BY <2>2, <2>6, SaidAndMuted
  <2>7. QED
    BY <2>4, <2>5, <2>6, Zenon DEF o, p
<1>2. QED
  BY <1>1, SheetsKept, PTL

\* The board of offers adds up, whatever is on it and whoever reads it: what a facet
\* announces, what the pages show and what the badge and the dashboard count are the same
\* offers, and the answers and the streak are what they are said to be.
THEOREM BoardSums == Spec => []BoardAddsUp
<1>1. ASSUME Sheets, sheet.kind = "board" PROVE Board(case.viewer, case.rows, case.query)
  BY <1>1, SheetsAssumption DEF Sheets, Board
<1>2. ASSUME Sheets PROVE FacetsPredict
  <2>1. SUFFICES ASSUME sheet.kind = "board", NEW d \in {"city", "companyId"}
                 PROVE LET facet == Facet(case.viewer, case.rows, case.query, d)
                       IN \A x \in DOMAIN facet :
                            facet[x] = Cardinality(Selected(case.viewer, case.rows,
                                                   [case.query EXCEPT !.chosen[d] = {x}], {}))
    BY Zenon DEF FacetsPredict
  <2>2. d \in Dimensions
    BY DEF Dimensions
  <2>3. QED
    BY <1>1, <1>2, <2>1, <2>2, FacetsAdd
<1>3. ASSUME Sheets PROVE PagesPartition
  <2>1. CASE sheet.kind = "board"
    BY <1>1, <1>3, <2>1, PagesPart DEF PagesPartition
  <2>2. QED
    BY <2>1 DEF PagesPartition
<1>4. ASSUME Sheets PROVE FiguresAddUp
  <2>1. ASSUME sheet.kind = "board"
        PROVE /\ CountNew(case.viewer, case.rows) \subseteq Selected(case.viewer, case.rows,
               NewStrong, {})
              /\ HasScore(case.viewer.profile, case.viewer.followsAny) =>
                    /\ CountNew(case.viewer, case.rows) \subseteq StrongMatches(case.viewer,
                           case.rows)
                    /\ \A top \in TopMatches(case.viewer, case.rows, 1),
                          row \in StrongMatches(case.viewer, case.rows) :
                            RowScore(case.viewer, top) >= RowScore(case.viewer, row)
                            /\ RowScore(case.viewer, top) >= StrongFitScore
    <3> DEFINE v == case.viewer
               rows == case.rows
    <3>1. v \in Viewers /\ Table(rows)
      BY <1>1, <1>4, <2>1 DEF Board
    <3> HIDE DEF v, rows
    <3>2. CountNew(v, rows) \subseteq Selected(v, rows, NewStrong, {})
      BY NewIsListed
    <3>3. ASSUME HasScore(v.profile, v.followsAny)
          PROVE /\ CountNew(v, rows) \subseteq StrongMatches(v, rows)
                /\ \A top \in TopMatches(v, rows, 1), row \in StrongMatches(v, rows) :
                     RowScore(v, top) >= RowScore(v, row) /\ RowScore(v, top) >= StrongFitScore
      BY <3>1, <3>3, NewIsStrong, TopIsBest
    <3>4. QED
      BY <3>2, <3>3 DEF v, rows
  <2>2. ASSUME sheet.kind = "dashboard"
        PROVE LET rate == ResponseRate(case.applications)
                  act  == Activity(case.applications, case.days)
                  upTo == IF case.days > 0 /\ act[case.days] = 0 THEN case.days - 1 ELSE case.days
              IN /\ rate # None => rate <= 100
                 /\ StreakOf(act) = Max({n \in 0 .. upTo : \A i \in 0 .. n - 1 : act[upTo - i] > 0})
    <3>1. case.days \in Nat /\ IsFiniteSet(case.applications)
      BY <1>4, <2>2, SheetsAssumption DEF Sheets
    <3> DEFINE days == case.days
               applications == case.applications
    <3> HIDE DEF days, applications
    <3>2. days \in Nat /\ IsFiniteSet(applications)
      BY <3>1 DEF days, applications
    <3>3. ResponseRate(applications) # None => ResponseRate(applications) <= 100
      BY <3>2, RateIsLow
    <3>4. LET act  == Activity(applications, days)
              upTo == IF days > 0 /\ act[days] = 0 THEN days - 1 ELSE days
          IN StreakOf(act) = Max({n \in 0 .. upTo : \A i \in 0 .. n - 1 : act[upTo - i] > 0})
      BY <3>2, StreakShown, Zenon
    <3>5. QED
      BY <3>3, <3>4, Zenon DEF days, applications
  <2>3. QED
    BY <2>1, <2>2, Zenon DEF FiguresAddUp, NewStrong
<1>5. Sheets => BoardAddsUp
  BY <1>2, <1>3, <1>4 DEF BoardAddsUp
<1>6. QED
  BY <1>5, SheetsKept, PTL

-----------------------------------------------------------------------------
(* Places: no word is lost. *)

\* What is in a list.
Things(l) == {l[i] : i \in DOMAIN l}

\* A word that a place has: in its city, as its region, or as its country.
Placed(word, place) ==
    \/ word \in Things(place.city)
    \/ word = place.region
    \/ P!CountryOf(word) = place.country /\ place.country # Nowhere

\* What is written of places, without a bracket left on a word.
Written(c) == c.parts \in Seq(STRING) /\ c.closes = FALSE

\* A list that is not empty is its last thing and those before.
LEMMA LastAndFront ==
    ASSUME NEW S, NEW s \in Seq(S), s # <<>>
    PROVE  /\ Len(s) \in Nat /\ Len(s) >= 1 /\ P!Last(s) = s[Len(s)] /\ P!Last(s) \in S
           /\ P!Front(s) \in Seq(S) /\ Len(P!Front(s)) = Len(s) - 1
           /\ \A x \in Things(s) : x \in Things(P!Front(s)) \/ x = P!Last(s)
<1>1. Len(s) \in Nat /\ Len(s) # 0 /\ DOMAIN s = 1 .. Len(s)
  BY EmptySeq
<1> DEFINE m == Len(s) - 1
           front == SubSeq(s, 1, m)
<1>2. P!Last(s) = s[Len(s)] /\ P!Front(s) = front
  BY DEF P!Last, P!Front
<1>3. m \in Nat /\ front \in Seq(S) /\ Len(front) = m /\ \A i \in 1 .. m : front[i] = s[i]
  <2>1. m \in Nat /\ \A i \in 1 .. m : s[i] \in S
    BY <1>1
  <2> HIDE DEF m
  <2>2. /\ front \in Seq(S) /\ Len(front) = IF 1 <= m THEN m - 1 + 1 ELSE 0
        /\ \A i \in 1 .. m - 1 + 1 : front[i] = s[1 + i - 1]
    BY <2>1, SubSeqProperties
  <2> HIDE DEF front
  <2>3. Len(front) = m
    BY <2>1, <2>2
  <2>4. \A i \in 1 .. m : front[i] = s[i]
    <3>1. \A i \in 1 .. m : 1 + i - 1 = i /\ i \in 1 .. m - 1 + 1
      BY <2>1
    <3>2. QED
      BY <2>2, <3>1
  <2>5. QED
    BY <2>1, <2>2, <2>3, <2>4
<1>4. ASSUME NEW x \in Things(s)
      PROVE  x \in Things(front) \/ x = s[Len(s)]
  <2>1. PICK i \in 1 .. Len(s) : x = s[i]
    BY <1>1 DEF Things
  <2>2. CASE i = Len(s)
    BY <2>1, <2>2
  <2>3. CASE i # Len(s)
    <3>1. i \in 1 .. m
      <4>1. \A n \in Nat : \A j \in 1 .. n : j # n => j \in 1 .. n - 1
        OBVIOUS
      <4>2. i \in 1 .. Len(s) /\ Len(s) \in Nat
        BY <1>1, <2>1
      <4>3. QED
        BY <2>3, <4>1, <4>2
    <3> HIDE DEF front, m
    <3>2. i \in DOMAIN front /\ front[i] = x
      BY <1>1, <1>3, <2>1, <3>1
    <3>3. QED
      BY <3>2 DEF Things
  <2>4. QED
    BY <2>2, <2>3
<1>5. s[Len(s)] \in S
  BY <1>1
<1>6. Len(s) >= 1
  BY <1>1
<1> HIDE DEF front
<1>7. QED
  BY <1>1, <1>2, <1>3, <1>4, <1>5, <1>6

\* Read right to left, each word is in the place.
LEMMA PartsPlaced ==
    ASSUME NEW S, NEW parts \in Seq(S), parts # <<>>, NEW remote, NEW word \in Things(parts)
    PROVE  \E place \in P!ParseParts(parts, remote) : Placed(word, place)
<1> DEFINE named == P!CountryOf(P!Last(parts))
           left == IF named = Nowhere THEN parts ELSE P!Front(parts)
           implied == P!RegionCountry(P!Last(left))
           zoned == Len(left) > 1 /\ (named # Nowhere \/ implied # Nowhere)
           city == IF zoned THEN P!Front(left) ELSE left
           country == CASE named # Nowhere -> named
                        [] named = Nowhere /\ zoned -> implied
                        [] OTHER -> IF Len(city) = 1 THEN P!Lookup(P!CITY_COUNTRIES, city[1])
                                    ELSE Nowhere
           region == IF zoned THEN P!Last(left) ELSE Nowhere
           place == P!Place(city, region, country, remote)
<1>1. P!ParseParts(parts, remote) = {place}
  BY DEF P!ParseParts
<1>2. place.city = city /\ place.region = region /\ place.country = country
  BY DEF P!Place
<1>3. named # Nowhere => country = named
  OBVIOUS
<1>4. left \in Seq(S) /\ (word \in Things(left) \/ (named # Nowhere /\ word = P!Last(parts)))
  BY LastAndFront
<1> HIDE DEF place, country
<1>5. CASE named # Nowhere /\ word = P!Last(parts)
  BY <1>1, <1>2, <1>3, <1>5 DEF Placed
<1>6. CASE word \in Things(left)
  <2> HIDE DEF left
  <2>1. CASE zoned
    <3>1. left # <<>>
      BY <1>4, <1>6, EmptySeq DEF Things
    <3>2. word \in Things(city) \/ word = region
      BY <1>4, <1>6, <2>1, <3>1, LastAndFront
    <3> HIDE DEF city, region
    <3>3. QED
      BY <1>1, <1>2, <3>2 DEF Placed
  <2>2. CASE ~zoned
    BY <1>1, <1>2, <1>6, <2>2 DEF Placed
  <2>3. QED
    BY <2>1, <2>2
<1>7. QED
  BY <1>4, <1>5, <1>6

\* Of one place, no word but noise on its own is lost.
LEMMA OnePlaced ==
    ASSUME NEW c, Written(c), NEW word \in Things(c.parts), word \notin P!NOISE
    PROVE  \E place \in P!ParseOne(c) : Placed(word, place)
<1> DEFINE S == STRING \union {c.paren}
           words == P!Words(c)
<1>1. c.parts \in Seq(S) /\ c.parts \in Seq(STRING) /\ c.closes = FALSE
  BY DEF Written
<1>2. words = c.parts \/ words = Append(c.parts, c.paren)
  BY <1>1 DEF P!Words
<1>3. words \in Seq(S) /\ word \in Things(words) /\ words # <<>> /\ (Len(words) = 1 => words[1] = word)
  <2>1. Len(c.parts) \in Nat /\ DOMAIN c.parts = 1 .. Len(c.parts)
    BY <1>1
  <2>2. PICK i \in 1 .. Len(c.parts) : word = c.parts[i]
    BY <2>1 DEF Things
  <2>3. CASE words = c.parts
    BY <1>1, <2>1, <2>2, <2>3 DEF Things
  <2>4. CASE words = Append(c.parts, c.paren)
    <3>1. /\ Append(c.parts, c.paren) \in Seq(S) /\ Len(Append(c.parts, c.paren)) = Len(c.parts) + 1
          /\ \A j \in 1 .. Len(c.parts) : Append(c.parts, c.paren)[j] = c.parts[j]
      BY <1>1, AppendProperties
    <3>2. i \in DOMAIN Append(c.parts, c.paren) /\ Append(c.parts, c.paren)[i] = word
      BY <2>1, <2>2, <3>1
    <3>3. Len(c.parts) + 1 # 1
      BY <2>1, <2>2
    <3>4. QED
      BY <2>4, <3>1, <3>2, <3>3, EmptySeq DEF Things
  <2>5. QED
    BY <1>2, <2>3, <2>4
<1>4. P!ParseOne(c) = P!ParseParts(words, c.model)
  BY <1>3 DEF P!ParseOne
<1> HIDE DEF S, words
<1>5. QED
  BY <1>3, <1>4, PartsPlaced

\* Each word of a list of places is in one of them.
LEMMA SplitPlaced ==
    ASSUME NEW c, Written(c), NEW word \in Things(c.parts)
    PROVE  \E one \in P!SplitCommas(c) : Written(one) /\ word \in Things(one.parts)
<1> DEFINE n == Len(c.parts)
           One(i) == [model  |-> IF i = 1 THEN c.model ELSE Nowhere,
                      closes |-> i = n /\ c.closes,
                      parts  |-> <<c.parts[i]>>,
                      paren  |-> IF i = n THEN c.paren ELSE Nowhere]
<1>1. P!SplitCommas(c) = {c} \/ P!SplitCommas(c) = {One(i) : i \in 1 .. n}
  BY DEF P!SplitCommas
<1>2. CASE P!SplitCommas(c) = {c}
  BY <1>2
<1>3. CASE P!SplitCommas(c) = {One(i) : i \in 1 .. n}
  <2>1. PICK i \in 1 .. n : word = c.parts[i] /\ word \in STRING
    BY DEF Things, Written
  <2>2. One(i).parts = <<word>> /\ One(i).closes = FALSE /\ word \in STRING
    BY <2>1 DEF Written
  <2>3. <<word>> \in Seq(STRING) /\ word \in Things(<<word>>)
    BY <2>2 DEF Things
  <2> HIDE DEF One
  <2>4. Written(One(i)) /\ word \in Things(One(i).parts)
    BY <2>2, <2>3 DEF Written
  <2>5. QED
    BY <1>3, <2>4
<1>4. QED
  BY <1>1, <1>2, <1>3

\* Where a field is cut, the cut that follows one, and what is between them.
Cuts(c) == {0, Len(c.parts) + 1} \union {i \in DOMAIN c.parts : c.parts[i] = "OR"}

CutAfter(c, i) == CHOOSE j \in Cuts(c) : j > i /\ \A k \in Cuts(c) : k > i => j <= k

ChunkFrom(c, i) ==
    [model  |-> IF i = 0 THEN c.model ELSE Nowhere,
     closes |-> CutAfter(c, i) > Len(c.parts) /\ c.closes,
     parts  |-> SubSeq(c.parts, i + 1, CutAfter(c, i) - 1),
     paren  |-> IF CutAfter(c, i) > Len(c.parts) THEN c.paren ELSE Nowhere]

\* A field is cut into what is from each cut to the one that follows.
LEMMA ChunksAre ==
    ASSUME NEW c
    PROVE  P!Chunks(c) = {ChunkFrom(c, i) : i \in {j \in Cuts(c) : j <= Len(c.parts)}}
BY DEF P!Chunks, ChunkFrom, CutAfter, Cuts

\* There is one that follows, unless it is the last.
LEMMA CutIs ==
    ASSUME NEW c, Written(c), NEW i \in Cuts(c), i <= Len(c.parts)
    PROVE  /\ Cuts(c) \subseteq 0 .. Len(c.parts) + 1 /\ Len(c.parts) \in Nat
           /\ CutAfter(c, i) \in Cuts(c) /\ CutAfter(c, i) > i
           /\ \A k \in Cuts(c) : k > i => CutAfter(c, i) <= k
<1>1. Len(c.parts) \in Nat /\ DOMAIN c.parts = 1 .. Len(c.parts)
  BY DEF Written
<1>2. Cuts(c) \subseteq 0 .. Len(c.parts) + 1 /\ Len(c.parts) + 1 \in Cuts(c)
  BY <1>1 DEF Cuts
<1> DEFINE S == {k \in Cuts(c) : k > i}
<1>3. S \in SUBSET Nat /\ S # {}
  <2>1. Len(c.parts) + 1 \in S
    BY <1>1, <1>2
  <2>2. QED
    BY <1>1, <1>2, <2>1
<1>4. PICK j \in S : \A k \in S : j =< k
  <2> HIDE DEF S
  <2>1. QED
    BY <1>3, LeastNumber
<1>5. j \in Cuts(c) /\ j > i /\ \A k \in Cuts(c) : k > i => j <= k
  BY <1>4
<1>6. QED
  BY <1>1, <1>2, <1>5 DEF CutAfter

\* What is cut off has words of the field, none of them an "or".
LEMMA ChunkIs ==
    ASSUME NEW c, Written(c), NEW i \in Cuts(c), i <= Len(c.parts)
    PROVE  LET chunk == ChunkFrom(c, i)
           IN /\ Written(chunk) /\ Things(chunk.parts) \subseteq Things(c.parts) \ {"OR"}
              /\ c.model = Nowhere => chunk.model = Nowhere
              /\ c.paren = Nowhere => chunk.paren = Nowhere
<1> DEFINE n == Len(c.parts)
           to == CutAfter(c, i)
           parts == SubSeq(c.parts, i + 1, to - 1)
           chunk == ChunkFrom(c, i)
<1>1. /\ chunk.parts = parts /\ chunk.closes = FALSE
      /\ c.model = Nowhere => chunk.model = Nowhere
      /\ c.paren = Nowhere => chunk.paren = Nowhere
  BY DEF ChunkFrom, Written
<1>2. n \in Nat /\ i \in Nat /\ to \in Nat /\ to <= n + 1 /\ \A k \in Cuts(c) : k > i => to <= k
  BY CutIs
<1>3. DOMAIN c.parts = 1 .. n /\ \A j \in 1 .. n : c.parts[j] \in STRING
  BY DEF Written
<1> HIDE DEF to, n
<1>4. \A j \in i + 1 .. to - 1 : j \in 1 .. n /\ c.parts[j] \in STRING /\ c.parts[j] # "OR"
  <2>1. SUFFICES ASSUME NEW j \in i + 1 .. to - 1
                 PROVE  j \in 1 .. n /\ c.parts[j] \in STRING /\ c.parts[j] # "OR"
    OBVIOUS
  <2>2. j \in Nat /\ j > i /\ j < to /\ j \in 1 .. n
    BY <1>2
  <2>3. j \notin Cuts(c)
    BY <1>2, <2>2
  <2>4. c.parts[j] # "OR"
    BY <1>3, <2>2, <2>3 DEF Cuts
  <2>5. c.parts[j] \in STRING
    BY <1>3, <2>2
  <2>6. QED
    BY <2>2, <2>4, <2>5
<1>5. /\ parts \in Seq(STRING)
      /\ Len(parts) = IF i + 1 <= to - 1 THEN to - 1 - (i + 1) + 1 ELSE 0
      /\ \A j \in 1 .. to - 1 - (i + 1) + 1 : parts[j] = c.parts[i + 1 + j - 1]
  <2> DEFINE from == i + 1
             end == to - 1
  <2>1. from \in Int /\ end \in Int /\ \A j \in from .. end : c.parts[j] \in STRING
    BY <1>2, <1>4
  <2> HIDE DEF from, end
  <2>2. /\ SubSeq(c.parts, from, end) \in Seq(STRING)
        /\ Len(SubSeq(c.parts, from, end)) = IF from <= end THEN end - from + 1 ELSE 0
        /\ \A j \in 1 .. end - from + 1 : SubSeq(c.parts, from, end)[j] = c.parts[from + j - 1]
    BY <2>1, SubSeqProperties
  <2>3. QED
    BY <2>2 DEF from, end
<1> HIDE DEF parts
<1>6. ASSUME NEW x \in Things(parts)
      PROVE  x \in Things(c.parts) \ {"OR"}
  <2>1. PICK j \in DOMAIN parts : x = parts[j]
    BY DEF Things
  <2>2. j \in Nat /\ 1 <= j /\ j <= Len(parts)
    BY <1>5
  <2>3. i + 1 <= to - 1 /\ j \in 1 .. to - 1 - (i + 1) + 1 /\ i + j \in i + 1 .. to - 1
    BY <1>2, <1>5, <2>2
  <2>4. i + 1 + j - 1 = i + j
    BY <1>2, <2>2
  <2>5. x = c.parts[i + j]
    BY <1>5, <2>1, <2>3, <2>4
  <2>6. QED
    BY <1>3, <1>4, <2>3, <2>5 DEF Things
<1>7. QED
  BY <1>1, <1>5, <1>6 DEF Written

\* Each word but "or" is between two cuts.
LEMMA ChunkHas ==
    ASSUME NEW c, Written(c), NEW word \in Things(c.parts), word # "OR"
    PROVE  \E i \in Cuts(c) : i <= Len(c.parts) /\ word \in Things(ChunkFrom(c, i).parts)
<1> DEFINE n == Len(c.parts)
<1>1. n \in Nat /\ DOMAIN c.parts = 1 .. n /\ c.parts \in Seq(STRING)
  BY DEF Written
<1>2. PICK p \in 1 .. n : word = c.parts[p]
  BY <1>1 DEF Things
<1>3. Cuts(c) \subseteq 0 .. n + 1 /\ 0 \in Cuts(c) /\ p \notin Cuts(c)
  BY <1>1, <1>2 DEF Cuts
<1> HIDE DEF n
<1>4. p \in Nat /\ 1 <= p /\ p <= n
  BY <1>1, <1>2
<1> DEFINE S == {p - k : k \in {l \in Cuts(c) : l < p}}
<1>5. S \in SUBSET Nat /\ S # {}
  <2>1. p - 0 \in S
    BY <1>3, <1>4
  <2>2. \A k \in {l \in Cuts(c) : l < p} : p - k \in Nat
    BY <1>1, <1>3, <1>4
  <2>3. QED
    BY <2>1, <2>2
<1>6. PICK d \in S : \A e \in S : d =< e
  <2> HIDE DEF S
  <2>1. QED
    BY <1>5, LeastNumber
<1>7. PICK i \in Cuts(c) : i < p /\ d = p - i
  BY <1>6
<1>8. \A k \in Cuts(c) : k < p => k <= i
  <2>1. \A k \in Cuts(c) : k < p => p - i =< p - k
    BY <1>6, <1>7
  <2>2. QED
    BY <1>1, <1>3, <1>4, <1>7, <2>1
<1> DEFINE to == CutAfter(c, i)
<1>9. i \in Nat /\ i <= n
  BY <1>1, <1>3, <1>4, <1>7
<1>10. to \in Cuts(c) /\ to > i
  BY <1>9, CutIs DEF n
<1> HIDE DEF to
<1>11. to \in Nat /\ to > p
  BY <1>1, <1>3, <1>4, <1>8, <1>10
<1> DEFINE parts == SubSeq(c.parts, i + 1, to - 1)
<1>12. ChunkFrom(c, i).parts = parts
  BY DEF ChunkFrom, to
<1>13. p - i \in DOMAIN parts /\ parts[p - i] = word
  <2> DEFINE from == i + 1
             end == to - 1
  <2>1. from \in Int /\ end \in Int /\ from <= end /\ to <= n + 1
    BY <1>1, <1>3, <1>4, <1>7, <1>9, <1>10, <1>11
  <2>2. \A j \in from .. end : c.parts[j] \in STRING
    <3>1. \A j \in from .. end : j \in 1 .. n
      BY <1>1, <1>9, <1>11, <2>1
    <3>2. QED
      BY <1>1, <3>1
  <2> HIDE DEF from, end
  <2>3. /\ SubSeq(c.parts, from, end) \in Seq(STRING)
        /\ Len(SubSeq(c.parts, from, end)) = IF from <= end THEN end - from + 1 ELSE 0
        /\ \A j \in 1 .. end - from + 1 : SubSeq(c.parts, from, end)[j] = c.parts[from + j - 1]
    BY <2>1, <2>2, SubSeqProperties
  <2>4. p - i \in 1 .. end - from + 1 /\ from + (p - i) - 1 = p
    BY <1>4, <1>7, <1>9, <1>11 DEF from, end
  <2> DEFINE q == SubSeq(c.parts, from, end)
  <2>5. q \in Seq(STRING) /\ Len(q) = end - from + 1 /\ q[p - i] = c.parts[p]
    BY <2>1, <2>3, <2>4
  <2>6. parts = q
    BY DEF from, end
  <2> HIDE DEF q, parts
  <2>7. QED
    BY <1>2, <2>4, <2>5, <2>6
<1> HIDE DEF parts
<1>14. QED
  BY <1>9, <1>12, <1>13 DEF Things, n

\* No word of a field is lost but noise and "or".
LEMMA WordPlaced ==
    ASSUME NEW c, Written(c), NEW word \in Things(c.parts), word \notin P!NOISE \union {"OR"}
    PROVE  \E place \in P!ParseLocations(c) : Placed(word, place)
<1>1. PICK i \in Cuts(c) : i <= Len(c.parts) /\ word \in Things(ChunkFrom(c, i).parts)
  BY ChunkHas
<1> DEFINE chunk == ChunkFrom(c, i)
<1>2. Written(chunk) /\ chunk \in P!Chunks(c)
  BY <1>1, ChunkIs, ChunksAre
<1> HIDE DEF chunk
<1>3. word \in Things(chunk.parts)
  BY <1>1 DEF chunk
<1>4. chunk.parts # <<>>
  BY <1>3, EmptySeq DEF Things
<1>5. PICK one \in P!SplitCommas(chunk) : Written(one) /\ word \in Things(one.parts)
  BY <1>2, <1>3, SplitPlaced
<1>6. PICK place \in P!ParseOne(one) : Placed(word, place)
  BY <1>5, OnePlaced
<1>7. place \in P!ParseLocations(c)
  BY <1>2, <1>4, <1>5, <1>6 DEF P!ParseLocations
<1>8. QED
  BY <1>6, <1>7

\* Names of cities that are nothing else, and the place each is on its own.
Plain == {"Paris", "Austin", "Springfield"}

PlaceOf(word) == P!Place(<<word>>, Nowhere, P!Lookup(P!CITY_COUNTRIES, word), Nowhere)

PlacesOf(words) == {PlaceOf(word) : word \in words}

\* A field of such names.
PlainField(c) ==
    Written(c) /\ c.model = Nowhere /\ c.paren = Nowhere /\ Things(c.parts) \subseteq Plain \union P!NOISE

\* None of these is a country, a state or a province.
LEMMA PlainIs ==
    ASSUME NEW word \in Plain \union P!NOISE
    PROVE  P!CountryOf(word) = Nowhere /\ P!RegionCountry(word) = Nowhere
<1>1. word \notin DOMAIN P!COUNTRIES
  BY DEF Plain, P!NOISE, P!COUNTRIES, P!Alpha2
<1>2. word \notin P!US_STATES /\ word \notin P!CA_PROVINCES
  BY DEF Plain, P!NOISE, P!US_STATES, P!CA_PROVINCES
<1>3. QED
  BY <1>1, <1>2 DEF P!CountryOf, P!Lookup, P!RegionCountry

\* One word is one place, unless it is noise.
LEMMA PlainPlace ==
    ASSUME NEW c, PlainField(c), NEW word, c.parts = <<word>>
    PROVE  P!ParseOne(c) = PlacesOf({word} \ P!NOISE)
<1>1. word \in Plain \union P!NOISE
  BY DEF PlainField, Things
<1>2. P!Words(c) = <<word>>
  BY DEF PlainField, Written, P!Words
<1>3. <<word>> \in Seq({word}) /\ Len(<<word>>) = 1 /\ <<word>>[1] = word /\ <<word>> # <<>>
  OBVIOUS
<1>4. CASE word \in P!NOISE
  <2>1. P!ParseOne(c) = {}
    BY <1>2, <1>3, <1>4 DEF P!ParseOne, PlainField
  <2>2. QED
    BY <1>4, <2>1 DEF PlacesOf
<1>5. CASE word \notin P!NOISE
  <2>1. P!ParseOne(c) = P!ParseParts(<<word>>, Nowhere)
    BY <1>2, <1>3, <1>5 DEF P!ParseOne, PlainField
  <2>2. P!Last(<<word>>) = word
    BY <1>3, LastAndFront
  <2>3. P!CountryOf(word) = Nowhere
    BY <1>1, PlainIs
  <2>4. P!ParseParts(<<word>>, Nowhere) = {PlaceOf(word)}
    BY <1>3, <2>2, <2>3 DEF P!ParseParts, PlaceOf
  <2>5. QED
    BY <1>5, <2>1, <2>4 DEF PlacesOf
<1>6. QED
  BY <1>4, <1>5

\* A list of them is as many places as it has words that are not noise.
LEMMA PlainPlaces ==
    ASSUME NEW c, PlainField(c), c.parts # <<>>
    PROVE  UNION {P!ParseOne(one) : one \in P!SplitCommas(c)} = PlacesOf(Things(c.parts) \ P!NOISE)
<1> DEFINE n == Len(c.parts)
           One(i) == [model  |-> IF i = 1 THEN c.model ELSE Nowhere,
                      closes |-> i = n /\ c.closes,
                      parts  |-> <<c.parts[i]>>,
                      paren  |-> IF i = n THEN c.paren ELSE Nowhere]
<1>1. n \in Nat /\ n # 0 /\ DOMAIN c.parts = 1 .. n /\ c.parts \in Seq(STRING)
  BY EmptySeq DEF PlainField, Written
<1>2. CASE n = 1
  <2>1. P!SplitCommas(c) = {c}
    BY <1>2 DEF P!SplitCommas
  <2>2. c.parts = <<c.parts[1]>> /\ Things(c.parts) = {c.parts[1]}
    BY <1>1, <1>2 DEF Things
  <2>3. P!ParseOne(c) = PlacesOf({c.parts[1]} \ P!NOISE)
    BY <2>2, PlainPlace
  <2>4. QED
    BY <2>1, <2>2, <2>3
<1>3. CASE n # 1
  <2>1. P!Last(c.parts) \in Plain \union P!NOISE
    <3>1. P!Last(c.parts) = c.parts[n]
      BY <1>1, LastAndFront
    <3>2. n \in 1 .. n
      <4> HIDE DEF n
      <4>1. QED
        BY <1>1
    <3>3. QED
      BY <1>1, <3>1, <3>2 DEF PlainField, Things
  <2>2. {P!CountryOf(P!Last(c.parts)), P!RegionCountry(P!Last(c.parts))} = {Nowhere}
    BY <2>1, PlainIs
  <2>3. P!SplitCommas(c) = {One(i) : i \in 1 .. n}
    <3> DEFINE qualified == /\ ~c.closes /\ c.paren = Nowhere
                            /\ {P!CountryOf(P!Last(c.parts)), P!RegionCountry(P!Last(c.parts))} # {Nowhere}
               cut == {One(i) : i \in 1 .. n}
    <3>1. ~(n < 2 \/ qualified)
      <4>1. ~qualified
        BY <2>2
      <4>2. ~(n < 2)
        <5> HIDE DEF n
        <5>1. QED
          BY <1>1, <1>3
      <4>3. QED
        BY <4>1, <4>2
    <3>2. P!SplitCommas(c) = IF n < 2 \/ qualified THEN {c} ELSE cut
      BY DEF P!SplitCommas
    <3> HIDE DEF cut, qualified, n
    <3>3. P!SplitCommas(c) = cut
      BY <3>1, <3>2
    <3>4. QED
      BY <3>3 DEF cut
  <2>4. ASSUME NEW i \in 1 .. n
        PROVE  P!ParseOne(One(i)) = PlacesOf({c.parts[i]} \ P!NOISE)
    <3>1. /\ One(i).model = Nowhere /\ One(i).closes = FALSE /\ One(i).paren = Nowhere
          /\ One(i).parts = <<c.parts[i]>>
      BY DEF PlainField, Written
    <3>2. c.parts[i] \in STRING /\ c.parts[i] \in Plain \union P!NOISE
      BY <1>1 DEF PlainField, Things
    <3> HIDE DEF One
    <3>3. <<c.parts[i]>> \in Seq(STRING) /\ Things(<<c.parts[i]>>) = {c.parts[i]}
      BY <3>2 DEF Things
    <3>4. PlainField(One(i))
      BY <3>1, <3>2, <3>3 DEF PlainField, Written
    <3>5. QED
      BY <3>1, <3>4, PlainPlace
  <2> HIDE DEF One
  <2>5. UNION {P!ParseOne(one) : one \in P!SplitCommas(c)} =
            UNION {PlacesOf({c.parts[i]} \ P!NOISE) : i \in 1 .. n}
    BY <2>3, <2>4
  <2>6. UNION {PlacesOf({c.parts[i]} \ P!NOISE) : i \in 1 .. n} = PlacesOf(Things(c.parts) \ P!NOISE)
    BY <1>1 DEF PlacesOf, Things
  <2>7. QED
    BY <2>5, <2>6
<1>4. QED
  BY <1>2, <1>3

\* So is a field of them, however it is cut.
LEMMA PlainWords ==
    ASSUME NEW c, Written(c), c.model = Nowhere, c.paren = Nowhere,
           Things(c.parts) \ (P!NOISE \union {"OR"}) \subseteq Plain
    PROVE  P!ParseLocations(c) = PlacesOf(Things(c.parts) \ (P!NOISE \union {"OR"}))
<1> DEFINE words == Things(c.parts) \ (P!NOISE \union {"OR"})
           Starts == {i \in Cuts(c) : i <= Len(c.parts)}
           Found(chunk) == UNION {P!ParseOne(one) : one \in P!SplitCommas(chunk)}
<1>1. ASSUME NEW i \in Starts
      PROVE  /\ PlainField(ChunkFrom(c, i))
             /\ Things(ChunkFrom(c, i).parts) \ P!NOISE \subseteq words
  <2> DEFINE chunk == ChunkFrom(c, i)
  <2>1. /\ Written(chunk) /\ Things(chunk.parts) \subseteq Things(c.parts) \ {"OR"}
        /\ chunk.model = Nowhere /\ chunk.paren = Nowhere
    BY ChunkIs
  <2> HIDE DEF chunk
  <2>2. PlainField(chunk) /\ Things(chunk.parts) \ P!NOISE \subseteq words
    BY <2>1 DEF PlainField
  <2>3. QED
    BY <2>2 DEF chunk
<1>2. P!ParseLocations(c) = UNION {Found(chunk) : chunk \in {d \in P!Chunks(c) : d.parts # <<>> \/ d.model # Nowhere}}
  BY DEF P!ParseLocations
<1>3. {d \in P!Chunks(c) : d.parts # <<>> \/ d.model # Nowhere} =
          {d \in P!Chunks(c) : d.parts # <<>>}
  <2>1. \A d \in P!Chunks(c) : d.model = Nowhere
    BY <1>1, ChunksAre DEF PlainField
  <2>2. QED
    BY <2>1
<1>4. ASSUME NEW place \in P!ParseLocations(c)
      PROVE  place \in PlacesOf(words)
  <2>1. PICK chunk \in P!Chunks(c) : chunk.parts # <<>> /\ place \in Found(chunk)
    BY <1>2, <1>3
  <2>2. PICK i \in Starts : chunk = ChunkFrom(c, i)
    BY ChunksAre
  <2>3. place \in PlacesOf(Things(chunk.parts) \ P!NOISE)
    BY <1>1, <2>1, <2>2, PlainPlaces
  <2>4. QED
    BY <1>1, <2>2, <2>3 DEF PlacesOf
<1>5. ASSUME NEW word \in words
      PROVE  PlaceOf(word) \in P!ParseLocations(c)
  <2>1. PICK i \in Starts : word \in Things(ChunkFrom(c, i).parts)
    BY ChunkHas
  <2> DEFINE chunk == ChunkFrom(c, i)
  <2>2. chunk \in P!Chunks(c) /\ PlainField(chunk) /\ word \in Things(chunk.parts)
    BY <1>1, <2>1, ChunksAre
  <2> HIDE DEF chunk
  <2>3. chunk.parts # <<>>
    BY <2>2, EmptySeq DEF Things
  <2>4. PlaceOf(word) \in Found(chunk)
    BY <2>2, <2>3, PlainPlaces DEF PlacesOf
  <2>5. QED
    BY <1>2, <1>3, <2>2, <2>3, <2>4
<1>6. QED
  BY <1>4, <1>5 DEF PlacesOf

\* No two words are one place.
LEMMA PlacesApart ==
    ASSUME NEW words \in SUBSET Plain
    PROVE  Cardinality(PlacesOf(words)) = Cardinality(words)
<1>1. IsFiniteSet(words)
  <2>1. IsFiniteSet(({} \union {"Paris"}) \union {"Austin"} \union {"Springfield"})
    BY FS_EmptySet, FS_AddElement
  <2>2. Plain = ({} \union {"Paris"}) \union {"Austin"} \union {"Springfield"}
    BY DEF Plain
  <2>3. QED
    BY <2>1, <2>2, FS_Subset
<1> DEFINE f == [word \in words |-> PlaceOf(word)]
<1>2. \A v, w : PlaceOf(v) = PlaceOf(w) => v = w
  <2>1. \A w : PlaceOf(w).city = <<w>>
    BY DEF PlaceOf, P!Place
  <2>2. \A v, w : <<v>> = <<w>> => v = w
    OBVIOUS
  <2>3. QED
    BY <2>1, <2>2
<1>3. f \in Bijection(words, PlacesOf(words))
  <2> HIDE DEF PlaceOf
  <2>1. f \in [words -> PlacesOf(words)]
    BY DEF PlacesOf
  <2>2. \A v, w \in words : f[v] = f[w] => v = w
    BY <1>2
  <2>3. \A place \in PlacesOf(words) : \E w \in words : f[w] = place
    BY DEF PlacesOf
  <2> HIDE DEF f
  <2>4. f \in Injection(words, PlacesOf(words))
    BY <2>1, <2>2, Zenon DEF Injection, IsInjective
  <2>5. f \in Surjection(words, PlacesOf(words))
    BY <2>1, <2>3, Zenon DEF Surjection
  <2>6. QED
    BY <2>4, <2>5, Zenon DEF Bijection
<1>4. ExistsBijection(words, PlacesOf(words))
  BY <1>3 DEF ExistsBijection
<1>5. QED
  BY <1>1, <1>4, FS_Bijection

\* Of a location field of any length no word is lost but noise and "or": each is in a city,
\* a region or the country of some place; and plain names are as many places (NothingLost).
THEOREM WordsKept == Spec => []NothingLost
<1>1. Sheets => NothingLost
  <2>1. SUFFICES ASSUME Sheets, sheet.kind = "places", ~case.closes
                 PROVE  LET words == {case.parts[i] : i \in DOMAIN case.parts} \ (P!NOISE \union {"OR"})
                            Kept(word, place) ==
                                \/ word \in {place.city[i] : i \in DOMAIN place.city}
                                \/ word = place.region
                                \/ P!CountryOf(word) = place.country /\ place.country # Nowhere
                        IN /\ \A word \in words : \E place \in P!ParseLocations(case) : Kept(word, place)
                           /\ words \subseteq {"Paris", "Austin", "Springfield"}
                                /\ case.paren = Nowhere /\ case.model = Nowhere
                              => Cardinality(P!ParseLocations(case)) = Cardinality(words)
    BY Zenon DEF NothingLost
  <2> DEFINE c == case
             words == Things(c.parts) \ (P!NOISE \union {"OR"})
  <2>2. Written(c)
    BY <2>1, SheetsAssumption DEF Sheets, SheetsAssumption, Written
  <2> HIDE DEF c
  <2>3. \A word \in words : \E place \in P!ParseLocations(c) : Placed(word, place)
    BY <2>2, WordPlaced
  <2>4. ASSUME words \subseteq Plain, c.paren = Nowhere, c.model = Nowhere
        PROVE  Cardinality(P!ParseLocations(c)) = Cardinality(words)
    <3>1. P!ParseLocations(c) = PlacesOf(words)
      BY <2>2, <2>4, PlainWords
    <3> HIDE DEF words
    <3>2. QED
      BY <2>4, <3>1, PlacesApart
  <2>5. QED
    BY <2>3, <2>4, Zenon DEF c, Placed, Things, Plain
<1>2. QED
  BY <1>1, SheetsKept, PTL
=============================================================================
