-------------------------------- MODULE Readings --------------------------------
(***************************************************************************)
(* The functions that read something and keep no state: the match, the      *)
(* listing, the places and the boards. A reader fills in one sheet at a      *)
(* time; the properties compare what two functions, or one function on two   *)
(* inputs, say of it.                                                       *)
(***************************************************************************)
EXTENDS JobBoard, TLC

CONSTANTS Nowhere,                     \* see Places
          PAGE_SIZE, MAX_PAGES,        \* see Listings
          MatchCases, BoardCases,      \* the sheets to fill in
          PlaceCases, ListingCases, CopyCases, DashboardCases

ASSUME PagesAssumption == PAGE_SIZE \in Nat \ {0} /\ MAX_PAGES \in Nat \ {0}

VARIABLE sheet

P == INSTANCE Places
L == INSTANCE Listings

\* What there is to read is what it is said to be. Whether an offer says something is a
\* question with one answer.
ASSUME SheetsAssumption ==
    /\ MatchCases \subseteq [offer : Offers, profile : Profiles] /\ Unknown \notin Values
    /\ \A read \in BoardCases :
            LET names == UNION {read.query.chosen[d] : d \in Dimensions}
            IN read.viewer \in Viewers /\ Table(read.rows) /\ read.query \in Queries(names)
    /\ \A read \in PlaceCases : read.parts \in Seq(STRING) /\ read.closes \in BOOLEAN
    /\ \A read \in ListingCases :
            read.adapter \in L!Adapters /\ {read.board, read.later} \subseteq L!Boards
    /\ \A copies \in CopyCases :
            /\ Len(copies) \in Nat /\ DOMAIN copies = 1 .. Len(copies)
            /\ \A i \in DOMAIN copies : copies[i].richness \in Nat
    /\ \A read \in DashboardCases : read.days \in Nat /\ IsFiniteSet(read.applications)

Init == sheet = [kind |-> "blank"]

Fill(kind, cases) ==
    sheet.kind = "blank" /\ \E case \in cases : sheet' = [kind |-> kind, case |-> case]

Next ==
    \/ Fill("match", MatchCases)
    \/ Fill("board", BoardCases)
    \/ Fill("places", PlaceCases)
    \/ Fill("listing", ListingCases)
    \/ Fill("copies", CopyCases)
    \/ Fill("dashboard", DashboardCases)

Spec == Init /\ [][Next]_sheet

case == sheet.case
-----------------------------------------------------------------------------
\* The score, the card and the filter agree, each written on its own (score.ts,
\* reasons.ts, predicate.ts): an offer whose score is capped for missing something
\* essential, or whose card shows a miss on a criterion that counts and is compared,
\* is one that "only matches" hides. Left out: a minimum that is enough beside a
\* maximum that is not, which reads that give one bound at a time leave behind; the
\* card looks at the maximum alone.
MissIsHidden ==
    LET Minded(r) == Counts(case.profile, r.kind)
                     /\ (r.kind = "SALARY" => /\ Comparable(case.offer, case.profile)
                                              /\ case.offer.low # "above")
    IN sheet.kind = "match" /\ Passes(case.offer, case.profile) =>
            /\ ~Capped(case.offer, case.profile)
            /\ \A r \in Reasons(case.offer, case.profile) : r.met \/ ~Minded(r)

\* What an offer does not say is not held against it: its score is the one it would
\* have if the criterion were muted, no better than with what was wanted and no worse
\* than with something else, for readers who follow companies and who do not. The last
\* part supposes that there is something else to rate the offer by: one that could earn
\* points on no other criterion scores 0 (NULLIF), below an offer that says something
\* unwanted and earns points without a ceiling of their own, as a remote offer
\* without a place does on LOCATION.
UnknownNeverHurts ==
    sheet.kind = "match" =>
        \A c \in Listed \ {"REMOTE_TYPE"}, followsAny \in BOOLEAN :
            LET With(x) == Score([case.offer EXCEPT !.value[c] = x], case.profile, followsAny)
                quiet   == [case.profile EXCEPT !.weights[c] = "IGNORED"]
                muted   == Score(case.offer, quiet, followsAny)
                wanted  == case.profile.wanted[c]
            IN /\ With(Unknown) = muted
               /\ \A x \in wanted : With(x) >= muted
               /\ wanted # {} /\ Rateable(case.offer, quiet, followsAny) > 0
                  => \A x \in Values \ wanted : muted >= With(x)

\* The count beside a filter value is the number of offers it would show if it were
\* the one chosen: it ignores its own dimension and no other. So it is of every value,
\* the ones beyond the 30 or 40 the page has room for included.
FacetsPredict ==
    sheet.kind = "board" =>
        \A d \in {"city", "companyId"} :
            LET facet == Facet(case.viewer, case.rows, case.query, d)
            IN \A x \in DOMAIN facet :
                   facet[x] = Cardinality(Selected(case.viewer, case.rows,
                                            [case.query EXCEPT !.chosen[d] = {x}], {}))

\* The pages of a listing that does not change show every offer once: the order is
\* total, whatever the rows are sorted by.
PagesPartition ==
    sheet.kind = "board" =>
        LET all   == Selected(case.viewer, case.rows, case.query, {})
            At(k) == Page(case.viewer, case.rows, case.query, k, 2)
            pages == 1 .. Cardinality(case.rows)
        IN /\ UNION {At(k) : k \in pages} = all
           /\ \A k \in pages : Cardinality(At(k)) <= 2 /\ \A j \in pages \ {k} : At(j) \cap At(k) = {}

\* The figures agree with what they count. Each offer the badge counts as a new
\* strong fit (countNew) is listed under "new, only matches, 70 or more"
\* (buildQuery), a query written on its own, and is one of the dashboard's strong
\* matches, the best of which it shows, where the profile has something to score by
\* (one that has only exclusions, or ignores all it fills in, makes every offer a
\* strong match there); the dashboard shows no more answers than
\* applications sent, and its streak is the run of days that ends today or yesterday.
FiguresAddUp ==
    /\ sheet.kind = "board" =>
        CountNew(case.viewer, case.rows) \subseteq
            Selected(case.viewer, case.rows,
                [closed |-> FALSE, statuses |-> {"NEW"}, chosen |-> [d \in Dimensions |-> {}],
                 saved |-> FALSE, tracked |-> "any", followed |-> FALSE, onlyMatches |-> TRUE,
                 minScore |-> StrongFitScore, maxScore |-> 100, paid |-> FALSE, since |-> None,
                 searched |-> FALSE, sort |-> "default"], {})
    /\ sheet.kind = "board" /\ HasScore(case.viewer.profile, case.viewer.followsAny) =>
        LET strong == StrongMatches(case.viewer, case.rows) IN
        /\ CountNew(case.viewer, case.rows) \subseteq strong
        /\ \A top \in TopMatches(case.viewer, case.rows, 1), row \in strong :
               RowScore(case.viewer, top) >= RowScore(case.viewer, row)
               /\ RowScore(case.viewer, top) >= StrongFitScore
    /\ sheet.kind = "dashboard" =>
        LET rate == ResponseRate(case.applications)
            act  == Activity(case.applications, case.days)
            upTo == IF case.days > 0 /\ act[case.days] = 0 THEN case.days - 1 ELSE case.days
        IN /\ rate # None => rate <= 100
           /\ StreakOf(act) = Max({n \in 0 .. upTo : \A i \in 0 .. n - 1 : act[upTo - i] > 0})

\* The board of offers adds up: what a facet announces, what the pages show and what
\* the badge and the dashboard count are the same offers.
BoardAddsUp == FacetsPredict /\ PagesPartition /\ FiguresAddUp

\* parseLocations: no word of the field is lost, each is in a city, a region or the
\* country of some place, and a list of cities is as many places. Left out: "or" for
\* Oregon, and the bracket that "Hybrid (Paris)" leaves on its city.
NothingLost ==
    LET words == {case.parts[i] : i \in DOMAIN case.parts} \ (P!NOISE \union {"OR"})
        Kept(word, place) ==
            \/ word \in {place.city[i] : i \in DOMAIN place.city}
            \/ word = place.region
            \/ P!CountryOf(word) = place.country /\ place.country # Nowhere
    IN sheet.kind = "places" /\ ~case.closes =>
            /\ \A word \in words : \E place \in P!ParseLocations(case) : Kept(word, place)
            /\ words \subseteq {"Paris", "Austin", "Springfield"}
                    /\ case.paren = Nowhere /\ case.model = Nowhere
               => Cardinality(P!ParseLocations(case)) = Cardinality(words)

\* "A partial listing must say so", of the two adapters that know it and of boards
\* whose pages all answer: what was not read for the cap on pages is owned up to, so
\* that no offer is closed for it. And a listing without offers or an error is that
\* of a board that has none, or whose first page was not understood.
TruncatedSaysSo ==
    LET found == L!Discover(case.adapter, case.board, case.later, case.fast, case.previous)
        steady == case.board.bad = 0 /\ case.later = case.board
    IN sheet.kind = "listing" =>
        /\ case.adapter \in {"workday", "teamtailor"} /\ case.board.counts /\ steady
           => found.partial \/ found.jobs = L!All(case.board)
        /\ found.jobs = {} /\ ~found.error
           => case.board.size = 0 \/ (case.board.bad = 1 /\ case.board.how = "null")

\* Of the copies of an offer the richest is kept, and the keys kept do not depend on
\* the order the board lists them in: they are the fingerprint.
RichestKept ==
    sheet.kind = "copies" =>
        LET kept == L!NormalizeJobs(case)
            back == [i \in DOMAIN case |-> case[Len(case) + 1 - i]]
            Keys(jobs) == {job.key : job \in jobs}
        IN /\ \A i \in DOMAIN case : case[i].plausible =>
                \E job \in kept : job.key = case[i].key /\ job.richness >= case[i].richness
           /\ Cardinality(kept) = Cardinality(Keys(kept))
           /\ Keys(kept) = Keys(L!NormalizeJobs(back))

\* A listing says of a board what was read of it: it owns up to what it left out, and
\* of the copies it keeps the richest.
ListingHonest == TruncatedSaysSo /\ RichestKept
=============================================================================
