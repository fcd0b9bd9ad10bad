-------------------------------- MODULE JobBoard --------------------------------
(***************************************************************************)
(* The listing of offers (features/job-posting/job-posting.service.ts): the *)
(* filters, the counts beside them, the order, the pages and the number of  *)
(* new offers; and the dashboard's figures (features/dashboard).            *)
(*                                                                         *)
(* A row is a posting with the viewer's interaction; the words searched for *)
(* are one more set it is in or not.                                        *)
(***************************************************************************)
EXTENDS Matching, Sequences

CONSTANT None  \* no interaction row

Dimensions == {"companyId", "city", "country", "department", "employmentType", "remoteType"}

Statuses == {"NEW", "SEEN", "APPLIED", "DISMISSED"}

Interactions == [status : Statuses, saved : BOOLEAN, tracked : BOOLEAN]

Viewers == [profile : Profiles, followsAny : BOOLEAN]

Sorts == {"default", "match", "relevance", "title", "postedAt"}

\* JobPostingsQuery: what can be asked of postings that go by these names. The other
\* columns to sort by are like "postedAt"; a salary is one that a row pays or does not,
\* and "since" is a day, or None.
Queries(names) ==
    [closed : BOOLEAN, statuses : SUBSET Statuses, chosen : [Dimensions -> SUBSET names],
     saved : BOOLEAN, tracked : {"any", "yes", "no"}, followed : BOOLEAN, onlyMatches : BOOLEAN,
     minScore : Int, maxScore : Int, paid : BOOLEAN, since : Int \union {None},
     searched : BOOLEAN, sort : Sorts]

\* The postings of a table: each with an id of its own.
Table(rows) ==
    /\ IsFiniteSet(rows)
    /\ \A row \in rows : row.offer \in Offers /\ {row.id, row.posted, row.title, row.rank} \subseteq Int
    /\ \A row, other \in rows : row.id = other.id => row = other

\* COALESCE: no interaction row means NEW.
StatusOf(row) == IF row.interaction = None THEN "NEW" ELSE row.interaction.status

Has(row, field) == row.interaction # None /\ row.interaction[field]

RowScore(v, row) == Score(row.offer, v.profile, v.followsAny)

\* A filter value of each of the dimensions but one.
Chosen(q, row, skip) ==
    \A d \in Dimensions \ skip : q.chosen[d] = {} \/ row.says[d] \cap q.chosen[d] # {}

\* Mutant: the query of a count filters by its own dimension too.
SelectedStrict(v, rows, q, skip) ==
    {row \in rows : Chosen(q, row, {}) /\ ~row.excluded /\ (q.closed \/ ~row.closed)}

\* buildQuery, without the filters of the dimensions to skip.
Selected(v, rows, q, skip) ==
    {row \in rows :
        /\ q.closed \/ ~row.closed
        /\ q.statuses = {} \/ StatusOf(row) \in q.statuses
        /\ Chosen(q, row, skip)
        /\ q.saved => Has(row, "saved")
        /\ q.tracked = "yes" => Has(row, "tracked")
        /\ q.tracked = "no" => ~Has(row, "tracked")
        /\ q.followed => row.offer.followed
        /\ ~row.excluded
        /\ q.onlyMatches => Passes(row.offer, v.profile)
        /\ q.paid => row.pays
        /\ q.since # None => row.posted >= q.since
        /\ HasScore(v.profile, v.followsAny) /\ q.minScore > 0 => RowScore(v, row) >= q.minScore
        /\ HasScore(v.profile, v.followsAny) /\ q.maxScore < 100 => RowScore(v, row) <= q.maxScore
        /\ q.searched => row.found}

\* countBy, countPlaces: a posting counts once per value it has. The page shows the 30
\* (places: 40) values with the highest counts; here are all of them.
Facet(v, rows, q, d) ==
    LET open == Selected(v, rows, q, {d})
    IN [x \in UNION {row.says[d] : row \in open} |->
            Cardinality({row \in open : x \in row.says[d]})]
-----------------------------------------------------------------------------
SortBy(v, q) ==
    IF q.sort # "default" THEN q.sort
    ELSE IF q.searched THEN "relevance"
    ELSE IF HasScore(v.profile, v.followsAny) THEN "match" ELSE "postedAt"

\* What the rows are ordered by, ascending; dates and scores are negated.
SortKey(v, q, row) ==
    CASE SortBy(v, q) = "match" /\ HasScore(v.profile, v.followsAny) ->
            <<-RowScore(v, row), -row.posted>>
      [] SortBy(v, q) = "relevance" /\ q.searched -> <<-row.rank, -row.posted>>
      [] SortBy(v, q) = "title" -> <<row.title, 0>>
      [] OTHER -> <<-row.posted, 0>>

\* applySort: the id breaks every tie.
Before(v, q, a, b) ==
    LET x == SortKey(v, q, a)  y == SortKey(v, q, b)
    IN \/ x[1] < y[1]
       \/ x[1] = y[1] /\ x[2] < y[2]
       \/ x = y /\ a.id < b.id

\* findMany: offset and limit.
Page(v, rows, q, page, limit) ==
    LET all == Selected(v, rows, q, {})
        Rank(row) == Cardinality({other \in all : Before(v, q, other, row)})
    IN {row \in all : Rank(row) \in (page - 1) * limit .. page * limit - 1}

\* highlights: the first of a listing, at least one and at most 25 of them.
Highlights(v, rows, q, limit) ==
    Page(v, rows, q, 1, IF limit < 1 THEN 1 ELSE IF limit > 25 THEN 25 ELSE limit)

\* countNew: the offers it counts.
CountNew(v, rows) ==
    {row \in rows : ~row.closed /\ row.recent /\ row.interaction = None
        /\ Passes(row.offer, v.profile) /\ ~row.excluded
        /\ (HasScore(v.profile, v.followsAny) => RowScore(v, row) >= StrongFitScore)}
-----------------------------------------------------------------------------
(* The dashboard: a day is an offset from the oldest of ActivityDays days,  *)
(* an application the day it was sent, or 0, and its status.                *)
ActivityDays == 30

\* What a query of the dashboard asks of the listing: offers not on the board yet.
Ask(statuses, saved, score, sort) ==
    [closed |-> FALSE, statuses |-> statuses, chosen |-> [d \in Dimensions |-> {}],
     saved |-> saved, tracked |-> "no", followed |-> FALSE, onlyMatches |-> FALSE,
     minScore |-> score, maxScore |-> 100, paid |-> FALSE, since |-> None,
     searched |-> FALSE, sort |-> sort]

Strong == Ask({"NEW", "SEEN"}, FALSE, StrongFitScore, "match")
SavedUndecided == Ask({}, TRUE, 0, "postedAt")

\* overview: without a profile there are no top matches.
TopMatches(v, rows, limit) ==
    IF IsConfigured(v.profile) THEN Highlights(v, rows, Strong, limit) ELSE {}
StrongMatches(v, rows) ==
    IF IsConfigured(v.profile) THEN Selected(v, rows, Strong, {}) ELSE {}

Answered == {"INTERVIEW", "OFFER", "REJECTED"}

\* countSent: an answered application may have no date.
EverSent(applications) ==
    {a \in applications : a.sent > 0 \/ a.status \in Answered \union {"APPLIED", "GHOSTED"}}

\* responseRate: in percent, rounded; None if nothing was sent.
ResponseRate(applications) ==
    LET sent     == Cardinality(EverSent(applications))
        answered == Cardinality({a \in applications : a.status \in Answered})
    IN IF sent = 0 THEN None ELSE (200 * answered + sent) \div (2 * sent)

\* sentPerDay, buildActivity over the last days of a period: a row per day.
Activity(applications, days) ==
    [day \in 1 .. days |-> Cardinality({a \in applications : a.sent = day})]

\* streakOf: back from the last day, which may be empty.
StreakOf(activity) ==
    LET back[i \in 0 .. Len(activity)] ==
            IF i = 0 THEN 0
            ELSE IF activity[i] > 0 THEN 1 + back[i - 1]
            ELSE IF i < Len(activity) THEN 0 ELSE back[i - 1]
    IN back[Len(activity)]
=============================================================================
