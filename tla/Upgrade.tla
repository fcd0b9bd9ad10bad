------------------------------- MODULE Upgrade -------------------------------
(***************************************************************************)
(* The four migrations that fold rows together or write history: offers      *)
(* become global, offers get the key of their opening, companies get one      *)
(* name each, and the journal is seeded from what the tables hold.            *)
(*                                                                         *)
(* A migration is a step: it runs in a transaction when the API starts, and    *)
(* where a constraint refuses a row the start fails and nothing has changed.   *)
(* Rows carry the order they were created in as their identity, so that the    *)
(* oldest of a group is its minimum. At the first release an offer was stored  *)
(* once per user, with what the user did in its row: here, as later, that is a  *)
(* mark of its own.                                                         *)
(***************************************************************************)
EXTENDS Naturals, FiniteSets, FiniteSetsExt, Functions

CONSTANTS Users, Urls, Ids, Keys,
          NoId,            \* an offer whose board gives none
          NoApp,           \* a mark without an application
          OldTables        \* the tables the migrations may meet, each with its release

VARIABLES release,         \* how many of the migrations have run
          postings,        \* job_posting: id -> [company, url, ext, key]
          marks,           \* what each user did: [user, posting, status, saved, app]
          companies,       \* company: id -> [name, monitored], names folded
          watches,         \* company_watch: <<user, company>>
          applications,    \* application: id -> [company, status]
          journal,         \* job_event: [type, user, about]
          failed           \* a constraint refused a row

vars == <<release, postings, marks, companies, watches, applications, journal, failed>>

Releases == 0 .. 4

\* The tables, as one record.
Now == [release |-> release, postings |-> postings, marks |-> marks, companies |-> companies,
        watches |-> watches, applications |-> applications]

\* What refers to a row refers to one that is there.
Refers(t) ==
    /\ t.release \in Releases
    /\ DOMAIN t.postings \subseteq Nat /\ DOMAIN t.companies \subseteq Nat
    /\ \A p \in DOMAIN t.postings :
          t.postings[p] \in [company : DOMAIN t.companies, url : Urls, ext : Ids \union {NoId},
                             key : Keys]
    /\ t.marks \subseteq [user : Users, posting : DOMAIN t.postings,
                          status : {"NEW", "SEEN", "DISMISSED", "APPLIED"}, saved : BOOLEAN,
                          app : DOMAIN t.applications \union {NoApp}, since : Nat]
    /\ \A c \in DOMAIN t.companies : t.companies[c] \in [name : STRING, monitored : BOOLEAN]
    /\ t.watches \subseteq Users \X DOMAIN t.companies
    /\ \A x \in DOMAIN t.applications :
          t.applications[x] \in [company : DOMAIN t.companies, status : STRING, live : BOOLEAN]

TypeOK == failed \in BOOLEAN /\ Refers(Now)

-----------------------------------------------------------------------------
(* What the migrations share.                                              *)

\* The CASE of the ORDER BY: APPLIED before DISMISSED before SEEN before NEW,
\* then the one with an application, then the saved one.
Rank(m) == CASE m.status = "APPLIED" -> 0 [] m.status = "DISMISSED" -> 1
             [] m.status = "SEEN" -> 2 [] OTHER -> 3

Acted(m) == m.status # "NEW" \/ m.saved \/ m.app # NoApp

Engagement(m) == 4 * Rank(m) + (IF m.app = NoApp THEN 2 ELSE 0) + (IF m.saved THEN 0 ELSE 1)

\* DISTINCT ON, ORDER BY "createdAt", "id": the oldest row of each group.
Canonical(key) == [p \in DOMAIN key |-> Min({q \in DOMAIN key : key[q] = key[p]})]
Losing(key) == {p \in DOMAIN key : Canonical(key)[p] # p}
Without(rows, losing) == Restrict(rows, DOMAIN rows \ losing)

\* DISTINCT ON (user, canonical): of the marks that would move to one row, the
\* one the user engaged with most; equals are any of them.
BestOf(some, oldest) ==
    LET Best(u, c) == CHOOSE m \in some :
            /\ m.user = u /\ oldest[m.posting] = c
            /\ \A n \in some : (n.user = u /\ oldest[n.posting] = c) =>
                   Engagement(m) <= Engagement(n)
    IN  {[Best(m.user, oldest[m.posting]) EXCEPT !.posting = oldest[@]] : m \in some}

\* A merge that deletes the copies with what was done with them.
MergedWithoutMarks(held, key) == {m \in held : m.posting \notin Losing(key)}

\* The marks of the losing copies move, ON CONFLICT DO NOTHING: what the user did
\* with the surviving copy stands. The copies are deleted, their marks with them.
Merged(held, key) ==
    LET moved == BestOf({m \in held : m.posting \in Losing(key)}, Canonical(key))
        taken == {<<m.user, m.posting>> : m \in held}
    IN  {m \in held : m.posting \notin Losing(key)}
            \union {m \in moved : <<m.user, m.posting>> \notin taken}

\* The columns of the keys, where they are defined.
Url(rows) == [p \in DOMAIN rows |-> <<rows[p].company, rows[p].url>>]
Key(rows) == [p \in DOMAIN rows |-> <<rows[p].company, rows[p].key>>]
Ext(rows) == [p \in {q \in DOMAIN rows : rows[q].ext # NoId} |-> <<rows[p].company, rows[p].ext>>]

Fails == failed' = TRUE /\ UNCHANGED <<release, postings, marks, companies, watches,
                                       applications, journal>>

-----------------------------------------------------------------------------
(* The migrations.                                                         *)

\* One row per company and URL. A mark that says nothing (NEW, not saved, not
\* pushed) is not stored. A board that gives one id to two URLs is refused.
GlobalOffers ==
    LET left == Without(postings, Losing(Url(postings)))
        acted == {m \in marks : Acted(m)}
    IN  IF Losing(Ext(left)) = {}
        THEN /\ release' = 1
             /\ postings' = left
             /\ marks' = BestOf(acted, Canonical(Url(postings)))
             /\ UNCHANGED <<companies, watches, applications, journal, failed>>
        ELSE Fails

\* The way back: an offer is its first marker's again, and goes where nobody
\* marked it. A user cannot hold one URL twice, not even of two companies.
Rollback ==
    LET First(p) == CHOOSE m \in marks : m.posting = p
                        /\ \A n \in marks : n.posting = p => m.since <= n.since
        kept == {First(m.posting) : m \in marks}
    IN  IF \A m, n \in kept :
               (m.user = n.user /\ postings[m.posting].url = postings[n.posting].url) => m = n
        THEN /\ release' = 0
             /\ postings' = Restrict(postings, {m.posting : m \in kept})
             /\ marks' = kept
             /\ UNCHANGED <<companies, watches, applications, journal, failed>>
        ELSE Fails

\* One row per company and opening.
DedupKey ==
    /\ release' = 2
    /\ postings' = Without(postings, Losing(Key(postings)))
    /\ marks' = Merged(marks, Key(postings))
    /\ UNCHANGED <<companies, watches, applications, journal, failed>>

\* One company per name, the oldest. Its postings, with those that move in, are
\* collapsed by each of their keys in turn; a watch of a copy goes where the user
\* watches the oldest, and moves elsewhere, where two of them cannot both land. A
\* copy that is monitored makes the oldest so, but only one copy is looked at.
CompanyNames ==
    LET home == Canonical([c \in DOMAIN companies |-> companies[c].name])
        moved == [p \in DOMAIN postings |-> [postings[p] EXCEPT !.company = home[@]]]
        byKey == Without(moved, Losing(Key(moved)))
        byUrl == Without(byKey, Losing(Url(byKey)))
        copies == {w \in watches : home[w[2]] # w[2] /\ <<w[1], home[w[2]]>> \in watches}
        landed == {<<w[1], home[w[2]]>> : w \in watches \ copies}
        Looked(c) == LET others == {d \in DOMAIN home : home[d] = c /\ d # c}
                     IN  IF others = {} THEN {c} ELSE others
    IN  IF Cardinality(landed) = Cardinality(watches \ copies)
        THEN /\ release' = 3
             /\ postings' = Without(byUrl, Losing(Ext(byUrl)))
             /\ marks' = Merged(Merged(Merged(marks, Key(moved)), Url(byKey)), Ext(byUrl))
             /\ watches' = landed
             /\ applications' = [x \in DOMAIN applications |->
                                    [applications[x] EXCEPT !.company = home[@]]]
             /\ \E look \in [Range(home) -> DOMAIN home] :
                    /\ \A c \in Range(home) : look[c] \in Looked(c)
                    /\ companies' = [c \in Range(home) |->
                           [companies[c] EXCEPT !.monitored = @ \/ companies[look[c]].monitored]]
             /\ UNCHANGED <<journal, failed>>
        ELSE Fails

\* What the tables can still tell becomes the first entries of the journal.
Ended == [INTERVIEW |-> "INTERVIEW_SCHEDULED", OFFER |-> "OFFER_RECEIVED",
          REJECTED |-> "REJECTION_RECEIVED", GHOSTED |-> "MARKED_GHOSTED"]

JobEvents ==
    LET live == {x \in DOMAIN applications : applications[x].live}
        sent == {x \in live : applications[x].status # "WISHLIST"}
        over == {x \in live : applications[x].status \in DOMAIN Ended}
        Of(type, some) == {[type |-> type, about |-> <<m.user, m.posting>>] : m \in some}
        Was(type, some) == {[type |-> type, about |-> x] : x \in some}
    IN  /\ release' = 4
        /\ journal' = Of("POSTING_VIEWED", marks)
               \union Of("POSTING_SAVED", {m \in marks : m.saved})
               \union Of("POSTING_DISMISSED", {m \in marks : m.status = "DISMISSED"})
               \union Was("APPLICATION_CREATED", live) \union Was("APPLICATION_SENT", sent)
               \union (UNION {Was(Ended[applications[x].status], {x}) : x \in over})
        /\ UNCHANGED <<postings, marks, companies, watches, applications, failed>>

-----------------------------------------------------------------------------
Begin(old) ==
    /\ release = old.release /\ postings = old.postings /\ marks = old.marks
    /\ companies = old.companies /\ watches = old.watches
    /\ applications = old.applications
    /\ journal = {} /\ failed = FALSE

Init == \E old \in OldTables : Begin(old)

Next ==
    /\ ~failed
    /\ \/ release = 0 /\ GlobalOffers
       \/ release = 1 /\ (DedupKey \/ Rollback)
       \/ release = 2 /\ CompanyNames
       \/ release = 3 /\ JobEvents

Spec == Init /\ [][Next]_vars

-----------------------------------------------------------------------------
(* The properties.                                                         *)

\* The constraints of each release.
Constraints(t) ==
    /\ t.release >= 1 =>
          /\ Losing(Url(t.postings)) = {} /\ Losing(Ext(t.postings)) = {}
          /\ \A m, n \in t.marks : (m.user = n.user /\ m.posting = n.posting) => m = n
    /\ t.release >= 2 => Losing(Key(t.postings)) = {}
    /\ t.release >= 3 => Losing([c \in DOMAIN t.companies |-> t.companies[c].name]) = {}

\* What a migration may find: tables that the release before it left.
Sound(t) == Refers(t) /\ Constraints(t)

\* Each release keeps the constraints it declared, whatever it merged: a user has
\* one mark on an offer, a company no two offers of one URL, id or opening, a name
\* one company.
SchemaHolds == Constraints(Now)

\* Rows that may be one offer: of companies of one name and alike by one of their keys.
Like(p, q) ==
    LET a == postings[p]  b == postings[q]
    IN  /\ companies[a.company].name = companies[b.company].name
        /\ a.url = b.url \/ a.key = b.key \/ (a.ext = b.ext /\ a.ext # NoId)

\* The same through rows between: no set of rows that takes in what is like them parts the two.
Akin(p, q) ==
    \A some \in SUBSET DOMAIN postings :
        (p \in some /\ \A a \in some, b \in DOMAIN postings : Like(a, b) => b \in some) => q \in some

\* Whoever did something with an offer still has a mark on that offer afterwards,
\* however many copies were folded and in how many passes: "Everything a user did
\* survives, pointed at the surviving row" (JobPostingDedupKey, line 70).
MarksFollow ==
    [][release' > release =>
          \A m \in marks : Acted(m) =>
              \E n \in marks' : n.user = m.user /\ Akin(m.posting, n.posting)]_vars

\* No migration that folds rows leaves the tables in a shape it forbids, or a user
\* without a mark on what they had marked.
UpgradeKeeps == [](TypeOK /\ SchemaHolds) /\ MarksFollow

\* "Where the same user held two copies of one offer, the one they engaged with
\* most wins" (JobPostingDedupKey, line 71).
MostEngagedWins ==
    [][(release = 1 /\ release' = 2) =>
          \A m \in marks : \E n \in marks' :
              /\ n.user = m.user /\ Key(postings)[n.posting] = Key(postings)[m.posting]
              /\ Rank(n) <= Rank(m)]_vars
=============================================================================
