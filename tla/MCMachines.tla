------------------------------- MODULE MCMachines -------------------------------
(***************************************************************************)
(* Four machines that share nothing: the postings of one company, the digests,  *)
(* the seeding of boards and the migrations. A behaviour is one of them moving  *)
(* while the others stay as they began, so that their states add up and do not  *)
(* multiply.                                                               *)
(***************************************************************************)
EXTENDS MCJobPostings, TLC

CONSTANTS MaxOffers, MaxDigests, MaxChanges, MAX_OFFERS_PER_DIGEST, WINDOW, ATTEMPTS,
          MAX_STALLED, Notifiers,
          Runs, Words, Platforms, Nothing, Hand, acme, MaxEdits,
          Users, v1, v2, NoApp, app, OldTables

VARIABLES which,
    clock, hidden, touched, row, notifier, form, changes, digests, overlapped, stopped, excused,
    companies, run, adding, edits,
    release, offers, marks, firms, watches, applications, journal, failed

Alerts == INSTANCE JobAlerts
Seed == INSTANCE Seeding WITH Candidates <- {<<acme, "slug">>, <<acme, "odd">>}

\* The bounds of the digests and of what the queue retries are numbers.
ASSUME BoundsAssumption ==
    /\ MaxOffers \in Nat /\ MaxDigests \in Nat /\ MaxChanges \in Nat
    /\ MAX_OFFERS_PER_DIGEST \in Nat /\ WINDOW \in Nat
    /\ ATTEMPTS \in Nat /\ MAX_STALLED \in Nat

\* Nobody who seeds is called Nothing, a URL that somebody set is not the lack of one, and the
\* name that is tried under two spellings is one of the names.
ASSUME SeedAssumption == Nothing \notin Runs /\ Hand # Nothing /\ acme \in Words

alertVars == <<clock, hidden, touched, row, notifier, form, changes, digests, overlapped,
               stopped, excused>>
seedVars == <<companies, run, adding, edits>>
upgradeVars == <<release, offers, marks, firms, watches, applications, journal, failed>>
mcVars == <<which, vars, alertVars, seedVars, upgradeVars>>

-----------------------------------------------------------------------------
(* The tables a migration may find.                                        *)

Mark(user, id, status) ==
    [user |-> user, posting |-> id, status |-> status, saved |-> id = 1,
     app |-> IF status = "APPLIED" THEN app ELSE NoApp, since |-> id]

Row(c, url, ext, key) == [company |-> c, url |-> url, ext |-> ext, key |-> key]

Firm(name, monitored) == [name |-> name, monitored |-> monitored]

Tables(r, some, held, named, watched) ==
    [release |-> r, postings |-> some, marks |-> held, companies |-> named, watches |-> watched,
     applications |-> [x \in {app} |->
         [company |-> Cardinality(DOMAIN named), status |-> "REJECTED", live |-> TRUE]]]

Shapes == [url : {u1, u2}, ext : {e1, NoId}, key : {k1, k2}]
Three(x, y, z) == 1 :> x @@ 2 :> y @@ 3 :> z

\* Two users' rows of one company's board, before offers were shared.
PerUser ==
    {Tables(0, [n \in 1 .. 3 |-> IF n = 3 THEN Row(1, u3, e3, k2)
                                ELSE Row(1, shape[n].url, shape[n].ext, shape[n].key)],
            {Mark(IF n = 2 THEN v2 ELSE v1, n, status[n]) : n \in 1 .. 3},
            1 :> Firm("acme", TRUE), {}) :
        shape \in [1 .. 2 -> Shapes], status \in [1 .. 3 -> {"NEW", "SEEN", "APPLIED"}]}

\* Copies of an opening under URLs of their own, before offers had the key of one.
Keyless ==
    {Tables(1, Three(Row(1, u1, e1, key[1]), Row(1, u2, NoId, key[2]), Row(1, u3, e3, key[3])),
            {Mark(v1, n, status[n]) : n \in {m \in 1 .. 3 : status[m] # "NEW"}}
                \union {Mark(v2, n, "SEEN") : n \in other},
            1 :> Firm("acme", TRUE), {}) :
        key \in [1 .. 3 -> {k1, k2}], status \in [1 .. 3 -> {"NEW", "SEEN", "DISMISSED", "APPLIED"}],
        other \in {{}, {2}, {2, 3}}}

\* A company under three spellings, or two and another company.
Spellings ==
    {Tables(2, Three(Row(1, u1, e1, k1), Row(2, shape[2].url, shape[2].ext, shape[2].key),
                     Row(3, shape[3].url, shape[3].ext, shape[3].key)),
            {Mark(v1, n, IF n = 1 THEN "SEEN" ELSE "APPLIED") : n \in marked},
            Three(Firm("acme", FALSE), Firm("acme", TRUE), Firm(third, FALSE)), watched) :
        shape \in [2 .. 3 -> Shapes], marked \in SUBSET (1 .. 3), third \in {"acme", "other"},
        watched \in {{<<v1, 2>>, <<v1, 3>>}, {<<v1, 1>>, <<v1, 2>>}, {<<v1, 2>>, <<v2, 3>>}}}

\* What the migrations are run on.
AllTables == PerUser \union Keyless \union Spellings

Migrations ==
    INSTANCE Upgrade WITH postings <- offers, companies <- firms

\* The tables keep the constraints of their release, and there are some.
ASSUME TablesAssumption == OldTables # {} /\ \A old \in OldTables : Migrations!Sound(old)

-----------------------------------------------------------------------------
\* The postings as they begin when it is another machine that moves.
NothingListed ==
    /\ setting = CHOOSE s \in Settings : \A b \in Boards : {} \in s.listings[b]
    /\ listed = [b \in Boards |-> {}]

MCInit ==
    /\ which \in {"postings", "alerts", "seed", "upgrade"}
    /\ Init /\ (which = "postings" \/ NothingListed)
    /\ Alerts!Init /\ Seed!Init
    /\ \/ which = "upgrade" /\ Migrations!Init
       \/ which # "upgrade" /\ Migrations!Begin(CHOOSE old \in OldTables : TRUE)

MCNext ==
    \/ which = "postings" /\ Next /\ UNCHANGED <<which, alertVars, seedVars, upgradeVars>>
    \/ which = "alerts" /\ Alerts!Next /\ UNCHANGED <<which, vars, seedVars, upgradeVars>>
    \/ which = "seed" /\ Seed!Next /\ UNCHANGED <<which, vars, alertVars, upgradeVars>>
    \/ which = "upgrade" /\ Migrations!Next /\ UNCHANGED <<which, vars, alertVars, seedVars>>

MCSpec == MCInit /\ [][MCNext]_mcVars /\ Alerts!Fairness

\* The first property of a machine carries the types of its state.

\* See JobAlerts: exactly one digest for each match, but for the named cases.
EachAnnouncedOnce == Alerts!TypeOK /\ Alerts!EachAnnouncedOnce

\* See JobAlerts: a queued digest is mailed or given up.
DigestsSettle == Alerts!DigestsSettle

\* See Seeding: one company a name, one name a board, and what people wrote of it.
SeedKeeps == []Seed!TypeOK /\ Seed!SeedKeeps

\* See Upgrade: the constraints hold and everybody keeps a mark on what they marked.
UpgradeKeeps == Migrations!UpgradeKeeps

\* See Upgrade: of two copies, the mark the user engaged with most stays.
MostEngagedWins == Migrations!MostEngagedWins
=============================================================================
