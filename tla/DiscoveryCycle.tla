--------------------------- MODULE DiscoveryCycle ---------------------------
(***************************************************************************)
(* The crawl that keeps the stored offers a mirror of the vendors' boards. *)
(*                                                                         *)
(* A worker lists the crawl sources, reads every board (pipeline.ts),      *)
(* posts what it read in chunks and closes what the board dropped          *)
(* (ingest.ts), and stores the source's new state (cycle.ts).  The API     *)
(* side of each call is part of the action that makes it, so a step of     *)
(* this module is one request of the worker.  Boards, and the companies    *)
(* behind them, change between any two steps; a worker can stop between    *)
(* any two steps; any call can fail, before or after the API applied it.   *)
(*                                                                         *)
(* An offer is identified by itself here: what makes two postings the same *)
(* offer, and the SQL statements of one batch, are below this module.      *)
(***************************************************************************)
EXTENDS SourceSchedule, FiniteSets

CONSTANTS Workers,          \* ATS worker processes (two overlap in a deploy)
          Sources,          \* crawled careers URLs
          Companies,
          Offers,
          NoHash, NoSource, NoCompany,   \* null
          Concurrency,      \* sources one worker reads at a time
          ChunkSize,        \* offers in one batch request
          RequiresBrowser,  \* sources that only a full pass reads
          Capped,           \* boards longer than their adapter's MAX_PAGES
          Silent,           \* boards whose adapter hides a failed page
          MayFail           \* the calls that can fail, and whether workers crash

CONSTANTS Pinned,           \* [Sources -> SUBSET Offers]: never taken down
          Dated,            \* offers with an end date
          Movers,           \* companies whose careers URL changes
          AgeCap,           \* bound: ages saturate here
          FailureCap,       \* bound: failureCount saturates here
          FaultCap          \* bound: failed calls and crashes in a behaviour

Failures == {"list", "board", "batch", "reconcile", "state", "expire", "notify", "crash"}

ASSUME CrawlAssumption ==
    /\ Concurrency \in Nat \ {0}
    /\ ChunkSize \in Nat \ {0}
    /\ NoSource \notin Sources
    /\ NoCompany \notin Companies
    /\ RequiresBrowser \subseteq Sources
    /\ Capped \subseteq Sources
    /\ Silent \subseteq Sources
    /\ MayFail \subseteq Failures
    /\ Pinned \in [Sources -> SUBSET Offers]
    /\ Dated \subseteq Offers
    /\ Movers \subseteq Companies
    /\ AgeCap \in Nat
    /\ FailureCap \in Nat
    /\ FaultCap \in Nat

VARIABLES
    board,      \* [Sources -> SUBSET Offers]: what the vendor lists
    behind,     \* [Sources -> SUBSET Companies]: the companies at each URL
    lapsed,     \* dated offers whose end date has passed
    posting,    \* job_posting: one row per company and offer
    jobSource,  \* job_source: one row per crawled URL
    digestDue,  \* a row was inserted since matches were last computed
    cycle,      \* [Workers -> the cycle it runs]
    task,       \* [Workers -> [Sources -> the work on that source]]
    faults      \* failed calls and crashes so far

database == <<posting, jobSource, digestDue>>
world == <<board, behind, lapsed>>
vars == <<world, database, cycle, task, faults>>

Hashes == {NoHash} \union SUBSET Offers  \* fingerprintJobs: a digest of the id set

SourceStates == [hash         : Hashes,
                 failureCount : 0..FailureCap,
                 sinceChecked : 0..AgeCap,
                 sinceSynced  : 0..AgeCap]

Postings == [status : {"absent", "open", "removed", "expired"},
             source : Sources \union {NoSource}]

Tasks == [stage    : {"none", "queued", "light", "full", "ingest",
                      "reconcile", "save", "done"},
          known    : SourceStates,           \* the source as it was listed
          previous : Hashes,                 \* options.previous.contentHash
          listing  : SUBSET Offers,          \* the jobs read so far
          partial  : BOOLEAN,
          outcome  : {"none", "unmodified", "empty", "failed", "synced"},
          company  : Companies \union {NoCompany},  \* being ingested
          pending  : SUBSET Companies,       \* still to ingest
          todo     : SUBSET Offers]          \* still to post for company

Cycles == [phase    : {"idle", "listing", "sources", "notify"},
           mode     : Modes,
           inserted : BOOLEAN]

NeverChecked == [hash |-> NoHash, failureCount |-> 0,
                 sinceChecked |-> AgeCap, sinceSynced |-> AgeCap]

NoTask == [stage |-> "none", known |-> NeverChecked, previous |-> NoHash,
           listing |-> {}, partial |-> FALSE, outcome |-> "none",
           company |-> NoCompany, pending |-> {}, todo |-> {}]

NoCycle == [phase |-> "idle", mode |-> "full", inserted |-> FALSE]

NoRow == [status |-> "absent", source |-> NoSource]

TypeOK ==
    /\ board \in [Sources -> SUBSET Offers]
    /\ behind \in [Sources -> SUBSET Companies]
    /\ lapsed \in SUBSET Dated
    /\ posting \in [Companies -> [Offers -> Postings]]
    /\ jobSource \in [Sources -> SourceStates]
    /\ digestDue \in BOOLEAN
    /\ cycle \in [Workers -> Cycles]
    /\ task \in [Workers -> [Sources -> Tasks]]
    /\ faults \in 0..FaultCap

Init ==
    /\ board \in [Sources -> SUBSET Offers]
    /\ \A s \in Sources : Pinned[s] \subseteq board[s]
    /\ behind \in [Sources -> SUBSET Companies]
    /\ lapsed = {}
    /\ posting = [c \in Companies |-> [o \in Offers |-> NoRow]]
    /\ jobSource = [s \in Sources |-> NeverChecked]
    /\ digestDue = FALSE
    /\ cycle = [w \in Workers |-> NoCycle]
    /\ task = [w \in Workers |-> [s \in Sources |-> NoTask]]
    /\ faults = 0
-----------------------------------------------------------------------------
(***************************************************************************)
(* The world outside: boards, companies, time.                             *)
(***************************************************************************)
Publish(s, o) ==
    /\ o \notin board[s]
    /\ board' = [board EXCEPT ![s] = @ \union {o}]
    /\ UNCHANGED <<behind, lapsed, database, cycle, task, faults>>

Withdraw(s, o) ==
    /\ o \in board[s] \ Pinned[s]
    /\ board' = [board EXCEPT ![s] = @ \ {o}]
    /\ UNCHANGED <<behind, lapsed, database, cycle, task, faults>>

\* A company or a watch gets this URL (seeding, an edit), or loses it.
Join(c, s) ==
    /\ c \in Movers \ behind[s]
    /\ behind' = [behind EXCEPT ![s] = @ \union {c}]
    /\ UNCHANGED <<board, lapsed, database, cycle, task, faults>>

Leave(c, s) ==
    /\ c \in Movers \intersect behind[s]
    /\ behind' = [behind EXCEPT ![s] = @ \ {c}]
    /\ UNCHANGED <<board, lapsed, database, cycle, task, faults>>

Lapse(o) ==
    /\ o \in Dated \ lapsed
    /\ lapsed' = lapsed \union {o}
    /\ UNCHANGED <<board, behind, database, cycle, task, faults>>

Older(source) == [source EXCEPT !.sinceChecked = AtMost(@ + 1, AgeCap),
                                !.sinceSynced = AtMost(@ + 1, AgeCap)]

\* One hour.  A listed source that waits for its turn ages with the clock:
\* planSource subtracts its dates from the time the turn comes.
Tick ==
    /\ jobSource' = [s \in Sources |-> Older(jobSource[s])]
    /\ task' = [w \in Workers |-> [s \in Sources |->
                  IF task[w][s].stage = "queued"
                  THEN [task[w][s] EXCEPT !.known = Older(@)]
                  ELSE task[w][s]]]
    /\ UNCHANGED <<world, posting, digestDue, cycle, faults>>
-----------------------------------------------------------------------------
(***************************************************************************)
(* What the steps of a cycle share.                                        *)
(***************************************************************************)
Fault(call) ==
    /\ call \in MayFail
    /\ faults < FaultCap
    /\ faults' = faults + 1

Become(w, s, t) == task' = [task EXCEPT ![w][s] = t]

InPhase(w, phase) == cycle[w].phase = phase

Working(w) == {s \in Sources : task[w][s].stage \notin {"none", "queued", "done"}}

Saving(t, outcome) ==
    [NoTask EXCEPT !.stage = "save", !.outcome = outcome,
                   !.listing = IF outcome = "synced" THEN t.listing ELSE {}]

\* Mutant: the loop over source.companies returns after its first company.
FirstCompanyOnly(t) ==
    IF t.pending = {} \/ t.company # NoCompany
    THEN {Saving(t, "synced")}
    ELSE {[t EXCEPT !.stage = "ingest", !.company = c,
                    !.pending = @ \ {c}, !.todo = t.listing] : c \in t.pending}

\* for (const company of source.companies), in any order.
NextCompany(t) ==
    IF t.pending = {}
    THEN {Saving(t, "synced")}
    ELSE {[t EXCEPT !.stage = "ingest", !.company = c,
                    !.pending = @ \ {c}, !.todo = t.listing] : c \in t.pending}

\* Mutants: a partial listing is reconciled too; nothing ever is.
ReconcileAnyListing(t) == {[t EXCEPT !.stage = "reconcile"]}

ReconcileNothing(t) == NextCompany(t)

\* The end of a company's chunks: a partial listing is never reconciled.
AfterChunks(t) ==
    IF t.partial THEN NextCompany(t) ELSE {[t EXCEPT !.stage = "reconcile"]}
-----------------------------------------------------------------------------
(***************************************************************************)
(* Starting a cycle and a source.                                          *)
(***************************************************************************)
\* A cron tick or a trigger; ignored while a cycle of this worker runs.
StartCycle(w, mode) ==
    /\ InPhase(w, "idle")
    /\ cycle' = [cycle EXCEPT ![w] = [phase |-> "listing", mode |-> mode, inserted |-> FALSE]]
    /\ UNCHANGED <<world, database, task, faults>>

ListSources(w) ==
    /\ InPhase(w, "listing")
    /\ cycle' = [cycle EXCEPT ![w].phase = "sources"]
    /\ task' = [task EXCEPT ![w] = [s \in Sources |->
                  IF behind[s] = {} THEN NoTask
                  ELSE [NoTask EXCEPT !.stage = "queued", !.known = jobSource[s],
                                      !.pending = behind[s]]]]
    /\ UNCHANGED <<world, database, faults>>

ListSourcesFails(w) ==
    /\ InPhase(w, "listing")
    /\ Fault("list")
    /\ cycle' = [cycle EXCEPT ![w] = NoCycle]
    /\ UNCHANGED <<world, database, task>>

Plan(w, s) == PlanSource(task[w][s].known, s \in RequiresBrowser, cycle[w].mode)

SkipSource(w, s) ==
    /\ task[w][s].stage = "queued"
    /\ Cardinality(Working(w)) < Concurrency
    /\ Plan(w, s).skip
    /\ Become(w, s, [NoTask EXCEPT !.stage = "done"])
    /\ UNCHANGED <<world, database, cycle, faults>>

StartSource(w, s) ==
    /\ task[w][s].stage = "queued"
    /\ Cardinality(Working(w)) < Concurrency
    /\ ~Plan(w, s).skip
    /\ Become(w, s, [task[w][s] EXCEPT
            !.stage = IF Plan(w, s).fastOnly THEN "light" ELSE "full",
            !.previous = IF Plan(w, s).reconcile THEN NoHash ELSE task[w][s].known.hash,
            !.known = NeverChecked])
    /\ UNCHANGED <<world, database, cycle, faults>>
-----------------------------------------------------------------------------
(***************************************************************************)
(* Reading a board.                                                        *)
(***************************************************************************)
Answer(jobs, partial, failed) ==
    [jobs |-> jobs, partial |-> partial, failed |-> failed]

Truncations(s) == {jobs \in SUBSET board[s] : jobs # {} /\ jobs # board[s]}

\* The board is read to its end, or to a page limit that the adapter reports.
GoodAnswers(s) ==
    {Answer(board[s], FALSE, FALSE)}
    \union IF s \in Capped THEN {Answer(jobs, TRUE, FALSE) : jobs \in Truncations(s)}
           ELSE {}

\* The request throws; or it is answered by something http.json turns into
\* null, which on the first page reads as an empty board and on a later one,
\* for an adapter that stops there, as the end of the board.
BadAnswers(s) ==
    {Answer({}, FALSE, TRUE), Answer({}, FALSE, FALSE)}
    \union IF s \in Silent THEN {Answer(jobs, FALSE, FALSE) : jobs \in Truncations(s)}
           ELSE {}

Read(s, a) ==
    \/ a \in GoodAnswers(s) /\ UNCHANGED faults
    \/ a \in BadAnswers(s) /\ Fault("board")

\* What a finished read leads to.
Digested(t, failed) ==
    IF t.listing = {} THEN {Saving(t, IF failed THEN "failed" ELSE "empty")}
    ELSE IF t.listing = t.previous THEN {Saving(t, "unmodified")}
    ELSE NextCompany(t)

\* The cheap listing of a fast pass: enough when it shows nothing new.
ReadLight(w, s) ==
    /\ task[w][s].stage = "light"
    /\ \E a \in GoodAnswers(s) \union BadAnswers(s) :
        LET read == [task[w][s] EXCEPT !.listing = a.jobs, !.partial = a.partial]
        IN  /\ Read(s, a)
            /\ \E t \in IF a.jobs = {} \/ a.jobs = read.previous
                        THEN Digested(read, a.failed)
                        ELSE {[read EXCEPT !.stage = "full"]} : Become(w, s, t)
    /\ UNCHANGED <<world, database, cycle>>

\* The full listing; when it comes back empty the light one stands in.
ReadFull(w, s) ==
    /\ task[w][s].stage = "full"
    /\ \E a \in GoodAnswers(s) \union BadAnswers(s) :
        LET read == [task[w][s] EXCEPT !.listing = IF a.jobs = {} THEN @ ELSE a.jobs,
                                       !.partial = @ \/ a.partial]
        IN  /\ Read(s, a)
            /\ \E t \in Digested(read, a.failed) : Become(w, s, t)
    /\ UNCHANGED <<world, database, cycle>>
-----------------------------------------------------------------------------
(***************************************************************************)
(* Posting what was read, closing what was not.                            *)
(***************************************************************************)
Chunks(todo) ==
    {chunk \in SUBSET todo :
        Cardinality(chunk) = AtMost(ChunkSize, Cardinality(todo))}

Unknown(c, chunk) == {o \in chunk : posting[c][o].status = "absent"}

\* createBatch ran to its end: every offer of the chunk is open, under s.
Ingested(c, s, chunk) ==
    [posting EXCEPT ![c] = [o \in Offers |->
        IF o \in chunk THEN [status |-> "open", source |-> s] ELSE @[o]]]

\* createBatch stopped between two statements: what was unknown is inserted,
\* some rows are merged (they get this source), some of those reopened.
Interruptions(c, s, chunk) ==
    {[posting EXCEPT ![c] = [o \in Offers |->
        IF o \in Unknown(c, chunk) \union touched THEN [status |-> "open", source |-> s]
        ELSE IF o \in merged THEN [@[o] EXCEPT !.source = s] ELSE @[o]]] :
     merged \in SUBSET chunk, touched \in SUBSET chunk}

\* Mutant: only the first chunk of a listing is posted.
FirstChunkOnly(t, chunk) == AfterChunks([t EXCEPT !.todo = {}])

\* The rest of a task once chunk is posted or given up.
Posted(t, chunk) ==
    IF t.todo \subseteq chunk THEN AfterChunks([t EXCEPT !.todo = {}])
    ELSE {[t EXCEPT !.todo = @ \ chunk]}

PostChunk(w, s) ==
    LET t == task[w][s] IN
    /\ t.stage = "ingest"
    /\ \E chunk \in Chunks(t.todo) :
        LET new == Unknown(t.company, chunk) # {}
        IN  /\ posting' = Ingested(t.company, s, chunk)
            /\ digestDue' = (digestDue \/ new)
            /\ cycle' = [cycle EXCEPT ![w].inserted = @ \/ new]
            /\ \E u \in Posted(t, chunk) : Become(w, s, u)
    /\ UNCHANGED <<world, jobSource, faults>>

\* The request fails before, between or after the statements of the batch; the
\* worker logs it and goes on to the next chunk.
PostChunkFails(w, s) ==
    LET t == task[w][s] IN
    /\ t.stage = "ingest"
    /\ Fault("batch")
    /\ \E chunk \in Chunks(t.todo) :
        /\ posting' \in {posting} \union Interruptions(t.company, s, chunk)
        /\ digestDue' = (digestDue \/ \E o \in Unknown(t.company, chunk) :
                                         posting'[t.company][o].status # "absent")
        /\ \E u \in Posted(t, chunk) : Become(w, s, u)
    /\ UNCHANGED <<world, jobSource, cycle>>

\* Mutant: what the board dropped is deleted instead of closed.
ReconciledDeletes(c, s, listing) ==
    [posting EXCEPT ![c] = [o \in Offers |->
        IF @[o].status = "open" /\ @[o].source = s /\ o \notin listing THEN NoRow ELSE @[o]]]

\* The UPDATE of lifecycle.reconcile.
Reconciled(c, s, listing) ==
    [posting EXCEPT ![c] = [o \in Offers |->
        IF @[o].status = "open" /\ @[o].source = s /\ o \notin listing
        THEN [@[o] EXCEPT !.status = "removed"] ELSE @[o]]]

Reconcile(w, s) ==
    LET t == task[w][s] IN
    /\ t.stage = "reconcile"
    /\ posting' = Reconciled(t.company, s, t.listing)
    /\ \E u \in NextCompany(t) : Become(w, s, u)
    /\ UNCHANGED <<world, jobSource, digestDue, cycle, faults>>

\* The request fails, or only its answer is lost.
ReconcileFails(w, s) ==
    LET t == task[w][s] IN
    /\ t.stage = "reconcile"
    /\ Fault("reconcile")
    /\ posting' \in {posting, Reconciled(t.company, s, t.listing)}
    /\ \E u \in NextCompany(t) : Become(w, s, u)
    /\ UNCHANGED <<world, jobSource, digestDue, cycle>>
-----------------------------------------------------------------------------
(***************************************************************************)
(* Ending a source and a cycle.                                            *)
(***************************************************************************)
\* Mutant: a failure count with no bound, never reset.
EveryCheckCounts(source, t) ==
    LET checked == [source EXCEPT !.sinceChecked = 0, !.failureCount = @ + 1]
    IN  IF t.outcome = "synced"
        THEN [checked EXCEPT !.hash = t.listing, !.sinceSynced = 0]
        ELSE checked

\* JobSourceService.updateState, as cycle.ts calls it for each outcome.
Updated(source, t) ==
    LET checked == [source EXCEPT
            !.sinceChecked = 0,
            !.failureCount = IF t.outcome = "failed" THEN AtMost(@ + 1, FailureCap) ELSE 0]
    IN  IF t.outcome = "synced"
        THEN [checked EXCEPT !.hash = t.listing, !.sinceSynced = 0]
        ELSE checked

SaveState(w, s) ==
    /\ task[w][s].stage = "save"
    /\ jobSource' = [jobSource EXCEPT ![s] = Updated(@, task[w][s])]
    /\ Become(w, s, [NoTask EXCEPT !.stage = "done"])
    /\ UNCHANGED <<world, posting, digestDue, cycle, faults>>

SaveStateFails(w, s) ==
    /\ task[w][s].stage = "save"
    /\ Fault("state")
    /\ jobSource' \in {jobSource, [jobSource EXCEPT ![s] = Updated(@, task[w][s])]}
    /\ Become(w, s, [NoTask EXCEPT !.stage = "done"])
    /\ UNCHANGED <<world, posting, digestDue, cycle>>

AllSourcesDone(w) == \A s \in Sources : task[w][s].stage \in {"none", "done"}

Expired ==
    [c \in Companies |-> [o \in Offers |->
        IF posting[c][o].status = "open" /\ o \in lapsed
        THEN [posting[c][o] EXCEPT !.status = "expired"] ELSE posting[c][o]]]

\* Mutant: only a full pass announces what it inserted.
FastPassIsQuiet(w) ==
    /\ cycle' = [cycle EXCEPT ![w] =
            IF @.inserted /\ @.mode = "full" THEN [@ EXCEPT !.phase = "notify"] ELSE NoCycle]
    /\ task' = [task EXCEPT ![w] = [s \in Sources |-> NoTask]]

AfterSources(w) ==
    /\ cycle' = [cycle EXCEPT ![w] =
            IF @.inserted THEN [@ EXCEPT !.phase = "notify"] ELSE NoCycle]
    /\ task' = [task EXCEPT ![w] = [s \in Sources |-> NoTask]]

ExpireDatedOffers(w) ==
    /\ InPhase(w, "sources") /\ AllSourcesDone(w)
    /\ posting' = Expired
    /\ AfterSources(w)
    /\ UNCHANGED <<world, jobSource, digestDue, faults>>

ExpireDatedOffersFails(w) ==
    /\ InPhase(w, "sources") /\ AllSourcesDone(w)
    /\ Fault("expire")
    /\ posting' \in {posting, Expired}
    /\ AfterSources(w)
    /\ UNCHANGED <<world, jobSource, digestDue>>

NotifyNewOffers(w) ==
    /\ InPhase(w, "notify")
    /\ digestDue' = FALSE
    /\ cycle' = [cycle EXCEPT ![w] = NoCycle]
    /\ UNCHANGED <<world, posting, jobSource, task, faults>>

NotifyNewOffersFails(w) ==
    /\ InPhase(w, "notify")
    /\ Fault("notify")
    /\ digestDue' \in {digestDue, FALSE}
    /\ cycle' = [cycle EXCEPT ![w] = NoCycle]
    /\ UNCHANGED <<world, posting, jobSource, task>>

\* The process stops and is restarted: what it held in memory is gone.
Crash(w) ==
    /\ ~InPhase(w, "idle")
    /\ Fault("crash")
    /\ cycle' = [cycle EXCEPT ![w] = NoCycle]
    /\ task' = [task EXCEPT ![w] = [s \in Sources |-> NoTask]]
    /\ UNCHANGED <<world, database>>
-----------------------------------------------------------------------------
SourceStep(w, s) ==
    \/ SkipSource(w, s)
    \/ StartSource(w, s)
    \/ ReadLight(w, s)
    \/ ReadFull(w, s)
    \/ PostChunk(w, s)
    \/ PostChunkFails(w, s)
    \/ Reconcile(w, s)
    \/ ReconcileFails(w, s)
    \/ SaveState(w, s)
    \/ SaveStateFails(w, s)

CycleStep(w) ==
    \/ ListSources(w)
    \/ ListSourcesFails(w)
    \/ ExpireDatedOffers(w)
    \/ ExpireDatedOffersFails(w)
    \/ NotifyNewOffers(w)
    \/ NotifyNewOffersFails(w)

WorldStep ==
    \/ \E s \in Sources, o \in Offers : Publish(s, o) \/ Withdraw(s, o)
    \/ \E s \in Sources, c \in Companies : Join(c, s) \/ Leave(c, s)
    \/ \E o \in Offers : Lapse(o)

Next ==
    \/ WorldStep
    \/ Tick
    \/ \E w \in Workers :
        \/ \E mode \in Modes : StartCycle(w, mode)
        \/ CycleStep(w)
        \/ \E s \in Sources : SourceStep(w, s)
        \/ Crash(w)

Spec == Init /\ [][Next]_vars

(***************************************************************************)
(* Time passes, the crons keep firing, and a running cycle goes on.  The   *)
(* crons do not make any one mode recur: a full tick that finds a fast     *)
(* cycle running is dropped.                                               *)
(***************************************************************************)
Fairness ==
    /\ WF_vars(Tick)
    /\ \A w \in Workers :
        /\ WF_vars(\E mode \in Modes : StartCycle(w, mode))
        /\ WF_vars(CycleStep(w))
        /\ \A s \in Sources : WF_vars(SourceStep(w, s))

FairSpec == Spec /\ Fairness
-----------------------------------------------------------------------------
(***************************************************************************)
(* Correctness.                                                            *)
(***************************************************************************)
\* The UPDATE of lifecycle.reconcile only closes what its board really took
\* down: whatever the interleaving of workers, edits, crashes and failed calls,
\* no step closes a row whose board has listed the offer all along
\* (internal.controller.ts: the worker calls it only after a complete crawl, a
\* truncated listing would read as "everything else is gone").
ListedNeverRemoved ==
    [][\A c \in Companies, o \in Offers :
        (posting[c][o].status # "removed" /\ posting'[c][o].status = "removed") =>
            o \notin Pinned[posting'[c][o].source]]_vars

Ledger == INSTANCE OfferLedger WITH due <- digestDue

\* Every step of the crawl, failed and half-done requests and crashes included,
\* is one the readers of the rows may see: cycles, chunks and reconciles of any
\* number of workers implement the ledger of offers.
ImplementsLedger == Ledger!Spec

\* The hash stored for a source vouches for the rows: once a cycle may answer
\* "not modified" for a listing, every company behind the source has a row for
\* every offer of it (job-source.ts: "equal hash means nothing new to ingest").
HashMeansIngested ==
    \A s \in Sources : jobSource[s].hash # NoHash =>
        \A c \in behind[s], o \in jobSource[s].hash : posting[c][o].status # "absent"

\* When no worker is in a cycle, matches were computed after the last insert:
\* the notification of cycle.ts follows every batch of the cycle.
InsertsAreAnnounced ==
    digestDue => \E w \in Workers : ~InPhase(w, "idle")

\* Between two reads of a board the rows that came from it are the listing the
\* hash was taken of, no more and no less: nothing of it is missing or closed
\* as removed, and nothing else is open.
RowsMirrorHash ==
    \A s \in Sources \ Capped :
        (jobSource[s].hash # NoHash /\ \A w \in Workers : s \notin Working(w)) =>
            \A c \in behind[s], o \in Offers :
                IF o \in jobSource[s].hash
                THEN posting[c][o].status # "absent"
                     /\ posting[c][o] # [status |-> "removed", source |-> s]
                ELSE posting[c][o] # [status |-> "open", source |-> s]

\* An offer on a board ends up open, or dated out, for every company behind
\* the board, whatever calls failed before: the hash may say "not modified"
\* for a while, the reconcile interval bounds it.
ListedOffersOpen ==
    \A s \in Sources \ Capped, c \in Companies, o \in Offers :
        (o \in board[s] /\ c \in behind[s]) ~>
            (posting[c][o].status \in {"open", "expired"}
             \/ o \notin board[s] \/ c \notin behind[s])

\* An offer that left a board that still lists others is closed.
DroppedOffersClose ==
    \A s \in Sources \ Capped, c \in Companies, o \in Offers :
        (posting[c][o] = [status |-> "open", source |-> s]
         /\ o \notin board[s] /\ c \in behind[s]) ~>
            (posting[c][o] # [status |-> "open", source |-> s]
             \/ o \in board[s] \/ board[s] = {} \/ c \notin behind[s])
=============================================================================
