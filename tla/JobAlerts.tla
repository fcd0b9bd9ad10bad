-------------------------------- MODULE JobAlerts --------------------------------
(***************************************************************************)
(* The digests of one user's new matches: JobAlertService.notifyMatches in  *)
(* the API, the profile form that writes the same row                       *)
(* (features/job-preference), the job-alert queue and the worker that mails  *)
(* the digests (workers/email.worker.ts).                                   *)
(*                                                                         *)
(* Time is the number of offers inserted so far: an offer is created at its  *)
(* own number. Every offer here fits the profile; Rank is its score.        *)
(***************************************************************************)
EXTENDS Integers, Sequences, FiniteSets, FiniteSetsExt

CONSTANTS MaxOffers,            \* bound: offers ever inserted
          MaxDigests,           \* bound: digests ever queued
          MaxChanges,           \* bound: offers closed or touched, and saves
                                \* of the profile form
          MAX_OFFERS_PER_DIGEST,
          WINDOW,               \* FIRST_DIGEST_WINDOW_DAYS, in that time
          ATTEMPTS,             \* DEFAULT_JOB_OPTIONS.attempts
          MAX_STALLED,          \* BullMQ's maxStalledCount
          Notifiers             \* requests to /job-postings/notify at once

VARIABLES clock,      \* how many offers were inserted
          hidden,     \* offers closed now
          touched,    \* offers the user has an interaction with
          row,        \* the user's JobPreference: notify and lastNotifiedAt
          notifier,   \* [Notifiers -> where the request stands]
          form,       \* the copy a save of the profile form has, or none
          changes,
          digests,    \* the job-alert queue, in the order of its additions
          overlapped, \* history: two had a copy of the row at once
          stopped,    \* history: a notification stopped before its stamp
          excused     \* history: offers the code gives up on

vars == <<clock, hidden, touched, row, notifier, form, changes, digests, overlapped,
          stopped, excused>>

Offers == 1 .. clock
Never == -1

Rows == [notify : BOOLEAN, stamp : Never .. MaxOffers]

Idle == [at |-> "idle"]

\* A request has a copy of the row, then the offers it found and those given up.
Requests ==
    {Idle}
    \union [at : {"find"}, row : Rows, found : {{}}, seen : {0}]
    \union [at : {"queue", "stamp"}, row : Rows, found : SUBSET (1 .. MaxOffers),
            seen : 0 .. MaxOffers, over : SUBSET (1 .. MaxOffers)]

Digests == [offers : SUBSET (1 .. MaxOffers),
            state : {"waiting", "active", "mailed", "done", "failed"},
            tries : 0 .. ATTEMPTS, stalls : 0 .. MAX_STALLED]

TypeOK ==
    /\ clock \in 0 .. MaxOffers
    /\ hidden \subseteq Offers /\ touched \subseteq Offers /\ excused \subseteq 1 .. MaxOffers
    /\ row \in Rows
    /\ form \in {Idle} \union [at : {"form"}, row : Rows]
    /\ notifier \in [Notifiers -> Requests]
    /\ digests \in Seq(Digests)
    /\ changes \in 0 .. MaxChanges
    /\ overlapped \in BOOLEAN /\ stopped \in BOOLEAN

Init ==
    /\ clock = 0 /\ hidden = {} /\ touched = {} /\ excused = {}
    /\ row = [notify |-> TRUE, stamp |-> Never]
    /\ notifier = [n \in Notifiers |-> Idle] /\ form = Idle /\ changes = 0
    /\ digests = <<>> /\ overlapped = FALSE /\ stopped = FALSE

Busy == form # Idle \/ \E n \in Notifiers : notifier[n] # Idle
-----------------------------------------------------------------------------
\* The ingest, the crawl's closing and reopening, and the user's reading.
Insert ==
    /\ clock < MaxOffers /\ clock' = clock + 1
    /\ UNCHANGED <<hidden, touched, row, notifier, form, changes, digests, overlapped,
                   stopped, excused>>

Close ==
    /\ changes < MaxChanges /\ changes' = changes + 1
    /\ \E o \in Offers \ hidden : hidden' = hidden \union {o}
    /\ UNCHANGED <<clock, touched, row, notifier, form, digests, overlapped, stopped, excused>>

Reopen ==
    /\ \E o \in hidden : hidden' = hidden \ {o}
    /\ UNCHANGED <<clock, touched, row, notifier, form, changes, digests, overlapped,
                   stopped, excused>>

Touch ==
    /\ changes < MaxChanges /\ changes' = changes + 1
    /\ \E o \in Offers \ touched : touched' = touched \union {o}
    /\ UNCHANGED <<clock, hidden, row, notifier, form, digests, overlapped,
                   stopped, excused>>
-----------------------------------------------------------------------------
\* Scores do not follow the order of insertion: odd offers first.
Rank(o) == IF o % 2 = 1 THEN 2 ELSE 1

Ahead(o, p) == Rank(o) > Rank(p) \/ (Rank(o) = Rank(p) /\ o > p)

Best(found) ==
    {o \in found : Cardinality({p \in found : Ahead(p, o)}) < MAX_OFFERS_PER_DIGEST}

Since(copy) ==
    IF copy.stamp # Never THEN copy.stamp ELSE Max({0, clock - WINDOW})

Candidates(copy) ==
    {o \in Offers : o > Since(copy) /\ o \notin hidden /\ o \notin touched}

FindMatches(copy) == Best(Candidates(copy))

\* preferenceRepository.find: a copy of every row, before the first one is served.
Load(n) ==
    /\ notifier[n] = Idle /\ row.notify
    /\ overlapped' = (overlapped \/ Busy)
    /\ notifier' = [notifier EXCEPT ![n] =
                      [at |-> "find", row |-> row, found |-> {}, seen |-> 0]]
    /\ UNCHANGED <<clock, hidden, touched, row, form, changes, digests, stopped, excused>>

\* The offers closed at the query, above the limit or older than the first window are
\* given up if the stamp follows.
Find(n) ==
    /\ notifier[n].at = "find"
    /\ LET found == FindMatches(notifier[n].row)
       IN notifier' = [notifier EXCEPT ![n] =
            IF found = {} THEN Idle
            ELSE [at |-> "queue", row |-> @.row, found |-> found, seen |-> clock,
                  over |-> hidden \union (Candidates(@.row) \ found)
                              \union (IF @.row.stamp = Never THEN 1 .. Since(@.row) ELSE {})]]
    /\ UNCHANGED <<clock, hidden, touched, row, form, changes, digests, overlapped,
                   stopped, excused>>

Enqueue(n) ==
    /\ notifier[n].at = "queue" /\ Len(digests) < MaxDigests
    /\ digests' = Append(digests, [offers |-> notifier[n].found, state |-> "waiting",
                                   tries |-> 0, stalls |-> 0])
    /\ notifier' = [notifier EXCEPT ![n].at = "stamp"]
    /\ UNCHANGED <<clock, hidden, touched, row, form, changes, overlapped, stopped, excused>>

\* A stamp that keeps the time of the copy.
StampOnlyCopy(n) ==
    /\ notifier[n].at = "stamp"
    /\ row' = notifier[n].row
    /\ excused' = excused \union notifier[n].over
    /\ notifier' = [notifier EXCEPT ![n] = Idle]
    /\ UNCHANGED <<clock, hidden, touched, form, changes, digests, overlapped, stopped>>

\* lastNotifiedAt = now, and the whole copy is saved. What was inserted since the
\* query is older than the stamp.
Stamp(n) ==
    /\ notifier[n].at = "stamp"
    /\ row' = [notifier[n].row EXCEPT !.stamp = clock]
    /\ excused' = excused \union notifier[n].over \union (notifier[n].seen + 1) .. clock
    /\ notifier' = [notifier EXCEPT ![n] = Idle]
    /\ UNCHANGED <<clock, hidden, touched, form, changes, digests, overlapped, stopped>>

\* The API goes down, or a query fails.
Stop(n) ==
    /\ notifier[n] # Idle
    /\ notifier' = [notifier EXCEPT ![n] = Idle]
    /\ stopped' = (stopped \/ notifier[n].at = "stamp")
    /\ UNCHANGED <<clock, hidden, touched, row, form, changes, digests, overlapped, excused>>
-----------------------------------------------------------------------------
\* JobPreferenceService.update: findOne, the fields of the form, save of the whole.
OpenSave ==
    /\ form = Idle /\ changes < MaxChanges
    /\ \E notify \in BOOLEAN : form' = [at |-> "form", row |-> [row EXCEPT !.notify = notify]]
    /\ changes' = changes + 1 /\ overlapped' = (overlapped \/ Busy)
    /\ UNCHANGED <<clock, hidden, touched, row, notifier, digests, stopped, excused>>

SaveForm ==
    /\ form # Idle /\ row' = form.row /\ form' = Idle
    /\ UNCHANGED <<clock, hidden, touched, notifier, changes, digests, overlapped, stopped,
                   excused>>
-----------------------------------------------------------------------------
\* BullMQ and the mailer. An attempt ends with the mail sent or with an error; the job
\* is completed after it, and a worker that dies in between leaves the job stalled.
Changed(i, digest) ==
    /\ digests' = [digests EXCEPT ![i] = digest]
    /\ UNCHANGED <<clock, hidden, touched, row, notifier, form, changes, overlapped, stopped,
                   excused>>

Take(i) == digests[i].state = "waiting" /\ Changed(i, [digests[i] EXCEPT !.state = "active"])

SendMail(i) == digests[i].state = "active" /\ Changed(i, [digests[i] EXCEPT !.state = "mailed"])

\* A job that is over: its counts no longer matter.
Over(i, state) == [digests[i] EXCEPT !.state = state, !.tries = 0, !.stalls = 0]

Complete(i) == digests[i].state = "mailed" /\ Changed(i, Over(i, "done"))

\* A failure that is tried again for ever.
FailAgain(i) ==
    digests[i].state = "active" /\ Changed(i, [digests[i] EXCEPT !.state = "waiting"])

Fail(i) ==
    /\ digests[i].state = "active"
    /\ LET tries == digests[i].tries + 1
       IN Changed(i, IF tries < ATTEMPTS
                     THEN [digests[i] EXCEPT !.tries = tries, !.state = "waiting"]
                     ELSE Over(i, "failed"))

Stall(i) ==
    /\ digests[i].state \in {"active", "mailed"}
    /\ LET stalls == digests[i].stalls + 1
       IN Changed(i, IF stalls <= MAX_STALLED
                     THEN [digests[i] EXCEPT !.stalls = stalls, !.state = "waiting"]
                     ELSE Over(i, "failed"))

Answer(i) == SendMail(i) \/ Fail(i)

Deliver == \E i \in DOMAIN digests : Take(i) \/ Answer(i) \/ Complete(i) \/ Stall(i)

Notify(n) == Load(n) \/ Find(n) \/ Enqueue(n) \/ Stamp(n) \/ Stop(n)

Next ==
    \/ Insert \/ Close \/ Reopen \/ Touch
    \/ \E n \in Notifiers : Notify(n)
    \/ OpenSave \/ SaveForm
    \/ Deliver

\* The queue serves what it holds, and the mail server answers.
Fairness ==
    \A i \in 1 .. MaxDigests :
        /\ WF_vars(i \in DOMAIN digests /\ Take(i))
        /\ WF_vars(i \in DOMAIN digests /\ (Answer(i) \/ Complete(i)))

Spec == Init /\ [][Next]_vars /\ Fairness
-----------------------------------------------------------------------------
Announced == UNION {digests[i].offers : i \in DOMAIN digests}

\* No offer is in two digests, unless a notification stopped between the queue and its
\* stamp, or the row had two writers at once (notifyMatches and update both save a
\* whole copy). And an offer the user has not touched and that is older than the stamp
\* is in a digest, unless it was closed at the query, above the limit, older than the
\* first window, or inserted between the query and the stamp: a stop anywhere, or a
\* second writer, loses no other.
EachAnnouncedOnce ==
    /\ overlapped \/ stopped \/
        \A i, j \in DOMAIN digests :
            i # j => digests[i].offers \intersect digests[j].offers = {}
    /\ \A o \in Offers : o <= row.stamp /\ o \notin touched => o \in Announced \union excused

\* A queued digest is mailed or, after its attempts, given up.
DigestsSettle ==
    \A i \in 1 .. MaxDigests :
        (i \in DOMAIN digests) ~> (i \in DOMAIN digests /\ digests[i].state \in {"done", "failed"})
=============================================================================
