----------------------------- MODULE OfferLedger -----------------------------
(***************************************************************************)
(* What the crawl promises to whoever reads the stored offers, without     *)
(* cycles, tasks, requests or failures: how the rows of job_posting may    *)
(* change, and that an insert leaves a notification due.                   *)
(*                                                                         *)
(* A row never goes away and never turns back into no row: applications,   *)
(* interactions and alerts refer to it.  A step that opens or re-sources   *)
(* rows is one board's, for one company; a step that closes rows closes    *)
(* open ones of that board only, and never an offer the board has listed   *)
(* all along.                                                              *)
(***************************************************************************)
CONSTANTS Companies, Sources, Offers,
          NoSource,   \* null
          Pinned,     \* [Sources -> SUBSET Offers]: never taken down
          Dated       \* offers with an end date

VARIABLES posting,    \* the rows, one per company and offer
          lapsed,     \* dated offers whose end date has passed
          due         \* an insert that no notification followed yet

ledger == <<posting, lapsed, due>>

Absent(c, o) == posting[c][o].status = "absent"

Open(c, o, s) == posting[c][o].status = "open" /\ posting[c][o].source = s

Init ==
    /\ posting = [c \in Companies |-> [o \in Offers |-> [status |-> "absent", source |-> NoSource]]]
    /\ lapsed = {}
    /\ due = FALSE

\* A board is seen to list some offers of the company: these open; of others
\* that were on file the request may have stored the board and no more.
Receive(c, s) ==
    \E opened, moved \in SUBSET Offers :
        /\ \A o \in moved \ opened : ~Absent(c, o)
        /\ posting' = [posting EXCEPT ![c] = [o \in Offers |->
                IF o \in opened THEN [status |-> "open", source |-> s]
                ELSE IF o \in moved THEN [@[o] EXCEPT !.source = s] ELSE @[o]]]
        /\ due' = (due \/ \E o \in opened : Absent(c, o))
        /\ UNCHANGED lapsed

\* Offers of a board that it need not list any more are closed.
Close(c, s) ==
    \E gone \in SUBSET Offers :
        /\ \A o \in gone : Open(c, o, s) /\ o \notin Pinned[s]
        /\ posting' = [posting EXCEPT ![c] = [o \in Offers |->
                IF o \in gone THEN [@[o] EXCEPT !.status = "removed"] ELSE @[o]]]
        /\ UNCHANGED <<lapsed, due>>

Lapse(o) ==
    /\ lapsed' = lapsed \union {o}
    /\ UNCHANGED <<posting, due>>

\* Every open offer past its end date is closed, all at once.
Expire ==
    /\ posting' = [c \in Companies |-> [o \in Offers |->
            IF posting[c][o].status = "open" /\ o \in lapsed
            THEN [posting[c][o] EXCEPT !.status = "expired"] ELSE posting[c][o]]]
    /\ UNCHANGED <<lapsed, due>>

Announce ==
    /\ due' = FALSE
    /\ UNCHANGED <<posting, lapsed>>

Next ==
    \/ \E c \in Companies, s \in Sources : Receive(c, s) \/ Close(c, s)
    \/ \E o \in Dated : Lapse(o)
    \/ Expire
    \/ Announce

Spec == Init /\ [][Next]_ledger
=============================================================================
