------------------------------- MODULE MatchesPage -------------------------------
(***************************************************************************)
(* The job matches page in one tab (web, components/features/job-matches):   *)
(* filters, search box, pages and the selected offer live in the URL, which  *)
(* useJobFilters pushes in transitions; the offer's pane calls server        *)
(* actions (actions/job-match) and refreshes the page.                       *)
(*                                                                         *)
(* A navigation that starts while another is pending replaces it. Server     *)
(* actions of a tab run one at a time in the order they were called.         *)
(* One offer can be selected; any filter but the search is one of Filters.   *)
(***************************************************************************)
EXTENDS Naturals, Sequences

CONSTANTS Filters, MaxPushes, MaxCalls, NoUrl, NoPane

VARIABLES url,        \* the committed searchParams
          next,       \* the URL of the pending navigation, or NoUrl
          draft,      \* what the search box holds
          pane,       \* JobDetail: the job it was rendered with, and its state
          offer,      \* the API's answer about the offer
          calls,      \* server actions called and not finished
          refresh,    \* router.refresh was called and has not rendered
          pushes, called,
          wanted,     \* history: the URL the choices add up to, but for the page
          turned,     \* history: the URL on which the page was chosen
          overtaken,  \* history: a choice was made while another was pending
          doubled,    \* history: the star was toggled with a toggle or a refresh under way
          reopened,   \* history: the pane was opened with calls under way
          dismissed,  \* history: a dismissal was stored
          halved      \* history: a star was stored and answered with an error, and no
                      \*   render has shown it since

vars == <<url, next, draft, pane, offer, calls, refresh, pushes, called, wanted, turned,
          overtaken, doubled, reopened, dismissed, halved>>

Texts == {"", "go"}
Urls == [filters : SUBSET Filters, search : Texts, page : 1 .. 2, job : BOOLEAN]
Offers == [status : {"NEW", "SEEN", "DISMISSED"}, saved : BOOLEAN]

Blank == [filters |-> {}, search |-> "", page |-> 1, job |-> FALSE]

Panes == [job : Offers, saved : BOOLEAN]
Calls == [op : {"seen", "saved", "dismiss"}, to : BOOLEAN, here : BOOLEAN]

TypeOK ==
    /\ {url, wanted, turned} \subseteq Urls /\ next \in Urls \union {NoUrl} /\ draft \in Texts
    /\ pane \in Panes \union {NoPane} /\ offer \in Offers /\ calls \in Seq(Calls)
    /\ {refresh, overtaken, doubled, reopened, dismissed, halved} \subseteq BOOLEAN

Init ==
    /\ url = Blank /\ wanted = Blank /\ turned = Blank /\ next = NoUrl /\ draft = "" /\ pane = NoPane
    /\ offer = [status |-> "NEW", saved |-> FALSE] /\ calls = <<>> /\ refresh = FALSE
    /\ pushes = 0 /\ called = 0
    /\ overtaken = FALSE /\ doubled = FALSE /\ reopened = FALSE /\ dismissed = FALSE
    /\ halved = FALSE
-----------------------------------------------------------------------------
\* A push whose URL is built from the committed one, Change(url), as every callback
\* of useJobFilters and closeDetail do; Change(wanted) is what the user means.
Push(Change(_)) ==
    /\ pushes < MaxPushes /\ pushes' = pushes + 1
    /\ next' = Change(url) /\ wanted' = [Change(wanted) EXCEPT !.page = 1]
    /\ turned' = IF next'.page # url.page /\ next'.page # 1 THEN url ELSE turned
    /\ overtaken' = (overtaken \/ next # NoUrl)
    /\ UNCHANGED <<url, draft, pane, offer, calls, refresh, called, doubled, reopened,
                   dismissed, halved>>

\* A filter that keeps the page.
CommitKeepsPage(u) == u

\* commit: a filter change resets pagination.
FilterCommit(u) == [u EXCEPT !.page = 1]

\* set, setMany and toggle.
Toggle ==
    \E f \in Filters :
        LET Flip(u) == FilterCommit([u EXCEPT !.filters =
                          IF f \in @ THEN @ \ {f} ELSE @ \union {f}])
        IN Push(Flip)

Type == draft' \in Texts \ {draft} /\ UNCHANGED <<url, next, pane, offer, calls, refresh,
    pushes, called, wanted, turned, overtaken, doubled, reopened, dismissed, halved>>

\* Enter, whatever the text, or leaving the box with one that is not the URL's.
Search ==
    LET Search1(u) == FilterCommit([u EXCEPT !.search = draft])
    IN Push(Search1)

Clear == LET OnlyJob(u) == [Blank EXCEPT !.job = u.job] IN Push(OnlyJob)

GoToPage ==
    LET Turned(u) == [u EXCEPT !.page = 3 - url.page]
    IN Push(Turned)

Select == ~url.job /\ LET Chosen(u) == [u EXCEPT !.job = TRUE] IN Push(Chosen)

CloseDetail == url.job /\ LET Closed(u) == [u EXCEPT !.job = FALSE] IN Push(Closed)
-----------------------------------------------------------------------------
\* A pane that marks its offer seen whatever its status.
MarksAny(fetched) == TRUE

\* The effect that marks a new offer seen.
MarksSeen(fetched) == fetched.status = "NEW"

\* What a render does to the pane: a new one starts from the offer as it was fetched;
\* one that was there takes the saved state over only when it differs from the one it
\* was last rendered with. The calls of one that is gone end without it.
Render(u, fetched) ==
    LET opened == u.job /\ pane = NoPane
    IN /\ pane' = CASE ~u.job -> NoPane
                    [] opened -> [job |-> fetched, saved |-> fetched.saved]
                    [] OTHER -> [job |-> fetched,
                                 saved |-> IF fetched.saved # pane.job.saved
                                           THEN fetched.saved ELSE pane.saved]
       /\ calls' = CASE ~u.job -> [i \in DOMAIN calls |-> [calls[i] EXCEPT !.here = FALSE]]
                     [] opened /\ MarksSeen(fetched) ->
                            Append(calls, [op |-> "seen", to |-> TRUE, here |-> TRUE])
                     [] OTHER -> calls
       /\ reopened' = (reopened \/ (opened /\ calls # <<>>))
       /\ halved' = (/\ halved
                     /\ \/ \E i \in DOMAIN calls : calls[i].op = "saved"
                        \/ u.job /\ pane'.saved # fetched.saved)

\* The navigation lands. The search box follows the URL, whatever was being typed.
Land ==
    /\ next # NoUrl
    /\ url' = next /\ next' = NoUrl /\ draft' = next.search
    /\ Render(next, offer)
    /\ UNCHANGED <<offer, refresh, pushes, called, wanted, turned, overtaken, doubled, dismissed>>

Refresh ==
    /\ refresh /\ refresh' = FALSE
    /\ Render(url, offer)
    /\ UNCHANGED <<url, next, draft, offer, pushes, called, wanted, turned, overtaken, doubled, dismissed>>
-----------------------------------------------------------------------------
ToggleSaved ==
    /\ pane # NoPane /\ called < MaxCalls /\ called' = called + 1
    /\ pane' = [pane EXCEPT !.saved = ~@]
    /\ calls' = Append(calls, [op |-> "saved", to |-> ~pane.saved, here |-> TRUE])
    /\ doubled' = (doubled \/ refresh \/ \E i \in DOMAIN calls : calls[i].op = "saved")
    /\ UNCHANGED <<url, next, draft, offer, refresh, pushes, wanted, turned, overtaken, reopened,
                   dismissed, halved>>

Dismiss ==
    /\ pane # NoPane /\ called < MaxCalls /\ called' = called + 1
    /\ calls' = Append(calls, [op |-> "dismiss", to |-> TRUE, here |-> TRUE])
    /\ UNCHANGED <<url, next, draft, pane, offer, refresh, pushes, wanted, turned, overtaken,
                   doubled, reopened, dismissed, halved>>

\* The catch of toggleSaved: the star goes back to what it was before this toggle.
RolledBack(call) ==
    IF call.op = "saved" /\ call.here THEN [pane EXCEPT !.saved = ~call.to] ELSE pane

\* upsertInteraction: a first mark of an offer is one of an offer that was seen.
Applied(call) ==
    CASE call.op = "saved" -> [status |-> IF offer.status = "NEW" THEN "SEEN" ELSE offer.status,
                               saved |-> call.to]
      [] call.op = "seen" -> [offer EXCEPT !.status = "SEEN"]
      [] call.op = "dismiss" -> [offer EXCEPT !.status = "DISMISSED"]

\* The first of the calls is served, or fails. The API stores the mark and then records
\* the event: one that fails there, or whose answer is lost, is stored although the page
\* is told that it failed.
Serve ==
    /\ calls # <<>> /\ calls' = Tail(calls)
    /\ LET call == Head(calls)
       IN \/ /\ offer' = Applied(call) /\ refresh' = TRUE
             /\ dismissed' = (dismissed \/ call.op = "dismiss")
             /\ UNCHANGED <<pane, halved>>
          \/ /\ offer' = Applied(call) /\ pane' = RolledBack(call)
             /\ dismissed' = (dismissed \/ call.op = "dismiss")
             /\ halved' = (halved \/ call.op = "saved")
             /\ UNCHANGED refresh
          \/ pane' = RolledBack(call) /\ UNCHANGED <<offer, refresh, dismissed, halved>>
    /\ UNCHANGED <<url, next, draft, pushes, called, wanted, turned, overtaken, doubled, reopened>>

Next ==
    \/ Toggle \/ Type \/ Search \/ Clear \/ GoToPage \/ Select \/ CloseDetail
    \/ Land \/ Refresh
    \/ ToggleSaved \/ Dismiss \/ Serve

Spec == Init /\ [][Next]_vars
-----------------------------------------------------------------------------
\* A page but the first is that of the filters it was chosen with. And when no
\* navigation is pending the URL is what the choices add up to, unless one was made
\* while another was pending, which useJobFilters then forgets, as it builds on the
\* committed URL.
UrlFollowsChoices ==
    /\ url.page # 1 => url.filters = turned.filters /\ url.search = turned.search
    /\ next = NoUrl /\ ~overtaken =>
        url.filters = wanted.filters /\ url.search = wanted.search /\ url.job = wanted.job

\* When nothing is under way the star of an open offer is the API's, also after a call
\* that stored nothing failed, unless it was toggled with a toggle or a refresh under way,
\* or one that was stored was answered with an error and no render has shown it since;
\* and a dismissed offer stays dismissed, though opening one marks it seen, unless its
\* pane was opened with calls under way.
PaneTellsTruth ==
    /\ calls = <<>> /\ ~refresh /\ pane # NoPane /\ ~doubled /\ ~halved =>
        pane.saved = offer.saved
    /\ dismissed /\ ~reopened => offer.status = "DISMISSED"
=============================================================================
