------------------------------ MODULE ApplicationsList ------------------------------
(***************************************************************************)
(* The applications page of one tab as a table (web, components/features/     *)
(* applications): the toolbar and the dialog keep what they show in the URL,    *)
(* the rows are a store that the page fills with what it fetched and that the  *)
(* table and the dialog change before the API answers (see KanbanBoard for the *)
(* other view).                                                            *)
(*                                                                         *)
(* A navigation that starts while another is pending replaces it; the server   *)
(* actions of a tab run one at a time. The search looks at the city alone. The *)
(* search box of the companies list is the same but for the two places named   *)
(* by toolbar. No other tab writes.                                          *)
(***************************************************************************)
EXTENDS Naturals, Sequences, FiniteSets

CONSTANTS Ids, Statuses,
          MaxActs,      \* bound: what the user does
          NoUrl, Shut, NoId

VARIABLES apps,       \* the API's applications: [some of Ids -> status, city, notes]
          url,        \* the committed searchParams
          next,       \* the URL of the pending navigation, or NoUrl
          toolbar,    \* "applications" or "companies"
          input, debounced,  \* the search box, and its value as useDebounce has it
          store,      \* useApplicationStore: the rows
          total,      \* the count in the bar
          open, form, \* the dialog, and the form mounted in it or Shut
          creating,   \* the dialog of a new application: shut, open or sending
          selection,  \* rowSelection
          asked,      \* server actions called and not finished
          refresh,    \* a render of the page was asked for
          acts,
          overtaken,  \* history: a navigation replaced one, or left from an old URL
          blind,      \* history: the last fetch of the page failed
          unheard     \* history: the API stored what it answered with an error, and no
                      \*   render has shown it since

vars == <<apps, url, next, toolbar, input, debounced, store, total, open, form, creating,
          selection, asked, refresh, acts, overtaken, blind, unheard>>

Texts == {"", "go"}
Records == [status : Statuses, city : Texts, notes : Texts]
Urls == [search : Texts, hidden : SUBSET Statuses, id : Ids \union {NoId}]

Forms == [id : Ids, record : Records, saving : BOOLEAN]

\* What a call carries; a deletion's id is looked up when it is served.
Carried(call) ==
    /\ call.op \in {"create", "update", "delete"}
    /\ call.op # "delete" => call.record \in Records
    /\ call.op = "update" => call.at \in Urls
    /\ call.op = "delete" => call.last \in BOOLEAN

TypeOK ==
    /\ DOMAIN apps \subseteq Ids /\ apps \in [DOMAIN apps -> Records]
    /\ DOMAIN store \subseteq Ids /\ store \in [DOMAIN store -> Records]
    /\ url \in Urls /\ next \in Urls \union {NoUrl} /\ toolbar \in {"applications", "companies"}
    /\ {input, debounced} \subseteq Texts /\ total \in 0 .. Cardinality(Ids)
    /\ form \in Forms \union {Shut} /\ selection \subseteq Ids
    /\ {open, refresh, overtaken, blind, unheard} \subseteq BOOLEAN
    /\ creating \in {"shut", "open", "sending"}
    /\ \A i \in DOMAIN asked : Carried(asked[i])

\* findMany: the statuses that are not hidden, and the search.
Rows(u) ==
    {x \in DOMAIN apps : apps[x].status \notin u.hidden /\ (u.search = "" \/ apps[x].city = u.search)}

\* What the page shows of what it fetched: nothing is visible when every status is
\* hidden.
Answer(u) == [x \in Rows(u) |-> apps[x]]

\* The count the API answers is that of all the user's applications.
Count(u) == IF u.hidden = Statuses THEN 0 ELSE Cardinality(DOMAIN apps)

Pushed(u) == next' = u /\ overtaken' = (overtaken \/ next # NoUrl)

Init ==
    /\ apps \in UNION {[S -> {r \in Records : r.notes = ""}] : S \in SUBSET Ids}
    /\ url \in {u \in Urls : u.id = NoId /\ u.hidden = {}}
    /\ toolbar \in {"applications", "companies"}
    /\ input = (IF toolbar = "companies" THEN "" ELSE url.search) /\ debounced = input
    \* The effects of the mount: one pushes what the box started from, and the other
    \* sets the box.
    /\ next = [url EXCEPT !.search = debounced]
    /\ store = Answer(url) /\ total = Count(url)
    /\ open = FALSE /\ form = Shut /\ creating = "shut" /\ selection = {}
    /\ asked = <<>> /\ refresh = FALSE /\ acts = 0 /\ overtaken = FALSE
    /\ blind = FALSE /\ unheard = FALSE

Act == acts < MaxActs /\ acts' = acts + 1
NoDialog == ~open /\ creating = "shut"
-----------------------------------------------------------------------------
Type ==
    /\ Act /\ NoDialog /\ input' \in Texts \ {input}
    /\ UNCHANGED <<apps, url, next, toolbar, debounced, store, total, open, form, creating,
                   selection, asked, refresh, overtaken, blind, unheard>>

\* The 300 ms are over: the value is debounced, and an effect pushes it.
Elapse ==
    /\ input # debounced /\ debounced' = input
    /\ Pushed([url EXCEPT !.search = input])
    /\ UNCHANGED <<apps, url, toolbar, input, store, total, open, form, creating, selection,
                   asked, refresh, acts, blind, unheard>>

\* toggleStatus
Hide ==
    /\ Act /\ NoDialog
    /\ \E s \in Statuses :
        Pushed([url EXCEPT !.hidden = IF s \in @ THEN @ \ {s} ELSE @ \union {s}])
    /\ UNCHANGED <<apps, url, toolbar, input, debounced, store, total, open, form, creating,
                   selection, asked, refresh, blind, unheard>>

\* The rows whose status is not hidden.
Visible == {x \in DOMAIN store : store[x].status \notin url.hidden}

RowClick ==
    /\ Act /\ NoDialog
    /\ \E x \in Visible : Pushed([url EXCEPT !.id = x])
    /\ UNCHANGED <<apps, url, toolbar, input, debounced, store, total, open, form, creating,
                   selection, asked, refresh, blind, unheard>>

\* A row that leaves the list stays selected.
Select ==
    /\ Act /\ NoDialog
    /\ \E x \in Visible : selection' = IF x \in selection THEN selection \ {x}
                                       ELSE selection \union {x}
    /\ UNCHANGED <<apps, url, next, toolbar, input, debounced, store, total, open, form, creating,
                   asked, refresh, overtaken, blind, unheard>>
-----------------------------------------------------------------------------
Nth(ids, i) == CHOOSE x \in ids : Cardinality({y \in ids : y <= x}) = i

Deletions(ids) ==
    [i \in 1 .. Cardinality(ids) |->
        [op |-> "delete", last |-> i = Cardinality(ids), id |-> Nth(ids, i)]]

Without(f, ids) == [x \in DOMAIN f \ ids |-> f[x]]
With(f, x, y) == [z \in DOMAIN f \union {x} |-> IF z = x THEN y ELSE f[z]]

HandleDeleteSelected ==
    /\ Act /\ NoDialog /\ selection # {}
    /\ store' = Without(store, selection) /\ selection' = {}
    /\ asked' = asked \o Deletions(selection)
    /\ UNCHANGED <<apps, url, next, toolbar, input, debounced, total, open, form, creating, refresh,
                   overtaken, blind, unheard>>

\* close of ApplicationDialog
Close(at) ==
    /\ open' = FALSE /\ form' = Shut
    /\ next' = [at EXCEPT !.id = NoId]
    /\ overtaken' = (overtaken \/ next # NoUrl \/ url # at)

\* Cancel, Escape and the corner; the last two also while it is being saved.
CloseDialog ==
    /\ Act /\ open /\ Close(url)
    /\ UNCHANGED <<apps, url, toolbar, input, debounced, store, total, creating, selection, asked,
                   refresh, blind, unheard>>

HandleDelete ==
    /\ Act /\ form # Shut /\ ~form.saving /\ Close(url)
    /\ store' = Without(store, {form.id})
    /\ asked' = asked \o Deletions({form.id})
    /\ UNCHANGED <<apps, url, toolbar, input, debounced, total, creating, selection, refresh, blind, unheard>>

Edit ==
    /\ Act /\ form # Shut
    /\ \E r \in Records : r # form.record /\ form' = [form EXCEPT !.record = r]
    /\ UNCHANGED <<apps, url, next, toolbar, input, debounced, store, total, open, creating, selection,
                   asked, refresh, overtaken, blind, unheard>>

\* onSubmit: every field of the form, and the close of the render it was called in.
Submit ==
    /\ Act /\ form # Shut /\ ~form.saving /\ form' = [form EXCEPT !.saving = TRUE]
    /\ asked' = Append(asked, [op |-> "update", id |-> form.id, record |-> form.record, at |-> url])
    /\ UNCHANGED <<apps, url, next, toolbar, input, debounced, store, total, open, creating,
                   selection, refresh, overtaken, blind, unheard>>

OpenCreate ==
    /\ Act /\ NoDialog /\ creating' = "open"
    /\ UNCHANGED <<apps, url, next, toolbar, input, debounced, store, total, open, form, selection,
                   asked, refresh, overtaken, blind, unheard>>

\* handleSubmit of CreateApplicationForm
Create ==
    /\ Act /\ creating = "open" /\ creating' = "sending"
    /\ \E r \in Records : r.notes = "" /\ asked' = Append(asked, [op |-> "create", record |-> r])
    /\ UNCHANGED <<apps, url, next, toolbar, input, debounced, store, total, open, form, selection,
                   refresh, overtaken, blind, unheard>>

\* Escape and the corner, also while it is being sent.
CloseCreate ==
    /\ Act /\ creating # "shut" /\ creating' = "shut"
    /\ UNCHANGED <<apps, url, next, toolbar, input, debounced, store, total, open, form, selection,
                   asked, refresh, overtaken, blind, unheard>>
-----------------------------------------------------------------------------
Task == Head(asked)
Serving(op) == asked # <<>> /\ Task.op = op /\ asked' = Tail(asked)

\* Deletions that end without a render.
LeavesAsIs(last) == FALSE

\* router.refresh once every deletion is answered.
Refreshes(last) == last

\* What the API is left with by a call that fails: it may have stored the change first,
\* as the event is written after the row.
FailsWith(changed) ==
    /\ apps' \in {apps, changed} /\ unheard' = (unheard \/ apps' # apps)

\* Of the forms that sent such a call, the one that is mounted sent the last.
Another(op) == \E i \in DOMAIN Tail(asked) : Tail(asked)[i].op = op

\* After a failure nothing but the last refreshes, which renders what was deleted.
ServeDelete ==
    /\ Serving("delete")
    /\ apps' \in {apps, Without(apps, {Task.id})}
    /\ \/ Task.id \in DOMAIN apps \ DOMAIN apps' /\ refresh' = TRUE
       \/ refresh' = (refresh \/ Refreshes(Task.last))
    /\ UNCHANGED <<url, next, toolbar, input, debounced, store, total, open, form, creating, selection,
                   acts, overtaken, blind, unheard>>

\* The city that was emptied is cleared, the notes are left as they were.
Updated(record, data) ==
    [data EXCEPT !.notes = IF @ = "" THEN record.notes ELSE @]

\* The dialog closes once the change is stored, and stays when the call failed.
ServeUpdate ==
    /\ Serving("update")
    /\ LET changed == [x \in DOMAIN apps |-> IF x = Task.id THEN Updated(apps[x], Task.record)
                                            ELSE apps[x]]
       IN \/ /\ Task.id \in DOMAIN apps /\ apps' = changed /\ refresh' = TRUE
             /\ Close(Task.at) /\ unheard' = unheard
          \/ /\ FailsWith(changed)
             /\ form' = IF form = Shut THEN Shut
                        ELSE [form EXCEPT !.saving = @ /\ Another("update")]
             /\ UNCHANGED <<next, open, refresh, overtaken>>
    /\ UNCHANGED <<url, toolbar, input, debounced, store, total, creating, selection, acts, blind>>

ServeCreate ==
    /\ Serving("create")
    /\ \/ \E x \in Ids \ DOMAIN apps :
              /\ apps' = With(apps, x, Task.record) /\ creating' = "shut" /\ refresh' = TRUE
              /\ unheard' = unheard
       \/ /\ \/ \E x \in Ids \ DOMAIN apps : FailsWith(With(apps, x, Task.record))
             \/ UNCHANGED <<apps, unheard>>
          /\ creating' = IF creating = "sending" /\ ~Another("create") THEN "open" ELSE creating
          /\ refresh' = refresh
    /\ UNCHANGED <<url, next, toolbar, input, debounced, store, total, open, form, selection, acts,
                   overtaken, blind>>
-----------------------------------------------------------------------------
\* The page renders for u with what was fetched, or with no rows. A form that is mounted
\* keeps what it holds.
Render(u) ==
    /\ \/ store' = Answer(u) /\ total' = Count(u) /\ blind' = FALSE /\ unheard' = FALSE
       \/ store' = <<>> /\ total' = 0 /\ blind' = TRUE /\ unheard' = unheard
    /\ form' = IF ~open' \/ u.id \notin DOMAIN store' THEN Shut
               ELSE IF form # Shut THEN form ELSE [id |-> u.id, record |-> store'[u.id], saving |-> FALSE]

\* The box follows the search of the URL when that changes; that of the companies when
\* anything does.
Follow(u) ==
    IF u.search # url.search \/ (toolbar = "companies" /\ u # url) THEN u.search ELSE input

Land ==
    /\ next # NoUrl /\ url' = next /\ next' = NoUrl
    /\ input' = Follow(next)
    /\ open' = IF next.id # url.id THEN next.id # NoId ELSE open
    /\ Render(next)
    /\ UNCHANGED <<apps, toolbar, debounced, creating, selection, asked, refresh, acts, overtaken>>

Refresh ==
    /\ refresh /\ refresh' = FALSE /\ open' = open
    /\ Render(url)
    /\ UNCHANGED <<apps, url, next, toolbar, input, debounced, creating, selection, asked, acts,
                   overtaken>>

Next ==
    \/ Type \/ Elapse \/ Hide \/ RowClick \/ Select
    \/ HandleDeleteSelected \/ CloseDialog \/ HandleDelete \/ Edit \/ Submit
    \/ OpenCreate \/ Create \/ CloseCreate
    \/ ServeDelete \/ ServeUpdate \/ ServeCreate
    \/ Land \/ Refresh

Spec == Init /\ [][Next]_vars
-----------------------------------------------------------------------------
Quiet == next = NoUrl /\ asked = <<>> /\ ~refresh /\ input = debounced

\* When nothing is under way the rows are what the API has for the URL, whichever
\* deletions failed, before or after their effect, and whichever changes and creations
\* did that stored nothing, unless the page could not be fetched: one that is stored and
\* answered with an error leaves the rows behind until the next render. The search box
\* holds the search of the URL, and the dialog is open when the URL names an application,
\* unless a navigation replaced another.
ListSettles ==
    Quiet =>
        /\ ~blind /\ ~unheard => store = Answer(url)
        /\ ~overtaken => input = url.search /\ (open <=> url.id # NoId)

\* "Hiding a column is a filter like any other, so the count in the bar follows it"
\* (apps/web/src/app/app/(app)/applications/page.tsx:31).
CountFollowsFilters ==
    Quiet /\ ~blind /\ url.search = "" => total = Cardinality(Rows(url))
=============================================================================
