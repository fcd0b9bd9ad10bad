------------------------------- MODULE KanbanBoard -------------------------------
(***************************************************************************)
(* The kanban board of one tab (web, components/features/applications/views/  *)
(* kanban): cards are dragged between columns at once, the status and then   *)
(* the order are saved by server actions, and each action that succeeds       *)
(* renders the page again with what the API has (revalidatePath).            *)
(*                                                                         *)
(* Server actions of a tab run one at a time in the order they were called.   *)
(* Within a column only the card dropped last moves: dnd-kit's positions are  *)
(* left out. No other tab writes.                                           *)
(***************************************************************************)
EXTENDS Naturals, Sequences, SequencesExt, FiniteSets

CONSTANTS Apps, Statuses,
          Unset,        \* kanbanOrder is null
          MaxDrags,     \* bound: drags ever ended
          None

VARIABLES server,     \* [Apps -> the application's status and kanbanOrder]
          store,      \* useApplicationStore: the same for those the page has
          columns,    \* columnItems: [Statuses -> Seq of Apps]
          drag,       \* the card being dragged and the snapshot, or None
          moves,      \* ended drags whose actions are not all answered
          queue,      \* the actions called, in order: a move and what it saves
          fresh,      \* the applications of a render under way, or None
          drags,
          raced,      \* history: a drag started with another's actions or a render under way
          unheard     \* history: the API stored what the tab was told had failed, and no
                      \*   render has been asked for since

vars == <<server, store, columns, drag, moves, queue, fresh, drags, raced, unheard>>

Orders == {Unset} \union 0 .. Cardinality(Apps)
Cards == [status : Statuses, order : Orders]
Columns == [Statuses -> SeqOf(Apps, Cardinality(Apps))]

TypeOK ==
    /\ server \in [Apps -> Cards]
    /\ DOMAIN store \subseteq Apps /\ \A x \in DOMAIN store : store[x] \in Cards
    /\ columns \in Columns
    /\ drag = None \/ (drag.card \in Apps /\ drag.snapshot \in Columns)
    /\ \A i \in DOMAIN queue : queue[i].move \in DOMAIN moves

Holds(s, x) == \E i \in DOMAIN s : s[i] = x

\* items.filter: those of the list that are some of these.
Kept(list, some) ==
    FoldLeft(LAMBDA kept, x : IF x \in some THEN Append(kept, x) ELSE kept, <<>>, list)

\* buildColumnItems: by kanbanOrder, the unset ones last, those of one order either way.
BuildColumn(apps, s) ==
    LET Place(x) == IF apps[x].order = Unset THEN Cardinality(Apps) + 1 ELSE apps[x].order
    IN CHOOSE column \in SetToSeqs({x \in DOMAIN apps : apps[x].status = s}) :
           \A i, j \in DOMAIN column : i < j => Place(column[i]) <= Place(column[j])

\* A merge that keeps every card of the current columns.
MergeKeepsAll(current, apps) ==
    [s \in Statuses |->
        current[s] \o Kept(BuildColumn(apps, s), Apps \ ToSet(current[s]))]

\* mergeColumnItems: the cards that are still of that status keep their place, the
\* others that are of it come after.
MergeColumnItems(current, apps) ==
    [s \in Statuses |->
        LET kept == Kept(current[s], {x \in DOMAIN apps : apps[x].status = s})
        IN kept \o Kept(BuildColumn(apps, s), Apps \ ToSet(kept))]

\* moveToColumnByTier
MoveToColumn(items, x, target) ==
    IF \A s \in Statuses : ~Holds(items[s], x) THEN items
    ELSE [s \in Statuses |->
            LET others == Kept(items[s], Apps \ {x})
            IN IF s = target THEN Append(others, x) ELSE others]

Init ==
    /\ server \in [Apps -> [status : Statuses, order : {Unset}]]
    /\ store = server /\ columns = [s \in Statuses |-> BuildColumn(server, s)]
    /\ drag = None /\ moves = <<>> /\ queue = <<>> /\ fresh = None /\ drags = 0
    /\ raced = FALSE /\ unheard = FALSE
-----------------------------------------------------------------------------
DragStart ==
    /\ drag = None /\ drags < MaxDrags
    /\ \E s \in Statuses : \E i \in DOMAIN columns[s] :
        drag' = [card |-> columns[s][i], snapshot |-> columns]
    /\ raced' = (raced \/ queue # <<>> \/ fresh # None)
    /\ UNCHANGED <<server, store, columns, moves, queue, fresh, drags, unheard>>

DragOver ==
    /\ drag # None
    /\ \E s \in Statuses : columns' = MoveToColumn(columns, drag.card, s)
    /\ UNCHANGED <<server, store, drag, moves, queue, fresh, drags, raced, unheard>>

Cancel ==
    /\ drag # None /\ columns' = drag.snapshot /\ drag' = None
    /\ UNCHANGED <<server, store, moves, queue, fresh, drags, raced, unheard>>

\* buildOrderUpdatesForStatus for the columns it left and reached, where the store
\* has another order.
OrderChanges(items, statuses) ==
    UNION {{[app |-> items[s][i], order |-> i - 1] : i \in
               {j \in DOMAIN items[s] : items[s][j] \notin DOMAIN store
                                        \/ store[items[s][j]].order # j - 1}}
           : s \in statuses}

\* onDragEnd: a card that is in no column, or that the store does not have, saves
\* nothing; the status is saved only when the store's differs.
DragEnd ==
    /\ drag # None /\ drag' = None /\ drags' = drags + 1
    /\ \E target \in Statuses \union {None} :
        LET x == drag.card
            items == IF target = None THEN columns ELSE MoveToColumn(columns, x, target)
            reached == {s \in Statuses : Holds(items[s], x)}
        IN /\ columns' = items
           /\ IF reached = {} \/ x \notin DOMAIN store THEN UNCHANGED <<moves, queue>>
              ELSE LET to == CHOOSE s \in reached : TRUE
                       orders == OrderChanges(items, {to, store[x].status})
                       move == [card |-> x, to |-> to, orders |-> orders,
                                snapshot |-> drag.snapshot]
                       what == IF store[x].status # to THEN "status"
                               ELSE IF orders # {} THEN "orders" ELSE "nothing"
                   IN IF what = "nothing" THEN UNCHANGED <<moves, queue>>
                      ELSE /\ moves' = Append(moves, move)
                           /\ queue' = Append(queue, [move |-> Len(moves) + 1, saves |-> what])
    /\ UNCHANGED <<server, store, fresh, raced, unheard>>
-----------------------------------------------------------------------------
Ordered(apps, orders) ==
    [x \in DOMAIN apps |->
        IF \E o \in orders : o.app = x
        THEN [apps[x] EXCEPT !.order = (CHOOSE o \in orders : o.app = x).order] ELSE apps[x]]

Patched(apps, x, status) ==
    IF x \in DOMAIN apps THEN [apps EXCEPT ![x].status = status] ELSE apps

\* "Snapshot restores a failed move."
Restored(move) == move.snapshot

Answered == UNCHANGED <<drag, moves, drags, raced>>

\* updateApplicationStatusAction: the order is saved once the status is. The API writes
\* the status, then the date and the event: it may have written it and fail.
ServeStatus ==
    /\ queue # <<>> /\ Head(queue).saves = "status"
    /\ LET move == moves[Head(queue).move]
           written == Patched(server, move.card, move.to)
       IN \/ /\ server' = written /\ store' = Patched(store, move.card, move.to)
             /\ fresh' = server' /\ unheard' = FALSE /\ columns' = columns
             /\ queue' = Tail(queue) \o
                    (IF move.orders = {} THEN <<>> ELSE <<[Head(queue) EXCEPT !.saves = "orders"]>>)
          \/ /\ columns' = Restored(move) /\ queue' = Tail(queue)
             /\ server' \in {server, written} /\ unheard' = (unheard \/ server' # server)
             /\ UNCHANGED <<store, fresh>>
    /\ Answered

\* One updateApplicationAction for each order that changed. When one fails, which may
\* have been saved, the page is refreshed and the store takes no order from this move.
ServeOrders ==
    /\ queue # <<>> /\ Head(queue).saves = "orders"
    /\ \E saved \in SUBSET moves[Head(queue).move].orders, ok \in BOOLEAN :
        /\ ok => saved = moves[Head(queue).move].orders
        /\ server' = Ordered(server, saved)
        /\ store' = IF ok THEN Ordered(store, saved) ELSE store
        /\ fresh' = server' /\ unheard' = FALSE /\ queue' = Tail(queue) /\ columns' = columns
    /\ Answered

\* The page renders what was fetched, or nothing if the fetch failed.
Render ==
    /\ fresh # None /\ fresh' = None
    /\ \E apps \in {fresh, <<>>} :
        store' = apps /\ columns' = MergeColumnItems(columns, apps)
    /\ UNCHANGED <<server, drag, moves, queue, drags, raced, unheard>>

Refresh ==
    /\ fresh = None /\ DOMAIN store # Apps /\ fresh' = server
    /\ unheard' = FALSE
    /\ UNCHANGED <<server, store, columns, drag, moves, queue, drags, raced>>

Next ==
    \/ DragStart \/ DragOver \/ Cancel \/ DragEnd
    \/ ServeStatus \/ ServeOrders \/ Render \/ Refresh

Spec == Init /\ [][Next]_vars
-----------------------------------------------------------------------------
\* A card is never in two columns. When nothing is under way, each card the page has is
\* in the column of its status and the page has what the API has, unless a drag started
\* with another's actions under way: its status is compared with the store's, which the
\* first has not changed yet, and its snapshot restores a move that may fail too; or the
\* API stored a status and failed after it, as its event is written apart from it: the
\* card is back where it was, until the page is rendered again.
CardsSettle ==
    /\ \A s, t \in Statuses : s # t => ToSet(columns[s]) \intersect ToSet(columns[t]) = {}
    /\ \A s \in Statuses : Cardinality(ToSet(columns[s])) = Len(columns[s])
    /\ drag = None /\ queue = <<>> /\ fresh = None /\ ~raced =>
        \A x \in DOMAIN store :
            Holds(columns[store[x].status], x) /\ (~unheard => store[x] = server[x])
=============================================================================
