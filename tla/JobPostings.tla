----------------------------- MODULE JobPostings -----------------------------
(***************************************************************************)
(* What makes two postings the same offer, statement by statement: one     *)
(* company's rows of job_posting under the batches and reconciles of the   *)
(* boards that list it (apps/api/src/features/job-posting/ingest).         *)
(*                                                                         *)
(* DiscoveryCycle takes an offer for given and a batch for one step; here  *)
(* an offer has a URL, a vendor id and a folded title with its city, the   *)
(* batches of several boards interleave between their SQL statements, and  *)
(* a request can stop after any of them.                                   *)
(***************************************************************************)
EXTENDS Naturals, FiniteSets

CONSTANTS Boards,       \* the company's sources
          Urls, Ids, Keys, Cities,
          Versions,     \* what a board may say of an offer
          Alike,        \* pairs of keys: same city, titles over TITLE_SIMILARITY
          Reordered,    \* those of the same words in another order: similarity 1
          NoId, NoHash, NoRow,  \* null, null, no such row
          Settings      \* what may run, see SettingsOf

\* How the crawl runs: what each board may list, how many boards are read at a
\* time, whether a request may stop between two statements.
SettingsOf == [listings    : [Boards -> SUBSET SUBSET Versions],
               concurrency : Nat \ {0},
               mayStop     : BOOLEAN]

ASSUME PostingsAssumption ==
    /\ Versions \subseteq [url : Urls, ext : Ids \union {NoId},
                           key : Keys, cities : SUBSET Cities]
    /\ \A s \in Settings : s \in SettingsOf
    /\ Alike \subseteq Keys \X Keys /\ Reordered \subseteq Alike
    /\ NoId \notin Ids

\* Similarity has no direction.
ASSUME AlikeAssumption == \A pair \in Alike : <<pair[2], pair[1]>> \in Alike

\* A company has finitely many sources.
ASSUME BoardsAssumption == IsFiniteSet(Boards)

VARIABLES setting,  \* how this crawl runs: chosen once
          listed,   \* [Boards -> SUBSET Versions]: what each board says now
          rows,     \* [Urls -> row or NoRow]: unique (companyId, url)
          request,  \* [Boards -> what the worker and the API do for it]
          visited   \* SUBSET Boards: those this cycle has read

vars == <<setting, listed, rows, request, visited>>

\* contentHash: the columns a merge writes, not the URL.
Digests == [ext : Ids \union {NoId}, key : Keys, cities : SUBSET Cities, source : Boards]

Rows == [ext    : Ids \union {NoId},
         key    : Keys,             \* dedupKey, unique per company
         source : Boards,
         hash   : Digests \union {NoHash},
         cities : SUBSET Cities,    \* rows of job_posting_location
         open   : BOOLEAN]

ASSUME NullAssumption == NoRow \notin Rows /\ NoRow \notin Urls /\ NoHash \notin Digests

Stages == {"idle", "resolve", "insert", "merge", "touch", "cities", "reconcile"}

Requests == [stage   : Stages,
             listing : SUBSET Versions,  \* result.jobs
             todo    : SUBSET Versions,  \* not yet posted
             batch   : SUBSET Versions,  \* the chunk being posted; then its part being merged
             later   : SUBSET Versions,  \* of that chunk, inserted and not yet merged
             key     : [Versions -> Keys],        \* of each, once resolved
             changed : [Urls -> Urls \union {NoRow}],  \* incoming URL -> row
             whole   : BOOLEAN]          \* no chunk was given up

NoChange == [u \in Urls |-> NoRow]

OwnKey == [v \in Versions |-> v.key]

Idle == [stage |-> "idle", listing |-> {}, todo |-> {}, batch |-> {}, later |-> {},
         key |-> OwnKey, changed |-> NoChange, whole |-> TRUE]

TypeOK ==
    /\ setting \in Settings
    /\ listed \in [Boards -> SUBSET Versions]
    /\ rows \in [Urls -> Rows \union {NoRow}]
    /\ request \in [Boards -> Requests]
    /\ visited \subseteq Boards

Init ==
    /\ setting \in Settings
    /\ listed \in [Boards -> UNION {setting.listings[b] : b \in Boards}]
    /\ \A b \in Boards : listed[b] \in setting.listings[b]
    /\ rows = [u \in Urls |-> NoRow]
    /\ request = [b \in Boards |-> Idle]
    /\ visited = {}
-----------------------------------------------------------------------------
Stored == {u \in Urls : rows[u] # NoRow}

StoredKeys == {rows[u].key : u \in Stored}

Digest(b, v) == [ext |-> v.ext, key |-> v.key, cities |-> v.cities, source |-> b]

\* MATCHES_INCOMING: the row at URL u is the incoming v, known under key.
Matches(u, v, key) ==
    /\ u \in Stored
    /\ \/ u = v.url
       \/ v.ext # NoId /\ rows[u].ext = v.ext
       \/ rows[u].key = key

Become(b, r) == request' = [request EXCEPT ![b] = r]

InStage(b, stage) == request[b].stage = stage

\* After a chunk: the next one, or the end of the listing.
NextChunk(r) ==
    LET rest == r.todo \ (r.batch \union r.later)
    IN  [r EXCEPT !.stage = IF rest = {} THEN "reconcile" ELSE "resolve",
                  !.todo = rest, !.batch = {}, !.later = {},
                  !.key = OwnKey, !.changed = NoChange]

\* After the first part of a chunk, the other.
NextPart(r) ==
    [r EXCEPT !.stage = "merge", !.todo = @ \ r.batch, !.batch = r.later, !.later = {},
              !.changed = NoChange]
-----------------------------------------------------------------------------
\* The board is edited.
Edit(b) ==
    /\ \E says \in setting.listings[b] : listed' = [listed EXCEPT ![b] = says]
    /\ UNCHANGED <<setting, rows, request, visited>>

\* All that a cycle reads has been dealt with (Promise.all), and the next one begins:
\* while a cycle of the worker runs, every tick is skipped.
NextCycle ==
    /\ visited # {} /\ \A b \in Boards : InStage(b, "idle")
    /\ visited' = {}
    /\ UNCHANGED <<setting, listed, rows, request>>

\* Mutant: a board's turn comes again while the cycle is at others.
ReadAnyTime(b) ==
    /\ InStage(b, "idle") /\ listed[b] # {}
    /\ Cardinality({d \in Boards : ~InStage(d, "idle")}) < setting.concurrency
    /\ Become(b, [Idle EXCEPT !.stage = "resolve", !.listing = listed[b], !.todo = listed[b]])
    /\ visited' = visited \union {b}
    /\ UNCHANGED <<setting, listed, rows>>

\* A board is read to its end and found changed (or due for a reconcile): a cycle goes
\* through its sources once.
Read(b) ==
    /\ InStage(b, "idle") /\ b \notin visited
    /\ listed[b] # {}
    /\ Cardinality({d \in Boards : ~InStage(d, "idle")}) < setting.concurrency
    /\ Become(b, [Idle EXCEPT !.stage = "resolve", !.listing = listed[b], !.todo = listed[b]])
    /\ visited' = visited \union {b}
    /\ UNCHANGED <<setting, listed, rows>>

\* Mutant: a near duplicate keeps the key it came with.
OwnKeyOnly(v) == {v.key}

\* The key an incoming offer gets: of those on file that read the same, the one most
\* similar. Its own is, and so is one with the words in another order, as trigrams have
\* none: the older row decides. With no such row, any that reads the same; else its own.
ResolvedKeys(v) ==
    LET near  == {k \in StoredKeys : <<v.key, k>> \in Alike}
        equal == {k \in StoredKeys : k = v.key \/ <<v.key, k>> \in Reordered}
    IN  IF near = {} THEN {v.key} ELSE IF equal = {} THEN near ELSE equal

\* createBatch with the next chunk: resolveNearDuplicates.
ResolveNearDuplicates(b) ==
    /\ InStage(b, "resolve")
    /\ \E chunk \in SUBSET request[b].todo \ {{}} :
        \E key \in [chunk -> Keys] :
            /\ \A v \in chunk : key[v] \in ResolvedKeys(v)
            /\ Become(b, [request[b] EXCEPT
                    !.stage = "insert", !.batch = chunk,
                    !.key = [v \in Versions |-> IF v \in chunk THEN key[v] ELSE v.key]])
    /\ UNCHANGED <<setting, listed, rows, visited>>

Clash(v, x, key) == v.url = x.url \/ key[v] = key[x]

\* ON CONFLICT DO NOTHING, row by row: the offers that get in are those that
\* clash neither with a row nor with one another, in some order of the chunk.
Insertable(r) ==
    LET free == {v \in r.batch : v.url \notin Stored /\ r.key[v] \notin StoredKeys}
    IN  {new \in SUBSET free :
            /\ \A v, x \in new : v # x => ~Clash(v, x, r.key)
            /\ \A v \in free \ new : \E x \in new : Clash(v, x, r.key)}

\* Mutant: the row goes in with its digest, so that its first merge skips it.
InsertedWithDigest(b, v, key) ==
    [ext |-> v.ext, key |-> key, source |-> b, hash |-> Digest(b, v), cities |-> {}, open |-> TRUE]

\* toRow: a row goes in without a digest and without cities.
Inserted(b, v, key) ==
    [ext |-> v.ext, key |-> key, source |-> b, hash |-> NoHash, cities |-> {}, open |-> TRUE]

\* The whole chunk of the worker (150) goes in before any of it is merged, in one or
\* two parts (MERGE_CHUNK_SIZE, 100).
InsertChunk(b) ==
    LET r == request[b] IN
    /\ InStage(b, "insert")
    /\ \E new \in Insertable(r) :
        rows' = [u \in Urls |->
            IF \E v \in new : v.url = u
            THEN LET v == CHOOSE x \in new : x.url = u IN Inserted(b, v, r.key[v])
            ELSE rows[u]]
    /\ \E part \in SUBSET r.batch \ {{}} :
        Become(b, [r EXCEPT !.stage = "merge", !.batch = part, !.later = r.batch \ part])
    /\ UNCHANGED <<setting, listed, visited>>
-----------------------------------------------------------------------------
\* The offers of the chunk that would rewrite the row at u.
Rewriters(b, u) ==
    {v \in request[b].batch :
        Matches(u, v, request[b].key[v]) /\ rows[u].hash # Digest(b, v)}

\* A row takes the id of the incoming offer, if it has one.
Merged(row, b, v) ==
    [row EXCEPT !.ext = IF v.ext = NoId THEN @ ELSE v.ext,
                !.source = b,
                !.hash = Digest(b, v)]

\* UPDATE ... FROM (VALUES ...): a row that several offers match takes any one
\* of them; of the rows one offer rewrote, the map keeps the last it is told.
MergeChunk(b) ==
    LET dirty == {u \in Urls : Rewriters(b, u) # {}} IN
    /\ InStage(b, "merge")
    /\ \E by \in [dirty -> request[b].batch] :
        /\ \A u \in dirty : by[u] \in Rewriters(b, u)
        /\ rows' = [u \in Urls |-> IF u \in dirty THEN Merged(rows[u], b, by[u]) ELSE rows[u]]
        /\ \E changed \in [Urls -> dirty \union {NoRow}] :
            /\ \A url \in Urls :
                LET rewrote == {u \in dirty : by[u].url = url}
                IN  changed[url] \in IF rewrote = {} THEN {NoRow} ELSE rewrote
            /\ Become(b, [request[b] EXCEPT !.stage = "touch", !.changed = changed])
    /\ UNCHANGED <<setting, listed, visited>>

\* Being seen is what keeps a posting open.
TouchChunk(b) ==
    LET r == request[b] IN
    /\ InStage(b, "touch")
    /\ rows' = [u \in Urls |->
            IF \E v \in r.batch : Matches(u, v, r.key[v]) THEN [rows[u] EXCEPT !.open = TRUE]
            ELSE rows[u]]
    /\ Become(b, [r EXCEPT !.stage = "cities"])
    /\ UNCHANGED <<setting, listed, visited>>

\* The city rows of an offer that changed and names cities are replaced.
SyncLocations(b) ==
    LET r == request[b]
        naming(u) == {v \in r.batch : v.cities # {} /\ r.changed[v.url] = u}
    IN
    /\ InStage(b, "cities")
    /\ rows' = [u \in Urls |->
            IF u \in Stored /\ naming(u) # {}
            THEN [rows[u] EXCEPT !.cities = UNION {v.cities : v \in naming(u)}]
            ELSE rows[u]]
    /\ Become(b, IF r.later = {} THEN NextChunk(r) ELSE NextPart(r))
    /\ UNCHANGED <<setting, listed, visited>>

\* The request stops between two statements; the worker gives the chunk up.
Stop(b) ==
    /\ setting.mayStop
    /\ request[b].stage \in {"insert", "merge", "touch", "cities"}
    /\ Become(b, [NextChunk(request[b]) EXCEPT !.whole = FALSE])
    /\ UNCHANGED <<setting, listed, rows, visited>>

\* Mutant: only the URL says whether the board still lists a row.
GoneByUrl(u, listing) == \A v \in listing : v.url # u

\* Neither the URL nor the id of the row is in the listing.
Gone(u, listing) ==
    /\ \A v \in listing : v.url # u
    /\ rows[u].ext = NoId \/ \A v \in listing : v.ext # rows[u].ext

\* lifecycle.reconcile.
Reconcile(b) ==
    /\ InStage(b, "reconcile")
    /\ rows' = [u \in Urls |->
            IF u \in Stored /\ rows[u].source = b /\ rows[u].open /\ Gone(u, request[b].listing)
            THEN [rows[u] EXCEPT !.open = FALSE]
            ELSE rows[u]]
    /\ Become(b, Idle)
    /\ UNCHANGED <<setting, listed, visited>>
-----------------------------------------------------------------------------
\* What is done for a board, or by it.
Work ==
    \E b \in Boards :
        \/ Edit(b) \/ Read(b)
        \/ ResolveNearDuplicates(b) \/ InsertChunk(b)
        \/ MergeChunk(b) \/ TouchChunk(b) \/ SyncLocations(b)
        \/ Stop(b)
        \/ Reconcile(b)

Next == Work \/ NextCycle

Spec == Init /\ [][Next]_vars
-----------------------------------------------------------------------------
(***************************************************************************)
(* Correctness.                                                            *)
(***************************************************************************)
\* What a board listed when it was read is open once that read is dealt with:
\* every offer it posted has an open row, however the batches of the boards
\* interleave and whoever owns the row by then (job-posting-ingest.service.ts:
\* "being seen is what keeps a posting open").
ReadOffersOpen ==
    [][\A b \in Boards :
        (InStage(b, "reconcile") /\ request[b].whole /\ InStage(b, "idle")') =>
            \A v \in request[b].listing :
                \E u \in Urls :
                    /\ Matches(u, v, v.key) \/ (u \in Stored /\ <<v.key, rows[u].key>> \in Alike)
                    /\ rows'[u].open]_vars

\* The boards are read one after the other: batches that interleave look the
\* spellings up before either has inserted.
OneAtATime == setting.concurrency = 1

\* With one board read at a time, whatever stops, two spellings of one opening
\* are one row (resolveNearDuplicates: "every step below treats the pair as the
\* one offer it is"; job-posting.ts: the key keeps a cross-posted role from
\* landing twice).
OneRowPerOpening ==
    OneAtATime => \A u, w \in Stored : u # w => <<rows[u].key, rows[w].key>> \notin Alike

\* The digest vouches for the city rows too, as long as no request stops: between
\* requests, a row whose digest says cities has exactly these, or a re-read would
\* never put it right (toRow: one writer for the digest, so that the city rows are written).
CitiesFollowDigest ==
    (OneAtATime /\ ~setting.mayStop /\ \A b \in Boards : InStage(b, "idle")) =>
        \A u \in Stored :
            (rows[u].hash # NoHash /\ rows[u].hash.cities # {}) =>
                rows[u].cities = rows[u].hash.cities
=============================================================================
