--------------------------- MODULE JobPostings_proofs ---------------------------
(***************************************************************************)
(* One row per opening, for any boards, offers and spellings, and the city  *)
(* rows that a digest vouches for; what was read is open.                  *)
(***************************************************************************)
EXTENDS JobPostings, FiniteSetTheorems, TLAPS

\* No board lists an opening under two spellings at once: a batch is compared
\* with the rows on file and not with itself (resolveNearDuplicates).
SpelledOnce ==
    \A s \in Settings : s.concurrency = 1 =>
        \A b \in Boards : \A says \in s.listings[b] :
            \A v, x \in says : v # x => <<v.key, x.key>> \notin Alike

Busy(b) == ~InStage(b, "idle")
-----------------------------------------------------------------------------
(***************************************************************************)
(* Type correctness.                                                       *)
(***************************************************************************)
\* A board at rest has a request that is well typed.
LEMMA IdleType == Idle \in Requests
<1>1. \A v \in Versions : v.key \in Keys
  BY PostingsAssumption
<1>2. QED
  BY <1>1 DEF Idle, Requests, Stages, OwnKey, NoChange

\* What is left after a chunk is well typed.
LEMMA NextChunkType ==
    \A r \in Requests : NextChunk(r) \in Requests /\ NextPart(r) \in Requests
<1>1. OwnKey \in [Versions -> Keys]
  BY PostingsAssumption DEF OwnKey
<1>2. NoChange \in [Urls -> Urls \union {NoRow}]
  BY DEF NoChange
<1>3. QED
  BY <1>1, <1>2 DEF NextChunk, NextPart, Requests, Stages

\* The digest of what a board says is one.
LEMMA DigestType == \A b \in Boards, v \in Versions : Digest(b, v) \in Digests
BY PostingsAssumption DEF Digest, Digests

\* A row that is merged stays one, under its key.
LEMMA MergedType ==
    ASSUME NEW row \in Rows, NEW b \in Boards, NEW v \in Versions
    PROVE  Merged(row, b, v) \in Rows /\ Merged(row, b, v).key = row.key
<1>1. v.ext \in Ids \union {NoId}
  BY PostingsAssumption
<1>2. QED
  BY <1>1, DigestType DEF Merged, Rows

\* Only the insertion of a chunk makes rows, and none goes or changes its key.
LEMMA KeysStay ==
    ASSUME TypeOK, NEW b \in Boards, MergeChunk(b) \/ TouchChunk(b) \/ SyncLocations(b) \/
           Reconcile(b)
    PROVE  /\ rows' \in [Urls -> Rows \union {NoRow}]
           /\ \A u \in Urls : /\ rows'[u] = NoRow <=> rows[u] = NoRow
                              /\ rows[u] # NoRow => rows'[u].key = rows[u].key
<1> DEFINE Same(row, old) == /\ row \in Rows \union {NoRow}
                             /\ row = NoRow <=> old = NoRow
                             /\ old # NoRow => row.key = old.key
<1>1. \A u \in Urls : rows[u] \in Rows \/ rows[u] = NoRow
  BY DEF TypeOK
<1>2. rows' = [u \in Urls |-> rows'[u]]
  BY DEF MergeChunk, TouchChunk, SyncLocations, Reconcile
<1>3. ASSUME NEW u \in Urls
      PROVE  Same(rows'[u], rows[u])
  <2>1. request[b].batch \subseteq Versions /\ request[b].listing \subseteq Versions
        /\ request[b] \in Requests
    BY DEF TypeOK, Requests
  <2>2. CASE MergeChunk(b)
    <3> DEFINE dirty == {w \in Urls : Rewriters(b, w) # {}}
    <3>1. PICK by \in [dirty -> request[b].batch] :
              rows' = [w \in Urls |-> IF w \in dirty THEN Merged(rows[w], b, by[w]) ELSE rows[w]]
      BY <2>2 DEF MergeChunk
    <3>2. CASE u \in dirty
      <4>1. u \in Stored /\ by[u] \in Versions
        BY <2>1, <3>2 DEF Rewriters, Matches
      <4>2. rows[u] \in Rows
        BY <1>1, <4>1 DEF Stored
      <4>3. QED
        BY <3>1, <3>2, <4>1, <4>2, MergedType, NullAssumption
    <3>3. CASE u \notin dirty
      BY <1>1, <3>1, <3>3
    <3>4. QED
      BY <3>2, <3>3
  <2>3. CASE TouchChunk(b)
    <3>1. rows'[u] = rows[u] \/ (u \in Stored /\ rows'[u] = [rows[u] EXCEPT !.open = TRUE])
      BY <2>3 DEF TouchChunk, Matches
    <3>2. QED
      BY <1>1, <3>1, NullAssumption DEF Stored, Rows
  <2>4. CASE SyncLocations(b)
    <3> DEFINE some == UNION {v.cities : v \in {x \in request[b].batch :
                                  x.cities # {} /\ request[b].changed[x.url] = u}}
    <3>1. some \subseteq Cities
      BY <2>1, PostingsAssumption
    <3>2. rows'[u] = rows[u] \/ (u \in Stored /\ rows'[u] = [rows[u] EXCEPT !.cities = some])
      BY <2>4 DEF SyncLocations
    <3> HIDE DEF some
    <3>3. QED
      BY <1>1, <3>1, <3>2, NullAssumption DEF Stored, Rows
  <2>5. CASE Reconcile(b)
    <3>1. rows'[u] = rows[u] \/ (u \in Stored /\ rows'[u] = [rows[u] EXCEPT !.open = FALSE])
      BY <2>5 DEF Reconcile
    <3>2. QED
      BY <1>1, <3>1, NullAssumption DEF Stored, Rows
  <2>6. QED
    BY <2>2, <2>3, <2>4, <2>5
<1>4. QED
  BY <1>2, <1>3

\* What the insertion of a chunk leaves at each URL.
LEMMA InsertedRows ==
    ASSUME TypeOK, NEW b \in Boards, InsertChunk(b)
    PROVE  \E new \in Insertable(request[b]) :
              /\ rows' \in [Urls -> Rows \union {NoRow}]
              /\ new \subseteq request[b].batch
              /\ \A v \in new : rows'[v.url] = Inserted(b, v, request[b].key[v])
                               /\ v.url \in Stored'
              /\ \A u \in Urls :
                    \/ rows'[u] = rows[u]
                    \/ \E v \in new : /\ v.url = u /\ rows'[u] \in Rows
                                      /\ rows'[u].key = request[b].key[v]
                                      /\ rows'[u] = Inserted(b, v, request[b].key[v])
<1> DEFINE r == request[b]
<1>1. r \in Requests
  BY DEF TypeOK
<1>2. PICK new \in Insertable(r) :
          rows' = [u \in Urls |->
            IF \E v \in new : v.url = u
            THEN LET v == CHOOSE x \in new : x.url = u IN Inserted(b, v, r.key[v])
            ELSE rows[u]]
  BY DEF InsertChunk
<1>3. new \subseteq r.batch /\ r.batch \subseteq Versions
  BY <1>1 DEF Insertable, Requests
<1>4. ASSUME NEW v \in new
      PROVE  Inserted(b, v, r.key[v]) \in Rows /\ Inserted(b, v, r.key[v]).key = r.key[v]
  <2>1. v.ext \in Ids \union {NoId} /\ r.key[v] \in Keys
    BY <1>1, <1>3, PostingsAssumption DEF Requests
  <2>2. QED
    BY <2>1 DEF Inserted, Rows
<1>5. ASSUME NEW u \in Urls
      PROVE  \/ rows'[u] = rows[u]
             \/ \E v \in new : /\ v.url = u /\ rows'[u] \in Rows /\ rows'[u].key = r.key[v]
                               /\ rows'[u] = Inserted(b, v, r.key[v])
  <2>1. CASE \E v \in new : v.url = u
    <3> DEFINE v == CHOOSE x \in new : x.url = u
    <3>1. v \in new /\ v.url = u
      BY <2>1
    <3>2. rows'[u] = Inserted(b, v, r.key[v])
      BY <1>2, <2>1
    <3> HIDE DEF v
    <3>3. QED
      BY <1>4, <3>1, <3>2
  <2>2. CASE ~\E v \in new : v.url = u
    BY <1>2, <2>2
  <2>3. QED
    BY <2>1, <2>2
<1>6. rows' = [u \in Urls |-> rows'[u]]
  BY <1>2
<1>7. rows' \in [Urls -> Rows \union {NoRow}]
  BY <1>5, <1>6 DEF TypeOK
<1>8. ASSUME NEW v \in new
      PROVE  rows'[v.url] = Inserted(b, v, r.key[v]) /\ v.url \in Stored'
  <2>1. (CHOOSE x \in new : x.url = v.url) = v
    BY <1>2 DEF Insertable, Clash
  <2>2. v.url \in Urls
    BY <1>3, PostingsAssumption
  <2>3. rows'[v.url] = Inserted(b, v, r.key[v])
    BY <1>2, <2>1, <2>2
  <2>4. QED
    BY <1>4, <2>2, <2>3, NullAssumption DEF Stored
<1>9. \A u \in Urls :
          \/ rows'[u] = rows[u]
          \/ \E v \in new : /\ v.url = u /\ rows'[u] \in Rows
                            /\ rows'[u].key = request[b].key[v]
                            /\ rows'[u] = Inserted(b, v, request[b].key[v])
  BY <1>5
<1>10. QED
  BY <1>2, <1>3, <1>7, <1>8, <1>9, Zenon

\* The chunk being posted is of what is to post, and that is of the listing; its later
\* part is what is left to merge.
Tidy(r) ==
    /\ r.batch \subseteq r.todo /\ r.later \subseteq r.todo /\ r.todo \subseteq r.listing
    /\ r.batch \cap r.later = {}
    /\ r.stage \in {"idle", "resolve", "insert", "reconcile"} => r.later = {}

\* What a step makes of a request.
Within(q, r) == q = Idle \/ (q.listing = r.listing /\ (Tidy(r) => Tidy(q)))

\* What a step of b does to the request of b.
LEMMA RequestStep ==
    ASSUME TypeOK, NEW b \in Boards,
           \/ ResolveNearDuplicates(b) \/ InsertChunk(b) \/ MergeChunk(b) \/ TouchChunk(b)
           \/ SyncLocations(b) \/ Stop(b) \/ Reconcile(b)
    PROVE  \E q \in Requests :
              /\ Become(b, q) /\ Busy(b) /\ Within(q, request[b])
              /\ q.stage = "insert" => ResolveNearDuplicates(b)
<1> DEFINE r == request[b]
           Goal == \E q \in Requests :
              /\ Become(b, q) /\ Busy(b) /\ Within(q, r)
              /\ q.stage = "insert" => ResolveNearDuplicates(b)
<1>1. r \in Requests
  BY DEF TypeOK
<1>2. ASSUME NEW q \in Requests, Become(b, q), Busy(b), q.listing = r.listing, Tidy(r) => Tidy(q),
             q.stage # "insert"
      PROVE  Goal
  BY <1>2 DEF Within
<1>3. ASSUME NEW q \in {NextChunk(r), [NextChunk(r) EXCEPT !.whole = FALSE]}, Become(b, q), Busy(b)
      PROVE  Goal
  <2>1. /\ NextChunk(r) \in Requests /\ NextChunk(r).listing = r.listing
        /\ NextChunk(r).todo \subseteq r.todo /\ NextChunk(r).batch = {}
        /\ NextChunk(r).later = {} /\ NextChunk(r).stage # "insert"
    BY <1>1, NextChunkType DEF NextChunk, Requests
  <2>2. q \in Requests /\ q.listing = r.listing /\ q.todo \subseteq r.todo /\ q.batch = {}
        /\ q.later = {} /\ q.stage # "insert"
    BY <1>3, <2>1 DEF Requests
  <2>3. QED
    BY <1>2, <1>3, <2>2 DEF Tidy
<1>4. CASE ResolveNearDuplicates(b)
  <2>1. PICK chunk \in SUBSET r.todo : \E key \in [chunk -> Keys] :
            Become(b, [r EXCEPT !.stage = "insert", !.batch = chunk,
                                !.key = [v \in Versions |-> IF v \in chunk THEN key[v] ELSE v.key]])
    BY <1>4 DEF ResolveNearDuplicates
  <2>2. PICK key \in [chunk -> Keys] :
            Become(b, [r EXCEPT !.stage = "insert", !.batch = chunk,
                                !.key = [v \in Versions |-> IF v \in chunk THEN key[v] ELSE v.key]])
    BY <2>1
  <2> DEFINE k == [v \in Versions |-> IF v \in chunk THEN key[v] ELSE v.key]
             q == [r EXCEPT !.stage = "insert", !.batch = chunk, !.key = k]
  <2>3. k \in [Versions -> Keys] /\ chunk \subseteq Versions
    BY <1>1, PostingsAssumption DEF Requests
  <2> HIDE DEF k
  <2>4. q \in Requests /\ q.listing = r.listing /\ q.todo = r.todo /\ q.batch = chunk
        /\ q.later = r.later
    BY <1>1, <2>3 DEF Requests, Stages
  <2>5. Become(b, q) /\ Busy(b) /\ r.stage = "resolve"
    BY <1>4, <2>2 DEF k, ResolveNearDuplicates, InStage, Busy
  <2>6. Tidy(r) => Tidy(q)
    BY <2>4, <2>5 DEF Tidy
  <2>7. QED
    BY <1>4, <2>4, <2>5, <2>6 DEF Within
<1>5. CASE InsertChunk(b)
  <2>1. PICK part \in SUBSET r.batch :
            Become(b, [r EXCEPT !.stage = "merge", !.batch = part, !.later = r.batch \ part])
    BY <1>5 DEF InsertChunk
  <2> DEFINE q == [r EXCEPT !.stage = "merge", !.batch = part, !.later = r.batch \ part]
  <2>2. /\ q \in Requests /\ q.listing = r.listing /\ q.todo = r.todo /\ q.stage = "merge"
        /\ q.batch = part /\ q.later = r.batch \ part
    BY <1>1 DEF Requests, Stages
  <2>3. Busy(b)
    BY <1>5 DEF InsertChunk, InStage, Busy
  <2> HIDE DEF q
  <2>4. Tidy(r) => Tidy(q)
    BY <2>2 DEF Tidy
  <2>5. QED
    BY <1>2, <2>1, <2>2, <2>3, <2>4 DEF q
<1>6. CASE MergeChunk(b)
  <2>1. PICK changed \in [Urls -> Urls \union {NoRow}] :
            Become(b, [r EXCEPT !.stage = "touch", !.changed = changed])
    <3> DEFINE dirty == {u \in Urls : Rewriters(b, u) # {}}
    <3>1. PICK changed \in [Urls -> dirty \union {NoRow}] :
              Become(b, [r EXCEPT !.stage = "touch", !.changed = changed])
      BY <1>6 DEF MergeChunk
    <3>2. changed \in [Urls -> Urls \union {NoRow}]
      OBVIOUS
    <3>3. QED
      BY <3>1, <3>2
  <2> DEFINE q == [r EXCEPT !.stage = "touch", !.changed = changed]
  <2>2. /\ q \in Requests /\ q.listing = r.listing /\ q.todo = r.todo /\ q.stage = "touch"
        /\ q.batch = r.batch /\ q.later = r.later
    BY <1>1 DEF Requests, Stages
  <2>3. Busy(b)
    BY <1>6 DEF MergeChunk, InStage, Busy
  <2> HIDE DEF q
  <2>4. Tidy(r) => Tidy(q)
    BY <2>2 DEF Tidy
  <2>5. QED
    BY <1>2, <2>1, <2>2, <2>3, <2>4 DEF q
<1>7. CASE TouchChunk(b)
  <2> DEFINE q == [r EXCEPT !.stage = "cities"]
  <2>1. /\ q \in Requests /\ q.listing = r.listing /\ q.todo = r.todo /\ q.stage = "cities"
        /\ q.batch = r.batch /\ q.later = r.later
    BY <1>1 DEF Requests, Stages
  <2>2. Become(b, q) /\ Busy(b)
    BY <1>7 DEF TouchChunk, InStage, Busy
  <2> HIDE DEF q
  <2>3. Tidy(r) => Tidy(q)
    BY <2>1 DEF Tidy
  <2>4. QED
    BY <1>2, <2>1, <2>2, <2>3
<1>8. CASE SyncLocations(b)
  <2>1. Become(b, NextChunk(r)) \/ Become(b, NextPart(r))
    BY <1>8 DEF SyncLocations
  <2>2. Busy(b)
    BY <1>8 DEF SyncLocations, InStage, Busy
  <2>3. CASE Become(b, NextPart(r))
    <3>1. /\ NextPart(r) \in Requests /\ NextPart(r).listing = r.listing
          /\ NextPart(r).todo = r.todo \ r.batch /\ NextPart(r).batch = r.later
          /\ NextPart(r).later = {} /\ NextPart(r).stage = "merge"
      BY <1>1, NextChunkType DEF NextPart, Requests
    <3>2. Tidy(r) => Tidy(NextPart(r))
      BY <3>1 DEF Tidy
    <3>3. QED
      BY <1>2, <2>2, <2>3, <3>1, <3>2
  <2>4. QED
    BY <1>3, <2>1, <2>2, <2>3
<1>9. CASE Stop(b)
  BY <1>3, <1>9 DEF Stop, InStage, Busy
<1>10. CASE Reconcile(b)
  <2>1. Become(b, Idle) /\ Busy(b) /\ Idle.stage # "insert"
    BY <1>10 DEF Reconcile, InStage, Busy, Idle
  <2>2. QED
    BY <2>1, IdleType DEF Within
<1>11. QED
  BY <1>4, <1>5, <1>6, <1>7, <1>8, <1>9, <1>10
-----------------------------------------------------------------------------
(***************************************************************************)
(* The inductive invariant.                                                *)
(***************************************************************************)
\* A request posts what its board listed.
Chunks ==
    /\ \A b \in Boards : listed[b] \in setting.listings[b]
    /\ \A b \in Boards :
          LET r == request[b] IN
          Tidy(r) /\ (r.listing = {} \/ r.listing \in setting.listings[b])

\* One board at a time is one request at a time.
Serial == OneAtATime => \A b, d \in Boards : (Busy(b) /\ Busy(d)) => b = d

\* The keys a chunk was given are still those it would be given.
Resolved ==
    OneAtATime => \A b \in Boards : InStage(b, "insert") =>
        \A v \in request[b].batch : request[b].key[v] \in ResolvedKeys(v)

PostingsInv == TypeOK /\ Chunks /\ Serial /\ Resolved /\ OneRowPerOpening

\* Types, and listings, stay what they are.
LEMMA TypesStay ==
    ASSUME TypeOK, Chunks, Work
    PROVE  TypeOK' /\ Chunks'
<1>1. setting' = setting /\ setting \in SettingsOf
  BY PostingsAssumption DEF Work, Edit, Read, ResolveNearDuplicates, InsertChunk, MergeChunk,
     TouchChunk, SyncLocations, Stop, Reconcile, TypeOK
<1>2. Idle.listing = {} /\ Idle.todo = {} /\ Idle.batch = {} /\ Idle.later = {}
  BY DEF Idle
<1>3. PICK b \in Boards : \/ Edit(b) \/ Read(b)
        \/ ResolveNearDuplicates(b) \/ InsertChunk(b)
        \/ MergeChunk(b) \/ TouchChunk(b) \/ SyncLocations(b)
        \/ Stop(b)
        \/ Reconcile(b)
  BY DEF Work
<1>4. CASE Edit(b)
  <2>1. PICK says \in setting.listings[b] : listed' = [listed EXCEPT ![b] = says]
    BY <1>4 DEF Edit
  <2>2. says \in SUBSET Versions
    BY <1>1, <2>1 DEF SettingsOf
  <2>3. QED
    BY <1>1, <1>4, <2>1, <2>2 DEF Edit, TypeOK, Chunks
<1>5. CASE Read(b)
  <2> DEFINE q == [Idle EXCEPT !.stage = "resolve", !.listing = listed[b], !.todo = listed[b]]
  <2>1. q \in Requests /\ q.batch = {} /\ q.later = {} /\ q.todo = listed[b]
        /\ q.listing = listed[b]
    BY IdleType, <1>2 DEF Requests, Stages, TypeOK
  <2>2. request' = [request EXCEPT ![b] = q]
    BY <1>5 DEF Read, Become
  <2> HIDE DEF q
  <2>3. TypeOK'
    BY <1>1, <1>5, <2>1, <2>2 DEF Read, TypeOK
  <2>4. Chunks'
    BY <1>1, <1>5, <2>1, <2>2 DEF Read, TypeOK, Chunks, Tidy
  <2>5. QED
    BY <2>3, <2>4
<1>6. CASE ~Edit(b) /\ ~Read(b)
  <2>1. PICK q \in Requests : Become(b, q) /\ Within(q, request[b])
    BY <1>3, <1>6, RequestStep
  <2>2. listed' = listed /\ visited' = visited
    BY <1>3, <1>6 DEF ResolveNearDuplicates, InsertChunk, MergeChunk, TouchChunk, SyncLocations,
       Stop, Reconcile
  <2>3. rows' \in [Urls -> Rows \union {NoRow}]
    <3>1. CASE UNCHANGED rows
      BY <3>1 DEF TypeOK
    <3>2. QED
      BY <1>3, <1>6, <3>1, KeysStay, InsertedRows DEF ResolveNearDuplicates, Stop
  <2>4. request' = [request EXCEPT ![b] = q]
    BY <2>1 DEF Become
  <2>5. TypeOK'
    BY <1>1, <2>2, <2>3, <2>4 DEF TypeOK
  <2>6. Tidy(q) /\ (q.listing = {} \/ q.listing \in setting.listings[b])
    BY <1>2, <2>1 DEF Within, Chunks, Tidy
  <2>7. Chunks'
    BY <1>1, <2>2, <2>4, <2>6 DEF TypeOK, Chunks
  <2>8. QED
    BY <2>5, <2>7
<1>7. QED
  BY <1>4, <1>5, <1>6

\* A board is read only while no other is.
LEMMA SerialStays ==
    ASSUME TypeOK, Serial, Work
    PROVE  Serial'
<1>1. setting' = setting
  BY DEF Work, Edit, Read, ResolveNearDuplicates, InsertChunk, MergeChunk,
     TouchChunk, SyncLocations, Stop, Reconcile
<1>2. SUFFICES ASSUME OneAtATime, NEW c \in Boards, NEW d \in Boards, Busy(c)', Busy(d)'
               PROVE  c = d
  BY <1>1 DEF Serial, OneAtATime, Busy, InStage
<1>3. PICK b \in Boards : \/ Edit(b) \/ Read(b)
        \/ ResolveNearDuplicates(b) \/ InsertChunk(b)
        \/ MergeChunk(b) \/ TouchChunk(b) \/ SyncLocations(b)
        \/ Stop(b)
        \/ Reconcile(b)
  BY DEF Work
<1>4. CASE Edit(b)
  BY <1>2, <1>4 DEF Edit, Serial, Busy, InStage
<1>5. CASE Read(b)
  <2> DEFINE busy == {e \in Boards : ~InStage(e, "idle")}
  <2>1. IsFiniteSet(busy) /\ Cardinality(busy) \in Nat
    BY BoardsAssumption, FS_Subset, FS_CardinalityType
  <2>2. Cardinality(busy) < 1
    BY <1>2, <1>5 DEF Read, OneAtATime
  <2>3. Cardinality(busy) = 0
    BY <2>1, <2>2
  <2>4. busy = {}
    BY <2>1, <2>3, FS_EmptySet
  <2>5. \A e \in Boards \ {b} : request'[e] = request[e]
    BY <1>5 DEF Read, Become, TypeOK
  <2>6. QED
    BY <1>2, <2>4, <2>5 DEF Busy, InStage
<1>6. CASE ~Edit(b) /\ ~Read(b)
  <2>1. PICK q \in Requests : Become(b, q) /\ Busy(b)
    BY <1>3, <1>6, RequestStep
  <2>2. \A e \in Boards \ {b} : request'[e] = request[e]
    BY <2>1 DEF Become, TypeOK
  <2>3. Busy(c) /\ Busy(d)
    BY <1>2, <2>1, <2>2 DEF Busy, InStage
  <2>4. QED
    BY <1>2, <2>3 DEF Serial
<1>7. QED
  BY <1>4, <1>5, <1>6

\* Keys on file stay on file as they are until a chunk is inserted.
LEMMA FileStays ==
    ASSUME TypeOK, NEW b \in Boards,
           \/ Edit(b) \/ Read(b) \/ ResolveNearDuplicates(b) \/ Stop(b)
           \/ MergeChunk(b) \/ TouchChunk(b) \/ SyncLocations(b) \/ Reconcile(b)
    PROVE  /\ Stored' = Stored /\ \A u \in Stored : rows'[u].key = rows[u].key
           /\ StoredKeys' = StoredKeys
<1>1. Stored' = Stored /\ \A u \in Stored : rows'[u].key = rows[u].key
  <2>1. CASE UNCHANGED rows
    BY <2>1 DEF Stored
  <2>2. CASE MergeChunk(b) \/ TouchChunk(b) \/ SyncLocations(b) \/ Reconcile(b)
    BY <2>2, KeysStay DEF Stored
  <2>3. QED
    BY <2>1, <2>2 DEF Edit, Read, ResolveNearDuplicates, Stop
<1>2. QED
  BY <1>1 DEF StoredKeys

\* The keys of a chunk are right until it is inserted, and what it inserts does
\* not read like anything on file.
LEMMA OpeningsStay ==
    ASSUME SpelledOnce, TypeOK, Chunks, Serial, Resolved, OneRowPerOpening, Work
    PROVE  Resolved' /\ OneRowPerOpening'
<1>1. setting' = setting /\ setting \in Settings /\ setting \in SettingsOf
  BY PostingsAssumption DEF Work, Edit, Read, ResolveNearDuplicates, InsertChunk, MergeChunk,
     TouchChunk, SyncLocations, Stop, Reconcile, TypeOK
<1>2. SUFFICES ASSUME OneAtATime
               PROVE  Resolved' /\ OneRowPerOpening'
  BY <1>1 DEF Resolved, OneRowPerOpening, OneAtATime
<1>3. PICK b \in Boards : \/ Edit(b) \/ Read(b)
        \/ ResolveNearDuplicates(b) \/ InsertChunk(b)
        \/ MergeChunk(b) \/ TouchChunk(b) \/ SyncLocations(b)
        \/ Stop(b)
        \/ Reconcile(b)
  BY DEF Work
<1>4. CASE ~InsertChunk(b)
  <2>1. /\ Stored' = Stored /\ \A u \in Stored : rows'[u].key = rows[u].key
        /\ StoredKeys' = StoredKeys
    BY <1>3, <1>4, FileStays
  <2>2. OneRowPerOpening'
    BY <1>2, <2>1 DEF OneRowPerOpening
  <2>3. \A v : ResolvedKeys(v)' = ResolvedKeys(v)
    BY <2>1 DEF ResolvedKeys
  <2>4. ASSUME NEW d \in Boards, InStage(d, "insert")'
        PROVE  \A v \in request'[d].batch : request'[d].key[v] \in ResolvedKeys(v)
    <3>1. CASE request'[d] = request[d]
      BY <1>2, <2>4, <3>1 DEF Resolved, InStage
    <3>2. CASE ResolveNearDuplicates(b) /\ d = b
      <4>1. PICK chunk \in SUBSET request[b].todo : \E key \in [chunk -> Keys] :
                /\ \A v \in chunk : key[v] \in ResolvedKeys(v)
                /\ Become(b, [request[b] EXCEPT !.stage = "insert", !.batch = chunk,
                                  !.key = [v \in Versions |-> IF v \in chunk THEN key[v] ELSE
                                        v.key]])
        BY <3>2 DEF ResolveNearDuplicates
      <4>5. PICK key \in [chunk -> Keys] :
                /\ \A v \in chunk : key[v] \in ResolvedKeys(v)
                /\ Become(b, [request[b] EXCEPT !.stage = "insert", !.batch = chunk,
                                  !.key = [v \in Versions |-> IF v \in chunk THEN key[v] ELSE
                                        v.key]])
        BY <4>1
      <4>2. request'[b].batch = chunk
            /\ request'[b].key = [v \in Versions |-> IF v \in chunk THEN key[v] ELSE v.key]
        BY <4>5 DEF Become, TypeOK, Requests
      <4>3. chunk \subseteq Versions
        BY DEF TypeOK, Requests
      <4>4. QED
        BY <3>2, <4>5, <4>2, <4>3
    <3>3. QED
      <4>1. CASE Edit(b)
        BY <3>1, <4>1 DEF Edit
      <4>2. CASE Read(b)
        <5>1. request'[b].stage = "resolve"
          BY <4>2, IdleType DEF Read, Become, TypeOK, Requests
        <5>2. d # b
          BY <2>4, <5>1 DEF InStage
        <5>3. QED
          BY <3>1, <4>2, <5>2 DEF Read, Become, TypeOK
      <4>3. CASE ~Edit(b) /\ ~Read(b)
        <5>1. PICK q \in Requests : Become(b, q) /\ (q.stage = "insert" => ResolveNearDuplicates(b))
          BY <1>3, <4>3, RequestStep
        <5>2. d = b \/ request'[d] = request[d]
          BY <5>1 DEF Become, TypeOK
        <5>3. d = b => q.stage = "insert"
          BY <2>4, <5>1 DEF Become, TypeOK, InStage
        <5>4. QED
          BY <3>1, <3>2, <5>1, <5>2, <5>3
      <4>4. QED
        BY <4>1, <4>2, <4>3
  <2>5. Resolved'
    BY <2>3, <2>4 DEF Resolved, InStage
  <2>6. QED
    BY <2>2, <2>5
<1>5. CASE InsertChunk(b)
  <2> DEFINE r == request[b]
  <2>1. PICK new \in Insertable(r) :
            /\ new \subseteq r.batch
            /\ \A u \in Urls :
                  \/ rows'[u] = rows[u]
                  \/ \E v \in new : v.url = u /\ rows'[u] \in Rows /\ rows'[u].key = r.key[v]
    BY <1>5, InsertedRows
  <2>2. \A v \in new : r.key[v] \notin StoredKeys /\ r.key[v] \in ResolvedKeys(v)
    BY <1>2, <1>5, <2>1 DEF Insertable, InsertChunk, Resolved
  <2>3. \A v \in new : r.key[v] = v.key /\ \A k \in StoredKeys : <<v.key, k>> \notin Alike
    BY <2>2 DEF ResolvedKeys
  <2>4. \A v, x \in new : v # x => <<v.key, x.key>> \notin Alike
    <3>1. new # {} => r.listing \in setting.listings[b] /\ new \subseteq r.listing
      BY <2>1 DEF Chunks, Tidy
    <3>2. QED
      BY <1>1, <1>2, <3>1 DEF SpelledOnce, OneAtATime
  <2>5. ASSUME NEW u \in Stored', NEW w \in Stored', u # w
        PROVE  <<rows'[u].key, rows'[w].key>> \notin Alike
    <3>1. u \in Urls /\ w \in Urls
      BY DEF Stored
    <3>2. ASSUME NEW x \in {u, w}
          PROVE  \/ rows'[x] = rows[x] /\ x \in Stored /\ rows[x].key \in StoredKeys
                 \/ \E v \in new : v.url = x /\ rows'[x].key = v.key
      BY <2>1, <2>3, <2>5, <3>1 DEF Stored, StoredKeys
    <3>3. CASE rows'[u] = rows[u] /\ u \in Stored /\ rows'[w] = rows[w] /\ w \in Stored
      BY <1>2, <2>5, <3>3 DEF OneRowPerOpening
    <3>4. ASSUME NEW v \in new, rows'[u].key = v.key, rows'[w].key \in StoredKeys
          PROVE  <<rows'[u].key, rows'[w].key>> \notin Alike
      BY <2>3, <3>4
    <3>5. ASSUME NEW v \in new, rows'[w].key = v.key, rows'[u].key \in StoredKeys
          PROVE  <<rows'[u].key, rows'[w].key>> \notin Alike
      <4>1. <<v.key, rows'[u].key>> \notin Alike
        BY <2>3, <3>5
      <4>2. QED
        BY <3>5, <4>1, AlikeAssumption
    <3>6. ASSUME NEW v \in new, v.url = u, rows'[u].key = v.key,
                 NEW x \in new, x.url = w, rows'[w].key = x.key
          PROVE  <<rows'[u].key, rows'[w].key>> \notin Alike
      BY <2>4, <2>5, <3>6
    <3>7. QED
      BY <3>2, <3>3, <3>4, <3>5, <3>6
  <2>6. OneRowPerOpening'
    BY <2>5 DEF OneRowPerOpening
  <2>7. \A d \in Boards : ~InStage(d, "insert")'
    <3>1. request'[b].stage = "merge" /\ \A d \in Boards \ {b} : request'[d] = request[d]
      <4>1. PICK part : Become(b, [r EXCEPT !.stage = "merge", !.batch = part,
                                            !.later = r.batch \ part])
        BY <1>5 DEF InsertChunk
      <4>2. QED
        BY <4>1 DEF Become, TypeOK, Requests
    <3>2. Busy(b)
      BY <1>5 DEF InsertChunk, Busy, InStage
    <3>3. \A d \in Boards \ {b} : InStage(d, "idle")
      BY <1>2, <3>2 DEF Serial, Busy
    <3>4. QED
      BY <3>1, <3>3 DEF InStage
  <2>8. QED
    BY <2>6, <2>7 DEF Resolved
<1>6. QED
  BY <1>4, <1>5

\* The invariant is one.
LEMMA PostingsInvariant ==
    ASSUME SpelledOnce
    PROVE  Spec => []PostingsInv
<1>1. Init => PostingsInv
  <2> SUFFICES ASSUME Init PROVE PostingsInv
    OBVIOUS
  <2>1. Idle.stage = "idle" /\ Idle.listing = {} /\ Idle.todo = {} /\ Idle.batch = {}
        /\ Idle.later = {}
    BY DEF Idle
  <2>2. setting \in SettingsOf
    BY PostingsAssumption DEF Init
  <2>3. \A b \in Boards : listed[b] \in SUBSET Versions
    BY <2>2 DEF Init, SettingsOf
  <2>4. TypeOK
    BY <2>3, IdleType DEF Init, TypeOK
  <2>5. Stored = {}
    BY DEF Init, Stored
  <2>6. QED
    BY <2>1, <2>4, <2>5 DEF Init, PostingsInv, Chunks, Tidy, Serial, Busy, InStage, Resolved,
           OneRowPerOpening
<1>2. PostingsInv /\ [Next]_vars => PostingsInv'
  <2> SUFFICES ASSUME PostingsInv, [Next]_vars PROVE PostingsInv'
    OBVIOUS
  <2>1. CASE Work
    BY <2>1, TypesStay, SerialStays, OpeningsStay DEF PostingsInv
  <2>2. CASE NextCycle \/ UNCHANGED vars
    <3>1. /\ setting' = setting /\ listed' = listed /\ rows' = rows /\ request' = request
          /\ Stored' = Stored /\ StoredKeys' = StoredKeys
          /\ visited' \in {visited, {}}
      BY <2>2 DEF NextCycle, vars, Stored, StoredKeys
    <3>2. TypeOK' /\ Chunks'
      BY <3>1 DEF PostingsInv, TypeOK, Chunks
    <3>3. Serial' /\ OneRowPerOpening'
      BY <3>1 DEF PostingsInv, Serial, Busy, InStage, OneRowPerOpening, OneAtATime
    <3>4. \A v : ResolvedKeys(v)' = ResolvedKeys(v)
      BY <3>1 DEF ResolvedKeys
    <3>5. Resolved'
      BY <3>1, <3>4 DEF PostingsInv, Resolved, InStage, OneAtATime
    <3>6. QED
      BY <3>2, <3>3, <3>5 DEF PostingsInv
  <2>3. QED
    BY <2>1, <2>2 DEF Next
<1>3. QED
  BY <1>1, <1>2, PTL DEF Spec

\* With one board read at a time, whatever stops, two spellings of one opening
\* are one row (resolveNearDuplicates), for boards that do not list one opening
\* under two spellings themselves.
THEOREM OneRow ==
    ASSUME SpelledOnce
    PROVE  Spec => []OneRowPerOpening
<1>1. PostingsInv => OneRowPerOpening
  BY DEF PostingsInv
<1>2. QED
  BY <1>1, PostingsInvariant, PTL
-----------------------------------------------------------------------------
(***************************************************************************)
(* The digests.                                                            *)
(***************************************************************************)
\* The two keys are one opening's.
Reads(k, l) == k = l \/ <<k, l>> \in Alike

\* Similarity parts the keys into openings, and what has the URL or the id of an offer is
\* of its opening: nothing is retitled to read like something else.
OpeningsApart ==
    /\ \A k, l, m \in Keys : Reads(k, l) /\ Reads(l, m) => Reads(k, m)
    /\ \A v, x \in Versions :
          v.url = x.url \/ (v.ext # NoId /\ v.ext = x.ext) => Reads(v.key, x.key)

\* A board lists a URL once.
UrlsOnce ==
    \A s \in Settings : \A b \in Boards : \A says \in s.listings[b] :
        \A v, x \in says : v.url = x.url => v = x

\* The company's boards take turns and no request stops.
Calm == OneAtATime /\ ~setting.mayStop

\* The key is unique.
OneRowAKey == \A u, w \in Stored : rows[u].key = rows[w].key => u = w

\* A row is of the opening of what was inserted at its URL, and of what gave it its id.
OfItsOpening ==
    \A u \in Stored :
        /\ \E v \in Versions : v.url = u /\ Reads(v.key, rows[u].key)
        /\ rows[u].ext # NoId =>
              \E v \in Versions : v.ext = rows[u].ext /\ Reads(v.key, rows[u].key)

\* What a request resolved reads like what it came with.
ResolvedAlike ==
    \A b \in Boards : \A v \in Versions : Reads(v.key, request[b].key[v])

\* The row at u has the cities its digest says.
Follows(u) ==
    rows[u].hash # NoHash /\ rows[u].hash.cities # {} => rows[u].cities = rows[u].hash.cities

\* The city rows of u are those b is about to write.
Due(b, u) ==
    /\ InStage(b, "touch") \/ InStage(b, "cities")
    /\ \E v \in request[b].batch : request[b].changed[v.url] = u

\* Each row that changed was changed by one offer, whose digest it has.
Told ==
    \A b \in Boards : InStage(b, "touch") \/ InStage(b, "cities") =>
        LET r == request[b] IN
        \A v \in r.batch : r.changed[v.url] # NoRow =>
            /\ rows[r.changed[v.url]].hash = Digest(b, v)
            /\ \A x \in r.batch : r.changed[x.url] = r.changed[v.url] => x = v

\* The inductive invariant of the digests, on top of PostingsInv.
DigestsInv ==
    /\ OneRowAKey /\ OfItsOpening /\ ResolvedAlike
    /\ Calm => Told /\ \A u \in Stored : Follows(u) \/ \E b \in Boards : Due(b, u)

\* To read alike has no direction.
LEMMA ReadsBothWays == \A k, l \in Keys : Reads(k, l) => Reads(l, k)
BY AlikeAssumption DEF Reads

\* What an offer matches is of its opening.
LEMMA MatchReads ==
    ASSUME OpeningsApart, PostingsInv, OfItsOpening, NEW u \in Urls, NEW v \in Versions,
           NEW key \in Keys, Reads(v.key, key), Matches(u, v, key)
    PROVE  rows[u] \in Rows /\ rows[u].key \in Keys /\ v.key \in Keys /\ Reads(v.key, rows[u].key)
<1>1. rows[u] \in Rows /\ rows[u].key \in Keys /\ u \in Stored
  BY DEF Matches, Stored, PostingsInv, TypeOK, Rows
<1>2. \A x \in Versions : x.key \in Keys
  BY PostingsAssumption
<1>3. CASE u = v.url
  BY <1>1, <1>2, <1>3 DEF OfItsOpening, OpeningsApart
<1>4. CASE v.ext # NoId /\ rows[u].ext = v.ext
  BY <1>1, <1>2, <1>4 DEF OfItsOpening, OpeningsApart
<1>5. CASE rows[u].key = key
  BY <1>1, <1>2, <1>5
<1>6. QED
  BY <1>1, <1>2, <1>3, <1>4, <1>5 DEF Matches

\* An offer matches one row.
LEMMA MatchesOne ==
    ASSUME OpeningsApart, PostingsInv, OneAtATime, OneRowAKey, OfItsOpening,
           NEW v \in Versions, NEW key \in Keys, Reads(v.key, key),
           NEW u \in Urls, NEW w \in Urls, Matches(u, v, key), Matches(w, v, key)
    PROVE  u = w
<1>1. /\ rows[u].key \in Keys /\ rows[w].key \in Keys /\ v.key \in Keys
      /\ Reads(v.key, rows[u].key) /\ Reads(v.key, rows[w].key)
  BY MatchReads
<1>2. Reads(rows[u].key, rows[w].key)
  BY <1>1, ReadsBothWays DEF OpeningsApart
<1>3. u \in Stored /\ w \in Stored
  BY DEF Matches
<1>4. QED
  BY <1>2, <1>3 DEF Reads, OneRowAKey, PostingsInv, OneRowPerOpening

\* A row keeps its key, and takes an id and a digest only from a merge.
LEMMA OnlyMerges ==
    ASSUME TypeOK, NEW b \in Boards, TouchChunk(b) \/ SyncLocations(b) \/ Reconcile(b)
    PROVE  \A u \in Urls : rows'[u] # rows[u] =>
              /\ u \in Stored /\ rows'[u].ext = rows[u].ext /\ rows'[u].key = rows[u].key
              /\ rows'[u].hash = rows[u].hash /\ rows'[u].source = rows[u].source
              /\ rows'[u].cities # rows[u].cities => SyncLocations(b)
<1>1. SUFFICES ASSUME NEW u \in Urls, rows'[u] # rows[u]
               PROVE  /\ u \in Stored /\ rows'[u].ext = rows[u].ext /\ rows'[u].key = rows[u].key
                      /\ rows'[u].hash = rows[u].hash /\ rows'[u].source = rows[u].source
                      /\ rows'[u].cities # rows[u].cities => SyncLocations(b)
  OBVIOUS
<1>2. rows[u] \in Rows \/ rows[u] = NoRow
  BY DEF TypeOK
<1>3. CASE TouchChunk(b)
  <2>1. u \in Stored /\ rows'[u] = [rows[u] EXCEPT !.open = TRUE]
    BY <1>1, <1>3 DEF TouchChunk, Matches
  <2>2. QED
    BY <1>2, <2>1 DEF Stored, Rows
<1>4. CASE SyncLocations(b)
  <2>1. u \in Stored /\ \E some : rows'[u] = [rows[u] EXCEPT !.cities = some]
    BY <1>1, <1>4 DEF SyncLocations
  <2>2. QED
    BY <1>2, <1>4, <2>1 DEF Stored, Rows
<1>5. CASE Reconcile(b)
  <2>1. u \in Stored /\ rows'[u] = [rows[u] EXCEPT !.open = FALSE]
    BY <1>1, <1>5 DEF Reconcile
  <2>2. QED
    BY <1>2, <2>1 DEF Stored, Rows
<1>6. QED
  BY <1>3, <1>4, <1>5

\* What a merge leaves at each URL, and what it says it changed.
LEMMA MergedRows ==
    ASSUME TypeOK, NEW b \in Boards, MergeChunk(b)
    PROVE  \E dirty \in SUBSET Urls, by \in [Urls -> request[b].batch \union {NoRow}] :
              /\ \A u \in dirty : /\ by[u] \in Rewriters(b, u)
                                  /\ rows'[u] = Merged(rows[u], b, by[u])
              /\ \A u \in Urls \ dirty : rows'[u] = rows[u] /\ Rewriters(b, u) = {}
              /\ \A url \in Urls :
                    \/ request'[b].changed[url] \in dirty /\ by[request'[b].changed[url]].url = url
                    \/ request'[b].changed[url] = NoRow /\ \A u \in dirty : by[u].url # url
              /\ request'[b].batch = request[b].batch /\ request'[b].key = request[b].key
              /\ request'[b].stage = "touch"
<1> DEFINE dirty == {u \in Urls : Rewriters(b, u) # {}}
<1>1. PICK some \in [dirty -> request[b].batch] :
        /\ \A u \in dirty : some[u] \in Rewriters(b, u)
        /\ rows' = [u \in Urls |-> IF u \in dirty THEN Merged(rows[u], b, some[u]) ELSE rows[u]]
        /\ \E changed \in [Urls -> dirty \union {NoRow}] :
            /\ \A url \in Urls :
                LET rewrote == {u \in dirty : some[u].url = url}
                IN  changed[url] \in IF rewrote = {} THEN {NoRow} ELSE rewrote
            /\ Become(b, [request[b] EXCEPT !.stage = "touch", !.changed = changed])
  BY DEF MergeChunk
<1>2. PICK changed \in [Urls -> dirty \union {NoRow}] :
            /\ \A url \in Urls :
                LET rewrote == {u \in dirty : some[u].url = url}
                IN  changed[url] \in IF rewrote = {} THEN {NoRow} ELSE rewrote
            /\ Become(b, [request[b] EXCEPT !.stage = "touch", !.changed = changed])
  BY <1>1
<1>3. /\ request'[b].changed = changed /\ request'[b].stage = "touch"
      /\ request'[b].batch = request[b].batch /\ request'[b].key = request[b].key
  BY <1>2 DEF Become, TypeOK, Requests
<1> DEFINE by == [u \in Urls |-> IF u \in dirty THEN some[u] ELSE NoRow]
<1>4. by \in [Urls -> request[b].batch \union {NoRow}] /\ dirty \in SUBSET Urls
  OBVIOUS
<1>5. \A u \in dirty : by[u] = some[u]
  OBVIOUS
<1>6. \A u \in dirty : by[u] \in Rewriters(b, u) /\ rows'[u] = Merged(rows[u], b, by[u])
  <2> HIDE DEF dirty, by
  <2>1. QED
    BY <1>1, <1>4, <1>5
<1>7. \A u \in Urls \ dirty : rows'[u] = rows[u] /\ Rewriters(b, u) = {}
  <2>1. \A u \in Urls \ dirty : Rewriters(b, u) = {}
    OBVIOUS
  <2> HIDE DEF dirty
  <2>2. QED
    BY <1>1, <2>1
<1>8. ASSUME NEW url \in Urls
      PROVE  \/ changed[url] \in dirty /\ by[changed[url]].url = url
             \/ changed[url] = NoRow /\ \A u \in dirty : by[u].url # url
  <2> DEFINE rewrote == {u \in dirty : some[u].url = url}
  <2>1. CASE rewrote = {}
    <3>1. changed[url] = NoRow /\ \A u \in dirty : some[u].url # url
      BY <1>2, <2>1
    <3>2. QED
      BY <1>5, <3>1
  <2>2. CASE rewrote # {}
    <3>1. changed[url] \in rewrote
      BY <1>2, <2>2
    <3>2. QED
      BY <1>5, <3>1
  <2>3. QED
    BY <2>1, <2>2
<1> HIDE DEF dirty, by
<1>9. \A url \in Urls :
        \/ request'[b].changed[url] \in dirty /\ by[request'[b].changed[url]].url = url
        \/ request'[b].changed[url] = NoRow /\ \A u \in dirty : by[u].url # url
  BY <1>3, <1>8
<1>10. QED
  BY <1>3, <1>4, <1>6, <1>7, <1>9, ZenonT(40)

\* What a step of b does to its chunk.
LEMMA ChunkStep ==
    ASSUME TypeOK, NEW b \in Boards,
           \/ Edit(b) \/ Read(b) \/ ResolveNearDuplicates(b) \/ InsertChunk(b) \/ MergeChunk(b)
           \/ TouchChunk(b) \/ SyncLocations(b) \/ Stop(b) \/ Reconcile(b)
    PROVE  /\ \A d \in Boards \ {b} : request'[d] = request[d]
           /\ \/ request'[b] = request[b]
              \/ /\ request'[b].stage \in {"idle", "resolve", "reconcile"}
                 /\ request'[b].key = OwnKey
              \/ /\ ResolveNearDuplicates(b) /\ request'[b].stage = "insert"
                 /\ \A v \in Versions :
                        request'[b].key[v] = v.key \/ request'[b].key[v] \in ResolvedKeys(v)
              \/ /\ request'[b].key = request[b].key
                 /\ \/ (InsertChunk(b) \/ SyncLocations(b)) /\ request'[b].stage = "merge"
                    \/ MergeChunk(b) /\ request'[b].stage = "touch"
                    \/ TouchChunk(b) /\ request'[b].stage = "cities"
<1> DEFINE r == request[b]
<1>1. r \in Requests /\ request' = [request EXCEPT ![b] = request'[b]]
  BY DEF TypeOK, Edit, Read, ResolveNearDuplicates, InsertChunk, MergeChunk, TouchChunk,
     SyncLocations, Stop, Reconcile, Become
<1>2. \A d \in Boards \ {b} : request'[d] = request[d]
  BY <1>1 DEF TypeOK
<1>3. \A x : Become(b, x) => request'[b] = x
  BY DEF Become, TypeOK
<1>4. NextChunk(r) \in Requests /\ NextChunk(r).key = OwnKey
      /\ NextChunk(r).stage \in {"resolve", "reconcile"}
  BY <1>1, NextChunkType DEF NextChunk, Requests
<1>5. CASE Edit(b)
  BY <1>2, <1>5 DEF Edit
<1>6. CASE Read(b)
  BY <1>2, <1>3, <1>6, IdleType DEF Read, Idle
<1>7. CASE ResolveNearDuplicates(b)
  <2>1. PICK chunk \in SUBSET r.todo : \E key \in [chunk -> Keys] :
            /\ \A v \in chunk : key[v] \in ResolvedKeys(v)
            /\ Become(b, [r EXCEPT !.stage = "insert", !.batch = chunk,
                            !.key = [v \in Versions |-> IF v \in chunk THEN key[v] ELSE v.key]])
    BY <1>7 DEF ResolveNearDuplicates
  <2>2. PICK key \in [chunk -> Keys] :
            /\ \A v \in chunk : key[v] \in ResolvedKeys(v)
            /\ Become(b, [r EXCEPT !.stage = "insert", !.batch = chunk,
                            !.key = [v \in Versions |-> IF v \in chunk THEN key[v] ELSE v.key]])
    BY <2>1
  <2>3. /\ request'[b].stage = "insert"
        /\ request'[b].key = [v \in Versions |-> IF v \in chunk THEN key[v] ELSE v.key]
    BY <1>1, <1>3, <2>2 DEF Requests
  <2>4. QED
    BY <1>2, <1>7, <2>2, <2>3
<1>8. CASE InsertChunk(b)
  <2>1. PICK part : Become(b, [r EXCEPT !.stage = "merge", !.batch = part,
                                        !.later = r.batch \ part])
    BY <1>8 DEF InsertChunk
  <2>2. QED
    BY <1>1, <1>2, <1>3, <1>8, <2>1 DEF Requests
<1>9. CASE MergeChunk(b)
  BY <1>2, <1>9, MergedRows
<1>10. CASE TouchChunk(b)
  <2>1. Become(b, [r EXCEPT !.stage = "cities"])
    BY <1>10 DEF TouchChunk
  <2>2. QED
    BY <1>1, <1>2, <1>3, <1>10, <2>1 DEF Requests
<1>11. CASE SyncLocations(b)
  <2>1. NextPart(r).key = r.key /\ NextPart(r).stage = "merge"
    BY <1>1 DEF NextPart, Requests
  <2>2. request'[b] = NextChunk(r) \/ request'[b] = NextPart(r)
    BY <1>3, <1>11 DEF SyncLocations
  <2>3. QED
    BY <1>2, <1>4, <1>11, <2>1, <2>2
<1>12. CASE Stop(b)
  <2>1. request'[b] = [NextChunk(r) EXCEPT !.whole = FALSE]
    BY <1>3, <1>12 DEF Stop
  <2>2. QED
    BY <1>2, <1>4, <2>1 DEF Requests
<1>13. CASE Reconcile(b)
  BY <1>2, <1>3, <1>13 DEF Reconcile, Idle
<1>14. QED
  BY <1>5, <1>6, <1>7, <1>8, <1>9, <1>10, <1>11, <1>12, <1>13

\* The steps of the program, one of them for one board.
LEMMA SomeBoard ==
    ASSUME Work
    PROVE  \E b \in Boards :
              \/ Edit(b) \/ Read(b) \/ ResolveNearDuplicates(b) \/ InsertChunk(b) \/ MergeChunk(b)
              \/ TouchChunk(b) \/ SyncLocations(b) \/ Stop(b) \/ Reconcile(b)
BY DEF Work

\* A request at rest has every offer under its own key.
LEMMA StartsAlike == Init => ResolvedAlike
BY DEF Init, ResolvedAlike, Idle, OwnKey, Reads

\* The keys of a chunk read like what came with them.
LEMMA AlikeStays ==
    ASSUME TypeOK, ResolvedAlike, Work
    PROVE  ResolvedAlike'
<1>1. PICK b \in Boards :
              \/ Edit(b) \/ Read(b) \/ ResolveNearDuplicates(b) \/ InsertChunk(b) \/ MergeChunk(b)
              \/ TouchChunk(b) \/ SyncLocations(b) \/ Stop(b) \/ Reconcile(b)
  BY SomeBoard
<1>2. \A d \in Boards \ {b} : request'[d] = request[d]
  BY <1>1, ChunkStep
<1>3. ASSUME NEW v \in Versions
      PROVE  Reads(v.key, request'[b].key[v])
  <2>1. CASE request'[b].key = request[b].key
    BY <2>1 DEF ResolvedAlike
  <2>2. CASE request'[b].key[v] = v.key
    BY <2>2 DEF Reads
  <2>3. CASE request'[b].key[v] \in ResolvedKeys(v)
    <3>1. \A k \in ResolvedKeys(v) : k = v.key \/ <<v.key, k>> \in Alike
      BY PostingsAssumption DEF ResolvedKeys
    <3>2. QED
      BY <2>3, <3>1 DEF Reads
  <2>4. CASE request'[b].key = OwnKey
    BY <2>2, <2>4 DEF OwnKey
  <2>5. QED
    BY <1>1, <2>1, <2>2, <2>3, <2>4, ChunkStep
<1>4. QED
  BY <1>2, <1>3 DEF ResolvedAlike

\* No two rows get one key, and rows stay with the opening they are of.
LEMMA RowsKeepApart ==
    ASSUME OpeningsApart, PostingsInv, OneRowAKey, OfItsOpening, ResolvedAlike, Work
    PROVE  OneRowAKey' /\ OfItsOpening' /\ ResolvedAlike'
<1>1. PICK b \in Boards :
              \/ Edit(b) \/ Read(b) \/ ResolveNearDuplicates(b) \/ InsertChunk(b) \/ MergeChunk(b)
              \/ TouchChunk(b) \/ SyncLocations(b) \/ Stop(b) \/ Reconcile(b)
  BY SomeBoard
<1> DEFINE r == request[b]
<1>2. TypeOK /\ r \in Requests /\ r.batch \subseteq Versions
  BY DEF PostingsInv, TypeOK, Requests
<1>3. ResolvedAlike'
  BY <1>2, AlikeStays
<1>4. CASE InsertChunk(b)
  <2>1. PICK new \in Insertable(r) :
            /\ new \subseteq r.batch
            /\ \A u \in Urls :
                  \/ rows'[u] = rows[u]
                  \/ \E v \in new : /\ v.url = u /\ rows'[u].key = r.key[v]
                                    /\ rows'[u] = Inserted(b, v, r.key[v])
    BY <1>2, <1>4, InsertedRows
  <2>2. \A v \in new : r.key[v] \notin StoredKeys
    BY <2>1 DEF Insertable
  <2>3. \A v, x \in new : v # x => r.key[v] # r.key[x]
    BY <2>1 DEF Insertable, Clash
  <2>4. ASSUME NEW u \in Stored'
        PROVE  \/ rows'[u] = rows[u] /\ u \in Stored
               \/ \E v \in new : /\ v.url = u /\ rows'[u].key = r.key[v]
                                 /\ rows'[u] = Inserted(b, v, r.key[v])
    BY <2>1, <2>4 DEF Stored
  <2>5. ASSUME NEW u \in Stored', NEW w \in Stored', rows'[u].key = rows'[w].key
        PROVE  u = w
    <3>1. \A x \in Stored : rows[x].key \in StoredKeys
      BY DEF StoredKeys
    <3>2. QED
      BY <2>2, <2>3, <2>4, <2>5, <3>1 DEF OneRowAKey
  <2>6. ASSUME NEW u \in Stored'
        PROVE  /\ \E v \in Versions : v.url = u /\ Reads(v.key, rows'[u].key)
               /\ rows'[u].ext # NoId =>
                     \E v \in Versions : v.ext = rows'[u].ext /\ Reads(v.key, rows'[u].key)
    <3>1. CASE rows'[u] = rows[u] /\ u \in Stored
      BY <3>1 DEF OfItsOpening
    <3>2. ASSUME NEW v \in new, v.url = u, rows'[u].key = r.key[v],
                 rows'[u] = Inserted(b, v, r.key[v])
          PROVE  /\ \E x \in Versions : x.url = u /\ Reads(x.key, rows'[u].key)
                 /\ \E x \in Versions : x.ext = rows'[u].ext /\ Reads(x.key, rows'[u].key)
      <4>1. v \in Versions /\ Reads(v.key, r.key[v]) /\ rows'[u].ext = v.ext
        BY <1>2, <2>1, <3>2 DEF ResolvedAlike, Inserted
      <4>2. QED
        BY <3>2, <4>1
    <3>3. QED
      BY <2>4, <3>1, <3>2
  <2>7. QED
    BY <1>3, <2>5, <2>6 DEF OneRowAKey, OfItsOpening
<1>5. CASE ~InsertChunk(b)
  <2>1. Stored' = Stored /\ \A u \in Stored : rows'[u].key = rows[u].key
    BY <1>1, <1>2, <1>5, FileStays
  <2>2. OneRowAKey'
    BY <2>1 DEF OneRowAKey
  <2>3. ASSUME NEW u \in Stored, rows'[u].ext # rows[u].ext
        PROVE  \E v \in Versions : v.ext = rows'[u].ext /\ Reads(v.key, rows[u].key)
    <3>0. u \in Urls
      BY DEF Stored
    <3>1. MergeChunk(b)
      BY <1>1, <1>2, <1>5, <2>3, <3>0, OnlyMerges DEF Edit, Read, ResolveNearDuplicates, Stop
    <3>2. PICK v \in Rewriters(b, u) : rows'[u] = Merged(rows[u], b, v)
      BY <1>2, <2>3, <3>0, <3>1, MergedRows
    <3>3. v \in r.batch /\ v \in Versions /\ Matches(u, v, r.key[v]) /\ Reads(v.key, r.key[v])
          /\ r.key[v] \in Keys
      BY <1>2, <3>2 DEF Rewriters, ResolvedAlike, Requests
    <3>4. Reads(v.key, rows[u].key) /\ rows[u] \in Rows
      BY <3>0, <3>3, MatchReads
    <3>5. rows'[u].ext = v.ext
      BY <2>3, <3>2, <3>4 DEF Merged, Rows
    <3>6. QED
      BY <3>3, <3>4, <3>5
  <2>4. OfItsOpening'
    BY <2>1, <2>3 DEF OfItsOpening
  <2>5. QED
    BY <1>3, <2>2, <2>4
<1>6. QED
  BY <1>4, <1>5

\* While boards take turns and nothing stops, the city rows that are not those of the digest
\* are the ones the request under way is about to write.
LEMMA DigestsStay ==
    ASSUME OpeningsApart, UrlsOnce, PostingsInv, DigestsInv, Work
    PROVE  DigestsInv'
<1>1. PICK b \in Boards :
              \/ Edit(b) \/ Read(b) \/ ResolveNearDuplicates(b) \/ InsertChunk(b) \/ MergeChunk(b)
              \/ TouchChunk(b) \/ SyncLocations(b) \/ Stop(b) \/ Reconcile(b)
  BY SomeBoard
<1> DEFINE r == request[b]
           Pending(d) == InStage(d, "touch") \/ InStage(d, "cities")
<1>2. /\ TypeOK /\ r \in Requests /\ r.batch \subseteq Versions
      /\ \A v \in Versions : v.url \in Urls
      /\ \A u \in Urls : rows[u] = NoRow \/ rows[u] \in Rows
      /\ \A u \in Stored : u \in Urls /\ rows[u] \in Rows
  BY PostingsAssumption DEF PostingsInv, TypeOK, Requests, Stored
<1>3. setting' = setting
  BY <1>1 DEF Edit, Read, ResolveNearDuplicates, InsertChunk, MergeChunk,
     TouchChunk, SyncLocations, Stop, Reconcile
<1>4. OneRowAKey' /\ OfItsOpening' /\ ResolvedAlike'
  BY RowsKeepApart DEF DigestsInv
<1>5. SUFFICES ASSUME Calm
               PROVE  Told' /\ \A u \in Stored' : Follows(u)' \/ \E d \in Boards : Due(d, u)'
  BY <1>3, <1>4 DEF DigestsInv, Calm, OneAtATime
<1>6. Told /\ \A u \in Stored : Follows(u) \/ \E d \in Boards : Due(d, u)
  BY <1>5 DEF DigestsInv
<1>7. \A d \in Boards \ {b} : request'[d] = request[d]
  BY <1>1, <1>2, ChunkStep
<1>8. CASE Edit(b)
  <2>1. UNCHANGED <<rows, request>>
    BY <1>8 DEF Edit
  <2>2. QED
    BY <1>6, <2>1 DEF Told, Stored, Follows, Due, InStage
<1>9. CASE ~Edit(b)
  <2>1. \A d \in Boards : Pending(d)' => d = b
    <3>1. Read(b) => request'[b].stage = "resolve"
      BY <1>2, IdleType DEF Read, Become, TypeOK, Requests
    <3>2. ASSUME NEW d \in Boards \ {b}
          PROVE  ~Pending(d)'
      <4>1. CASE Read(b)
        <5>1. InStage(d, "idle")
          <6>1. Cardinality({e \in Boards : ~InStage(e, "idle")}) < 1
            BY <1>5, <4>1 DEF Read, Calm, OneAtATime
          <6>2. IsFiniteSet({e \in Boards : ~InStage(e, "idle")})
            BY BoardsAssumption, FS_Subset
          <6>3. {e \in Boards : ~InStage(e, "idle")} = {}
            <7> DEFINE busy == {e \in Boards : ~InStage(e, "idle")}
            <7>1. Cardinality(busy) \in Nat /\ Cardinality(busy) < 1 /\ IsFiniteSet(busy)
              BY <6>1, <6>2, FS_CardinalityType
            <7> HIDE DEF busy
            <7>2. Cardinality(busy) = 0
              BY <7>1
            <7>3. busy = {}
              BY <7>1, <7>2, FS_EmptySet
            <7>4. QED
              BY <7>3 DEF busy
          <6>4. QED
            BY <6>3
        <5>2. QED
          BY <1>7, <5>1 DEF InStage
      <4>2. CASE ~Read(b)
        <5>1. Busy(b)
          BY <1>1, <1>2, <1>9, <4>2, RequestStep
        <5>2. ~Busy(d)
          BY <1>5, <5>1 DEF PostingsInv, Serial, Calm
        <5>3. QED
          BY <1>7, <5>2 DEF Busy, InStage
      <4>3. QED
        BY <4>1, <4>2
    <3>3. QED
      BY <3>2
  <2>2. \A d \in Boards : Pending(d) => d = b
    <3>1. ASSUME NEW d \in Boards \ {b}, Pending(d)
          PROVE  Pending(d)'
      BY <1>7, <3>1 DEF InStage
    <3>2. QED
      BY <2>1, <3>1
  <2>3. ~Pending(b) => \A u \in Stored : Follows(u)
    BY <1>6, <2>2 DEF Due
  <2>4. CASE InsertChunk(b)
    <3>1. ~Pending(b) /\ ~Pending(b)'
      BY <1>2, <2>4 DEF InsertChunk, InStage, Become, TypeOK, Requests
    <3>2. ASSUME NEW u \in Stored'
          PROVE  Follows(u)'
      <4>1. rows'[u] = rows[u] \/ rows'[u].hash = NoHash
        <5>1. u \in Urls
          BY DEF Stored
        <5>2. rows'[u] = rows[u] \/ \E v, key : rows'[u] = Inserted(b, v, key)
          BY <1>2, <2>4, <5>1, InsertedRows
        <5>3. \A v, key : Inserted(b, v, key).hash = NoHash
          BY DEF Inserted
        <5>4. QED
          BY <5>2, <5>3
      <4>2. CASE rows'[u] = rows[u]
        BY <2>3, <3>1, <4>2 DEF Stored, Follows
      <4>3. QED
        BY <4>1, <4>2 DEF Follows
    <3>3. QED
      BY <2>1, <3>1, <3>2 DEF Told
  <2>5. CASE MergeChunk(b)
    <3>1. PICK dirty \in SUBSET Urls, by \in [Urls -> r.batch \union {NoRow}] :
              /\ \A u \in dirty : /\ by[u] \in Rewriters(b, u)
                                  /\ rows'[u] = Merged(rows[u], b, by[u])
              /\ \A u \in Urls \ dirty : rows'[u] = rows[u]
              /\ \A url \in Urls :
                    \/ request'[b].changed[url] \in dirty /\ by[request'[b].changed[url]].url = url
                    \/ request'[b].changed[url] = NoRow /\ \A u \in dirty : by[u].url # url
              /\ request'[b].batch = r.batch /\ request'[b].key = r.key
              /\ request'[b].stage = "touch"
      BY SMTT(30), <1>2, <2>5, MergedRows
    <3>2. ~Pending(b) /\ Pending(b)'
      BY <2>5, <3>1 DEF MergeChunk, InStage
    <3>3. \A v, x \in r.batch : v.url = x.url => v = x
      <4>1. r.batch # {} => r.batch \subseteq r.listing /\ r.listing \in setting.listings[b]
        BY DEF PostingsInv, Chunks, Tidy
      <4>2. setting \in Settings
        BY <1>2 DEF TypeOK
      <4>3. QED
        BY <4>1, <4>2 DEF UrlsOnce
    <3>4. ASSUME NEW u \in dirty
          PROVE  /\ u \in Stored /\ by[u] \in r.batch /\ Matches(u, by[u], r.key[by[u]])
                 /\ rows'[u].hash = Digest(b, by[u])
      <4>1. by[u] \in r.batch /\ Matches(u, by[u], r.key[by[u]])
        BY <3>1 DEF Rewriters
      <4>2. u \in Stored
        BY <4>1 DEF Matches
      <4>3. rows[u] \in Rows /\ rows'[u] = Merged(rows[u], b, by[u])
        BY <1>2, <3>1, <4>2
      <4>4. QED
        BY <4>1, <4>2, <4>3 DEF Merged, Rows
    <3>5. ASSUME NEW u \in dirty, NEW w \in dirty, by[u] = by[w]
          PROVE  u = w
      <4>1. /\ by[u] \in Versions /\ r.key[by[u]] \in Keys /\ Reads(by[u].key, r.key[by[u]])
            /\ Matches(u, by[u], r.key[by[u]]) /\ Matches(w, by[u], r.key[by[u]])
        BY <1>2, <3>4, <3>5 DEF DigestsInv, ResolvedAlike, Requests
      <4>2. QED
        BY <1>5, <4>1, MatchesOne DEF DigestsInv, Calm
    <3>6. ASSUME NEW v \in r.batch, NEW u \in Urls, request'[b].changed[v.url] = u
          PROVE  u \in dirty /\ by[u] = v
      <4>1. v.url \in Urls /\ u # NoRow
        BY <1>2, NullAssumption
      <4>2. u \in dirty /\ by[u].url = v.url
        BY <3>1, <3>6, <4>1
      <4>3. QED
        BY <3>3, <3>4, <4>2
    <3>7. ASSUME NEW u \in dirty
          PROVE  request'[b].changed[by[u].url] = u
      <4>1. by[u] \in r.batch /\ by[u].url \in Urls
        BY <1>2, <3>4
      <4>2. /\ request'[b].changed[by[u].url] \in dirty
            /\ by[request'[b].changed[by[u].url]].url = by[u].url
        BY <3>1, <4>1
      <4>3. by[request'[b].changed[by[u].url]] = by[u]
        BY <3>3, <3>4, <4>1, <4>2
      <4>4. QED
        BY <3>5, <4>2, <4>3
    <3>8. Told'
      <4>1. SUFFICES ASSUME NEW v \in r.batch, request'[b].changed[v.url] # NoRow
                     PROVE  /\ rows'[request'[b].changed[v.url]].hash = Digest(b, v)
                            /\ \A x \in r.batch :
                                  request'[b].changed[x.url] = request'[b].changed[v.url] => x = v
        BY <2>1, <3>1 DEF Told, Digest
      <4>2. request'[b].changed[v.url] \in Urls
        <5>1. v.url \in Urls
          BY <1>2
        <5>2. QED
          BY <3>1, <4>1, <5>1
      <4>3. QED
        BY <3>4, <3>6, <4>2
    <3>9. ASSUME NEW u \in Stored'
          PROVE  Follows(u)' \/ Due(b, u)'
      <4>1. CASE u \in dirty
        <5>1. by[u] \in request'[b].batch /\ request'[b].changed[by[u].url] = u
          BY <3>1, <3>4, <3>7, <4>1
        <5>2. QED
          BY <3>2, <5>1 DEF Due
      <4>2. CASE u \notin dirty
        <5>1. rows'[u] = rows[u] /\ u \in Stored
          BY <3>1, <4>2 DEF Stored
        <5>2. QED
          BY <2>3, <3>2, <5>1 DEF Follows
      <4>3. QED
        BY <4>1, <4>2
    <3>10. QED
      BY <3>8, <3>9
  <2>6. CASE TouchChunk(b)
    <3>1. /\ request'[b].batch = r.batch /\ request'[b].changed = r.changed
          /\ request'[b].stage = "cities" /\ Pending(b) /\ Pending(b)'
      <4>1. Become(b, [r EXCEPT !.stage = "cities"]) /\ InStage(b, "touch")
        BY <2>6 DEF TouchChunk
      <4>2. request'[b] = [r EXCEPT !.stage = "cities"]
        BY <1>2, <4>1 DEF Become, TypeOK
      <4>3. QED
        BY <1>2, <4>1, <4>2 DEF Requests, InStage
    <3>2. Stored' = Stored
      BY <1>2, <2>6, FileStays
    <3>3. \A u \in Urls : rows'[u] = rows[u] \/
              (u \in Stored /\ rows'[u].hash = rows[u].hash /\ rows'[u].cities = rows[u].cities)
      <4>1. ~SyncLocations(b)
        BY <2>6 DEF TouchChunk, SyncLocations, InStage
      <4>2. QED
        BY <1>2, <2>6, <4>1, OnlyMerges
    <3>4. Told'
      <4>1. SUFFICES ASSUME NEW v \in r.batch, r.changed[v.url] # NoRow
                     PROVE  /\ rows'[r.changed[v.url]].hash = Digest(b, v)
                            /\ \A x \in r.batch : r.changed[x.url] = r.changed[v.url] => x = v
        BY <2>1, <3>1 DEF Told, Digest
      <4>2. r.changed[v.url] \in Urls
        BY <1>2, <4>1 DEF Requests
      <4>3. QED
        BY <1>6, <3>1, <3>3, <4>1, <4>2 DEF Told
    <3>5. ASSUME NEW u \in Stored'
          PROVE  Follows(u)' \/ Due(b, u)'
      <4>1. u \in Stored /\ u \in Urls
        BY <1>2, <3>2
      <4>2. Follows(u) \/ Due(b, u)
        BY <1>6, <2>2, <4>1 DEF Due
      <4>3. CASE Follows(u)
        BY <3>3, <4>1, <4>3 DEF Follows
      <4>4. CASE Due(b, u)
        BY <3>1, <4>4 DEF Due, InStage
      <4>5. QED
        BY <4>2, <4>3, <4>4
    <3>6. QED
      BY <3>4, <3>5
  <2>7. CASE SyncLocations(b)
    <3>1. Pending(b) /\ ~Pending(b)'
      <4>1. request'[b] \in {NextChunk(r), NextPart(r)} /\ InStage(b, "cities")
        BY <1>2, <2>7 DEF SyncLocations, Become, TypeOK
      <4>2. QED
        BY <1>2, <4>1 DEF NextChunk, NextPart, Requests, InStage
    <3>2. Stored' = Stored
      BY <1>2, <2>7, FileStays
    <3> DEFINE naming(u) == {v \in r.batch : v.cities # {} /\ r.changed[v.url] = u}
    <3>3. \A u \in Stored : rows'[u] = IF naming(u) # {}
                THEN [rows[u] EXCEPT !.cities = UNION {v.cities : v \in naming(u)}]
                ELSE rows[u]
      BY <1>2, <2>7 DEF SyncLocations
    <3>4. ASSUME NEW u \in Stored
          PROVE  Follows(u)'
      <4>1. u \in Urls /\ u # NoRow /\ rows[u] \in Rows
        BY <1>2, NullAssumption
      <4>2. ASSUME NEW v \in naming(u)
            PROVE  rows[u].hash.cities = v.cities /\ naming(u) = {v}
        <5>1. r.changed[v.url] = u /\ v \in r.batch
          OBVIOUS
        <5>2. rows[u].hash = Digest(b, v) /\ \A x \in r.batch : r.changed[x.url] = u => x = v
          BY <1>6, <3>1, <4>1, <5>1 DEF Told
        <5>3. QED
          BY <5>1, <5>2 DEF Digest
      <4>3. CASE naming(u) # {}
        <5>1. PICK v \in naming(u) : TRUE
          BY <4>3
        <5>2. naming(u) = {v} /\ rows[u].hash.cities = v.cities
          BY <4>2, <5>1
        <5>3. UNION {x.cities : x \in naming(u)} = v.cities
          BY <5>2
        <5>4. rows'[u] = [rows[u] EXCEPT !.cities = v.cities]
          BY <3>3, <4>3, <5>3
        <5>5. rows'[u].hash = rows[u].hash /\ rows'[u].cities = v.cities
          BY <4>1, <5>4 DEF Rows
        <5>6. QED
          BY <5>2, <5>5 DEF Follows
      <4>4. CASE naming(u) = {}
        <5>1. rows'[u] = rows[u]
          BY <3>3, <4>4
        <5>2. CASE Follows(u)
          BY <5>1, <5>2 DEF Follows
        <5>3. CASE Due(b, u)
          <6>1. PICK v \in r.batch : r.changed[v.url] = u
            BY <5>3 DEF Due
          <6>2. rows[u].hash = Digest(b, v)
            BY <1>6, <3>1, <4>1, <6>1 DEF Told
          <6>3. v.cities = {}
            BY <4>4, <6>1
          <6>4. QED
            BY <5>1, <6>2, <6>3 DEF Follows, Digest
        <5>4. QED
          BY <1>6, <2>2, <5>2, <5>3 DEF Due
      <4>5. QED
        BY <4>3, <4>4
    <3>5. QED
      BY <2>1, <3>1, <3>2, <3>4 DEF Told
  <2>8. CASE Read(b) \/ ResolveNearDuplicates(b) \/ Reconcile(b)
    <3>1. ~Pending(b) /\ ~Pending(b)'
      <4>1. ~Pending(b)
        BY <2>8 DEF Read, ResolveNearDuplicates, Reconcile, InStage
      <4>2. ~TouchChunk(b) /\ ~MergeChunk(b) /\ ~InsertChunk(b)
        BY <2>8 DEF Read, ResolveNearDuplicates, Reconcile, TouchChunk, MergeChunk, InsertChunk,
           InStage
      <4>3. QED
        BY <1>1, <1>2, <4>1, <4>2, ChunkStep DEF InStage
    <3>2. Stored' = Stored
      BY <1>2, <2>8, FileStays
    <3>3. \A u \in Stored :
              rows'[u] = rows[u] \/ (rows'[u].hash = rows[u].hash /\ rows'[u].cities =
                     rows[u].cities)
      <4>1. CASE UNCHANGED rows
        BY <4>1
      <4>2. CASE Reconcile(b)
        <5>1. ~SyncLocations(b)
          BY <4>2 DEF Reconcile, SyncLocations, InStage
        <5>2. QED
          BY <1>2, <4>2, <5>1, OnlyMerges
      <4>3. QED
        BY <2>8, <4>1, <4>2 DEF Read, ResolveNearDuplicates
    <3>4. \A u \in Stored' : Follows(u)'
      BY <2>3, <3>1, <3>2, <3>3 DEF Follows
    <3>5. QED
      BY <2>1, <3>1, <3>4 DEF Told
  <2>9. ~Stop(b)
    BY <1>5 DEF Stop, Calm
  <2>10. QED
    BY <1>1, <1>9, <2>4, <2>5, <2>6, <2>7, <2>8, <2>9
<1>10. QED
  BY <1>8, <1>9

\* While boards take turns and nothing stops, a row whose digest says cities has these
\* between requests (toRow: "one writer for the digest"), if an offer can match one row only:
\* similarity parts the titles, nothing is retitled into another opening, and a
\* board lists a URL once.
THEOREM CitiesFollow ==
    ASSUME SpelledOnce, OpeningsApart, UrlsOnce
    PROVE  Spec => []CitiesFollowDigest
<1>1. Init => DigestsInv
  <2> SUFFICES ASSUME Init PROVE DigestsInv
    OBVIOUS
  <2>1. Stored = {} /\ \A b \in Boards : request[b].stage = "idle"
    BY DEF Init, Stored, Idle
  <2>2. QED
    BY <2>1, StartsAlike DEF DigestsInv, OneRowAKey, OfItsOpening, Told, InStage
<1>2. PostingsInv /\ DigestsInv /\ [Next]_vars => DigestsInv'
  <2> SUFFICES ASSUME PostingsInv, DigestsInv, NextCycle \/ UNCHANGED vars PROVE DigestsInv'
    BY DigestsStay DEF Next
  <2>1. setting' = setting /\ rows' = rows /\ request' = request /\ Stored' = Stored
    BY DEF NextCycle, vars, Stored
  <2>2. OneRowAKey' /\ OfItsOpening' /\ ResolvedAlike'
    BY <2>1 DEF DigestsInv, OneRowAKey, OfItsOpening, ResolvedAlike
  <2>3. Calm' = Calm /\ Told' = Told
    BY <2>1 DEF Calm, OneAtATime, Told, InStage
  <2>4. \A u : Follows(u)' = Follows(u)
    BY <2>1 DEF Follows
  <2>5. \A u : \A b \in Boards : Due(b, u)' = Due(b, u)
    BY <2>1 DEF Due, InStage
  <2>6. QED
    BY <2>1, <2>2, <2>3, <2>4, <2>5 DEF DigestsInv
<1>3. DigestsInv => CitiesFollowDigest
  BY DEF DigestsInv, CitiesFollowDigest, Calm, Follows, Due, InStage
<1>4. QED
  BY <1>1, <1>2, <1>3, PostingsInvariant, PTL DEF Spec
-----------------------------------------------------------------------------
(***************************************************************************)
(* What was read is open.                                                  *)
(***************************************************************************)
\* The board of every offer gives it an id.
Identified == \A v \in Versions : v.ext # NoId

\* A row's digest was made by its owner, and an id that it names is the row's.
DigestTellsId ==
    \A u \in Stored : rows[u].hash # NoHash =>
        /\ rows[u].hash.source = rows[u].source
        /\ rows[u].hash.ext # NoId => rows[u].ext = rows[u].hash.ext

\* The board that is being read has been visited.
VisitedFirst == \A b \in Boards : Busy(b) => b \in visited

\* The listing of b names the row at u.
NamedBy(b, u) ==
    \E x \in request[b].listing : x.url = u \/ (x.ext # NoId /\ x.ext = rows[u].ext)

\* A row for v is at u.
At(u, v) == u \in Stored /\ (u = v.url \/ Reads(v.key, rows[u].key))

\* No reconcile of this cycle closes the row at u: its owner has been dealt with, or is
\* being read and its listing names the row.
Safe(u) ==
    LET d == rows[u].source
    IN d \in visited /\ (Busy(d) => NamedBy(d, u))

\* v has a row that stays open for this cycle.
Opened(v) == \E u \in Urls : At(u, v) /\ Safe(u) /\ rows[u].open

\* A row for v is on file, by its URL or by the key it got.
OnFile(v, r) == \E u \in Stored : u = v.url \/ rows[u].key = r.key[v]

\* How far b got with each offer of its listing.
PostedBy(b) ==
    LET r == request[b] IN
    /\ InStage(b, "idle") => r.listing = {}
    /\ r.whole =>
            /\ \A v \in r.listing \ r.todo : Opened(v)
            /\ InStage(b, "reconcile") => r.todo = {}
            /\ InStage(b, "merge") => \A v \in r.batch : OnFile(v, r)
            /\ \A v \in r.later : OnFile(v, r)
            /\ InStage(b, "touch") =>
                  \A v \in r.batch : \E u \in Stored :
                      (u = v.url \/ rows[u].key = r.key[v]) /\ Safe(u)
            /\ InStage(b, "cities") => \A v \in r.batch : Opened(v)

OffersInv ==
    /\ TypeOK /\ Chunks /\ ResolvedAlike /\ DigestTellsId /\ VisitedFirst
    /\ \A b \in Boards : PostedBy(b)

\* A merge gives a row the id its new digest names, and its owner.
LEMMA IdsStay ==
    ASSUME TypeOK, DigestTellsId, Work
    PROVE  DigestTellsId'
<1>1. PICK b \in Boards :
              \/ Edit(b) \/ Read(b) \/ ResolveNearDuplicates(b) \/ InsertChunk(b) \/ MergeChunk(b)
              \/ TouchChunk(b) \/ SyncLocations(b) \/ Stop(b) \/ Reconcile(b)
  BY SomeBoard
<1>2. \A u \in Stored' : u \in Urls
  BY DEF Stored
<1>3. CASE InsertChunk(b)
  <2>1. ASSUME NEW u \in Stored'
        PROVE  (rows'[u] = rows[u] /\ u \in Stored) \/ rows'[u].hash = NoHash
    <3>1. rows'[u] = rows[u] \/ \E v, key : rows'[u] = Inserted(b, v, key)
      BY <1>2, <1>3, InsertedRows
    <3>2. \A v, key : Inserted(b, v, key).hash = NoHash
      BY DEF Inserted
    <3>3. QED
      BY <3>1, <3>2 DEF Stored
  <2>2. QED
    BY <2>1 DEF DigestTellsId
<1>4. CASE MergeChunk(b)
  <2>1. Stored' = Stored
    BY <1>4, FileStays
  <2>2. ASSUME NEW u \in Stored, rows'[u] # rows[u]
        PROVE  /\ rows'[u].hash.source = rows'[u].source
               /\ rows'[u].hash.ext # NoId => rows'[u].ext = rows'[u].hash.ext
    <3>1. PICK v : rows'[u] = Merged(rows[u], b, v)
      BY <1>2, <1>4, <2>1, <2>2, MergedRows
    <3>2. rows[u] \in Rows
      BY DEF Stored, TypeOK
    <3>3. /\ rows'[u].hash.ext = v.ext /\ (v.ext # NoId => rows'[u].ext = v.ext)
          /\ rows'[u].hash.source = b /\ rows'[u].source = b
      BY <3>1, <3>2 DEF Merged, Digest, Rows
    <3>4. QED
      BY <3>3
  <2>3. QED
    BY <2>1, <2>2 DEF DigestTellsId
<1>5. CASE UNCHANGED rows
  BY <1>5 DEF DigestTellsId, Stored
<1>6. CASE TouchChunk(b) \/ SyncLocations(b) \/ Reconcile(b)
  <2>1. Stored' = Stored
    BY <1>6, FileStays
  <2>2. \A u \in Stored :
            \/ rows'[u] = rows[u]
            \/ /\ rows'[u].ext = rows[u].ext /\ rows'[u].hash = rows[u].hash
               /\ rows'[u].source = rows[u].source
    BY <1>2, <1>6, <2>1, OnlyMerges
  <2>3. QED
    BY <2>1, <2>2 DEF DigestTellsId
<1>7. QED
  BY <1>1, <1>3, <1>4, <1>5, <1>6 DEF Edit, Read, ResolveNearDuplicates, Stop

\* An insertion leaves the rows there are alone.
LEMMA InsertedKeep ==
    ASSUME TypeOK, NEW b \in Boards, InsertChunk(b)
    PROVE  \A u \in Stored : rows'[u] = rows[u]
<1>1. PICK new \in Insertable(request[b]) :
          \A u \in Urls : rows'[u] = rows[u] \/ \E v \in new : v.url = u
  BY InsertedRows
<1>2. \A v \in new : v.url \notin Stored
  BY DEF Insertable
<1>3. QED
  BY <1>1, <1>2 DEF Stored

\* A request keeps its listing to the reconcile.
LEMMA ListingStays ==
    ASSUME TypeOK, NEW b \in Boards,
           \/ ResolveNearDuplicates(b) \/ InsertChunk(b) \/ MergeChunk(b) \/ TouchChunk(b)
           \/ SyncLocations(b) \/ Stop(b)
    PROVE  Busy(b) /\ request'[b].listing = request[b].listing
<1> DEFINE r == request[b]
<1>1. r \in Requests /\ NextChunk(r) \in Requests /\ NextChunk(r).listing = r.listing
  BY NextChunkType DEF TypeOK, NextChunk, Requests
<1>2. Busy(b)
  BY RequestStep
<1>3. \A q : Become(b, q) => request'[b] = q
  BY DEF Become, TypeOK
<1>4. CASE ResolveNearDuplicates(b)
  <2>1. PICK batch, key : Become(b, [r EXCEPT !.stage = "insert", !.batch = batch, !.key = key])
    BY <1>4 DEF ResolveNearDuplicates
  <2>2. QED
    BY <1>1, <1>2, <1>3, <2>1 DEF Requests
<1>5. CASE InsertChunk(b)
  <2>1. PICK part : Become(b, [r EXCEPT !.stage = "merge", !.batch = part,
                                        !.later = r.batch \ part])
    BY <1>5 DEF InsertChunk
  <2>2. QED
    BY <1>1, <1>2, <1>3, <2>1 DEF Requests
<1>10. CASE TouchChunk(b)
  <2>1. PICK stage : Become(b, [r EXCEPT !.stage = stage])
    BY <1>10 DEF TouchChunk
  <2>2. QED
    BY <1>1, <1>2, <1>3, <2>1 DEF Requests
<1>6. CASE MergeChunk(b)
  <2>1. PICK changed : Become(b, [r EXCEPT !.stage = "touch", !.changed = changed])
    BY <1>6 DEF MergeChunk
  <2>2. QED
    BY <1>1, <1>2, <1>3, <2>1 DEF Requests
<1>7. CASE SyncLocations(b)
  <2>1. NextPart(r).listing = r.listing
    BY <1>1 DEF NextPart, Requests
  <2>2. QED
    BY <1>1, <1>2, <1>3, <1>7, <2>1 DEF SyncLocations
<1>8. CASE Stop(b)
  <2>1. request'[b] = [NextChunk(r) EXCEPT !.whole = FALSE]
    BY <1>3, <1>8 DEF Stop
  <2>2. QED
    BY <1>1, <1>2, <2>1 DEF Requests
<1>9. QED
  BY <1>4, <1>5, <1>6, <1>7, <1>8, <1>10

\* Every step but an insertion keeps the rows there are, and that one makes new ones only.
LEMMA RowsRemain ==
    ASSUME TypeOK, Work
    PROVE  \A u \in Stored : u \in Stored' /\ rows'[u].key = rows[u].key
<1>1. PICK b \in Boards :
              \/ Edit(b) \/ Read(b) \/ ResolveNearDuplicates(b) \/ InsertChunk(b) \/ MergeChunk(b)
              \/ TouchChunk(b) \/ SyncLocations(b) \/ Stop(b) \/ Reconcile(b)
  BY SomeBoard
<1>2. CASE InsertChunk(b)
  BY <1>2, InsertedKeep DEF Stored
<1>3. CASE ~InsertChunk(b)
  BY <1>1, <1>3, FileStays
<1>4. QED
  BY <1>2, <1>3

\* A board is visited before it is at work.
LEMMA VisitedStays ==
    ASSUME TypeOK, VisitedFirst, Work
    PROVE  VisitedFirst'
<1>1. PICK b \in Boards :
              \/ Edit(b) \/ Read(b) \/ ResolveNearDuplicates(b) \/ InsertChunk(b) \/ MergeChunk(b)
              \/ TouchChunk(b) \/ SyncLocations(b) \/ Stop(b) \/ Reconcile(b)
  BY SomeBoard
<1>2. \A d \in Boards \ {b} : request'[d] = request[d]
  BY <1>1, ChunkStep
<1>3. visited \subseteq visited' /\ (Read(b) => b \in visited')
  BY <1>1 DEF Edit, Read, ResolveNearDuplicates, InsertChunk, MergeChunk, TouchChunk,
     SyncLocations, Stop, Reconcile
<1>4. Read(b) \/ Busy(b) \/ request' = request
  BY <1>1, RequestStep DEF Edit
<1>5. QED
  BY <1>2, <1>3, <1>4 DEF VisitedFirst, Busy, InStage

\* Until the cycle is over a safe row stays safe, and open if it was.
LEMMA SafeStays ==
    ASSUME Identified, TypeOK, Chunks, VisitedFirst, Work, NEW u \in Stored, Safe(u)
    PROVE  Safe(u)' /\ (rows[u].open => rows'[u].open)
<1>1. PICK b \in Boards :
              \/ Edit(b) \/ Read(b) \/ ResolveNearDuplicates(b) \/ InsertChunk(b) \/ MergeChunk(b)
              \/ TouchChunk(b) \/ SyncLocations(b) \/ Stop(b) \/ Reconcile(b)
  BY SomeBoard
<1> DEFINE d == rows[u].source
           Same == rows'[u].source = d /\ rows'[u].ext = rows[u].ext
           Kept == rows[u].open => rows'[u].open
<1>2. /\ u \in Urls /\ rows[u] \in Rows /\ d \in Boards /\ request[b] \in Requests
      /\ request[b].batch \subseteq request[b].listing /\ request[b].listing \subseteq Versions
  BY DEF TypeOK, Stored, Rows, Chunks, Tidy, Requests
<1>3. \A e \in Boards \ {b} : request'[e] = request[e]
  BY <1>1, ChunkStep
<1>4. d \in visited /\ (Busy(d) => NamedBy(d, u))
  BY DEF Safe
<1>5. ASSUME Same, visited \subseteq visited', d # b \/ request'[b] = request[b]
      PROVE  Safe(u)'
  <2>1. request'[d] = request[d]
    BY <1>2, <1>3, <1>5
  <2>2. QED
    BY <1>4, <1>5, <2>1 DEF Safe, Busy, InStage, NamedBy
<1>6. CASE Edit(b)
  BY <1>5, <1>6 DEF Edit
<1>7. CASE Read(b)
  BY <1>4, <1>5, <1>7 DEF Read
<1>8. ASSUME Busy(b), visited' = visited, request'[b].listing = request[b].listing, Same
      PROVE  Safe(u)'
  BY <1>3, <1>4, <1>5, <1>8 DEF Safe, NamedBy
<1>9. ASSUME ~Edit(b), ~Read(b), ~Reconcile(b)
      PROVE  Busy(b) /\ visited' = visited /\ request'[b].listing = request[b].listing
  <2>1. visited' = visited
    BY <1>1, <1>9 DEF ResolveNearDuplicates, InsertChunk, MergeChunk, TouchChunk, SyncLocations,
       Stop
  <2>2. Busy(b) /\ request'[b].listing = request[b].listing
    BY <1>1, <1>2, <1>9, ListingStays
  <2>3. QED
    BY <2>1, <2>2
<1>10. CASE ResolveNearDuplicates(b) \/ Stop(b)
  <2>1. Same /\ Kept
    BY <1>10 DEF ResolveNearDuplicates, Stop
  <2>2. (~Edit(b) /\ ~Read(b) /\ ~Reconcile(b)) \/ Safe(u)'
    BY <1>6, <1>7, <1>10 DEF ResolveNearDuplicates, Stop, Reconcile, InStage
  <2>3. QED
    BY <1>8, <1>9, <2>1, <2>2
<1>11. CASE InsertChunk(b)
  <2>1. Same /\ Kept
    BY <1>11, InsertedKeep
  <2>2. (~Edit(b) /\ ~Read(b) /\ ~Reconcile(b)) \/ Safe(u)'
    BY <1>6, <1>7, <1>11 DEF InsertChunk, Reconcile, InStage
  <2>3. QED
    BY <1>8, <1>9, <2>1, <2>2
<1>12. CASE TouchChunk(b) \/ SyncLocations(b)
  <2>1. Same
    BY <1>2, <1>12, OnlyMerges
  <2>2. (~Edit(b) /\ ~Read(b) /\ ~Reconcile(b)) \/ Safe(u)'
    BY <1>6, <1>7, <1>12 DEF TouchChunk, SyncLocations, Reconcile, InStage
  <2>3. Kept
    <3>1. CASE TouchChunk(b)
      BY <1>2, <3>1 DEF TouchChunk, Rows
    <3>2. CASE SyncLocations(b)
      <4>1. rows'[u] = rows[u] \/ \E some : rows'[u] = [rows[u] EXCEPT !.cities = some]
        BY <1>2, <3>2 DEF SyncLocations
      <4>2. QED
        BY <1>2, <4>1 DEF Rows
    <3>3. QED
      BY <1>12, <3>1, <3>2
  <2>4. QED
    BY <1>8, <1>9, <2>1, <2>2, <2>3
<1>13. CASE MergeChunk(b)
  <2>1. rows'[u] = rows[u] \/ \E v \in request[b].batch : rows'[u] = Merged(rows[u], b, v)
    BY <1>2, <1>13, MergedRows DEF Rewriters
  <2>2. CASE rows'[u] = rows[u]
    <3>1. (~Edit(b) /\ ~Read(b) /\ ~Reconcile(b)) \/ Safe(u)'
      BY <1>6, <1>7, <1>13 DEF MergeChunk, Reconcile, InStage
    <3>2. QED
      BY <1>8, <1>9, <2>2, <3>1
  <2>3. ASSUME NEW v \in request[b].batch, rows'[u] = Merged(rows[u], b, v)
        PROVE  Safe(u)' /\ Kept
    <3>1. v \in request[b].listing /\ v.ext # NoId
      BY <1>2 DEF Identified
    <3>2. rows'[u].source = b /\ rows'[u].ext = v.ext /\ rows'[u].open = rows[u].open
      BY <1>2, <2>3, <3>1 DEF Merged, Rows
    <3>3. Busy(b) /\ visited' = visited
      BY <1>13 DEF MergeChunk, Busy, InStage
    <3>4. request'[b].listing = request[b].listing
      BY <1>2, <1>13, ListingStays
    <3>5. QED
      BY <3>1, <3>2, <3>3, <3>4 DEF Safe, NamedBy, VisitedFirst
  <2>4. QED
    BY <2>1, <2>2, <2>3
<1>14. CASE Reconcile(b)
  <2>1. CASE d = b
    <3>1. ~Gone(u, request[b].listing)
      <4>1. NamedBy(b, u)
        BY <1>4, <1>14, <2>1 DEF Reconcile, Busy, InStage
      <4>2. QED
        BY <4>1 DEF NamedBy, Gone
    <3>2. rows'[u] = rows[u]
      BY <1>2, <1>14, <3>1 DEF Reconcile
    <3>3. request'[b].stage = "idle" /\ visited' = visited
      BY <1>14 DEF Reconcile, Become, TypeOK, Idle
    <3>4. QED
      BY <1>4, <2>1, <3>2, <3>3 DEF Safe, Busy, InStage
  <2>2. CASE d # b
    <3>1. rows'[u] = rows[u] /\ visited' = visited
      BY <1>2, <1>14, <2>2 DEF Reconcile
    <3>2. QED
      BY <1>5, <2>2, <3>1
  <2>3. QED
    BY <2>1, <2>2
<1>15. QED
  BY <1>1, <1>6, <1>7, <1>10, <1>11, <1>12, <1>13, <1>14 DEF Edit, Read

\* An offer that has a row for this cycle keeps it.
LEMMA OpenedStays ==
    ASSUME Identified, TypeOK, Chunks, VisitedFirst, Work, NEW v, Opened(v)
    PROVE  Opened(v)'
<1>1. PICK u \in Urls : At(u, v) /\ Safe(u) /\ rows[u].open
  BY DEF Opened
<1>2. u \in Stored
  BY <1>1 DEF At
<1>3. At(u, v)'
  BY <1>1, <1>2, RowsRemain DEF At
<1>4. Safe(u)' /\ rows'[u].open
  BY <1>1, <1>2, SafeStays
<1>5. QED
  BY <1>3, <1>4 DEF Opened

\* A board that is not at a step keeps what it posted.
LEMMA AsideStays ==
    ASSUME Identified, OffersInv, Work, NEW d \in Boards, request'[d] = request[d]
    PROVE  PostedBy(d)'
<1> DEFINE r == request[d]
<1>1. /\ \A v : Opened(v) => Opened(v)'
      /\ \A u \in Stored : /\ u \in Stored' /\ rows'[u].key = rows[u].key
                           /\ Safe(u) => Safe(u)'
  BY OpenedStays, RowsRemain, SafeStays DEF OffersInv
<1>2. PostedBy(d)
  BY DEF OffersInv
<1>3. \A stage : InStage(d, stage)' = InStage(d, stage)
  BY DEF InStage
<1>4. \A v : OnFile(v, r) => OnFile(v, r)'
  BY <1>1 DEF OnFile
<1>5. ASSUME r.whole, InStage(d, "touch"), NEW v \in r.batch
      PROVE  \E u \in Stored' : (u = v.url \/ rows'[u].key = r.key[v]) /\ Safe(u)'
  BY <1>1, <1>2, <1>5 DEF PostedBy
<1>6. InStage(d, "idle") => r.listing = {}
  BY <1>2 DEF PostedBy
<1>7. ASSUME r.whole
      PROVE  /\ \A v \in r.listing \ r.todo : Opened(v)'
             /\ InStage(d, "reconcile") => r.todo = {}
             /\ InStage(d, "cities") => \A v \in r.batch : Opened(v)'
             /\ InStage(d, "merge") => \A v \in r.batch : OnFile(v, r)'
             /\ \A v \in r.later : OnFile(v, r)'
  BY <1>1, <1>2, <1>4, <1>7 DEF PostedBy
<1>8. QED
  BY <1>3, <1>5, <1>6, <1>7 DEF PostedBy, OnFile

\* With boards that name ids, every step keeps what was posted.
LEMMA PostedStays ==
    ASSUME Identified, OffersInv, Work
    PROVE  \A b \in Boards : PostedBy(b)'
<1>1. PICK b \in Boards :
              \/ Edit(b) \/ Read(b) \/ ResolveNearDuplicates(b) \/ InsertChunk(b) \/ MergeChunk(b)
              \/ TouchChunk(b) \/ SyncLocations(b) \/ Stop(b) \/ Reconcile(b)
  BY SomeBoard
<1> DEFINE r == request[b]
           q == request'[b]
           On(v) == \E u \in Stored' : u = v.url \/ rows'[u].key = q.key[v]
<1>2. /\ TypeOK /\ r \in Requests /\ r.batch \subseteq Versions /\ r.batch \subseteq r.listing
      /\ r.listing \subseteq Versions /\ PostedBy(b)
      /\ \A v \in Versions : v.url \in Urls /\ v.ext # NoId
      /\ \A u \in Stored : u \in Urls /\ rows[u] \in Rows
  BY PostingsAssumption DEF OffersInv, TypeOK, Requests, Stored, Chunks, Tidy, Identified
<1>t. Tidy(r)
  BY DEF OffersInv, Chunks
<1>3. \A d \in Boards \ {b} : PostedBy(d)'
  BY <1>1, <1>2, ChunkStep, AsideStays
<1>4. /\ \A v : Opened(v) => Opened(v)'
      /\ \A u \in Stored : /\ u \in Stored' /\ rows'[u].key = rows[u].key
                           /\ Safe(u) => Safe(u)'
  BY OpenedStays, RowsRemain, SafeStays DEF OffersInv
<1>f. \A v : OnFile(v, r) /\ q.key = r.key => On(v)
  BY <1>4 DEF OnFile, On
<1>n. PostedBy(b)' <=>
        /\ InStage(b, "idle")' => q.listing = {}
        /\ q.whole =>
              /\ \A v \in q.listing \ q.todo : Opened(v)'
              /\ InStage(b, "reconcile")' => q.todo = {}
              /\ InStage(b, "merge")' => \A v \in q.batch : On(v)
              /\ \A v \in q.later : On(v)
              /\ InStage(b, "touch")' =>
                    \A v \in q.batch : \E u \in Stored' :
                        (u = v.url \/ rows'[u].key = q.key[v]) /\ Safe(u)'
              /\ InStage(b, "cities")' => \A v \in q.batch : Opened(v)'
  BY DEF PostedBy, OnFile
<1> HIDE DEF On
<1>5. SUFFICES PostedBy(b)'
  BY <1>3
<1>6. CASE Edit(b)
  BY <1>6, AsideStays DEF Edit
<1>7. CASE Read(b)
  <2>1. q = [Idle EXCEPT !.stage = "resolve", !.listing = listed[b], !.todo = listed[b]]
    BY <1>2, <1>7 DEF Read, Become, TypeOK
  <2>2. q.stage = "resolve" /\ q.listing = q.todo /\ q.later = {}
    BY <2>1, IdleType DEF Requests, Idle
  <2>3. QED
    BY <1>n, <2>2 DEF PostedBy, InStage
<1>8. CASE ResolveNearDuplicates(b)
  <2>1. /\ q.stage = "insert" /\ q.listing = r.listing /\ q.todo = r.todo /\ q.whole = r.whole
        /\ q.later = {}
    <3>1. PICK batch, key :
              Become(b, [r EXCEPT !.stage = "insert", !.batch = batch, !.key = key])
      BY <1>8 DEF ResolveNearDuplicates
    <3>2. q = [r EXCEPT !.stage = "insert", !.batch = batch, !.key = key]
      BY <1>2, <3>1 DEF Become, TypeOK
    <3>3. r.later = {}
      BY <1>8, <1>t DEF ResolveNearDuplicates, InStage, Tidy
    <3>4. q.later = r.later
      BY <1>2, <3>2 DEF Requests
    <3>5. QED
      BY <1>2, <3>2, <3>3, <3>4 DEF Requests
  <2>2. QED
    BY <1>n, <1>2, <1>4, <2>1 DEF PostedBy, InStage
<1>9. CASE InsertChunk(b)
  <2>1. /\ q.stage = "merge" /\ q.listing = r.listing /\ q.todo = r.todo /\ q.whole = r.whole
        /\ q.batch \subseteq r.batch /\ q.later \subseteq r.batch /\ q.key = r.key
    <3>0. PICK part \in SUBSET r.batch :
              Become(b, [r EXCEPT !.stage = "merge", !.batch = part, !.later = r.batch \ part])
      BY <1>9 DEF InsertChunk
    <3>1. q = [r EXCEPT !.stage = "merge", !.batch = part, !.later = r.batch \ part]
      BY <1>2, <3>0 DEF Become, TypeOK
    <3>2. /\ q.stage = "merge" /\ q.listing = r.listing /\ q.todo = r.todo /\ q.whole = r.whole
          /\ q.batch = part /\ q.later = r.batch \ part /\ q.key = r.key
      <4>1. r \in Requests
        BY <1>2
      <4>2. QED
        BY <3>1, <4>1 DEF Requests
    <3>3. QED
      BY <3>2
  <2>2. PICK new \in Insertable(r) :
          /\ new \subseteq r.batch
          /\ \A v \in new : rows'[v.url] = Inserted(b, v, r.key[v]) /\ v.url \in Stored'
    BY <1>2, <1>9, InsertedRows
  <2>3. ASSUME NEW v \in r.batch
        PROVE  \E u \in Stored' : u = v.url \/ rows'[u].key = r.key[v]
    <3>1. CASE v.url \in Stored
      BY <1>4, <3>1
    <3>2. CASE r.key[v] \in StoredKeys
      BY <1>4, <3>2 DEF StoredKeys
    <3>3. CASE v \in new
      BY <2>2, <3>3
    <3>4. ASSUME NEW x \in new, Clash(v, x, r.key)
          PROVE  \E u \in Stored' : u = v.url \/ rows'[u].key = r.key[v]
      <4>1. \A key : Inserted(b, x, key).key = key
        BY DEF Inserted
      <4>2. rows'[x.url].key = r.key[x] /\ x.url \in Stored'
        BY <2>2, <4>1
      <4>3. QED
        BY <3>4, <4>2 DEF Clash
    <3>5. QED
      BY <2>2, <3>1, <3>2, <3>3, <3>4 DEF Insertable
  <2>4. \A v \in r.batch : On(v)
    BY <2>1, <2>3 DEF On
  <2>5. QED
    BY <1>n, <1>2, <1>4, <2>1, <2>4 DEF PostedBy, InStage
<1>10. CASE MergeChunk(b)
  <2>1. /\ q.stage = "touch" /\ q.listing = r.listing /\ q.todo = r.todo /\ q.whole = r.whole
        /\ q.batch = r.batch /\ q.later = r.later /\ q.key = r.key
        /\ InStage(b, "merge") /\ Busy(b)
        /\ visited' = visited
    <3>1. PICK changed : q = [r EXCEPT !.stage = "touch", !.changed = changed]
      BY <1>2, <1>10 DEF MergeChunk, Become, TypeOK
    <3>2. QED
      BY <1>2, <1>10, <3>1 DEF MergeChunk, Requests, Busy, InStage
  <2>2. PICK dirty \in SUBSET Urls, by \in [Urls -> r.batch \union {NoRow}] :
            /\ \A u \in dirty : /\ by[u] \in Rewriters(b, u)
                                /\ rows'[u] = Merged(rows[u], b, by[u])
            /\ \A u \in Urls \ dirty : rows'[u] = rows[u] /\ Rewriters(b, u) = {}
            /\ \A url \in Urls :
                  \/ request'[b].changed[url] \in dirty /\ by[request'[b].changed[url]].url = url
                  \/ request'[b].changed[url] = NoRow /\ \A u \in dirty : by[u].url # url
            /\ request'[b].batch = r.batch /\ request'[b].key = r.key
            /\ request'[b].stage = "touch"
    BY <1>2, <1>10, MergedRows
  <2>3. ASSUME NEW u \in Stored, rows'[u].source = b, NEW v \in r.batch, rows'[u].ext = v.ext
        PROVE  Safe(u)'
    <3>1. v \in q.listing /\ v.ext # NoId
      BY <1>2, <2>1
    <3>2. NamedBy(b, u)'
      BY <2>3, <3>1 DEF NamedBy
    <3>3. b \in visited'
      BY <2>1 DEF OffersInv, VisitedFirst
    <3>4. QED
      BY <2>3, <3>2, <3>3 DEF Safe
  <2>4. ASSUME NEW v \in r.batch, NEW u \in Stored, u = v.url \/ rows[u].key = r.key[v]
        PROVE  Safe(u)'
    <3>1. CASE u \in dirty
      <4>1. by[u] \in r.batch /\ by[u].ext # NoId
        BY <1>2, <2>2, <3>1 DEF Rewriters
      <4>2. ASSUME NEW x, x.ext # NoId
            PROVE  Merged(rows[u], b, x).ext = x.ext /\ Merged(rows[u], b, x).source = b
        BY <1>2, <4>2 DEF Merged, Rows
      <4>3. QED
        BY <2>2, <2>3, <3>1, <4>1, <4>2
    <3>2. CASE u \notin dirty
      <4>1. rows'[u] = rows[u] /\ v \notin Rewriters(b, u)
        BY <1>2, <2>2, <3>2
      <4>2. rows[u].hash = Digest(b, v)
        BY <2>4, <4>1 DEF Rewriters, Matches
      <4>3. Digest(b, v) # NoHash /\ Digest(b, v).ext = v.ext /\ Digest(b, v).source = b
            /\ v.ext # NoId
        BY <1>2, DigestType, NullAssumption DEF Digest
      <4>4. rows[u].ext = v.ext /\ rows[u].source = b
        BY <4>2, <4>3 DEF OffersInv, DigestTellsId
      <4>5. QED
        BY <2>3, <4>1, <4>4
    <3>3. QED
      BY <3>1, <3>2
  <2>5. r.whole => \A v \in r.batch : \E u \in Stored' :
                      (u = v.url \/ rows'[u].key = r.key[v]) /\ Safe(u)'
    BY <1>2, <1>4, <2>1, <2>4 DEF PostedBy, OnFile
  <2>6. r.whole => \A v \in q.later : On(v)
    BY <1>2, <1>f, <2>1 DEF PostedBy
  <2>7. QED
    BY <1>n, <1>2, <1>4, <2>1, <2>5, <2>6 DEF PostedBy, InStage
<1>11. CASE TouchChunk(b)
  <2>1. /\ q.stage = "cities" /\ q.listing = r.listing /\ q.todo = r.todo /\ q.whole = r.whole
        /\ q.batch = r.batch /\ q.later = r.later /\ q.key = r.key /\ InStage(b, "touch")
    <3>1. q = [r EXCEPT !.stage = "cities"]
      BY <1>2, <1>11 DEF TouchChunk, Become, TypeOK
    <3>2. QED
      BY <1>2, <1>11, <3>1 DEF TouchChunk, Requests
  <2>2. ASSUME r.whole, NEW v \in r.batch
        PROVE  Opened(v)'
    <3>1. PICK u \in Stored : (u = v.url \/ rows[u].key = r.key[v]) /\ Safe(u)
      BY <1>2, <2>1, <2>2 DEF PostedBy
    <3>2. rows'[u].open
      <4>1. Matches(u, v, r.key[v])
        BY <3>1 DEF Matches
      <4>2. rows'[u] = [rows[u] EXCEPT !.open = TRUE]
        BY <1>2, <1>11, <4>1 DEF TouchChunk
      <4>3. QED
        BY <1>2, <4>2 DEF Rows
    <3>3. At(u, v)'
      BY <1>2, <1>4, <2>2, <3>1 DEF At, OffersInv, ResolvedAlike
    <3>4. QED
      BY <1>2, <1>4, <3>1, <3>2, <3>3 DEF Opened
  <2>3. r.whole => \A v \in q.later : On(v)
    BY <1>2, <1>f, <2>1 DEF PostedBy
  <2>4. QED
    BY <1>n, <1>2, <1>4, <2>1, <2>2, <2>3 DEF PostedBy, InStage
<1>12. CASE SyncLocations(b)
  <2>1. /\ InStage(b, "cities") /\ q.stage \in {"resolve", "reconcile", "merge"}
        /\ q.listing = r.listing /\ q.todo = r.todo \ r.batch /\ q.whole = r.whole
        /\ q.stage = "reconcile" => q.todo = {}
        /\ q.later = {} /\ q.batch \subseteq r.later
        /\ q.stage = "merge" => q.key = r.key
    <3>1. InStage(b, "cities") /\ (q = IF r.later = {} THEN NextChunk(r) ELSE NextPart(r))
      BY <1>2, <1>12 DEF SyncLocations, Become, TypeOK
    <3>2. CASE r.later = {}
      <4>1. r.todo \ (r.batch \union r.later) = r.todo \ r.batch
        BY <3>2
      <4>2. QED
        BY <1>2, <3>1, <3>2, <4>1 DEF NextChunk, Requests
    <3>3. CASE r.later # {}
      BY <1>2, <3>1, <3>3 DEF NextPart, Requests
    <3>4. QED
      BY <3>2, <3>3
  <2>2. r.whole => \A v \in r.listing \ (r.todo \ r.batch) : Opened(v)
    BY <1>2, <2>1 DEF PostedBy
  <2>3. r.whole /\ q.stage = "merge" => \A v \in q.batch : On(v)
    BY <1>2, <1>f, <2>1 DEF PostedBy
  <2>4. QED
    BY <1>n, <1>4, <2>1, <2>2, <2>3 DEF PostedBy, InStage
<1>13. CASE Stop(b)
  <2>1. q = [NextChunk(r) EXCEPT !.whole = FALSE]
    BY <1>2, <1>13 DEF Stop, Become, TypeOK
  <2>2. NextChunk(r) \in Requests /\ NextChunk(r).stage # "idle"
    BY <1>2, NextChunkType DEF NextChunk, Requests
  <2>3. q.whole = FALSE /\ q.stage # "idle"
    BY <2>1, <2>2 DEF Requests
  <2>4. QED
    BY <1>n, <2>3 DEF PostedBy, InStage
<1>14. CASE Reconcile(b)
  <2>1. q = Idle
    BY <1>2, <1>14 DEF Reconcile, Become, TypeOK
  <2>2. q.listing = {} /\ q.stage = "idle" /\ q.later = {}
    BY <2>1 DEF Idle
  <2>3. QED
    BY <1>n, <2>2 DEF PostedBy, InStage
<1>15. QED
  BY <1>1, <1>6, <1>7, <1>8, <1>9, <1>10, <1>11, <1>12, <1>13, <1>14

\* The invariant is one.
LEMMA OffersInvariant ==
    ASSUME Identified
    PROVE  Spec => []OffersInv
<1>1. Init => OffersInv
  <2> SUFFICES ASSUME Init PROVE OffersInv
    OBVIOUS
  <2>1. /\ Idle.stage = "idle" /\ Idle.listing = {} /\ Idle.todo = {} /\ Idle.batch = {}
        /\ Idle.later = {} /\ Stored = {} /\ \A b \in Boards : request[b] = Idle
    BY DEF Idle, Init, Stored
  <2>2. setting \in SettingsOf
    BY PostingsAssumption DEF Init
  <2>3. \A b \in Boards : listed[b] \in SUBSET Versions
    BY <2>2 DEF Init, SettingsOf
  <2>4. TypeOK
    BY <2>3, IdleType DEF Init, TypeOK
  <2>5. Chunks /\ VisitedFirst /\ ResolvedAlike
    BY <2>1, StartsAlike DEF Init, Chunks, Tidy, VisitedFirst, Busy, InStage
  <2>6. DigestTellsId /\ \A b \in Boards : PostedBy(b)
    BY <2>1 DEF DigestTellsId, PostedBy, InStage
  <2>7. QED
    BY <2>4, <2>5, <2>6 DEF OffersInv
<1>2. OffersInv /\ [Next]_vars => OffersInv'
  <2> SUFFICES ASSUME OffersInv, [Next]_vars PROVE OffersInv'
    OBVIOUS
  <2>1. CASE Work
    BY <2>1, TypesStay, AlikeStays, IdsStay, VisitedStays, PostedStays DEF OffersInv
  <2>2. CASE NextCycle \/ UNCHANGED vars
    <3>1. /\ setting' = setting /\ listed' = listed /\ rows' = rows /\ request' = request
          /\ Stored' = Stored
      BY <2>2 DEF NextCycle, vars, Stored
    <3>2. \/ visited' = visited
          \/ visited' = {} /\ \A b \in Boards : InStage(b, "idle")
      BY <2>2 DEF NextCycle, vars
    <3>3. TypeOK' /\ Chunks' /\ ResolvedAlike' /\ DigestTellsId' /\ VisitedFirst'
      BY <3>1, <3>2 DEF OffersInv, TypeOK, Chunks, Busy, InStage, ResolvedAlike, DigestTellsId,
         VisitedFirst
    <3>4. ASSUME NEW b \in Boards
          PROVE  PostedBy(b)'
      <4>1. PostedBy(b)
        BY DEF OffersInv
      <4>2. CASE visited' = visited
        BY <3>1, <4>1, <4>2 DEF PostedBy, OnFile, Opened, At, Safe, NamedBy, Busy, InStage
      <4>3. CASE InStage(b, "idle")
        BY <3>1, <4>1, <4>3 DEF PostedBy, OffersInv, Chunks, Tidy, InStage
      <4>4. QED
        BY <3>2, <4>2, <4>3
    <3>5. QED
      BY <3>3, <3>4 DEF OffersInv
  <2>3. QED
    BY <2>1, <2>2 DEF Next
<1>3. QED
  BY <1>1, <1>2, PTL DEF Spec

\* What a board listed when it was read has an open row once that read is dealt with
\* (touchChunk: "being seen is what keeps a posting open"), however many boards are read at
\* once, whatever they list by then and wherever requests stop, if they give every offer an
\* id: the row of an offer that is matched by its key alone, and has no id, is touched and
\* then closed by the reconcile of the same read.
THEOREM WhatWasReadIsOpen ==
    ASSUME Identified
    PROVE  Spec => ReadOffersOpen
<1> DEFINE Dealt(b) == (InStage(b, "reconcile") /\ request[b].whole /\ InStage(b, "idle")')
           Open(b, v) == \E u \in Urls :
                /\ Matches(u, v, v.key) \/ (u \in Stored /\ <<v.key, rows[u].key>> \in Alike)
                /\ rows'[u].open
           All == \A b \in Boards : Dealt(b) => \A v \in request[b].listing : Open(b, v)
<1>1. ASSUME OffersInv, Work, NEW b \in Boards, Dealt(b), NEW v \in request[b].listing
      PROVE  Open(b, v)
  <2>1. PICK u \in Urls : At(u, v) /\ Safe(u) /\ rows[u].open
    BY <1>1 DEF OffersInv, PostedBy, Opened
  <2>2. rows'[u].open
    BY <1>1, <2>1, SafeStays DEF OffersInv, At
  <2>3. QED
    BY <2>1, <2>2 DEF At, Reads, Matches
<1>2. OffersInv /\ [Next]_vars => [All]_vars
  <2>1. NextCycle => All
    BY DEF NextCycle, InStage
  <2> HIDE DEF Dealt, Open
  <2>2. QED
    BY <1>1, <2>1 DEF Next
<1>3. QED
  BY <1>2, OffersInvariant, PTL DEF Spec, ReadOffersOpen
=============================================================================
