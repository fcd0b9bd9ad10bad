----------------------- MODULE DiscoveryCycle_proofs -----------------------
(***************************************************************************)
(* What holds of the crawl for any number of workers, boards, companies    *)
(* and offers, and any bounds.                                             *)
(***************************************************************************)
EXTENDS DiscoveryCycle, TLAPS

TaskTable == [Workers -> [Sources -> Tasks]]
RowTable == [Companies -> [Offers -> Postings]]
-----------------------------------------------------------------------------
(***************************************************************************)
(* The helpers return what their names say.                                *)
(***************************************************************************)
\* The values a source, a task and a cycle start from are well typed.
LEMMA InitialTypes ==
    /\ NeverChecked \in SourceStates
    /\ NoTask \in Tasks
    /\ NoCycle \in Cycles
    /\ NoRow \in Postings
<1>1. NeverChecked \in SourceStates
  BY CrawlAssumption DEF NeverChecked, SourceStates, Hashes
<1>2. NoTask \in Tasks
  BY <1>1 DEF NoTask, Tasks, Hashes
<1>3. QED
  BY <1>1, <1>2 DEF NoCycle, Cycles, Modes, NoRow, Postings

\* Ageing a source keeps its type: ages saturate.
LEMMA OlderType ==
    ASSUME NEW source \in SourceStates
    PROVE  Older(source) \in SourceStates
<1>1. ASSUME NEW n \in Nat
      PROVE  AtMost(n + 1, AgeCap) \in 0..AgeCap
  BY CrawlAssumption DEF AtMost
<1>2. source.sinceChecked \in Nat /\ source.sinceSynced \in Nat
  BY CrawlAssumption DEF SourceStates
<1>3. /\ AtMost(source.sinceChecked + 1, AgeCap) \in 0..AgeCap
      /\ AtMost(source.sinceSynced + 1, AgeCap) \in 0..AgeCap
  BY <1>1, <1>2
<1>4. QED
  BY <1>3 DEF Older, SourceStates

\* The states a task moves to after a company are tasks.
LEMMA NextCompanyType ==
    ASSUME NEW t \in Tasks, NEW u \in NextCompany(t)
    PROVE  u \in Tasks
<1>1. CASE t.pending = {}
  BY <1>1, InitialTypes, ZenonT(40) DEF NextCompany, Saving, Tasks
<1>2. CASE t.pending # {}
  <2>1. PICK c \in t.pending : u = [t EXCEPT !.stage = "ingest", !.company = c,
                    !.pending = @ \ {c}, !.todo = t.listing]
    BY <1>2 DEF NextCompany
  <2>2. QED
    BY <2>1 DEF Tasks
<1>3. QED
  BY <1>1, <1>2

\* What a read leads to is a task.
LEMMA DigestedType ==
    ASSUME NEW t \in Tasks, NEW failed \in BOOLEAN, NEW u \in Digested(t, failed)
    PROVE  u \in Tasks
<1>1. \A outcome \in {"unmodified", "empty", "failed"} : Saving(t, outcome) \in Tasks
  BY InitialTypes DEF Saving, Tasks
<1>2. QED
  BY <1>1, NextCompanyType DEF Digested

\* What follows a chunk is a task.
LEMMA PostedType ==
    ASSUME NEW t \in Tasks, NEW chunk \in SUBSET Offers, NEW u \in Posted(t, chunk)
    PROVE  u \in Tasks
<1>1. [t EXCEPT !.todo = {}] \in Tasks /\ [t EXCEPT !.todo = @ \ chunk] \in Tasks
  BY DEF Tasks
<1>2. ASSUME NEW v \in Tasks, u \in AfterChunks(v)
      PROVE  u \in Tasks
  BY <1>2, NextCompanyType DEF AfterChunks, Tasks
<1>3. QED
  BY <1>1, <1>2 DEF Posted

\* The state stored for a source is well typed: the failure count saturates.
LEMMA UpdatedType ==
    ASSUME NEW source \in SourceStates, NEW t \in Tasks
    PROVE  Updated(source, t) \in SourceStates
<1>1. ASSUME NEW n \in 0..FailureCap
      PROVE  AtMost(n + 1, FailureCap) \in 0..FailureCap
  BY CrawlAssumption DEF AtMost
<1>2. /\ AtMost(source.failureCount + 1, FailureCap) \in 0..FailureCap
      /\ 0 \in 0..FailureCap /\ 0 \in 0..AgeCap
  BY <1>1, CrawlAssumption DEF SourceStates
<1>3. t.listing \in Hashes
  BY DEF Tasks, Hashes
<1>4. QED
  BY <1>2, <1>3 DEF Updated, SourceStates

\* What the statements of a batch and of a reconcile leave is a table of rows.
LEMMA RowTypes ==
    ASSUME TypeOK, NEW c, NEW s \in Sources, NEW chunk
    PROVE  /\ Interruptions(c, s, chunk) \subseteq RowTable
           /\ Ingested(c, s, chunk) \in RowTable
           /\ Reconciled(c, s, chunk) \in RowTable
<1>1. Interruptions(c, s, chunk) \subseteq RowTable
  <2>1. /\ [status |-> "open", source |-> s] \in Postings
        /\ \A row \in Postings : [row EXCEPT !.source = s] \in Postings
    BY DEF Postings
  <2>2. ASSUME NEW rows \in Interruptions(c, s, chunk)
        PROVE  rows \in RowTable
    <3>1. PICK merged \in SUBSET chunk, touched \in SUBSET chunk :
            rows = [posting EXCEPT ![c] = [o \in Offers |->
                IF o \in Unknown(c, chunk) \union touched THEN [status |-> "open", source |-> s]
                ELSE IF o \in merged THEN [@[o] EXCEPT !.source = s] ELSE @[o]]]
      BY DEF Interruptions
    <3>2. posting \in RowTable
      BY DEF TypeOK, RowTable
    <3>3. CASE c \in Companies
      <4>1. [o \in Offers |->
                IF o \in Unknown(c, chunk) \union touched THEN [status |-> "open", source |-> s]
                ELSE IF o \in merged THEN [posting[c][o] EXCEPT !.source = s]
                ELSE posting[c][o]] \in [Offers -> Postings]
        BY <2>1, <3>2, <3>3 DEF RowTable
      <4>2. QED
        BY <3>1, <3>2, <4>1 DEF RowTable
    <3>4. CASE c \notin Companies
      BY <3>1, <3>2, <3>4 DEF RowTable
    <3>5. QED
      BY <3>3, <3>4
  <2>3. QED
    BY <2>2
<1>2. Ingested(c, s, chunk) \in RowTable
  BY DEF Ingested, TypeOK, RowTable, Postings
<1>3. Reconciled(c, s, chunk) \in RowTable
  <2>1. \A row \in Postings : [row EXCEPT !.status = "removed"] \in Postings
    BY DEF Postings
  <2>2. QED
    BY <2>1 DEF Reconciled, TypeOK, RowTable
<1>4. QED
  BY <1>1, <1>2, <1>3

\* What the expiry statement leaves is a table of rows.
LEMMA ExpiredType ==
    ASSUME TypeOK
    PROVE  Expired \in RowTable
<1>1. \A row \in Postings : [row EXCEPT !.status = "expired"] \in Postings
  BY DEF Postings
<1>2. QED
  BY <1>1 DEF Expired, TypeOK, RowTable

\* Moving one task to a well-typed one keeps the table of tasks.
LEMMA BecomeType ==
    ASSUME TypeOK, NEW w \in Workers, NEW s \in Sources, NEW t \in Tasks,
           Become(w, s, t)
    PROVE  task' \in TaskTable
BY DEF Become, TypeOK, TaskTable
-----------------------------------------------------------------------------
(***************************************************************************)
(* Type correctness.                                                       *)
(***************************************************************************)
\* A step of the boards, the companies or the clock keeps every type.
LEMMA WorldTypes ==
    ASSUME TypeOK, WorldStep \/ Tick
    PROVE  TypeOK'
<1>1. ASSUME NEW s \in Sources, NEW o \in Offers, Publish(s, o) \/ Withdraw(s, o)
      PROVE  TypeOK'
  BY <1>1 DEF TypeOK, Publish, Withdraw, database
<1>2. ASSUME NEW s \in Sources, NEW c \in Companies, Join(c, s) \/ Leave(c, s)
      PROVE  TypeOK'
  BY <1>2 DEF TypeOK, Join, Leave, database
<1>3. ASSUME NEW o \in Offers, Lapse(o)
      PROVE  TypeOK'
  BY <1>3 DEF TypeOK, Lapse, database
<1>4. CASE Tick
  <2>1. jobSource' \in [Sources -> SourceStates]
    BY <1>4, OlderType DEF TypeOK, Tick
  <2>2. task' \in [Workers -> [Sources -> Tasks]]
    <3>1. \A t \in Tasks : [t EXCEPT !.known = Older(@)] \in Tasks
      BY OlderType DEF Tasks
    <3>2. QED
      BY <3>1, <1>4 DEF TypeOK, Tick
  <2>3. QED
    BY <1>4, <2>1, <2>2 DEF TypeOK, Tick, world
<1>5. QED
  BY <1>1, <1>2, <1>3, <1>4 DEF WorldStep

\* A failed call is counted within its bound.
LEMMA FaultType ==
    ASSUME TypeOK, NEW call, Fault(call)
    PROVE  faults' \in 0..FaultCap
BY CrawlAssumption DEF TypeOK, Fault

\* The steps that start and end a cycle keep every type.
LEMMA CycleTypes ==
    ASSUME TypeOK, NEW w \in Workers,
           (\E mode \in Modes : StartCycle(w, mode)) \/ CycleStep(w) \/ Crash(w)
    PROVE  TypeOK'
<1> USE InitialTypes
<1>1. ASSUME NEW mode \in Modes, StartCycle(w, mode)
      PROVE  TypeOK'
  BY <1>1 DEF TypeOK, StartCycle, Cycles, world, database
<1>2. CASE ListSources(w)
  <2>1. cycle' \in [Workers -> Cycles]
    BY <1>2 DEF TypeOK, ListSources, Cycles
  <2>2. task' \in [Workers -> [Sources -> Tasks]]
    <3>1. ASSUME NEW s \in Sources
          PROVE  [NoTask EXCEPT !.stage = "queued", !.known = jobSource[s],
                                !.pending = behind[s]] \in Tasks
      BY DEF TypeOK, Tasks
    <3>2. QED
      BY <1>2, <3>1 DEF TypeOK, ListSources
  <2>3. QED
    BY <1>2, <2>1, <2>2 DEF TypeOK, ListSources, world, database
<1>3. CASE ListSourcesFails(w)
  BY <1>3, FaultType DEF TypeOK, ListSourcesFails, world, database
<1>4. ASSUME AfterSources(w)
      PROVE  /\ cycle' \in [Workers -> Cycles]
             /\ task' \in [Workers -> [Sources -> Tasks]]
  <2>1. cycle' \in [Workers -> Cycles]
    BY <1>4 DEF TypeOK, AfterSources, Cycles
  <2>2. task' \in [Workers -> [Sources -> Tasks]]
    BY <1>4 DEF TypeOK, AfterSources
  <2>3. QED
    BY <2>1, <2>2
<1>5. CASE ExpireDatedOffers(w)
  BY <1>4, <1>5, ExpiredType
  DEF TypeOK, ExpireDatedOffers, world, RowTable
<1>6. CASE ExpireDatedOffersFails(w)
  BY <1>4, <1>6, ExpiredType, FaultType
  DEF TypeOK, ExpireDatedOffersFails, world, RowTable
<1>7. CASE NotifyNewOffers(w)
  BY <1>7 DEF TypeOK, NotifyNewOffers, world
<1>8. CASE NotifyNewOffersFails(w)
  BY <1>8, FaultType DEF TypeOK, NotifyNewOffersFails, world
<1>9. CASE Crash(w)
  BY <1>9, FaultType DEF TypeOK, Crash, world, database
<1>10. QED
  BY <1>1, <1>2, <1>3, <1>5, <1>6, <1>7, <1>8, <1>9 DEF CycleStep

\* An answer of a board is a listing with two flags.
LEMMA AnswerType ==
    ASSUME TypeOK, NEW s \in Sources, NEW a \in GoodAnswers(s) \union BadAnswers(s)
    PROVE  a.jobs \in SUBSET Offers /\ a.partial \in BOOLEAN /\ a.failed \in BOOLEAN
<1>1. \A jobs \in Truncations(s) \union {{}, board[s]} : jobs \in SUBSET Offers
  BY DEF Truncations, TypeOK
<1>2. PICK jobs \in Truncations(s) \union {{}, board[s]}, p \in BOOLEAN, f \in BOOLEAN :
          a = Answer(jobs, p, f)
  BY DEF GoodAnswers, BadAnswers
<1>3. QED
  BY <1>1, <1>2 DEF Answer

\* The steps of one source leave the boards and the companies alone.
LEMMA SourceKeepsWorld ==
    ASSUME NEW w, NEW s, SourceStep(w, s)
    PROVE  UNCHANGED world
BY DEF SourceStep, SkipSource, StartSource, ReadLight, ReadFull, PostChunk,
       PostChunkFails, Reconcile, ReconcileFails, SaveState, SaveStateFails

\* The steps of one source keep every type.
LEMMA SourceTypes ==
    ASSUME TypeOK, NEW w \in Workers, NEW s \in Sources, SourceStep(w, s)
    PROVE  TypeOK'
<1> DEFINE t == task[w][s]
<1>1. t \in Tasks
  BY DEF TypeOK
<1>2. ASSUME NEW u \in Tasks, Become(w, s, u)
      PROVE  task' \in [Workers -> [Sources -> Tasks]]
  BY <1>2, BecomeType DEF TaskTable
<1>3. [NoTask EXCEPT !.stage = "done"] \in Tasks
  BY InitialTypes DEF Tasks
<1>4. CASE SkipSource(w, s)
  BY <1>2, <1>3, <1>4 DEF SkipSource, TypeOK, world, database
<1>5. CASE StartSource(w, s)
  <2>1. [t EXCEPT !.stage = IF Plan(w, s).fastOnly THEN "light" ELSE "full",
                  !.previous = IF Plan(w, s).reconcile THEN NoHash ELSE t.known.hash,
                  !.known = NeverChecked] \in Tasks
    <3>1. t.known.hash \in Hashes /\ NoHash \in Hashes
      BY <1>1 DEF Tasks, SourceStates, Hashes
    <3> HIDE DEF t
    <3>2. QED
      BY <1>1, <3>1, InitialTypes DEF Tasks
  <2>2. task' \in [Workers -> [Sources -> Tasks]]
    BY <1>2, <1>5, <2>1 DEF StartSource
  <2>3. QED
    BY <1>5, <2>2 DEF StartSource, TypeOK, world, database
<1>6. ASSUME NEW a \in GoodAnswers(s) \union BadAnswers(s)
      PROVE  a.jobs \in SUBSET Offers /\ a.partial \in BOOLEAN /\ a.failed \in BOOLEAN
  BY <1>6, AnswerType
<1>7. ASSUME NEW a \in GoodAnswers(s) \union BadAnswers(s), Read(s, a)
      PROVE  faults' \in 0..FaultCap
  BY <1>7, FaultType DEF Read, TypeOK
<1>8. CASE ReadLight(w, s)
  <2>1. PICK a \in GoodAnswers(s) \union BadAnswers(s) :
            LET read == [t EXCEPT !.listing = a.jobs, !.partial = a.partial]
            IN  /\ Read(s, a)
                /\ \E u \in IF a.jobs = {} \/ a.jobs = read.previous
                            THEN Digested(read, a.failed)
                            ELSE {[read EXCEPT !.stage = "full"]} : Become(w, s, u)
    BY <1>8 DEF ReadLight
  <2> DEFINE read == [t EXCEPT !.listing = a.jobs, !.partial = a.partial]
  <2>2. read \in Tasks /\ [read EXCEPT !.stage = "full"] \in Tasks
    BY <1>1, <1>6 DEF Tasks
  <2>3. task' \in [Workers -> [Sources -> Tasks]]
    <3> HIDE DEF read, t
    <3>1. QED
      BY <1>2, <1>6, <2>1, <2>2, DigestedType DEF read
  <2>4. QED
    BY <1>7, <1>8, <2>1, <2>3 DEF ReadLight, TypeOK, world, database
<1>9. CASE ReadFull(w, s)
  <2>1. PICK a \in GoodAnswers(s) \union BadAnswers(s) :
            LET read == [t EXCEPT !.listing = IF a.jobs = {} THEN @ ELSE a.jobs,
                                  !.partial = @ \/ a.partial]
            IN  /\ Read(s, a)
                /\ \E u \in Digested(read, a.failed) : Become(w, s, u)
    BY <1>9 DEF ReadFull
  <2> DEFINE read == [t EXCEPT !.listing = IF a.jobs = {} THEN @ ELSE a.jobs,
                               !.partial = @ \/ a.partial]
  <2>2. read \in Tasks
    BY <1>1, <1>6 DEF Tasks
  <2>3. task' \in [Workers -> [Sources -> Tasks]]
    <3> HIDE DEF t
    <3>1. QED
      BY <1>2, <1>6, <2>1, <2>2, DigestedType
  <2>4. QED
    BY <1>7, <1>9, <2>1, <2>3 DEF ReadFull, TypeOK, world, database
<1>10. CASE PostChunk(w, s)
  <2>1. PICK chunk \in Chunks(t.todo) :
            /\ posting' = Ingested(t.company, s, chunk)
            /\ digestDue' = (digestDue \/ Unknown(t.company, chunk) # {})
            /\ cycle' = [cycle EXCEPT ![w].inserted = @ \/ Unknown(t.company, chunk) # {}]
            /\ \E u \in Posted(t, chunk) : Become(w, s, u)
    BY <1>10 DEF PostChunk
  <2>2. chunk \in SUBSET Offers
    BY <1>1, <2>1 DEF Chunks, Tasks
  <2>3. task' \in [Workers -> [Sources -> Tasks]]
    <3> HIDE DEF t
    <3>1. QED
      BY <1>1, <1>2, <2>1, <2>2, PostedType
  <2>4. cycle' \in [Workers -> Cycles]
    BY <2>1 DEF TypeOK, Cycles
  <2>5. posting' \in [Companies -> [Offers -> Postings]]
    BY <2>1, RowTypes DEF RowTable
  <2>6. QED
    BY <1>10, <2>1, <2>3, <2>4, <2>5 DEF PostChunk, TypeOK, world
<1>11. CASE PostChunkFails(w, s)
  <2>1. PICK chunk \in Chunks(t.todo) :
            /\ posting' \in {posting} \union Interruptions(t.company, s, chunk)
            /\ digestDue' = (digestDue \/ \E o \in Unknown(t.company, chunk) :
                                             posting'[t.company][o].status # "absent")
            /\ \E u \in Posted(t, chunk) : Become(w, s, u)
    BY <1>11 DEF PostChunkFails
  <2>2. chunk \in SUBSET Offers
    BY <1>1, <2>1 DEF Chunks, Tasks
  <2>3. task' \in [Workers -> [Sources -> Tasks]]
    <3> HIDE DEF t
    <3>1. QED
      BY <1>1, <1>2, <2>1, <2>2, PostedType
  <2>4. posting' \in [Companies -> [Offers -> Postings]]
    <3>1. Interruptions(t.company, s, chunk) \subseteq RowTable
      BY RowTypes
    <3>2. posting \in RowTable
      BY DEF TypeOK, RowTable
    <3>3. QED
      BY <2>1, <3>1, <3>2 DEF RowTable
  <2>5. QED
    BY <1>11, <2>1, <2>3, <2>4, FaultType DEF PostChunkFails, TypeOK, world
<1>12. CASE Reconcile(w, s)
  <2>1. task' \in [Workers -> [Sources -> Tasks]]
    BY <1>1, <1>2, <1>12, NextCompanyType DEF Reconcile
  <2>2. QED
    BY <1>12, <2>1, RowTypes DEF Reconcile, TypeOK, RowTable, world
<1>13. CASE ReconcileFails(w, s)
  <2>1. task' \in [Workers -> [Sources -> Tasks]]
    BY <1>1, <1>2, <1>13, NextCompanyType DEF ReconcileFails
  <2>2. posting' \in [Companies -> [Offers -> Postings]]
    <3>1. Reconciled(t.company, s, t.listing) \in RowTable
      BY RowTypes
    <3>2. QED
      BY <1>13, <3>1 DEF ReconcileFails, TypeOK, RowTable
  <2>3. QED
    BY <1>13, <2>1, <2>2, FaultType DEF ReconcileFails, TypeOK, world
<1>14. [jobSource EXCEPT ![s] = Updated(@, t)] \in [Sources -> SourceStates]
  BY <1>1, UpdatedType DEF TypeOK
<1>15. CASE SaveState(w, s)
  BY <1>2, <1>3, <1>14, <1>15 DEF SaveState, TypeOK, world
<1>16. CASE SaveStateFails(w, s)
  BY <1>2, <1>3, <1>14, <1>16, FaultType DEF SaveStateFails, TypeOK, world
<1>17. QED
  BY <1>4, <1>5, <1>8, <1>9, <1>10, <1>11, <1>12, <1>13, <1>15, <1>16 DEF SourceStep

\* Every step of the crawl keeps every type.
LEMMA TypeInductive == TypeOK /\ [Next]_vars => TypeOK'
<1> SUFFICES ASSUME TypeOK, [Next]_vars
             PROVE  TypeOK'
  OBVIOUS
<1>1. CASE WorldStep \/ Tick
  BY <1>1, WorldTypes
<1>2. ASSUME NEW w \in Workers, (\E mode \in Modes : StartCycle(w, mode)) \/ CycleStep(w) \/ Crash(w)
      PROVE  TypeOK'
  BY <1>2, CycleTypes
<1>3. ASSUME NEW w \in Workers, NEW s \in Sources, SourceStep(w, s)
      PROVE  TypeOK'
  BY <1>3, SourceTypes
<1>4. CASE UNCHANGED vars
  BY <1>4 DEF vars, world, database, TypeOK
<1>5. QED
  BY <1>1, <1>2, <1>3, <1>4 DEF Next

\* The initial states are well typed.
LEMMA TypeInitial == Init => TypeOK
<1> SUFFICES ASSUME Init PROVE TypeOK
  OBVIOUS
<1>1. faults \in 0..FaultCap
  <2>1. FaultCap \in Nat
    BY CrawlAssumption
  <2>2. QED
    BY <2>1 DEF Init
<1>2. posting \in [Companies -> [Offers -> Postings]]
  BY InitialTypes DEF Init
<1>3. task \in [Workers -> [Sources -> Tasks]]
  BY InitialTypes DEF Init
<1>4. QED
  BY <1>1, <1>2, <1>3, InitialTypes DEF Init, TypeOK

\* Every variable keeps its type in every behaviour of the crawl.
THEOREM TypeCorrect == Spec => []TypeOK
<1>1. QED
  BY TypeInitial, TypeInductive, PTL DEF Spec
-----------------------------------------------------------------------------
(***************************************************************************)
(* A board that lists an offer all along never loses it.                   *)
(*                                                                         *)
(* Inductive invariant: whatever a task is about to reconcile by contains  *)
(* every pinned offer of the board, unless the read said it was partial.   *)
(***************************************************************************)
\* What was read is the whole board, or says that it is not.
Sound(s, t) == ~t.partial => Pinned[s] \subseteq t.listing

SoundTask(s, t) ==
    /\ t.stage = "queued" => t.listing = {}
    /\ t.stage = "full" /\ t.listing # {} => Sound(s, t)
    /\ t.stage = "ingest" => Sound(s, t)
    /\ t.stage = "reconcile" => Pinned[s] \subseteq t.listing
    /\ t.stage \in {"ingest", "reconcile"} => t.company \in Companies

SoundReads ==
    /\ \A s \in Sources : Pinned[s] \subseteq board[s]
    /\ \A w \in Workers, s \in Sources : SoundTask(s, task[w][s])

\* The invariant of ListedNeverRemoved.
RemovalInv == TypeOK /\ SoundReads

\* The step predicate of ListedNeverRemoved.
RemovesNoListed ==
    \A c \in Companies, o \in Offers :
        (posting[c][o].status # "removed" /\ posting'[c][o].status = "removed") =>
            o \notin Pinned[posting'[c][o].source]

\* A sound listing stays sound from company to company.
LEMMA NextCompanySound ==
    ASSUME NEW s \in Sources, NEW t \in Tasks, Sound(s, t), NEW u \in NextCompany(t)
    PROVE  SoundTask(s, u)
<1>1. CASE t.pending = {}
  <2>1. u.stage = "save"
    BY <1>1 DEF NextCompany, Saving, NoTask
  <2>2. QED
    BY <2>1 DEF SoundTask
<1>2. CASE t.pending # {}
  <2>1. PICK c \in t.pending : u = [t EXCEPT !.stage = "ingest", !.company = c,
                    !.pending = @ \ {c}, !.todo = t.listing]
    BY <1>2 DEF NextCompany
  <2>2. /\ u.stage = "ingest" /\ u.partial = t.partial /\ u.listing = t.listing
        /\ u.company \in Companies
    BY <2>1 DEF Tasks
  <2>3. QED
    BY <2>2 DEF SoundTask, Sound
<1>3. QED
  BY <1>1, <1>2

\* A sound listing stays sound from chunk to chunk.
LEMMA PostedSound ==
    ASSUME NEW s \in Sources, NEW t \in Tasks, t.stage = "ingest", Sound(s, t),
           t.company \in Companies,
           NEW chunk, NEW u \in Posted(t, chunk)
    PROVE  SoundTask(s, u)
<1> DEFINE done == [t EXCEPT !.todo = {}]
<1>1. /\ done \in Tasks
      /\ done.partial = t.partial /\ done.listing = t.listing
      /\ done.company = t.company
  BY DEF Tasks
<1>2. Sound(s, done)
  BY <1>1 DEF Sound
<1>3. CASE u \in NextCompany(done)
  <2> HIDE DEF done
  <2>1. QED
    BY <1>1, <1>2, <1>3, NextCompanySound
<1>4. CASE ~done.partial /\ u = [done EXCEPT !.stage = "reconcile"]
  <2>1. u.stage = "reconcile" /\ u.listing = t.listing /\ u.company = t.company
    BY <1>4 DEF Tasks
  <2>2. QED
    BY <1>1, <1>4, <2>1 DEF SoundTask, Sound
<1>5. CASE u = [t EXCEPT !.todo = @ \ chunk]
  <2>1. /\ u.stage = "ingest" /\ u.partial = t.partial /\ u.listing = t.listing
        /\ u.company = t.company
    BY <1>5 DEF Tasks
  <2>2. QED
    BY <2>1 DEF SoundTask, Sound
<1>6. QED
  BY <1>3, <1>4, <1>5 DEF Posted, AfterChunks

\* Without silent truncation an answer that lists something is sound.
LEMMA AnswerSound ==
    ASSUME Silent = {}, NEW s \in Sources, Pinned[s] \subseteq board[s],
           NEW a \in GoodAnswers(s) \union BadAnswers(s), a.jobs # {}, ~a.partial
    PROVE  Pinned[s] \subseteq a.jobs
<1>1. CASE a \in BadAnswers(s)
  BY <1>1 DEF BadAnswers, Answer
<1>2. CASE a \in GoodAnswers(s)
  <2>1. CASE a = Answer(board[s], FALSE, FALSE)
    BY <2>1 DEF Answer
  <2>2. CASE \E jobs \in Truncations(s) : a = Answer(jobs, TRUE, FALSE)
    BY <2>2 DEF Answer
  <2>3. QED
    BY <1>2, <2>1, <2>2 DEF GoodAnswers
<1>3. QED
  BY <1>1, <1>2

\* A sound read leads to sound tasks only.
LEMMA DigestedSound ==
    ASSUME NEW s \in Sources, NEW t \in Tasks, NEW failed,
           t.listing # {} => Sound(s, t), NEW u \in Digested(t, failed)
    PROVE  SoundTask(s, u)
<1>1. CASE \E outcome : u = Saving(t, outcome)
  <2>1. u.stage = "save"
    BY <1>1 DEF Saving, NoTask
  <2>2. QED
    BY <2>1 DEF SoundTask
<1>2. CASE t.listing # {} /\ u \in NextCompany(t)
  BY <1>2, NextCompanySound
<1>3. QED
  BY <1>1, <1>2 DEF Digested

\* A step on one source keeps every read sound.
LEMMA SourceKeepsSound ==
    ASSUME Silent = {}, TypeOK, SoundReads,
           NEW w \in Workers, NEW s \in Sources, SourceStep(w, s)
    PROVE  SoundReads'
<1> DEFINE t == task[w][s]
<1>1. t \in Tasks /\ SoundTask(s, t) /\ Pinned[s] \subseteq board[s]
  BY DEF TypeOK, SoundReads
<1>2. UNCHANGED board
  BY DEF SourceStep, SkipSource, StartSource, ReadLight, ReadFull, PostChunk,
         PostChunkFails, Reconcile, ReconcileFails, SaveState, SaveStateFails, world
<1>3. SUFFICES \E u : Become(w, s, u) /\ SoundTask(s, u)
  <2>1. PICK u : Become(w, s, u) /\ SoundTask(s, u)
    BY <1>3
  <2>2. \A v \in Workers, r \in Sources :
            task'[v][r] = IF v = w /\ r = s THEN u ELSE task[v][r]
    BY <2>1 DEF Become, TypeOK
  <2>3. \A v \in Workers, r \in Sources : SoundTask(r, task'[v][r])
    BY <2>1, <2>2 DEF SoundReads
  <2>4. QED
    BY <1>2, <2>3 DEF SoundReads, SoundTask, Sound
<1>4. SoundTask(s, [NoTask EXCEPT !.stage = "done"])
  BY DEF NoTask, SoundTask
<1>5. CASE SkipSource(w, s) \/ SaveState(w, s) \/ SaveStateFails(w, s)
  BY <1>4, <1>5 DEF SkipSource, SaveState, SaveStateFails
<1>6. CASE StartSource(w, s)
  <2> DEFINE u == [t EXCEPT !.stage = IF Plan(w, s).fastOnly THEN "light" ELSE "full",
                  !.previous = IF Plan(w, s).reconcile THEN NoHash ELSE t.known.hash,
                  !.known = NeverChecked]
  <2>1. Become(w, s, u)
    BY <1>6 DEF StartSource
  <2>2. u.stage \in {"light", "full"} /\ u.listing = {}
    BY <1>1, <1>6 DEF StartSource, Tasks, SoundTask
  <2>3. QED
    BY <2>1, <2>2 DEF SoundTask
<1>7. CASE ReadLight(w, s)
  <2>1. PICK a \in GoodAnswers(s) \union BadAnswers(s) :
            LET read == [t EXCEPT !.listing = a.jobs, !.partial = a.partial]
            IN  \E u \in IF a.jobs = {} \/ a.jobs = read.previous
                         THEN Digested(read, a.failed)
                         ELSE {[read EXCEPT !.stage = "full"]} : Become(w, s, u)
    BY <1>7 DEF ReadLight
  <2> DEFINE read == [t EXCEPT !.listing = a.jobs, !.partial = a.partial]
  <2>2. a.jobs \in SUBSET Offers /\ a.partial \in BOOLEAN
    BY AnswerType
  <2>3. read \in Tasks /\ read.listing = a.jobs /\ read.partial = a.partial
    BY <1>1, <2>2 DEF Tasks
  <2>4. read.listing # {} => Sound(s, read)
    BY <1>1, <2>3, AnswerSound DEF Sound
  <2>5. SoundTask(s, [read EXCEPT !.stage = "full"])
    BY <2>3, <2>4 DEF SoundTask, Sound, Tasks
  <2> HIDE DEF read
  <2>6. QED
    BY <2>1, <2>3, <2>4, <2>5, DigestedSound DEF read
<1>8. CASE ReadFull(w, s)
  <2>1. PICK a \in GoodAnswers(s) \union BadAnswers(s) :
            LET read == [t EXCEPT !.listing = IF a.jobs = {} THEN @ ELSE a.jobs,
                                  !.partial = @ \/ a.partial]
            IN  \E u \in Digested(read, a.failed) : Become(w, s, u)
    BY <1>8 DEF ReadFull
  <2> DEFINE read == [t EXCEPT !.listing = IF a.jobs = {} THEN @ ELSE a.jobs,
                               !.partial = @ \/ a.partial]
  <2>2. a.jobs \in SUBSET Offers /\ a.partial \in BOOLEAN
    BY AnswerType
  <2>3. /\ read \in Tasks
        /\ read.listing = IF a.jobs = {} THEN t.listing ELSE a.jobs
        /\ read.partial = (t.partial \/ a.partial)
    BY <1>1, <2>2 DEF Tasks
  <2>4. read.listing # {} => Sound(s, read)
    <3>1. t.stage = "full"
      BY <1>8 DEF ReadFull
    <3>2. CASE a.jobs = {}
      BY <1>1, <2>3, <3>1, <3>2 DEF Sound, SoundTask
    <3>3. CASE a.jobs # {}
      BY <1>1, <2>3, <3>3, AnswerSound DEF Sound
    <3>4. QED
      BY <3>2, <3>3
  <2> HIDE DEF read
  <2>5. QED
    BY <2>1, <2>3, <2>4, DigestedSound DEF read
<1>9. CASE PostChunk(w, s) \/ PostChunkFails(w, s)
  <2>1. t.stage = "ingest"
    BY <1>9 DEF PostChunk, PostChunkFails
  <2>2. PICK chunk : \E u \in Posted(t, chunk) : Become(w, s, u)
    BY <1>9 DEF PostChunk, PostChunkFails
  <2>3. Sound(s, t) /\ t.company \in Companies
    BY <1>1, <2>1 DEF SoundTask
  <2>4. QED
    BY <1>1, <2>1, <2>2, <2>3, PostedSound
<1>10. CASE Reconcile(w, s) \/ ReconcileFails(w, s)
  <2>1. Sound(s, t)
    BY <1>1, <1>10 DEF Reconcile, ReconcileFails, SoundTask, Sound
  <2>2. QED
    BY <1>1, <1>10, <2>1, NextCompanySound DEF Reconcile, ReconcileFails
<1>11. QED
  BY <1>5, <1>6, <1>7, <1>8, <1>9, <1>10 DEF SourceStep

\* So does every other step.
LEMMA OthersKeepSound ==
    ASSUME TypeOK, SoundReads,
           \/ WorldStep \/ Tick \/ UNCHANGED vars
           \/ \E w \in Workers : \/ \E mode \in Modes : StartCycle(w, mode)
                                 \/ CycleStep(w) \/ Crash(w)
    PROVE  SoundReads'
<1>1. ASSUME NEW s \in Sources
      PROVE  SoundTask(s, NoTask)
  BY DEF NoTask, SoundTask
<1>2. CASE WorldStep
  <2>1. task' = task /\ \A s \in Sources : Pinned[s] \subseteq board'[s]
    BY <1>2 DEF WorldStep, Publish, Withdraw, Join, Leave, Lapse, SoundReads, TypeOK
  <2>2. QED
    BY <2>1 DEF SoundReads, SoundTask, Sound
<1>3. CASE Tick
  <2>1. ASSUME NEW w \in Workers, NEW s \in Sources
        PROVE  SoundTask(s, task'[w][s])
    <3>1. /\ task[w][s] \in Tasks
          /\ task'[w][s] \in {task[w][s], [task[w][s] EXCEPT !.known = Older(@)]}
      BY <1>3 DEF Tick, TypeOK
    <3>2. /\ task'[w][s].stage = task[w][s].stage
          /\ task'[w][s].listing = task[w][s].listing
          /\ task'[w][s].company = task[w][s].company
          /\ task'[w][s].partial = task[w][s].partial
      BY <3>1 DEF Tasks
    <3>3. QED
      BY <3>2 DEF SoundReads, SoundTask, Sound
  <2>2. QED
    BY <1>3, <2>1 DEF Tick, world, SoundReads, SoundTask, Sound
<1>4. ASSUME NEW w \in Workers,
             (\E mode \in Modes : StartCycle(w, mode)) \/ NotifyNewOffers(w)
             \/ NotifyNewOffersFails(w) \/ ListSourcesFails(w)
      PROVE  SoundReads'
  BY <1>4 DEF StartCycle, NotifyNewOffers, NotifyNewOffersFails, ListSourcesFails,
              world, SoundReads, SoundTask, Sound
<1>5. ASSUME NEW w \in Workers,
             ListSources(w) \/ ExpireDatedOffers(w) \/ ExpireDatedOffersFails(w) \/ Crash(w)
      PROVE  SoundReads'
  <2>1. ASSUME NEW s \in Sources
        PROVE  SoundTask(s, [NoTask EXCEPT !.stage = "queued", !.known = jobSource[s],
                                           !.pending = behind[s]])
    BY DEF NoTask, SoundTask
  <2>2. ASSUME NEW v \in Workers, NEW s \in Sources
        PROVE  SoundTask(s, task'[v][s])
    <3>1. v # w => task'[v][s] = task[v][s]
      BY <1>5 DEF ListSources, ExpireDatedOffers, ExpireDatedOffersFails,
                  AfterSources, Crash, TypeOK
    <3>2. CASE ListSources(w)
      <4>1. task'[w][s] = IF behind[s] = {} THEN NoTask
                          ELSE [NoTask EXCEPT !.stage = "queued", !.known = jobSource[s],
                                              !.pending = behind[s]]
        BY <3>2 DEF ListSources, TypeOK
      <4>2. QED
        BY <1>1, <2>1, <3>1, <4>1 DEF SoundReads
    <3>3. CASE ExpireDatedOffers(w) \/ ExpireDatedOffersFails(w) \/ Crash(w)
      <4>1. task'[w][s] = NoTask
        BY <3>3 DEF ExpireDatedOffers, ExpireDatedOffersFails, AfterSources, Crash, TypeOK
      <4>2. QED
        BY <1>1, <3>1, <4>1 DEF SoundReads
    <3>4. QED
      BY <1>5, <3>2, <3>3
  <2>3. UNCHANGED board
    BY <1>5 DEF ListSources, ExpireDatedOffers, ExpireDatedOffersFails, Crash, world
  <2>4. QED
    BY <2>2, <2>3 DEF SoundReads, SoundTask, Sound
<1>6. CASE UNCHANGED vars
  BY <1>6 DEF vars, world, SoundReads, SoundTask, Sound
<1>7. QED
  BY <1>2, <1>3, <1>4, <1>5, <1>6 DEF CycleStep

\* The invariant is inductive.
LEMMA RemovalInduction ==
    ASSUME Silent = {}
    PROVE  /\ Init => RemovalInv
           /\ RemovalInv /\ [Next]_vars => RemovalInv'
<1>1. Init => RemovalInv
  BY TypeInitial DEF Init, RemovalInv, SoundReads, SoundTask, NoTask
<1>2. RemovalInv /\ [Next]_vars => RemovalInv'
  <2> SUFFICES ASSUME RemovalInv, [Next]_vars PROVE RemovalInv'
    OBVIOUS
  <2>1. SoundReads'
    BY SourceKeepsSound, OthersKeepSound DEF RemovalInv, Next
  <2>2. QED
    BY <2>1, TypeInductive DEF RemovalInv
<1>3. QED
  BY <1>1, <1>2

\* The steps that write rows, and the only one that closes a row as removed.
LEMMA RemovalStep ==
    ASSUME TypeOK, SoundReads, [Next]_vars
    PROVE  RemovesNoListed
<1> SUFFICES ASSUME NEW c \in Companies, NEW o \in Offers,
                    posting[c][o].status # "removed",
                    posting'[c][o].status = "removed"
             PROVE  o \notin Pinned[posting'[c][o].source]
  BY DEF RemovesNoListed
<1>1. posting' # posting
  OBVIOUS
<1>2. ASSUME NEW d, NEW s \in Sources, NEW chunk,
             posting' \in {Ingested(d, s, chunk)} \union Interruptions(d, s, chunk)
      PROVE  FALSE
  <2>1. posting'[c][o] \in {posting[c][o], [status |-> "open", source |-> s],
                           [posting[c][o] EXCEPT !.source = s]}
    BY <1>2 DEF Ingested, Interruptions, TypeOK
  <2>2. posting[c][o] \in Postings
    BY DEF TypeOK
  <2>3. QED
    BY <2>1, <2>2 DEF Postings
<1>3. posting[c][o] \in Postings
  BY DEF TypeOK
<1>4. ASSUME posting' = Expired
      PROVE  FALSE
  <2>1. posting'[c][o] \in {posting[c][o], [posting[c][o] EXCEPT !.status = "expired"]}
    BY <1>4 DEF Expired
  <2>2. QED
    BY <1>3, <2>1 DEF Postings
<1>5. ASSUME NEW w \in Workers, NEW s \in Sources, task[w][s].stage = "reconcile",
             posting' = Reconciled(task[w][s].company, s, task[w][s].listing)
      PROVE  o \notin Pinned[posting'[c][o].source]
  <2>1. \/ posting'[c][o] = posting[c][o]
        \/ /\ posting[c][o].source = s /\ o \notin task[w][s].listing
           /\ posting'[c][o] = [posting[c][o] EXCEPT !.status = "removed"]
    BY <1>5 DEF Reconciled, TypeOK
  <2>2. posting[c][o] \in Postings
    BY DEF TypeOK
  <2>3. Pinned[s] \subseteq task[w][s].listing
    BY <1>5 DEF SoundReads, SoundTask
  <2>4. QED
    BY <2>1, <2>2, <2>3 DEF Postings
<1>6. ASSUME NEW w \in Workers, NEW s \in Sources, SourceStep(w, s)
      PROVE  o \notin Pinned[posting'[c][o].source]
  BY <1>1, <1>2, <1>5, <1>6
  DEF SourceStep, SkipSource, StartSource, ReadLight, ReadFull, PostChunk,
      PostChunkFails, Reconcile, ReconcileFails, SaveState, SaveStateFails, database
<1>7. ASSUME NEW w \in Workers,
             (\E mode \in Modes : StartCycle(w, mode)) \/ CycleStep(w) \/ Crash(w)
      PROVE  o \notin Pinned[posting'[c][o].source]
  BY <1>1, <1>4, <1>7
  DEF StartCycle, CycleStep, ListSources, ListSourcesFails, ExpireDatedOffers,
      ExpireDatedOffersFails, NotifyNewOffers, NotifyNewOffersFails, Crash, database
<1>8. CASE WorldStep \/ Tick \/ UNCHANGED vars
  BY <1>1, <1>8 DEF WorldStep, Publish, Withdraw, Join, Leave, Lapse, Tick, vars, database
<1>9. QED
  BY <1>6, <1>7, <1>8 DEF Next

\* An adapter that never hides a failed page never closes an offer its board
\* lists all along: for any number of workers, and whatever else fails.
THEOREM ListedSafe ==
    ASSUME Silent = {}
    PROVE  Spec => ListedNeverRemoved
<1>1. RemovalInv /\ [Next]_vars => [RemovesNoListed]_vars
  BY RemovalStep DEF RemovalInv
<1>2. QED
  BY <1>1, RemovalInduction, PTL DEF Spec, ListedNeverRemoved, RemovesNoListed
-----------------------------------------------------------------------------
(***************************************************************************)
(* The crawl implements the ledger of offers, under the same invariant.    *)
(***************************************************************************)
\* The rows once some offers of a company opened under a source and some were
\* given it.
Batch(c, s, opened, moved) ==
    [posting EXCEPT ![c] = [o \in Offers |->
        IF o \in opened THEN [status |-> "open", source |-> s]
        ELSE IF o \in moved THEN [@[o] EXCEPT !.source = s] ELSE @[o]]]

HalfBatch(c, s, chunk, rows) ==
    \E merged \in SUBSET chunk, touched \in SUBSET chunk :
        rows = Batch(c, s, Unknown(c, chunk) \union touched, merged)

\* A batch leaves such rows, whole or interrupted.
LEMMA BatchRows ==
    ASSUME NEW c, NEW s, NEW chunk
    PROVE  /\ Ingested(c, s, chunk) = Batch(c, s, chunk, {})
           /\ \A rows \in Interruptions(c, s, chunk) : HalfBatch(c, s, chunk, rows)
<1>1. Ingested(c, s, chunk) = Batch(c, s, chunk, {})
  BY DEF Ingested, Batch
<1>2. ASSUME NEW rows \in Interruptions(c, s, chunk)
      PROVE  HalfBatch(c, s, chunk, rows)
  BY DEF Interruptions, Batch, HalfBatch
<1>3. QED
  BY <1>1, <1>2

\* A batch, whole or interrupted, is a Receive of the ledger.
LEMMA BatchReceives ==
    ASSUME TypeOK, NEW c \in Companies, NEW s \in Sources, NEW chunk \in SUBSET Offers,
           posting' \in {Ingested(c, s, chunk)} \union Interruptions(c, s, chunk),
           digestDue' = (digestDue \/ \E o \in Unknown(c, chunk) :
                                         posting'[c][o].status # "absent"),
           UNCHANGED lapsed
    PROVE  Ledger!Receive(c, s)
<1>1. ASSUME NEW opened \in SUBSET chunk, NEW moved \in SUBSET chunk,
             Unknown(c, chunk) \subseteq opened, posting' = Batch(c, s, opened, moved)
      PROVE  Ledger!Receive(c, s)
  <2>1. ASSUME NEW o \in opened
        PROVE  posting'[c][o].status = "open"
    BY <1>1 DEF TypeOK, Batch
  <2>2. digestDue' = (digestDue \/ \E o \in opened : posting[c][o].status = "absent")
    BY <1>1, <2>1 DEF Unknown
  <2>3. \A o \in moved \ opened : posting[c][o].status # "absent"
    BY <1>1 DEF Unknown
  <2>4. /\ opened \in SUBSET Offers /\ moved \in SUBSET Offers
        /\ posting' = [posting EXCEPT ![c] = [o \in Offers |->
                IF o \in opened THEN [status |-> "open", source |-> s]
                ELSE IF o \in moved THEN [@[o] EXCEPT !.source = s] ELSE @[o]]]
    BY <1>1 DEF Batch
  <2>5. QED
    BY <2>2, <2>3, <2>4 DEF Ledger!Receive, Ledger!Absent
<1>2. CASE posting' = Ingested(c, s, chunk)
  BY <1>1, <1>2, BatchRows DEF Unknown
<1>3. CASE posting' \in Interruptions(c, s, chunk)
  <2>1. HalfBatch(c, s, chunk, posting')
    BY <1>3, BatchRows
  <2>2. PICK merged \in SUBSET chunk, touched \in SUBSET chunk :
            posting' = Batch(c, s, Unknown(c, chunk) \union touched, merged)
    BY <2>1 DEF HalfBatch
  <2>3. Unknown(c, chunk) \union touched \in SUBSET chunk
    BY DEF Unknown
  <2>4. QED
    BY <1>1, <2>2, <2>3
<1>4. QED
  BY <1>2, <1>3

\* The UPDATE of a sound reconcile is a Close of the ledger.
LEMMA ReconcileCloses ==
    ASSUME TypeOK, NEW c \in Companies, NEW s \in Sources, NEW listing,
           Pinned[s] \subseteq listing,
           posting' = Reconciled(c, s, listing), UNCHANGED <<lapsed, digestDue>>
    PROVE  Ledger!Close(c, s)
<1> DEFINE gone == {o \in Offers : /\ posting[c][o].status = "open"
                                   /\ posting[c][o].source = s /\ o \notin listing}
<1>1. posting' = [posting EXCEPT ![c] = [o \in Offers |->
            IF o \in gone THEN [@[o] EXCEPT !.status = "removed"] ELSE @[o]]]
  BY DEF Reconciled
<1>2. \A o \in gone : Ledger!Open(c, o, s) /\ o \notin Pinned[s]
  BY DEF Ledger!Open
<1>3. gone \in SUBSET Offers
  OBVIOUS
<1> HIDE DEF gone
<1>4. QED
  BY <1>1, <1>2, <1>3 DEF Ledger!Close

\* Every step of the crawl is a step of the ledger, or leaves it alone.
LEMMA LedgerStep ==
    ASSUME TypeOK, SoundReads, [Next]_vars
    PROVE  [Ledger!Next]_(Ledger!ledger)
<1>1. ASSUME UNCHANGED <<posting, lapsed, digestDue>>
      PROVE  UNCHANGED Ledger!ledger
  BY <1>1 DEF Ledger!ledger
<1>2. ASSUME NEW w \in Workers, NEW s \in Sources, SourceStep(w, s)
      PROVE  [Ledger!Next]_(Ledger!ledger)
  <2> DEFINE t == task[w][s]
  <2>1. t \in Tasks /\ SoundTask(s, t)
    BY DEF TypeOK, SoundReads
  <2>2. CASE PostChunk(w, s)
    <3>1. t.stage = "ingest" /\ t.company \in Companies
      BY <2>1, <2>2 DEF PostChunk, SoundTask
    <3>2. PICK chunk \in Chunks(t.todo) :
            /\ posting' = Ingested(t.company, s, chunk)
            /\ digestDue' = (digestDue \/ Unknown(t.company, chunk) # {})
      BY <2>2 DEF PostChunk
    <3>3. chunk \in SUBSET Offers
      BY <2>1 DEF Chunks, Tasks
    <3>4. \A o \in Unknown(t.company, chunk) : posting'[t.company][o].status # "absent"
      BY <3>1, <3>2, <3>3 DEF Ingested, Unknown, TypeOK
    <3>5. digestDue' = (digestDue \/ \E o \in Unknown(t.company, chunk) :
                                        posting'[t.company][o].status # "absent")
      BY <3>2, <3>4
    <3>6. UNCHANGED lapsed
      BY <2>2 DEF PostChunk, world
    <3>7. Ledger!Receive(t.company, s)
      BY <3>1, <3>2, <3>3, <3>5, <3>6, BatchReceives
    <3>8. QED
      BY <3>1, <3>7 DEF Ledger!Next
  <2>3. CASE PostChunkFails(w, s)
    <3>1. t.stage = "ingest" /\ t.company \in Companies
      BY <2>1, <2>3 DEF PostChunkFails, SoundTask
    <3>2. PICK chunk \in Chunks(t.todo) :
            /\ posting' \in {posting} \union Interruptions(t.company, s, chunk)
            /\ digestDue' = (digestDue \/ \E o \in Unknown(t.company, chunk) :
                                             posting'[t.company][o].status # "absent")
      BY <2>3 DEF PostChunkFails
    <3>3. chunk \in SUBSET Offers
      BY <2>1 DEF Chunks, Tasks
    <3>4. UNCHANGED lapsed
      BY <2>3 DEF PostChunkFails, world
    <3>5. CASE posting' = posting
      <4>1. digestDue' = (digestDue \/ FALSE)
        BY <3>2, <3>5 DEF Unknown
      <4>2. digestDue' = digestDue
        BY <4>1 DEF TypeOK
      <4>3. QED
        BY <1>1, <3>4, <3>5, <4>2
    <3>6. CASE posting' \in Interruptions(t.company, s, chunk)
      <4>1. Ledger!Receive(t.company, s)
        BY <3>1, <3>2, <3>3, <3>4, <3>6, BatchReceives
      <4>2. QED
        BY <3>1, <4>1 DEF Ledger!Next
    <3>7. QED
      BY <3>2, <3>5, <3>6
  <2>4. CASE Reconcile(w, s) \/ ReconcileFails(w, s)
    <3>1. /\ t.company \in Companies
          /\ Pinned[s] \subseteq t.listing
      BY <2>1, <2>4 DEF Reconcile, ReconcileFails, SoundTask
    <3>2. /\ posting' \in {posting, Reconciled(t.company, s, t.listing)}
          /\ UNCHANGED <<lapsed, digestDue>>
      BY <2>4 DEF Reconcile, ReconcileFails, world
    <3>3. CASE posting' = Reconciled(t.company, s, t.listing)
      <4>1. Ledger!Close(t.company, s)
        BY <3>1, <3>2, <3>3, ReconcileCloses, SMTT(30)
      <4>2. QED
        BY <3>1, <4>1 DEF Ledger!Next
    <3>4. QED
      BY <1>1, <3>2, <3>3
  <2>5. CASE \/ SkipSource(w, s) \/ StartSource(w, s) \/ ReadLight(w, s) \/ ReadFull(w, s)
             \/ SaveState(w, s) \/ SaveStateFails(w, s)
    BY <1>1, <2>5 DEF SkipSource, StartSource, ReadLight, ReadFull, SaveState,
                      SaveStateFails, world, database
  <2>6. QED
    BY <1>2, <2>2, <2>3, <2>4, <2>5 DEF SourceStep
<1>3. ASSUME posting' \in {posting, Expired}, UNCHANGED <<lapsed, digestDue>>
      PROVE  [Ledger!Next]_(Ledger!ledger)
  <2>1. CASE posting' = Expired
    <3>1. Ledger!Expire
      BY <1>3, <2>1 DEF Expired, Ledger!Expire
    <3>2. QED
      BY <3>1 DEF Ledger!Next
  <2>2. QED
    BY <1>1, <1>3, <2>1
<1>4. ASSUME digestDue' \in {digestDue, FALSE}, UNCHANGED <<lapsed, posting>>
      PROVE  [Ledger!Next]_(Ledger!ledger)
  <2>1. CASE digestDue' = FALSE
    BY <1>4, <2>1 DEF Ledger!Announce, Ledger!Next
  <2>2. QED
    BY <1>1, <1>4, <2>1
<1>5. ASSUME NEW w \in Workers,
             (\E mode \in Modes : StartCycle(w, mode)) \/ CycleStep(w) \/ Crash(w)
      PROVE  [Ledger!Next]_(Ledger!ledger)
  <2>1. CASE ExpireDatedOffers(w) \/ ExpireDatedOffersFails(w)
    BY <1>3, <2>1 DEF ExpireDatedOffers, ExpireDatedOffersFails, world
  <2>2. CASE NotifyNewOffers(w) \/ NotifyNewOffersFails(w)
    BY <1>4, <2>2 DEF NotifyNewOffers, NotifyNewOffersFails, world
  <2>3. CASE \/ \E mode \in Modes : StartCycle(w, mode)
             \/ ListSources(w) \/ ListSourcesFails(w) \/ Crash(w)
    BY <1>1, <2>3 DEF StartCycle, ListSources, ListSourcesFails, Crash, world, database
  <2>4. QED
    BY <1>5, <2>1, <2>2, <2>3 DEF CycleStep
<1>6. ASSUME NEW o \in Offers, Lapse(o)
      PROVE  [Ledger!Next]_(Ledger!ledger)
  <2>1. o \in Dated /\ Ledger!Lapse(o)
    BY <1>6 DEF Lapse, database, Ledger!Lapse
  <2>2. QED
    BY <2>1 DEF Ledger!Next
<1>7. CASE Tick \/ UNCHANGED vars
           \/ (\E s \in Sources, o \in Offers : Publish(s, o) \/ Withdraw(s, o))
           \/ (\E s \in Sources, c \in Companies : Join(c, s) \/ Leave(c, s))
  BY <1>1, <1>7 DEF Tick, Publish, Withdraw, Join, Leave, vars, world, database
<1>8. QED
  BY <1>2, <1>5, <1>6, <1>7 DEF Next, WorldStep

\* The crawl implements the ledger: for any number of workers, boards and
\* companies, whatever calls fail and wherever a worker stops, each step of the
\* rows is one the ledger allows (no adapter hiding a failed page).
THEOREM LedgerImplemented ==
    ASSUME Silent = {}
    PROVE  Spec => ImplementsLedger
<1>1. Init => Ledger!Init
  BY DEF Init, NoRow, Ledger!Init
<1>2. RemovalInv /\ [Next]_vars => [Ledger!Next]_(Ledger!ledger)
  BY LedgerStep DEF RemovalInv
<1>3. QED
  BY <1>1, <1>2, RemovalInduction, PTL DEF Spec, ImplementsLedger, Ledger!Spec
-----------------------------------------------------------------------------
(***************************************************************************)
(* The stored hash vouches for the rows.                                   *)
(*                                                                         *)
(* Inductive invariant: every offer of a task's listing is, for every      *)
(* company behind the source, still to be posted or already has a row.     *)
(***************************************************************************)
Stored(rows, c, o) == rows[c][o].status # "absent"

\* The companies cs are still to be served, or have their rows.
Covers(rows, cs, t) ==
    /\ t.stage \in {"queued", "light", "full"} => cs \subseteq t.pending
    /\ t.stage \in {"ingest", "reconcile", "save"} =>
          \A c \in cs, o \in t.listing :
              c \in t.pending \/ (c = t.company /\ o \in t.todo) \/ Stored(rows, c, o)
    /\ t.stage = "reconcile" => t.todo = {}
    /\ t.stage = "save" => t.pending = {} /\ t.todo = {}

TasksCover ==
    \A w \in Workers, s \in Sources : Covers(posting, behind[s], task[w][s])

\* The invariant of HashMeansIngested.
IngestInv == TypeOK /\ TasksCover /\ HashMeansIngested

\* A row that exists goes on existing.
RowsRemain ==
    \A c \in Companies, o \in Offers :
        Stored(posting, c, o) => Stored(posting', c, o)

\* What covers the companies still does when rows are only added.
LEMMA CoversRemain ==
    ASSUME TypeOK, RowsRemain, NEW s \in Sources, NEW t \in Tasks,
           Covers(posting, behind[s], t)
    PROVE  Covers(posting', behind[s], t)
BY DEF Covers, RowsRemain, TypeOK, Tasks

\* A task that only has its state left to save covers its companies, if every
\* offer of its listing is stored for each of them.
LEMMA SavingCovers ==
    ASSUME NEW rows, NEW cs, NEW t \in Tasks, NEW outcome,
           outcome = "synced" => \A c \in cs, o \in t.listing : Stored(rows, c, o)
    PROVE  Covers(rows, cs, Saving(t, outcome))
<1> DEFINE u == Saving(t, outcome)
<1>1. /\ u.stage = "save" /\ u.pending = {} /\ u.todo = {}
      /\ u.listing = IF outcome = "synced" THEN t.listing ELSE {}
  BY DEF Saving, NoTask
<1> HIDE DEF u
<1>2. Covers(rows, cs, u)
  BY <1>1 DEF Covers
<1>3. QED
  BY <1>2 DEF u

\* Going on to the next company leaves no offer of the last one behind.
LEMMA NextCompanyCovers ==
    ASSUME NEW rows, NEW cs, NEW t \in Tasks, NEW u \in NextCompany(t),
           \A c \in cs, o \in t.listing : c \in t.pending \/ Stored(rows, c, o)
    PROVE  Covers(rows, cs, u)
<1>1. CASE t.pending = {}
  BY <1>1, SavingCovers DEF NextCompany
<1>2. CASE t.pending # {}
  <2>1. PICK c \in t.pending : u = [t EXCEPT !.stage = "ingest", !.company = c,
                    !.pending = @ \ {c}, !.todo = t.listing]
    BY <1>2 DEF NextCompany
  <2>2. /\ u.stage = "ingest" /\ u.company = c /\ u.listing = t.listing
        /\ u.pending = t.pending \ {c} /\ u.todo = t.listing
    BY <2>1 DEF Tasks
  <2>3. QED
    BY <2>2 DEF Covers
<1>3. QED
  BY <1>1, <1>2

\* A read that reaches every company of the source is one that covers them.
LEMMA DigestedCovers ==
    ASSUME NEW rows, NEW cs, NEW t \in Tasks, NEW failed, cs \subseteq t.pending,
           NEW u \in Digested(t, failed)
    PROVE  Covers(rows, cs, u)
<1>1. \A outcome \in {"failed", "empty", "unmodified"} : Covers(rows, cs, Saving(t, outcome))
  BY SavingCovers
<1>2. CASE u \in NextCompany(t)
  BY <1>2, NextCompanyCovers
<1>3. QED
  BY <1>1, <1>2 DEF Digested

\* Once a chunk is stored, the offers left to post are all that is missing.
LEMMA PostedCovers ==
    ASSUME NEW rows, NEW cs, NEW t \in Tasks, t.stage = "ingest", Covers(rows, cs, t),
           NEW chunk, t.company \in cs => \A o \in chunk : Stored(rows, t.company, o),
           NEW u \in Posted(t, chunk)
    PROVE  Covers(rows, cs, u)
<1> DEFINE done == [t EXCEPT !.todo = {}]
<1>1. /\ done \in Tasks /\ done.listing = t.listing
      /\ done.pending = t.pending /\ done.todo = {}
  BY DEF Tasks
<1>2. CASE t.todo \subseteq chunk
  <2>1. \A c \in cs, o \in done.listing : c \in done.pending \/ Stored(rows, c, o)
    BY <1>1, <1>2 DEF Covers
  <2>2. CASE u \in NextCompany(done)
    <3> HIDE DEF done
    <3>1. QED
      BY <1>1, <2>1, <2>2, NextCompanyCovers
  <2>3. CASE u = [done EXCEPT !.stage = "reconcile"]
    <3>1. /\ u.stage = "reconcile" /\ u.listing = t.listing
          /\ u.pending = t.pending /\ u.todo = {}
      BY <2>3 DEF Tasks
    <3>2. QED
      BY <1>1, <2>1, <3>1 DEF Covers
  <2>4. QED
    BY <1>2, <2>2, <2>3 DEF Posted, AfterChunks
<1>3. CASE ~(t.todo \subseteq chunk)
  <2>1. u = [t EXCEPT !.todo = @ \ chunk]
    BY <1>3 DEF Posted
  <2>2. /\ u.stage = "ingest" /\ u.listing = t.listing /\ u.company = t.company
        /\ u.pending = t.pending /\ u.todo = t.todo \ chunk
    BY <2>1 DEF Tasks
  <2>3. QED
    BY <2>2 DEF Covers
<1>4. QED
  BY <1>2, <1>3

\* No statement of the API deletes a row.
LEMMA RowsStay ==
    ASSUME TypeOK, [Next]_vars
    PROVE  RowsRemain
<1> SUFFICES ASSUME NEW c \in Companies, NEW o \in Offers, Stored(posting, c, o)
             PROVE  Stored(posting', c, o)
  BY DEF RowsRemain
<1>1. CASE posting' = posting
  BY <1>1
<1>2. ASSUME NEW d, NEW s \in Sources, NEW chunk,
             \/ posting' = Ingested(d, s, chunk)
             \/ posting' \in Interruptions(d, s, chunk)
      PROVE  Stored(posting', c, o)
  <2>1. CASE posting' = Ingested(d, s, chunk)
    <3>1. posting'[c][o] \in {posting[c][o], [status |-> "open", source |-> s]}
      BY <2>1 DEF Ingested, TypeOK
    <3>2. QED
      BY <3>1 DEF Stored
  <2>2. CASE posting' \in Interruptions(d, s, chunk)
    <3>1. posting'[c][o] \in {posting[c][o], [status |-> "open", source |-> s],
                             [posting[c][o] EXCEPT !.source = s]}
      BY <2>2 DEF Interruptions, TypeOK
    <3>2. posting[c][o] \in Postings
      BY DEF TypeOK
    <3>3. QED
      BY <3>1, <3>2 DEF Stored, Postings
  <2>3. QED
    BY <1>2, <2>1, <2>2
<1>3. ASSUME NEW d, NEW s \in Sources, NEW listing, posting' = Reconciled(d, s, listing)
      PROVE  Stored(posting', c, o)
  <2>1. posting[c][o] \in Postings
    BY DEF TypeOK
  <2>2. posting'[c][o] \in {posting[c][o], [posting[c][o] EXCEPT !.status = "removed"]}
    BY <1>3 DEF Reconciled, TypeOK
  <2>3. QED
    BY <2>1, <2>2 DEF Postings, Stored
<1>4. ASSUME posting' = Expired
      PROVE  Stored(posting', c, o)
  <2>1. posting[c][o] \in Postings
    BY DEF TypeOK
  <2>2. posting'[c][o] \in {posting[c][o], [posting[c][o] EXCEPT !.status = "expired"]}
    BY <1>4 DEF Expired
  <2>3. QED
    BY <2>1, <2>2 DEF Postings, Stored
<1>5. ASSUME NEW w \in Workers, NEW s \in Sources, SourceStep(w, s)
      PROVE  Stored(posting', c, o)
  BY <1>1, <1>2, <1>3, <1>5
  DEF SourceStep, SkipSource, StartSource, ReadLight, ReadFull, PostChunk,
      PostChunkFails, Reconcile, ReconcileFails, SaveState, SaveStateFails, database
<1>6. ASSUME NEW w \in Workers,
             (\E mode \in Modes : StartCycle(w, mode)) \/ CycleStep(w) \/ Crash(w)
      PROVE  Stored(posting', c, o)
  BY <1>1, <1>4, <1>6
  DEF StartCycle, CycleStep, ListSources, ListSourcesFails, ExpireDatedOffers,
      ExpireDatedOffersFails, NotifyNewOffers, NotifyNewOffersFails, Crash, database
<1>7. CASE WorldStep \/ Tick \/ UNCHANGED vars
  BY <1>1, <1>7 DEF WorldStep, Publish, Withdraw, Join, Leave, Lapse, Tick, vars, database
<1>8. QED
  BY <1>5, <1>6, <1>7 DEF Next

\* A step on one source, when batches do not fail, leaves every task covering
\* its companies.
LEMMA SourceKeepsCover ==
    ASSUME "batch" \notin MayFail, TypeOK, TasksCover,
           NEW w \in Workers, NEW s \in Sources, SourceStep(w, s)
    PROVE  TasksCover'
<1> DEFINE t == task[w][s]
<1>1. t \in Tasks /\ Covers(posting, behind[s], t)
  BY DEF TypeOK, TasksCover
<1>2. behind' = behind
  BY DEF SourceStep, SkipSource, StartSource, ReadLight, ReadFull, PostChunk,
         PostChunkFails, Reconcile, ReconcileFails, SaveState, SaveStateFails, world
<1>3. RowsRemain
  BY RowsStay DEF Next
<1>4. SUFFICES \E u : Become(w, s, u) /\ Covers(posting', behind[s], u)
  <2>1. PICK u : Become(w, s, u) /\ Covers(posting', behind[s], u)
    BY <1>4
  <2>2. ASSUME NEW v \in Workers, NEW r \in Sources
        PROVE  Covers(posting', behind[r], task'[v][r])
    <3>1. task'[v][r] = IF v = w /\ r = s THEN u ELSE task[v][r]
      BY <2>1 DEF Become, TypeOK
    <3>2. task[v][r] \in Tasks /\ Covers(posting, behind[r], task[v][r])
      BY DEF TypeOK, TasksCover
    <3>3. QED
      BY <1>3, <2>1, <3>1, <3>2, CoversRemain
  <2>3. QED
    BY <1>2, <2>2 DEF TasksCover
<1>5. Covers(posting', behind[s], [NoTask EXCEPT !.stage = "done"])
  BY DEF NoTask, Covers
<1>6. CASE SkipSource(w, s) \/ SaveState(w, s) \/ SaveStateFails(w, s)
  BY <1>5, <1>6 DEF SkipSource, SaveState, SaveStateFails
<1>7. CASE StartSource(w, s)
  <2> DEFINE u == [t EXCEPT !.stage = IF Plan(w, s).fastOnly THEN "light" ELSE "full",
                  !.previous = IF Plan(w, s).reconcile THEN NoHash ELSE t.known.hash,
                  !.known = NeverChecked]
  <2>1. Become(w, s, u)
    BY <1>7 DEF StartSource
  <2>2. u.stage \in {"light", "full"} /\ behind[s] \subseteq u.pending
    BY <1>1, <1>7 DEF StartSource, Tasks, Covers
  <2>3. QED
    BY <2>1, <2>2 DEF Covers
<1>8. CASE ReadLight(w, s)
  <2>1. PICK a \in GoodAnswers(s) \union BadAnswers(s) :
            LET read == [t EXCEPT !.listing = a.jobs, !.partial = a.partial]
            IN  \E u \in IF a.jobs = {} \/ a.jobs = read.previous
                         THEN Digested(read, a.failed)
                         ELSE {[read EXCEPT !.stage = "full"]} : Become(w, s, u)
    BY <1>8 DEF ReadLight
  <2> DEFINE read == [t EXCEPT !.listing = a.jobs, !.partial = a.partial]
  <2>2. a.jobs \in SUBSET Offers /\ a.partial \in BOOLEAN
    BY AnswerType
  <2>3. read \in Tasks /\ behind[s] \subseteq read.pending
    BY <1>1, <1>8, <2>2 DEF ReadLight, Tasks, Covers
  <2>4. Covers(posting', behind[s], [read EXCEPT !.stage = "full"])
    BY <2>3 DEF Covers, Tasks
  <2> HIDE DEF read
  <2>5. QED
    BY <2>1, <2>3, <2>4, DigestedCovers DEF read
<1>9. CASE ReadFull(w, s)
  <2>1. PICK a \in GoodAnswers(s) \union BadAnswers(s) :
            LET read == [t EXCEPT !.listing = IF a.jobs = {} THEN @ ELSE a.jobs,
                                  !.partial = @ \/ a.partial]
            IN  \E u \in Digested(read, a.failed) : Become(w, s, u)
    BY <1>9 DEF ReadFull
  <2> DEFINE read == [t EXCEPT !.listing = IF a.jobs = {} THEN @ ELSE a.jobs,
                               !.partial = @ \/ a.partial]
  <2>2. a.jobs \in SUBSET Offers /\ a.partial \in BOOLEAN
    BY AnswerType
  <2>3. read \in Tasks /\ behind[s] \subseteq read.pending
    BY <1>1, <1>9, <2>2 DEF ReadFull, Tasks, Covers
  <2> HIDE DEF read
  <2>4. QED
    BY <2>1, <2>3, DigestedCovers DEF read
<1>10. CASE PostChunk(w, s)
  <2>1. PICK chunk \in Chunks(t.todo) :
            /\ posting' = Ingested(t.company, s, chunk)
            /\ \E u \in Posted(t, chunk) : Become(w, s, u)
    BY <1>10 DEF PostChunk
  <2>2. PICK u \in Posted(t, chunk) : Become(w, s, u)
    BY <2>1
  <2>3. t.stage = "ingest"
    BY <1>10 DEF PostChunk
  <2>4. t.company \in behind[s] => \A o \in chunk : Stored(posting', t.company, o)
    <3>1. behind[s] \subseteq Companies /\ chunk \subseteq Offers
      BY <1>1, <2>1 DEF TypeOK, Chunks, Tasks
    <3>2. QED
      BY <2>1, <3>1 DEF Ingested, Stored, TypeOK
  <2>5. Covers(posting', behind[s], t)
    BY <1>1, <1>3, CoversRemain
  <2> HIDE DEF t
  <2>6. QED
    BY <1>1, <2>2, <2>3, <2>4, <2>5, PostedCovers
<1>11. ~PostChunkFails(w, s)
  BY DEF PostChunkFails, Fault
<1>12. CASE Reconcile(w, s) \/ ReconcileFails(w, s)
  <2>1. PICK u \in NextCompany(t) : Become(w, s, u)
    BY <1>12 DEF Reconcile, ReconcileFails
  <2>2. Covers(posting', behind[s], t)
    BY <1>1, <1>3, CoversRemain
  <2>3. \A c \in behind[s], o \in t.listing : c \in t.pending \/ Stored(posting', c, o)
    BY <1>12, <2>2 DEF Reconcile, ReconcileFails, Covers
  <2>4. QED
    BY <1>1, <2>1, <2>3, NextCompanyCovers
<1>13. QED
  BY <1>6, <1>7, <1>8, <1>9, <1>10, <1>11, <1>12 DEF SourceStep

\* So does every other step, when no company joins a source.
LEMMA OthersKeepCover ==
    ASSUME Movers = {}, TypeOK, TasksCover,
           \/ WorldStep \/ Tick \/ UNCHANGED vars
           \/ \E w \in Workers : \/ \E mode \in Modes : StartCycle(w, mode)
                                 \/ CycleStep(w) \/ Crash(w)
    PROVE  TasksCover' /\ behind' = behind
<1>1. behind' = behind
  BY DEF WorldStep, Publish, Withdraw, Join, Leave, Lapse, Tick, StartCycle, CycleStep,
         ListSources, ListSourcesFails, ExpireDatedOffers, ExpireDatedOffersFails,
         NotifyNewOffers, NotifyNewOffersFails, Crash, vars, world
<1>2. RowsRemain
  BY RowsStay DEF Next
<1>3. SUFFICES ASSUME NEW v \in Workers, NEW s \in Sources
               PROVE  Covers(posting', behind[s], task'[v][s])
  BY <1>1 DEF TasksCover
<1>4. task[v][s] \in Tasks /\ Covers(posting, behind[s], task[v][s])
  BY DEF TypeOK, TasksCover
<1>5. CASE task'[v][s] = task[v][s]
  BY <1>2, <1>4, <1>5, CoversRemain
<1>6. Covers(posting', behind[s], NoTask)
  BY DEF Covers, NoTask
<1>7. CASE WorldStep \/ UNCHANGED vars
  BY <1>5, <1>7 DEF WorldStep, Publish, Withdraw, Join, Leave, Lapse, vars
<1>8. CASE Tick
  <2>1. task'[v][s] \in {task[v][s], [task[v][s] EXCEPT !.known = Older(@)]}
    BY <1>8 DEF Tick
  <2>2. CASE task'[v][s] = [task[v][s] EXCEPT !.known = Older(@)]
    <3>1. /\ task'[v][s].stage = task[v][s].stage
          /\ task'[v][s].pending = task[v][s].pending
          /\ task'[v][s].listing = task[v][s].listing
          /\ task'[v][s].company = task[v][s].company
          /\ task'[v][s].todo = task[v][s].todo
      BY <1>4, <2>2 DEF Tasks
    <3>2. Covers(posting', behind[s], task[v][s])
      BY <1>2, <1>4, CoversRemain
    <3>3. QED
      BY <3>1, <3>2 DEF Covers
  <2>3. QED
    BY <1>5, <2>1, <2>2
<1>9. ASSUME NEW w \in Workers,
             (\E mode \in Modes : StartCycle(w, mode)) \/ NotifyNewOffers(w)
             \/ NotifyNewOffersFails(w) \/ ListSourcesFails(w)
      PROVE  Covers(posting', behind[s], task'[v][s])
  BY <1>5, <1>9 DEF StartCycle, NotifyNewOffers, NotifyNewOffersFails, ListSourcesFails
<1>10. ASSUME NEW w \in Workers,
              ExpireDatedOffers(w) \/ ExpireDatedOffersFails(w) \/ Crash(w)
       PROVE  Covers(posting', behind[s], task'[v][s])
  <2>1. task'[v][s] \in {task[v][s], NoTask}
    BY <1>10 DEF ExpireDatedOffers, ExpireDatedOffersFails, AfterSources, Crash, TypeOK
  <2>2. QED
    BY <1>5, <1>6, <2>1
<1>11. ASSUME NEW w \in Workers, ListSources(w)
       PROVE  Covers(posting', behind[s], task'[v][s])
  <2> DEFINE queued == [NoTask EXCEPT !.stage = "queued", !.known = jobSource[s],
                                      !.pending = behind[s]]
  <2>1. task'[v][s] \in {task[v][s], NoTask, queued}
    <3>1. CASE v # w
      BY <1>11, <3>1 DEF ListSources, TypeOK
    <3>2. CASE v = w
      BY <1>11, <3>2 DEF ListSources, TypeOK
    <3>3. QED
      BY <3>1, <3>2
  <2>2. queued.stage = "queued" /\ queued.pending = behind[s]
    BY DEF NoTask
  <2>3. Covers(posting', behind[s], queued)
    BY <2>2 DEF Covers
  <2>4. QED
    BY <1>5, <1>6, <2>1, <2>3
<1>12. QED
  BY <1>7, <1>8, <1>9, <1>10, <1>11 DEF CycleStep

\* The hash a source gets is one its rows already bear out.
LEMMA HashStep ==
    ASSUME TypeOK, TasksCover, HashMeansIngested, [Next]_vars, behind' = behind
    PROVE  HashMeansIngested'
<1> SUFFICES ASSUME NEW s \in Sources, jobSource'[s].hash # NoHash,
                    NEW c \in behind[s], NEW o \in jobSource'[s].hash
             PROVE  Stored(posting', c, o)
  BY DEF HashMeansIngested, Stored
<1>1. RowsRemain
  BY RowsStay
<1>2. c \in Companies
  BY DEF TypeOK
<1>3. CASE jobSource'[s].hash = jobSource[s].hash
  <2>1. Stored(posting, c, o) /\ o \in Offers
    BY <1>3 DEF HashMeansIngested, Stored, TypeOK, SourceStates, Hashes
  <2>2. QED
    BY <1>1, <1>2, <2>1 DEF RowsRemain
<1>4. ASSUME NEW w \in Workers, NEW r \in Sources, task[w][r].stage = "save",
             jobSource' = [jobSource EXCEPT ![r] = Updated(@, task[w][r])]
      PROVE  Stored(posting', c, o)
  <2>1. CASE s # r
    BY <1>3, <1>4, <2>1 DEF TypeOK
  <2>2. CASE s = r /\ task[w][r].outcome # "synced"
    <3>1. jobSource'[s] = Updated(jobSource[s], task[w][r])
      BY <1>4, <2>2 DEF TypeOK
    <3>2. jobSource[s] \in SourceStates
      BY DEF TypeOK
    <3>3. jobSource'[s].hash = jobSource[s].hash
      BY <2>2, <3>1, <3>2 DEF Updated, SourceStates
    <3>4. QED
      BY <1>3, <3>3
  <2>3. CASE s = r /\ task[w][r].outcome = "synced"
    <3>1. jobSource'[s] = Updated(jobSource[s], task[w][s])
      BY <1>4, <2>3 DEF TypeOK
    <3>2. jobSource[s] \in SourceStates /\ task[w][s] \in Tasks
      BY DEF TypeOK
    <3>3. jobSource'[s].hash = task[w][s].listing
      BY <2>3, <3>1, <3>2 DEF Updated, SourceStates
    <3>4. Stored(posting, c, o) /\ o \in Offers
      BY <1>4, <2>3, <3>2, <3>3 DEF TasksCover, Covers, Tasks
    <3>5. QED
      BY <1>1, <1>2, <3>4 DEF RowsRemain
  <2>4. QED
    BY <2>1, <2>2, <2>3
<1>5. ASSUME NEW w \in Workers, NEW r \in Sources, SourceStep(w, r)
      PROVE  Stored(posting', c, o)
  BY <1>3, <1>4, <1>5
  DEF SourceStep, SkipSource, StartSource, ReadLight, ReadFull, PostChunk,
      PostChunkFails, Reconcile, ReconcileFails, SaveState, SaveStateFails, database
<1>6. CASE Tick
  <2>1. jobSource[s] \in SourceStates /\ jobSource'[s] = Older(jobSource[s])
    BY <1>6 DEF Tick, TypeOK
  <2>2. jobSource'[s].hash = jobSource[s].hash
    BY <2>1 DEF Older, SourceStates
  <2>3. QED
    BY <1>3, <2>2
<1>7. ASSUME \/ WorldStep \/ UNCHANGED vars
             \/ \E w \in Workers : \/ \E mode \in Modes : StartCycle(w, mode)
                                   \/ CycleStep(w) \/ Crash(w)
      PROVE  Stored(posting', c, o)
  <2>1. jobSource' = jobSource
    BY <1>7 DEF WorldStep, Publish, Withdraw, Join, Leave, Lapse, StartCycle, CycleStep,
         ListSources, ListSourcesFails, ExpireDatedOffers, ExpireDatedOffersFails,
         NotifyNewOffers, NotifyNewOffersFails, Crash, vars, database
  <2>2. QED
    BY <1>3, <2>1
<1>8. QED
  BY <1>5, <1>6, <1>7 DEF Next

\* While batches succeed and no company joins a source, an equal hash means
\* nothing is missing: for any number of workers, through crashes, failed
\* reads, failed reconciles and lost state updates.
THEOREM HashSafe ==
    ASSUME "batch" \notin MayFail, Movers = {}
    PROVE  Spec => []HashMeansIngested
<1>1. Init => IngestInv
  <2> SUFFICES ASSUME Init PROVE IngestInv
    OBVIOUS
  <2>1. TasksCover
    BY DEF Init, TasksCover, Covers, NoTask
  <2>2. HashMeansIngested
    BY DEF Init, HashMeansIngested, NeverChecked
  <2>3. QED
    BY <2>1, <2>2, TypeInitial DEF IngestInv
<1>2. IngestInv /\ [Next]_vars => IngestInv'
  <2> SUFFICES ASSUME IngestInv, [Next]_vars PROVE IngestInv'
    OBVIOUS
  <2>1. CASE \E w \in Workers, s \in Sources : SourceStep(w, s)
    <3>1. TasksCover'
      BY <2>1, SourceKeepsCover DEF IngestInv
    <3>2. behind' = behind
      BY <2>1, SourceKeepsWorld DEF world
    <3>3. QED
      BY <3>1, <3>2, TypeInductive, HashStep DEF IngestInv
  <2>2. CASE ~\E w \in Workers, s \in Sources : SourceStep(w, s)
    <3>1. TasksCover' /\ behind' = behind
      BY <2>2, OthersKeepCover DEF IngestInv, Next
    <3>2. QED
      BY <3>1, TypeInductive, HashStep DEF IngestInv
  <2>3. QED
    BY <2>1, <2>2
<1>3. IngestInv => HashMeansIngested
  BY DEF IngestInv
<1>4. QED
  BY <1>1, <1>2, <1>3, PTL DEF Spec
-----------------------------------------------------------------------------
(***************************************************************************)
(* What was inserted is announced.                                         *)
(***************************************************************************)
\* A source is worked on in the phase of the cycle that works on sources.
StagedInSources ==
    \A w \in Workers, s \in Sources :
        task[w][s].stage \notin {"none", "done"} => InPhase(w, "sources")

\* A row nobody was told of is the charge of a cycle that remembers inserting
\* and has not notified yet.
InsertIsRemembered ==
    digestDue => \E w \in Workers :
        cycle[w].inserted /\ cycle[w].phase \in {"sources", "notify"}

AnnounceInv == TypeOK /\ StagedInSources /\ InsertIsRemembered

\* A step on a source moves a task that was under way, and leaves the cycles
\* and the digest alone unless it posts a chunk.
LEMMA SourceStepShape ==
    ASSUME "batch" \notin MayFail, NEW w, NEW s, SourceStep(w, s)
    PROVE  /\ task[w][s].stage \notin {"none", "done"}
           /\ \E t : Become(w, s, t)
           /\ PostChunk(w, s) \/ UNCHANGED <<cycle, digestDue>>
<1>1. CASE SkipSource(w, s) \/ StartSource(w, s)
  BY <1>1, SMTT(30) DEF SkipSource, StartSource, database
<1>2. CASE ReadLight(w, s) \/ ReadFull(w, s)
  <2>1. task[w][s].stage \in {"light", "full"}
    BY <1>2 DEF ReadLight, ReadFull
  <2>2. \E t : Become(w, s, t)
    BY <1>2 DEF ReadLight, ReadFull
  <2>3. QED
    BY <1>2, <2>1, <2>2 DEF ReadLight, ReadFull, database
<1>3. CASE PostChunk(w, s)
  BY <1>3 DEF PostChunk
<1>4. CASE PostChunkFails(w, s)
  BY <1>4 DEF PostChunkFails, Fault
<1>5. CASE Reconcile(w, s) \/ ReconcileFails(w, s)
  BY <1>5 DEF Reconcile, ReconcileFails
<1>6. CASE SaveState(w, s) \/ SaveStateFails(w, s)
  BY <1>6 DEF SaveState, SaveStateFails
<1>7. QED
  BY <1>1, <1>2, <1>3, <1>4, <1>5, <1>6 DEF SourceStep

\* A chunk with an unknown offer makes its own cycle remember the insert; any
\* other chunk changes nothing about it.
LEMMA SourceRemembers ==
    ASSUME AnnounceInv, "batch" \notin MayFail,
           NEW w \in Workers, NEW s \in Sources, SourceStep(w, s)
    PROVE  StagedInSources' /\ InsertIsRemembered'
<1>1. InPhase(w, "sources")
  BY SourceStepShape DEF AnnounceInv, StagedInSources
<1>2. /\ \A v \in Workers : cycle'[v].phase = cycle[v].phase
      /\ \A v \in Workers : cycle[v].inserted => cycle'[v].inserted
      /\ digestDue' => (digestDue \/ cycle'[w].inserted)
  <2>1. CASE PostChunk(w, s)
    <3>1. PICK new \in BOOLEAN :
            /\ digestDue' = (digestDue \/ new)
            /\ cycle' = [cycle EXCEPT ![w].inserted = @ \/ new]
      BY <2>1 DEF PostChunk
    <3>2. cycle \in [Workers -> Cycles]
      BY DEF AnnounceInv, TypeOK
    <3>3. QED
      BY <3>1, <3>2 DEF Cycles
  <2>2. CASE UNCHANGED <<cycle, digestDue>>
    BY <2>2
  <2>3. QED
    BY <2>1, <2>2, SourceStepShape
<1>3. StagedInSources'
  <2>1. PICK t : Become(w, s, t)
    BY SourceStepShape
  <2>2. task \in [Workers -> [Sources -> Tasks]]
    BY DEF AnnounceInv, TypeOK
  <2>3. \A v \in Workers, r \in Sources :
            <<v, r>> # <<w, s>> => task'[v][r] = task[v][r]
    BY <2>1, <2>2 DEF Become
  <2>4. QED
    BY <1>1, <1>2, <2>3 DEF AnnounceInv, StagedInSources, InPhase
<1>4. InsertIsRemembered'
  BY <1>1, <1>2 DEF AnnounceInv, InsertIsRemembered, InPhase
<1>5. QED
  BY <1>3, <1>4

\* Starting, listing, ending and announcing a cycle: one that remembers an
\* insert goes to its notification.
LEMMA CycleRemembers ==
    ASSUME AnnounceInv, "notify" \notin MayFail, NEW w \in Workers,
           (\E mode \in Modes : StartCycle(w, mode)) \/ CycleStep(w)
    PROVE  StagedInSources' /\ InsertIsRemembered'
<1> USE DEF AnnounceInv, InPhase
<1>1. cycle \in [Workers -> Cycles] /\ task \in [Workers -> [Sources -> Tasks]]
  BY DEF TypeOK
<1>2. \A v \in Workers \ {w} : cycle'[v] = cycle[v] /\ task'[v] = task[v]
  BY <1>1 DEF StartCycle, CycleStep, ListSources, ListSourcesFails, ExpireDatedOffers,
     ExpireDatedOffersFails, AfterSources, NotifyNewOffers, NotifyNewOffersFails, database
<1>3. ASSUME cycle'[w].phase = "sources"
             \/ \A s \in Sources : task'[w][s].stage \in {"none", "done"}
      PROVE  StagedInSources'
  BY <1>2, <1>3 DEF StagedInSources
<1>4. ASSUME digestDue' => digestDue,
             (cycle[w].inserted /\ cycle[w].phase \in {"sources", "notify"}) =>
                 \/ cycle'[w].inserted /\ cycle'[w].phase \in {"sources", "notify"}
                 \/ ~digestDue'
      PROVE  InsertIsRemembered'
  BY <1>2, <1>4 DEF InsertIsRemembered
<1>5. ASSUME NEW mode \in Modes, StartCycle(w, mode)
      PROVE  StagedInSources' /\ InsertIsRemembered'
  BY <1>1, <1>3, <1>4, <1>5 DEF StartCycle, StagedInSources, database
<1>6. CASE ListSources(w)
  <2>1. /\ cycle' = [cycle EXCEPT ![w].phase = "sources"]
        /\ digestDue' = digestDue
    BY <1>6 DEF ListSources, database
  <2>2. cycle'[w].phase = "sources" /\ cycle'[w].inserted = cycle[w].inserted
    BY <1>1, <2>1 DEF Cycles
  <2>3. QED
    BY <1>3, <1>4, <2>1, <2>2
<1>7. CASE ListSourcesFails(w)
  BY <1>1, <1>3, <1>4, <1>7 DEF ListSourcesFails, StagedInSources, database
<1>8. CASE ExpireDatedOffers(w) \/ ExpireDatedOffersFails(w)
  <2>1. AfterSources(w) /\ digestDue' = digestDue
    BY <1>8 DEF ExpireDatedOffers, ExpireDatedOffersFails
  <2>2. \A s \in Sources : task'[w][s].stage = "none"
    BY <1>1, <2>1 DEF AfterSources, NoTask
  <2>3. cycle[w].inserted => cycle'[w].inserted /\ cycle'[w].phase = "notify"
    BY <1>1, <2>1 DEF AfterSources, Cycles
  <2>4. QED
    BY <1>3, <1>4, <2>1, <2>2, <2>3
<1>9. CASE NotifyNewOffers(w)
  BY <1>1, <1>3, <1>4, <1>9 DEF NotifyNewOffers, StagedInSources
<1>10. CASE NotifyNewOffersFails(w)
  BY <1>10 DEF NotifyNewOffersFails, Fault
<1>11. QED
  BY <1>5, <1>6, <1>7, <1>8, <1>9, <1>10 DEF CycleStep

\* Boards, companies and the clock disturb neither.
LEMMA WorldRemembers ==
    ASSUME AnnounceInv, WorldStep \/ Tick \/ UNCHANGED vars
    PROVE  StagedInSources' /\ InsertIsRemembered'
<1>1. UNCHANGED <<cycle, digestDue>>
  BY DEF WorldStep, Publish, Withdraw, Join, Leave, Lapse, Tick, vars, database
<1>2. \A w \in Workers, s \in Sources : task'[w][s].stage = task[w][s].stage
  <2>1. CASE Tick
    BY <2>1 DEF Tick, AnnounceInv, TypeOK, Tasks
  <2>2. CASE WorldStep \/ UNCHANGED vars
    BY <2>2 DEF WorldStep, Publish, Withdraw, Join, Leave, Lapse, vars
  <2>3. QED
    BY <2>1, <2>2
<1>3. QED
  BY <1>1, <1>2 DEF AnnounceInv, StagedInSources, InsertIsRemembered, InPhase

\* While batches and notifications succeed and no worker crashes, no worker is
\* at rest with a row nobody was told of: for any number of workers, whichever
\* cycle inserts and whichever notifies first, through failed listings, reads,
\* reconciles, expiries and state updates.
THEOREM InsertsAnnounced ==
    ASSUME "batch" \notin MayFail, "notify" \notin MayFail, "crash" \notin MayFail
    PROVE  Spec => []InsertsAreAnnounced
<1>1. Init => AnnounceInv
  <2> SUFFICES ASSUME Init PROVE AnnounceInv
    OBVIOUS
  <2>1. StagedInSources /\ InsertIsRemembered
    BY DEF Init, StagedInSources, InsertIsRemembered, NoTask
  <2>2. QED
    BY <2>1, TypeInitial DEF AnnounceInv
<1>2. AnnounceInv /\ [Next]_vars => AnnounceInv'
  <2> SUFFICES ASSUME AnnounceInv, [Next]_vars PROVE StagedInSources' /\ InsertIsRemembered'
    BY TypeInductive DEF AnnounceInv
  <2>1. CASE WorldStep \/ Tick \/ UNCHANGED vars
    BY <2>1, WorldRemembers
  <2>2. ASSUME NEW w \in Workers, (\E mode \in Modes : StartCycle(w, mode)) \/ CycleStep(w)
        PROVE  StagedInSources' /\ InsertIsRemembered'
    BY <2>2, CycleRemembers
  <2>3. ASSUME NEW w \in Workers, NEW s \in Sources, SourceStep(w, s)
        PROVE  StagedInSources' /\ InsertIsRemembered'
    BY <2>3, SourceRemembers
  <2>4. ASSUME NEW w \in Workers, Crash(w)
        PROVE  FALSE
    BY <2>4 DEF Crash, Fault
  <2>5. QED
    BY <2>1, <2>2, <2>3, <2>4 DEF Next
<1>3. AnnounceInv => InsertsAreAnnounced
  BY DEF AnnounceInv, InsertIsRemembered, InsertsAreAnnounced, InPhase
<1>4. QED
  BY <1>1, <1>2, <1>3, PTL DEF Spec
-----------------------------------------------------------------------------
(***************************************************************************)
(* Between two reads the rows of a board are the listing its hash was      *)
(* taken of.                                                               *)
(*                                                                         *)
(* Inductive invariant: while a listing is being worked in, what is neither *)
(* left to post nor left to reconcile already mirrors it; before and after, *)
(* the rows mirror the stored hash.                                        *)
(***************************************************************************)
\* The row of an offer agrees with a listing of s that has it, or has it not.
Mirrored(row, s, listed) ==
    IF listed THEN row.status # "absent" /\ row # [status |-> "removed", source |-> s]
    ELSE row # [status |-> "open", source |-> s]

\* The companies cs have the rows of one listing of s.
MirrorsAll(rows, s, cs, listing) ==
    \A c \in cs, o \in Offers : Mirrored(rows[c][o], s, o \in listing)

\* The listing of a task is on its way into the rows, and not yet the hash.
Rewriting(t) ==
    \/ t.stage \in {"ingest", "reconcile"}
    \/ t.stage = "save" /\ t.outcome = "synced"

\* What the task has left to do is all that tells the rows from its listing.
Reached(rows, s, cs, t) ==
    \A c \in cs, o \in Offers :
        \/ c \in t.pending
        \/ c = t.company /\ (o \in t.todo \/ o \notin t.listing)
        \/ Mirrored(rows[c][o], s, o \in t.listing)

MirrorSource(rows, s, cs, hash, t) ==
    /\ ~t.partial
    /\ t.stage \in {"queued", "light", "full"} => cs \subseteq t.pending
    /\ t.stage = "reconcile" => t.todo = {}
    /\ t.stage = "save" => t.pending = {} /\ t.company = NoCompany
    /\ Rewriting(t) => Reached(rows, s, cs, t)
    /\ ~Rewriting(t) /\ hash # NoHash => MirrorsAll(rows, s, cs, hash)

TasksMirror ==
    \A w \in Workers, s \in Sources \ Capped :
        MirrorSource(posting, s, behind[s], jobSource[s].hash, task[w][s])

\* The invariant of RowsMirrorHash.
MirrorInv == TypeOK /\ StagedInSources /\ TasksMirror

\* A row of the source changes only by dating out or going over to another source.
Undisturbed(s) ==
    \A c \in Companies, o \in Offers :
        \/ posting'[c][o] = posting[c][o]
        \/ posting'[c][o].status # "absent" /\ posting'[c][o].source # s
        \/ posting'[c][o].status = "expired"

\* Such a change leaves the rows a mirror of what they were a mirror of.
LEMMA MirrorUndisturbed ==
    ASSUME NEW s, Undisturbed(s), NEW cs \in SUBSET Companies, NEW hash, NEW t,
           MirrorSource(posting, s, cs, hash, t)
    PROVE  MirrorSource(posting', s, cs, hash, t)
<1>1. ASSUME NEW c \in cs, NEW o \in Offers, NEW listed,
             Mirrored(posting[c][o], s, listed)
      PROVE  Mirrored(posting'[c][o], s, listed)
  <2>1. CASE posting'[c][o] = posting[c][o]
    BY <1>1, <2>1
  <2>2. CASE posting'[c][o].status # "absent" /\ posting'[c][o].source # s
    BY <2>2 DEF Mirrored
  <2>3. CASE posting'[c][o].status = "expired"
    BY <2>3 DEF Mirrored
  <2>4. QED
    BY <2>1, <2>2, <2>3 DEF Undisturbed
<1>2. Rewriting(t) => Reached(posting', s, cs, t)
  BY <1>1 DEF MirrorSource, Reached
<1>3. ~Rewriting(t) /\ hash # NoHash => MirrorsAll(posting', s, cs, hash)
  BY <1>1 DEF MirrorSource, MirrorsAll
<1>4. QED
  BY <1>2, <1>3 DEF MirrorSource

\* The parts of a task that only has its state left to save.
LEMMA SavingParts ==
    ASSUME NEW t, NEW outcome
    PROVE  LET u == Saving(t, outcome)
           IN  /\ u.stage = "save" /\ u.outcome = outcome /\ ~u.partial
               /\ u.pending = {} /\ u.todo = {} /\ u.company = NoCompany
               /\ outcome = "synced" => u.listing = t.listing
BY DEF Saving, NoTask

\* Going on to the next company leaves the last one a mirror of the listing.
LEMMA NextCompanyMirrors ==
    ASSUME NEW rows, NEW s, NEW cs, NEW hash, NEW t \in Tasks, ~t.partial,
           \A c \in cs, o \in Offers :
               c \in t.pending \/ Mirrored(rows[c][o], s, o \in t.listing),
           NEW u \in NextCompany(t)
    PROVE  MirrorSource(rows, s, cs, hash, u)
<1>1. CASE t.pending = {}
  <2>1. u = Saving(t, "synced")
    BY <1>1 DEF NextCompany
  <2>2. /\ u.stage = "save" /\ u.outcome = "synced" /\ ~u.partial
        /\ u.pending = {} /\ u.company = NoCompany /\ u.listing = t.listing
    BY <2>1, SavingParts
  <2>3. Reached(rows, s, cs, u)
    BY <1>1, <2>2 DEF Reached
  <2>4. QED
    BY <2>2, <2>3 DEF MirrorSource, Rewriting
<1>2. CASE t.pending # {}
  <2>1. PICK c \in t.pending : u = [t EXCEPT !.stage = "ingest", !.company = c,
                    !.pending = @ \ {c}, !.todo = t.listing]
    BY <1>2 DEF NextCompany
  <2>2. /\ u.stage = "ingest" /\ u.company = c /\ u.listing = t.listing
        /\ u.pending = t.pending \ {c} /\ u.todo = t.listing /\ ~u.partial
    BY <2>1 DEF Tasks
  <2>3. Reached(rows, s, cs, u)
    BY <2>2 DEF Reached
  <2>4. QED
    BY <2>2, <2>3 DEF MirrorSource, Rewriting
<1>3. QED
  BY <1>1, <1>2

\* A read that reaches every company of the source starts from rows that mirror
\* the hash, and leaves them so when it ends at once.
LEMMA DigestedMirrors ==
    ASSUME NEW rows, NEW s, NEW cs, NEW hash, NEW t \in Tasks, ~t.partial,
           cs \subseteq t.pending, hash # NoHash => MirrorsAll(rows, s, cs, hash),
           NEW failed, NEW u \in Digested(t, failed)
    PROVE  MirrorSource(rows, s, cs, hash, u)
<1>1. ASSUME NEW outcome \in {"failed", "empty", "unmodified"}
      PROVE  MirrorSource(rows, s, cs, hash, Saving(t, outcome))
  <2> DEFINE v == Saving(t, outcome)
  <2>1. /\ v.stage = "save" /\ v.outcome = outcome /\ ~v.partial
        /\ v.pending = {} /\ v.company = NoCompany
    BY SavingParts
  <2> HIDE DEF v
  <2>2. MirrorSource(rows, s, cs, hash, v)
    BY <2>1 DEF MirrorSource, Rewriting
  <2>3. QED
    BY <2>2 DEF v
<1>2. CASE u \in NextCompany(t)
  BY <1>2, NextCompanyMirrors
<1>3. QED
  BY <1>1, <1>2 DEF Digested

\* Once a chunk is stored, the offers left to post and those to reconcile are all
\* that tells the rows of the company from the listing.
LEMMA PostedMirrors ==
    ASSUME NEW rows, NEW s, NEW cs, NEW hash, NEW t \in Tasks, t.stage = "ingest",
           MirrorSource(rows, s, cs, hash, t), NEW chunk,
           t.company \in cs =>
               \A o \in chunk : Mirrored(rows[t.company][o], s, TRUE),
           NEW u \in Posted(t, chunk)
    PROVE  MirrorSource(rows, s, cs, hash, u)
<1>1. ~t.partial /\ Reached(rows, s, cs, t)
  BY DEF MirrorSource, Rewriting
<1>2. PICK stage \in {"ingest", "reconcile"}, left \in SUBSET Offers :
          /\ u = [t EXCEPT !.stage = stage, !.todo = left]
          /\ t.todo \subseteq chunk \union left
          /\ stage = "reconcile" => left = {}
  <2>1. CASE t.todo \subseteq chunk
    <3>1. u = [[t EXCEPT !.todo = {}] EXCEPT !.stage = "reconcile"]
      BY <1>1, <2>1 DEF Posted, AfterChunks, Tasks
    <3>2. u = [t EXCEPT !.stage = "reconcile", !.todo = {}]
      BY <3>1 DEF Tasks
    <3>3. QED
      BY <2>1, <3>2 DEF Tasks
  <2>2. CASE ~(t.todo \subseteq chunk)
    <3>1. u = [t EXCEPT !.todo = @ \ chunk]
      BY <2>2 DEF Posted
    <3>2. u = [t EXCEPT !.stage = "ingest", !.todo = t.todo \ chunk]
      BY <3>1 DEF Tasks
    <3>3. t.todo \ chunk \in SUBSET Offers
      BY DEF Tasks
    <3>4. QED
      BY <3>2, <3>3
  <2>3. QED
    BY <2>1, <2>2
<1>3. /\ u.stage = stage /\ u.listing = t.listing /\ u.company = t.company
      /\ u.pending = t.pending /\ u.todo = left /\ u.partial = t.partial
  BY <1>2 DEF Tasks
<1>4. Reached(rows, s, cs, u)
  <2> SUFFICES ASSUME NEW c \in cs, NEW o \in Offers, c \notin t.pending,
                      ~(c = t.company /\ (o \in left \/ o \notin t.listing))
               PROVE  Mirrored(rows[c][o], s, o \in t.listing)
    BY <1>3 DEF Reached
  <2>1. CASE c = t.company /\ o \in t.todo
    <3>1. o \in chunk /\ o \in t.listing
      BY <1>2, <2>1
    <3>2. Mirrored(rows[c][o], s, TRUE)
      BY <2>1, <3>1
    <3>3. QED
      BY <3>1, <3>2 DEF Mirrored
  <2>2. CASE ~(c = t.company /\ o \in t.todo)
    BY <1>1, <2>2 DEF Reached
  <2>3. QED
    BY <2>1, <2>2
<1>5. QED
  BY <1>1, <1>2, <1>3, <1>4 DEF MirrorSource, Rewriting

\* A step on a source, when its batches, reconciles and updates do not fail, is
\* one of these, and leaves the rows of every other source alone.
LEMMA SourceDisturbs ==
    ASSUME TypeOK, {"batch", "reconcile", "state"} \intersect MayFail = {},
           NEW w \in Workers, NEW s \in Sources, SourceStep(w, s),
           NEW r \in Sources \ {s}
    PROVE  Undisturbed(r)
<1>1. CASE posting' = posting
  BY <1>1 DEF Undisturbed
<1>2. CASE PostChunk(w, s)
  <2>1. PICK c, chunk : posting' = Ingested(c, s, chunk)
    BY <1>2 DEF PostChunk
  <2>2. \A d \in Companies, o \in Offers :
            posting'[d][o] \in {posting[d][o], [status |-> "open", source |-> s]}
    BY <2>1 DEF Ingested, TypeOK
  <2>3. QED
    BY <2>2 DEF Undisturbed
<1>3. CASE Reconcile(w, s)
  <2>1. PICK c, listing : posting' = Reconciled(c, s, listing)
    BY <1>3 DEF Reconcile
  <2>2. ASSUME NEW d \in Companies, NEW o \in Offers
        PROVE  \/ posting'[d][o] = posting[d][o]
               \/ posting'[d][o].status # "absent" /\ posting'[d][o].source # r
    <3>1. posting[d][o] \in Postings
      BY DEF TypeOK
    <3>2. \/ posting'[d][o] = posting[d][o]
          \/ /\ posting[d][o].source = s
             /\ posting'[d][o] = [posting[d][o] EXCEPT !.status = "removed"]
      BY <2>1 DEF Reconciled, TypeOK
    <3>3. QED
      BY <3>1, <3>2 DEF Postings
  <2>3. QED
    BY <2>2 DEF Undisturbed
<1>4. ~PostChunkFails(w, s) /\ ~ReconcileFails(w, s) /\ ~SaveStateFails(w, s)
  BY DEF PostChunkFails, ReconcileFails, SaveStateFails, Fault
<1>5. QED
  BY <1>1, <1>2, <1>3, <1>4
  DEF SourceStep, SkipSource, StartSource, ReadLight, ReadFull, SaveState, database

\* An answer of a board that fits in its adapter's pages is a whole listing.
LEMMA AnswerWhole ==
    ASSUME NEW s \in Sources \ Capped, NEW a \in GoodAnswers(s) \union BadAnswers(s)
    PROVE  a.partial = FALSE
BY DEF GoodAnswers, BadAnswers, Answer

\* A step on a source keeps its rows a mirror of the hash or of the listing that
\* is on its way to be one.
LEMMA SourceMirrors ==
    ASSUME {"batch", "reconcile", "state"} \intersect MayFail = {}, TypeOK, TasksMirror,
           NEW w \in Workers, NEW s \in Sources \ Capped, SourceStep(w, s)
    PROVE  \E u : /\ Become(w, s, u)
                  /\ MirrorSource(posting', s, behind[s], jobSource'[s].hash, u)
<1> DEFINE t == task[w][s]
           cs == behind[s]
           hash == jobSource[s].hash
<1>1. /\ t \in Tasks /\ MirrorSource(posting, s, cs, hash, t)
      /\ s \in Sources /\ cs \subseteq Companies /\ jobSource[s] \in SourceStates
  BY DEF TypeOK, TasksMirror
<1>2. ~PostChunkFails(w, s) /\ ~ReconcileFails(w, s) /\ ~SaveStateFails(w, s)
  BY DEF PostChunkFails, ReconcileFails, SaveStateFails, Fault
<1> DEFINE ended == [NoTask EXCEPT !.stage = "done"]
<1>3. ended.stage = "done" /\ ~ended.partial
  BY DEF NoTask
<1> HIDE DEF ended
<1>4. CASE SkipSource(w, s)
  <2>1. t.stage = "queued" /\ Become(w, s, ended) /\ UNCHANGED database
    BY <1>4 DEF SkipSource, ended
  <2>2. MirrorSource(posting, s, cs, hash, ended)
    BY <1>1, <1>3, <2>1 DEF MirrorSource, Rewriting
  <2>3. QED
    BY <2>1, <2>2 DEF database
<1>5. CASE SaveState(w, s)
  <2>1. /\ t.stage = "save" /\ Become(w, s, ended) /\ posting' = posting
        /\ jobSource' = [jobSource EXCEPT ![s] = Updated(@, t)]
    BY <1>5 DEF SaveState, ended
  <2>2. jobSource'[s] = Updated(jobSource[s], t)
    BY <2>1, <1>1 DEF TypeOK
  <2>3. jobSource'[s].hash = IF t.outcome = "synced" THEN t.listing ELSE hash
    BY <1>1, <2>2 DEF Updated, SourceStates
  <2>4. CASE t.outcome = "synced"
    <3>1. Reached(posting, s, cs, t) /\ t.pending = {} /\ t.company = NoCompany
      BY <1>1, <2>1, <2>4 DEF MirrorSource, Rewriting
    <3>2. NoCompany \notin cs
      BY <1>1, CrawlAssumption
    <3>3. MirrorsAll(posting, s, cs, t.listing)
      BY <3>1, <3>2 DEF Reached, MirrorsAll
    <3>4. MirrorSource(posting, s, cs, t.listing, ended)
      BY <1>3, <3>3 DEF MirrorSource, Rewriting
    <3>5. QED
      BY <2>1, <2>3, <2>4, <3>4
  <2>5. CASE t.outcome # "synced"
    <3>1. MirrorSource(posting, s, cs, hash, ended)
      BY <1>1, <1>3, <2>1, <2>5, SMTT(30) DEF MirrorSource, Rewriting
    <3>2. QED
      BY <2>1, <2>3, <2>5, <3>1
  <2>6. QED
    BY <2>4, <2>5
<1>6. ASSUME SkipSource(w, s) \/ StartSource(w, s) \/ ReadLight(w, s) \/ ReadFull(w, s)
      PROVE  UNCHANGED <<posting, jobSource>>
  BY <1>6 DEF SkipSource, StartSource, ReadLight, ReadFull, database
<1>7. CASE StartSource(w, s)
  <2> DEFINE u == [t EXCEPT !.stage = IF Plan(w, s).fastOnly THEN "light" ELSE "full",
                  !.previous = IF Plan(w, s).reconcile THEN NoHash ELSE t.known.hash,
                  !.known = NeverChecked]
  <2>1. t.stage = "queued" /\ Become(w, s, u)
    BY <1>7 DEF StartSource
  <2>2. u.stage \in {"light", "full"} /\ u.pending = t.pending /\ u.partial = t.partial
    BY <1>1 DEF Tasks
  <2> HIDE DEF u
  <2>3. MirrorSource(posting, s, cs, hash, u)
    BY <1>1, <2>1, <2>2 DEF MirrorSource, Rewriting
  <2>4. QED
    BY <1>6, <1>7, <2>1, <2>3
<1>8. ASSUME t.stage \in {"light", "full"}
      PROVE  /\ ~t.partial /\ cs \subseteq t.pending
             /\ hash # NoHash => MirrorsAll(posting, s, cs, hash)
  BY <1>1, <1>8 DEF MirrorSource, Rewriting
<1>9. CASE ReadLight(w, s)
  <2>1. PICK a \in GoodAnswers(s) \union BadAnswers(s) :
            LET read == [t EXCEPT !.listing = a.jobs, !.partial = a.partial]
            IN  \E u \in IF a.jobs = {} \/ a.jobs = read.previous
                         THEN Digested(read, a.failed)
                         ELSE {[read EXCEPT !.stage = "full"]} : Become(w, s, u)
    BY <1>9 DEF ReadLight
  <2> DEFINE read == [t EXCEPT !.listing = a.jobs, !.partial = a.partial]
             longer == [read EXCEPT !.stage = "full"]
  <2>2. a.jobs \in SUBSET Offers /\ a.partial = FALSE /\ t.stage = "light"
    BY <1>9, AnswerType, AnswerWhole DEF ReadLight
  <2>3. /\ read \in Tasks /\ read.pending = t.pending /\ ~read.partial
        /\ longer.stage = "full" /\ longer.pending = t.pending /\ ~longer.partial
    BY <1>1, <2>2 DEF Tasks
  <2>4. PICK u : u \in Digested(read, a.failed) \union {longer} /\ Become(w, s, u)
    BY <2>1
  <2> HIDE DEF read, longer
  <2>5. MirrorSource(posting, s, cs, hash, longer)
    BY <1>8, <2>2, <2>3 DEF MirrorSource, Rewriting
  <2>6. MirrorSource(posting, s, cs, hash, u)
    BY <1>8, <2>2, <2>3, <2>4, <2>5, DigestedMirrors
  <2>7. QED
    BY <1>6, <1>9, <2>4, <2>6
<1>10. CASE ReadFull(w, s)
  <2>1. PICK a \in GoodAnswers(s) \union BadAnswers(s) :
            LET read == [t EXCEPT !.listing = IF a.jobs = {} THEN @ ELSE a.jobs,
                                  !.partial = @ \/ a.partial]
            IN  \E u \in Digested(read, a.failed) : Become(w, s, u)
    BY <1>10 DEF ReadFull
  <2> DEFINE read == [t EXCEPT !.listing = IF a.jobs = {} THEN @ ELSE a.jobs,
                               !.partial = @ \/ a.partial]
  <2>2. a.jobs \in SUBSET Offers /\ a.partial = FALSE /\ t.stage = "full"
    BY <1>10, AnswerType, AnswerWhole DEF ReadFull
  <2>3. read \in Tasks /\ read.pending = t.pending /\ ~read.partial
    BY <1>1, <1>8, <2>2 DEF Tasks
  <2>4. PICK u \in Digested(read, a.failed) : Become(w, s, u)
    BY <2>1
  <2> HIDE DEF read
  <2>5. MirrorSource(posting, s, cs, hash, u)
    BY <1>8, <2>2, <2>3, <2>4, DigestedMirrors
  <2>6. QED
    BY <1>6, <1>10, <2>4, <2>5
<1>11. CASE PostChunk(w, s)
  <2>1. PICK chunk \in Chunks(t.todo) :
            /\ posting' = Ingested(t.company, s, chunk)
            /\ \E u \in Posted(t, chunk) : Become(w, s, u)
    BY <1>11 DEF PostChunk
  <2>2. PICK u \in Posted(t, chunk) : Become(w, s, u)
    BY <2>1
  <2>3. t.stage = "ingest" /\ jobSource' = jobSource
    BY <1>11 DEF PostChunk
  <2>4. chunk \subseteq t.todo /\ chunk \subseteq Offers
    BY <1>1, <2>1 DEF Chunks, Tasks
  <2>5. \A c \in cs, o \in Offers :
            posting'[c][o] = IF c = t.company /\ o \in chunk
                             THEN [status |-> "open", source |-> s] ELSE posting[c][o]
    BY <1>1, <2>1 DEF Ingested, TypeOK
  <2>6. t.company \in cs => \A o \in chunk : Mirrored(posting'[t.company][o], s, TRUE)
    BY <2>4, <2>5 DEF Mirrored
  <2>7. MirrorSource(posting', s, cs, hash, t)
    <3>1. Reached(posting, s, cs, t)
      BY <1>1, <2>3 DEF MirrorSource, Rewriting
    <3>2. Reached(posting', s, cs, t)
      BY <2>4, <2>5, <3>1 DEF Reached
    <3>3. QED
      BY <1>1, <2>3, <3>2 DEF MirrorSource, Rewriting
  <2> HIDE DEF t
  <2>8. MirrorSource(posting', s, cs, hash, u)
    BY <1>1, <2>2, <2>3, <2>6, <2>7, PostedMirrors
  <2>9. QED
    BY <2>2, <2>3, <2>8
<1>12. CASE Reconcile(w, s)
  <2>1. /\ t.stage = "reconcile" /\ posting' = Reconciled(t.company, s, t.listing)
        /\ jobSource' = jobSource
    BY <1>12 DEF Reconcile
  <2>2. PICK u \in NextCompany(t) : Become(w, s, u)
    BY <1>12 DEF Reconcile
  <2>3. ~t.partial /\ t.todo = {} /\ Reached(posting, s, cs, t)
    BY <1>1, <2>1 DEF MirrorSource, Rewriting
  <2>4. ASSUME NEW c \in cs, NEW o \in Offers, c \notin t.pending
        PROVE  Mirrored(posting'[c][o], s, o \in t.listing)
    <3>1. posting[c][o] \in Postings
      BY <1>1 DEF TypeOK
    <3>2. posting'[c][o] =
             IF c = t.company /\ posting[c][o].status = "open"
                /\ posting[c][o].source = s /\ o \notin t.listing
             THEN [posting[c][o] EXCEPT !.status = "removed"] ELSE posting[c][o]
      BY <1>1, <2>1 DEF Reconciled, TypeOK
    <3>3. CASE c = t.company /\ o \notin t.listing
      BY <3>1, <3>2, <3>3 DEF Mirrored, Postings
    <3>4. CASE ~(c = t.company /\ o \notin t.listing)
      <4>1. posting'[c][o] = posting[c][o]
        BY <3>2, <3>4
      <4>2. Mirrored(posting[c][o], s, o \in t.listing)
        BY <2>3, <2>4, <3>4 DEF Reached
      <4>3. QED
        BY <4>1, <4>2
    <3>5. QED
      BY <3>3, <3>4
  <2> HIDE DEF t
  <2>5. MirrorSource(posting', s, cs, hash, u)
    BY <1>1, <2>2, <2>3, <2>4, NextCompanyMirrors
  <2>6. QED
    BY <2>1, <2>2, <2>5
<1>13. QED
  BY <1>2, <1>4, <1>5, <1>7, <1>9, <1>10, <1>11, <1>12 DEF SourceStep

\* Sources are worked on in their phase, whichever call fails.
LEMMA StagedStep ==
    ASSUME {"batch", "crash"} \intersect MayFail = {}, TypeOK, StagedInSources, [Next]_vars
    PROVE  StagedInSources'
<1>1. cycle \in [Workers -> Cycles] /\ task \in [Workers -> [Sources -> Tasks]]
  BY DEF TypeOK
<1>2. ASSUME NEW w \in Workers, NEW s \in Sources, SourceStep(w, s)
      PROVE  StagedInSources'
  <2>1. InPhase(w, "sources")
    BY <1>2, SourceStepShape DEF StagedInSources
  <2>2. PICK t : Become(w, s, t)
    BY <1>2, SourceStepShape
  <2>3. \A v \in Workers : cycle'[v].phase = cycle[v].phase
    <3>1. CASE PostChunk(w, s)
      <4>1. PICK new \in BOOLEAN : cycle' = [cycle EXCEPT ![w].inserted = @ \/ new]
        BY <3>1 DEF PostChunk
      <4>2. QED
        BY <1>1, <4>1 DEF Cycles
    <3>2. QED
      BY <1>2, <3>1, SourceStepShape
  <2>4. \A v \in Workers, r \in Sources :
            <<v, r>> # <<w, s>> => task'[v][r] = task[v][r]
    BY <1>1, <2>2 DEF Become
  <2>5. QED
    BY <2>1, <2>3, <2>4 DEF StagedInSources, InPhase
<1>3. ASSUME NEW w \in Workers, (\E mode \in Modes : StartCycle(w, mode)) \/ CycleStep(w)
      PROVE  StagedInSources'
  <2>1. \A v \in Workers \ {w} : cycle'[v] = cycle[v] /\ task'[v] = task[v]
    BY <1>1, <1>3 DEF StartCycle, CycleStep, ListSources, ListSourcesFails,
       ExpireDatedOffers, ExpireDatedOffersFails, AfterSources, NotifyNewOffers,
       NotifyNewOffersFails, database
  <2>2. SUFFICES cycle'[w].phase = "sources"
                 \/ \A s \in Sources : task'[w][s].stage \in {"none", "done"}
    BY <2>1 DEF StagedInSources, InPhase
  <2>3. CASE ListSources(w)
    BY <1>1, <2>3 DEF ListSources, Cycles
  <2>4. CASE ExpireDatedOffers(w) \/ ExpireDatedOffersFails(w)
    BY <1>1, <2>4 DEF ExpireDatedOffers, ExpireDatedOffersFails, AfterSources, NoTask
  <2>5. CASE \/ \E mode \in Modes : StartCycle(w, mode)
             \/ ListSourcesFails(w) \/ NotifyNewOffers(w) \/ NotifyNewOffersFails(w)
    <3>1. task' = task /\ cycle[w].phase # "sources"
      BY <2>5 DEF StartCycle, ListSourcesFails, NotifyNewOffers, NotifyNewOffersFails,
                  InPhase
    <3>2. QED
      BY <3>1 DEF StagedInSources, InPhase
  <2>6. QED
    BY <1>3, <2>3, <2>4, <2>5 DEF CycleStep
<1>4. CASE WorldStep \/ Tick \/ UNCHANGED vars
  <2>1. cycle' = cycle
    BY <1>4 DEF WorldStep, Publish, Withdraw, Join, Leave, Lapse, Tick, vars
  <2>2. \A w \in Workers, s \in Sources : task'[w][s].stage = task[w][s].stage
    <3>1. CASE Tick
      BY <3>1 DEF Tick, TypeOK, Tasks
    <3>2. CASE WorldStep \/ UNCHANGED vars
      BY <3>2 DEF WorldStep, Publish, Withdraw, Join, Leave, Lapse, vars
    <3>3. QED
      BY <1>4, <3>1, <3>2
  <2>3. QED
    BY <2>1, <2>2 DEF StagedInSources, InPhase
<1>5. \A w \in Workers : ~Crash(w)
  BY DEF Crash, Fault
<1>6. QED
  BY <1>2, <1>3, <1>4, <1>5 DEF Next

\* The steps of the world, the clock and the cycles keep the mirrors: rows only
\* date out, and a task begins and ends with the rows a mirror of the hash.
LEMMA OthersMirror ==
    ASSUME Movers = {}, "crash" \notin MayFail, TypeOK, StagedInSources, TasksMirror,
           \/ WorldStep \/ Tick \/ UNCHANGED vars
           \/ \E w \in Workers : \/ \E mode \in Modes : StartCycle(w, mode)
                                 \/ CycleStep(w) \/ Crash(w)
    PROVE  TasksMirror'
<1> SUFFICES ASSUME NEW v \in Workers, NEW s \in Sources \ Capped
             PROVE  MirrorSource(posting', s, behind'[s], jobSource'[s].hash, task'[v][s])
  BY DEF TasksMirror
<1> DEFINE t == task[v][s]
           cs == behind[s]
           hash == jobSource[s].hash
<1>1. /\ t \in Tasks /\ MirrorSource(posting, s, cs, hash, t)
      /\ cs \in SUBSET Companies /\ jobSource[s] \in SourceStates
  BY DEF TypeOK, TasksMirror
<1>2. behind' = behind
  BY DEF WorldStep, Publish, Withdraw, Join, Leave, Lapse, Tick, StartCycle, CycleStep,
         ListSources, ListSourcesFails, ExpireDatedOffers, ExpireDatedOffersFails,
         NotifyNewOffers, NotifyNewOffersFails, Crash, vars, world
<1>3. ASSUME t.stage \in {"none", "done"}, NEW u,
             ~u.partial, u.stage = "none" \/ (u.stage = "queued" /\ u.pending = cs)
      PROVE  MirrorSource(posting, s, cs, hash, u)
  BY <1>1, <1>3 DEF MirrorSource, Rewriting
<1>4. CASE WorldStep \/ UNCHANGED vars
  BY <1>1, <1>2, <1>4 DEF WorldStep, Publish, Withdraw, Join, Leave, Lapse, vars, database
<1>5. CASE Tick
  <2>1. jobSource'[s].hash = hash
    BY <1>1, <1>5 DEF Tick, Older, SourceStates
  <2>2. task'[v][s] \in {t, [t EXCEPT !.known = Older(@)]}
    BY <1>5 DEF Tick
  <2>3. /\ task'[v][s].stage = t.stage /\ task'[v][s].outcome = t.outcome
        /\ task'[v][s].pending = t.pending /\ task'[v][s].listing = t.listing
        /\ task'[v][s].company = t.company /\ task'[v][s].todo = t.todo
        /\ task'[v][s].partial = t.partial
    BY <1>1, <2>2 DEF Tasks
  <2>4. MirrorSource(posting, s, cs, hash, task'[v][s])
    BY <1>1, <2>3 DEF MirrorSource, Rewriting, Reached
  <2>5. QED
    BY <1>2, <1>5, <2>1, <2>4 DEF Tick
<1>6. ASSUME NEW w \in Workers,
             (\E mode \in Modes : StartCycle(w, mode)) \/ NotifyNewOffers(w)
             \/ NotifyNewOffersFails(w) \/ ListSourcesFails(w)
      PROVE  UNCHANGED <<posting, jobSource, task>>
  BY <1>6 DEF StartCycle, NotifyNewOffers, NotifyNewOffersFails, ListSourcesFails, database
<1>7. ASSUME NEW w \in Workers, ListSources(w)
      PROVE  MirrorSource(posting', s, cs, jobSource'[s].hash, task'[v][s])
  <2> DEFINE queued == [NoTask EXCEPT !.stage = "queued", !.known = jobSource[s],
                                      !.pending = behind[s]]
  <2>1. UNCHANGED <<posting, jobSource>>
    BY <1>7 DEF ListSources, database
  <2>2. CASE v # w
    <3>1. task'[v][s] = t
      BY <1>7, <2>2 DEF ListSources, TypeOK
    <3>2. QED
      BY <1>1, <2>1, <3>1
  <2>3. CASE v = w
    <3>1. t.stage \in {"none", "done"}
      BY <1>7, <2>3 DEF ListSources, StagedInSources, InPhase
    <3>2. task'[v][s] \in {NoTask, queued}
      BY <1>7, <2>3 DEF ListSources, TypeOK
    <3>3. /\ queued.stage = "queued" /\ queued.pending = cs /\ ~queued.partial
          /\ NoTask.stage = "none" /\ ~NoTask.partial
      BY DEF NoTask
    <3> HIDE DEF queued
    <3>4. MirrorSource(posting, s, cs, hash, task'[v][s])
      BY <1>3, <3>1, <3>2, <3>3
    <3>5. QED
      BY <2>1, <3>4
  <2>4. QED
    BY <2>2, <2>3
<1>8. ASSUME NEW w \in Workers, ExpireDatedOffers(w) \/ ExpireDatedOffersFails(w)
      PROVE  MirrorSource(posting', s, cs, jobSource'[s].hash, task'[v][s])
  <2>1. /\ jobSource' = jobSource /\ posting' \in {posting, Expired}
        /\ AllSourcesDone(w) /\ AfterSources(w)
    BY <1>8 DEF ExpireDatedOffers, ExpireDatedOffersFails
  <2>2. Undisturbed(s)
    <3> SUFFICES ASSUME NEW c \in Companies, NEW o \in Offers
                 PROVE  \/ posting'[c][o] = posting[c][o]
                        \/ posting'[c][o].status = "expired"
      BY DEF Undisturbed
    <3>1. posting[c][o] \in Postings
      BY DEF TypeOK
    <3>2. posting'[c][o] \in {posting[c][o], [posting[c][o] EXCEPT !.status = "expired"]}
      BY <2>1 DEF Expired
    <3>3. QED
      BY <3>1, <3>2 DEF Postings
  <2>3. MirrorSource(posting, s, cs, hash, task'[v][s])
    <3>1. CASE v # w
      BY <1>1, <2>1, <3>1 DEF AfterSources, TypeOK
    <3>2. CASE v = w
      <4>1. task'[v][s] = NoTask /\ t.stage \in {"none", "done"}
        BY <2>1, <3>2 DEF AfterSources, AllSourcesDone, TypeOK
      <4>2. NoTask.stage = "none" /\ ~NoTask.partial
        BY DEF NoTask
      <4>3. QED
        BY <1>3, <4>1, <4>2
    <3>3. QED
      BY <3>1, <3>2
  <2>4. MirrorSource(posting', s, cs, hash, task'[v][s])
    BY <1>1, <2>2, <2>3, MirrorUndisturbed
  <2>5. QED
    BY <2>1, <2>4
<1>9. \A w \in Workers : ~Crash(w)
  BY DEF Crash, Fault
<1>10. QED
  BY <1>1, <1>2, <1>4, <1>5, <1>6, <1>7, <1>8, <1>9 DEF CycleStep

\* With one worker, whose batches, reconciles and state updates succeed and who
\* does not crash, the rows of every board that fits in its adapter's pages are,
\* whenever the board is not being worked on, the listing the hash was taken of:
\* for any number of boards read at once and of companies behind them, none of
\* which changes its careers URL; failed reads, listings, expiries and
\* notifications are included.
THEOREM MirrorKept ==
    ASSUME NEW worker, Workers = {worker}, Movers = {},
           {"batch", "reconcile", "state", "crash"} \intersect MayFail = {}
    PROVE  Spec => []RowsMirrorHash
<1>1. Init => MirrorInv
  <2> SUFFICES ASSUME Init PROVE MirrorInv
    OBVIOUS
  <2>1. StagedInSources /\ TasksMirror
    BY DEF Init, StagedInSources, TasksMirror, MirrorSource, Rewriting, NoTask, NeverChecked
  <2>2. QED
    BY <2>1, TypeInitial DEF MirrorInv
<1>2. MirrorInv /\ [Next]_vars => MirrorInv'
  <2> SUFFICES ASSUME MirrorInv, [Next]_vars PROVE TasksMirror'
    BY TypeInductive, StagedStep DEF MirrorInv
  <2>1. CASE \E w \in Workers, s \in Sources : SourceStep(w, s)
    <3>1. PICK s \in Sources : SourceStep(worker, s)
      BY <2>1
    <3>2. behind' = behind
      BY <3>1, SourceKeepsWorld DEF world
    <3> SUFFICES ASSUME NEW r \in Sources \ Capped
                 PROVE  MirrorSource(posting', r, behind[r], jobSource'[r].hash,
                                     task'[worker][r])
      BY <3>2 DEF TasksMirror
    <3>3. CASE r = s
      <4>1. PICK u : /\ Become(worker, s, u)
                     /\ MirrorSource(posting', s, behind[s], jobSource'[s].hash, u)
        BY <3>1, <3>3, SourceMirrors DEF MirrorInv
      <4>2. task'[worker][s] = u
        BY <4>1 DEF Become, MirrorInv, TypeOK
      <4>3. QED
        BY <3>3, <4>1, <4>2
    <3>4. CASE r # s
      <4>1. Undisturbed(r)
        BY <3>1, <3>4, SourceDisturbs DEF MirrorInv
      <4>2. PICK u : Become(worker, s, u)
        BY <3>1, SourceStepShape
      <4>3. task'[worker][r] = task[worker][r]
        BY <3>4, <4>2, SMTT(30) DEF Become, MirrorInv, TypeOK
      <4>4. jobSource'[r] = jobSource[r]
        BY <3>1, <3>4 DEF SourceStep, SkipSource, StartSource, ReadLight, ReadFull,
           PostChunk, PostChunkFails, Reconcile, ReconcileFails, SaveState,
           SaveStateFails, database, MirrorInv, TypeOK
      <4>5. /\ MirrorSource(posting, r, behind[r], jobSource[r].hash, task[worker][r])
            /\ behind[r] \in SUBSET Companies
        BY DEF MirrorInv, TasksMirror, TypeOK
      <4>6. QED
        BY <4>1, <4>3, <4>4, <4>5, MirrorUndisturbed
    <3>5. QED
      BY <3>3, <3>4
  <2>2. CASE ~\E w \in Workers, s \in Sources : SourceStep(w, s)
    BY <2>2, OthersMirror DEF MirrorInv, Next
  <2>3. QED
    BY <2>1, <2>2
<1>3. MirrorInv => RowsMirrorHash
  <2> SUFFICES ASSUME MirrorInv, NEW s \in Sources \ Capped, jobSource[s].hash # NoHash,
                      s \notin Working(worker), NEW c \in behind[s], NEW o \in Offers
               PROVE  Mirrored(posting[c][o], s, o \in jobSource[s].hash)
    BY DEF RowsMirrorHash, Mirrored
  <2>1. ~Rewriting(task[worker][s])
    BY DEF Working, Rewriting
  <2>2. MirrorsAll(posting, s, behind[s], jobSource[s].hash)
    BY <2>1 DEF MirrorInv, TasksMirror, MirrorSource
  <2>3. QED
    BY <2>2 DEF MirrorsAll
<1>4. QED
  BY <1>1, <1>2, <1>3, PTL DEF Spec
=============================================================================
