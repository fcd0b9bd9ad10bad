--------------------------- MODULE Tracking_proofs ---------------------------
(***************************************************************************)
(* What holds of one user's applications, interactions and journal for any *)
(* number of sessions, applications and requests.                          *)
(***************************************************************************)
EXTENDS Tracking, FiniteSetTheorems, TLAPS

Busy(s) == ~AtStep(s, "idle")

\* What a request knows at each of its steps.
Shaped(r) ==
    /\ r.step = "idle" => r.app = 0 /\ r.op = "move" /\ r.text = 0
    /\ r.step = "company" => r.op = "create" /\ r.app = 0
    /\ r.step = "row" => r.op \in {"create", "track"} /\ r.app = 0
    /\ r.step = "created" => r.op \in {"create", "track"} /\ r.app # 0
    /\ r.step \in {"file", "write"} => r.op \in {"move", "edit"} /\ r.app # 0
    /\ r.step = "stamp" => r.op # "track" /\ r.app # 0 /\ r.event = "sent"
    /\ r.step \in {"exists", "capture"} => r.app # 0 /\ r.event = "sent"
    /\ r.step = "event" => r.app # 0 /\ r.event # "none"
    /\ r.step \in {"read-link", "save-link"} =>
          r.op \in AboutOffer /\ (r.op = "track" => r.app # 0)
    /\ r.step = "note" => r.op \in {"mark", "save"} /\ (r.op = "mark" => r.mark # "APPLIED")
    /\ r.step = "remove" => r.app # 0
    /\ r.step = "delete" => r.op \in {"remove-company", "remove-file"}
    /\ r.step = "delete-company" => r.op = "remove-company"
    /\ r.op \in {"remove-company", "remove-file", "mark", "save"} => r.app = 0
    /\ r.op = "mark" => r.mark # "APPLIED"
    /\ r.op \in {"create", "track"} => r.to \in {"WISHLIST", "APPLIED"}
    /\ r.op = "create" => r.from = "WISHLIST"
    /\ r.op = "track" => r.step \in {"row", "read-link", "save-link", "created",
                                     "exists", "capture", "event"}
    /\ r.text # 0 => r.step = "event" /\ r.event = "sent"

Shapes == \A s \in Sessions : Shaped(request[s])

Types == TypeOK /\ Shapes
-----------------------------------------------------------------------------
(***************************************************************************)
(* Type correctness.                                                       *)
(***************************************************************************)
\* A request that is answered, and one at rest, are well typed.
LEMMA IdleType == Idle \in Requests /\ Shaped(Idle)
BY TrackingAssumption DEF Idle, Requests, Ops, Steps, Statuses, Shaped, AboutOffer

\* What is left to do after a change of status.
LEMMA ChangeType ==
    ASSUME NEW r \in Requests, Shaped(r), r.app # 0, r.step \in {"created", "write"}
    PROVE  Change(r) \in Requests /\ Shaped(Change(r))
<1>1. EventFor[r.to] \in {"none", "sent", "interview", "offer"}
      /\ (EventFor[r.to] = "sent" <=> r.to = "APPLIED")
  BY DEF EventFor, Requests, Statuses
<1>2. CASE Change(r) = Idle
  BY <1>2, IdleType
<1>3. CASE r.op = "track" /\ r.to = "APPLIED"
  BY <1>3 DEF Change, Requests, Steps, Shaped, AboutOffer
<1>4. CASE r.op # "track" /\ r.from # r.to /\ EventFor[r.to] # "none"
  <2>1. Change(r) = [r EXCEPT !.event = EventFor[r.to],
                              !.step = IF r.to = "APPLIED" THEN "stamp" ELSE "event"]
    BY <1>4 DEF Change
  <2>2. Change(r) \in Requests
    BY <1>1, <2>1 DEF Requests, Steps
  <2>3. Shaped(Change(r))
    BY <1>1, <1>4, <2>1 DEF Requests, Shaped
  <2>4. QED
    BY <2>2, <2>3
<1>5. QED
  BY <1>2, <1>3, <1>4 DEF Change

\* A request that arrives knows what its first step needs.
LEMMA ArriveType ==
    ASSUME Types, NEW s \in Sessions, Arrive(s)
    PROVE  \E r \in Requests : Shaped(r) /\ Begin(s, r)
<1> USE DEF Types
<1>1. MaxApps \in Nat /\ MaxTexts \in Nat /\ \A a \in AppIds : a \in 0 .. MaxApps /\ a # 0
  BY TrackingAssumption DEF AppIds
<1>2. Idle \in Requests /\ Idle.app = 0 /\ Idle.text = 0 /\ Idle.step = "idle"
      /\ Idle.event = "none" /\ Idle.mark = "SEEN" /\ Idle.from = "WISHLIST"
  BY IdleType DEF Idle
<1>3. ASSUME NEW to \in {"WISHLIST", "APPLIED"}, NEW dated \in BOOLEAN, BeginCreate(s, to, dated)
      PROVE  \E r \in Requests : Shaped(r) /\ Begin(s, r)
  <2> DEFINE r == [Idle EXCEPT !.op = "create", !.to = to, !.flag = dated,
                               !.step = IF company THEN "row" ELSE "company"]
  <2>1. r \in Requests
    BY <1>2 DEF Requests, Ops, Steps, Statuses
  <2>2. Shaped(r)
    BY <1>2 DEF Requests, Shaped, AboutOffer
  <2>3. QED
    BY <1>3, <2>1, <2>2 DEF BeginCreate
<1>4. ASSUME NEW to \in {"WISHLIST", "APPLIED"}, BeginTrack(s, to)
      PROVE  \E r \in Requests : Shaped(r) /\ Begin(s, r)
  <2> DEFINE m == CASE to = "APPLIED" -> "APPLIED"
                    [] to # "APPLIED" /\ link = NoRow -> "SEEN"
                    [] OTHER -> link.status
             r == [Idle EXCEPT !.op = "track", !.to = to, !.step = "row", !.mark = m]
  <2>1. m \in {"SEEN", "DISMISSED", "APPLIED"}
    BY DEF TypeOK, Links
  <2> HIDE DEF m
  <2>2. r \in Requests
    BY <1>2, <2>1 DEF Requests, Ops, Steps, Statuses
  <2>3. Shaped(r)
    BY <1>2 DEF Requests, Shaped, AboutOffer
  <2>4. QED
    BY <1>4, <2>2, <2>3 DEF BeginTrack, m
<1>5. ASSUME NEW a \in AppIds, NEW op \in {"move", "edit"}, NEW to \in Statuses, NEW cv \in BOOLEAN,
             BeginChange(s, op, a, to, cv)
      PROVE  \E r \in Requests : Shaped(r) /\ Begin(s, r)
  <2> DEFINE r == [Idle EXCEPT !.op = op, !.app = a, !.to = to, !.from = apps[a].status,
                               !.flag = cv, !.step = IF cv THEN "file" ELSE "write"]
  <2>1. apps[a].status \in Statuses
    BY <1>5 DEF BeginChange, Live, TypeOK, Apps
  <2>2. r \in Requests
    BY <1>1, <1>2, <2>1 DEF Requests, Ops, Steps
  <2>3. Shaped(r)
    BY <1>1, <1>2 DEF Requests, Shaped, AboutOffer
  <2>4. QED
    BY <1>5, <2>2, <2>3 DEF BeginChange
<1>6. ASSUME NEW a \in AppIds, NEW type \in {"offer", "follow-up"}, BeginRecord(s, a, type)
      PROVE  \E r \in Requests : Shaped(r) /\ Begin(s, r)
  <2> DEFINE r == [Idle EXCEPT !.op = "record", !.app = a, !.event = type, !.step = "event"]
  <2>1. r \in Requests
    BY <1>1, <1>2 DEF Requests, Ops, Steps
  <2>2. Shaped(r)
    BY <1>1, <1>2 DEF Requests, Shaped, AboutOffer
  <2>3. QED
    BY <1>6, <2>1, <2>2 DEF BeginRecord
<1>7. ASSUME NEW a \in AppIds, BeginRemove(s, a)
      PROVE  \E r \in Requests : Shaped(r) /\ Begin(s, r)
  <2> DEFINE r == [Idle EXCEPT !.op = "remove", !.app = a, !.step = "remove"]
  <2>1. r \in Requests
    BY <1>1, <1>2 DEF Requests, Ops, Steps
  <2>2. Shaped(r)
    BY <1>1, <1>2 DEF Requests, Shaped, AboutOffer
  <2>3. QED
    BY <1>7, <2>1, <2>2 DEF BeginRemove
<1>8. ASSUME NEW status \in {"SEEN", "DISMISSED"}, BeginMark(s, status)
      PROVE  \E r \in Requests : Shaped(r) /\ Begin(s, r)
  <2> DEFINE r == [Idle EXCEPT !.op = "mark", !.mark = status, !.step = "read-link"]
  <2>1. r \in Requests
    BY <1>2 DEF Requests, Ops, Steps
  <2>2. Shaped(r)
    BY <1>2 DEF Requests, Shaped, AboutOffer
  <2>3. QED
    BY <1>8, <2>1, <2>2 DEF BeginMark
<1>9. ASSUME NEW saved \in BOOLEAN, BeginSave(s, saved)
      PROVE  \E r \in Requests : Shaped(r) /\ Begin(s, r)
  <2> DEFINE r == [Idle EXCEPT !.op = "save", !.flag = saved, !.step = "read-link"]
  <2>1. r \in Requests
    BY <1>2 DEF Requests, Ops, Steps
  <2>2. Shaped(r)
    BY <1>2 DEF Requests, Shaped, AboutOffer
  <2>3. QED
    BY <1>9, <2>1, <2>2 DEF BeginSave
<1>10. ASSUME NEW op \in {"remove-company", "remove-file"},
              Begin(s, [Idle EXCEPT !.op = op, !.step = "delete"])
       PROVE  \E r \in Requests : Shaped(r) /\ Begin(s, r)
  <2> DEFINE r == [Idle EXCEPT !.op = op, !.step = "delete"]
  <2>1. r \in Requests
    BY <1>2 DEF Requests, Ops, Steps
  <2>2. Shaped(r)
    BY <1>2 DEF Requests, Shaped, AboutOffer
  <2>3. QED
    BY <1>10, <2>1, <2>2
<1>11. QED
  BY <1>3, <1>4, <1>5, <1>6, <1>7, <1>8, <1>9, <1>10
  DEF Arrive, BeginRemoveCompany, BeginRemoveFile

\* A step of a served request takes it to a well-typed one.
LEMMA ServeRequestType ==
    ASSUME Types, NEW s \in Sessions, Serve(s)
    PROVE  \E q \in Requests : Shaped(q) /\ Become(s, q)
<1> DEFINE r == request[s]
           Goal == \E q \in Requests : Shaped(q) /\ Become(s, q)
<1>1. r \in Requests /\ Shaped(r)
  BY DEF Types, TypeOK, Shapes
<1> HIDE DEF r
<1>2. ASSUME Done(s)
      PROVE  Goal
  BY <1>2, IdleType DEF Done
<1>3. ASSUME NEW step \in Steps, Go(s, step), Shaped([r EXCEPT !.step = step])
      PROVE  Goal
  <2>1. [r EXCEPT !.step = step] \in Requests
    BY <1>1 DEF Requests
  <2>2. QED
    BY <1>3, <2>1 DEF Go, r
<1>4. ASSUME NEW type, NEW text, NEW q \in Requests, Shaped(q), AppendTo(s, type, text, q)
      PROVE  Goal
  BY <1>2, <1>4 DEF AppendTo
<1>5. CASE InsertCompany(s)
  <2>1. Shaped([r EXCEPT !.step = "row"])
    BY <1>1, <1>5 DEF InsertCompany, AtStep, Shaped, Requests, AboutOffer, r
  <2>2. QED
    BY <1>2, <1>3, <1>5, <2>1 DEF InsertCompany, Steps
<1>6. CASE InsertRow(s)
  <2>1. CASE ~company
    BY <1>2, <1>6, <2>1 DEF InsertRow
  <2>2. CASE company
    <3> DEFINE q == [r EXCEPT !.app = made', !.step = IF r.op = "track" THEN "read-link" ELSE "created"]
    <3>1. made' \in 0 .. MaxApps /\ made' # 0
      BY <1>6, <2>2, TrackingAssumption DEF InsertRow, Types, TypeOK
    <3>2. r.step = "row" /\ Become(s, q)
      BY <1>6, <2>2 DEF InsertRow, AtStep, r
    <3>3. q \in Requests
      BY <1>1, <3>1 DEF Requests, Steps
    <3>4. Shaped(q)
      BY <1>1, <3>1, <3>2 DEF Shaped, Requests, AboutOffer
    <3>5. QED
      BY <3>2, <3>3, <3>4
  <2>3. QED
    BY <2>1, <2>2
<1>7. CASE RecordCreated(s)
  <2>1. r.step = "created" /\ AppendTo(s, "created", 0, Change(r))
    BY <1>7 DEF RecordCreated, AtStep, r
  <2>2. r.app # 0
    BY <1>1, <2>1 DEF Shaped
  <2>3. QED
    BY <1>1, <1>4, <2>1, <2>2, ChangeType
<1>8. CASE CheckFile(s)
  <2>1. Shaped([r EXCEPT !.step = "write"])
    BY <1>1, <1>8 DEF CheckFile, AtStep, Shaped, Requests, AboutOffer, r
  <2>2. QED
    BY <1>2, <1>3, <1>8, <2>1 DEF CheckFile, Steps
<1>9. CASE WriteStatus(s)
  <2>1. r.step = "write" /\ (Done(s) \/ Become(s, Change(r)))
    BY <1>9 DEF WriteStatus, AtStep, r
  <2>2. r.app # 0
    BY <1>1, <2>1 DEF Shaped
  <2>3. QED
    BY <1>1, <1>2, <2>1, <2>2, ChangeType
<1>10. CASE Stamp(s)
  <2>1. Shaped([r EXCEPT !.step = "exists"])
    BY <1>1, <1>10 DEF Stamp, AtStep, Shaped, Requests, AboutOffer, r
  <2>2. QED
    BY <1>3, <1>10, <2>1 DEF Stamp, Steps
<1>11. CASE LookForSnapshot(s)
  <2>1. Shaped([r EXCEPT !.step = "event"]) /\ Shaped([r EXCEPT !.step = "capture"])
    BY <1>1, <1>11 DEF LookForSnapshot, AtStep, Shaped, Requests, AboutOffer, r
  <2>2. PICK step \in {"event", "capture"} : Go(s, step)
    BY <1>11 DEF LookForSnapshot
  <2>3. QED
    BY <1>3, <2>1, <2>2 DEF Steps
<1>12. CASE Capture(s)
  <2> DEFINE n == IF link # NoRow /\ link.app = r.app THEN posting ELSE 0
  <2>1. n \in 0 .. MaxTexts /\ Become(s, [r EXCEPT !.step = "event", !.text = n])
    <3>1. posting \in 0 .. MaxTexts /\ 0 \in 0 .. MaxTexts
      BY TrackingAssumption DEF Types, TypeOK
    <3>2. QED
      BY <1>12, <3>1 DEF Capture, r
  <2> HIDE DEF n
  <2>2. [r EXCEPT !.step = "event", !.text = n] \in Requests
    BY <1>1, <2>1 DEF Requests, Steps
  <2>3. Shaped([r EXCEPT !.step = "event", !.text = n])
    BY <1>1, <1>12 DEF Capture, AtStep, Shaped, Requests, AboutOffer, r
  <2>4. QED
    BY <2>1, <2>2, <2>3
<1>13. CASE RecordEvent(s)
  BY <1>4, <1>13, IdleType DEF RecordEvent
<1>14. CASE ReadLink(s)
  <2>1. CASE posting = 0
    BY <1>14, <2>1, IdleType DEF ReadLink
  <2>2. CASE posting # 0
    <3>1. [r EXCEPT !.row = link, !.step = "save-link"] \in Requests
      BY <1>1 DEF Requests, Steps, Types, TypeOK
    <3>2. Shaped([r EXCEPT !.row = link, !.step = "save-link"])
      BY <1>1, <1>14 DEF ReadLink, AtStep, Shaped, Requests, AboutOffer, r
    <3>3. QED
      BY <1>14, <2>2, <3>1, <3>2 DEF ReadLink, r
  <2>3. QED
    BY <2>1, <2>2
<1>15. CASE SaveLink(s)
  <2>1. r.op = "track" => Shaped([r EXCEPT !.step = "created"])
    BY <1>1, <1>15 DEF SaveLink, AtStep, Shaped, Requests, AboutOffer, r
  <2>2. r.op # "track" => Shaped([r EXCEPT !.step = "note"])
    BY <1>1, <1>15 DEF SaveLink, AtStep, Shaped, Requests, AboutOffer, r
  <2>3. QED
    BY <1>2, <1>3, <1>15, <2>1, <2>2 DEF SaveLink, Steps, r
<1>16. CASE DeleteApplications(s)
  <2>1. Shaped([r EXCEPT !.step = "delete-company"])
    BY <1>1, <1>16 DEF DeleteApplications, AtStep, Shaped, Requests, AboutOffer, r
  <2>2. QED
    BY <1>3, <1>16, <2>1 DEF DeleteApplications, Steps
<1>17. CASE NoteMark(s) \/ SoftDelete(s) \/ DeleteCompany(s) \/ DeleteFile(s) \/ Stop(s)
  BY <1>2, <1>17 DEF NoteMark, SoftDelete, DeleteCompany, DeleteFile, Stop
<1>18. QED
  BY <1>5, <1>6, <1>7, <1>8, <1>9, <1>10, <1>11, <1>12, <1>13, <1>14, <1>15, <1>16, <1>17
  DEF Serve

\* A step of a served request keeps the types of everything it is not about.
LEMMA ServeDataType ==
    ASSUME Types, NEW s \in Sessions, Serve(s)
    PROVE  /\ apps' \in [AppIds -> Apps \union {NoApp}] /\ made' \in 0 .. MaxApps
           /\ log' \in [AppIds -> Seq(Events)]
           /\ company' \in BOOLEAN /\ file' \in BOOLEAN /\ stopped' \in BOOLEAN
           /\ posting' \in 0 .. MaxTexts
           /\ link' \in Links \union {NoRow}
           /\ saves' \in [saved : BOOLEAN, viewed : {"none", "SEEN", "DISMISSED"}]
           /\ asked' = asked /\ raced' = raced
<1> DEFINE r == request[s]
           a == r.app
<1>1. r \in Requests /\ Shaped(r)
  BY DEF Types, TypeOK, Shapes
<1> HIDE DEF r
<1> USE DEF Types
<1>2. a = 0 \/ a \in AppIds
  BY <1>1, TrackingAssumption DEF Requests, AppIds
<1>3. apps[a] \in Apps \/ apps[a] = NoApp \/ a = 0
  BY <1>2 DEF TypeOK
<1>4. CASE InsertCompany(s)
  BY <1>4 DEF InsertCompany, TypeOK
<1>5. CASE InsertRow(s)
  <2>1. CASE ~company
    BY <1>5, <2>1 DEF InsertRow, TypeOK
  <2>2. CASE company
    <3>1. made' = made + 1 /\ made' \in AppIds
      BY <1>5, <2>2, TrackingAssumption DEF InsertRow, AppIds, TypeOK
    <3>2. [status |-> r.to, dated |-> IF r.op = "track" THEN r.to = "APPLIED" ELSE r.flag,
           cv |-> FALSE, offer |-> r.op = "track", gone |-> FALSE] \in Apps
      BY <1>1 DEF Apps, Requests
    <3>3. QED
      BY <1>5, <2>2, <3>1, <3>2 DEF InsertRow, TypeOK, AppIds, r
  <2>3. QED
    BY <2>1, <2>2
<1>6. ASSUME NEW type \in {"created", "sent", "interview", "offer", "follow-up"},
             NEW text \in 0 .. MaxTexts, NEW next, a # 0, AppendTo(s, type, text, next)
      PROVE  log' \in [AppIds -> Seq(Events)]
  <2>1. [type |-> type, text |-> text] \in Events
    BY DEF Events
  <2>2. a \in AppIds /\ log[a] \in Seq(Events)
    BY <1>2, <1>6 DEF TypeOK
  <2>3. Append(log[a], [type |-> type, text |-> text]) \in Seq(Events)
    BY <2>1, <2>2
  <2>4. QED
    BY <1>6, <2>3 DEF AppendTo, TypeOK, r
<1>7. CASE RecordCreated(s)
  <2>1. a # 0
    BY <1>1, <1>7 DEF RecordCreated, AtStep, Shaped, r
  <2>2. AppendTo(s, "created", 0, Change(r)) /\ 0 \in 0 .. MaxTexts
    BY <1>7, TrackingAssumption DEF RecordCreated, r
  <2>3. log' \in [AppIds -> Seq(Events)]
    BY <1>6, <2>1, <2>2
  <2>4. QED
    BY <1>7, <2>3 DEF RecordCreated, TypeOK
<1>8. CASE WriteStatus(s)
  <2>1. a \in AppIds
    BY <1>1, <1>2, <1>8 DEF WriteStatus, AtStep, Shaped, r
  <2>2. \A app \in Apps : [app EXCEPT !.status = r.to, !.cv = @ \/ r.flag] \in Apps
    BY <1>1 DEF Apps, Requests
  <2>3. apps' \in [AppIds -> Apps \union {NoApp}]
    <3>1. CASE apps' = apps
      BY <3>1 DEF TypeOK
    <3>2. CASE apps[a] # NoApp /\ apps' = [apps EXCEPT ![a].status = r.to, ![a].cv = @ \/ r.flag]
      <4>1. apps[a] \in Apps
        BY <1>3, <2>1, <3>2 DEF TypeOK
      <4>2. apps' = [apps EXCEPT ![a] = [apps[a] EXCEPT !.status = r.to, !.cv = @ \/ r.flag]]
        BY <2>1, <3>2, <4>1 DEF TypeOK, Apps
      <4>3. QED
        BY <2>1, <2>2, <4>1, <4>2 DEF TypeOK
    <3>3. QED
      BY <1>8, <3>1, <3>2 DEF WriteStatus, r
  <2>4. QED
    BY <1>8, <2>3 DEF WriteStatus, TypeOK
<1>9. CASE Stamp(s)
  <2>1. a \in AppIds
    BY <1>1, <1>2, <1>9 DEF Stamp, AtStep, Shaped, r
  <2>2. \A app \in Apps : [app EXCEPT !.dated = TRUE] \in Apps
    BY DEF Apps
  <2>3. QED
    BY <1>3, <1>9, <2>1, <2>2 DEF Stamp, TypeOK, r
<1>10. CASE RecordEvent(s)
  <2>1. a # 0 /\ r.event \in {"created", "sent", "interview", "offer", "follow-up"}
        /\ r.text \in 0 .. MaxTexts /\ AppendTo(s, r.event, r.text, Idle)
    BY <1>1, <1>10 DEF RecordEvent, AtStep, Shaped, Requests, r
  <2>2. log' \in [AppIds -> Seq(Events)]
    BY <1>6, <2>1
  <2>3. QED
    BY <1>10, <2>2 DEF RecordEvent, TypeOK
<1>11. CASE SaveLink(s)
  <2>1. r.step = "save-link" /\ r.op \in AboutOffer
    BY <1>1, <1>11 DEF SaveLink, AtStep, Shaped, r
  <2>2. [status |-> "SEEN", saved |-> FALSE, app |-> 0] \in Links
    BY TrackingAssumption DEF Links
  <2>3. Patched(r) \in Links
    BY <1>1, <2>1, <2>2 DEF Patched, Links, Requests, AboutOffer
  <2>4. QED
    BY <1>11, <2>3 DEF SaveLink, TypeOK, r
<1>12. CASE NoteMark(s)
  <2>1. r.op \in {"mark", "save"} /\ (r.op = "mark" => r.mark \in {"SEEN", "DISMISSED"})
        /\ r.flag \in BOOLEAN
    BY <1>1, <1>12 DEF NoteMark, AtStep, Shaped, Requests, r
  <2>2. QED
    BY <1>12, <2>1 DEF NoteMark, TypeOK, r
<1>13. CASE SoftDelete(s)
  <2>1. a \in AppIds
    BY <1>1, <1>2, <1>13 DEF SoftDelete, AtStep, Shaped, r
  <2>2. \A app \in Apps : [app EXCEPT !.gone = TRUE] \in Apps
    BY DEF Apps
  <2>3. QED
    BY <1>3, <1>13, <2>1, <2>2 DEF SoftDelete, TypeOK, r
<1>14. CASE DeleteApplications(s)
  <2>1. \A row \in Links : [row EXCEPT !.app = 0] \in Links
    BY TrackingAssumption DEF Links
  <2>2. << >> \in Seq(Events)
    OBVIOUS
  <2>3. QED
    BY <1>14, <2>1, <2>2 DEF DeleteApplications, TypeOK
<1>15. CASE DeleteCompany(s)
  <2>1. 0 \in 0 .. MaxTexts
    BY TrackingAssumption
  <2>2. posting' \in {posting, 0} /\ link' \in {link, NoRow} /\ company' \in {company, FALSE}
    BY <1>15 DEF DeleteCompany
  <2>3. QED
    BY <1>15, <2>1, <2>2 DEF DeleteCompany, TypeOK
<1>16. CASE DeleteFile(s)
  <2>1. \A app \in Apps : [app EXCEPT !.cv = FALSE] \in Apps
    BY DEF Apps
  <2>2. QED
    BY <1>16, <2>1 DEF DeleteFile, TypeOK
<1>17. CASE CheckFile(s) \/ LookForSnapshot(s) \/ Capture(s) \/ ReadLink(s) \/ Stop(s)
  BY <1>17 DEF CheckFile, LookForSnapshot, Capture, ReadLink, Stop, TypeOK, data
<1>18. QED
  BY <1>4, <1>5, <1>7, <1>8, <1>9, <1>10, <1>11, <1>12, <1>13, <1>14, <1>15, <1>16, <1>17
  DEF Serve

\* Every step keeps every type, and every request knows what its step needs.
LEMMA TypesInductive == Types /\ [Next]_vars => Types'
<1> SUFFICES ASSUME Types, [Next]_vars PROVE Types'
  OBVIOUS
<1>1. ASSUME NEW s \in Sessions, NEW q \in Requests, Shaped(q), Become(s, q)
      PROVE  request' \in [Sessions -> Requests] /\ Shapes'
  BY <1>1 DEF Become, Types, TypeOK, Shapes
<1>2. ASSUME NEW s \in Sessions, Arrive(s)
      PROVE  Types'
  <2>1. PICK r \in Requests : Shaped(r) /\ Begin(s, r)
    BY <1>2, ArriveType
  <2>2. About(r) \subseteq 0 .. MaxApps
    BY TrackingAssumption DEF About, Requests
  <2>3. asked' \in 0 .. MaxRequests /\ raced' \subseteq 0 .. MaxApps
    <3>1. asked' = asked + 1 /\ asked < MaxRequests /\ asked \in 0 .. MaxRequests
      BY <2>1 DEF Begin, Types, TypeOK
    <3>2. raced' \subseteq raced \union About(r)
      BY <2>1 DEF Begin
    <3>3. QED
      BY <2>2, <3>1, <3>2, TrackingAssumption DEF Types, TypeOK
  <2>4. request' \in [Sessions -> Requests] /\ Shapes'
    BY <1>1, <2>1 DEF Begin
  <2>5. QED
    BY <2>1, <2>3, <2>4 DEF Begin, Types, TypeOK, data
<1>3. ASSUME NEW s \in Sessions, Serve(s)
      PROVE  Types'
  <2>1. request' \in [Sessions -> Requests] /\ Shapes'
    BY <1>1, <1>3, ServeRequestType
  <2>2. QED
    BY <1>3, <2>1, ServeDataType DEF Types, TypeOK
<1>4. CASE EditPosting
  BY <1>4, TrackingAssumption DEF EditPosting, Types, TypeOK, Shapes
<1>5. CASE UNCHANGED vars
  BY <1>5 DEF vars, Types, TypeOK, Shapes
<1>6. QED
  BY <1>2, <1>3, <1>4, <1>5 DEF Next

\* The initial states are well typed.
LEMMA TypesInitial == Init => Types
<1> SUFFICES ASSUME Init PROVE Types
  OBVIOUS
<1>1. << >> \in Seq(Events)
  OBVIOUS
<1>2. request \in [Sessions -> Requests] /\ Shapes
  BY IdleType DEF Init, Shapes
<1>3. posting \in 0 .. MaxTexts /\ made \in 0 .. MaxApps /\ asked \in 0 .. MaxRequests
  BY TrackingAssumption DEF Init
<1>4. QED
  BY <1>1, <1>2, <1>3 DEF Init, Types, TypeOK

-----------------------------------------------------------------------------
(***************************************************************************)
(* The inductive invariant.                                                *)
(***************************************************************************)
\* Ids are given once: nothing knows one that is not given yet.
Numbered ==
    /\ \A a \in AppIds : a > made => apps[a] = NoApp /\ log[a] = << >>
    /\ \A s \in Sessions : request[s].app <= made
    /\ link # NoRow => link.app <= made

\* Two requests about the same thing at once are on record.
Alone ==
    \A s, t \in Sessions, x \in 0 .. MaxApps :
        (s # t /\ Busy(s) /\ Busy(t) /\ x \in About(request[s]) /\ x \in About(request[t]))
            => x \in raced

\* A request that is to say that an application went out.
Sending(r) ==
    \/ r.step \in {"exists", "capture"}
    \/ r.step = "event" /\ r.event = "sent"
    \/ r.step \in {"read-link", "save-link", "created"} /\ r.op = "track" /\ r.to = "APPLIED"

\* The date is there before the event that says so.
DatedFirst ==
    \A s \in Sessions :
        LET r == request[s] IN
        (Sending(r) /\ apps[r.app] # NoApp) => apps[r.app].dated

\* What holds of the offer while its requests come one after the other.
Calm == 0 \notin raced /\ ~stopped

Linking(s, a) ==
    /\ request[s].op = "track" /\ request[s].app = a
    /\ request[s].step \in {"read-link", "save-link"}

LiveLink == link # NoRow /\ Live(link.app)

OfferLinked ==
    Calm => \A a \in AppIds : (Live(a) /\ apps[a].offer) =>
                \/ link # NoRow /\ link.app = a
                \/ \E s \in Sessions : Linking(s, a)

TracksOnce ==
    Calm => \A s \in Sessions :
        (request[s].op = "track" /\ request[s].step \in {"row", "read-link", "save-link"})
            => ~LiveLink

OfferStays ==
    Calm =>
        /\ \A s \in Sessions :
              request[s].op \in AboutOffer /\ request[s].step \in {"row", "read-link", "save-link"}
                => posting # 0
        /\ \A a \in AppIds : (apps[a] # NoApp /\ apps[a].offer) => posting # 0

ReadIsFresh ==
    Calm => \A s \in Sessions : AtStep(s, "save-link") => request[s].row = link

Noting(s) == AtStep(s, "note") /\ request[s].op = "save"

SavesFollow ==
    (Calm /\ posting # 0) =>
        /\ \A s \in Sessions : Noting(s) => link # NoRow /\ link.saved = request[s].flag
        /\ link = NoRow => ~saves.saved
        /\ (link # NoRow /\ \A s \in Sessions : ~Noting(s)) => link.saved = saves.saved

\* What holds of an application that no two requests were about at once.
Steady ==
    \A s \in Sessions :
        LET r == request[s]
            a == r.app
        IN
        (a # 0 /\ a \notin raced) =>
            /\ apps[a] # NoApp => ~apps[a].gone
            /\ (apps[a] # NoApp /\ r.step \in {"file", "write"}) => apps[a].status = r.from
            /\ (r.step = "capture" \/ r.text # 0) => ~WasSent(a)

TracksOffers ==
    \A s \in Sessions :
        LET r == request[s] IN
        (r.op = "track" /\ r.app # 0 /\ apps[r.app] # NoApp) => apps[r.app].offer

FrozenOnce ==
    /\ \A a \in AppIds, i \in Nat : i \in Frozen(a) => log[a][i].type = "sent"
    /\ \A a \in AppIds \ raced, i, j \in Nat : (i \in Frozen(a) /\ j \in Frozen(a)) => i = j

FirstFrozen(a) ==
    \E i \in DOMAIN log[a] :
        /\ log[a][i].type = "sent" /\ log[a][i].text > 0
        /\ \A j \in DOMAIN log[a] : log[a][j].type = "sent" => i <= j

OfferFrozen ==
    Calm =>
        /\ \A a \in AppIds \ raced :
              (apps[a] # NoApp /\ apps[a].offer /\ WasSent(a)) => FirstFrozen(a)
        /\ \A s \in Sessions :
              LET r == request[s]
                  a == r.app
              IN
              (a # 0 /\ a \notin raced /\ r.step = "event" /\ r.event = "sent" /\ r.text = 0
               /\ apps[a] # NoApp /\ apps[a].offer) => WasSent(a)

\* The request s still has the event of the application's status to record.
Owing(s, a) ==
    LET r == request[s] IN
    /\ r.app = a
    /\ \/ r.step \in {"read-link", "save-link", "created"} /\ r.to = apps[a].status
       \/ /\ r.step \in {"stamp", "exists", "capture", "event"}
          /\ r.event = EventFor[apps[a].status]

Logged(a) == \E i \in DOMAIN log[a] : log[a][i].type = EventFor[apps[a].status]

LoggedOrOwing ==
    \A a \in AppIds \ raced :
        (Live(a) /\ apps[a].status # "WISHLIST" /\ ~stopped /\ (apps[a].offer => 0 \notin raced))
            => Logged(a) \/ \E s \in Sessions : Owing(s, a)
-----------------------------------------------------------------------------
(***************************************************************************)
(* What a step of a served request does.                                   *)
(***************************************************************************)
\* A step of s moves the request of s alone, which keeps what it was asked for.
LEMMA RequestStep ==
    ASSUME Types, NEW s \in Sessions, Serve(s)
    PROVE  /\ \A t \in Sessions \ {s} : request'[t] = request[t]
           /\ \/ request'[s] = Idle
              \/ /\ request'[s].op = request[s].op /\ request'[s].to = request[s].to
                 /\ request'[s].from = request[s].from
                 /\ request'[s].flag = request[s].flag /\ request'[s].mark = request[s].mark
                 /\ \/ request'[s].app = request[s].app /\ made' = made
                    \/ /\ AtStep(s, "row") /\ made' = made + 1 /\ request'[s].app = made'
                       /\ apps' = [apps EXCEPT ![made'] =
                              [status |-> request[s].to,
                               dated |-> IF request[s].op = "track" THEN request[s].to = "APPLIED"
                                         ELSE request[s].flag,
                               cv |-> FALSE, offer |-> request[s].op = "track", gone |-> FALSE]]
<1> DEFINE r == request[s]
<1>1. request \in [Sessions -> Requests] /\ r \in Requests /\ Shaped(r)
  BY DEF Types, TypeOK, Shapes
<1>2. \A t \in Sessions \ {s} : request'[t] = request[t]
  BY <1>1, ServeRequestType DEF Become
<1>3. ASSUME NEW q, Become(s, q) PROVE request'[s] = q
  BY <1>1, <1>3 DEF Become
<1>4. ASSUME NEW step, Go(s, step) PROVE request'[s] = [r EXCEPT !.step = step]
  BY <1>3, <1>4 DEF Go
<1>5. ASSUME NEW type, NEW text, NEW q, AppendTo(s, type, text, q)
      PROVE  request'[s] \in {Idle, q}
  BY <1>3, <1>5 DEF AppendTo, Done
<1>6. ASSUME Done(s) PROVE request'[s] = Idle
  BY <1>3, <1>6 DEF Done
<1> DEFINE Goal == \/ request'[s] = Idle
                   \/ /\ request'[s].op = r.op /\ request'[s].to = r.to
                      /\ request'[s].from = r.from
                      /\ request'[s].flag = r.flag /\ request'[s].mark = r.mark
                      /\ request'[s].app = r.app
<1>7. Change(r) = Idle \/ /\ Change(r).op = r.op /\ Change(r).to = r.to
                          /\ Change(r).from = r.from /\ Change(r).flag = r.flag
                          /\ Change(r).mark = r.mark /\ Change(r).app = r.app
  BY <1>1 DEF Change, Requests
<1>8. CASE InsertRow(s)
  <2>1. CASE company
    <3>1. Become(s, [r EXCEPT !.app = made', !.step = IF r.op = "track" THEN "read-link" ELSE "created"])
      BY <1>8, <2>1 DEF InsertRow
    <3>2. request'[s] = [r EXCEPT !.app = made', !.step = IF r.op = "track" THEN "read-link" ELSE "created"]
      BY <1>3, <3>1
    <3>3. QED
      BY <1>1, <1>2, <1>8, <2>1, <3>2 DEF InsertRow, Requests
  <2>2. CASE ~company
    BY <1>2, <1>6, <1>8, <2>2 DEF InsertRow
  <2>3. QED
    BY <2>1, <2>2
<1>9. ASSUME ~InsertRow(s) PROVE Goal /\ made' = made
  <2>1. CASE InsertCompany(s) \/ CheckFile(s) \/ Stamp(s) \/ LookForSnapshot(s) \/ SaveLink(s)
             \/ DeleteApplications(s)
    <3>1. Done(s) \/ \E step : Go(s, step)
      BY <2>1 DEF InsertCompany, CheckFile, Stamp, LookForSnapshot, SaveLink, DeleteApplications
    <3>2. made' = made
      BY <2>1 DEF InsertCompany, CheckFile, Stamp, LookForSnapshot, SaveLink, DeleteApplications, data
    <3>3. QED
      BY <1>1, <1>4, <1>6, <3>1, <3>2 DEF Requests
  <2>2. CASE RecordCreated(s) \/ RecordEvent(s)
    <3>1. request'[s] \in {Idle, Change(r)} /\ made' = made
      BY <1>5, <2>2 DEF RecordCreated, RecordEvent
    <3>2. QED
      BY <1>7, <3>1
  <2>3. CASE WriteStatus(s)
    <3>1. request'[s] \in {Idle, Change(r)} /\ made' = made
      BY <1>3, <2>3 DEF WriteStatus, Done
    <3>2. QED
      BY <1>7, <3>1
  <2>4. CASE Capture(s)
    <3>1. PICK n : Become(s, [r EXCEPT !.step = "event", !.text = n])
      BY <2>4 DEF Capture
    <3>2. request'[s] = [r EXCEPT !.step = "event", !.text = n]
      BY <1>3, <3>1
    <3>3. QED
      BY <1>1, <2>4, <3>2 DEF Capture, Requests, data
  <2>5. CASE ReadLink(s)
    <3>1. request'[s] \in {Idle, [r EXCEPT !.row = link, !.step = "save-link"]}
      BY <1>3, <2>5 DEF ReadLink
    <3>2. QED
      BY <1>1, <2>5, <3>1 DEF ReadLink, Requests, data
  <2>6. CASE NoteMark(s) \/ SoftDelete(s) \/ DeleteCompany(s) \/ DeleteFile(s) \/ Stop(s)
    BY <1>6, <2>6 DEF NoteMark, SoftDelete, DeleteCompany, DeleteFile, Stop, data
  <2>7. QED
    BY <1>9, <2>1, <2>2, <2>3, <2>4, <2>5, <2>6 DEF Serve
<1>10. QED
  BY <1>2, <1>8, <1>9

\* What a step of s that takes its request from r to q went through.
MovesTo(s, r, q) ==
    /\ q.step # "file" /\ q.step # "remove" /\ q.step # "delete"
    /\ q.step = "row" => r.step = "company" /\ UNCHANGED <<apps, log, posting, link>>
    /\ q.step = "write" => r.step = "file" /\ UNCHANGED <<apps, log, posting, link>>
    /\ q.step = "read-link" => InsertRow(s) /\ company /\ r.op = "track"
    /\ q.step = "save-link" => /\ r.step = "read-link" /\ posting # 0 /\ q.row = link
                               /\ UNCHANGED <<apps, log, posting, link>>
    /\ q.step = "note" => r.step = "save-link" /\ SaveLink(s) /\ link' = Patched(r)
    /\ q.step = "created" => \/ InsertRow(s) /\ company /\ r.op = "create"
                             \/ r.step = "save-link" /\ SaveLink(s) /\ r.op = "track"
                                /\ link' = Patched(r)
    /\ q.step = "stamp" => r.step \in {"created", "write"} /\ r.op # "track"
                           /\ r.to = "APPLIED" /\ q.event = "sent"
    /\ q.step = "exists" => \/ Stamp(s) /\ q.event = r.event
                            \/ /\ RecordCreated(s) /\ r.op = "track" /\ r.to = "APPLIED"
                               /\ q.event = "sent"
    /\ q.step = "capture" => LookForSnapshot(s) /\ ~WasSent(r.app) /\ q.event = r.event
    /\ q.step = "event" =>
           \/ LookForSnapshot(s) /\ WasSent(r.app) /\ q.event = r.event /\ q.text = 0
           \/ /\ Capture(s) /\ q.event = r.event
              /\ q.text = IF link # NoRow /\ link.app = r.app THEN posting ELSE 0
           \/ /\ r.step \in {"created", "write"} /\ r.op # "track" /\ r.to # "APPLIED"
              /\ q.event = EventFor[r.to] /\ q.event # "sent" /\ q.text = 0
    /\ q.step = "delete-company" => DeleteApplications(s)
    /\ q.text # 0 => Capture(s)

\* Every step of a served request is such a move.
LEMMA Moves ==
    ASSUME Types, NEW s \in Sessions, Serve(s)
    PROVE  MovesTo(s, request[s], request'[s])
<1> DEFINE r == request[s]
           q == request'[s]
<1>1. request \in [Sessions -> Requests] /\ r \in Requests /\ Shaped(r)
  BY DEF Types, TypeOK, Shapes
<1>2. ASSUME NEW x, Become(s, x) PROVE q = x
  BY <1>1, <1>2 DEF Become
<1>3. ASSUME NEW step, Go(s, step)
      PROVE  q = [r EXCEPT !.step = step] /\ q.step = step /\ q.event = r.event /\ q.text = r.text
  BY <1>1, <1>2, <1>3 DEF Go, Requests
<1>4. Idle.step = "idle" /\ Idle.text = 0
  BY DEF Idle
<1>5. ASSUME Done(s) PROVE q.step = "idle" /\ q.text = 0
  BY <1>2, <1>4, <1>5 DEF Done
<1>6. EventFor[r.to] = "sent" <=> r.to = "APPLIED"
  BY <1>1 DEF EventFor, Requests, Statuses
<1>7. ASSUME r.step \in {"created", "write"}
      PROVE  LET c == Change(r) IN
             /\ c.text = 0
             /\ \/ c.step = "idle"
                \/ c.step = "exists" /\ r.op = "track" /\ r.to = "APPLIED" /\ c.event = "sent"
                \/ c.step = "stamp" /\ r.op # "track" /\ r.to = "APPLIED" /\ c.event = "sent"
                \/ /\ c.step = "event" /\ r.op # "track" /\ r.to # "APPLIED"
                   /\ c.event = EventFor[r.to] /\ c.event # "sent"
  BY <1>1, <1>4, <1>6, <1>7 DEF Change, Requests, Shaped
<1> SUFFICES MovesTo(s, r, q)
  OBVIOUS
<1> HIDE DEF r, q
<1>8. CASE InsertCompany(s)
  BY <1>3, <1>5, <1>8, <1>1 DEF MovesTo, InsertCompany, AtStep, Shaped, r
<1>9. CASE InsertRow(s)
  <2>1. CASE ~company
    BY <1>5, <1>9, <2>1 DEF MovesTo, InsertRow
  <2>2. CASE company
    <3>1. q = [r EXCEPT !.app = made', !.step = IF r.op = "track" THEN "read-link" ELSE "created"]
      BY <1>2, <1>9, <2>2 DEF InsertRow, r
    <3>2. q.step = (IF r.op = "track" THEN "read-link" ELSE "created") /\ q.text = r.text
          /\ r.op \in {"create", "track"} /\ r.text = 0
      BY <1>1, <1>9, <3>1 DEF InsertRow, AtStep, Requests, Shaped, r
    <3>3. QED
      BY <1>9, <2>2, <3>2 DEF MovesTo, r
  <2>3. QED
    BY <2>1, <2>2
<1>10. CASE RecordCreated(s)
  <2>1. r.step = "created" /\ (q = Change(r) \/ Done(s))
    BY <1>2, <1>10 DEF RecordCreated, AppendTo, AtStep, r
  <2>2. QED
    BY <1>5, <1>7, <1>10, <2>1 DEF MovesTo, r
<1>11. CASE WriteStatus(s)
  <2>1. r.step = "write" /\ (q = Change(r) \/ Done(s))
    BY <1>2, <1>11 DEF WriteStatus, AtStep, r
  <2>2. r.op # "track"
    BY <1>1, <2>1 DEF Shaped
  <2>3. QED
    BY <1>5, <1>7, <2>1, <2>2 DEF MovesTo, r
<1>12. CASE Stamp(s)
  BY <1>1, <1>3, <1>12 DEF MovesTo, Stamp, AtStep, Shaped, r
<1>13. CASE LookForSnapshot(s)
  BY <1>1, <1>3, <1>13 DEF MovesTo, LookForSnapshot, AtStep, Shaped, r
<1>14. CASE Capture(s)
  <2>1. q = [r EXCEPT !.step = "event",
                      !.text = IF link # NoRow /\ link.app = r.app THEN posting ELSE 0]
    BY <1>2, <1>14 DEF Capture, r
  <2>2. q.step = "event" /\ q.event = r.event
        /\ q.text = IF link # NoRow /\ link.app = r.app THEN posting ELSE 0
    BY <1>1, <2>1 DEF Requests
  <2>3. QED
    BY <1>14, <2>2 DEF MovesTo, r
<1>15. CASE RecordEvent(s)
  BY <1>2, <1>4, <1>5, <1>15 DEF MovesTo, RecordEvent, AppendTo
<1>16. CASE ReadLink(s)
  <2>1. CASE posting = 0
    BY <1>2, <1>4, <1>16, <2>1 DEF MovesTo, ReadLink
  <2>2. CASE posting # 0
    <3>1. q = [r EXCEPT !.row = link, !.step = "save-link"] /\ r.step = "read-link"
      BY <1>2, <1>16, <2>2 DEF ReadLink, AtStep, r
    <3>2. q.row = link /\ q.step = "save-link" /\ q.text = 0
      BY <1>1, <3>1 DEF Requests, Shaped
    <3>3. QED
      BY <1>16, <2>2, <3>1, <3>2 DEF MovesTo, ReadLink, data, r
  <2>3. QED
    BY <2>1, <2>2
<1>17. CASE SaveLink(s)
  <2>1. r.step = "save-link" /\ r.text = 0
    BY <1>1, <1>17 DEF SaveLink, AtStep, Shaped, r
  <2>2. Done(s) \/ /\ link' = Patched(r) /\ q.step = (IF r.op = "track" THEN "created" ELSE "note")
                   /\ q.text = r.text
    BY <1>3, <1>17 DEF SaveLink, r
  <2>3. QED
    BY <1>5, <1>17, <2>1, <2>2 DEF MovesTo, r
<1>18. CASE CheckFile(s)
  BY <1>1, <1>3, <1>5, <1>18 DEF MovesTo, CheckFile, AtStep, Shaped, data, r
<1>19. CASE DeleteApplications(s)
  BY <1>1, <1>3, <1>19 DEF MovesTo, DeleteApplications, AtStep, Shaped, r
<1>20. CASE NoteMark(s) \/ SoftDelete(s) \/ DeleteCompany(s) \/ DeleteFile(s) \/ Stop(s)
  BY <1>5, <1>20 DEF MovesTo, NoteMark, SoftDelete, DeleteCompany, DeleteFile, Stop
<1>21. QED
  BY <1>8, <1>9, <1>10, <1>11, <1>12, <1>13, <1>14, <1>15, <1>16, <1>17, <1>18, <1>19, <1>20
  DEF Serve

\* What happens to an application b in a step of s: a date or a deletion stays,
\* and its status and its deletion are changed by requests about it.
LEMMA AppsStep ==
    ASSUME Types, Numbered, NEW s \in Sessions, Serve(s), NEW b \in AppIds
    PROVE  /\ (apps[b] = NoApp /\ apps'[b] # NoApp) =>
                  AtStep(s, "row") /\ made' = made + 1 /\ b = made' /\ request'[s].app = b
           /\ (apps[b] # NoApp /\ apps'[b] # NoApp) =>
                  /\ apps'[b].offer = apps[b].offer
                  /\ apps[b].dated => apps'[b].dated
                  /\ apps'[b].status = apps[b].status \/ (AtStep(s, "write") /\ b = request[s].app)
                  /\ apps[b].gone => apps'[b].gone
                  /\ apps'[b].gone = apps[b].gone
                     \/ (AtStep(s, "remove") /\ b = request[s].app /\ request'[s] = Idle)
           /\ AtStep(s, "write") => apps'[b] # NoApp \/ apps[b] = NoApp
           /\ apps'[b] # apps[b] => \/ AtStep(s, "row") \/ AtStep(s, "write") \/ AtStep(s, "stamp")
                                    \/ AtStep(s, "remove") \/ AtStep(s, "delete")
<1> DEFINE r == request[s]
<1>1. request \in [Sessions -> Requests] /\ r \in Requests /\ Shaped(r)
      /\ apps \in [AppIds -> Apps \union {NoApp}] /\ made \in 0 .. MaxApps
  BY DEF Types, TypeOK, Shapes
<1>2. apps[b] = NoApp \/ apps[b] \in Apps
  BY <1>1
<1>3. CASE UNCHANGED apps /\ ~AtStep(s, "write")
  BY <1>3
<1>4. CASE InsertRow(s)
  <2>1. CASE company
    <3>1. made' = made + 1 /\ made' \in AppIds
      BY <1>1, <1>4, <2>1, TrackingAssumption DEF InsertRow, AppIds
    <3>2. request'[s].app = made'
      BY <1>1, <1>4, <2>1 DEF InsertRow, Become, Requests
    <3>3. CASE b = made'
      <4>1. apps[b] = NoApp
        BY <1>1, <3>1, <3>3 DEF Numbered
      <4>2. QED
        BY <1>4, <3>1, <3>2, <3>3, <4>1 DEF InsertRow, AtStep
    <3>4. CASE b # made'
      BY <1>1, <1>2, <1>4, <2>1, <3>1, <3>4 DEF InsertRow, AtStep
    <3>5. QED
      BY <3>3, <3>4
  <2>2. QED
    BY <1>4, <2>1 DEF InsertRow, AtStep
<1>5. CASE WriteStatus(s)
  <2>1. CASE UNCHANGED apps
    BY <1>5, <2>1
  <2>2. CASE apps' = [apps EXCEPT ![r.app].status = r.to, ![r.app].cv = @ \/ r.flag] /\ apps[r.app] # NoApp
    <3>1. r.app \in AppIds
      BY <1>1, <1>5, TrackingAssumption DEF WriteStatus, AtStep, Shaped, Requests, AppIds
    <3>2. apps[r.app] \in Apps
      BY <1>1, <2>2, <3>1
    <3>3. apps' = [apps EXCEPT ![r.app] = [apps[r.app] EXCEPT !.status = r.to, !.cv = @ \/ r.flag]]
      BY <1>1, <2>2, <3>1, <3>2 DEF Apps
    <3> HIDE DEF r
    <3>4. \A a \in AppIds \ {r.app} : apps'[a] = apps[a]
      BY <1>1, <3>3
    <3>5. apps'[r.app] = [apps[r.app] EXCEPT !.status = r.to, !.cv = @ \/ r.flag]
      BY <1>1, <3>1, <3>3
    <3>6. /\ apps'[r.app].offer = apps[r.app].offer /\ apps'[r.app].dated = apps[r.app].dated
          /\ apps'[r.app].gone = apps[r.app].gone /\ apps'[r.app] \in Apps
      BY <1>1, <3>2, <3>5 DEF Apps, Requests
    <3>7. apps'[r.app] # NoApp
      BY <3>6, NullAssumption
    <3>8. QED
      BY <1>5, <2>2, <3>4, <3>6, <3>7 DEF WriteStatus, AtStep, r
  <2>3. QED
    BY <1>5, <2>1, <2>2 DEF WriteStatus
<1>6. CASE Stamp(s)
  BY <1>1, <1>2, <1>6 DEF Stamp, AtStep, Apps
<1>7. CASE SoftDelete(s)
  <2>1. request'[s] = Idle
    BY <1>1, <1>7 DEF SoftDelete, Done, Become
  <2>2. QED
    BY <1>1, <1>2, <1>7, <2>1 DEF SoftDelete, AtStep, Apps
<1>8. CASE DeleteApplications(s) \/ DeleteFile(s)
  BY <1>1, <1>2, <1>8 DEF DeleteApplications, DeleteFile, AtStep, Apps
<1>9. CASE UNCHANGED apps
  BY <1>9
<1>10. QED
  BY <1>4, <1>5, <1>6, <1>7, <1>8, <1>9
  DEF Serve, InsertCompany, RecordCreated, CheckFile, LookForSnapshot, Capture, RecordEvent,
      ReadLink, SaveLink, NoteMark, DeleteCompany, Stop, data

\* What happens to the log of b: a request about it appends what it has to say,
\* or it goes with its application.
LEMMA LogStep ==
    ASSUME Types, NEW s \in Sessions, Serve(s), NEW b \in AppIds
    PROVE  \/ log'[b] = log[b]
           \/ log'[b] = << >> /\ apps'[b] = NoApp /\ AtStep(s, "delete")
           \/ /\ b = request[s].app /\ apps[b] # NoApp /\ apps' = apps
              /\ \/ /\ AtStep(s, "created") /\ RecordCreated(s) /\ request'[s] = Change(request[s])
                    /\ log'[b] = Append(log[b], [type |-> "created", text |-> 0])
                 \/ /\ AtStep(s, "event") /\ request'[s] = Idle
                    /\ log'[b] = Append(log[b], [type |-> request[s].event, text |-> request[s].text])
<1> DEFINE r == request[s]
<1>1. request \in [Sessions -> Requests] /\ log \in [AppIds -> Seq(Events)]
      /\ r \in Requests /\ Shaped(r)
  BY DEF Types, TypeOK, Shapes
<1>2. ASSUME NEW type, NEW text, NEW q, AppendTo(s, type, text, q), r.app # 0
      PROVE  \/ log' = log
             \/ /\ apps[r.app] # NoApp /\ request'[s] = q
                /\ b # r.app => log'[b] = log[b]
                /\ b = r.app => log'[b] = Append(log[b], [type |-> type, text |-> text])
  <2>1. r.app \in AppIds
    BY <1>1, <1>2, TrackingAssumption DEF Requests, AppIds
  <2>2. QED
    BY <1>1, <1>2, <2>1 DEF AppendTo, Become
<1>3. CASE RecordCreated(s)
  <2>1. r.step = "created" /\ r.app # 0 /\ AppendTo(s, "created", 0, Change(r)) /\ apps' = apps
    BY <1>1, <1>3 DEF RecordCreated, AtStep, Shaped
  <2>2. QED
    BY <1>2, <1>3, <2>1 DEF AtStep
<1>4. CASE RecordEvent(s)
  <2>1. r.step = "event" /\ r.app # 0 /\ AppendTo(s, r.event, r.text, Idle) /\ apps' = apps
    BY <1>1, <1>4 DEF RecordEvent, AtStep, Shaped
  <2>2. QED
    BY <1>2, <2>1 DEF AtStep
<1>5. CASE DeleteApplications(s)
  BY <1>5 DEF DeleteApplications, AtStep
<1>6. CASE UNCHANGED log
  BY <1>6
<1>7. QED
  BY <1>3, <1>4, <1>5, <1>6
  DEF Serve, InsertCompany, InsertRow, CheckFile, WriteStatus, Stamp, LookForSnapshot, Capture,
      ReadLink, SaveLink, NoteMark, SoftDelete, DeleteCompany, DeleteFile, Stop, data

\* A request that arrives changes nothing but itself, knows of what it saw, and
\* what it overlaps with is on record.
LEMMA ArriveStep ==
    ASSUME Types, NEW s \in Sessions, Arrive(s)
    PROVE  LET q == request'[s] IN
           /\ UNCHANGED <<data, stopped>> /\ raced \subseteq raced' /\ AtStep(s, "idle")
           /\ \A t \in Sessions \ {s} : request'[t] = request[t]
           /\ \A t \in Sessions \ {s}, x \in About(q) :
                  (Busy(t) /\ x \in About(request[t])) => x \in raced'
           /\ q.text = 0
           /\ q.app # 0 => Live(q.app)
           /\ q.step \in {"file", "write"} => q.from = apps[q.app].status
           /\ q.op = "track" => posting # 0 /\ ~LiveLink /\ q.step = "row" /\ q.app = 0
           /\ q.op \in {"mark", "save"} => posting # 0 /\ q.step = "read-link"
           /\ q.step = "read-link" => q.op \in {"mark", "save"}
           /\ q.step = "event" => q.event \in {"offer", "follow-up"}
           /\ q.step \in {"company", "row", "file", "write", "read-link", "event", "remove", "delete"}
<1> DEFINE q == request'[s]
           Knows(r) ==
               /\ r.text = 0
               /\ r.app # 0 => Live(r.app)
               /\ r.step \in {"file", "write"} => r.from = apps[r.app].status
               /\ r.op = "track" => posting # 0 /\ ~LiveLink /\ r.step = "row" /\ r.app = 0
               /\ r.op \in {"mark", "save"} => posting # 0 /\ r.step = "read-link"
               /\ r.step = "read-link" => r.op \in {"mark", "save"}
               /\ r.step = "event" => r.event \in {"offer", "follow-up"}
               /\ r.step \in {"company", "row", "file", "write", "read-link", "event", "remove", "delete"}
<1>1. PICK r \in Requests : Begin(s, r)
  BY ArriveType
<1>2. request \in [Sessions -> Requests]
  BY DEF Types, TypeOK
<1>3. request' = [request EXCEPT ![s] = r] /\ q = r
  BY <1>1, <1>2 DEF Begin, Become
<1>4. ASSUME NEW x, Begin(s, x) PROVE q = x
  BY <1>2, <1>4 DEF Begin, Become
<1>5. Knows(q)
  <2>1. Idle.step = "idle" /\ Idle.app = 0 /\ Idle.op = "move" /\ Idle.text = 0
    BY DEF Idle
  <2>2. ASSUME NEW to, NEW dated, BeginCreate(s, to, dated) PROVE Knows(q)
    <3>1. q = [Idle EXCEPT !.op = "create", !.to = to, !.flag = dated,
                           !.step = IF company THEN "row" ELSE "company"]
      BY <1>4, <2>2 DEF BeginCreate
    <3>2. QED
      BY <3>1 DEF Idle
  <2>3. ASSUME NEW to, BeginTrack(s, to) PROVE Knows(q)
    <3>1. PICK m : q = [Idle EXCEPT !.op = "track", !.to = to, !.step = "row", !.mark = m]
      BY <1>4, <2>3 DEF BeginTrack
    <3>2. QED
      BY <2>3, <3>1 DEF Idle, BeginTrack, LiveLink
  <2>4. ASSUME NEW op \in {"move", "edit"}, NEW a, NEW to, NEW cv, BeginChange(s, op, a, to, cv) PROVE Knows(q)
    <3>1. q = [Idle EXCEPT !.op = op, !.app = a, !.to = to, !.from = apps[a].status,
                           !.flag = cv, !.step = IF cv THEN "file" ELSE "write"]
      BY <1>4, <2>4 DEF BeginChange
    <3>2. Live(a)
      BY <2>4 DEF BeginChange
    <3>3. QED
      BY <3>1, <3>2 DEF Idle
  <2>5. ASSUME NEW a, NEW type \in {"offer", "follow-up"}, BeginRecord(s, a, type) PROVE Knows(q)
    <3>1. q = [Idle EXCEPT !.op = "record", !.app = a, !.event = type, !.step = "event"] /\ Live(a)
      BY <1>4, <2>5 DEF BeginRecord
    <3>2. QED
      BY <3>1 DEF Idle
  <2>6. ASSUME NEW a, BeginRemove(s, a) PROVE Knows(q)
    <3>1. q = [Idle EXCEPT !.op = "remove", !.app = a, !.step = "remove"] /\ Live(a)
      BY <1>4, <2>6 DEF BeginRemove
    <3>2. QED
      BY <3>1 DEF Idle
  <2>7. ASSUME NEW status, BeginMark(s, status) PROVE Knows(q)
    <3>1. q = [Idle EXCEPT !.op = "mark", !.mark = status, !.step = "read-link"] /\ posting # 0
      BY <1>4, <2>7 DEF BeginMark
    <3>2. QED
      BY <3>1 DEF Idle
  <2>8. ASSUME NEW saved, BeginSave(s, saved) PROVE Knows(q)
    <3>1. q = [Idle EXCEPT !.op = "save", !.flag = saved, !.step = "read-link"] /\ posting # 0
      BY <1>4, <2>8 DEF BeginSave
    <3>2. QED
      BY <3>1 DEF Idle
  <2>9. ASSUME NEW op \in {"remove-company", "remove-file"}, Begin(s, [Idle EXCEPT !.op = op, !.step = "delete"])
        PROVE  Knows(q)
    <3>1. q = [Idle EXCEPT !.op = op, !.step = "delete"]
      BY <1>4, <2>9
    <3>2. QED
      BY <3>1 DEF Idle
  <2>10. QED
    BY <2>2, <2>3, <2>4, <2>5, <2>6, <2>7, <2>8, <2>9 DEF Arrive, BeginRemoveCompany, BeginRemoveFile
<1>6. QED
  BY <1>1, <1>2, <1>3, <1>5 DEF Begin, Busy

\* What a step of s does to the interaction, the offer, the bookmark and the calm.
LEMMA OfferStep ==
    ASSUME Types, NEW s \in Sessions, Serve(s)
    PROVE  /\ raced' = raced
           /\ Calm' => Calm /\ ~Stop(s)
           /\ \/ link' = link
              \/ /\ AtStep(s, "save-link") /\ link' = Patched(request[s])
                 /\ link' # NoRow /\ posting # 0 /\ posting' = posting
                 /\ link'.app # 0 => apps[link'.app] # NoApp
                 /\ request'[s].step = IF request[s].op = "track" THEN "created" ELSE "note"
              \/ AtStep(s, "delete") /\ link # NoRow /\ link' # NoRow /\ link'.app = 0
                 /\ link'.saved = link.saved /\ \A a \in AppIds : apps'[a] = NoApp
              \/ AtStep(s, "delete-company") /\ posting' = 0 /\ link' = NoRow
           /\ posting' = posting
              \/ (AtStep(s, "delete-company") /\ posting' = 0 /\ \A a \in AppIds : apps'[a] = NoApp)
           /\ saves' = saves \/ AtStep(s, "note")
           /\ apps' # apps => posting' = posting
<1>1. raced' = raced
  BY ServeDataType
<1>2. Calm' => Calm /\ ~Stop(s)
  BY <1>1 DEF Calm, Serve, InsertCompany, InsertRow, RecordCreated, CheckFile, WriteStatus, Stamp,
       LookForSnapshot, Capture, RecordEvent, ReadLink, SaveLink, NoteMark, SoftDelete,
       DeleteApplications, DeleteCompany, DeleteFile, Stop
<1>3. CASE SaveLink(s)
  <2>1. CASE UNCHANGED link
    BY <1>1, <1>2, <1>3, <2>1 DEF SaveLink
  <2>2. CASE link' # link
    <3>1. Go(s, IF request[s].op = "track" THEN "created" ELSE "note") /\ link' = Patched(request[s])
          /\ posting # 0 /\ (Patched(request[s]).app # 0 => apps[Patched(request[s]).app] # NoApp)
      BY <1>3, <2>2 DEF SaveLink
    <3>2. request \in [Sessions -> Requests] /\ request[s] \in Requests
      BY DEF Types, TypeOK
    <3>3. request'[s].step = IF request[s].op = "track" THEN "created" ELSE "note"
      BY <3>1, <3>2 DEF Go, Become, Requests
    <3>4. Shaped(request[s]) /\ request[s].step = "save-link"
      BY <1>3 DEF SaveLink, AtStep, Types, Shapes
    <3>5. Patched(request[s]) \in Links
      BY <3>2, <3>4, TrackingAssumption DEF Patched, Shaped, Requests, Links, AboutOffer
    <3>6. QED
      BY <1>1, <1>2, <1>3, <3>1, <3>3, <3>5, NullAssumption DEF SaveLink, AtStep
  <2>3. QED
    BY <2>1, <2>2
<1>4. CASE DeleteApplications(s)
  <2>1. link # NoRow => link \in Links
    BY DEF Types, TypeOK
  <2>2. link # NoRow => /\ [link EXCEPT !.app = 0] \in Links /\ [link EXCEPT !.app = 0].app = 0
                        /\ [link EXCEPT !.app = 0].saved = link.saved
    BY <2>1, TrackingAssumption DEF Links
  <2>3. QED
    BY <1>1, <1>2, <1>4, <2>2, NullAssumption DEF DeleteApplications, AtStep
<1>5. CASE DeleteCompany(s)
  BY <1>1, <1>2, <1>5 DEF DeleteCompany, AtStep
<1>6. CASE NoteMark(s)
  BY <1>1, <1>2, <1>6 DEF NoteMark, AtStep
<1>7. CASE UNCHANGED <<link, posting, saves>>
  BY <1>1, <1>2, <1>7
<1>8. QED
  BY <1>3, <1>4, <1>5, <1>6, <1>7
  DEF Serve, InsertCompany, InsertRow, RecordCreated, CheckFile, WriteStatus, Stamp,
       LookForSnapshot, Capture, RecordEvent, ReadLink, SoftDelete, DeleteFile, Stop, data

\* Two requests about what is not on record are the same one.
LEMMA Lone ==
    ASSUME Types, Alone, NEW s \in Sessions, NEW t \in Sessions, NEW x \in 0 .. MaxApps, x \notin raced,
           x \in About(request[s]), x \in About(request[t]),
           x # 0 \/ (Busy(s) /\ Busy(t))
    PROVE  s = t
<1>1. Busy(s) /\ Busy(t)
  BY DEF Types, Shapes, Shaped, Busy, AtStep, About, AboutOffer
<1>2. QED
  BY <1>1 DEF Alone
-----------------------------------------------------------------------------
(***************************************************************************)
(* The invariant is inductive.                                             *)
(***************************************************************************)
\* Ids stay those given so far.
LEMMA NumberedServed ==
    ASSUME Types, Numbered, NEW s \in Sessions, Serve(s)
    PROVE  Numbered'
<1>1. made \in Nat /\ made' \in Nat /\ made' >= made
  <2>1. made \in Nat /\ made' \in Nat
    BY ServeDataType, TrackingAssumption DEF Types, TypeOK
  <2>2. CASE InsertRow(s)
    BY <2>1, <2>2 DEF InsertRow
  <2>3. CASE UNCHANGED made
    BY <2>1, <2>3
  <2>4. QED
    BY <2>2, <2>3 DEF Serve, InsertCompany, RecordCreated, CheckFile, WriteStatus, Stamp,
       LookForSnapshot, Capture, RecordEvent, ReadLink, SaveLink, NoteMark, SoftDelete,
       DeleteApplications, DeleteCompany, DeleteFile, Stop, data
<1>2. ASSUME NEW a \in AppIds, a > made'
      PROVE  apps'[a] = NoApp /\ log'[a] = << >>
  <2>1. a \in Nat /\ a > made
    BY <1>1, <1>2, TrackingAssumption DEF AppIds
  <2>2. apps[a] = NoApp /\ log[a] = << >>
    BY <2>1 DEF Numbered
  <2>3. apps'[a] = NoApp
    BY <1>1, <1>2, <2>1, <2>2, AppsStep
  <2>4. log'[a] = << >>
    BY <2>2, LogStep
  <2>5. QED
    BY <2>3, <2>4
<1>3. ASSUME NEW t \in Sessions
      PROVE  request'[t].app <= made'
  <2>1. request[t].app <= made /\ request[t].app \in Nat /\ Idle.app = 0
    BY TrackingAssumption DEF Numbered, Types, TypeOK, Requests, Idle
  <2>2. QED
    BY <1>1, <2>1, RequestStep
<1>4. ASSUME link' # NoRow
      PROVE  link'.app <= made'
  <2>1. CASE SaveLink(s) /\ link' # link
    <3>1. link' = Patched(request[s])
      BY <2>1 DEF SaveLink
    <3>2. Patched(request[s]).app = 0 \/ apps[Patched(request[s]).app] # NoApp
      BY <2>1 DEF SaveLink
    <3>3. link' \in Links \union {NoRow}
      BY ServeDataType
    <3>4. link'.app \in 0 .. MaxApps
      BY <1>4, <3>3 DEF Links
    <3>5. link'.app = 0 \/ link'.app <= made
      BY <1>1, <3>1, <3>2, <3>4, TrackingAssumption DEF Numbered, AppIds
    <3>6. QED
      BY <1>1, <3>4, <3>5
  <2>2. CASE DeleteApplications(s)
    <3>1. link \in Links
      BY <1>4, <2>2 DEF DeleteApplications, Types, TypeOK
    <3>2. link'.app = 0
      BY <1>4, <2>2, <3>1 DEF DeleteApplications, Links
    <3>3. QED
      BY <1>1, <3>2
  <2>3. CASE link' = link
    <3>1. link \in Links /\ link.app <= made
      BY <1>4, <2>3 DEF Numbered, Types, TypeOK
    <3>2. QED
      BY <1>1, <2>3, <3>1, TrackingAssumption DEF Links
  <2>4. link' = NoRow \/ link' = link \/ SaveLink(s) \/ DeleteApplications(s)
    BY DEF Serve, InsertCompany, InsertRow, RecordCreated, CheckFile, WriteStatus, Stamp,
       LookForSnapshot, Capture, RecordEvent, ReadLink, NoteMark, SoftDelete, DeleteCompany,
       DeleteFile, Stop, data
  <2>5. QED
    BY <1>4, <2>1, <2>2, <2>3, <2>4
<1>5. QED
  BY <1>2, <1>3, <1>4 DEF Numbered

\* A request is about no more than it was, but for the application it creates,
\* which nobody else knows.
LEMMA AloneServed ==
    ASSUME Types, Numbered, Alone, NEW s \in Sessions, Serve(s)
    PROVE  Alone'
<1> SUFFICES ASSUME NEW t \in Sessions \ {s}, NEW x \in 0 .. MaxApps,
                    Busy(s)', Busy(t)', x \in About(request'[s]), x \in About(request'[t])
             PROVE  x \in raced'
  <2>1. SUFFICES ASSUME NEW u \in Sessions, NEW v \in Sessions, NEW x \in 0 .. MaxApps, u # v,
                        Busy(u)', Busy(v)', x \in About(request'[u]), x \in About(request'[v])
                 PROVE  x \in raced'
    BY DEF Alone, About, Busy, AtStep
  <2>2. CASE u # s /\ v # s
    <3>1. request'[u] = request[u] /\ request'[v] = request[v] /\ raced' = raced
      BY <2>2, RequestStep, ServeDataType
    <3>2. Busy(u) /\ Busy(v) /\ x \in About(request[u]) /\ x \in About(request[v])
      BY <2>1, <3>1 DEF Busy, AtStep
    <3>3. QED
      BY <2>1, <3>1, <3>2 DEF Alone
  <2>3. QED
    BY <2>1, <2>2
<1>1. request'[t] = request[t] /\ Busy(t) /\ raced' = raced
  BY RequestStep, ServeDataType DEF Busy, AtStep
<1>2. Busy(s)
  BY DEF Busy, AtStep, Serve, InsertCompany, InsertRow, RecordCreated, CheckFile, WriteStatus, Stamp,
       LookForSnapshot, Capture, RecordEvent, ReadLink, SaveLink, NoteMark, SoftDelete,
       DeleteApplications, DeleteCompany, DeleteFile, Stop
<1>3. request'[s] # Idle
  BY DEF Busy, AtStep, Idle
<1>4. CASE request'[s].app = request[s].app
  <2>1. About(request'[s]) = About(request[s])
    BY <1>3, <1>4, RequestStep DEF About
  <2>2. QED
    BY <1>1, <1>2, <2>1 DEF Alone
<1>5. CASE AtStep(s, "row") /\ request'[s].app = made + 1
  <2>1. made \in Nat /\ request[t].app <= made /\ request[t].app \in Nat
    BY TrackingAssumption DEF Numbered, Types, TypeOK, Requests
  <2>2. x # made + 1
    BY <1>1, <2>1 DEF About
  <2>3. x = 0
    BY <1>3, <1>5, <2>2 DEF About
  <2>4. 0 \in About(request[s])
    BY <1>5 DEF Types, Shapes, Shaped, AtStep, About
  <2>5. QED
    BY <1>1, <1>2, <2>3, <2>4 DEF Alone
<1>6. QED
  BY <1>3, <1>4, <1>5, RequestStep

\* Ids stay those given so far, and what overlaps stays on record.
LEMMA NumberedAlone ==
    ASSUME Types, Numbered, Alone, [Next]_vars
    PROVE  Numbered' /\ Alone'
<1>1. ASSUME NEW s \in Sessions, Serve(s)
      PROVE  Numbered' /\ Alone'
  BY <1>1, NumberedServed, AloneServed
<1>2. ASSUME NEW s \in Sessions, Arrive(s)
      PROVE  Numbered' /\ Alone'
  <2>1. /\ UNCHANGED <<apps, log, made, link>> /\ raced \subseteq raced'
        /\ \A t \in Sessions \ {s} : request'[t] = request[t]
        /\ \A t \in Sessions \ {s}, x \in About(request'[s]) :
              (Busy(t) /\ x \in About(request[t])) => x \in raced'
        /\ request'[s].app # 0 => Live(request'[s].app)
    BY <1>2, ArriveStep DEF data
  <2>2. request'[s].app <= made
    <3>1. CASE request'[s].app = 0
      BY <3>1, TrackingAssumption DEF Types, TypeOK
    <3>2. CASE request'[s].app \in AppIds /\ apps[request'[s].app] # NoApp
      <4>1. ~(request'[s].app > made)
        BY <3>2 DEF Numbered
      <4>2. QED
        BY <3>2, <4>1, TrackingAssumption DEF Types, TypeOK, AppIds
    <3>3. QED
      BY <2>1, <3>1, <3>2 DEF Live
  <2>3. Numbered'
    BY <2>1, <2>2 DEF Numbered
  <2>4. ASSUME NEW u \in Sessions, NEW v \in Sessions, NEW x \in 0 .. MaxApps, u # v,
               Busy(u)', Busy(v)', x \in About(request'[u]), x \in About(request'[v])
        PROVE  x \in raced'
    <3>1. CASE u # s /\ v # s
      <4>1. request'[u] = request[u] /\ request'[v] = request[v]
        BY <2>1, <3>1
      <4>2. Busy(u) /\ Busy(v) /\ x \in About(request[u]) /\ x \in About(request[v])
        BY <2>4, <4>1 DEF Busy, AtStep
      <4>3. QED
        BY <2>1, <2>4, <4>2 DEF Alone
    <3>2. CASE u = s \/ v = s
      <4>1. PICK t \in {u, v} : t # s /\ Busy(t)' /\ x \in About(request'[t]) /\ x \in About(request'[s])
        BY <2>4, <3>2
      <4>2. request'[t] = request[t]
        BY <2>1, <4>1
      <4>3. Busy(t) /\ x \in About(request[t])
        BY <4>1, <4>2 DEF Busy, AtStep
      <4>4. QED
        BY <2>1, <4>1, <4>3
    <3>3. QED
      BY <3>1, <3>2
  <2>5. Alone'
    BY <2>4 DEF Alone, Busy, AtStep, About
  <2>6. QED
    BY <2>3, <2>5
<1>3. CASE EditPosting
  BY <1>3 DEF EditPosting, Numbered, Alone, Busy, AtStep, About
<1>4. CASE UNCHANGED vars
  BY <1>4 DEF vars, Numbered, Alone, Busy, AtStep, About
<1>5. QED
  BY <1>1, <1>2, <1>3, <1>4 DEF Next

\* A request that will say that an application went out was one before, unless
\* its step is the one that dates the application.
LEMMA SendingStep ==
    ASSUME Types, Numbered, NEW s \in Sessions, Serve(s), Sending(request'[s])
    PROVE  LET r == request[s]
               q == request'[s]
           IN
           /\ q.app \in AppIds
           /\ \/ Sending(r) /\ q.app = r.app
              \/ apps'[q.app] # NoApp => apps'[q.app].dated
<1> DEFINE r == request[s]
           q == request'[s]
<1>1. r \in Requests /\ Shaped(r) /\ q \in Requests /\ Shaped(q) /\ q # Idle
  <2>1. request' \in [Sessions -> Requests] /\ Shaped(request'[s])
    BY ServeRequestType DEF Types, TypeOK, Become
  <2>2. q # Idle
    BY DEF Sending, Idle
  <2>3. QED
    BY <2>1, <2>2 DEF Types, TypeOK, Shapes
<1>2. q.app \in AppIds
  BY <1>1, TrackingAssumption DEF Sending, Shaped, Requests, AppIds
<1>3. MovesTo(s, r, q)
  BY Moves
<1>4. CASE InsertRow(s)
  <2>1. q.step = "read-link" /\ r.op = "track" /\ company /\ q.to = "APPLIED" /\ r.to = q.to
    <3>1. r.step = "row" /\ q.to = r.to /\ q.op = r.op
      BY <1>1, <1>4, RequestStep DEF InsertRow, AtStep
    <3>2. QED
      BY <1>1, <1>3, <3>1
      DEF Sending, MovesTo, Stamp, RecordCreated, LookForSnapshot, Capture, AtStep, Shaped
  <2>2. apps' = [apps EXCEPT ![made'] =
                    [status |-> r.to, dated |-> r.to = "APPLIED", cv |-> FALSE, offer |-> TRUE, gone |-> FALSE]]
        /\ q.app = made'
    <3>1. request[s].app = 0
      BY <1>1, <1>4 DEF InsertRow, AtStep, Shaped
    <3>2. q.app # request[s].app
      BY <1>2, <3>1, TrackingAssumption DEF AppIds
    <3>3. QED
      BY <1>1, <2>1, <3>2, RequestStep
  <2>3. apps'[q.app].dated
    BY <1>2, <2>1, <2>2 DEF Types, TypeOK
  <2>4. QED
    BY <1>2, <2>3
<1>5. CASE Stamp(s)
  <2>1. q.app = r.app
    BY <1>1, <1>5, RequestStep DEF Stamp, AtStep
  <2>2. apps' = IF apps[q.app] = NoApp THEN apps ELSE [apps EXCEPT ![q.app].dated = TRUE]
    BY <1>5, <2>1 DEF Stamp
  <2>3. apps[q.app] = NoApp \/ apps[q.app] \in Apps
    BY <1>2 DEF Types, TypeOK
  <2>4. apps'[q.app] # NoApp => apps'[q.app].dated
    BY <1>2, <2>2, <2>3 DEF Types, TypeOK, Apps
  <2>5. QED
    BY <1>2, <2>4
<1>6. CASE ~InsertRow(s) /\ ~Stamp(s)
  <2>1. ~AtStep(s, "row") => q.app = r.app /\ q.op = r.op /\ q.to = r.to
    BY <1>1, RequestStep
  <2>2. ~AtStep(s, "row")
    BY <1>3, <1>6 DEF Sending, MovesTo, RecordCreated, LookForSnapshot, Capture, AtStep
  <2>3. Sending(r)
    BY <1>3, <1>6, <2>1, <2>2 DEF Sending, MovesTo, LookForSnapshot, Capture, RecordCreated, AtStep
  <2>4. QED
    BY <1>2, <2>1, <2>2, <2>3
<1>7. QED
  BY <1>4, <1>5, <1>6

\* An application is dated before anything says that it went out.
LEMMA Dates ==
    ASSUME Types, Numbered, DatedFirst, SentMeansDated, [Next]_vars
    PROVE  DatedFirst' /\ SentMeansDated'
<1>1. ASSUME NEW s \in Sessions, Serve(s)
      PROVE  DatedFirst' /\ SentMeansDated'
  <2>1. ASSUME NEW t \in Sessions, Sending(request'[t]), apps'[request'[t].app] # NoApp
        PROVE  apps'[request'[t].app].dated
    <3> DEFINE a == request'[t].app
    <3>1. CASE Sending(request[t]) /\ request[t].app = a /\ a \in AppIds
      <4>1. ~(a > made)
        BY <3>1, TrackingAssumption DEF Numbered, AppIds, Types, TypeOK
      <4>2. apps[a] # NoApp
        BY <1>1, <2>1, <3>1, <4>1, AppsStep, TrackingAssumption DEF Types, TypeOK
      <4>3. apps[a].dated
        BY <3>1, <4>2 DEF DatedFirst
      <4>4. QED
        BY <1>1, <2>1, <3>1, <4>2, <4>3, AppsStep
    <3>2. CASE t = s
      BY <1>1, <2>1, <3>1, <3>2, SendingStep
    <3>3. CASE t # s
      <4>1. request'[t] = request[t]
        BY <1>1, <3>3, RequestStep
      <4>2. a \in AppIds
        BY <2>1, <4>1, TrackingAssumption DEF Sending, Types, TypeOK, Shapes, Shaped, Requests, AppIds
      <4>3. QED
        BY <2>1, <3>1, <4>1, <4>2
    <3>4. QED
      BY <3>2, <3>3
  <2>2. ASSUME NEW b \in AppIds, apps'[b] # NoApp, WasSent(b)'
        PROVE  apps'[b].dated
    <3>1. CASE apps[b] # NoApp /\ apps[b].dated
      BY <1>1, <2>2, <3>1, AppsStep
    <3>2. CASE WasSent(b)
      <4>1. b <= made
        <5>1. ~(b > made)
          BY <3>2 DEF Numbered, WasSent
        <5>2. QED
          BY <5>1, TrackingAssumption DEF AppIds, Types, TypeOK
      <4>2. apps[b] # NoApp
        BY <1>1, <2>2, <4>1, AppsStep, TrackingAssumption DEF Types, TypeOK
      <4>3. QED
        BY <3>1, <3>2, <4>2 DEF SentMeansDated
    <3>3. CASE ~WasSent(b)
      <4>1. log[b] \in Seq(Events) /\ request[s] \in Requests
        BY DEF Types, TypeOK
      <4>2. ASSUME NEW e, log'[b] = Append(log[b], e), e.type # "sent"
            PROVE  FALSE
        <5>1. PICK i \in DOMAIN log'[b] : log'[b][i].type = "sent"
          BY <2>2 DEF WasSent
        <5>2. i \in DOMAIN log[b] \/ log'[b][i] = e
          BY <4>1, <4>2
        <5>3. i \in DOMAIN log[b] => log'[b][i] = log[b][i]
          BY <4>1, <4>2
        <5>4. QED
          BY <3>3, <4>2, <5>1, <5>2, <5>3 DEF WasSent
      <4>3. /\ b = request[s].app /\ apps[b] # NoApp /\ apps' = apps
            /\ AtStep(s, "event") /\ request[s].event = "sent"
        <5>1. log'[b] # log[b] /\ apps'[b] # NoApp
          BY <2>2, <3>3 DEF WasSent
        <5>2. log'[b] # Append(log[b], [type |-> "created", text |-> 0])
          BY <4>2
        <5>3. request[s].event # "sent" =>
                  log'[b] # Append(log[b], [type |-> request[s].event, text |-> request[s].text])
          BY <4>2
        <5>4. QED
          BY <1>1, <5>1, <5>2, <5>3, LogStep
      <4>4. QED
        BY <4>3 DEF DatedFirst, Sending, AtStep
    <3>4. QED
      BY <3>2, <3>3
  <2>3. DatedFirst'
    BY <2>1 DEF DatedFirst, Sending
  <2>4. SentMeansDated'
    BY <2>2 DEF SentMeansDated, WasSent
  <2>5. QED
    BY <2>3, <2>4
<1>2. ASSUME NEW s \in Sessions, Arrive(s)
      PROVE  DatedFirst' /\ SentMeansDated'
  <2>1. apps' = apps /\ log' = log /\ ~Sending(request'[s])
        /\ \A t \in Sessions \ {s} : request'[t] = request[t]
    BY <1>2, ArriveStep DEF data, Sending
  <2>2. QED
    BY <2>1 DEF DatedFirst, SentMeansDated, WasSent, Sending
<1>3. CASE EditPosting
  BY <1>3 DEF EditPosting, DatedFirst, SentMeansDated, WasSent, Sending
<1>4. CASE UNCHANGED vars
  BY <1>4 DEF vars, DatedFirst, SentMeansDated, WasSent, Sending
<1>5. QED
  BY <1>1, <1>2, <1>3, <1>4 DEF Next

\* Only a request under way is served.
LEMMA ServeBusy == ASSUME NEW s \in Sessions, Serve(s) PROVE Busy(s)
BY DEF Busy, AtStep, Serve, InsertCompany, InsertRow, RecordCreated, CheckFile, WriteStatus, Stamp,
       LookForSnapshot, Capture, RecordEvent, ReadLink, SaveLink, NoteMark, SoftDelete,
       DeleteApplications, DeleteCompany, DeleteFile, Stop

\* An application somebody knows is not created again.
LEMMA Known ==
    ASSUME Types, Numbered, NEW s \in Sessions, Serve(s), NEW a \in AppIds, a <= made, apps'[a] # NoApp
    PROVE  apps[a] # NoApp
BY AppsStep, TrackingAssumption DEF Types, TypeOK

\* While the offer is calm, a step of another leaves the offer to the request
\* that is about it.
LEMMA Undisturbed ==
    ASSUME Types, Alone, Calm, NEW s \in Sessions, Serve(s), NEW t \in Sessions \ {s},
           Busy(t), 0 \in About(request[t])
    PROVE  /\ 0 \notin About(request[s])
           /\ link' = link /\ posting' = posting /\ saves' = saves
<1>1. 0 \notin About(request[s])
  BY ServeBusy, Lone, TrackingAssumption DEF Calm
<1>2. /\ ~AtStep(s, "save-link") /\ ~AtStep(s, "delete") /\ ~AtStep(s, "delete-company")
      /\ ~AtStep(s, "note")
  BY <1>1 DEF Types, Shapes, Shaped, AtStep, About, AboutOffer
<1>3. QED
  BY <1>1, <1>2, OfferStep

\* Tracking knows the application as one of an offer.
LEMMA TracksOffersStep ==
    ASSUME Types, Numbered, TracksOffers, [Next]_vars
    PROVE  TracksOffers'
<1>1. ASSUME NEW s \in Sessions, Serve(s), NEW t \in Sessions,
             request'[t].op = "track", request'[t].app # 0, apps'[request'[t].app] # NoApp
      PROVE  apps'[request'[t].app].offer
  <2> DEFINE a == request'[t].app
  <2>1. a \in AppIds
    <3>1. Types'
      BY <1>1, TypesInductive DEF Next
    <3>2. QED
      BY <1>1, <3>1, TrackingAssumption DEF Types, TypeOK, Requests, AppIds
  <2>2. CASE request[t].op = "track" /\ request[t].app = a
    <3>1. a <= made
      BY <2>2 DEF Numbered
    <3>2. apps[a] # NoApp
      BY <1>1, <2>1, <3>1, Known
    <3>3. QED
      BY <1>1, <2>1, <2>2, <3>2, AppsStep DEF TracksOffers
  <2>3. CASE t # s
    BY <1>1, <2>2, <2>3, RequestStep
  <2>4. CASE t = s /\ ~(request[t].op = "track" /\ request[t].app = a)
    <3>1. request'[s] # Idle
      BY <1>1, <2>4 DEF Idle
    <3>2. apps' = [apps EXCEPT ![made'] =
              [status |-> request[s].to, dated |-> IF request[s].op = "track" THEN request[s].to = "APPLIED"
                                                   ELSE request[s].flag,
               cv |-> FALSE, offer |-> request[s].op = "track", gone |-> FALSE]]
          /\ a = made' /\ request[s].op = "track"
      BY <1>1, <2>4, <3>1, RequestStep
    <3>3. QED
      BY <2>1, <3>2 DEF Types, TypeOK
  <2>5. QED
    BY <2>2, <2>3, <2>4
<1>2. ASSUME NEW s \in Sessions, Serve(s)
      PROVE  TracksOffers'
  BY <1>1, <1>2 DEF TracksOffers
<1>3. ASSUME NEW s \in Sessions, Arrive(s)
      PROVE  TracksOffers'
  <2>1. apps' = apps /\ (request'[s].op = "track" => request'[s].app = 0)
        /\ \A t \in Sessions \ {s} : request'[t] = request[t]
    BY <1>3, ArriveStep DEF data
  <2>2. QED
    BY <2>1 DEF TracksOffers
<1>4. CASE EditPosting \/ UNCHANGED vars
  BY <1>4 DEF EditPosting, vars, TracksOffers
<1>5. QED
  BY <1>2, <1>3, <1>4 DEF Next

\* An offer is there as long as somebody is at it or it has an application.
LEMMA OfferStaysStep ==
    ASSUME Types, Numbered, Alone, OfferStays, [Next]_vars
    PROVE  OfferStays'
<1> DEFINE At(r) == r.op \in AboutOffer /\ r.step \in {"row", "read-link", "save-link"}
<1>1. ASSUME NEW s \in Sessions, Serve(s), Calm'
      PROVE  OfferStays'
  <2>1. Calm /\ ~Stop(s) /\ posting \in Nat
    BY <1>1, OfferStep, TrackingAssumption DEF Types, TypeOK
  <2>2. ASSUME NEW t \in Sessions, At(request'[t])
        PROVE  posting' # 0
    <3>1. CASE t = s
      <4>1. At(request[s])
        <5>1. request'[s] # Idle /\ request'[s].op = request[s].op
          BY <1>1, <2>2, <3>1, RequestStep DEF Idle
        <5>2. MovesTo(s, request[s], request'[s]) /\ Shaped(request[s])
          BY <1>1, Moves DEF Types, Shapes
        <5>3. QED
          BY <2>2, <3>1, <5>1, <5>2 DEF MovesTo, Shaped, AboutOffer, InsertRow, AtStep
      <4>2. posting # 0 /\ ~AtStep(s, "delete-company")
        BY <2>1, <4>1 DEF OfferStays, AtStep
      <4>3. QED
        BY <1>1, <4>2, OfferStep
    <3>2. CASE t # s
      <4>1. At(request[t])
        BY <1>1, <2>2, <3>2, RequestStep
      <4>2. posting' = posting
        BY <1>1, <2>1, <3>2, <4>1, Undisturbed DEF About, Busy, AtStep
      <4>3. QED
        BY <2>1, <4>1, <4>2 DEF OfferStays
    <3>3. QED
      BY <3>1, <3>2
  <2>3. ASSUME NEW a \in AppIds, apps'[a] # NoApp, apps'[a].offer
        PROVE  posting' # 0
    <3>1. posting' = posting
      BY <1>1, <2>3, OfferStep
    <3>2. CASE apps[a] = NoApp
      <4>1. AtStep(s, "row") /\ a = made' /\ made' = made + 1 /\ request'[s].app = a
        BY <1>1, <2>3, <3>2, AppsStep
      <4>2. request[s].app # a /\ request'[s] # Idle
        BY <4>1, TrackingAssumption DEF Types, Shapes, Shaped, AtStep, AppIds, Idle
      <4>3. request[s].op = "track"
        <5>1. apps' = [apps EXCEPT ![made'] =
                  [status |-> request[s].to, dated |-> IF request[s].op = "track" THEN request[s].to = "APPLIED"
                                                       ELSE request[s].flag,
                   cv |-> FALSE, offer |-> request[s].op = "track", gone |-> FALSE]]
          BY <1>1, <4>1, <4>2, RequestStep
        <5>2. QED
          BY <2>3, <4>1, <5>1 DEF Types, TypeOK
      <4>4. QED
        BY <2>1, <3>1, <4>1, <4>3 DEF OfferStays, AtStep, AboutOffer
    <3>3. CASE apps[a] # NoApp
      <4>1. apps[a].offer
        BY <1>1, <2>3, <3>3, AppsStep
      <4>2. QED
        BY <2>1, <3>1, <3>3, <4>1 DEF OfferStays
    <3>4. QED
      BY <3>2, <3>3
  <2>4. QED
    BY <2>2, <2>3 DEF OfferStays
<1>2. ASSUME NEW s \in Sessions, Arrive(s), Calm'
      PROVE  OfferStays'
  <2>1. /\ UNCHANGED <<apps, posting, stopped>> /\ raced \subseteq raced'
        /\ \A t \in Sessions \ {s} : request'[t] = request[t]
        /\ request'[s].op \in AboutOffer => posting # 0
    BY <1>2, ArriveStep DEF data, AboutOffer
  <2>2. Calm
    BY <1>2, <2>1 DEF Calm
  <2>3. QED
    BY <2>1, <2>2 DEF OfferStays
<1>3. CASE EditPosting
  <2>1. posting' # 0 /\ posting # 0 /\ UNCHANGED <<apps, request, raced, stopped>>
    BY <1>3, TrackingAssumption DEF EditPosting
  <2>2. QED
    BY <2>1 DEF OfferStays, Calm
<1>4. CASE UNCHANGED vars
  BY <1>4 DEF vars, OfferStays, Calm
<1>5. CASE ~Calm'
  BY <1>5 DEF OfferStays
<1>6. QED
  BY <1>1, <1>2, <1>3, <1>4, <1>5 DEF Next

\* What a request for the offer's interaction read is what is there.
LEMMA ReadIsFreshStep ==
    ASSUME Types, Alone, ReadIsFresh, [Next]_vars
    PROVE  ReadIsFresh'
<1>1. ASSUME NEW s \in Sessions, Serve(s), Calm', NEW t \in Sessions, request'[t].step = "save-link"
      PROVE  request'[t].row = link'
  <2>1. Calm
    BY <1>1, OfferStep
  <2>2. CASE t = s
    BY <1>1, <2>2, Moves DEF MovesTo
  <2>3. CASE t # s
    <3>1. request'[t] = request[t] /\ AtStep(t, "save-link")
      BY <1>1, <2>3, RequestStep DEF AtStep
    <3>2. link' = link
      BY <1>1, <2>1, <2>3, <3>1, Undisturbed DEF Busy, AtStep, About, Types, Shapes, Shaped
    <3>3. QED
      BY <2>1, <3>1, <3>2 DEF ReadIsFresh
  <2>4. QED
    BY <2>2, <2>3
<1>2. ASSUME NEW s \in Sessions, Serve(s)
      PROVE  ReadIsFresh'
  BY <1>1, <1>2 DEF ReadIsFresh, AtStep
<1>3. ASSUME NEW s \in Sessions, Arrive(s)
      PROVE  ReadIsFresh'
  <2>1. /\ UNCHANGED <<link, stopped>> /\ raced \subseteq raced'
        /\ \A t \in Sessions \ {s} : request'[t] = request[t]
        /\ request'[s].step # "save-link"
    BY <1>3, ArriveStep DEF data
  <2>2. QED
    BY <2>1 DEF ReadIsFresh, Calm, AtStep
<1>4. CASE EditPosting \/ UNCHANGED vars
  BY <1>4 DEF EditPosting, vars, ReadIsFresh, Calm, AtStep
<1>5. QED
  BY <1>2, <1>3, <1>4 DEF Next

\* An offer is tracked only while it has no application that is still there.
LEMMA TracksOnceStep ==
    ASSUME Types, Numbered, Alone, TracksOnce, [Next]_vars
    PROVE  TracksOnce'
<1> DEFINE Tracking(r) == r.op = "track" /\ r.step \in {"row", "read-link", "save-link"}
<1>1. ASSUME NEW s \in Sessions, Serve(s), Calm', NEW t \in Sessions, Tracking(request'[t]), LiveLink'
      PROVE  FALSE
  <2>1. Calm
    BY <1>1, OfferStep
  <2>2. Tracking(request[t]) /\ link' = link
    <3>1. CASE t = s
      <4>1. request'[s] # Idle /\ request'[s].op = request[s].op
        BY <1>1, <3>1, RequestStep DEF Idle
      <4>2. MovesTo(s, request[s], request'[s]) /\ Shaped(request[s])
        BY <1>1, Moves DEF Types, Shapes
      <4>3. Tracking(request[s]) /\ link' = link
        BY <1>1, <3>1, <4>1, <4>2 DEF MovesTo, Shaped, InsertRow, AtStep
      <4>4. QED
        BY <3>1, <4>3
    <3>2. CASE t # s
      BY <1>1, <2>1, <3>2, RequestStep, Undisturbed DEF About, AboutOffer, Busy, AtStep
    <3>3. QED
      BY <3>1, <3>2
  <2>3. link # NoRow /\ link.app \in AppIds /\ apps'[link.app] # NoApp /\ ~apps'[link.app].gone
    BY <1>1, <2>2 DEF LiveLink, Live
  <2>4. apps[link.app] # NoApp /\ ~apps[link.app].gone
    <3>1. link.app <= made
      BY <2>3 DEF Numbered
    <3>2. apps[link.app] # NoApp
      BY <1>1, <2>3, <3>1, Known
    <3>3. QED
      BY <1>1, <2>3, <3>2, AppsStep
  <2>5. QED
    BY <2>1, <2>2, <2>3, <2>4 DEF TracksOnce, LiveLink, Live
<1>2. ASSUME NEW s \in Sessions, Serve(s)
      PROVE  TracksOnce'
  BY <1>1, <1>2 DEF TracksOnce, LiveLink, Live
<1>3. ASSUME NEW s \in Sessions, Arrive(s)
      PROVE  TracksOnce'
  <2>1. /\ UNCHANGED <<apps, link, stopped>> /\ raced \subseteq raced'
        /\ \A t \in Sessions \ {s} : request'[t] = request[t]
        /\ request'[s].op = "track" => ~LiveLink
    BY <1>3, ArriveStep DEF data
  <2>2. QED
    BY <2>1 DEF TracksOnce, Calm, LiveLink, Live
<1>4. CASE EditPosting \/ UNCHANGED vars
  BY <1>4 DEF EditPosting, vars, TracksOnce, Calm, LiveLink, Live
<1>5. QED
  BY <1>2, <1>3, <1>4 DEF Next

\* While the offer is calm a request that saves its interaction succeeds, as
\* long as the application it is to name is there.
LEMMA Saves ==
    ASSUME Types, OfferStays, ReadIsFresh, Calm, NEW s \in Sessions, SaveLink(s),
           request[s].op = "track" => apps[request[s].app] # NoApp
    PROVE  \/ /\ link' = Patched(request[s]) /\ request[s].row = link
              /\ request'[s].step = IF request[s].op = "track" THEN "created" ELSE "note"
           \/ /\ link' = link /\ request[s].op # "track" /\ request'[s] = Idle
<1> DEFINE r == request[s]
<1>1. /\ r.op \in AboutOffer /\ r.step = "save-link" /\ request \in [Sessions -> Requests]
      /\ r \in Requests
  BY DEF SaveLink, AtStep, Types, TypeOK, Shapes, Shaped
<1>2. posting # 0 /\ r.row = link
  BY <1>1 DEF OfferStays, ReadIsFresh, AtStep
<1>3. CASE r.op = "track"
  <2>1. Patched(r).app = r.app
    BY <1>1, <1>3 DEF Patched, Requests, Links
  <2>2. link' = Patched(r) /\ Go(s, "created")
    BY <1>2, <1>3, <2>1 DEF SaveLink
  <2>3. QED
    BY <1>1, <1>2, <1>3, <2>2 DEF Go, Become, Requests
<1>4. CASE r.op # "track"
  <2>1. \/ link' = Patched(r) /\ Go(s, "note")
        \/ link' = link /\ Done(s)
    BY <1>4 DEF SaveLink
  <2>2. QED
    BY <1>1, <1>2, <1>4, <2>1 DEF Go, Done, Become, Requests
<1>5. QED
  BY <1>3, <1>4

\* An offer's interaction names the application that tracking it made, or is
\* about to.
LEMMA OfferLinkedStep ==
    ASSUME Types, Numbered, Alone, OfferStays, ReadIsFresh, TracksOnce, OfferLinked, [Next]_vars
    PROVE  OfferLinked'
<1> DEFINE Linked(a) == link # NoRow /\ link.app = a
<1>1. ASSUME NEW s \in Sessions, Serve(s), Calm', NEW a \in AppIds, Live(a)', apps'[a].offer
      PROVE  (link' # NoRow /\ link'.app = a) \/ \E t \in Sessions : Linking(t, a)'
  <2>1. Calm /\ ~Stop(s) /\ apps'[a] # NoApp /\ ~apps'[a].gone /\ a # 0
    BY <1>1, OfferStep, TrackingAssumption DEF Live, AppIds
  <2>2. CASE apps[a] = NoApp
    <3>1. AtStep(s, "row") /\ a = made' /\ made' = made + 1 /\ request'[s].app = a
      BY <1>1, <2>1, <2>2, AppsStep
    <3>2. request[s].app # a /\ request'[s] # Idle
      BY <3>1, TrackingAssumption DEF Types, Shapes, Shaped, AtStep, AppIds, Idle
    <3>3. apps' = [apps EXCEPT ![made'] =
              [status |-> request[s].to, dated |-> IF request[s].op = "track" THEN request[s].to = "APPLIED"
                                                   ELSE request[s].flag,
               cv |-> FALSE, offer |-> request[s].op = "track", gone |-> FALSE]]
          /\ request'[s].op = request[s].op
      BY <1>1, <3>1, <3>2, RequestStep
    <3>4. request'[s].op = "track"
      BY <1>1, <3>1, <3>3 DEF Types, TypeOK
    <3>5. InsertRow(s) /\ request'[s] = [request[s] EXCEPT !.app = made', !.step = "read-link"]
      <4>1. InsertRow(s)
        BY <1>1, <2>1, <3>1 DEF Serve, InsertCompany, RecordCreated, CheckFile, WriteStatus, Stamp,
           LookForSnapshot, Capture, RecordEvent, ReadLink, SaveLink, NoteMark, SoftDelete,
           DeleteApplications, DeleteCompany, DeleteFile, AtStep
      <4>2. QED
        BY <3>1, <3>3, <3>4, <4>1, TrackingAssumption DEF InsertRow, Become, Types, TypeOK
    <3>6. request'[s].step = "read-link"
      BY <3>5 DEF Types, TypeOK, Requests
    <3>7. QED
      BY <3>1, <3>4, <3>6 DEF Linking
  <2>3. CASE apps[a] # NoApp
    <3>1. Live(a) /\ apps[a].offer
      BY <1>1, <2>1, <2>3, AppsStep DEF Live
    <3>2. CASE Linked(a)
      <4>1. CASE link' # link
        <5>1. LiveLink
          BY <3>1, <3>2 DEF LiveLink
        <5>2. AtStep(s, "save-link") /\ link' = Patched(request[s]) /\ link' # NoRow
          <6>1. ~\A b \in AppIds : apps'[b] = NoApp
            BY <2>1
          <6>2. posting' # 0
            <7>1. posting' = posting
              BY <1>1, <6>1, OfferStep
            <7>2. QED
              BY <2>1, <2>3, <3>1, <7>1 DEF OfferStays
          <6>3. QED
            BY <1>1, <4>1, <6>1, <6>2, OfferStep
        <5>3. request[s].op # "track" /\ request[s].row = link /\ request[s].op \in AboutOffer
          BY <2>1, <5>1, <5>2 DEF TracksOnce, ReadIsFresh, AtStep, Types, Shapes, Shaped
        <5>4. link'.app = a
          BY <3>2, <5>2, <5>3 DEF Patched, Types, TypeOK, Links, AboutOffer
        <5>5. QED
          BY <5>2, <5>4
      <4>2. QED
        BY <3>2, <4>1
    <3>3. ASSUME NEW t \in Sessions, Linking(t, a), t # s
          PROVE  Linking(t, a)'
      BY <1>1, <3>3, RequestStep DEF Linking
    <3>4. CASE Linking(s, a)
      <4>1. posting # 0
        BY <2>1, <3>4 DEF Linking, OfferStays, AboutOffer
      <4>2. CASE request[s].step = "read-link"
        <5>1. ReadLink(s)
          BY <1>1, <2>1, <4>2 DEF Serve, InsertCompany, InsertRow, RecordCreated, CheckFile, WriteStatus,
             Stamp, LookForSnapshot, Capture, RecordEvent, SaveLink, NoteMark, SoftDelete,
             DeleteApplications, DeleteCompany, DeleteFile, AtStep
        <5>2. request'[s] = [request[s] EXCEPT !.row = link, !.step = "save-link"]
          BY <4>1, <5>1 DEF ReadLink, Become, Types, TypeOK
        <5>3. Linking(s, a)'
          BY <3>4, <5>2 DEF Linking, Types, TypeOK, Requests
        <5>4. QED
          BY <5>3
      <4>3. CASE request[s].step = "save-link"
        <5>1. SaveLink(s)
          BY <1>1, <2>1, <4>3 DEF Serve, InsertCompany, InsertRow, RecordCreated, CheckFile, WriteStatus,
             Stamp, LookForSnapshot, Capture, RecordEvent, ReadLink, NoteMark, SoftDelete,
             DeleteApplications, DeleteCompany, DeleteFile, AtStep
        <5>2. link' = Patched(request[s])
          BY <2>1, <2>3, <3>4, <5>1, Saves DEF Linking
        <5>3. link'.app = a /\ link' # NoRow
          <6>1. Patched(request[s]) \in Links /\ Patched(request[s]).app = a
            BY <3>4, TrackingAssumption DEF Linking, Patched, Links, Types, TypeOK, Requests
          <6>2. QED
            BY <5>2, <6>1, NullAssumption
        <5>4. QED
          BY <5>3
      <4>4. QED
        BY <3>4, <4>2, <4>3 DEF Linking
    <3>5. QED
      BY <2>1, <3>1, <3>2, <3>3, <3>4 DEF OfferLinked
  <2>4. QED
    BY <2>2, <2>3
<1>2. ASSUME NEW s \in Sessions, Serve(s)
      PROVE  OfferLinked'
  BY <1>1, <1>2 DEF OfferLinked, Linking, Live
<1>3. ASSUME NEW s \in Sessions, Arrive(s), Calm'
      PROVE  OfferLinked'
  <2>1. /\ UNCHANGED <<apps, link, stopped>> /\ raced \subseteq raced' /\ AtStep(s, "idle")
        /\ \A t \in Sessions \ {s} : request'[t] = request[t]
    BY <1>3, ArriveStep DEF data
  <2>2. ASSUME NEW t \in Sessions, NEW a \in AppIds, Linking(t, a)
        PROVE  Linking(t, a)'
    BY <2>1, <2>2 DEF Linking, AtStep
  <2>3. Calm
    BY <1>3, <2>1 DEF Calm
  <2>4. ASSUME NEW a \in AppIds, Live(a)', apps'[a].offer
        PROVE  (link' # NoRow /\ link'.app = a) \/ \E t \in Sessions : Linking(t, a)'
    BY <2>1, <2>2, <2>3, <2>4 DEF OfferLinked, Live
  <2>5. QED
    BY <2>4 DEF OfferLinked, Linking, Live
<1>4. CASE EditPosting \/ UNCHANGED vars
  BY <1>4 DEF EditPosting, vars, OfferLinked, Calm, Linking, Live
<1>5. CASE ~Calm'
  BY <1>5 DEF OfferLinked
<1>6. QED
  BY <1>2, <1>3, <1>4, <1>5 DEF Next

\* The bookmark is what its events tell, or a save is about to tell it.
LEMMA SavesFollowStep ==
    ASSUME Types, Alone, OfferStays, ReadIsFresh, SavesFollow, [Next]_vars
    PROVE  SavesFollow'
<1> DEFINE Told == \A s \in Sessions : ~Noting(s)
<1>1. ASSUME NEW s \in Sessions, Serve(s), Calm', posting' # 0
      PROVE  /\ \A t \in Sessions : Noting(t)' => link' # NoRow /\ link'.saved = request'[t].flag
             /\ link' = NoRow => ~saves'.saved
             /\ (link' # NoRow /\ Told') => link'.saved = saves'.saved
  <2> DEFINE r == request[s]
  <2>1. Calm /\ ~Stop(s) /\ posting' = posting
    BY <1>1, OfferStep
  <2>2. /\ \A t \in Sessions : Noting(t) => link # NoRow /\ link.saved = request[t].flag
        /\ link = NoRow => ~saves.saved
        /\ (link # NoRow /\ Told) => link.saved = saves.saved
    BY <1>1, <2>1 DEF SavesFollow
  <2>3. /\ r \in Requests /\ Shaped(r) /\ request \in [Sessions -> Requests]
        /\ saves \in [saved : BOOLEAN, viewed : {"none", "SEEN", "DISMISSED"}]
        /\ link = NoRow \/ link \in Links
    BY DEF Types, TypeOK, Shapes
  <2>4. ASSUME NEW t \in Sessions \ {s}
        PROVE  Noting(t)' <=> Noting(t)
    BY <1>1, RequestStep DEF Noting, AtStep
  <2>5. ASSUME NEW t \in Sessions \ {s}, Noting(t)
        PROVE  link' = link /\ saves' = saves /\ request'[t] = request[t]
    BY <1>1, <2>1, <2>5, Undisturbed, RequestStep DEF Noting, AtStep, Busy, About, AboutOffer
  <2>6. CASE r.step = "save-link" /\ request'[s] # Idle
    <3>1. link' = Patched(r) /\ link' # NoRow /\ r.op \in AboutOffer /\ saves' = saves
          /\ request'[s].step = IF r.op = "track" THEN "created" ELSE "note"
      <4>1. SaveLink(s)
        BY <1>1, <2>1, <2>6 DEF Serve, InsertCompany, InsertRow, RecordCreated, CheckFile, WriteStatus,
           Stamp, LookForSnapshot, Capture, RecordEvent, ReadLink, NoteMark, SoftDelete,
           DeleteApplications, DeleteCompany, DeleteFile, AtStep
      <4>2. link' = Patched(r) /\ Go(s, IF r.op = "track" THEN "created" ELSE "note") /\ saves' = saves
        BY <2>3, <2>6, <4>1 DEF SaveLink, Done, Become
      <4>3. request'[s].step = IF r.op = "track" THEN "created" ELSE "note"
        BY <2>3, <4>2 DEF Go, Become, Requests
      <4>4. Patched(r) \in Links
        BY <2>3, <2>6, TrackingAssumption DEF Patched, Shaped, Requests, Links, AboutOffer
      <4>5. QED
        BY <2>3, <2>6, <4>2, <4>3, <4>4, NullAssumption DEF Shaped
    <3>2. r.row = link
      BY <2>1, <2>6 DEF ReadIsFresh, AtStep
    <3>3. request'[s].op = r.op /\ request'[s].flag = r.flag
      BY <1>1, <3>1, RequestStep DEF Idle
    <3>4. CASE r.op = "save"
      <4>1. link'.saved = r.flag
        BY <2>3, <3>1, <3>2, <3>4 DEF Patched, Links
      <4>2. Noting(s)'
        BY <3>1, <3>3, <3>4 DEF Noting, AtStep
      <4>3. QED
        BY <2>2, <2>4, <2>5, <2>6, <3>1, <3>3, <4>1, <4>2
    <3>5. CASE r.op # "save"
      <4>1. link'.saved = IF link = NoRow THEN FALSE ELSE link.saved
        BY <2>3, <3>1, <3>2, <3>5 DEF Patched, Links, AboutOffer
      <4>2. ~Noting(s)' /\ ~Noting(s)
        BY <2>6, <3>3, <3>5 DEF Noting, AtStep
      <4>3. Told' => Told
        BY <2>4, <4>2
      <4>4. link = NoRow => ~saves.saved
        BY <2>2
      <4>5. QED
        BY <2>2, <2>3, <2>4, <2>5, <2>6, <3>1, <4>1, <4>2, <4>3, <4>4
    <3>6. QED
      BY <3>4, <3>5
  <2>7. CASE r.step = "delete" /\ link' # link
    <3>1. link # NoRow /\ link' # NoRow /\ link'.saved = link.saved /\ saves' = saves
      BY <1>1, <2>1, <2>7, OfferStep DEF AtStep
    <3>2. ~Noting(s)' /\ ~Noting(s)
      BY <1>1, <2>7, Moves DEF Noting, MovesTo, AtStep, SaveLink
    <3>3. QED
      BY <2>2, <2>4, <2>5, <3>1, <3>2
  <2>8. CASE r.step = "note"
    <3>1. NoteMark(s) /\ link' = link /\ request'[s] = Idle
      <4>1. NoteMark(s)
        BY <1>1, <2>1, <2>8 DEF Serve, InsertCompany, InsertRow, RecordCreated, CheckFile, WriteStatus,
           Stamp, LookForSnapshot, Capture, RecordEvent, ReadLink, SaveLink, SoftDelete,
           DeleteApplications, DeleteCompany, DeleteFile, AtStep
      <4>2. QED
        BY <2>3, <4>1 DEF NoteMark, Done, Become
    <3>2. ~Noting(s)'
      BY <3>1 DEF Noting, AtStep, Idle
    <3>3. CASE r.op = "save"
      <4>1. saves'.saved = r.flag /\ link # NoRow /\ link.saved = r.flag
        BY <2>2, <2>3, <2>8, <3>1, <3>3 DEF NoteMark, Noting, AtStep
      <4>2. QED
        BY <2>5, <2>4, <2>2, <3>1, <3>2, <4>1
    <3>4. CASE r.op # "save"
      <4>1. saves'.saved = saves.saved /\ ~Noting(s)
        BY <2>3, <3>1, <3>4 DEF NoteMark, Noting
      <4>2. QED
        BY <2>2, <2>4, <2>5, <3>1, <3>2, <4>1
    <3>5. QED
      BY <3>3, <3>4
  <2>9. CASE r.step # "note" /\ link' = link /\ ~(r.step = "save-link" /\ request'[s] # Idle)
    <3>1. saves' = saves /\ ~Noting(s)
      BY <1>1, <2>9, OfferStep DEF AtStep, Noting
    <3>2. ~Noting(s)'
      BY <1>1, <2>9, Moves DEF MovesTo, Noting, AtStep, Idle
    <3>3. QED
      BY <2>2, <2>4, <2>5, <2>9, <3>1, <3>2
  <2>10. QED
    <3>1. link' # link => r.step \in {"save-link", "delete"}
      BY <1>1, <2>1, OfferStep DEF AtStep
    <3>2. (r.step = "save-link" /\ link' # link) => request'[s] # Idle
      <4>1. (AtStep(s, "save-link") /\ link' # link) => request'[s].step \in {"created", "note"}
        BY <1>1, OfferStep DEF AtStep
      <4>2. QED
        BY <4>1 DEF AtStep, Idle
    <3>3. QED
      BY <2>6, <2>7, <2>8, <2>9, <3>1, <3>2
<1>2. ASSUME NEW s \in Sessions, Serve(s)
      PROVE  SavesFollow'
  BY <1>1, <1>2 DEF SavesFollow, Noting, AtStep
<1>3. ASSUME NEW s \in Sessions, Arrive(s)
      PROVE  SavesFollow'
  <2>1. /\ UNCHANGED <<posting, saves, link, stopped>> /\ raced \subseteq raced' /\ AtStep(s, "idle")
        /\ \A t \in Sessions \ {s} : request'[t] = request[t]
        /\ request'[s].step # "note"
    BY <1>3, ArriveStep DEF data
  <2>2. \A t \in Sessions : Noting(t)' <=> Noting(t)
    BY <2>1 DEF Noting, AtStep
  <2>3. \A t \in Sessions : Noting(t) => request'[t] = request[t]
    BY <2>1 DEF Noting, AtStep
  <2>4. Calm' => Calm
    BY <2>1 DEF Calm
  <2>5. QED
    BY <2>1, <2>2, <2>3, <2>4 DEF SavesFollow
<1>4. CASE EditPosting
  <2>1. posting # 0 /\ UNCHANGED <<request, saves, link, raced, stopped>>
    BY <1>4, TrackingAssumption DEF EditPosting
  <2>2. QED
    BY <2>1 DEF SavesFollow, Calm, Noting, AtStep
<1>5. CASE UNCHANGED vars
  BY <1>5 DEF vars, SavesFollow, Calm, Noting, AtStep
<1>6. QED
  BY <1>2, <1>3, <1>4, <1>5 DEF Next

\* A request about an application that nobody else is about finds it as it read it.
LEMMA SteadyStep ==
    ASSUME Types, Numbered, Alone, Steady, [Next]_vars
    PROVE  Steady'
<1>1. ASSUME NEW s \in Sessions, Serve(s), NEW t \in Sessions,
             NEW a, a = request'[t].app, a # 0, a \notin raced'
      PROVE  LET q == request'[t] IN
             /\ apps'[a] # NoApp => ~apps'[a].gone
             /\ (apps'[a] # NoApp /\ q.step \in {"file", "write"}) => apps'[a].status = q.from
             /\ (q.step = "capture" \/ q.text # 0) => ~WasSent(a)'
  <2> DEFINE q == request'[t]
             r == request[t]
  <2>1. a \in AppIds /\ raced' = raced /\ q # Idle
    <3>1. Types'
      BY <1>1, TypesInductive DEF Next
    <3>2. QED
      BY <1>1, <3>1, OfferStep, TrackingAssumption DEF Types, TypeOK, Requests, AppIds, Idle
  <2>2. CASE t # s
    <3>1. q = r /\ a \in About(r) /\ Busy(t)
      BY <1>1, <2>2, RequestStep DEF About, Busy, AtStep, Types, Shapes, Shaped
    <3>2. a # request[s].app
      BY <1>1, <2>1, <2>2, <3>1, Lone, ServeBusy, TrackingAssumption DEF About, AppIds
    <3>3. apps'[a] # NoApp => apps[a] # NoApp
      BY <1>1, <2>1, <3>1, Known DEF Numbered
    <3>4. log'[a] = log[a] \/ log'[a] = << >>
      BY <1>1, <2>1, <3>2, LogStep
    <3>5. WasSent(a)' => WasSent(a)
      BY <3>4 DEF WasSent
    <3>6. apps'[a] # NoApp => apps'[a].gone = apps[a].gone /\ apps'[a].status = apps[a].status
      BY <1>1, <2>1, <3>2, <3>3, AppsStep
    <3>7. QED
      BY <1>1, <2>1, <3>1, <3>3, <3>5, <3>6 DEF Steady
  <2>3. CASE t = s /\ a # r.app
    <3>1. /\ AtStep(s, "row") /\ a = made'
          /\ apps' = [apps EXCEPT ![made'] =
                [status |-> r.to, dated |-> IF r.op = "track" THEN r.to = "APPLIED" ELSE r.flag,
                 cv |-> FALSE, offer |-> r.op = "track", gone |-> FALSE]]
      BY <1>1, <2>1, <2>3, RequestStep
    <3>2. ~apps'[a].gone
      BY <2>1, <3>1 DEF Types, TypeOK
    <3>3. q.step \notin {"file", "write", "capture"} /\ q.text = 0
      BY <1>1, <2>3, <3>1, Moves DEF MovesTo, AtStep, LookForSnapshot, Capture
    <3>4. QED
      BY <3>2, <3>3
  <2>4. CASE t = s /\ a = r.app
    <3>1. q.from = r.from /\ MovesTo(s, r, q)
      BY <1>1, <2>1, <2>4, RequestStep, Moves
    <3>2. apps'[a] # NoApp => apps[a] # NoApp
      BY <1>1, <2>1, <2>4, Known DEF Numbered
    <3>3. apps'[a] # NoApp => ~apps'[a].gone
      BY <1>1, <2>1, <2>4, <3>2, AppsStep DEF Steady
    <3>4. q.step \in {"file", "write"} => r.step = "file" /\ apps' = apps
      BY <3>1 DEF MovesTo
    <3>5. (q.step = "capture" \/ q.text # 0) => ~WasSent(a) /\ log' = log
      BY <1>1, <2>1, <2>4, <3>1 DEF MovesTo, LookForSnapshot, Capture, data, AtStep, Steady
    <3>6. QED
      BY <1>1, <2>1, <2>4, <3>1, <3>2, <3>3, <3>4, <3>5 DEF Steady, WasSent
  <2>5. QED
    BY <2>2, <2>3, <2>4
<1>2. ASSUME NEW s \in Sessions, Serve(s)
      PROVE  Steady'
  BY <1>1, <1>2 DEF Steady, WasSent
<1>3. ASSUME NEW s \in Sessions, Arrive(s)
      PROVE  Steady'
  <2>1. /\ UNCHANGED <<apps, log>> /\ raced \subseteq raced'
        /\ \A t \in Sessions \ {s} : request'[t] = request[t]
        /\ request'[s].app # 0 => Live(request'[s].app)
        /\ request'[s].step \in {"file", "write"} => request'[s].from = apps[request'[s].app].status
        /\ request'[s].step # "capture" /\ request'[s].text = 0
    BY <1>3, ArriveStep DEF data
  <2>2. QED
    BY <2>1 DEF Steady, WasSent, Live
<1>4. CASE EditPosting \/ UNCHANGED vars
  BY <1>4 DEF EditPosting, vars, Steady, WasSent
<1>5. QED
  BY <1>2, <1>3, <1>4 DEF Next

\* Appending to a log keeps what was there, and adds the one event.
LEMMA Appended ==
    ASSUME NEW l \in Seq(Events), NEW e
    PROVE  /\ DOMAIN Append(l, e) = DOMAIN l \union {Len(l) + 1}
           /\ Len(l) + 1 \notin DOMAIN l
           /\ Append(l, e)[Len(l) + 1] = e
           /\ \A i \in DOMAIN l : Append(l, e)[i] = l[i] /\ i < Len(l) + 1
OBVIOUS

\* What a step of s does to a log: nothing, losing it all, or one event more.
LEMMA LogGrows ==
    ASSUME Types, NEW s \in Sessions, Serve(s), NEW b \in AppIds
    PROVE  \/ log'[b] = log[b]
           \/ log'[b] = << >> /\ apps'[b] = NoApp
           \/ \E e \in Events :
                 /\ log'[b] = Append(log[b], e) /\ b = request[s].app /\ apps' = apps /\ apps[b] # NoApp
                 /\ \/ e.type = "created" /\ e.text = 0
                    \/ /\ AtStep(s, "event") /\ request'[s] = Idle
                       /\ e.type = request[s].event /\ e.text = request[s].text
<1>1. request[s] \in Requests /\ Shaped(request[s])
  BY DEF Types, TypeOK, Shapes
<1>2. [type |-> "created", text |-> 0] \in Events
  BY TrackingAssumption DEF Events
<1>3. AtStep(s, "event") => [type |-> request[s].event, text |-> request[s].text] \in Events
  BY <1>1 DEF AtStep, Shaped, Requests, Events
<1>4. CASE /\ b = request[s].app /\ apps[b] # NoApp /\ apps' = apps
           /\ log'[b] = Append(log[b], [type |-> "created", text |-> 0])
  BY <1>2, <1>4
<1>5. CASE /\ b = request[s].app /\ apps[b] # NoApp /\ apps' = apps
           /\ AtStep(s, "event") /\ request'[s] = Idle
           /\ log'[b] = Append(log[b], [type |-> request[s].event, text |-> request[s].text])
  BY <1>3, <1>5
<1>6. QED
  BY <1>4, <1>5, LogStep

\* Only what says that an application went out carries a text, and only once.
LEMMA FrozenOnceStep ==
    ASSUME Types, Steady, FrozenOnce, [Next]_vars
    PROVE  FrozenOnce'
<1>1. ASSUME NEW s \in Sessions, Serve(s), NEW a \in AppIds
      PROVE  /\ \A i \in Nat : i \in Frozen(a)' => log'[a][i].type = "sent"
             /\ a \notin raced' => \A i, j \in Nat : (i \in Frozen(a)' /\ j \in Frozen(a)') => i = j
  <2>1. log[a] \in Seq(Events) /\ raced' = raced /\ request[s] \in Requests /\ Shaped(request[s])
    BY <1>1, OfferStep DEF Types, TypeOK, Shapes
  <2>2. CASE log'[a] = log[a]
    <3>1. Frozen(a)' = Frozen(a)
      BY <2>2 DEF Frozen
    <3>2. QED
      BY <2>1, <2>2, <3>1 DEF FrozenOnce
  <2>3. CASE log'[a] = << >>
    BY <2>3 DEF Frozen
  <2>4. ASSUME NEW e \in Events, log'[a] = Append(log[a], e), e.text = 0
        PROVE  Frozen(a)' = Frozen(a) /\ \A i \in Frozen(a) : log'[a][i] = log[a][i] /\ i \in Nat
    BY <2>1, <2>4, Appended DEF Frozen
  <2>5. ASSUME NEW e \in Events, log'[a] = Append(log[a], e), e.text # 0, a = request[s].app,
               e.type = request[s].event, e.text = request[s].text
        PROVE  /\ e.type = "sent"
               /\ \A i \in Frozen(a)' : i = Len(log[a]) + 1 \/ (i \in Frozen(a) /\ log'[a][i] = log[a][i])
               /\ log'[a][Len(log[a]) + 1] = e
               /\ a \notin raced => Frozen(a) = {}
    <3>1. e.type = "sent"
      BY <2>1, <2>5 DEF Shaped
    <3>2. a \notin raced => ~WasSent(a)
      BY <2>5, TrackingAssumption DEF Steady, AppIds
    <3>3. a \notin raced => Frozen(a) = {}
      BY <2>1, <3>2 DEF FrozenOnce, Frozen, WasSent
    <3>4. QED
      BY <2>1, <2>5, <3>1, <3>3, Appended DEF Frozen
  <2>6. ASSUME NEW e \in Events, log'[a] = Append(log[a], e), e.text = 0 \/ a = request[s].app,
               e.text = 0 \/ (e.type = request[s].event /\ e.text = request[s].text)
        PROVE  /\ \A i \in Nat : i \in Frozen(a)' => log'[a][i].type = "sent"
               /\ a \notin raced' => \A i, j \in Nat : (i \in Frozen(a)' /\ j \in Frozen(a)') => i = j
    <3>1. CASE e.text = 0
      BY <2>1, <2>4, <2>6, <3>1, ZenonT(40) DEF FrozenOnce
    <3>2. CASE e.text # 0
      <4>1. /\ e.type = "sent" /\ log'[a][Len(log[a]) + 1] = e
            /\ \A i \in Frozen(a)' : i = Len(log[a]) + 1 \/ (i \in Frozen(a) /\ log'[a][i] = log[a][i])
            /\ a \notin raced => Frozen(a) = {}
        BY <2>5, <2>6, <3>2
      <4>2. QED
        BY <2>1, <4>1 DEF FrozenOnce
    <3>3. QED
      BY <3>1, <3>2
  <2>7. QED
    BY <1>1, <2>2, <2>3, <2>6, LogGrows
<1>2. ASSUME NEW s \in Sessions, Serve(s)
      PROVE  FrozenOnce'
  BY <1>1, <1>2 DEF FrozenOnce, Frozen
<1>3. ASSUME NEW s \in Sessions, Arrive(s)
      PROVE  FrozenOnce'
  <2>1. log' = log /\ raced \subseteq raced'
    BY <1>3, ArriveStep DEF data
  <2>2. QED
    BY <2>1 DEF FrozenOnce, Frozen
<1>4. CASE EditPosting \/ UNCHANGED vars
  BY <1>4 DEF EditPosting, vars, FrozenOnce, Frozen
<1>5. QED
  BY <1>2, <1>3, <1>4 DEF Next

\* The first event that says that an offer's application went out stays first.
LEMMA FirstFrozenStays ==
    ASSUME Types, NEW a \in AppIds, FirstFrozen(a),
           log'[a] = log[a] \/ \E e \in Events : log'[a] = Append(log[a], e)
    PROVE  FirstFrozen(a)'
<1>1. log[a] \in Seq(Events)
  BY DEF Types, TypeOK
<1>2. PICK i \in DOMAIN log[a] :
          /\ log[a][i].type = "sent" /\ log[a][i].text > 0
          /\ \A j \in DOMAIN log[a] : log[a][j].type = "sent" => i <= j
  BY DEF FirstFrozen
<1>3. CASE log'[a] = log[a]
  BY <1>3 DEF FirstFrozen
<1>4. ASSUME NEW e \in Events, log'[a] = Append(log[a], e)
      PROVE  FirstFrozen(a)'
  <2>1. i \in DOMAIN log'[a] /\ log'[a][i] = log[a][i]
    BY <1>1, <1>4, Appended
  <2>2. ASSUME NEW j \in DOMAIN log'[a], log'[a][j].type = "sent"
        PROVE  i <= j
    <3>1. j \in DOMAIN log[a] \/ j = Len(log[a]) + 1
      BY <1>1, <1>4, Appended
    <3>2. j \in DOMAIN log[a] => log'[a][j] = log[a][j]
      BY <1>1, <1>4, Appended
    <3>3. i <= Len(log[a]) + 1
      BY <1>1
    <3>4. QED
      BY <1>2, <2>2, <3>1, <3>2, <3>3
  <2>3. QED
    BY <1>2, <2>1, <2>2 DEF FirstFrozen
<1>5. QED
  BY <1>3, <1>4

\* An offer's application that went out froze the offer's text first.
LEMMA OfferFrozenStep ==
    ASSUME Types, Numbered, Alone, OfferStays, OfferLinked, Steady, OfferFrozen, [Next]_vars
    PROVE  OfferFrozen'
<1>1. ASSUME NEW s \in Sessions, Serve(s), Calm'
      PROVE  OfferFrozen'
  <2>1. Calm /\ raced' = raced /\ posting \in Nat
    BY <1>1, OfferStep, TrackingAssumption DEF Types, TypeOK
  <2>2. ASSUME NEW a \in AppIds, apps'[a] # NoApp, apps'[a].offer, log'[a] # << >>
        PROVE  apps[a] # NoApp /\ apps[a].offer
               /\ (log'[a] = log[a] \/ \E e \in Events : log'[a] = Append(log[a], e))
    <3>1. a <= made
      <4>1. CASE a > made
        <5>1. log[a] = << >> /\ apps[a] = NoApp
          BY <4>1 DEF Numbered
        <5>2. QED
          BY <1>1, <2>2, <5>1, LogGrows
      <4>2. QED
        BY <4>1, TrackingAssumption DEF AppIds, Types, TypeOK
    <3>2. apps[a] # NoApp
      BY <1>1, <2>2, <3>1, Known
    <3>3. QED
      BY <1>1, <2>2, <3>2, AppsStep, LogGrows
  <2>3. ASSUME NEW a \in AppIds \ raced, apps'[a] # NoApp, apps'[a].offer, WasSent(a)'
        PROVE  FirstFrozen(a)'
    <3>1. log'[a] # << >> /\ log[a] \in Seq(Events)
      BY <2>3 DEF WasSent, Types, TypeOK
    <3>2. CASE WasSent(a)
      <4>1. FirstFrozen(a)
        BY <2>1, <2>2, <2>3, <3>1, <3>2 DEF OfferFrozen
      <4>2. QED
        BY <2>2, <2>3, <3>1, <4>1, FirstFrozenStays
    <3>3. CASE ~WasSent(a)
      <4>1. log'[a] # log[a]
        BY <2>3, <3>3 DEF WasSent
      <4>2. PICK e \in Events :
                /\ log'[a] = Append(log[a], e) /\ a = request[s].app /\ apps' = apps
                /\ \/ e.type = "created" /\ e.text = 0
                   \/ /\ AtStep(s, "event")
                      /\ e.type = request[s].event /\ e.text = request[s].text
        BY <1>1, <3>1, <4>1, LogGrows
      <4>3. /\ DOMAIN log'[a] = DOMAIN log[a] \union {Len(log[a]) + 1}
            /\ log'[a][Len(log[a]) + 1] = e
            /\ \A i \in DOMAIN log[a] : log'[a][i] = log[a][i]
        BY <3>1, <4>2, Appended
      <4>4. e.type = "sent"
        BY <2>3, <3>3, <4>3 DEF WasSent
      <4>5. AtStep(s, "event") /\ request[s].event = "sent" /\ e.text = request[s].text
        BY <4>2, <4>4
      <4>6. request[s].text # 0
        <5>1. a # 0 /\ apps[a] # NoApp /\ apps[a].offer
          BY <2>2, <2>3, <3>1, TrackingAssumption DEF AppIds
        <5>2. QED
          BY <2>1, <2>3, <3>3, <4>2, <4>5, <5>1 DEF OfferFrozen, AtStep
      <4>7. e.text > 0 /\ Len(log[a]) + 1 \in DOMAIN log'[a]
        BY <4>3, <4>5, <4>6, TrackingAssumption DEF Types, TypeOK, Requests
      <4>8. ASSUME NEW j \in DOMAIN log'[a], log'[a][j].type = "sent"
            PROVE  Len(log[a]) + 1 <= j
        <5>1. j = Len(log[a]) + 1
          BY <3>3, <4>3, <4>8 DEF WasSent
        <5>2. QED
          BY <3>1, <5>1
      <4>9. QED
        BY <4>3, <4>4, <4>7, <4>8 DEF FirstFrozen
    <3>4. QED
      BY <3>2, <3>3
  <2>4. ASSUME NEW t \in Sessions, NEW a, a = request'[t].app, a # 0, a \notin raced,
               request'[t].step = "event", request'[t].event = "sent", request'[t].text = 0,
               apps'[a] # NoApp, apps'[a].offer
        PROVE  WasSent(a)'
    <3>1. a \in AppIds /\ request'[t] # Idle
      <4>1. Types'
        BY <1>1, TypesInductive DEF Next
      <4>2. QED
        BY <2>4, <4>1, TrackingAssumption DEF Types, TypeOK, Requests, AppIds, Idle
    <3>2. CASE t # s
      <4>1. request'[t] = request[t]
        BY <1>1, <3>2, RequestStep
      <4>2. apps[a] # NoApp /\ apps[a].offer
        <5>1. apps[a] # NoApp
          BY <1>1, <2>4, <3>1, <4>1, Known DEF Numbered
        <5>2. QED
          BY <1>1, <2>4, <3>1, <5>1, AppsStep
      <4>3. WasSent(a)
        BY <2>1, <2>4, <4>1, <4>2 DEF OfferFrozen
      <4>4. log'[a] = log[a]
        <5>1. a # request[s].app
          BY <1>1, <2>4, <3>1, <3>2, <4>1, Lone, ServeBusy, TrackingAssumption DEF About, AppIds, Busy, AtStep
        <5>2. QED
          BY <1>1, <2>4, <3>1, <5>1, LogGrows
      <4>5. QED
        BY <4>3, <4>4 DEF WasSent
    <3>3. CASE t = s
      <4>1. MovesTo(s, request[s], request'[s])
        BY <1>1, Moves
      <4>2. a = request[s].app
        BY <1>1, <2>4, <3>1, <3>3, <4>1, RequestStep DEF MovesTo, LookForSnapshot, Capture, AtStep
      <4>3. CASE LookForSnapshot(s) /\ WasSent(a)
        BY <4>3 DEF LookForSnapshot, data, WasSent
      <4>4. CASE /\ Capture(s)
                 /\ request'[s].text = IF link # NoRow /\ link.app = request[s].app THEN posting ELSE 0
        <5>1. apps' = apps /\ request[s].step = "capture"
          BY <4>4 DEF Capture, data, AtStep
        <5>2. Live(a) /\ apps[a].offer
          BY <2>1, <2>4, <3>1, <4>2, <5>1 DEF Live, Steady
        <5>3. posting # 0
          BY <2>1, <2>4, <3>1, <5>1 DEF OfferStays
        <5>4. ASSUME NEW u \in Sessions, Linking(u, a)
              PROVE  FALSE
          <6>1. u = s
            BY <2>4, <3>1, <4>2, <5>1, <5>4, Lone, TrackingAssumption DEF Linking, About, AppIds, Busy, AtStep
          <6>2. QED
            BY <5>1, <5>4, <6>1 DEF Linking
        <5>5. link # NoRow /\ link.app = a
          BY <2>1, <3>1, <5>2, <5>4 DEF OfferLinked
        <5>6. QED
          BY <2>4, <3>3, <4>2, <4>4, <5>3, <5>5
      <4>5. QED
        BY <2>4, <3>3, <4>1, <4>2, <4>3, <4>4 DEF MovesTo
    <3>4. QED
      BY <3>2, <3>3
  <2>5. QED
    BY <2>1, <2>3, <2>4 DEF OfferFrozen, FirstFrozen, WasSent
<1>2. ASSUME NEW s \in Sessions, Arrive(s), Calm'
      PROVE  OfferFrozen'
  <2>1. /\ UNCHANGED <<apps, log, stopped>> /\ raced \subseteq raced'
        /\ \A t \in Sessions \ {s} : request'[t] = request[t]
        /\ request'[s].step = "event" => request'[s].event # "sent"
    BY <1>2, ArriveStep DEF data
  <2>2. QED
    BY <2>1, <1>2 DEF OfferFrozen, Calm, FirstFrozen, WasSent
<1>3. CASE EditPosting \/ UNCHANGED vars
  BY <1>3 DEF EditPosting, vars, OfferFrozen, Calm, FirstFrozen, WasSent
<1>4. CASE ~Calm'
  BY <1>4 DEF OfferFrozen
<1>5. QED
  BY <1>1, <1>2, <1>3, <1>4 DEF Next

\* A request that owes an application the event of its status goes on owing it,
\* or records it.
LEMMA OwingStep ==
    ASSUME Types, Numbered, TracksOffers, OfferStays, ReadIsFresh,
           NEW s \in Sessions, Serve(s), ~Stop(s), NEW a \in AppIds, Owing(s, a),
           apps[a] # NoApp, apps'[a] # NoApp, apps'[a].status = apps[a].status,
           apps[a].status # "WISHLIST", apps[a].offer => Calm
    PROVE  Owing(s, a)' \/ Logged(a)'
<1> DEFINE r == request[s]
           q == request'[s]
<1>1. /\ r \in Requests /\ Shaped(r) /\ request \in [Sessions -> Requests] /\ r.app = a /\ a # 0
      /\ log[a] \in Seq(Events) /\ log \in [AppIds -> Seq(Events)]
  BY TrackingAssumption DEF Types, TypeOK, Shapes, Owing, AppIds
<1>2. apps[a].status \in Statuses
  BY DEF Types, TypeOK, Apps
<1>3. /\ EventFor["APPLIED"] = "sent" /\ EventFor["WISHLIST"] = "none"
      /\ \A x \in Statuses \ {"WISHLIST"} : EventFor[x] # "none"
  BY DEF EventFor, Statuses
<1>4. ASSUME NEW step, Go(s, step)
      PROVE  q = [r EXCEPT !.step = step] /\ q.step = step /\ q.app = a /\ q.event = r.event /\ q.to = r.to
  BY <1>1, <1>4 DEF Go, Become, Requests
<1>5. CASE r.step \in {"read-link", "save-link"}
  <2>1. r.op = "track" /\ r.to = apps[a].status
    BY <1>1, <1>5 DEF Owing, Shaped, AboutOffer
  <2>2. Calm /\ posting # 0
    BY <1>1, <1>5, <2>1 DEF TracksOffers, OfferStays, AboutOffer
  <2>3. CASE r.step = "read-link"
    <3>1. ReadLink(s)
      BY <2>3 DEF Serve, InsertCompany, InsertRow, RecordCreated, CheckFile, WriteStatus,
         Stamp, LookForSnapshot, Capture, RecordEvent, SaveLink, NoteMark, SoftDelete,
         DeleteApplications, DeleteCompany, DeleteFile, AtStep
    <3>2. q = [r EXCEPT !.row = link, !.step = "save-link"]
      BY <1>1, <2>2, <3>1 DEF ReadLink, Become
    <3>3. q.step = "save-link" /\ q.app = a /\ q.to = r.to
      BY <1>1, <3>2 DEF Requests
    <3>4. QED
      BY <2>1, <3>3 DEF Owing
  <2>4. CASE r.step = "save-link"
    <3>1. SaveLink(s)
      BY <2>4 DEF Serve, InsertCompany, InsertRow, RecordCreated, CheckFile, WriteStatus,
         Stamp, LookForSnapshot, Capture, RecordEvent, ReadLink, NoteMark, SoftDelete,
         DeleteApplications, DeleteCompany, DeleteFile, AtStep
    <3>2. q.step = "created"
      BY <1>1, <2>1, <2>2, <3>1, Saves
    <3>3. q.app = a /\ q.to = r.to
      BY <2>4, <1>1, <3>2, RequestStep DEF AtStep, Idle
    <3>4. QED
      BY <2>1, <3>2, <3>3 DEF Owing
  <2>5. QED
    BY <1>5, <2>3, <2>4
<1>6. CASE r.step = "created"
  <2>1. RecordCreated(s)
    BY <1>6 DEF Serve, InsertCompany, InsertRow, CheckFile, WriteStatus, ReadLink,
       Stamp, LookForSnapshot, Capture, RecordEvent, SaveLink, NoteMark, SoftDelete,
       DeleteApplications, DeleteCompany, DeleteFile, AtStep
  <2>2. q = Change(r)
    BY <1>1, <2>1 DEF RecordCreated, AppendTo, Become
  <2>3. r.to = "APPLIED" /\ apps[a].status = "APPLIED" /\ r.op \in {"create", "track"}
    BY <1>1, <1>6 DEF Owing, Shaped
  <2>4. CASE r.op = "track"
    <3>1. q = [r EXCEPT !.event = "sent", !.step = "exists"]
      BY <2>2, <2>3, <2>4 DEF Change
    <3>2. q.step = "exists" /\ q.event = "sent" /\ q.app = a
      BY <1>1, <3>1 DEF Requests
    <3>3. QED
      BY <1>3, <2>3, <3>2 DEF Owing
  <2>5. CASE r.op = "create"
    <3>1. r.from = "WISHLIST"
      BY <1>1, <2>5 DEF Shaped
    <3>2. q = [r EXCEPT !.event = "sent", !.step = "stamp"]
      BY <1>3, <2>2, <2>3, <2>5, <3>1 DEF Change
    <3>3. q.step = "stamp" /\ q.event = "sent" /\ q.app = a
      BY <1>1, <3>2 DEF Requests
    <3>4. QED
      BY <1>3, <2>3, <3>3 DEF Owing
  <2>6. QED
    BY <2>3, <2>4, <2>5
<1>7. CASE r.step \in {"stamp", "exists", "capture"}
  <2>1. Stamp(s) \/ LookForSnapshot(s) \/ Capture(s)
    BY <1>7 DEF Serve, InsertCompany, InsertRow, CheckFile, WriteStatus, ReadLink, RecordCreated,
       RecordEvent, SaveLink, NoteMark, SoftDelete,
       DeleteApplications, DeleteCompany, DeleteFile, AtStep
  <2>2. q.step \in {"exists", "capture", "event"} /\ q.app = a /\ q.event = r.event
    <3>1. CASE Stamp(s) \/ LookForSnapshot(s)
      BY <1>4, <3>1 DEF Stamp, LookForSnapshot
    <3>2. CASE Capture(s)
      <4>1. PICK n : q = [r EXCEPT !.step = "event", !.text = n]
        BY <1>1, <3>2 DEF Capture, Become
      <4>2. QED
        BY <1>1, <4>1 DEF Requests
    <3>3. QED
      BY <2>1, <3>1, <3>2
  <2>3. QED
    BY <1>7, <2>2 DEF Owing
<1>8. CASE r.step = "event"
  <2>1. RecordEvent(s)
    BY <1>8 DEF Serve, InsertCompany, InsertRow, CheckFile, WriteStatus, ReadLink, RecordCreated,
       Stamp, LookForSnapshot, Capture, SaveLink, NoteMark, SoftDelete,
       DeleteApplications, DeleteCompany, DeleteFile, AtStep
  <2> DEFINE e == [type |-> r.event, text |-> r.text]
  <2>2. log'[a] = Append(log[a], e)
    BY <1>1, <2>1 DEF RecordEvent, AppendTo
  <2>3. log'[a][Len(log[a]) + 1] = e /\ Len(log[a]) + 1 \in DOMAIN log'[a]
    BY <1>1, <2>2, Appended
  <2>4. e.type = EventFor[apps'[a].status]
    BY <1>8 DEF Owing
  <2>5. QED
    BY <2>3, <2>4 DEF Logged
<1>9. QED
  BY <1>5, <1>6, <1>7, <1>8 DEF Owing

\* What is logged stays logged as long as the status does.
LEMMA LoggedStays ==
    ASSUME Types, NEW s \in Sessions, Serve(s), NEW a \in AppIds, Logged(a),
           apps'[a] # NoApp, apps'[a].status = apps[a].status
    PROVE  Logged(a)'
<1>1. log[a] \in Seq(Events)
  BY DEF Types, TypeOK
<1>2. PICK i \in DOMAIN log[a] : log[a][i].type = EventFor[apps[a].status]
  BY DEF Logged
<1>3. log'[a] = log[a] \/ \E e \in Events : log'[a] = Append(log[a], e)
  BY LogGrows
<1>4. i \in DOMAIN log'[a] /\ log'[a][i] = log[a][i]
  BY <1>1, <1>3, Appended
<1>5. QED
  BY <1>2, <1>4 DEF Logged

\* The log knows how a status came about, or the request that set it owes it.
LEMMA LoggedOrOwingStep ==
    ASSUME Types, Numbered, Alone, TracksOffers, OfferStays, ReadIsFresh, Steady, LoggedOrOwing, [Next]_vars
    PROVE  LoggedOrOwing'
<1>1. ASSUME NEW s \in Sessions, Serve(s), NEW a \in AppIds \ raced',
             Live(a)', apps'[a].status # "WISHLIST", ~stopped', apps'[a].offer => 0 \notin raced'
      PROVE  Logged(a)' \/ \E t \in Sessions : Owing(t, a)'
  <2> DEFINE r == request[s]
             q == request'[s]
  <2>1. /\ raced' = raced /\ a # 0 /\ a \notin raced /\ apps'[a] # NoApp /\ ~apps'[a].gone
        /\ apps'[a].offer => Calm' /\ Calm
    BY <1>1, OfferStep, TrackingAssumption DEF Live, AppIds, Calm
  <2>2. ~stopped /\ ~Stop(s)
    BY <1>1 DEF Serve, InsertCompany, InsertRow, CheckFile, WriteStatus, ReadLink, RecordCreated, Stop,
       Stamp, LookForSnapshot, Capture, RecordEvent, SaveLink, NoteMark, SoftDelete,
       DeleteApplications, DeleteCompany, DeleteFile
  <2>3. r \in Requests /\ Shaped(r) /\ request \in [Sessions -> Requests]
    BY DEF Types, TypeOK, Shapes
  <2>4. CASE apps[a] = NoApp
    <3>1. AtStep(s, "row") /\ a = made' /\ made' = made + 1 /\ q.app = a
      BY <1>1, <2>1, <2>4, AppsStep
    <3>2. r.app # a /\ q # Idle
      BY <2>1, <2>3, <3>1 DEF Shaped, AtStep, Idle
    <3>3. apps' = [apps EXCEPT ![made'] =
              [status |-> r.to, dated |-> IF r.op = "track" THEN r.to = "APPLIED" ELSE r.flag,
               cv |-> FALSE, offer |-> r.op = "track", gone |-> FALSE]]
          /\ q.to = r.to
      BY <1>1, <3>1, <3>2, RequestStep
    <3>4. apps'[a].status = r.to
      BY <3>1, <3>3 DEF Types, TypeOK
    <3>5. q.step \in {"read-link", "created"}
      <4>1. InsertRow(s)
        BY <1>1, <2>2, <3>1 DEF Serve, InsertCompany, RecordCreated, CheckFile, WriteStatus, Stamp,
           LookForSnapshot, Capture, RecordEvent, ReadLink, SaveLink, NoteMark, SoftDelete,
           DeleteApplications, DeleteCompany, DeleteFile, AtStep
      <4>2. q = [r EXCEPT !.app = made', !.step = IF r.op = "track" THEN "read-link" ELSE "created"]
        BY <2>3, <3>1, <4>1, TrackingAssumption DEF InsertRow, Become, Types, TypeOK
      <4>3. QED
        BY <2>3, <4>2 DEF Requests
    <3>6. QED
      BY <3>1, <3>3, <3>4, <3>5 DEF Owing
  <2>5. CASE apps[a] # NoApp
    <3>1. Live(a) /\ apps'[a].offer = apps[a].offer
      BY <1>1, <2>1, <2>5, AppsStep DEF Live
    <3>2. CASE WriteStatus(s) /\ r.app = a /\ q # Idle
      <4>1. /\ q = Change(r) /\ r.step = "write" /\ r.op \in {"move", "edit"}
            /\ apps' = [apps EXCEPT ![a].status = r.to, ![a].cv = @ \/ r.flag]
        BY <2>3, <2>5, <3>2 DEF WriteStatus, Done, Become, AtStep, Shaped
      <4>2. apps'[a].status = r.to
        BY <2>5, <4>1 DEF Types, TypeOK, Apps
      <4>3. EventFor[r.to] # "none"
        BY <1>1, <2>3, <4>2 DEF EventFor, Requests, Statuses
      <4>4. r.from # r.to
        BY <3>2, <4>1 DEF Change
      <4>5. q = [r EXCEPT !.event = EventFor[r.to], !.step = IF r.to = "APPLIED" THEN "stamp" ELSE "event"]
        BY <4>1, <4>3, <4>4 DEF Change
      <4>6. q.app = a /\ q.event = EventFor[r.to] /\ q.step \in {"stamp", "event"}
        BY <2>3, <3>2, <4>5 DEF Requests
      <4>7. QED
        BY <4>2, <4>6 DEF Owing
    <3>3. CASE ~(WriteStatus(s) /\ r.app = a /\ q # Idle)
      <4>1. apps'[a].status = apps[a].status
        <5>1. CASE AtStep(s, "write") /\ r.app = a
          <6>1. WriteStatus(s)
            BY <1>1, <2>2, <5>1 DEF Serve, InsertCompany, RecordCreated, CheckFile, InsertRow, Stamp,
               LookForSnapshot, Capture, RecordEvent, ReadLink, SaveLink, NoteMark, SoftDelete,
               DeleteApplications, DeleteCompany, DeleteFile, AtStep
          <6>2. q = Idle
            BY <3>3, <5>1, <6>1
          <6>3. CASE apps' = apps
            BY <6>3
          <6>4. CASE apps' # apps
            <7>1. apps' = [apps EXCEPT ![a].status = r.to, ![a].cv = @ \/ r.flag] /\ q = Change(r)
              BY <2>3, <5>1, <6>1, <6>4 DEF WriteStatus, Become
            <7>2. apps'[a].status = r.to /\ apps[a].status = r.from
              BY <2>1, <2>5, <5>1, <7>1 DEF Types, TypeOK, Apps, Steady, AtStep
            <7>3. EventFor[r.to] # "none"
              BY <1>1, <2>3, <7>2 DEF EventFor, Requests, Statuses
            <7>4. r.op # "track"
              BY <2>3, <5>1 DEF Shaped, AtStep
            <7>5. r.from = r.to
              <8>1. SUFFICES ASSUME r.from # r.to PROVE FALSE
                OBVIOUS
              <8>2. q = [r EXCEPT !.event = EventFor[r.to], !.step = IF r.to = "APPLIED" THEN "stamp" ELSE "event"]
                BY <7>1, <7>3, <7>4, <8>1 DEF Change
              <8>3. q.step # "idle"
                BY <2>3, <8>2 DEF Requests
              <8>4. QED
                BY <6>2, <8>3 DEF Idle
            <7>6. QED
              BY <7>2, <7>5
          <6>5. QED
            BY <6>3, <6>4
        <5>2. QED
          BY <1>1, <2>1, <2>5, <5>1, AppsStep
      <4>2. CASE Logged(a)
        BY <1>1, <2>1, <4>1, <4>2, LoggedStays
      <4>3. ASSUME NEW t \in Sessions, Owing(t, a), t # s
            PROVE  Owing(t, a)'
        BY <1>1, <4>1, <4>3, RequestStep DEF Owing
      <4>4. ASSUME Owing(s, a)
            PROVE  Owing(s, a)' \/ Logged(a)'
        BY <1>1, <2>1, <2>2, <2>5, <3>1, <4>1, <4>4, OwingStep
      <4>5. QED
        BY <1>1, <2>1, <2>2, <3>1, <4>1, <4>2, <4>3, <4>4 DEF LoggedOrOwing
    <3>4. QED
      BY <3>2, <3>3
  <2>6. QED
    BY <2>4, <2>5
<1>2. ASSUME NEW s \in Sessions, Serve(s)
      PROVE  LoggedOrOwing'
  BY <1>1, <1>2 DEF LoggedOrOwing, Live, Logged, Owing
<1>3. ASSUME NEW s \in Sessions, Arrive(s)
      PROVE  LoggedOrOwing'
  <2>1. /\ UNCHANGED <<apps, log, stopped>> /\ raced \subseteq raced' /\ AtStep(s, "idle")
        /\ \A t \in Sessions \ {s} : request'[t] = request[t]
    BY <1>3, ArriveStep DEF data
  <2>2. ASSUME NEW t \in Sessions, NEW a \in AppIds, Owing(t, a)
        PROVE  Owing(t, a)'
    <3>1. t # s
      BY <2>1, <2>2 DEF Owing, AtStep
    <3>2. QED
      BY <2>1, <2>2, <3>1 DEF Owing
  <2>3. \A a \in AppIds : (Logged(a)' <=> Logged(a)) /\ (Live(a)' <=> Live(a))
    BY <2>1 DEF Logged, Live
  <2>4. ASSUME NEW a \in AppIds \ raced', Live(a)', apps'[a].status # "WISHLIST", ~stopped',
               apps'[a].offer => 0 \notin raced'
        PROVE  Logged(a)' \/ \E t \in Sessions : Owing(t, a)'
    BY <2>1, <2>2, <2>3, <2>4 DEF LoggedOrOwing
  <2>5. QED
    BY <2>4 DEF LoggedOrOwing, Live, Logged, Owing
<1>4. CASE EditPosting \/ UNCHANGED vars
  BY <1>4 DEF EditPosting, vars, LoggedOrOwing, Live, Logged, Owing
<1>5. QED
  BY <1>2, <1>3, <1>4 DEF Next
-----------------------------------------------------------------------------
(***************************************************************************)
(* The theorems.                                                           *)
(***************************************************************************)
\* What holds of every state.
TrackingInv ==
    /\ Types /\ Numbered /\ Alone
    /\ DatedFirst /\ SentMeansDated
    /\ OfferStays /\ ReadIsFresh /\ TracksOnce /\ OfferLinked /\ SavesFollow
    /\ TracksOffers /\ Steady /\ FrozenOnce /\ OfferFrozen /\ LoggedOrOwing

\* Nobody is at anything at first.
LEMMA TrackingInitial == Init => TrackingInv
<1> SUFFICES ASSUME Init PROVE TrackingInv
  OBVIOUS
<1>1. Types
  BY TypesInitial
<1>2. /\ \A s \in Sessions : request[s] = Idle
      /\ \A a \in AppIds : apps[a] = NoApp /\ log[a] = << >>
      /\ made = 0 /\ link = NoRow /\ ~saves.saved
  BY DEF Init
<1>3. Idle.step = "idle" /\ Idle.app = 0 /\ Idle.op = "move"
  BY DEF Idle
<1>4. Numbered
  BY <1>2, <1>3 DEF Numbered
<1>5. Alone /\ DatedFirst /\ SentMeansDated
  BY <1>2, <1>3 DEF Alone, Busy, AtStep, DatedFirst, Sending, SentMeansDated
<1>6. OfferStays /\ ReadIsFresh /\ TracksOnce /\ OfferLinked
  BY <1>2, <1>3 DEF OfferStays, ReadIsFresh, TracksOnce, OfferLinked, Live, AtStep
<1>7. SavesFollow
  BY <1>2, <1>3 DEF SavesFollow, Noting, AtStep
<1>8. TracksOffers /\ Steady
  BY <1>2, <1>3 DEF TracksOffers, Steady
<1>9. FrozenOnce
  BY <1>2 DEF FrozenOnce, Frozen
<1>10. OfferFrozen /\ LoggedOrOwing
  BY <1>2, <1>3 DEF OfferFrozen, LoggedOrOwing, Live
<1>11. QED
  BY <1>1, <1>4, <1>5, <1>6, <1>7, <1>8, <1>9, <1>10 DEF TrackingInv

\* Every step keeps it.
LEMMA TrackingInductive == TrackingInv /\ [Next]_vars => TrackingInv'
<1> SUFFICES ASSUME TrackingInv, [Next]_vars PROVE TrackingInv'
  OBVIOUS
<1> USE DEF TrackingInv
<1>1. Types' /\ Numbered' /\ Alone'
  BY TypesInductive, NumberedAlone
<1>2. DatedFirst' /\ SentMeansDated'
  BY Dates
<1>3. OfferStays' /\ ReadIsFresh' /\ TracksOnce'
  BY OfferStaysStep, ReadIsFreshStep, TracksOnceStep
<1>4. OfferLinked' /\ SavesFollow'
  BY OfferLinkedStep, SavesFollowStep
<1>5. TracksOffers' /\ Steady' /\ FrozenOnce'
  BY TracksOffersStep, SteadyStep, FrozenOnceStep
<1>6. OfferFrozen' /\ LoggedOrOwing'
  BY OfferFrozenStep, LoggedOrOwingStep
<1>7. QED
  BY <1>1, <1>2, <1>3, <1>4, <1>5, <1>6

\* Types, and the invariant, of the whole specification.
THEOREM TrackingInvariant == Spec => []TrackingInv
BY TrackingInitial, TrackingInductive, PTL DEF Spec

\* Sets of at most one element are finite.
LEMMA AtMostOne ==
    ASSUME NEW S, \A x, y \in S : x = y
    PROVE  IsFiniteSet(S) /\ Cardinality(S) <= 1
<1>1. CASE S = {}
  BY <1>1, FS_EmptySet
<1>2. CASE S # {}
  <2>1. PICK x : S = {x}
    BY <1>2
  <2>2. IsFiniteSet({x}) /\ Cardinality({x}) = 1
    BY FS_Singleton
  <2>3. QED
    BY <2>1, <2>2
<1>3. QED
  BY <1>1, <1>2

\* Tracking an offer again finds the application it has (trackAsApplication),
\* unless two requests about the offer overlapped or one stopped before the link
\* was there: of any number of requests of any number of sessions, at most one
\* application of the offer is left.
THEOREM OneApplication == Spec => []OneApplicationPerOffer
<1>1. TrackingInv => OneApplicationPerOffer
  <2> SUFFICES ASSUME TrackingInv, 0 \notin raced, ~stopped
               PROVE  Cardinality({a \in AppIds : Live(a) /\ apps[a].offer}) <= 1
    BY DEF OneApplicationPerOffer
  <2>1. ASSUME NEW a \in AppIds, Live(a), apps[a].offer, NEW b \in AppIds, Live(b), apps[b].offer
        PROVE  a = b
    <3>1. /\ (link # NoRow /\ link.app = a) \/ \E s \in Sessions : Linking(s, a)
          /\ (link # NoRow /\ link.app = b) \/ \E s \in Sessions : Linking(s, b)
      BY <2>1 DEF TrackingInv, OfferLinked, Calm
    <3>2. ASSUME NEW s \in Sessions, NEW x \in AppIds, Linking(s, x)
          PROVE  Busy(s) /\ 0 \in About(request[s]) /\ ~LiveLink
      BY <3>2 DEF Linking, Busy, AtStep, About, AboutOffer, TrackingInv, TracksOnce, Calm
    <3>3. LiveLink => link.app = a /\ link.app = b
      BY <3>1, <3>2
    <3>4. CASE ~LiveLink
      <4>1. PICK s \in Sessions, t \in Sessions : Linking(s, a) /\ Linking(t, b)
        BY <2>1, <3>1, <3>4 DEF LiveLink
      <4>2. s = t
        BY <3>2, <4>1, Lone, TrackingAssumption DEF TrackingInv
      <4>3. QED
        BY <4>1, <4>2 DEF Linking
    <3>5. QED
      BY <3>3, <3>4
  <2>2. QED
    BY <2>1, AtMostOne
<1>2. QED
  BY <1>1, TrackingInvariant, PTL

\* The snapshot of an application is taken once (recordApplicationSent), and the
\* first event that says that an offer's application went out carries the text
\* that the offer had.
THEOREM OfferFrozenForGood == Spec => []OfferIsFrozen
<1>1. TrackingInv => OfferIsFrozen
  <2> SUFFICES ASSUME TrackingInv, NEW a \in AppIds \ raced
               PROVE  /\ Cardinality(Frozen(a)) <= 1
                      /\ (apps[a] # NoApp /\ apps[a].offer /\ WasSent(a) /\ 0 \notin raced /\ ~stopped) =>
                            log[a][SelectInSeq(log[a], LAMBDA e : e.type = "sent")].text > 0
    BY DEF OfferIsFrozen
  <2>1. log[a] \in Seq(Events)
    BY DEF TrackingInv, Types, TypeOK
  <2>2. \A i, j \in Frozen(a) : i = j
    BY <2>1 DEF TrackingInv, FrozenOnce, Frozen
  <2>3. Cardinality(Frozen(a)) <= 1
    BY <2>2, AtMostOne
  <2>4. ASSUME apps[a] # NoApp, apps[a].offer, WasSent(a), 0 \notin raced, ~stopped
        PROVE  log[a][SelectInSeq(log[a], LAMBDA e : e.type = "sent")].text > 0
    <3> DEFINE I == {i \in 1 .. Len(log[a]) : log[a][i].type = "sent"}
    <3>1. PICK i \in DOMAIN log[a] :
              /\ log[a][i].type = "sent" /\ log[a][i].text > 0
              /\ \A j \in DOMAIN log[a] : log[a][j].type = "sent" => i <= j
      BY <2>4 DEF TrackingInv, OfferFrozen, Calm, FirstFrozen
    <3>2. i \in I /\ \A j \in I : i <= j
      BY <2>1, <3>1
    <3>3. \A k \in I : (\A j \in I : k <= j) => k = i
      BY <2>1, <3>2
    <3>4. (CHOOSE k \in I : \A j \in I : k <= j) = i
      BY <3>2, <3>3
    <3>5. SelectInSeq(log[a], LAMBDA e : e.type = "sent") = i
      BY <3>2, <3>4 DEF SelectInSeq, Min
    <3>6. QED
      BY <3>1, <3>5
  <2>5. QED
    BY <2>3, <2>4
<1>2. QED
  BY <1>1, TrackingInvariant, PTL

\* The journal keeps up: a settled status has its event, the bookmark of an offer
\* is the latest its events tell of, and an application that went out is dated.
THEOREM JournalKeepsUp == Spec => []LogKeepsUp
<1>1. TrackingInv => StatusIsLogged
  <2> SUFFICES ASSUME TrackingInv, NEW a \in AppIds \ raced,
                      Live(a), Quiet(a), apps[a].status # "WISHLIST", ~stopped, apps[a].offer => 0 \notin raced
               PROVE  Logged(a)
    BY DEF StatusIsLogged, Logged
  <2>1. \A s \in Sessions : ~Owing(s, a)
    BY DEF Quiet, Owing, AtStep, About
  <2>2. QED
    BY <2>1 DEF TrackingInv, LoggedOrOwing
<1>2. TrackingInv => SavedIsLogged
  <2> SUFFICES ASSUME TrackingInv, posting # 0, link # NoRow, Quiet(0), 0 \notin raced, ~stopped
               PROVE  link.saved = saves.saved
    BY DEF SavedIsLogged
  <2>1. \A s \in Sessions : ~Noting(s)
    BY DEF Quiet, Noting, AtStep, About, AboutOffer
  <2>2. QED
    BY <2>1 DEF TrackingInv, SavesFollow, Calm
<1>3. TrackingInv => LogKeepsUp
  BY <1>1, <1>2 DEF LogKeepsUp, TrackingInv
<1>4. QED
  BY <1>3, TrackingInvariant, PTL
=============================================================================
