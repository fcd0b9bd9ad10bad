-------------------------------- MODULE Tracking --------------------------------
(***************************************************************************)
(* One user's applications in the API: features/application, job-event,    *)
(* job-posting/interaction, company and user/file, around one offer, one   *)
(* company and one CV. A request is a sequence of SQL statements outside   *)
(* any transaction, so that requests interleave between statements and     *)
(* stop anywhere. Reads that follow one another are one step.              *)
(*                                                                         *)
(* An application's columns other than its status, date and CV, a          *)
(* company's other than its existence, and watches are left out.           *)
(***************************************************************************)
EXTENDS Naturals, Sequences, SequencesExt, FiniteSets

CONSTANTS Sessions,     \* whoever has a request under way, one at a time each
          NoApp, NoRow,
          MaxApps,      \* bound: applications ever created
          MaxTexts,     \* bound: versions of the offer's description
          MaxRequests,  \* bound: requests ever made
          MayStop       \* whether requests may stop halfway

ASSUME TrackingAssumption ==
    /\ MaxApps \in Nat /\ MaxTexts \in Nat \ {0} /\ MaxRequests \in Nat
    /\ MayStop \in BOOLEAN

VARIABLES apps,      \* [AppIds -> application or NoApp]
          made,      \* how many were created
          log,       \* [AppIds -> Seq of job events of the application]
          company,   \* whether the company has a row
          posting,   \* version of the offer's text, 0 once it is deleted
          link,      \* the interaction of the user and the offer, or NoRow
          saves,     \* [kind |-> the latest event of that kind about the offer]
          file,      \* whether the CV is there
          request,   \* [Sessions -> what the API does for it]
          asked,     \* how many requests were made
          raced,     \* history: applications, and 0 for the offer, that two
                     \* requests were about at once
          stopped    \* history: a request stopped halfway

vars == <<apps, made, log, company, posting, link, saves, file, request, asked,
          raced, stopped>>

AppIds == 1 .. MaxApps

Statuses == {"WISHLIST", "APPLIED", "INTERVIEW", "OFFER"}

Apps == [status : Statuses,
         dated  : BOOLEAN,  \* appliedAt is set
         cv     : BOOLEAN,  \* the CV is attached
         offer  : BOOLEAN,  \* made by trackAsApplication
         gone   : BOOLEAN]  \* deletedAt is set

\* The event behind each status (EVENT_FOR_STATUS); none for WISHLIST.
EventFor == [WISHLIST |-> "none", APPLIED |-> "sent", INTERVIEW |-> "interview", OFFER |-> "offer"]

\* An event carries the version of the text it froze, 0 for none.
Events == [type : {"created", "sent", "interview", "offer", "follow-up"}, text : 0 .. MaxTexts]

Links == [status : {"SEEN", "DISMISSED", "APPLIED"}, saved : BOOLEAN, app : 0 .. MaxApps]

\* Null is neither an application nor an interaction.
ASSUME NullAssumption == NoApp \notin Apps /\ NoRow \notin Links

Ops == {"create", "move", "edit", "track", "mark", "save", "record", "remove",
        "remove-company", "remove-file"}

AboutOffer == {"track", "mark", "save"}

Steps == {"idle", "company", "row", "created", "file", "write", "stamp", "exists", "capture",
          "event", "read-link", "save-link", "note", "remove", "delete", "delete-company"}

Idle == [op |-> "move", step |-> "idle", app |-> 0, to |-> "WISHLIST", from |-> "WISHLIST",
         flag |-> FALSE, row |-> NoRow, mark |-> "SEEN", event |-> "none", text |-> 0]

Requests ==
    [op : Ops, step : Steps, app : 0 .. MaxApps,
     to : Statuses, from : Statuses,  \* the status asked for, and the one the request read
     flag : BOOLEAN,                  \* a date or CV given, or the saved flag
     row : Links \union {NoRow},      \* the interaction as the request read it
     mark : {"SEEN", "DISMISSED", "APPLIED"},  \* the status it gives the interaction
     event : {"none", "created", "sent", "interview", "offer", "follow-up"},
     text : 0 .. MaxTexts]

TypeOK ==
    /\ apps \in [AppIds -> Apps \union {NoApp}]
    /\ made \in 0 .. MaxApps
    /\ log \in [AppIds -> Seq(Events)]
    /\ company \in BOOLEAN /\ file \in BOOLEAN /\ stopped \in BOOLEAN
    /\ posting \in 0 .. MaxTexts
    /\ link \in Links \union {NoRow}
    /\ saves \in [saved : BOOLEAN, viewed : {"none", "SEEN", "DISMISSED"}]
    /\ request \in [Sessions -> Requests]
    /\ asked \in 0 .. MaxRequests
    /\ raced \subseteq 0 .. MaxApps

Init ==
    /\ apps = [a \in AppIds |-> NoApp] /\ made = 0
    /\ log = [a \in AppIds |-> <<>>]
    /\ posting \in {0, 1} /\ company = (posting = 1)
    /\ link = NoRow /\ saves = [saved |-> FALSE, viewed |-> "none"]
    /\ file = TRUE
    /\ request = [s \in Sessions |-> Idle] /\ asked = 0
    /\ raced = {} /\ stopped = FALSE

data == <<apps, made, log, company, posting, link, saves, file>>
-----------------------------------------------------------------------------
AtStep(s, step) == request[s].step = step

Become(s, r) == request' = [request EXCEPT ![s] = r]

Go(s, step) == Become(s, [request[s] EXCEPT !.step = step])

\* The request is answered, or refused with an error: nothing is undone.
Done(s) == Become(s, Idle)

Live(a) == a \in AppIds /\ apps[a] # NoApp /\ ~apps[a].gone

\* What a request is about: its application, or 0 for the offer.
About(r) == {r.app} \union (IF r.op \in AboutOffer THEN {0} ELSE {})

\* A request arrives and does its first reads, which leave r.
Begin(s, r) ==
    /\ AtStep(s, "idle") /\ asked < MaxRequests
    /\ asked' = asked + 1
    /\ Become(s, r)
    /\ raced' = raced \union
            {x \in About(r) : \E t \in Sessions \ {s} : ~AtStep(t, "idle") /\ x \in About(request[t])}
    /\ UNCHANGED <<data, stopped>>

\* ApplicationService.create: findOrCreate looks for the company first.
BeginCreate(s, to, dated) ==
    Begin(s, [Idle EXCEPT !.op = "create", !.to = to, !.flag = dated,
                          !.step = IF company THEN "row" ELSE "company"])

\* updateStatusByUser (the board) and updateByUser (the form): findByIdAndUser.
BeginChange(s, op, a, to, cv) ==
    /\ Live(a)
    /\ Begin(s, [Idle EXCEPT !.op = op, !.app = a, !.to = to, !.from = apps[a].status,
                             !.flag = cv, !.step = IF cv THEN "file" ELSE "write"])

\* trackAsApplication: an offer that has an application answers it.
BeginTrack(s, to) ==
    /\ posting # 0
    /\ ~(link # NoRow /\ Live(link.app))
    /\ Begin(s, [Idle EXCEPT !.op = "track", !.to = to, !.step = "row",
                             !.mark = CASE to = "APPLIED" -> "APPLIED"
                                        [] to # "APPLIED" /\ link = NoRow -> "SEEN"
                                        [] OTHER -> link.status])

\* markAs, setSaved.
BeginMark(s, status) ==
    posting # 0 /\ Begin(s, [Idle EXCEPT !.op = "mark", !.mark = status, !.step = "read-link"])

BeginSave(s, saved) ==
    posting # 0 /\ Begin(s, [Idle EXCEPT !.op = "save", !.flag = saved, !.step = "read-link"])

\* recordEvent: of the types a user may state.
BeginRecord(s, a, type) ==
    Live(a) /\ Begin(s, [Idle EXCEPT !.op = "record", !.app = a, !.event = type, !.step = "event"])

BeginRemove(s, a) ==
    Live(a) /\ Begin(s, [Idle EXCEPT !.op = "remove", !.app = a, !.step = "remove"])

BeginRemoveCompany(s) ==
    company /\ Begin(s, [Idle EXCEPT !.op = "remove-company", !.step = "delete"])

BeginRemoveFile(s) ==
    file /\ Begin(s, [Idle EXCEPT !.op = "remove-file", !.step = "delete"])
-----------------------------------------------------------------------------
(***************************************************************************)
(* Creating an application.                                                *)
(***************************************************************************)
\* Names are unique without case: an insert that comes second fails.
InsertCompany(s) ==
    /\ AtStep(s, "company")
    /\ IF company THEN Done(s) ELSE Go(s, "row")
    /\ company' = TRUE
    /\ UNCHANGED <<apps, made, log, posting, link, saves, file, asked, raced, stopped>>

\* create, trackAsApplication: the row, if its company is still there.
InsertRow(s) ==
    LET r == request[s]
        tracks == r.op = "track"
    IN
    /\ AtStep(s, "row")
    /\ IF ~company THEN Done(s) /\ UNCHANGED <<apps, made>>
       ELSE /\ made < MaxApps
            /\ made' = made + 1
            /\ apps' = [apps EXCEPT ![made'] =
                    [status |-> r.to, dated |-> IF tracks THEN r.to = "APPLIED" ELSE r.flag,
                     cv |-> FALSE, offer |-> tracks, gone |-> FALSE]]
            /\ Become(s, [r EXCEPT !.app = made', !.step = IF tracks THEN "read-link" ELSE "created"])
    /\ UNCHANGED <<log, company, posting, link, saves, file, asked, raced, stopped>>

\* Mutant: the row is left to the caller to date.
ChangeUndated(r) ==
    IF r.from = r.to \/ EventFor[r.to] = "none" THEN Idle
    ELSE [r EXCEPT !.event = EventFor[r.to], !.step = IF r.to = "APPLIED" THEN "exists" ELSE "event"]

\* Mutant: a card that leaves the wishlist is the only one that makes news.
ChangeFirst(r) ==
    IF r.from # "WISHLIST" \/ EventFor[r.to] = "none" THEN Idle
    ELSE [r EXCEPT !.event = EventFor[r.to], !.step = IF r.to = "APPLIED" THEN "stamp" ELSE "event"]

\* Mutant: tracking records that the application went out like any other event.
ChangeBare(r) ==
    CASE r.op = "track" ->
            IF r.to = "APPLIED" THEN [r EXCEPT !.event = "sent", !.step = "event"] ELSE Idle
      [] r.op # "track" /\ (r.from = r.to \/ EventFor[r.to] = "none") -> Idle
      [] OTHER -> [r EXCEPT !.event = EventFor[r.to],
                            !.step = IF r.to = "APPLIED" THEN "stamp" ELSE "event"]

\* recordStatusChange: what is left to do for r. Tracking does not come through
\* here: it has dated the row, and only records that an application went out.
Change(r) ==
    CASE r.op = "track" ->
            IF r.to = "APPLIED" THEN [r EXCEPT !.event = "sent", !.step = "exists"] ELSE Idle
      [] r.op # "track" /\ (r.from = r.to \/ EventFor[r.to] = "none") -> Idle
      [] OTHER -> [r EXCEPT !.event = EventFor[r.to],
                            !.step = IF r.to = "APPLIED" THEN "stamp" ELSE "event"]

\* Appending to the log of an application whose row is gone fails.
AppendTo(s, type, text, next) ==
    LET a == request[s].app IN
    IF apps[a] = NoApp THEN Done(s) /\ UNCHANGED log
    ELSE log' = [log EXCEPT ![a] = Append(@, [type |-> type, text |-> text])] /\ Become(s, next)

RecordCreated(s) ==
    /\ AtStep(s, "created")
    /\ AppendTo(s, "created", 0, Change(request[s]))
    /\ UNCHANGED <<apps, made, company, posting, link, saves, file, asked, raced, stopped>>
-----------------------------------------------------------------------------
(***************************************************************************)
(* Changing its status.                                                    *)
(***************************************************************************)
\* resolveFileLink, assertAttachable.
CheckFile(s) ==
    /\ AtStep(s, "file")
    /\ IF file THEN Go(s, "write") ELSE Done(s)
    /\ UNCHANGED <<data, asked, raced, stopped>>

\* applicationsRepository.update, by id whatever became of the row; it fails on
\* a CV deleted since it was checked.
WriteStatus(s) ==
    LET r == request[s] IN
    /\ AtStep(s, "write")
    /\ IF r.flag /\ ~file THEN Done(s) /\ UNCHANGED apps
       ELSE /\ apps' = IF apps[r.app] = NoApp THEN apps
                       ELSE [apps EXCEPT ![r.app].status = r.to, ![r.app].cv = @ \/ r.flag]
            /\ Become(s, Change(r))
    /\ UNCHANGED <<made, log, company, posting, link, saves, file, asked, raced, stopped>>

\* stampAppliedAt, on a row without a date.
Stamp(s) ==
    LET a == request[s].app IN
    /\ AtStep(s, "stamp")
    /\ apps' = IF apps[a] = NoApp THEN apps ELSE [apps EXCEPT ![a].dated = TRUE]
    /\ Go(s, "exists")
    /\ UNCHANGED <<made, log, company, posting, link, saves, file, asked, raced, stopped>>

WasSent(a) == \E i \in DOMAIN log[a] : log[a][i].type = "sent"

\* recordApplicationSent: exists.
LookForSnapshot(s) ==
    /\ AtStep(s, "exists")
    /\ Go(s, IF WasSent(request[s].app) THEN "event" ELSE "capture")
    /\ UNCHANGED <<data, asked, raced, stopped>>

\* captureSnapshot: of the offer linked to the application, if there is one.
Capture(s) ==
    LET r == request[s] IN
    /\ AtStep(s, "capture")
    /\ Become(s, [r EXCEPT !.step = "event",
                           !.text = IF link # NoRow /\ link.app = r.app THEN posting ELSE 0])
    /\ UNCHANGED <<data, asked, raced, stopped>>

\* JobEventService.record.
RecordEvent(s) ==
    LET r == request[s] IN
    /\ AtStep(s, "event")
    /\ AppendTo(s, r.event, r.text, Idle)
    /\ UNCHANGED <<apps, made, company, posting, link, saves, file, asked, raced, stopped>>
-----------------------------------------------------------------------------
(***************************************************************************)
(* The offer's interaction.                                                *)
(***************************************************************************)
\* upsertInteraction: findOne.
ReadLink(s) ==
    LET r == request[s] IN
    /\ AtStep(s, "read-link")
    /\ Become(s, IF posting = 0 THEN Idle ELSE [r EXCEPT !.row = link, !.step = "save-link"])
    /\ UNCHANGED <<data, asked, raced, stopped>>

\* Mutant: a mark starts a row of its own.
PatchedAnew(r) ==
    LET old == [status |-> "SEEN", saved |-> FALSE, app |-> 0] IN
    CASE r.op = "track" -> [old EXCEPT !.status = r.mark, !.app = r.app]
      [] r.op = "mark"  -> [old EXCEPT !.status = r.mark]
      [] r.op = "save"  -> [old EXCEPT !.saved = r.flag]

\* The row as read, or a new one, with the patch of the operation.
Patched(r) ==
    LET old == IF r.row = NoRow THEN [status |-> "SEEN", saved |-> FALSE, app |-> 0] ELSE r.row IN
    CASE r.op = "track" -> [old EXCEPT !.status = r.mark, !.app = r.app]
      [] r.op = "mark"  -> [old EXCEPT !.status = r.mark]
      [] r.op = "save"  -> [old EXCEPT !.saved = r.flag]

\* save: a row of the user and the offer is unique, and one that was read is
\* written back whole. It fails if the offer or the application went away.
SaveLink(s) ==
    LET r == request[s]
        fails == \/ posting = 0
                 \/ r.row = NoRow /\ link # NoRow
                 \/ Patched(r).app # 0 /\ apps[Patched(r).app] = NoApp
    IN
    /\ AtStep(s, "save-link")
    /\ IF fails THEN Done(s) /\ UNCHANGED link
       ELSE /\ link' = Patched(r)
            /\ Go(s, IF r.op = "track" THEN "created" ELSE "note")
    /\ UNCHANGED <<apps, made, log, company, posting, saves, file, asked, raced, stopped>>

\* The event of a mark: viewed, dismissed, saved or unsaved.
NoteMark(s) ==
    LET r == request[s] IN
    /\ AtStep(s, "note")
    /\ saves' = IF r.op = "save" THEN [saves EXCEPT !.saved = r.flag]
                ELSE [saves EXCEPT !.viewed = r.mark]
    /\ Done(s)
    /\ UNCHANGED <<apps, made, log, company, posting, link, file, asked, raced, stopped>>
-----------------------------------------------------------------------------
(***************************************************************************)
(* Removing.                                                               *)
(***************************************************************************)
\* removeByUser: softDelete.
SoftDelete(s) ==
    LET a == request[s].app IN
    /\ AtStep(s, "remove")
    /\ apps' = IF apps[a] = NoApp THEN apps ELSE [apps EXCEPT ![a].gone = TRUE]
    /\ Done(s)
    /\ UNCHANGED <<made, log, company, posting, link, saves, file, asked, raced, stopped>>

\* CompanyService.remove: its applications first, for good; their events and
\* interactions forget them.
DeleteApplications(s) ==
    /\ AtStep(s, "delete") /\ request[s].op = "remove-company"
    /\ apps' = [a \in AppIds |-> NoApp]
    /\ log' = [a \in AppIds |-> <<>>]
    /\ link' = IF link = NoRow THEN NoRow ELSE [link EXCEPT !.app = 0]
    /\ Go(s, "delete-company")
    /\ UNCHANGED <<made, company, posting, saves, file, asked, raced, stopped>>

\* Then the row and its offers, unless an application came back meanwhile.
DeleteCompany(s) ==
    /\ AtStep(s, "delete-company")
    /\ IF \E a \in AppIds : apps[a] # NoApp THEN UNCHANGED <<company, posting, link>>
       ELSE company' = FALSE /\ posting' = 0 /\ link' = NoRow
    /\ Done(s)
    /\ UNCHANGED <<apps, made, log, saves, file, asked, raced, stopped>>

\* UserFileService.remove: applications lose it.
DeleteFile(s) ==
    /\ AtStep(s, "delete") /\ request[s].op = "remove-file"
    /\ file' = FALSE
    /\ apps' = [a \in AppIds |-> IF apps[a] = NoApp THEN NoApp ELSE [apps[a] EXCEPT !.cv = FALSE]]
    /\ Done(s)
    /\ UNCHANGED <<made, log, company, posting, link, saves, asked, raced, stopped>>

\* The crawl ingests a new text of the offer.
EditPosting ==
    /\ posting \in 1 .. MaxTexts - 1
    /\ posting' = posting + 1
    /\ UNCHANGED <<apps, made, log, company, link, saves, file, request, asked, raced, stopped>>

\* The API goes down in the middle of a request, or a statement of it fails.
Stop(s) ==
    /\ MayStop /\ ~stopped  \* bound: one stop
    /\ ~AtStep(s, "idle")
    /\ stopped' = TRUE
    /\ Done(s)
    /\ UNCHANGED <<data, asked, raced>>

Arrive(s) ==
    \/ \E to \in {"WISHLIST", "APPLIED"} :
        BeginTrack(s, to) \/ \E dated \in BOOLEAN : BeginCreate(s, to, dated)
    \/ \E a \in AppIds :
        \/ \E to \in Statuses :
            BeginChange(s, "move", a, to, FALSE) \/ \E cv \in BOOLEAN : BeginChange(s, "edit", a, to, cv)
        \/ \E type \in {"offer", "follow-up"} : BeginRecord(s, a, type)
        \/ BeginRemove(s, a)
    \/ \E status \in {"SEEN", "DISMISSED"} : BeginMark(s, status)
    \/ \E saved \in BOOLEAN : BeginSave(s, saved)
    \/ BeginRemoveCompany(s) \/ BeginRemoveFile(s)

Serve(s) ==
    \/ InsertCompany(s) \/ InsertRow(s) \/ RecordCreated(s)
    \/ CheckFile(s) \/ WriteStatus(s)
    \/ Stamp(s) \/ LookForSnapshot(s) \/ Capture(s) \/ RecordEvent(s)
    \/ ReadLink(s) \/ SaveLink(s) \/ NoteMark(s)
    \/ SoftDelete(s) \/ DeleteApplications(s) \/ DeleteCompany(s) \/ DeleteFile(s)
    \/ Stop(s)

Next == EditPosting \/ \E s \in Sessions : Arrive(s) \/ Serve(s)

Spec == Init /\ [][Next]_vars
-----------------------------------------------------------------------------
(***************************************************************************)
(* Correctness.                                                            *)
(***************************************************************************)
\* No request is under way about x.
Quiet(x) == \A s \in Sessions : AtStep(s, "idle") \/ x \notin About(request[s])

Frozen(a) == {i \in DOMAIN log[a] : log[a][i].text > 0}

\* An application that went out has its date, whatever else was going on and
\* wherever a request stopped: both are written before the event that says so
\* (stampAppliedAt, recordApplicationSent).
SentMeansDated == \A a \in AppIds : (apps[a] # NoApp /\ WasSent(a)) => apps[a].dated

\* "The snapshot is taken once and only once" (job-event.service.ts), as long as
\* two requests are not about the application at once; and the text an offer had when
\* its application went out can be read back: the first event that says so carries
\* it, unless a request stopped before the link was there or another came in between.
OfferIsFrozen ==
    \A a \in AppIds \ raced :
        /\ Cardinality(Frozen(a)) <= 1
        /\ (apps[a] # NoApp /\ apps[a].offer /\ WasSent(a) /\ 0 \notin raced /\ ~stopped) =>
              LET first == SelectInSeq(log[a], LAMBDA e : e.type = "sent") IN
              log[a][first].text > 0

\* Tracking an offer again finds the application it has, unless two requests
\* about the offer overlapped or one stopped before the link was there.
OneApplicationPerOffer ==
    (0 \notin raced /\ ~stopped) => Cardinality({a \in AppIds : Live(a) /\ apps[a].offer}) <= 1

\* Once a status is settled the log knows how it came about, except for a card
\* put back on the wishlist, where nothing is recorded, and for an application
\* whose tracking failed because a mark made the row of the interaction first.
StatusIsLogged ==
    \A a \in AppIds \ raced :
        (Live(a) /\ Quiet(a) /\ apps[a].status # "WISHLIST" /\ ~stopped
         /\ (apps[a].offer => 0 \notin raced)) =>
            \E i \in DOMAIN log[a] : log[a][i].type = EventFor[apps[a].status]

\* The bookmark of an offer is the latest one its events tell of.
SavedIsLogged ==
    (posting # 0 /\ link # NoRow /\ Quiet(0) /\ 0 \notin raced /\ ~stopped) =>
        link.saved = saves.saved

\* The journal of an offer and of its application keeps up with both, and no
\* application is on file as sent without its date.
LogKeepsUp == StatusIsLogged /\ SavedIsLogged /\ SentMeansDated
=============================================================================
