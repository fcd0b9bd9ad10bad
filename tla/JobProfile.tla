-------------------------------- MODULE JobProfile --------------------------------
(***************************************************************************)
(* A user's job preference: its row (api, features/job-preference) and the     *)
(* form that edits it in several tabs (web, components/features/job-profile).  *)
(* The form sends all its fields at once; the API reads the row, changes it    *)
(* and saves the whole of it, in two statements.                              *)
(*                                                                         *)
(* Of the fields three are kept: the CV's text, a list of words a CV can fill,  *)
(* and one that is picked from options. Cleaning (trimming, folding case,      *)
(* dropping repeats) is Clean. Server actions of a tab run one at a time,      *)
(* those of two tabs interleave.                                             *)
(***************************************************************************)
EXTENDS Naturals, Sequences

CONSTANTS Tabs,
          MaxOps,       \* bound: edits, saves, uploads, fills and page loads
          NoRow, Idle

VARIABLES row,        \* the stored preference, or NoRow
          page,       \* [Tabs -> the form: what was saved, what it holds]
          asked,      \* [Tabs -> Seq of the server actions called and not answered]
          request,    \* [Tabs -> the request the API is serving, or Idle]
          ops,
          typed,      \* history: [Tabs -> fields edited since the form was last replaced]
          told,       \* history: [Tabs -> the preference the form was last made from]
          unsure      \* history: [Tabs -> a fetch failed, an answer was lost, or the
                      \*          other tab wrote]

vars == <<row, page, asked, request, ops, typed, told, unsure>>

Fields == {"resumeText", "titles", "remoteTypes"}
Values == {"", "mine", " mine", "read"}
Rows == [Fields -> Values]
Blank == [f \in Fields |-> ""]

Pages == [saved : Rows, form : Rows]

\* The server actions a form has called: all its fields, the text of a CV, or none.
Asks ==
    [op : {"save"}, dto : Rows, wants : SUBSET Fields, knew : Rows, here : BOOLEAN]
    \union [op : {"upload"}, dto : [{"resumeText"} -> {"read"}], wants : {{"resumeText"}},
            knew : Rows, here : BOOLEAN]
    \union [op : {"fill"}, dto : {<<>>}, wants : {{}}, knew : Rows, here : BOOLEAN]

\* The requests they become; one that fills has found the row, or found it again.
Reads == Rows \union {NoRow}
Requests ==
    [op : {"save"}, dto : Rows, wants : SUBSET Fields, read : Reads, knew : Rows]
    \union [op : {"upload"}, dto : [{"resumeText"} -> {"read"}], wants : {{"resumeText"}},
            read : Reads, knew : Rows]
    \union [op : {"found", "fill"}, dto : [{"titles"} -> {"read"}], wants : {{}},
            read : Reads, knew : Rows]

TypeOK ==
    /\ row \in Reads /\ page \in [Tabs -> Pages]
    /\ asked \in [Tabs -> Seq(Asks)] /\ request \in [Tabs -> Requests \union {Idle}]
    /\ typed \in [Tabs -> SUBSET Fields] /\ told \in [Tabs -> Rows]
    /\ unsure \in [Tabs -> BOOLEAN]

\* cleanList, trim and normalizeResumeText.
Clean(v) == IF v = " mine" THEN "mine" ELSE v

\* extractResumeProfile: what a text with titles in it answers.
Read(text) == IF text = "" THEN "" ELSE "read"

\* toResponse
Response(stored) == IF stored = NoRow THEN Blank ELSE stored

\* The fields a request names replace the row's; the others stay as they were read.
Update(read, dto) ==
    [f \in Fields |-> IF f \in DOMAIN dto THEN Clean(dto[f]) ELSE Response(read)[f]]

Init ==
    /\ row \in {NoRow, [Blank EXCEPT !.resumeText = "mine"]}
    /\ page = [t \in Tabs |-> [saved |-> Response(row), form |-> Response(row)]]
    /\ asked = [t \in Tabs |-> <<>>] /\ request = [t \in Tabs |-> Idle] /\ ops = 0
    /\ typed = [t \in Tabs |-> {}] /\ told = [t \in Tabs |-> Response(row)]
    /\ unsure = [t \in Tabs |-> FALSE]

Op == ops < MaxOps /\ ops' = ops + 1
Dirty(t) == page[t].form # page[t].saved
Pending(t, op) == \E i \in DOMAIN asked[t] : asked[t][i].here /\ asked[t][i].op = op

\* A call, the fields it is made for and the preference its form was made from, which
\* is history.
Ask(t, op, dto, wants) ==
    asked' = [asked EXCEPT ![t] = Append(@, [op |-> op, dto |-> dto, wants |-> wants,
                                             knew |-> told[t], here |-> TRUE])]
-----------------------------------------------------------------------------
\* The page is loaded; a fetch that fails answers the empty preference.
Load(t) ==
    /\ Op /\ asked' = [asked EXCEPT ![t] = [i \in DOMAIN @ |-> [@[i] EXCEPT !.here = FALSE]]]
    /\ \E answer \in {Response(row), Blank} :
        /\ page' = [page EXCEPT ![t] = [saved |-> answer, form |-> answer]]
        /\ told' = [told EXCEPT ![t] = answer]
        /\ unsure' = [unsure EXCEPT ![t] = asked[t] # <<>> \/ answer # Response(row)]
    /\ typed' = [typed EXCEPT ![t] = {}]
    /\ UNCHANGED <<row, request>>

Put(t, f, v) ==
    /\ Op /\ v # page[t].form[f]
    /\ page' = [page EXCEPT ![t].form[f] = v]
    /\ typed' = [typed EXCEPT ![t] = @ \union {f}]
    /\ UNCHANGED <<row, asked, request, told, unsure>>

\* The text of the CV is taken as it is typed.
EditText(t) == \E v \in {"", " mine"} : Put(t, "resumeText", v)

\* TokenField: a word is trimmed when it is committed, and taken away by its button.
EditTokens(t) == \E v \in {"", "mine"} : Put(t, "titles", v)

\* The chips, checkboxes, switches and selects of the sections.
EditPicked(t) == \E v \in {"", "mine"} : Put(t, "remoteTypes", v)

\* save: every field of the form.
Save(t) ==
    /\ Op /\ Dirty(t) /\ ~Pending(t, "save")
    /\ Ask(t, "save", page[t].form, typed[t])
    /\ UNCHANGED <<row, page, request, typed, told, unsure>>

\* upload and fill of ResumeField
Upload(t) ==
    /\ Op /\ ~Pending(t, "upload")
    /\ Ask(t, "upload", [f \in {"resumeText"} |-> "read"], {"resumeText"})
    /\ UNCHANGED <<row, page, request, typed, told, unsure>>

Fill(t) ==
    /\ Op /\ ~Pending(t, "fill") /\ page[t].saved.resumeText # ""
    /\ Ask(t, "fill", <<>>, {})
    /\ UNCHANGED <<row, page, request, typed, told, unsure>>
-----------------------------------------------------------------------------
Answered(t) == asked' = [asked EXCEPT ![t] = Tail(@)] /\ request' = [request EXCEPT ![t] = Idle]

\* An answer that replaces what was saved and not what the form holds.
AdoptSavedOnly(t, op, next) == [page[t] EXCEPT !.saved = next]

\* save and adoptProfile replace the form, adoptSaved the text of the CV in it.
Adopt(t, op, next) ==
    [saved |-> next,
     form |-> IF op = "upload" THEN [page[t].form EXCEPT !.resumeText = next.resumeText]
              ELSE next]

\* A form that is gone, or one that gets no answer, stays as it is.
AdoptAnswer(t, op, next) ==
    IF Head(asked[t]).here
    THEN /\ page' = [page EXCEPT ![t] = Adopt(t, op, next)]
         /\ typed' = [typed EXCEPT ![t] = IF op = "upload" THEN @ \ {"resumeText"} ELSE {}]
         /\ told' = [told EXCEPT ![t] =
                        IF op = "upload" THEN [@ EXCEPT !.resumeText = next.resumeText] ELSE next]
    ELSE UNCHANGED <<page, typed, told>>

\* Whether tab t may be unsure once the answer is in.
Unsure(t, op) == unsure[t] /\ (op = "upload" \/ ~Head(asked[t]).here)

Refuse(t) == Answered(t) /\ UNCHANGED <<row, page, ops, typed, told, unsure>>

\* update finds the row before it changes it.
Find(t) ==
    /\ request[t] = Idle /\ asked[t] # <<>> /\ Head(asked[t]).op # "fill"
    /\ \/ /\ request' = [request EXCEPT ![t] =
                [op |-> Head(asked[t]).op, dto |-> Head(asked[t]).dto,
                 wants |-> Head(asked[t]).wants, read |-> row,
                 knew |-> IF Head(asked[t]).op = "save" THEN Head(asked[t]).knew
                          ELSE Response(row)]]
          /\ UNCHANGED <<row, page, asked, ops, typed, told, unsure>>
       \/ Refuse(t)

\* A CV that answers what is answered already.
ProposeAnyway(f, current, text) ==
    IF Read(text) = "" THEN <<>> ELSE [g \in {f} |-> Read(text)]

\* propose: only a field that is empty takes what the CV says.
Propose(f, current, text) ==
    IF Read(text) = "" \/ current # "" THEN <<>> ELSE [g \in {f} |-> Read(text)]

\* applyResume: without a text it is refused, with nothing to fill it answers what it
\* read.
Apply(t) ==
    /\ request[t] = Idle /\ asked[t] # <<>> /\ Head(asked[t]).op = "fill"
    /\ LET stored == Response(row)
           dto == Propose("titles", stored.titles, stored.resumeText)
       IN IF stored.resumeText = "" THEN Refuse(t)
          ELSE IF DOMAIN dto = {}
          THEN /\ Answered(t) /\ AdoptAnswer(t, "fill", stored)
               /\ unsure' = [unsure EXCEPT ![t] = Unsure(t, "fill")]
               /\ UNCHANGED <<row, ops>>
          ELSE /\ request' = [request EXCEPT ![t] =
                      [op |-> "found", dto |-> dto, wants |-> {}, read |-> row, knew |-> stored]]
               /\ UNCHANGED <<row, page, asked, ops, typed, told, unsure>>

\* The update that applyResume ends with finds the row again.
FindAgain(t) ==
    /\ request[t] # Idle /\ request[t].op = "found"
    /\ request' = [request EXCEPT ![t].op = "fill", ![t].read = row]
    /\ UNCHANGED <<row, page, asked, ops, typed, told, unsure>>

\* The whole row is saved. Where none was found another may have been inserted: a
\* preference is unique to its user, and the second insert fails. The answer can be
\* lost when the row is saved.
Store(t) ==
    /\ request[t] # Idle /\ request[t].op # "found"
    /\ LET r == request[t]
           next == Update(r.read, r.dto)
       IN IF r.read = NoRow /\ row # NoRow THEN Refuse(t)
          ELSE /\ row' = next /\ Answered(t) /\ ops' = ops
               /\ \/ /\ AdoptAnswer(t, r.op, next)
                     /\ unsure' = [u \in Tabs |-> IF u = t THEN Unsure(t, r.op)
                                               ELSE unsure[u] \/ next # Response(row)]
                  \/ /\ UNCHANGED <<page, typed, told>>
                     /\ unsure' = [u \in Tabs |-> unsure[u] \/ u = t \/ next # Response(row)]

StoreFails(t) == request[t] # Idle /\ Refuse(t)

Next ==
    \E t \in Tabs :
        \/ Load(t) \/ EditText(t) \/ EditTokens(t) \/ EditPicked(t) \/ Save(t) \/ Upload(t) \/ Fill(t)
        \/ Find(t) \/ Apply(t) \/ FindAgain(t) \/ Store(t) \/ StoreFails(t)

Spec == Init /\ [][Next]_vars
-----------------------------------------------------------------------------
\* A field of the stored preference changes only by a request that was made for it,
\* an edit of it saved or a CV uploaded, or by a CV that fills it when it is empty; or
\* when it was no longer what the request went by: another request had stored it since
\* the form was made, or since the row was read, or the page had been shown nothing.
ProfileKeeps ==
    [][\A f \in Fields : Response(row)[f] # Response(row')[f] =>
        \E t \in Tabs :
            /\ request[t] # Idle /\ request'[t] = Idle
            /\ \/ f \in request[t].wants
               \/ request[t].op = "fill" /\ Response(row)[f] = ""
               \/ Response(row)[f] # request[t].knew[f]
               \/ Response(row)[f] # Response(request[t].read)[f]]_vars

\* A form nobody has edited since it was last replaced, with nothing under way, holds
\* what is stored and says that nothing is unsaved, unless the other tab has stored
\* something since, a fetch failed or an answer was lost.
FormTellsTruth ==
    \A t \in Tabs : asked[t] = <<>> /\ typed[t] = {} /\ ~unsure[t] =>
        page[t].form = Response(row) /\ ~Dirty(t)

\* Both, with the types: what a request may change, and what a form at rest shows.
ProfileTellsTruth == [](TypeOK /\ FormTellsTruth) /\ ProfileKeeps
=============================================================================
