-------------------------------- MODULE Seeding --------------------------------
(***************************************************************************)
(* Finding boards to crawl: a run probes the candidate names against the     *)
(* vendors (worker, domain/discovery/seed.ts and vendors.ts), and the API    *)
(* registers the confirmed boards one by one                                *)
(* (internal/company-seed.service.ts). Runs overlap: the scheduled one and   *)
(* the script's. People add companies, rename them and set careers URLs       *)
(* meanwhile; removing a company is left out.                                *)
(*                                                                         *)
(* A name is a word and how it is spelled: "slug" is all lowercase, "title"   *)
(* has its first letter capital, "odd" any other capital. A URL is Hand, set by somebody, or  *)
(* the platform and the token of a board, which answers to any case.         *)
(***************************************************************************)
EXTENDS Naturals, Sequences, FiniteSets, SequencesExt

CONSTANTS Runs, Words, Platforms, Nothing, Hand,
          Candidates,  \* bound: the names a run may try
          MaxEdits     \* bound: what people do

VARIABLES companies,   \* Seq of rows, by id
          run,         \* [Runs -> where the run stands]
          adding,      \* the name somebody gave and findOrCreate did not find
          edits

vars == <<companies, run, adding, edits>>

Names == Words \X {"slug", "title", "odd"}
Hits == [platform : Platforms, token : Names]
Rows == [name : Names, url : {Nothing, Hand} \union Hits]

\* stale is history: the row that was found has been written since.
Idle == [at |-> "idle", todo |-> {}, found |-> <<>>, id |-> 0, row |-> Nothing, stale |-> FALSE]

TypeOK ==
    /\ companies \in Seq(Rows) /\ adding \in Names \union {Nothing}
    /\ \A r \in Runs :
        /\ run[r].at \in {"idle", "probe", "find", "save"} /\ run[r].todo \subseteq Names
        /\ run[r].found \in Seq(Hits) /\ run[r].id \in 0 .. Len(companies)
        /\ run[r].row \in Rows \union {Nothing} /\ run[r].stale \in BOOLEAN

Init ==
    /\ companies = <<>> /\ run = [r \in Runs |-> Idle] /\ adding = Nothing /\ edits = 0
-----------------------------------------------------------------------------
\* candidates: from the directories any name, from our companies those without a URL.
Start(r) ==
    /\ run[r].at = "idle"
    /\ \E tokens \in SUBSET Candidates \ {{}} :
        run' = [run EXCEPT ![r] = [Idle EXCEPT !.at = "probe", !.todo = tokens]]
    /\ UNCHANGED <<companies, adding, edits>>

\* probeToken: the first vendor that answers with offers, several tokens at once and
\* their answers in any order; one that fails to answer has none.
Probe(r) ==
    /\ run[r].at = "probe"
    /\ \E token \in run[r].todo :
        \/ \E p \in Platforms :
            run' = [run EXCEPT ![r].todo = @ \ {token},
                               ![r].found = Append(@, [platform |-> p, token |-> token])]
        \/ run' = [run EXCEPT ![r].todo = @ \ {token}]
    /\ UNCHANGED <<companies, adding, edits>>

SameBoard(h, k) == h.platform = k.platform /\ h.token[1] = k.token[1]

\* byBoard: the first hit of a board, unless a later one is lowercase and it is not.
ByBoard(found) ==
    FoldLeft(LAMBDA kept, hit :
        LET of == {k \in kept : SameBoard(k, hit)}
        IN IF of = {} \/ (hit.token[2] = "slug" /\ \A k \in of : k.token[2] # "slug")
           THEN (kept \ of) \union {hit} ELSE kept,
        {}, found)

\* The boards are sorted by their offers, of which anything is known: any order.
Confirm(r) ==
    /\ run[r].at = "probe" /\ run[r].todo = {} /\ run[r].found # <<>>
    /\ \E hits \in SetToSeqs(ByBoard(run[r].found)) :
        run' = [run EXCEPT ![r].at = "find", ![r].found = hits]
    /\ UNCHANGED <<companies, adding, edits>>

Empty(r) ==
    /\ run[r].at = "probe" /\ run[r].todo = {} /\ run[r].found = <<>>
    /\ run' = [run EXCEPT ![r] = Idle]
    /\ UNCHANGED <<companies, adding, edits>>
-----------------------------------------------------------------------------
\* capitalize, when isSlugCased.
Spelled(name) == IF name[2] = "slug" THEN <<name[1], "title">> ELSE name

Entry(r) == Head(run[r].found)
Named(r) == Spelled(Entry(r).token)

\* lower(btrim(company.name)) = lower(btrim(:name))
Like(name) == {i \in DOMAIN companies : companies[i].name[1] = name[1]}

Find(r) ==
    /\ run[r].at = "find"
    /\ LET same == Like(Named(r))
       IN \/ /\ same = {}
             /\ run' = [run EXCEPT ![r].at = "save", ![r].id = 0, ![r].row = Nothing]
          \/ \E i \in same :
             run' = [run EXCEPT ![r].at = "save", ![r].id = i, ![r].row = companies[i]]
    /\ UNCHANGED <<companies, adding, edits>>

\* What the other runs make of it that row id is written.
Overtaken(state, id) == IF state.at = "save" /\ state.id = id THEN [state EXCEPT !.stale = TRUE] ELSE state

\* keepsUrl: whatever URL the row had at the look, it stays.
KeepsUrl(row) == row.url # Nothing

\* What the entry makes of the row that was found: a slug is renamed.
Updated(row, name, url) ==
    [name |-> IF row.name[2] = "slug" THEN name ELSE row.name,
     url  |-> IF KeepsUrl(row) THEN row.url ELSE url]

\* To the next entry, or the run ends.
Onwards(r) ==
    IF Len(run[r].found) = 1 THEN Idle
    ELSE [Idle EXCEPT !.at = "find", !.found = Tail(run[r].found)]

\* Mutant: the index on the names as they are spelled.
ClashesExactly(name, id) == \E i \in DOMAIN companies : i # id /\ companies[i].name = name

\* UQ_company_name_lower: a row whose name another has, in any case, is refused.
Clashes(name, id) == \E i \in DOMAIN companies : i # id /\ companies[i].name[1] = name[1]

\* No company, a new one; a row that changes, the whole copy is saved. A refusal ends
\* the request, and the entries after this one are not registered.
Save(r) ==
    /\ run[r].at = "save"
    /\ LET id == run[r].id
           row == IF id = 0 THEN [name |-> Named(r), url |-> Entry(r)]
                  ELSE Updated(run[r].row, Named(r), Entry(r))
           To(state) == run' = [x \in Runs |-> IF x = r THEN state ELSE run[x]]
       IN \/ row = run[r].row /\ To(Onwards(r)) /\ UNCHANGED companies
          \/ row # run[r].row /\ Clashes(row.name, id) /\ To(Idle) /\ UNCHANGED companies
          \/ /\ row # run[r].row /\ ~Clashes(row.name, id)
             /\ companies' = IF id = 0 THEN Append(companies, row)
                             ELSE [companies EXCEPT ![id] = row]
             /\ run' = [x \in Runs |-> IF x = r THEN Onwards(r)
                                      ELSE IF id = 0 THEN run[x] ELSE Overtaken(run[x], id)]
    /\ UNCHANGED <<adding, edits>>

\* The crawler's request ends anywhere: the entries before it stay.
Stop(r) ==
    /\ run[r].at # "idle" /\ run' = [run EXCEPT ![r] = Idle]
    /\ UNCHANGED <<companies, adding, edits>>
-----------------------------------------------------------------------------
\* CompanyService.findOrCreate, as people name companies in their applications: a
\* look and, if there is none of that name, an insert.
LookByHand ==
    /\ edits < MaxEdits /\ edits' = edits + 1
    /\ adding = Nothing
    /\ \E name \in Names : Like(name) = {} /\ adding' = name
    /\ UNCHANGED <<companies, run>>

AddByHand ==
    /\ adding # Nothing /\ adding' = Nothing
    /\ companies' = IF Clashes(adding, 0) THEN companies
                    ELSE Append(companies, [name |-> adding, url |-> Nothing])
    /\ UNCHANGED <<run, edits>>

\* An administrator renames a company and sets its URL.
Edit ==
    /\ edits < MaxEdits /\ edits' = edits + 1
    /\ \E i \in DOMAIN companies, name \in Names :
        \E url \in {companies[i].url, Hand} :
            /\ ~Clashes(name, i)
            /\ companies' = [companies EXCEPT ![i] = [name |-> name, url |-> url]]
            /\ run' = [r \in Runs |-> Overtaken(run[r], i)]
    /\ UNCHANGED adding

Next ==
    \/ \E r \in Runs : Start(r) \/ Probe(r) \/ Confirm(r) \/ Empty(r) \/ Find(r) \/ Save(r) \/ Stop(r)
    \/ LookByHand \/ AddByHand \/ Edit

Spec == Init /\ [][Next]_vars
-----------------------------------------------------------------------------
\* A run confirms each board it found once, and by its lowercase name if it was found
\* by it, in whatever order the vendors answer ("One board answers to any case"). Runs
\* and people who overlap register one company a name, however it is spelled ("never
\* blind insert"). A URL that somebody set ("outranks one a discovery guessed") and a
\* name with a capital ("spells itself that way on purpose") are changed by people
\* only, unless the company was written between a run's look and its save of the copy.
SeedKeeps ==
    [][/\ \A r \in Runs : run[r].at = "probe" /\ run'[r].at = "find" =>
            /\ \A h \in ToSet(run[r].found) : \E k \in ToSet(run'[r].found) :
                    SameBoard(h, k) /\ (h.token[2] = "slug" => k.token[2] = "slug")
            /\ \A i, j \in DOMAIN run'[r].found :
                    i # j => ~SameBoard(run'[r].found[i], run'[r].found[j])
       /\ \A i \in DOMAIN companies :
            (\/ companies[i].url = Hand /\ companies'[i].url # Hand
             \/ companies[i].name[2] # "slug" /\ companies'[i].name # companies[i].name)
            => edits' # edits \/ \E r \in Runs : run[r].id = i /\ run[r].stale
       /\ \A i, j \in DOMAIN companies' :
            i # j => companies'[i].name[1] # companies'[j].name[1]
      ]_vars
=============================================================================
