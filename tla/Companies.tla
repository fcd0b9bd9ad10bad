-------------------------------- MODULE Companies --------------------------------
(***************************************************************************)
(* The companies (api, features/company), the administrator's list of them    *)
(* (web, components/features/companies) and a user's watchlist (web,          *)
(* components/features/watchlist). The API's requests run statement by         *)
(* statement, those of the two people interleave.                            *)
(*                                                                         *)
(* A name is a folded name and a spelling; of the fields of a company one URL  *)
(* is kept. The server actions of a tab run one at a time, and the answer of   *)
(* one that succeeds carries its page rendered anew. The administrator's list  *)
(* is that of a status and a page, newest first; it is not searched or sorted  *)
(* otherwise. A navigation is one step (in ApplicationsList it is two).        *)
(***************************************************************************)
EXTENDS Naturals, Sequences, FiniteSets

CONSTANTS Spelled,      \* the names people type: <<folded, spelling>>
          PageSize,     \* limit: 20
          MaxCompanies, \* bound: companies ever inserted
          MaxTasks,     \* bound: what the administrator and the user do
          Shut          \* no dialog, or no form in it

VARIABLES companies,  \* [ids of the stored companies -> name, status, url, logo]
          applied,    \* the companies with applications
          watched,    \* [ids the user watches -> the override of the url]
          url,        \* the searchParams: status and page
          list,       \* useCompanyStore: [ids -> name, status, url]
          open,       \* the id of the searchParams, whose dialog is open, or Shut
          form,       \* EditCompanyForm: id, name, url and the save under way, or Shut
          cards,      \* [ids of the watchlist -> shown: the url, typed: the input]
          admin, user,\* the actions each has called and that are not answered
          inserted, tasks,
          restored,   \* history: a failed change of status put back what it saved amid others,
                      \*   or of a list that was not what is stored
          blind,      \* history: the list was fetched in vain, or written since by others
                      \*   or by an action that failed all the same
          stale       \* history: the watchlist was written since by others, or by such

vars == <<companies, applied, watched, url, list, open, form, cards, admin, user, inserted,
          tasks, restored, blind, stale>>

CompanyIds == 1 .. MaxCompanies
Urls == {"", "old", "new"}
CompanyStatuses == {"PENDING", "APPROVED", "REJECTED"}
Places == [status : CompanyStatuses, page : 1 .. MaxCompanies]

Stored == [name : Spelled, status : CompanyStatuses, url : Urls, logo : {"", "fetched", "uploaded"}]
Rows == [name : Spelled, status : CompanyStatuses, url : Urls]
Forms == [id : CompanyIds, name : Spelled, url : Urls, saving : Nat]
Cards == [shown : Urls, typed : Urls]

AdminCalls ==
    [op : {"status"}, id : CompanyIds, to : {"APPROVED", "REJECTED"}, previous : Rows,
     amid : BOOLEAN]
    \union [op : {"logo", "update"}, id : CompanyIds, name : Spelled, url : Urls, at : Places,
            by : Nat]
    \union [op : {"delete", "company"}, id : CompanyIds]
    \union [op : {"import"}, rows : Seq(Spelled)] \union [op : {"refresh"}]

UserCalls ==
    [op : {"find", "insert"}, name : Spelled]
    \union [op : {"fetchLogo", "watch", "unwatch"}, id : CompanyIds]
    \union [op : {"override"}, id : CompanyIds, url : Urls]

TypeOK ==
    /\ inserted \in CompanyIds /\ DOMAIN companies \subseteq 1 .. inserted
    /\ companies \in [DOMAIN companies -> Stored] /\ applied \subseteq DOMAIN companies
    /\ DOMAIN watched \subseteq DOMAIN companies /\ watched \in [DOMAIN watched -> Urls]
    /\ DOMAIN list \subseteq CompanyIds /\ list \in [DOMAIN list -> Rows]
    /\ DOMAIN cards \subseteq CompanyIds /\ cards \in [DOMAIN cards -> Cards]
    /\ url \in Places /\ open \in CompanyIds \union {Shut} /\ form \in Forms \union {Shut}
    /\ tasks \in Nat /\ {restored, blind, stale} \subseteq BOOLEAN
    /\ admin \in Seq(AdminCalls) /\ user \in Seq(UserCalls)

Fold(name) == name[1]

Keep(f, ids) == [c \in DOMAIN f \intersect ids |-> f[c]]

\* One more, unless it is there.
With(f, x, y) == [c \in DOMAIN f \union {x} |-> IF c \in DOMAIN f THEN f[c] ELSE y]

\* findAll: those of the status, of which the page shows PageSize.
OnPage(stored, at) ==
    LET some == {c \in DOMAIN stored : stored[c].status = at.status}
    IN {c \in some : Cardinality({d \in some : d > c}) \div PageSize = at.page - 1}

\* What the pages fetch.
Listed(stored, at) ==
    [c \in OnPage(stored, at) |->
        [name |-> stored[c].name, status |-> stored[c].status, url |-> stored[c].url]]

\* findWatched: the user's own URL before the company's.
Shown(stored, mine) ==
    [c \in DOMAIN mine |-> IF mine[c] # "" THEN mine[c] ELSE stored[c].url]

Init ==
    /\ companies = [c \in {1} |-> [name |-> CHOOSE n \in Spelled : TRUE, status |-> "PENDING",
                                  url |-> "old", logo |-> ""]]
    /\ applied \in SUBSET {1} /\ watched = <<>>
    /\ url = [status |-> "PENDING", page |-> 1] /\ list = Listed(companies, url)
    /\ open = Shut /\ form = Shut /\ cards = <<>>
    /\ admin = <<>> /\ user = <<>> /\ inserted = 1 /\ tasks = 0
    /\ restored = FALSE /\ blind = FALSE /\ stale = FALSE

Task == tasks < MaxTasks /\ tasks' = tasks + 1

database == <<companies, applied, watched>>
Untouched == UNCHANGED <<database, inserted, restored, stale>>
Act == Task /\ Untouched

\* The list is what a fetch answers, or empty.
Rendered ==
    /\ list' \in {Listed(companies', url'), <<>>}
    /\ blind' = (list' # Listed(companies', url'))
    \* The form is mounted while the list has the company of the dialog, and keeps what
    \* it holds.
    /\ form' = IF open' \notin DOMAIN list' THEN Shut
               ELSE IF form # Shut THEN form
               ELSE [id |-> open', name |-> list'[open'].name, url |-> list'[open'].url,
                     saving |-> 0]

Goes(to, id) == url' = to /\ open' = id /\ Rendered
PageStays == UNCHANGED <<url, list, open, form, blind>>
-----------------------------------------------------------------------------
\* CompanyCardActions: a pending company is accepted or rejected at once in the list.
UpdateStatus ==
    /\ Act /\ open = Shut
    /\ \E c \in DOMAIN list, to \in {"APPROVED", "REJECTED"} :
        /\ list[c].status = "PENDING"
        /\ list' = [list EXCEPT ![c].status = to]
        /\ admin' = Append(admin, [op |-> "status", id |-> c, to |-> to, previous |-> list[c],
                                     amid |-> admin # <<>> \/ blind])
    /\ UNCHANGED <<url, open, form, cards, user, blind>>

\* CompaniesStatusSelect
ChangeStatus ==
    /\ Act /\ open = Shut
    /\ \E status \in CompanyStatuses : Goes([status |-> status, page |-> 1], Shut)
    /\ UNCHANGED <<cards, admin, user>>

\* changePage, or a page typed in the address.
ChangePage ==
    /\ Act /\ open = Shut
    /\ \E page \in 1 .. MaxCompanies : page # url.page /\ Goes([url EXCEPT !.page = page], Shut)
    /\ UNCHANGED <<cards, admin, user>>

OpenDialog ==
    /\ Act /\ open = Shut /\ \E c \in DOMAIN list : Goes(url, c)
    /\ UNCHANGED <<cards, admin, user>>

TypeName ==
    /\ Act /\ form # Shut /\ \E n \in Spelled \ {form.name} : form' = [form EXCEPT !.name = n]
    /\ UNCHANGED <<url, list, open, cards, admin, user, blind>>

TypeUrl ==
    /\ Act /\ form # Shut /\ \E u \in {"", "new"} \ {form.url} : form' = [form EXCEPT !.url = u]
    /\ UNCHANGED <<url, list, open, cards, admin, user, blind>>

\* onSubmit: the logo first when one was picked, then the fields that are not empty.
Submit ==
    /\ Act /\ form # Shut /\ form.saving = 0 /\ form' = [form EXCEPT !.saving = tasks']
    /\ \E op \in {"logo", "update"} :
        admin' = Append(admin, [op |-> op, id |-> form.id, name |-> form.name, url |-> form.url,
                                at |-> url, by |-> tasks'])
    /\ UNCHANGED <<url, list, open, cards, user, blind>>

\* Cancel, Escape and the corner; the last two also while it is being saved.
CloseDialog ==
    /\ open # Shut /\ Untouched /\ Goes(url, Shut)
    /\ UNCHANGED <<cards, admin, user, tasks>>

\* handleDelete closes the dialog and does not look at the answer.
Delete ==
    /\ Act /\ form # Shut /\ form.saving = 0 /\ Goes(url, Shut)
    /\ admin' = Append(admin, [op |-> "delete", id |-> form.id])
    /\ UNCHANGED <<cards, user>>

\* A file of two rows.
Import ==
    /\ Act /\ open = Shut
    /\ \E n \in Spelled : \E m \in Spelled \ {n} :
            admin' = Append(admin, [op |-> "import", rows |-> <<n, m>>])
    /\ UNCHANGED <<cards, user>> /\ PageStays
-----------------------------------------------------------------------------
Asked == Head(admin)
Serving(op) == admin # <<>> /\ Asked.op = op /\ tasks' = tasks
Done == admin' = Tail(admin)

\* router.refresh, after those that were asked for before it.
Refreshing == admin' = Append(Tail(admin), [op |-> "refresh"])

\* The other page is not told.
Elsewhere == stale' = (stale \/ Shown(companies', watched') # Shown(companies, watched))

\* An action that failed shows nothing of what it stored, if it did.
Unheard == companies' # companies \/ blind

\* A failed change of status that puts nothing back.
PutNothingBack(call) == list

\* The whole company as it was before the change.
PutBack(call) == IF call.id \in DOMAIN list THEN [list EXCEPT ![call.id] = call.previous] ELSE list

\* updateStatus writes the status and reads the company back.
ServeStatus ==
    /\ Serving("status") /\ Done
    /\ LET changed == IF Asked.id \in DOMAIN companies
                      THEN [companies EXCEPT ![Asked.id].status = Asked.to] ELSE companies
       IN \/ /\ Asked.id \in DOMAIN companies /\ companies' = changed
             /\ Goes(url, open) /\ UNCHANGED restored
          \/ /\ companies' \in {companies, changed} /\ list' = PutBack(Asked)
             /\ restored' = (restored \/ Asked.amid) /\ blind' = Unheard
             /\ UNCHANGED <<url, open, form>>
    /\ UNCHANGED <<applied, watched, cards, user, inserted, stale>>

\* Fields sent as undefined are left alone.
Changes(company, call) ==
    [company EXCEPT !.name = call.name, !.url = IF call.url = "" THEN @ ELSE call.url]

\* lower(btrim(name)) is unique.
NameFree(name, ids) == \A c \in ids : Fold(companies[c].name) # Fold(name)

\* The save of a form that is still there is over.
Saved == form' = IF form = Shut THEN Shut
                 ELSE [form EXCEPT !.saving = IF @ = Asked.by THEN 0 ELSE @]

\* The upload of a logo renders nothing; the update that comes after it closes the
\* dialog. Either can fail, and then the dialog stays.
ServeLogo ==
    /\ Serving("logo")
    /\ LET changed == IF Asked.id \in DOMAIN companies
                      THEN [companies EXCEPT ![Asked.id].logo = "uploaded"] ELSE companies
       IN \/ /\ Asked.id \in DOMAIN companies /\ companies' = changed
             /\ admin' = Append(Tail(admin), [Asked EXCEPT !.op = "update"]) /\ form' = form
          \/ companies' \in {companies, changed} /\ Done /\ Saved
    /\ UNCHANGED <<applied, watched, url, list, open, cards, user, inserted, restored, blind, stale>>

\* onClose is that of the page the form was sent from: it goes back there.
ServeUpdate ==
    /\ Serving("update") /\ watched' = watched
    /\ LET changed == IF /\ Asked.id \in DOMAIN companies
                         /\ NameFree(Asked.name, DOMAIN companies \ {Asked.id})
                      THEN [companies EXCEPT ![Asked.id] = Changes(@, Asked)] ELSE companies
       IN \/ /\ Asked.id \in DOMAIN companies
             /\ NameFree(Asked.name, DOMAIN companies \ {Asked.id})
             /\ companies' = changed /\ Goes(Asked.at, Shut) /\ Refreshing
          \/ /\ companies' \in {companies, changed} /\ blind' = Unheard /\ Done /\ Saved
             /\ UNCHANGED <<url, list, open>>
    /\ Elsewhere
    /\ UNCHANGED <<applied, cards, user, inserted, restored>>

\* remove, first the applications of everybody.
ServeDelete ==
    /\ Serving("delete") /\ applied' \in {applied, applied \ {Asked.id}}
    /\ \/ /\ applied' = applied \ {Asked.id}
          /\ admin' = <<[op |-> "company", id |-> Asked.id]>> \o Tail(admin)
       \/ Refreshing
    /\ UNCHANGED <<companies, watched, cards, user, inserted, restored, stale>> /\ PageStays

\* Then the company, which an application made in between holds (NO ACTION); its
\* watches go with it (CASCADE). The page is refreshed either way, and the answer of a
\* deletion that succeeded renders it too.
ServeDeleteCompany ==
    /\ Serving("company") /\ Refreshing /\ UNCHANGED <<applied, cards, user, inserted, restored>>
    /\ LET gone == IF Asked.id \notin applied THEN {Asked.id} ELSE {}
       IN \/ /\ Asked.id \notin applied
             /\ companies' = Keep(companies, CompanyIds \ gone)
             /\ watched' = Keep(watched, CompanyIds \ gone)
             /\ Goes(url, open)
          \/ /\ \/ UNCHANGED <<companies, watched>>
                \/ /\ companies' = Keep(companies, CompanyIds \ gone)
                   /\ watched' = Keep(watched, CompanyIds \ gone)
             /\ PageStays
    /\ Elsewhere

Insert(name, site) ==
    /\ inserted < MaxCompanies /\ inserted' = inserted + 1
    /\ NameFree(name, DOMAIN companies)
    /\ companies' = With(companies, inserted + 1,
                         [name |-> name, status |-> "PENDING", url |-> site, logo |-> ""])

\* importFromCSV: the rows one by one, and a row that fails stops none of the others.
ServeRow ==
    /\ Serving("import") /\ Asked.rows # <<>>
    /\ admin' = <<[Asked EXCEPT !.rows = Tail(@)]>> \o Tail(admin)
    /\ Insert(Head(Asked.rows), "new") \/ UNCHANGED <<companies, inserted>>
    /\ blind' = Unheard
    /\ UNCHANGED <<applied, watched, url, list, open, form, cards, user, restored, stale>>

ServeImport ==
    /\ Serving("import") /\ Asked.rows = <<>>
    /\ companies' = companies
    /\ (Goes(url, open) /\ Refreshing) \/ (PageStays /\ Done)
    /\ UNCHANGED <<applied, watched, cards, user, inserted, restored, stale>>

ServeRefresh ==
    /\ Serving("refresh") /\ Done /\ companies' = companies /\ Goes(url, open)
    /\ UNCHANGED <<applied, watched, cards, user, inserted, restored, stale>>
-----------------------------------------------------------------------------
\* The user's tab: a company is added by the name typed or picked, a card is edited.
Watch ==
    /\ Act
    /\ \E n \in Spelled : user' = Append(user, [op |-> "find", name |-> n])
    /\ UNCHANGED <<cards, admin>> /\ PageStays

Unwatch ==
    /\ Act
    /\ \E c \in DOMAIN cards : user' = Append(user, [op |-> "unwatch", id |-> c])
    /\ UNCHANGED <<cards, admin>> /\ PageStays

TypeCard ==
    /\ Act
    /\ \E c \in DOMAIN cards, u \in {"", "new"} :
        u # cards[c].typed /\ cards' = [cards EXCEPT ![c].typed = u]
    /\ UNCHANGED <<admin, user>> /\ PageStays

\* handleSave sends every input, whichever was typed in.
SaveCard ==
    /\ Act
    /\ \E c \in DOMAIN cards :
        user' = Append(user, [op |-> "override", id |-> c, url |-> cards[c].typed])
    /\ UNCHANGED <<cards, admin>> /\ PageStays

\* A card that was there keeps what its inputs hold.
RenderCards ==
    LET shown == Shown(companies', watched')
    IN /\ cards' = [c \in DOMAIN shown |->
                        [shown |-> shown[c],
                         typed |-> IF c \in DOMAIN cards THEN cards[c].typed ELSE shown[c]]]
       /\ stale' = FALSE

Calling(op) == user # <<>> /\ Head(user).op = op /\ tasks' = tasks
Answer == user' = Tail(user)
Become(task) == user' = <<task>> \o Tail(user)

NamedAs(name) == {c \in DOMAIN companies : Fold(companies[c].name) = Fold(name)}

\* findOrCreate: one that is not found is inserted, and its logo fetched before it is
\* watched.
ServeFind ==
    /\ Calling("find")
    /\ LET found == NamedAs(Head(user).name)
       IN \/ found = {} /\ Become([op |-> "insert", name |-> Head(user).name])
          \/ \E c \in found : Become([op |-> "watch", id |-> c])
          \/ Answer
    /\ UNCHANGED <<database, cards, admin, inserted, restored, stale>> /\ PageStays

ServeInsert ==
    /\ Calling("insert")
    /\ \/ /\ Insert(Head(user).name, "")
          /\ Become([op |-> "fetchLogo", id |-> inserted + 1]) \/ Answer
       \/ UNCHANGED <<companies, inserted>> /\ Answer
    /\ blind' = Unheard
    /\ UNCHANGED <<applied, watched, url, list, open, form, cards, admin, restored, stale>>

\* fetchAndSaveLogo: whatever the company has by then.
ServeFetchLogo ==
    /\ Calling("fetchLogo") /\ Become([Head(user) EXCEPT !.op = "watch"])
    /\ \/ Head(user).id \in DOMAIN companies
          /\ companies' = [companies EXCEPT ![Head(user).id].logo = "fetched"]
       \/ companies' = companies
    /\ UNCHANGED <<applied, watched, cards, admin, inserted, restored, stale>> /\ PageStays

\* The watches are changed and the cards rendered; or they are not, or they are and the
\* tab is told that they are not.
Watches(changed) ==
    /\ Answer /\ companies' = companies
    /\ \/ watched' = changed /\ RenderCards
       \/ watched' \in {watched, changed} /\ cards' = cards /\ Elsewhere
    /\ UNCHANGED <<applied, admin, inserted, restored>> /\ PageStays

\* setWatch: a second insert is a duplicate, which is tolerated; a company that has
\* gone fails.
ServeWatch ==
    /\ Calling("watch")
    /\ \/ /\ Head(user).id \in DOMAIN companies
          /\ Watches(With(watched, Head(user).id, ""))
       \/ Answer /\ UNCHANGED <<database, cards, admin, inserted, restored, stale>> /\ PageStays

ServeUnwatch ==
    /\ Calling("unwatch") /\ Watches(Keep(watched, CompanyIds \ {Head(user).id}))

\* updateWatchOverrides: an update that finds no watch changes none, and succeeds.
ServeOverride ==
    /\ Calling("override")
    /\ Watches([c \in DOMAIN watched |-> IF c = Head(user).id THEN Head(user).url ELSE watched[c]])

\* Somebody applies to a company.
Apply ==
    /\ Task /\ applied # DOMAIN companies
    /\ \E c \in DOMAIN companies \ applied : applied' = applied \union {c}
    /\ UNCHANGED <<companies, watched, cards, admin, user, inserted, restored, stale>> /\ PageStays

Next ==
    \/ UpdateStatus \/ ChangeStatus \/ ChangePage \/ OpenDialog \/ TypeName \/ TypeUrl
    \/ Submit \/ CloseDialog \/ Delete \/ Import
    \/ ServeStatus \/ ServeLogo \/ ServeUpdate \/ ServeDelete \/ ServeDeleteCompany
    \/ ServeRow \/ ServeImport \/ ServeRefresh
    \/ Watch \/ Unwatch \/ TypeCard \/ SaveCard
    \/ ServeFind \/ ServeInsert \/ ServeFetchLogo \/ ServeWatch \/ ServeUnwatch \/ ServeOverride
    \/ Apply

Spec == Init /\ [][Next]_vars
-----------------------------------------------------------------------------
\* The administrator's list is what is stored of its status and page when none of their
\* actions is under way, whichever of them failed, unless it was a change of status asked
\* for while others were under way or the list was behind, or one that is stored all the
\* same, or other people wrote; the watchlist likewise has the companies the user watches
\* and the URLs that are theirs; no two companies have one name, however it is spelled.
CompanyKeeps ==
    /\ \A c, d \in DOMAIN companies : Fold(companies[c].name) = Fold(companies[d].name) => c = d
    /\ admin = <<>> /\ ~restored /\ ~blind => list = Listed(companies, url)
    /\ user = <<>> /\ ~stale =>
        [c \in DOMAIN cards |-> cards[c].shown] = Shown(companies, watched)
=============================================================================
