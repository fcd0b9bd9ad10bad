-------------------------------- MODULE MCPages --------------------------------
(***************************************************************************)
(* The pages of the web application, each with what the API keeps for it: the *)
(* matches, the kanban board and the table of applications, the documents, the *)
(* job profile, the companies and the watchlist, the avatar. They share        *)
(* nothing: a behaviour is one of them moving while the others stay as they began, so    *)
(* that their states add up and do not multiply.                             *)
(***************************************************************************)
EXTENDS Naturals, Sequences, FiniteSets

CONSTANTS NoUrl, Shut,
          Filters, MaxPushes, MaxCalls, NoPane,
          Apps, Statuses, Unset, MaxDrags, None,
          Kinds, Resume, Names, Given, MaxFiles, MaxActs, Nobody,
          Tabs, MaxOps, NoRow, Idle,
          PageSize, MaxCompanies, MaxTasks,
          Ids, MaxListActs, NoId,
          Looks, NoLook, Delay, MaxPicks

VARIABLES which,
    url, next, draft, pane, offer, calls, refresh, pushes, called, wanted, turned,
    overtaken, doubled, reopened, dismissed, halved,
    server, store, columns, drag, moves, queue, fresh, drags, raced, unheard,
    stored, attached, files, value, loading, view, uploading, tasks, acts, ids,
    clobbered, unseen,
    row, page, asked, request, ops, typed, told, unsure,
    companies, applied, watched, firmUrl, list, firmOpen, firmForm, cards, admin, user, inserted,
    errands, restored, blind, stale,
    apps, at, toward, toolbar, input, debounced, rows, total, open, form, creating,
    selection, waiting, renders, steps, replaced, failed, hushed,
    look, settled, passed, timer, rest, due, avatarCalls, picture, avatar, missed, skipped, picks

Matches == INSTANCE MatchesPage
Board == INSTANCE KanbanBoard
Docs == INSTANCE Documents
Profile == INSTANCE JobProfile
Spellings == {<<"acme", 1>>, <<"acme", 2>>, <<"zeta", 1>>}

Firms == INSTANCE Companies WITH
    url <- firmUrl, open <- firmOpen, form <- firmForm, tasks <- errands, Spelled <- Spellings
Table == INSTANCE ApplicationsList WITH
    url <- at, next <- toward, store <- rows, asked <- waiting, refresh <- renders,
    acts <- steps, overtaken <- replaced, blind <- failed, unheard <- hushed,
    MaxActs <- MaxListActs
Avatar == INSTANCE AvatarEditor WITH
    form <- look, debounced <- settled, throttled <- passed, wait <- timer, pending <- due,
    actions <- avatarCalls, preview <- picture, stored <- avatar

\* What stands for no URL, pane, application, form or preference is none.
ASSUME NothingAssumption ==
    /\ NoUrl \notin Matches!Urls /\ NoPane \notin Matches!Panes
    /\ NoUrl \notin Table!Urls /\ NoId \notin Ids /\ Shut \notin Table!Forms
    /\ NoRow \notin Profile!Rows

ASSUME IdsAssumption == IsFiniteSet(Ids)

\* A render of the board under way is not the lack of one.
ASSUME AppsAssumption == IsFiniteSet(Apps) /\ None \notin [Apps -> Board!Cards]

ASSUME DelayAssumption == Delay \in Nat

ASSUME FilesAssumption == MaxFiles \in Nat /\ Resume \in Kinds

ASSUME CompaniesAssumption == MaxCompanies \in Nat \ {0}

matchesVars == <<url, next, draft, pane, offer, calls, refresh, pushes, called, wanted,
                 turned, overtaken, doubled, reopened, dismissed, halved>>
boardVars == <<server, store, columns, drag, moves, queue, fresh, drags, raced, unheard>>
docsVars == <<stored, attached, files, value, loading, view, uploading, tasks, acts, ids,
              clobbered, unseen>>
profileVars == <<row, page, asked, request, ops, typed, told, unsure>>
firmsVars == <<companies, applied, watched, firmUrl, list, firmOpen, firmForm, cards, admin,
               user, inserted, errands, restored, blind, stale>>
tableVars == <<apps, at, toward, toolbar, input, debounced, rows, total, open, form,
               creating, selection, waiting, renders, steps, replaced, failed, hushed>>
avatarVars == <<look, settled, passed, timer, rest, due, avatarCalls, picture, avatar,
                missed, skipped, picks>>
vars == <<which, matchesVars, boardVars, docsVars, profileVars, firmsVars, tableVars,
          avatarVars>>

Init ==
    /\ which \in {"matches", "board", "documents", "profile", "companies", "table", "avatar"}
    /\ Matches!Init /\ Board!Init /\ Docs!Init /\ Profile!Init /\ Firms!Init /\ Table!Init
    /\ Avatar!Init
    \* The pages that stay as they began have one beginning.
    /\ which # "board" => \A x \in Apps : server[x].status = CHOOSE s \in Statuses : TRUE
    /\ which # "profile" => row = NoRow
    /\ which # "companies" => applied = {}
    /\ which # "table" => DOMAIN apps = {} /\ toolbar = "applications" /\ at.search = ""
    /\ which # "avatar" => look = CHOOSE l \in Looks : TRUE

Next ==
    \/ /\ which = "matches" /\ Matches!Next
       /\ UNCHANGED <<which, boardVars, docsVars, profileVars, firmsVars, tableVars, avatarVars>>
    \/ /\ which = "board" /\ Board!Next
       /\ UNCHANGED <<which, matchesVars, docsVars, profileVars, firmsVars, tableVars, avatarVars>>
    \/ /\ which = "documents" /\ Docs!Next
       /\ UNCHANGED <<which, matchesVars, boardVars, profileVars, firmsVars, tableVars, avatarVars>>
    \/ /\ which = "profile" /\ Profile!Next
       /\ UNCHANGED <<which, matchesVars, boardVars, docsVars, firmsVars, tableVars, avatarVars>>
    \/ /\ which = "companies" /\ Firms!Next
       /\ UNCHANGED <<which, matchesVars, boardVars, docsVars, profileVars, tableVars, avatarVars>>
    \/ /\ which = "table" /\ Table!Next
       /\ UNCHANGED <<which, matchesVars, boardVars, docsVars, profileVars, firmsVars, avatarVars>>
    \/ /\ which = "avatar" /\ Avatar!Next
       /\ UNCHANGED <<which, matchesVars, boardVars, docsVars, profileVars, firmsVars, tableVars>>

Spec == Init /\ [][Next]_vars

\* The first property of each page carries the types of its state.

\* See MatchesPage: the URL is what the choices add up to.
UrlFollowsChoices == Matches!TypeOK /\ Matches!UrlFollowsChoices

\* See MatchesPage: the open offer shows what the API has.
PaneTellsTruth == Matches!PaneTellsTruth

\* See KanbanBoard: the cards settle in the columns the API has them in.
CardsSettle == Board!TypeOK /\ Board!CardsSettle

\* See Documents: the library lists what is stored, and what is attached is stored.
LibraryTellsTruth == Docs!TypeOK /\ Docs!LibraryTellsTruth

\* See JobProfile: a field changes only by a request made for it, and a form at rest
\* holds what is stored.
ProfileTellsTruth == Profile!ProfileTellsTruth

\* See Companies: one company a name, and lists at rest show what is stored.
CompanyKeeps == Firms!TypeOK /\ Firms!CompanyKeeps

\* See AvatarEditor: at rest the picture is that of the form.
PreviewSettles == Avatar!TypeOK /\ Avatar!PreviewSettles

\* See ApplicationsList: the rows, the search box and the dialog settle.
ListSettles == Table!TypeOK /\ Table!ListSettles

\* See ApplicationsList: the count in the bar follows a hidden column.
CountFollowsFilters == Table!CountFollowsFilters
=============================================================================
