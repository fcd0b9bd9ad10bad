------------------------------ MODULE Pages_proofs ------------------------------
(***************************************************************************)
(* Proofs about the pages of MCPages, for any filters, any looks and any bound. *)
(* Each page is proved about alone, and stays as it is when another moves.      *)
(***************************************************************************)
EXTENDS MCPages, FiniteSetTheorems, SequenceTheorems, NaturalsInduction,
    WellFoundedInduction, TLAPS

-----------------------------------------------------------------------------
(* The matches page: its URL. *)

\* Two URLs have the same filters and search, and the same with the choice of an offer.
Alike(u, v) == u.filters = v.filters /\ u.search = v.search
Agree(u, v) == Alike(u, v) /\ u.job = v.job

\* A page but the first is that of the filters it was chosen with, in the URL and in
\* the one that is coming.
Paged ==
    /\ url.page # 1 => Alike(url, turned)
    /\ next # NoUrl /\ next.page # 1 => Alike(next, turned)

\* The URL that is coming, or the one that is there, is what the choices add up to.
Followed ==
    ~overtaken => Agree(IF next = NoUrl THEN url ELSE next, wanted)

-----------------------------------------------------------------------------
(* Its pane. *)

\* The calls that set the star.
Stars == {i \in DOMAIN calls : calls[i].op = "saved"}

\* No call belongs to a pane that is closed.
Mine == pane = NoPane => \A i \in DOMAIN calls : ~calls[i].here

\* Unless the star was toggled twice, a toggle under way is the only one; and unless one
\* was stored unseen, it says the opposite of what the API has, of which the pane was
\* rendered.
Toggling ==
    ~doubled =>
        \A i \in Stars :
            /\ \A j \in Stars : j = i
            /\ ~halved =>
                /\ calls[i].to = ~offer.saved
                /\ pane # NoPane =>
                    /\ pane.job.saved = offer.saved
                    /\ pane.saved = IF calls[i].here THEN calls[i].to ELSE offer.saved

\* With no toggle under way the pane has the star of the API, or will take it when it is
\* rendered again.
Resting ==
    ~doubled /\ ~halved /\ Stars = {} /\ pane # NoPane =>
        /\ pane.job.saved = offer.saved => pane.saved = offer.saved
        /\ ~refresh => pane.job.saved = offer.saved

\* An offer is marked seen first, before it is dismissed.
SeenFirst ==
    ~reopened =>
        /\ dismissed => offer.status = "DISMISSED"
        /\ \A i \in DOMAIN calls : calls[i].op = "seen" => i = 1 /\ ~dismissed

MatchesInv ==
    Matches!TypeOK /\ Paged /\ Followed /\ Mine /\ Toggling /\ Resting /\ SeenFirst

-----------------------------------------------------------------------------
(* Navigations. *)

\* The actions that push a URL.
Pushes == Matches!Toggle \/ Matches!Search \/ Matches!Clear \/ Matches!GoToPage
          \/ Matches!Select \/ Matches!CloseDetail

\* A URL with one of its parts changed is one, with the others as they were.
LEMMA UrlChanged ==
    ASSUME NEW u \in Matches!Urls
    PROVE /\ \A f \in SUBSET Filters : [u EXCEPT !.filters = f] \in Matches!Urls
          /\ \A t \in Matches!Texts : [u EXCEPT !.search = t] \in Matches!Urls
          /\ \A p \in 1 .. 2 : [u EXCEPT !.page = p] \in Matches!Urls
          /\ [u EXCEPT !.page = 1] \in Matches!Urls
          /\ \A b \in BOOLEAN : [u EXCEPT !.job = b] \in Matches!Urls
          /\ [u EXCEPT !.job = TRUE] \in Matches!Urls
          /\ [u EXCEPT !.job = FALSE] \in Matches!Urls
<1>1. \A f \in SUBSET Filters : [u EXCEPT !.filters = f] \in Matches!Urls
  BY DEF Matches!Urls
<1>2. \A t \in Matches!Texts : [u EXCEPT !.search = t] \in Matches!Urls
  BY DEF Matches!Urls
<1>3. \A p \in 1 .. 2 : [u EXCEPT !.page = p] \in Matches!Urls
  BY DEF Matches!Urls
<1>4. \A b \in BOOLEAN : [u EXCEPT !.job = b] \in Matches!Urls
  BY DEF Matches!Urls
<1>5. [u EXCEPT !.page = 1] \in Matches!Urls
  BY <1>3
<1>6. [u EXCEPT !.job = TRUE] \in Matches!Urls /\ [u EXCEPT !.job = FALSE] \in Matches!Urls
  BY <1>4
<1>7. QED
  BY <1>1, <1>2, <1>3, <1>4, <1>5, <1>6

\* The URL with nothing chosen is one.
LEMMA BlankIsUrl == Matches!Blank \in Matches!Urls
BY DEF Matches!Urls, Matches!Blank, Matches!Texts

\* What every push of a URL does: the URL is one, it is what is wanted from the URL it
\* started from, and a page it keeps or turns is that of the same filters.
LEMMA PushDoes ==
    ASSUME MatchesInv, Pushes
    PROVE /\ next' \in Matches!Urls /\ wanted' \in Matches!Urls
          /\ turned' \in {turned, url} /\ (turned' = url => turned' = turned \/ url.page = 1)
          /\ next'.page # 1 => Alike(next', url) /\ (url.page = 1 => turned' = url)
          /\ Agree(url, wanted) => Agree(next', wanted')
          /\ overtaken' = (overtaken \/ next # NoUrl)
          /\ UNCHANGED <<url, draft, pane, offer, calls, refresh, doubled, reopened, dismissed, halved>>
<1> DEFINE Typed == next' \in Matches!Urls /\ wanted' \in Matches!Urls
           Chooses == Agree(url, wanted) => Agree(next', wanted')
<1>0. /\ url \in Matches!Urls /\ wanted \in Matches!Urls /\ draft \in Matches!Texts
      /\ url.filters \in SUBSET Filters /\ url.search \in Matches!Texts
      /\ url.page \in 1 .. 2 /\ url.job \in BOOLEAN
      /\ wanted.filters \in SUBSET Filters /\ wanted.search \in Matches!Texts
      /\ wanted.page \in 1 .. 2 /\ wanted.job \in BOOLEAN
  BY DEF MatchesInv, Matches!TypeOK, Matches!Urls
<1>8. /\ turned' = IF next'.page # url.page /\ next'.page # 1 THEN url ELSE turned
      /\ overtaken' = (overtaken \/ next # NoUrl)
      /\ UNCHANGED <<url, draft, pane, offer, calls, refresh, doubled, reopened, dismissed, halved>>
  <2> USE <1>0
  <2>1. CASE Matches!Toggle
    BY <2>1 DEF Matches!Toggle, Matches!Push
  <2>2. CASE Matches!Search
    BY <2>2 DEF Matches!Search, Matches!Push
  <2>3. CASE Matches!Clear
    BY <2>3 DEF Matches!Clear, Matches!Push
  <2>4. CASE Matches!GoToPage
    BY <2>4 DEF Matches!GoToPage, Matches!Push
  <2>5. CASE Matches!Select
    BY <2>5 DEF Matches!Select, Matches!Push
  <2>6. CASE Matches!CloseDetail
    BY <2>6 DEF Matches!CloseDetail, Matches!Push
  <2>7. QED
    BY <2>1, <2>2, <2>3, <2>4, <2>5, <2>6 DEF Pushes
<1> SUFFICES Typed /\ (next'.page # 1 => Alike(next', url)) /\ Chooses
  BY <1>0, <1>8 DEF Matches!Urls
<1>1. CASE Matches!Toggle
  <2>1. PICK f \in Filters :
          /\ next' = Matches!FilterCommit([url EXCEPT !.filters =
                          IF f \in @ THEN @ \ {f} ELSE @ \union {f}])
          /\ wanted' = [Matches!FilterCommit([wanted EXCEPT !.filters =
                          IF f \in @ THEN @ \ {f} ELSE @ \union {f}]) EXCEPT !.page = 1]
    BY <1>1 DEF Matches!Toggle, Matches!Push
  <2> DEFINE Flipped(u) == IF f \in u.filters THEN u.filters \ {f} ELSE u.filters \union {f}
  <2>2. Flipped(url) \in SUBSET Filters /\ Flipped(wanted) \in SUBSET Filters
    BY <1>0
  <2>3. /\ [url EXCEPT !.filters = Flipped(url)] \in Matches!Urls
        /\ [wanted EXCEPT !.filters = Flipped(wanted)] \in Matches!Urls
    BY <1>0, <2>2, UrlChanged
  <2>4. Typed
    BY <2>1, <2>3, UrlChanged DEF Matches!FilterCommit
  <2>5. next'.page = 1
    BY <1>0, <2>1, <2>3 DEF Matches!FilterCommit, Matches!Urls
  <2>6. Chooses
    BY <1>0, <2>1, <2>3 DEF Matches!FilterCommit, Agree, Alike, Matches!Urls
  <2>7. QED
    BY <2>4, <2>5, <2>6
<1>2. CASE Matches!Search
  <2>1. /\ next' = Matches!FilterCommit([url EXCEPT !.search = draft])
        /\ wanted' = [Matches!FilterCommit([wanted EXCEPT !.search = draft]) EXCEPT !.page = 1]
    BY <1>2 DEF Matches!Search, Matches!Push
  <2>2. /\ [url EXCEPT !.search = draft] \in Matches!Urls
        /\ [wanted EXCEPT !.search = draft] \in Matches!Urls
    BY <1>0, UrlChanged
  <2>3. Typed
    BY <2>1, <2>2, UrlChanged DEF Matches!FilterCommit
  <2>4. next'.page = 1
    BY <1>0, <2>1, <2>2 DEF Matches!FilterCommit, Matches!Urls
  <2>5. Chooses
    BY <1>0, <2>1, <2>2 DEF Matches!FilterCommit, Agree, Alike, Matches!Urls
  <2>6. QED
    BY <2>3, <2>4, <2>5
<1>3. CASE Matches!Clear
  <2>1. /\ next' = [Matches!Blank EXCEPT !.job = url.job]
        /\ wanted' = [[Matches!Blank EXCEPT !.job = wanted.job] EXCEPT !.page = 1]
    BY <1>3 DEF Matches!Clear, Matches!Push
  <2>2. /\ [Matches!Blank EXCEPT !.job = url.job] \in Matches!Urls
        /\ [Matches!Blank EXCEPT !.job = wanted.job] \in Matches!Urls
    BY <1>0, UrlChanged, BlankIsUrl
  <2>3. Typed
    BY <2>1, <2>2, UrlChanged
  <2>4. next'.page = 1
    BY <2>1 DEF Matches!Blank
  <2>5. Chooses
    BY <1>0, <2>1 DEF Matches!Blank, Agree, Alike
  <2>6. QED
    BY <2>3, <2>4, <2>5
<1>4. CASE Matches!GoToPage
  <2>1. /\ next' = [url EXCEPT !.page = 3 - url.page]
        /\ wanted' = [[wanted EXCEPT !.page = 3 - url.page] EXCEPT !.page = 1]
    BY <1>4 DEF Matches!GoToPage, Matches!Push
  <2>2. 3 - url.page \in 1 .. 2
    BY <1>0
  <2>3. [wanted EXCEPT !.page = 3 - url.page] \in Matches!Urls
    BY <1>0, <2>2, UrlChanged
  <2>4. Typed
    BY <1>0, <2>1, <2>2, <2>3, UrlChanged
  <2>5. Alike(next', url) /\ Chooses
    BY <1>0, <2>1, <2>3 DEF Agree, Alike, Matches!Urls
  <2>6. QED
    BY <2>4, <2>5
<1>5. CASE Matches!Select
  <2>1. /\ next' = [url EXCEPT !.job = TRUE]
        /\ wanted' = [[wanted EXCEPT !.job = TRUE] EXCEPT !.page = 1]
    BY <1>5 DEF Matches!Select, Matches!Push
  <2>2. /\ [url EXCEPT !.job = TRUE] \in Matches!Urls
        /\ [wanted EXCEPT !.job = TRUE] \in Matches!Urls
    BY <1>0, UrlChanged
  <2>3. Typed
    BY <2>1, <2>2, UrlChanged
  <2>4. Alike(next', url) /\ Chooses
    BY <1>0, <2>1, <2>2 DEF Agree, Alike, Matches!Urls
  <2>5. QED
    BY <2>3, <2>4
<1>6. CASE Matches!CloseDetail
  <2>1. /\ next' = [url EXCEPT !.job = FALSE]
        /\ wanted' = [[wanted EXCEPT !.job = FALSE] EXCEPT !.page = 1]
    BY <1>6 DEF Matches!CloseDetail, Matches!Push
  <2>2. /\ [url EXCEPT !.job = FALSE] \in Matches!Urls
        /\ [wanted EXCEPT !.job = FALSE] \in Matches!Urls
    BY <1>0, UrlChanged
  <2>3. Typed
    BY <2>1, <2>2, UrlChanged
  <2>4. Alike(next', url) /\ Chooses
    BY <1>0, <2>1, <2>2 DEF Agree, Alike, Matches!Urls
  <2>5. QED
    BY <2>3, <2>4
<1>7. QED
  BY <1>1, <1>2, <1>3, <1>4, <1>5, <1>6 DEF Pushes

\* A push of a URL keeps what is said of the URLs, and moves nothing else.
LEMMA PushKeeps ==
    ASSUME NothingAssumption, MatchesInv, Pushes
    PROVE MatchesInv'
<1>1. Matches!TypeOK'
  BY PushDoes DEF MatchesInv, Matches!TypeOK
<1>2. Paged'
  BY PushDoes DEF MatchesInv, Paged, Alike
<1>3. Followed'
  BY PushDoes DEF NothingAssumption, MatchesInv, Followed, Agree, Alike, Matches!TypeOK
<1>4. (Mine /\ Toggling /\ Resting /\ SeenFirst)'
  BY PushDoes DEF MatchesInv, Mine, Toggling, Resting, SeenFirst, Stars
<1>5. QED
  BY <1>1, <1>2, <1>3, <1>4 DEF MatchesInv

\* The box moves nothing else.
LEMMA TypeKeeps ==
    ASSUME MatchesInv, Matches!Type
    PROVE MatchesInv'
BY DEF MatchesInv, Matches!TypeOK, Matches!Type, Paged, Followed, Mine, Toggling, Resting,
       SeenFirst, Stars, Agree, Alike

-----------------------------------------------------------------------------
(* Renders. *)

\* What a render with the offer of the API does to the pane and to the calls.
LEMMA RenderDoes ==
    ASSUME NothingAssumption, MatchesInv, NEW u \in Matches!Urls, Matches!Render(u, offer),
           UNCHANGED <<offer, doubled, dismissed>>, refresh' \in {refresh, FALSE}
    PROVE /\ pane' \in Matches!Panes \union {NoPane} /\ calls' \in Seq(Matches!Calls)
          /\ reopened' \in BOOLEAN /\ halved' \in BOOLEAN
          /\ (Mine /\ Toggling /\ Resting /\ SeenFirst)'
<1> DEFINE opened == u.job /\ pane = NoPane
<1>0. /\ u.job \in BOOLEAN /\ offer \in Matches!Offers /\ calls \in Seq(Matches!Calls)
      /\ reopened \in BOOLEAN /\ offer.saved \in BOOLEAN /\ halved \in BOOLEAN
      /\ pane # NoPane => pane \in Matches!Panes
      /\ \A i \in DOMAIN calls : calls[i] \in Matches!Calls
  BY DEF MatchesInv, Matches!TypeOK, Matches!Offers, Matches!Urls
<1>a. halved' = (halved /\ (Stars # {} \/ (u.job /\ pane'.saved # offer.saved)))
  BY DEF Matches!Render, Stars
<1>b. halved' \in BOOLEAN
  BY <1>0, <1>a
<1>1. CASE ~u.job
  <2>1. /\ pane' = NoPane /\ calls' = [i \in DOMAIN calls |-> [calls[i] EXCEPT !.here = FALSE]]
        /\ reopened' = reopened
    BY <1>1, <1>0 DEF Matches!Render
  <2>2. calls' \in Seq(Matches!Calls)
    <3>1. DOMAIN calls = 1 .. Len(calls) /\ Len(calls) \in Nat
      BY <1>0
    <3>2. \A i \in DOMAIN calls : [calls[i] EXCEPT !.here = FALSE] \in Matches!Calls
      BY <1>0 DEF Matches!Calls
    <3>3. calls' \in [1 .. Len(calls) -> Matches!Calls]
      BY <2>1, <3>1, <3>2
    <3>4. QED
      BY <3>1, <3>3
  <2>3. /\ DOMAIN calls' = DOMAIN calls /\ Stars' = Stars
        /\ \A i \in DOMAIN calls : /\ calls'[i].op = calls[i].op /\ calls'[i].to = calls[i].to
                                   /\ ~calls'[i].here
    BY <1>0, <2>1 DEF Matches!Calls, Stars
  <2>4. Mine' /\ Resting'
    BY <2>1, <2>3 DEF Mine, Resting
  <2>5. Toggling'
    <3>1. SUFFICES ASSUME ~doubled', NEW i \in Stars'
                   PROVE /\ \A j \in Stars' : j = i
                         /\ ~halved' => calls'[i].to = ~offer'.saved
      BY <2>1 DEF Toggling
    <3>2. i \in Stars /\ i \in DOMAIN calls
      BY <2>3 DEF Stars
    <3>3. (\A j \in Stars : j = i) /\ (~halved => calls[i].to = ~offer.saved)
      BY <3>1, <3>2 DEF MatchesInv, Toggling
    <3>4. halved' = halved /\ calls'[i].to = calls[i].to
      BY <1>0, <1>a, <2>3, <3>2
    <3>5. QED
      BY <2>3, <3>3, <3>4
  <2>6. SeenFirst'
    BY <2>1, <2>3 DEF MatchesInv, SeenFirst
  <2>7. QED
    BY <1>0, <1>b, <2>1, <2>2, <2>4, <2>5, <2>6
<1>2. CASE opened
  <2>1. /\ pane' = [job |-> offer, saved |-> offer.saved]
        /\ reopened' = (reopened \/ calls # <<>>)
    BY <1>2 DEF Matches!Render
  <2>2. pane' \in Matches!Panes /\ pane' # NoPane /\ pane'.job = offer /\ pane'.saved = offer.saved
    BY <1>0, <2>1 DEF Matches!Panes, NothingAssumption
  <2>3. CASE offer.status # "NEW"
    <3>1. calls' = calls
      BY <1>2, <2>3 DEF Matches!Render, Matches!MarksSeen
    <3>2. QED
      BY <1>0, <1>a, <1>b, <1>2, <2>1, <2>2, <3>1
         DEF MatchesInv, Mine, Toggling, Resting, SeenFirst, Stars
  <2>4. CASE offer.status = "NEW"
    <3> DEFINE call == [op |-> "seen", to |-> TRUE, here |-> TRUE]
    <3>1. calls' = Append(calls, call)
      BY <1>2, <2>4 DEF Matches!Render, Matches!MarksSeen
    <3>2. calls' \in Seq(Matches!Calls)
      BY <1>0, <3>1 DEF Matches!Calls
    <3>3. /\ Len(calls') = Len(calls) + 1 /\ calls'[Len(calls) + 1] = call
          /\ \A i \in 1 .. Len(calls) : calls'[i] = calls[i]
          /\ DOMAIN calls = 1 .. Len(calls) /\ DOMAIN calls' = 1 .. Len(calls')
          /\ Len(calls) \in Nat
      BY <1>0, <3>1, <3>2
    <3>4. Stars' = Stars
      BY <3>3 DEF Stars
    <3>5. Mine' /\ Toggling' /\ Resting'
      BY <1>0, <1>a, <1>2, <2>1, <2>2, <3>3, <3>4 DEF MatchesInv, Mine, Toggling, Resting, Stars
    <3>6. SeenFirst'
      <4> SUFFICES ASSUME ~reopened' PROVE SeenFirst'
        BY DEF SeenFirst
      <4>1. calls = <<>> /\ ~reopened /\ Len(calls) = 0
        BY <2>1
      <4>2. ~dismissed
        BY <4>1, <2>4 DEF MatchesInv, SeenFirst
      <4>3. QED
        BY <3>3, <4>1, <4>2 DEF SeenFirst
    <3>7. QED
      BY <2>1, <2>2, <3>2, <3>5, <3>6, <1>0, <1>b
  <2>5. QED
    BY <2>3, <2>4
<1>3. CASE u.job /\ pane # NoPane
  <2>1. /\ pane' = [job |-> offer, saved |-> IF offer.saved # pane.job.saved
                                             THEN offer.saved ELSE pane.saved]
        /\ calls' = calls /\ reopened' = reopened
    BY <1>0, <1>3 DEF Matches!Render
  <2>2. pane \in Matches!Panes /\ pane.saved \in BOOLEAN /\ pane.job.saved \in BOOLEAN
    BY <1>0, <1>3 DEF Matches!Panes, Matches!Offers
  <2>3. /\ pane' \in Matches!Panes /\ pane' # NoPane /\ pane'.job = offer
        /\ pane'.saved = IF offer.saved # pane.job.saved THEN offer.saved ELSE pane.saved
    BY <1>0, <2>1, <2>2 DEF Matches!Panes, NothingAssumption
  <2>4. QED
    BY <1>0, <1>a, <1>b, <1>3, <2>1, <2>2, <2>3
       DEF MatchesInv, Mine, Toggling, Resting, SeenFirst, Stars
<1>4. QED
  BY <1>0, <1>1, <1>2, <1>3

\* The navigation that lands.
LEMMA LandKeeps ==
    ASSUME NothingAssumption, MatchesInv, Matches!Land
    PROVE MatchesInv'
<1>1. /\ next \in Matches!Urls /\ url' = next /\ next' = NoUrl /\ draft' = next.search
      /\ Matches!Render(next, offer)
      /\ UNCHANGED <<offer, refresh, wanted, turned, overtaken, doubled, dismissed>>
  BY DEF Matches!Land, MatchesInv, Matches!TypeOK
<1>2. /\ pane' \in Matches!Panes \union {NoPane} /\ calls' \in Seq(Matches!Calls)
      /\ reopened' \in BOOLEAN /\ halved' \in BOOLEAN
      /\ (Mine /\ Toggling /\ Resting /\ SeenFirst)'
  BY <1>1, RenderDoes
<1>3. Matches!TypeOK'
  BY <1>1, <1>2 DEF MatchesInv, Matches!TypeOK, Matches!Urls
<1>4. Paged' /\ Followed'
  BY <1>1 DEF NothingAssumption, MatchesInv, Paged, Followed, Agree, Alike
<1>5. QED
  BY <1>2, <1>3, <1>4 DEF MatchesInv

\* The page rendered anew.
LEMMA RefreshKeeps ==
    ASSUME NothingAssumption, MatchesInv, Matches!Refresh
    PROVE MatchesInv'
<1>1. /\ url \in Matches!Urls /\ Matches!Render(url, offer) /\ refresh' = FALSE
      /\ UNCHANGED <<url, next, draft, offer, wanted, turned, overtaken, doubled, dismissed>>
  BY DEF Matches!Refresh, MatchesInv, Matches!TypeOK
<1>2. /\ pane' \in Matches!Panes \union {NoPane} /\ calls' \in Seq(Matches!Calls)
      /\ reopened' \in BOOLEAN /\ halved' \in BOOLEAN
      /\ (Mine /\ Toggling /\ Resting /\ SeenFirst)'
  BY <1>1, RenderDoes
<1>3. Matches!TypeOK'
  BY <1>1, <1>2 DEF MatchesInv, Matches!TypeOK
<1>4. Paged' /\ Followed'
  BY <1>1 DEF MatchesInv, Paged, Followed, Agree, Alike
<1>5. QED
  BY <1>2, <1>3, <1>4 DEF MatchesInv

-----------------------------------------------------------------------------
(* Calls. *)

\* A call appended to the others.
LEMMA Appended ==
    ASSUME NEW S, NEW s \in Seq(S), NEW x \in S
    PROVE /\ Append(s, x) \in Seq(S) /\ Len(s) \in Nat /\ Len(Append(s, x)) = Len(s) + 1
          /\ DOMAIN s = 1 .. Len(s) /\ DOMAIN Append(s, x) = 1 .. Len(s) + 1
          /\ Append(s, x)[Len(s) + 1] = x
          /\ \A i \in 1 .. Len(s) : Append(s, x)[i] = s[i] /\ s[i] \in S
OBVIOUS

\* The calls but the first.
LEMMA Shifted ==
    ASSUME NEW S, NEW s \in Seq(S), s # <<>>
    PROVE /\ Tail(s) \in Seq(S) /\ Len(s) \in Nat \ {0} /\ Len(Tail(s)) = Len(s) - 1
          /\ DOMAIN s = 1 .. Len(s) /\ DOMAIN Tail(s) = 1 .. Len(s) - 1
          /\ Head(s) = s[1] /\ s[1] \in S
          /\ \A i \in 1 .. Len(s) - 1 : Tail(s)[i] = s[i + 1] /\ s[i + 1] \in S
OBVIOUS

\* The star is toggled at once.
LEMMA ToggleKeeps ==
    ASSUME NothingAssumption, MatchesInv, Matches!ToggleSaved
    PROVE MatchesInv'
<1> DEFINE call == [op |-> "saved", to |-> ~pane.saved, here |-> TRUE]
<1>1. /\ pane # NoPane /\ pane' = [pane EXCEPT !.saved = ~@] /\ calls' = Append(calls, call)
      /\ doubled' = (doubled \/ refresh \/ \E i \in DOMAIN calls : calls[i].op = "saved")
      /\ UNCHANGED <<url, next, draft, offer, refresh, wanted, turned, overtaken, reopened, dismissed,
                     halved>>
  BY DEF Matches!ToggleSaved
<1>2. /\ pane \in Matches!Panes /\ pane.saved \in BOOLEAN /\ calls \in Seq(Matches!Calls)
      /\ call \in Matches!Calls /\ offer.saved \in BOOLEAN /\ doubled \in BOOLEAN /\ refresh \in BOOLEAN
  BY <1>1 DEF MatchesInv, Matches!TypeOK, Matches!Panes, Matches!Calls, Matches!Offers
<1>3. /\ pane' \in Matches!Panes /\ pane' # NoPane /\ pane'.job = pane.job
      /\ pane'.saved = ~pane.saved
  BY <1>1, <1>2 DEF Matches!Panes, NothingAssumption
<1>4. /\ calls' \in Seq(Matches!Calls) /\ Len(calls) \in Nat
      /\ DOMAIN calls = 1 .. Len(calls) /\ DOMAIN calls' = 1 .. Len(calls) + 1
      /\ calls'[Len(calls) + 1] = call
      /\ \A i \in 1 .. Len(calls) : calls'[i] = calls[i]
  BY <1>1, <1>2, Appended
<1>5. Matches!TypeOK'
  BY <1>1, <1>2, <1>3, <1>4 DEF MatchesInv, Matches!TypeOK
<1>6. Paged' /\ Followed'
  BY <1>1 DEF MatchesInv, Paged, Followed, Agree, Alike
<1>7. Mine'
  BY <1>3 DEF Mine
<1>8. Stars' = Stars \union {Len(calls) + 1}
  BY <1>4 DEF Stars
<1>9. Toggling' /\ Resting'
  <2>1. Resting'
    BY <1>8 DEF Resting
  <2>2. SUFFICES ASSUME ~doubled' PROVE Toggling'
    BY <2>1 DEF Toggling
  <2>3. ~doubled /\ ~refresh /\ Stars = {}
    BY <1>1, <2>2 DEF Stars
  <2>4. ~halved => pane.job.saved = offer.saved /\ pane.saved = offer.saved
    BY <1>1, <2>3 DEF MatchesInv, Resting
  <2>5. QED
    BY <1>1, <1>2, <1>3, <1>4, <1>8, <2>3, <2>4 DEF Toggling
<1>10. SeenFirst'
  BY <1>1, <1>4 DEF MatchesInv, SeenFirst
<1>11. QED
  BY <1>5, <1>6, <1>7, <1>9, <1>10 DEF MatchesInv

\* The offer is dismissed.
LEMMA DismissKeeps ==
    ASSUME MatchesInv, Matches!Dismiss
    PROVE MatchesInv'
<1> DEFINE call == [op |-> "dismiss", to |-> TRUE, here |-> TRUE]
<1>1. /\ pane # NoPane /\ calls' = Append(calls, call)
      /\ UNCHANGED <<url, next, draft, pane, offer, refresh, wanted, turned, overtaken, doubled,
                     reopened, dismissed, halved>>
  BY DEF Matches!Dismiss
<1>2. calls \in Seq(Matches!Calls) /\ call \in Matches!Calls
  BY DEF MatchesInv, Matches!TypeOK, Matches!Calls
<1>3. /\ calls' \in Seq(Matches!Calls) /\ Len(calls) \in Nat
      /\ DOMAIN calls = 1 .. Len(calls) /\ DOMAIN calls' = 1 .. Len(calls) + 1
      /\ calls'[Len(calls) + 1] = call
      /\ \A i \in 1 .. Len(calls) : calls'[i] = calls[i]
  BY <1>1, <1>2, Appended
<1>4. Matches!TypeOK'
  BY <1>1, <1>3 DEF MatchesInv, Matches!TypeOK
<1>5. Paged' /\ Followed'
  BY <1>1 DEF MatchesInv, Paged, Followed, Agree, Alike
<1>6. Mine'
  BY <1>1 DEF Mine
<1>7. Stars' = Stars /\ \A i \in Stars : calls'[i] = calls[i]
  BY <1>3 DEF Stars
<1>8. Toggling' /\ Resting'
  BY <1>1, <1>7 DEF MatchesInv, Toggling, Resting
<1>9. SeenFirst'
  BY <1>1, <1>3 DEF MatchesInv, SeenFirst
<1>10. QED
  BY <1>4, <1>5, <1>6, <1>8, <1>9 DEF MatchesInv

\* The first of the calls is answered, and was done or was not.
LEMMA ServeKeeps ==
    ASSUME NothingAssumption, MatchesInv, Matches!Serve
    PROVE MatchesInv'
<1> DEFINE call == calls[1]
           Rest(i) == i + 1
<1>1. /\ calls # <<>> /\ calls' = Tail(calls)
      /\ UNCHANGED <<url, next, draft, wanted, turned, overtaken, doubled, reopened>>
  BY DEF Matches!Serve
<1>2. /\ calls \in Seq(Matches!Calls) /\ offer \in Matches!Offers /\ offer.saved \in BOOLEAN
      /\ pane # NoPane => pane \in Matches!Panes /\ pane.saved \in BOOLEAN /\ pane.job.saved \in BOOLEAN
      /\ doubled \in BOOLEAN /\ dismissed \in BOOLEAN /\ refresh \in BOOLEAN /\ halved \in BOOLEAN
  BY DEF MatchesInv, Matches!TypeOK, Matches!Panes, Matches!Offers
<1>3. /\ calls' \in Seq(Matches!Calls) /\ Len(calls) \in Nat \ {0}
      /\ DOMAIN calls = 1 .. Len(calls) /\ DOMAIN calls' = 1 .. Len(calls) - 1
      /\ Head(calls) = call /\ call \in Matches!Calls
      /\ \A i \in 1 .. Len(calls) - 1 : calls'[i] = calls[i + 1]
  BY <1>1, <1>2, Shifted
<1>4. /\ call.op \in {"seen", "saved", "dismiss"} /\ call.to \in BOOLEAN /\ call.here \in BOOLEAN
  BY <1>3 DEF Matches!Calls
<1>5. /\ \A i \in Stars' : i \in Nat \ {0} /\ i + 1 \in Stars /\ calls'[i] = calls[i + 1]
      /\ call.op = "saved" <=> 1 \in Stars
      /\ \A i \in Stars : i # 1 => i - 1 \in Stars'
  BY <1>3 DEF Stars
<1>6. Paged' /\ Followed'
  BY <1>1 DEF MatchesInv, Paged, Followed, Agree, Alike
<1>a. LET after == Matches!Applied(call)
      IN /\ after \in Matches!Offers
         /\ after.saved = IF call.op = "saved" THEN call.to ELSE offer.saved
         /\ after.status = CASE call.op = "saved" -> IF offer.status = "NEW" THEN "SEEN"
                                                       ELSE offer.status
                                [] call.op = "seen" -> "SEEN" [] call.op = "dismiss" -> "DISMISSED"
  BY <1>2, <1>4 DEF Matches!Applied, Matches!Offers
<1>b. ASSUME pane' = Matches!RolledBack(call)
      PROVE  /\ call.here => pane # NoPane
             /\ pane = NoPane => pane' = NoPane
             /\ pane # NoPane =>
                  /\ pane' \in Matches!Panes /\ pane'.job = pane.job
                  /\ pane'.saved = IF call.op = "saved" /\ call.here THEN ~call.to ELSE pane.saved
  <2>1. (call.here => pane # NoPane) /\ (pane = NoPane => pane' = NoPane)
    BY <1>3, <1>b DEF MatchesInv, Mine, Matches!RolledBack
  <2>2. pane # NoPane =>
            /\ pane' \in Matches!Panes /\ pane'.job = pane.job
            /\ pane'.saved = IF call.op = "saved" /\ call.here THEN ~call.to ELSE pane.saved
    BY <1>2, <1>4, <1>b DEF Matches!RolledBack, Matches!Panes
  <2>3. QED
    BY <2>1, <2>2
<1>c. ASSUME NEW i \in Stars', ~doubled
      PROVE  /\ \A j \in Stars' : j = i
             /\ i + 1 \in Stars /\ calls'[i] = calls[i + 1] /\ call.op # "saved"
  <2>1. i + 1 \in Stars /\ i + 1 # 1 /\ calls'[i] = calls[i + 1]
    BY <1>5
  <2>2. call.op # "saved"
    BY <1>5, <1>c, <2>1 DEF MatchesInv, Toggling
  <2>3. \A j \in Stars' : j = i
    BY <1>3, <1>5, <1>c, <2>1 DEF MatchesInv, Toggling, Stars
  <2>4. QED
    BY <2>1, <2>2, <2>3
<1>7. CASE /\ offer' = Matches!Applied(call) /\ refresh' = TRUE /\ pane' = pane
           /\ dismissed' = (dismissed \/ call.op = "dismiss") /\ halved' = halved
  <2>1. /\ offer' \in Matches!Offers
        /\ offer'.saved = IF call.op = "saved" THEN call.to ELSE offer.saved
    BY <1>a, <1>7
  <2>2. Matches!TypeOK'
    BY <1>1, <1>2, <1>3, <1>7, <2>1 DEF MatchesInv, Matches!TypeOK
  <2>3. Mine'
    BY <1>3, <1>7 DEF MatchesInv, Mine
  <2>4. Toggling'
    <3>1. SUFFICES ASSUME ~doubled, NEW i \in Stars'
                   PROVE /\ \A j \in Stars' : j = i
                         /\ ~halved =>
                             /\ calls'[i].to = ~offer'.saved
                             /\ pane # NoPane =>
                                 /\ pane.job.saved = offer'.saved
                                 /\ pane.saved = IF calls'[i].here THEN calls'[i].to
                                                                   ELSE offer'.saved
      BY <1>1, <1>7 DEF Toggling
    <3>2. QED
      BY <1>c, <2>1, <3>1 DEF MatchesInv, Toggling
  <2>5. Resting'
    <3>1. SUFFICES ASSUME ~doubled, ~halved, Stars' = {}, pane # NoPane,
                          pane.job.saved = offer'.saved
                   PROVE pane.saved = offer'.saved
      BY <1>1, <1>7 DEF Resting
    <3>2. CASE call.op = "saved"
      BY <1>2, <1>4, <1>5, <2>1, <3>1, <3>2 DEF MatchesInv, Toggling
    <3>3. CASE call.op # "saved"
      <4>1. Stars = {}
        BY <1>5, <3>1, <3>3
      <4>2. QED
        BY <2>1, <3>1, <3>3, <4>1 DEF MatchesInv, Resting
    <3>4. QED
      BY <3>2, <3>3
  <2>6. SeenFirst'
    BY <1>1, <1>2, <1>3, <1>4, <1>7, <1>a DEF MatchesInv, SeenFirst
  <2>7. QED
    BY <1>6, <2>2, <2>3, <2>4, <2>5, <2>6 DEF MatchesInv
<1>8. CASE /\ offer' = Matches!Applied(call) /\ pane' = Matches!RolledBack(call)
           /\ dismissed' = (dismissed \/ call.op = "dismiss")
           /\ halved' = (halved \/ call.op = "saved") /\ UNCHANGED refresh
  <2>1. /\ offer' \in Matches!Offers
        /\ call.op # "saved" => offer'.saved = offer.saved /\ pane' = pane /\ halved' = halved
        /\ call.op = "saved" => halved'
    BY <1>2, <1>a, <1>8 DEF Matches!RolledBack
  <2>2. Matches!TypeOK'
    <3>1. pane' \in Matches!Panes \union {NoPane}
      BY <1>8, <1>b
    <3>2. {halved', dismissed', refresh'} \subseteq BOOLEAN
      BY <1>2, <1>8
    <3>3. QED
      BY <1>1, <1>3, <2>1, <3>1, <3>2 DEF MatchesInv, Matches!TypeOK
  <2>3. Mine'
    BY <1>3, <1>8, <1>b DEF MatchesInv, Mine, NothingAssumption
  <2>4. Toggling'
    <3>1. SUFFICES ASSUME ~doubled, NEW i \in Stars'
                   PROVE /\ \A j \in Stars' : j = i
                         /\ ~halved' =>
                             /\ calls'[i].to = ~offer'.saved
                             /\ pane' # NoPane =>
                                 /\ pane'.job.saved = offer'.saved
                                 /\ pane'.saved = IF calls'[i].here THEN calls'[i].to
                                                                    ELSE offer'.saved
      BY <1>1, <1>8 DEF Toggling
    <3>2. pane' = pane /\ offer'.saved = offer.saved /\ halved' = halved
      BY <1>c, <2>1, <3>1
    <3>3. QED
      BY <1>c, <3>1, <3>2 DEF MatchesInv, Toggling
  <2>5. Resting'
    <3>1. CASE call.op = "saved"
      BY <2>1, <3>1 DEF Resting
    <3>2. CASE call.op # "saved"
      <4>1. Stars' = {} => Stars = {}
        BY <1>5, <3>2
      <4>2. QED
        BY <1>1, <1>8, <2>1, <3>2, <4>1 DEF MatchesInv, Resting
    <3>3. QED
      BY <3>1, <3>2
  <2>6. SeenFirst'
    BY <1>1, <1>2, <1>3, <1>4, <1>8, <1>a DEF MatchesInv, SeenFirst
  <2>7. QED
    BY <1>6, <2>2, <2>3, <2>4, <2>5, <2>6 DEF MatchesInv
<1>9. CASE pane' = Matches!RolledBack(call) /\ UNCHANGED <<offer, refresh, dismissed, halved>>
  <2>1. /\ call.here => pane # NoPane
        /\ pane = NoPane => pane' = NoPane
        /\ pane # NoPane =>
            /\ pane' \in Matches!Panes /\ pane'.job = pane.job
            /\ pane'.saved = IF call.op = "saved" /\ call.here THEN ~call.to ELSE pane.saved
    BY <1>9, <1>b
  <2>2. Matches!TypeOK'
    BY <1>1, <1>2, <1>3, <1>9, <2>1 DEF MatchesInv, Matches!TypeOK
  <2>3. Mine'
    BY <1>3, <2>1 DEF MatchesInv, Mine, NothingAssumption
  <2>4. Toggling'
    <3>1. SUFFICES ASSUME ~doubled, NEW i \in Stars'
                   PROVE /\ \A j \in Stars' : j = i
                         /\ ~halved =>
                             /\ calls'[i].to = ~offer.saved
                             /\ pane' # NoPane =>
                                 /\ pane'.job.saved = offer.saved
                                 /\ pane'.saved = IF calls'[i].here THEN calls'[i].to
                                                                    ELSE offer.saved
      BY <1>1, <1>9 DEF Toggling
    <3>2. pane' = pane
      BY <1>9, <1>c, <3>1 DEF Matches!RolledBack
    <3>3. QED
      BY <1>c, <3>1, <3>2 DEF MatchesInv, Toggling
  <2>5. Resting'
    <3>1. SUFFICES ASSUME ~doubled, ~halved, Stars' = {}, pane' # NoPane
                   PROVE /\ pane'.job.saved = offer.saved => pane'.saved = offer.saved
                         /\ ~refresh => pane'.job.saved = offer.saved
      BY <1>1, <1>9 DEF Resting
    <3>2. CASE call.op = "saved"
      BY <1>2, <1>4, <1>5, <2>1, <3>1, <3>2 DEF MatchesInv, Toggling
    <3>3. CASE call.op # "saved"
      <4>1. Stars = {} /\ pane' = pane
        BY <1>5, <1>9, <3>1, <3>3 DEF Matches!RolledBack
      <4>2. QED
        BY <3>1, <4>1 DEF MatchesInv, Resting
    <3>4. QED
      BY <3>2, <3>3
  <2>6. SeenFirst'
    BY <1>1, <1>3, <1>9 DEF MatchesInv, SeenFirst
  <2>7. QED
    BY <1>6, <2>2, <2>3, <2>4, <2>5, <2>6 DEF MatchesInv
<1>10. QED
  BY <1>3, <1>7, <1>8, <1>9 DEF Matches!Serve

-----------------------------------------------------------------------------
(* The page. *)

\* The page of matches opens with nothing asked for and nothing shown.
LEMMA MatchesBegin ==
    ASSUME NothingAssumption, Matches!Init
    PROVE MatchesInv
<1>1. /\ Matches!Blank \in Matches!Urls /\ url = Matches!Blank /\ wanted = url /\ turned = url
      /\ next = NoUrl /\ draft = "" /\ pane = NoPane /\ calls = <<>>
      /\ offer = [status |-> "NEW", saved |-> FALSE]
      /\ refresh = FALSE /\ overtaken = FALSE /\ doubled = FALSE /\ reopened = FALSE
      /\ dismissed = FALSE /\ halved = FALSE
  BY BlankIsUrl DEF Matches!Init
<1>2. Matches!TypeOK
  <2>1. calls \in Seq(Matches!Calls)
    BY EmptySeq, <1>1
  <2>2. offer \in Matches!Offers /\ draft \in Matches!Texts
    BY <1>1 DEF Matches!Offers, Matches!Texts
  <2>3. QED
    BY <1>1, <2>1, <2>2 DEF Matches!TypeOK
<1>3. Paged /\ Followed
  BY <1>1 DEF Paged, Followed, Agree, Alike
<1>4. Mine /\ Toggling /\ Resting /\ SeenFirst
  <2>1. calls \in Seq(Matches!Calls) /\ Len(calls) = 0
    BY EmptySeq, <1>1
  <2>2. DOMAIN calls = {}
    BY <2>1
  <2>3. QED
    BY <1>1, <2>2 DEF Mine, Toggling, Resting, SeenFirst, Stars
<1>5. QED
  BY <1>2, <1>3, <1>4 DEF MatchesInv

\* Every step of the page keeps what is said of it.
LEMMA MatchesStep ==
    ASSUME NothingAssumption, MatchesInv, Matches!Next
    PROVE MatchesInv'
BY PushKeeps, TypeKeeps, LandKeeps, RefreshKeeps, ToggleKeeps, DismissKeeps, ServeKeeps
   DEF Matches!Next, Pushes

\* And so does a page that stays as it is.
LEMMA MatchesStays ==
    ASSUME MatchesInv, UNCHANGED matchesVars
    PROVE MatchesInv'
BY DEF matchesVars, MatchesInv, Matches!TypeOK, Paged, Followed, Mine, Toggling, Resting,
       SeenFirst, Stars, Agree, Alike

\* The page shows what the choices add up to and what the API has, in every state of
\* every behaviour.
THEOREM MatchesInvariant == Spec => []MatchesInv
<1>1. Init => MatchesInv
  BY NothingAssumption, MatchesBegin DEF Init
<1>2. MatchesInv /\ [Next]_vars => MatchesInv'
  BY NothingAssumption, MatchesStep, MatchesStays DEF Next, vars
<1>3. QED
  BY <1>1, <1>2, PTL DEF Spec

\* The URL follows the choices, for any filters and any number of choices
\* (UrlFollowsChoices).
THEOREM UrlFollows == Spec => []UrlFollowsChoices
<1>1. MatchesInv => UrlFollowsChoices
  BY DEF MatchesInv, UrlFollowsChoices, Matches!UrlFollowsChoices, Paged, Followed, Agree, Alike
<1>2. QED
  BY <1>1, MatchesInvariant, PTL

\* The pane tells the truth, for any number of calls (PaneTellsTruth).
THEOREM PaneTruth == Spec => []PaneTellsTruth
<1>1. MatchesInv => PaneTellsTruth
  BY DEF MatchesInv, PaneTellsTruth, Matches!PaneTellsTruth, Resting, SeenFirst, Stars
<1>2. QED
  BY <1>1, MatchesInvariant, PTL

-----------------------------------------------------------------------------
(* The table of applications. *)

\* The URL that the page is going to, which is where it is when it goes nowhere.
Coming == IF toward = NoUrl THEN at ELSE toward

\* The deletions that end with a render.
Lasts == {i \in DOMAIN waiting : waiting[i].op = "delete" /\ waiting[i].last}

\* The calls are a queue, of calls, in which a deletion is followed by one that ends with a
\* render, or is one.
Queued ==
    /\ \E S : waiting \in Seq(S)
    /\ \A i \in DOMAIN waiting :
          /\ Table!Carried(waiting[i])
          /\ waiting[i].op = "delete" => \E k \in Lasts : k >= i

\* The rows are those of the API, or a render is on its way that will make them so, or
\* it stored what it said had failed.
Listed == ~failed /\ ~hushed /\ ~renders /\ Lasts = {} => rows = Table!Answer(at)

\* The value of the search box is on its way to the URL, or there.
Boxed == ~replaced => debounced = Coming.search

\* The dialog is open when the URL names an application, unless that is about to change.
Opened == ~replaced /\ Coming.id = at.id => (open <=> at.id # NoId)

TableInv == Table!TypeOK /\ Queued /\ Listed /\ Boxed /\ Opened

\* The table counts as one does.
LEMMA CountsAlike == \A S : Table!Cardinality(S) = Cardinality(S)
BY DEF Table!Cardinality, Cardinality

\* A function with one more argument, or with fewer.
LEMMA Widened ==
    ASSUME NEW R, NEW S, NEW f, f \in [DOMAIN f -> R], DOMAIN f \subseteq S
    PROVE /\ \A x \in S, y \in R : /\ DOMAIN Table!With(f, x, y) \subseteq S
                                   /\ Table!With(f, x, y) \in [DOMAIN Table!With(f, x, y) -> R]
          /\ \A D : /\ DOMAIN Table!Without(f, D) \subseteq S
                    /\ Table!Without(f, D) \in [DOMAIN Table!Without(f, D) -> R]
BY DEF Table!With, Table!Without

\* What the page shows of the applications is some of them, and so is their count.
LEMMA AnswersTyped ==
    ASSUME IdsAssumption, DOMAIN apps \subseteq Ids, apps \in [DOMAIN apps -> Table!Records],
           NEW u
    PROVE /\ DOMAIN Table!Answer(u) \subseteq Ids
          /\ Table!Answer(u) \in [DOMAIN Table!Answer(u) -> Table!Records]
          /\ Table!Count(u) \in 0 .. Cardinality(Ids)
<1>1. DOMAIN apps \subseteq Ids /\ apps \in [DOMAIN apps -> Table!Records]
  OBVIOUS
<1>2. Cardinality(DOMAIN apps) \in 0 .. Cardinality(Ids) /\ 0 \in 0 .. Cardinality(Ids)
  BY <1>1, IdsAssumption, FS_Subset, FS_CardinalityType DEF IdsAssumption
<1>3. Table!Count(u) \in 0 .. Cardinality(Ids)
  <2>1. CASE u.hidden = Statuses
    BY <1>2, <2>1 DEF Table!Count
  <2>2. CASE u.hidden # Statuses
    BY <1>2, <2>2, CountsAlike DEF Table!Count
  <2>3. QED
    BY <2>1, <2>2
<1>4. Table!Rows(u) \subseteq DOMAIN apps
  BY DEF Table!Rows
<1>5. QED
  BY <1>1, <1>3, <1>4 DEF Table!Answer

-----------------------------------------------------------------------------
(* The queue of the table. *)

\* One call more.
LEMMA QueueGrows ==
    ASSUME Queued, NEW call, Table!Carried(call), waiting' = Append(waiting, call),
           call.op # "delete"
    PROVE Queued' /\ Lasts' = Lasts
<1>1. PICK S : waiting \in Seq(S)
  BY DEF Queued
<1>2. waiting \in Seq(S \union {call}) /\ call \in S \union {call}
  BY <1>1
<1>3. /\ waiting' \in Seq(S \union {call}) /\ Len(waiting) \in Nat
      /\ DOMAIN waiting = 1 .. Len(waiting) /\ DOMAIN waiting' = 1 .. Len(waiting) + 1
      /\ waiting'[Len(waiting) + 1] = call
      /\ \A i \in 1 .. Len(waiting) : waiting'[i] = waiting[i]
  BY <1>2, Appended
<1>4. Lasts' = Lasts
  BY <1>3 DEF Lasts
<1>5. QED
  BY <1>3, <1>4 DEF Queued

\* Some deletions more, of which one ends with a render.
LEMMA DeletionsQueue ==
    ASSUME IdsAssumption, Queued, NEW removed \in SUBSET Ids, removed # {},
           waiting' = waiting \o Table!Deletions(removed)
    PROVE Queued' /\ Lasts' # {}
<1> DEFINE n == Cardinality(removed)
           more == Table!Deletions(removed)
<1>1. n \in Nat \ {0}
  BY IdsAssumption, FS_Subset, FS_CardinalityType, FS_EmptySet DEF IdsAssumption
<1>2. /\ DOMAIN more = 1 .. n
      /\ \A i \in 1 .. n : more[i].op = "delete" /\ more[i].last = (i = n)
  BY CountsAlike DEF Table!Deletions
<1>3. PICK S : waiting \in Seq(S)
  BY DEF Queued
<1> DEFINE T == S \union {more[i] : i \in 1 .. n}
<1>4. waiting \in Seq(T)
  BY <1>3
<1>5. more \in Seq(T) /\ Len(more) = n
  <2>1. more = [i \in 1 .. n |-> more[i]]
    BY CountsAlike DEF Table!Deletions
  <2>2. more \in [1 .. n -> T]
    BY <2>1
  <2>3. QED
    BY <1>1, <2>2
<1> HIDE DEF T, n, more
<1>6. /\ waiting' \in Seq(T) /\ Len(waiting) \in Nat /\ DOMAIN waiting = 1 .. Len(waiting)
      /\ DOMAIN waiting' = 1 .. Len(waiting) + n
      /\ \A i \in 1 .. Len(waiting) : waiting'[i] = waiting[i]
      /\ \A i \in 1 .. n : waiting'[Len(waiting) + i] = more[i]
  <2>1. waiting' = waiting \o more
    BY DEF more
  <2>2. /\ waiting' \in Seq(T) /\ Len(waiting') = Len(waiting) + n
        /\ Len(waiting) \in Nat /\ DOMAIN waiting = 1 .. Len(waiting)
    <3>1. Len(waiting) \in Nat /\ DOMAIN waiting = 1 .. Len(waiting)
      BY <1>4
    <3>2. waiting' \in Seq(T)
      BY <1>4, <1>5, <2>1, ConcatProperties
    <3>3. Len(waiting') = Len(waiting) + n
      BY <1>4, <1>5, <2>1, ConcatProperties
    <3>4. QED
      BY <3>1, <3>2, <3>3
  <2>3. /\ DOMAIN waiting' = 1 .. Len(waiting) + n
        /\ \A i \in 1 .. Len(waiting) : waiting'[i] = waiting[i]
    BY <1>1, <1>4, <1>5, <2>1, <2>2, ConcatProperties
  <2>4. \A i \in 1 .. n : waiting'[Len(waiting) + i] = more[i]
    BY <1>1, <1>4, <1>5, <2>1, <2>2, ConcatProperties
  <2>5. QED
    BY <2>2, <2>3, <2>4
<1>7. \A i \in 1 .. n : Table!Carried(more[i])
  BY <1>2 DEF Table!Carried
<1>8. \A i \in DOMAIN waiting' : Table!Carried(waiting'[i])
  <2> SUFFICES ASSUME NEW i \in 1 .. Len(waiting) + n PROVE Table!Carried(waiting'[i])
    BY <1>6
  <2>1. CASE i \in 1 .. Len(waiting)
    BY <1>6, <2>1 DEF Queued
  <2>2. CASE i \notin 1 .. Len(waiting)
    <3>1. i - Len(waiting) \in 1 .. n /\ i = Len(waiting) + (i - Len(waiting))
      BY <1>1, <1>6, <2>2
    <3>2. QED
      BY <1>6, <1>7, <3>1
  <2>3. QED
    BY <2>1, <2>2
<1>9. Len(waiting) + n \in Lasts'
  <2>1. n \in 1 .. n /\ Len(waiting) + n \in DOMAIN waiting'
    BY <1>1, <1>6
  <2>2. waiting'[Len(waiting) + n] = more[n]
    BY <1>6, <2>1
  <2>3. QED
    BY <1>2, <2>1, <2>2 DEF Lasts
<1>10. \A i \in DOMAIN waiting' : Len(waiting) + n >= i
  BY <1>1, <1>6
<1>11. QED
  BY <1>6, <1>8, <1>9, <1>10 DEF Queued

\* The first call is served.
LEMMA QueueShrinks ==
    ASSUME Queued, NEW op, Table!Serving(op)
    PROVE /\ Queued' /\ Table!Carried(Table!Task) /\ Table!Task.op = op
          /\ Lasts' = {} => \/ Lasts = {}
                            \/ Table!Task.op = "delete" /\ Table!Task.last
          /\ op = "delete" /\ ~Table!Task.last => Lasts' # {}
<1>1. waiting # <<>> /\ waiting' = Tail(waiting) /\ Head(waiting).op = op /\ Table!Task = Head(waiting)
  BY DEF Table!Serving, Table!Task
<1>2. PICK S : waiting \in Seq(S)
  BY DEF Queued
<1>3. /\ waiting' \in Seq(S) /\ Len(waiting) \in Nat \ {0}
      /\ DOMAIN waiting = 1 .. Len(waiting) /\ DOMAIN waiting' = 1 .. Len(waiting) - 1
      /\ Head(waiting) = waiting[1]
      /\ \A i \in 1 .. Len(waiting) - 1 : waiting'[i] = waiting[i + 1]
  BY <1>1, <1>2, Shifted
<1>7. ASSUME NEW k \in Lasts, k # 1 PROVE k - 1 \in Lasts'
  <2>1. k - 1 \in 1 .. Len(waiting) - 1 /\ (k - 1) + 1 = k
    BY <1>3, <1>7 DEF Lasts
  <2>2. QED
    BY <1>3, <1>7, <2>1 DEF Lasts
<1>8. ASSUME NEW i \in DOMAIN waiting', waiting'[i].op = "delete"
      PROVE  \E k \in Lasts' : k >= i
  <2>1. i + 1 \in DOMAIN waiting /\ i \in Nat /\ waiting[i + 1].op = "delete"
    BY <1>3, <1>8
  <2>2. PICK k \in Lasts : k >= i + 1
    BY <2>1 DEF Queued
  <2>3. k \in Nat
    BY <1>3 DEF Lasts
  <2>4. k # 1 /\ k - 1 >= i
    BY <1>3, <1>8, <2>2, <2>3
  <2>5. QED
    BY <1>7, <2>4
<1>4. Queued' /\ Table!Carried(Table!Task)
  <2>1. \A i \in DOMAIN waiting' : i \in 1 .. Len(waiting) - 1 /\ i + 1 \in DOMAIN waiting
    BY <1>3
  <2>2. Table!Carried(Table!Task)
    BY <1>1, <1>3 DEF Queued
  <2>3. \A i \in DOMAIN waiting' : Table!Carried(waiting'[i])
    BY <1>3, <2>1 DEF Queued
  <2>4. QED
    BY <1>3, <1>8, <2>2, <2>3 DEF Queued
<1>5. ASSUME Lasts' = {}, NEW i \in Lasts, i # 1 PROVE FALSE
  <2>1. i - 1 \in 1 .. Len(waiting) - 1 /\ (i - 1) + 1 = i
    BY <1>3, <1>5 DEF Lasts
  <2>2. QED
    BY <1>3, <1>5, <2>1 DEF Lasts
<1>9. ASSUME op = "delete", ~Table!Task.last PROVE Lasts' # {}
  <2>1. waiting[1].op = "delete" /\ 1 \in DOMAIN waiting /\ 1 \notin Lasts
    BY <1>1, <1>3, <1>9 DEF Lasts
  <2>2. PICK k \in Lasts : k >= 1
    BY <2>1 DEF Queued
  <2>3. QED
    BY <1>7, <2>1, <2>2
<1>6. QED
  BY <1>1, <1>3, <1>4, <1>5, <1>9 DEF Lasts

-----------------------------------------------------------------------------
(* The steps of the table. *)

\* The search box, the checkboxes, the dialogs that open and the form move nothing else.
LEMMA IdleKeeps ==
    ASSUME NothingAssumption, TableInv, Table!Type \/ Table!Select \/ Table!OpenCreate
           \/ Table!CloseCreate \/ Table!Edit
    PROVE TableInv'
<1>1. /\ UNCHANGED <<apps, at, toward, toolbar, debounced, rows, total, open, waiting, renders,
                     replaced, failed, hushed>>
      /\ input' \in Table!Texts /\ creating' \in {"shut", "open", "sending"} /\ selection' \subseteq Ids
      /\ form' \in Table!Forms \union {Shut}
  <2>1. CASE Table!Type
    BY <2>1 DEF Table!Type, TableInv, Table!TypeOK
  <2>2. CASE Table!Select
    BY <2>2 DEF Table!Select, TableInv, Table!TypeOK, Table!Visible
  <2>3. CASE Table!OpenCreate
    BY <2>3 DEF Table!OpenCreate, TableInv, Table!TypeOK
  <2>6. CASE Table!CloseCreate
    BY <2>6 DEF Table!CloseCreate, TableInv, Table!TypeOK
  <2>4. CASE Table!Edit
    BY <2>4 DEF Table!Edit, TableInv, Table!TypeOK, Table!Forms
  <2>5. QED
    BY <2>1, <2>2, <2>3, <2>4, <2>6
<1>2. Table!TypeOK'
  BY <1>1 DEF TableInv, Table!TypeOK
<1>3. Queued' /\ Listed' /\ Boxed' /\ Opened'
  BY <1>1 DEF TableInv, Queued, Listed, Boxed, Opened, Lasts, Coming, Table!Answer, Table!Rows
<1>4. QED
  BY <1>2, <1>3 DEF TableInv

\* A navigation that leaves from the URL that is there, with the search that the box has.
LEMMA PushedKeeps ==
    ASSUME NothingAssumption, TableInv, NEW u \in Table!Urls, Table!Pushed(u),
           toward = NoUrl /\ ~replaced => u.search = debounced', debounced' \in Table!Texts,
           UNCHANGED <<apps, at, toolbar, input, rows, total, open, form, creating, selection,
                       waiting, renders, failed, hushed>>
    PROVE TableInv'
<1>1. toward' = u /\ toward' # NoUrl /\ replaced' = (replaced \/ toward # NoUrl)
  BY DEF Table!Pushed, NothingAssumption
<1>2. Table!TypeOK'
  BY <1>1 DEF TableInv, Table!TypeOK
<1>3. Queued' /\ Listed'
  BY DEF TableInv, Queued, Listed, Lasts, Table!Answer, Table!Rows
<1>4. Boxed'
  BY <1>1 DEF Boxed, Coming
<1>5. Opened'
  BY <1>1 DEF TableInv, Opened, Coming
<1>6. QED
  BY <1>2, <1>3, <1>4, <1>5 DEF TableInv

\* A URL of the table with one of its parts changed is one, with the others as they were.
LEMMA PlaceChanged ==
    ASSUME NEW u \in Table!Urls
    PROVE /\ \A t \in Table!Texts : LET v == [u EXCEPT !.search = t] IN
                /\ v \in Table!Urls /\ v.search = t /\ v.id = u.id
          /\ \A h \in SUBSET Statuses : LET v == [u EXCEPT !.hidden = h] IN
                /\ v \in Table!Urls /\ v.search = u.search /\ v.id = u.id
          /\ \A x \in Ids \union {NoId} : LET v == [u EXCEPT !.id = x] IN
                /\ v \in Table!Urls /\ v.search = u.search /\ v.id = x
<1>1. ASSUME NEW t \in Table!Texts
      PROVE LET v == [u EXCEPT !.search = t] IN v \in Table!Urls /\ v.search = t /\ v.id = u.id
  BY DEF Table!Urls
<1>2. ASSUME NEW h \in SUBSET Statuses
      PROVE LET v == [u EXCEPT !.hidden = h]
            IN v \in Table!Urls /\ v.search = u.search /\ v.id = u.id
  BY DEF Table!Urls
<1>3. ASSUME NEW x \in Ids \union {NoId}
      PROVE LET v == [u EXCEPT !.id = x] IN v \in Table!Urls /\ v.search = u.search /\ v.id = x
  BY DEF Table!Urls
<1>4. QED
  BY <1>1, <1>2, <1>3

\* The box, a status or a row pushes a URL.
LEMMA NavigationKeeps ==
    ASSUME NothingAssumption, TableInv, Table!Elapse \/ Table!Hide \/ Table!RowClick
    PROVE TableInv'
<1>0. /\ at \in Table!Urls /\ input \in Table!Texts /\ debounced \in Table!Texts
      /\ rows \in [DOMAIN rows -> Table!Records] /\ DOMAIN rows \subseteq Ids
      /\ toward = NoUrl /\ ~replaced => debounced = at.search
  BY DEF TableInv, Table!TypeOK, Boxed, Coming
<1>1. CASE Table!Elapse
  <2> DEFINE u == [at EXCEPT !.search = input]
  <2>1. u \in Table!Urls /\ u.search = input
    BY <1>0, PlaceChanged
  <2>2. /\ Table!Pushed(u) /\ debounced' = input
        /\ UNCHANGED <<apps, at, toolbar, input, rows, total, open, form, creating, selection,
                       waiting, renders, failed, hushed>>
    BY <1>1 DEF Table!Elapse
  <2>3. QED
    BY <1>0, <2>1, <2>2, PushedKeeps
<1>2. CASE Table!Hide
  <2>1. PICK s \in Statuses :
           Table!Pushed([at EXCEPT !.hidden = IF s \in @ THEN @ \ {s} ELSE @ \union {s}])
    BY <1>2 DEF Table!Hide
  <2> DEFINE h == IF s \in at.hidden THEN at.hidden \ {s} ELSE at.hidden \union {s}
             u == [at EXCEPT !.hidden = h]
  <2>2. at.hidden \in SUBSET Statuses
    BY <1>0 DEF Table!Urls
  <2>3. h \in SUBSET Statuses
    BY <2>2
  <2>4. Table!Pushed(u)
    BY <2>1
  <2> HIDE DEF h
  <2>5. u \in Table!Urls /\ u.search = at.search
    BY <1>0, <2>3, PlaceChanged
  <2>6. UNCHANGED <<apps, at, toolbar, input, debounced, rows, total, open, form, creating,
                    selection, waiting, renders, failed, hushed>>
    BY <1>2 DEF Table!Hide
  <2>7. QED
    BY <1>0, <2>4, <2>5, <2>6, PushedKeeps
<1>3. CASE Table!RowClick
  <2>1. PICK x \in Table!Visible : Table!Pushed([at EXCEPT !.id = x])
    BY <1>3 DEF Table!RowClick
  <2>2. x \in Ids \union {NoId}
    BY <1>0 DEF Table!Visible
  <2> DEFINE u == [at EXCEPT !.id = x]
  <2>3. u \in Table!Urls /\ u.search = at.search
    BY <1>0, <2>2, PlaceChanged
  <2>4. UNCHANGED <<apps, at, toolbar, input, debounced, rows, total, open, form, creating,
                    selection, waiting, renders, failed, hushed>>
    BY <1>3 DEF Table!RowClick
  <2>5. QED
    BY <1>0, <2>1, <2>3, <2>4, PushedKeeps
<1>4. QED
  BY <1>1, <1>2, <1>3

\* The dialog closes, over the URL it was rendered with: it is shut, and the URL that is
\* coming has no application.
LEMMA CloseDoes ==
    ASSUME NothingAssumption, TableInv, NEW u \in Table!Urls, Table!Close(u),
           UNCHANGED <<at, debounced>>
    PROVE /\ toward' \in Table!Urls /\ open' = FALSE /\ form' = Shut /\ replaced' \in BOOLEAN
          /\ Boxed' /\ Opened'
<1> DEFINE v == [u EXCEPT !.id = NoId]
<1>1. v \in Table!Urls /\ v.search = u.search /\ v.id = NoId
  BY PlaceChanged
<1>2. /\ toward' = v /\ toward' # NoUrl /\ open' = FALSE /\ form' = Shut
      /\ replaced' = (replaced \/ toward # NoUrl \/ at # u)
  BY <1>1 DEF Table!Close, NothingAssumption
<1>3. Boxed' /\ Opened'
  BY <1>1, <1>2 DEF TableInv, Boxed, Opened, Coming
<1>4. QED
  BY <1>1, <1>2, <1>3 DEF TableInv, Table!TypeOK

\* The selected rows are deleted, or the one of the dialog; or the dialog closes.
LEMMA RemovalKeeps ==
    ASSUME NothingAssumption, IdsAssumption, TableInv,
           Table!HandleDeleteSelected \/ Table!HandleDelete \/ Table!CloseDialog
    PROVE TableInv'
<1>0. /\ at \in Table!Urls /\ selection \subseteq Ids
      /\ form # Shut => form \in Table!Forms /\ form.id \in Ids
      /\ rows \in [DOMAIN rows -> Table!Records] /\ DOMAIN rows \subseteq Ids
  BY DEF TableInv, Table!TypeOK, Table!Forms
<1>1. CASE Table!HandleDeleteSelected
  <2>1. /\ selection # {} /\ rows' = Table!Without(rows, selection) /\ selection' = {}
        /\ waiting' = waiting \o Table!Deletions(selection)
        /\ UNCHANGED <<apps, at, toward, toolbar, input, debounced, total, open, form, creating,
                       renders, replaced, failed, hushed>>
    BY <1>1 DEF Table!HandleDeleteSelected
  <2>2. Queued' /\ Lasts' # {}
    BY <1>0, <2>1, DeletionsQueue DEF TableInv
  <2>3. Table!TypeOK'
    <3>1. DOMAIN rows' \subseteq Ids /\ rows' \in [DOMAIN rows' -> Table!Records]
      BY <1>0, <2>1, Widened
    <3>2. QED
      BY <2>1, <2>2, <3>1 DEF TableInv, Table!TypeOK, Queued
  <2>4. Listed'
    BY <2>2 DEF Listed
  <2>5. Boxed' /\ Opened'
    BY <2>1 DEF TableInv, Boxed, Opened, Coming
  <2>6. QED
    BY <2>2, <2>3, <2>4, <2>5 DEF TableInv
<1>2. CASE Table!HandleDelete
  <2>1. /\ form # Shut /\ Table!Close(at) /\ rows' = Table!Without(rows, {form.id})
        /\ waiting' = waiting \o Table!Deletions({form.id})
        /\ UNCHANGED <<apps, at, toolbar, input, debounced, total, creating, selection, renders, failed, hushed>>
    BY <1>2 DEF Table!HandleDelete
  <2>2. Queued' /\ Lasts' # {}
    <3>1. {form.id} \in SUBSET Ids /\ {form.id} # {}
      BY <1>0, <2>1
    <3>2. QED
      BY <2>1, <3>1, DeletionsQueue DEF TableInv
  <2>3. /\ toward' \in Table!Urls /\ open' = FALSE /\ form' = Shut /\ replaced' \in BOOLEAN
        /\ Boxed' /\ Opened'
    BY <1>0, <2>1, CloseDoes
  <2>4. Table!TypeOK'
    <3>1. DOMAIN rows' \subseteq Ids /\ rows' \in [DOMAIN rows' -> Table!Records]
      BY <1>0, <2>1, Widened
    <3>2. QED
      BY <2>1, <2>2, <2>3, <3>1 DEF TableInv, Table!TypeOK, Queued
  <2>5. Listed'
    BY <2>2 DEF Listed
  <2>6. QED
    BY <2>2, <2>3, <2>4, <2>5 DEF TableInv
<1>3. CASE Table!CloseDialog
  <2>1. /\ Table!Close(at)
        /\ UNCHANGED <<apps, at, toolbar, input, debounced, rows, total, creating, selection, waiting,
                       renders, failed, hushed>>
    BY <1>3 DEF Table!CloseDialog
  <2>2. /\ toward' \in Table!Urls /\ open' = FALSE /\ form' = Shut /\ replaced' \in BOOLEAN
        /\ Boxed' /\ Opened'
    BY <1>0, <2>1, CloseDoes
  <2>3. Table!TypeOK'
    BY <2>1, <2>2 DEF TableInv, Table!TypeOK
  <2>4. Queued' /\ Listed'
    BY <2>1 DEF TableInv, Queued, Listed, Lasts, Table!Answer, Table!Rows
  <2>5. QED
    BY <2>2, <2>3, <2>4 DEF TableInv
<1>4. QED
  BY <1>1, <1>2, <1>3

\* A form is sent.
LEMMA SentKeeps ==
    ASSUME TableInv, Table!Submit \/ Table!Create
    PROVE TableInv'
<1>1. CASE Table!Submit
  <2> DEFINE call == [op |-> "update", id |-> form.id, record |-> form.record, at |-> at]
  <2>1. /\ form # Shut /\ waiting' = Append(waiting, call)
        /\ form' = [form EXCEPT !.saving = TRUE]
        /\ UNCHANGED <<apps, at, toward, toolbar, input, debounced, rows, total, open,
                       creating, selection, renders, replaced, failed, hushed>>
    BY <1>1 DEF Table!Submit
  <2>2. Table!Carried(call) /\ call.op # "delete"
    BY <2>1 DEF TableInv, Table!TypeOK, Table!Forms, Table!Carried
  <2>3. Queued' /\ Lasts' = Lasts
    BY <2>1, <2>2, QueueGrows DEF TableInv
  <2>4. form' \in Table!Forms
    BY <2>1 DEF TableInv, Table!TypeOK, Table!Forms
  <2>5. QED
    BY <2>1, <2>3, <2>4
       DEF TableInv, Table!TypeOK, Queued, Listed, Boxed, Opened, Coming, Table!Answer, Table!Rows
<1>2. CASE Table!Create
  <2>1. PICK r \in Table!Records : waiting' = Append(waiting, [op |-> "create", record |-> r])
    BY <1>2 DEF Table!Create
  <2>2. /\ creating' = "sending"
        /\ UNCHANGED <<apps, at, toward, toolbar, input, debounced, rows, total, open, form,
                       selection, renders, replaced, failed, hushed>>
    BY <1>2 DEF Table!Create
  <2> DEFINE call == [op |-> "create", record |-> r]
  <2>3. Table!Carried(call) /\ call.op # "delete"
    BY DEF Table!Carried
  <2>4. Queued' /\ Lasts' = Lasts
    BY <2>1, <2>3, QueueGrows DEF TableInv
  <2>5. QED
    BY <2>2, <2>4
       DEF TableInv, Table!TypeOK, Queued, Listed, Boxed, Opened, Coming, Table!Answer, Table!Rows
<1>3. QED
  BY <1>1, <1>2

\* A call is answered: what changed what is stored renders the page anew.
LEMMA AnsweredKeeps ==
    ASSUME NothingAssumption, TableInv,
           Table!ServeDelete \/ Table!ServeUpdate \/ Table!ServeCreate
    PROVE TableInv'
<1>0. /\ DOMAIN apps \subseteq Ids /\ apps \in [DOMAIN apps -> Table!Records]
      /\ at \in Table!Urls /\ renders \in BOOLEAN
  BY DEF TableInv, Table!TypeOK
<1>1. CASE Table!ServeDelete
  <2>1. Table!Serving("delete")
    BY <1>1 DEF Table!ServeDelete
  <2>2. /\ Queued' /\ Table!Carried(Table!Task) /\ Table!Task.op = "delete"
        /\ Lasts' = {} => Lasts = {} \/ Table!Task.last
        /\ ~Table!Task.last => Lasts' # {}
    BY <2>1, QueueShrinks DEF TableInv
  <2>3. UNCHANGED <<at, toward, toolbar, input, debounced, rows, total, open, form, creating,
                    selection, replaced, failed, hushed>>
    BY <1>1 DEF Table!ServeDelete
  <2>4. /\ renders' \in BOOLEAN /\ DOMAIN apps' \subseteq Ids /\ apps' \in [DOMAIN apps' -> Table!Records]
        /\ ~renders' => ~Table!Task.last
    <3>1. apps' \in {apps, Table!Without(apps, {Table!Task.id})}
      BY <1>1 DEF Table!ServeDelete
    <3>2. DOMAIN apps' \subseteq Ids /\ apps' \in [DOMAIN apps' -> Table!Records]
      BY <1>0, <3>1, Widened
    <3>3. renders' = TRUE \/ renders' = (renders \/ Table!Task.last)
      BY <1>1 DEF Table!ServeDelete, Table!Refreshes
    <3>4. QED
      BY <1>0, <2>2, <3>2, <3>3 DEF Table!Carried
  <2>5. Table!TypeOK'
    BY <2>2, <2>3, <2>4 DEF TableInv, Table!TypeOK, Queued
  <2>6. Listed' /\ Boxed' /\ Opened'
    BY <2>2, <2>3, <2>4 DEF TableInv, Listed, Boxed, Opened, Coming, Table!Answer, Table!Rows
  <2>7. QED
    BY <2>2, <2>5, <2>6 DEF TableInv
<1>2. CASE Table!ServeUpdate
  <2>1. Table!Serving("update")
    BY <1>2 DEF Table!ServeUpdate
  <2>2. /\ Queued' /\ Table!Carried(Table!Task) /\ Table!Task.op = "update"
        /\ Lasts' = {} => Lasts = {}
    BY <2>1, QueueShrinks DEF TableInv
  <2>3. UNCHANGED <<at, toolbar, input, debounced, rows, total, creating, selection, failed>>
    BY <1>2 DEF Table!ServeUpdate
  <2> DEFINE changed == [x \in DOMAIN apps |-> IF x = Table!Task.id
                            THEN Table!Updated(apps[x], Table!Task.record) ELSE apps[x]]
  <2>4. Table!Task.record \in Table!Records /\ Table!Task.at \in Table!Urls
    BY <2>2 DEF Table!Carried
  <2>5. DOMAIN changed \subseteq Ids /\ changed \in [DOMAIN changed -> Table!Records]
    <3>1. \A x \in DOMAIN apps : Table!Updated(apps[x], Table!Task.record) \in Table!Records
      BY <1>0, <2>4 DEF Table!Updated, Table!Records
    <3>2. QED
      BY <1>0, <3>1
  <2>6. \/ /\ apps' = changed /\ renders' = TRUE /\ Table!Close(Table!Task.at) /\ hushed' = hushed
        \/ /\ Table!FailsWith(changed)
           /\ form' = IF form = Shut THEN Shut
                      ELSE [form EXCEPT !.saving = @ /\ Table!Another("update")]
           /\ UNCHANGED <<toward, open, renders, replaced>>
    BY <1>2 DEF Table!ServeUpdate
  <2> HIDE DEF changed
  <2>7. CASE /\ Table!FailsWith(changed)
             /\ form' = IF form = Shut THEN Shut
                        ELSE [form EXCEPT !.saving = @ /\ Table!Another("update")]
             /\ UNCHANGED <<toward, open, renders, replaced>>
    <3>1. apps' \in {apps, changed} /\ hushed' = (hushed \/ apps' # apps)
      BY <2>7 DEF Table!FailsWith
    <3>2. form' \in Table!Forms \union {Shut}
      BY <2>7 DEF TableInv, Table!TypeOK, Table!Forms, Table!Another
    <3>3. hushed' \in BOOLEAN
      BY <3>1 DEF TableInv, Table!TypeOK
    <3>4. Table!TypeOK'
      BY <1>0, <2>2, <2>3, <2>5, <2>7, <3>1, <3>2, <3>3 DEF TableInv, Table!TypeOK, Queued
    <3>5. Listed' /\ Boxed' /\ Opened'
      BY <2>2, <2>3, <2>7, <3>1 DEF TableInv, Listed, Boxed, Opened, Coming, Table!Answer, Table!Rows
    <3>6. QED
      BY <2>2, <3>4, <3>5 DEF TableInv
  <2>8. CASE apps' = changed /\ renders' = TRUE /\ Table!Close(Table!Task.at) /\ hushed' = hushed
    <3>1. /\ toward' \in Table!Urls /\ open' = FALSE /\ form' = Shut /\ replaced' \in BOOLEAN
          /\ Boxed' /\ Opened'
      BY <2>3, <2>4, <2>8, CloseDoes
    <3>2. Table!TypeOK'
      BY <2>2, <2>3, <2>5, <2>8, <3>1 DEF TableInv, Table!TypeOK, Queued
    <3>3. QED
      BY <2>2, <2>8, <3>1, <3>2 DEF TableInv, Listed
  <2>9. QED
    BY <2>6, <2>7, <2>8
<1>3. CASE Table!ServeCreate
  <2>1. Table!Serving("create")
    BY <1>3 DEF Table!ServeCreate
  <2>2. /\ Queued' /\ Table!Carried(Table!Task) /\ Table!Task.op = "create"
        /\ Lasts' = {} => Lasts = {}
    BY <2>1, QueueShrinks DEF TableInv
  <2>3. UNCHANGED <<at, toward, toolbar, input, debounced, rows, total, open, form, selection,
                    replaced, failed>>
    BY <1>3 DEF Table!ServeCreate
  <2>4. Table!Task.record \in Table!Records
    BY <2>2 DEF Table!Carried
  <2>5. \A x \in Ids : LET with == Table!With(apps, x, Table!Task.record)
                      IN DOMAIN with \subseteq Ids /\ with \in [DOMAIN with -> Table!Records]
    BY <1>0, <2>4, Widened
  <2>6. \/ /\ \E x \in Ids : apps' = Table!With(apps, x, Table!Task.record)
           /\ creating' = "shut" /\ renders' = TRUE /\ hushed' = hushed
        \/ /\ apps' = apps \/ \E x \in Ids : apps' = Table!With(apps, x, Table!Task.record)
           /\ creating' \in {"open", creating} /\ renders' = renders
           /\ hushed' = (hushed \/ apps' # apps)
    <3>1. hushed = (hushed \/ FALSE)
      BY DEF TableInv, Table!TypeOK
    <3>2. QED
      BY <1>3, <3>1 DEF Table!ServeCreate, Table!FailsWith
  <2>7. /\ renders' \in BOOLEAN /\ creating' \in {"shut", "open", "sending"} /\ hushed' \in BOOLEAN
        /\ DOMAIN apps' \subseteq Ids /\ apps' \in [DOMAIN apps' -> Table!Records]
        /\ ~renders' /\ ~hushed' => apps' = apps /\ ~renders /\ ~hushed
    BY <1>0, <2>5, <2>6 DEF TableInv, Table!TypeOK
  <2>8. Table!TypeOK'
    BY <2>2, <2>3, <2>7 DEF TableInv, Table!TypeOK, Queued
  <2>9. Listed' /\ Boxed' /\ Opened'
    BY <2>2, <2>3, <2>7 DEF TableInv, Listed, Boxed, Opened, Coming, Table!Answer, Table!Rows
  <2>10. QED
    BY <2>2, <2>8, <2>9 DEF TableInv
<1>4. QED
  BY <1>1, <1>2, <1>3

\* What a render for a URL does to the rows, the count and the form.
LEMMA RowsRendered ==
    ASSUME NothingAssumption, IdsAssumption, TableInv, NEW u \in Table!Urls, Table!Render(u),
           open' \in BOOLEAN
    PROVE /\ DOMAIN rows' \subseteq Ids /\ rows' \in [DOMAIN rows' -> Table!Records]
          /\ total' \in 0 .. Cardinality(Ids) /\ failed' \in BOOLEAN /\ hushed' \in BOOLEAN
          /\ form' \in Table!Forms \union {Shut}
          /\ ~failed' => rows' = Table!Answer(u)
<1>0. hushed' \in BOOLEAN
  BY DEF Table!Render, TableInv, Table!TypeOK
<1>1. \/ rows' = Table!Answer(u) /\ total' = Table!Count(u) /\ failed' = FALSE
      \/ rows' = <<>> /\ total' = 0 /\ failed' = TRUE
  BY DEF Table!Render
<1>2. /\ DOMAIN rows' \subseteq Ids /\ rows' \in [DOMAIN rows' -> Table!Records]
      /\ total' \in 0 .. Cardinality(Ids) /\ failed' \in BOOLEAN
      /\ ~failed' => rows' = Table!Answer(u)
  <2>1. CASE rows' = Table!Answer(u) /\ total' = Table!Count(u) /\ failed' = FALSE
    BY <2>1, AnswersTyped DEF TableInv, Table!TypeOK
  <2>2. CASE rows' = <<>> /\ total' = 0 /\ failed' = TRUE
    <3>1. rows' \in Seq({}) /\ Len(rows') = 0
      BY <2>2, EmptySeq
    <3>2. DOMAIN rows' = {}
      BY <3>1
    <3>3. rows' \in [DOMAIN rows' -> Table!Records]
      BY <3>1, <3>2
    <3>4. Cardinality(Ids) \in Nat
      BY IdsAssumption, FS_CardinalityType DEF IdsAssumption
    <3>5. QED
      BY <2>2, <3>2, <3>3, <3>4
  <2>3. QED
    BY <1>1, <2>1, <2>2
<1>3. form' = IF ~open' \/ u.id \notin DOMAIN rows' THEN Shut
              ELSE IF form # Shut THEN form
                   ELSE [id |-> u.id, record |-> rows'[u.id], saving |-> FALSE]
  BY DEF Table!Render
<1>4. form' \in Table!Forms \union {Shut}
  <2>1. CASE ~open' \/ u.id \notin DOMAIN rows'
    BY <1>3, <2>1
  <2>2. CASE ~(~open' \/ u.id \notin DOMAIN rows') /\ form # Shut
    BY <1>3, <2>2 DEF TableInv, Table!TypeOK
  <2>3. CASE ~(~open' \/ u.id \notin DOMAIN rows') /\ form = Shut
    <3>1. form' = [id |-> u.id, record |-> rows'[u.id], saving |-> FALSE]
      BY <1>3, <2>3
    <3>2. u.id \in Ids /\ rows'[u.id] \in Table!Records
      BY <1>2, <2>3
    <3>3. QED
      BY <3>1, <3>2 DEF Table!Forms
  <2>4. QED
    BY <2>1, <2>2, <2>3
<1>5. QED
  BY <1>0, <1>2, <1>4

\* The navigation of the table lands.
LEMMA TableLands ==
    ASSUME NothingAssumption, IdsAssumption, TableInv, Table!Land
    PROVE TableInv'
<1>1. /\ toward \in Table!Urls /\ toward # NoUrl /\ at' = toward /\ toward' = NoUrl
      /\ input' = Table!Follow(toward)
      /\ open' = (IF toward.id # at.id THEN toward.id # NoId ELSE open)
      /\ Table!Render(toward)
      /\ UNCHANGED <<apps, toolbar, debounced, creating, selection, waiting, renders, replaced>>
  BY DEF Table!Land, TableInv, Table!TypeOK
<1>2. open' \in BOOLEAN
  BY <1>1 DEF TableInv, Table!TypeOK
<1>3. /\ DOMAIN rows' \subseteq Ids /\ rows' \in [DOMAIN rows' -> Table!Records]
      /\ total' \in 0 .. Cardinality(Ids) /\ failed' \in BOOLEAN /\ hushed' \in BOOLEAN
      /\ form' \in Table!Forms \union {Shut}
      /\ ~failed' => rows' = Table!Answer(toward)
  BY <1>1, <1>2, RowsRendered
<1>4. input' \in Table!Texts
  BY <1>1 DEF TableInv, Table!TypeOK, Table!Follow, Table!Urls
<1>5. Table!TypeOK'
  BY <1>1, <1>2, <1>3, <1>4, CountsAlike DEF TableInv, Table!TypeOK
<1>6. Queued'
  BY <1>1 DEF TableInv, Queued, Lasts
<1>7. Table!Answer(toward) = Table!Answer(at)'
  BY <1>1 DEF Table!Answer, Table!Rows
<1>8. Listed'
  BY <1>3, <1>7 DEF Listed
<1>9. Boxed' /\ Opened'
  BY <1>1 DEF TableInv, Boxed, Opened, Coming
<1>10. QED
  BY <1>5, <1>6, <1>8, <1>9 DEF TableInv

\* The table is rendered anew.
LEMMA TableRefreshes ==
    ASSUME NothingAssumption, IdsAssumption, TableInv, Table!Refresh
    PROVE TableInv'
<1>1. /\ at \in Table!Urls /\ Table!Render(at) /\ renders' = FALSE
      /\ UNCHANGED <<apps, at, toward, toolbar, input, debounced, open, creating, selection, waiting,
                     replaced>>
  BY DEF Table!Refresh, TableInv, Table!TypeOK
<1>2. open' \in BOOLEAN
  BY <1>1 DEF TableInv, Table!TypeOK
<1>3. /\ DOMAIN rows' \subseteq Ids /\ rows' \in [DOMAIN rows' -> Table!Records]
      /\ total' \in 0 .. Cardinality(Ids) /\ failed' \in BOOLEAN /\ hushed' \in BOOLEAN
      /\ form' \in Table!Forms \union {Shut}
      /\ ~failed' => rows' = Table!Answer(at)
  BY <1>1, <1>2, RowsRendered
<1>4. Table!TypeOK'
  BY <1>1, <1>3, CountsAlike DEF TableInv, Table!TypeOK
<1>5. Queued' /\ Boxed' /\ Opened'
  BY <1>1 DEF TableInv, Queued, Lasts, Boxed, Opened, Coming
<1>6. Table!Answer(at) = Table!Answer(at)'
  BY <1>1 DEF Table!Answer, Table!Rows
<1>7. Listed'
  BY <1>3, <1>6 DEF Listed
<1>8. QED
  BY <1>4, <1>5, <1>7 DEF TableInv

-----------------------------------------------------------------------------
(* The table as a whole. *)

\* The table is mounted with the rows of its URL.
LEMMA TableBegins ==
    ASSUME NothingAssumption, IdsAssumption, Table!Init
    PROVE TableInv
<1>1. /\ at \in Table!Urls /\ at.id = NoId /\ toolbar \in {"applications", "companies"}
      /\ debounced = input /\ toward = [at EXCEPT !.search = debounced]
      /\ input = (IF toolbar = "companies" THEN "" ELSE at.search)
      /\ rows = Table!Answer(at) /\ total = Table!Count(at)
      /\ open = FALSE /\ form = Shut /\ creating = "shut" /\ selection = {}
      /\ waiting = <<>> /\ renders = FALSE /\ replaced = FALSE /\ failed = FALSE /\ hushed = FALSE
  BY DEF Table!Init
<1>2. DOMAIN apps \subseteq Ids /\ apps \in [DOMAIN apps -> Table!Records]
  <2>1. PICK S \in SUBSET Ids : apps \in [S -> {r \in Table!Records : r.notes = ""}]
    BY DEF Table!Init
  <2>2. QED
    BY <2>1
<1>3. input \in Table!Texts
  BY <1>1 DEF Table!Texts, Table!Urls
<1>4. toward \in Table!Urls /\ toward.search = debounced /\ toward.id = NoId
  <2>1. debounced \in Table!Texts
    BY <1>1, <1>3
  <2>2. /\ [at EXCEPT !.search = debounced] \in Table!Urls
        /\ [at EXCEPT !.search = debounced].search = debounced
        /\ [at EXCEPT !.search = debounced].id = at.id
    <3>1. at \in Table!Urls
      BY <1>1
    <3>2. QED
      BY <2>1, <3>1, PlaceChanged
  <2>3. toward = [at EXCEPT !.search = debounced] /\ at.id = NoId
    BY <1>1
  <2>4. QED
    BY <2>2, <2>3
<1>5. /\ DOMAIN Table!Answer(at) \subseteq Ids
      /\ Table!Answer(at) \in [DOMAIN Table!Answer(at) -> Table!Records]
      /\ Table!Count(at) \in 0 .. Cardinality(Ids)
  BY <1>2, AnswersTyped
<1>6. waiting \in Seq({}) /\ DOMAIN waiting = {}
  <2>1. waiting \in Seq({}) /\ Len(waiting) = 0
    BY <1>1, EmptySeq
  <2>2. QED
    BY <2>1
<1>7. Table!TypeOK
  BY <1>1, <1>2, <1>3, <1>4, <1>5, <1>6, CountsAlike DEF Table!TypeOK
<1>8. Queued /\ Listed
  BY <1>1, <1>6 DEF Queued, Listed
<1>9. Boxed /\ Opened
  BY <1>1, <1>4 DEF Boxed, Opened, Coming, NothingAssumption
<1>10. QED
  BY <1>7, <1>8, <1>9 DEF TableInv

\* Every step of the table keeps what is said of it.
LEMMA TableStep ==
    ASSUME NothingAssumption, IdsAssumption, TableInv, Table!Next
    PROVE TableInv'
BY IdleKeeps, NavigationKeeps, RemovalKeeps, SentKeeps, AnsweredKeeps, TableLands, TableRefreshes
   DEF Table!Next

\* And so does a table that stays as it is.
LEMMA TableStays ==
    ASSUME TableInv, UNCHANGED tableVars
    PROVE TableInv'
BY DEF tableVars, TableInv, Table!TypeOK, Queued, Listed, Lasts, Boxed, Opened, Coming,
       Table!Answer, Table!Rows

\* The table is what it should be in every state of every behaviour.
THEOREM TableInvariant == Spec => []TableInv
<1>1. Init => TableInv
  BY NothingAssumption, IdsAssumption, TableBegins DEF Init
<1>2. TableInv /\ [Next]_vars => TableInv'
  BY NothingAssumption, IdsAssumption, TableStep, TableStays DEF Next, vars
<1>3. QED
  BY <1>1, <1>2, PTL DEF Spec

\* The rows, the search box and the dialog settle, for any applications and statuses and
\* whatever the user does (ListSettles).
THEOREM TableSettles == Spec => []ListSettles
<1>1. TableInv => ListSettles
  <2> SUFFICES ASSUME TableInv, Table!Quiet PROVE ListSettles
    BY DEF ListSettles, Table!ListSettles, TableInv
  <2>1. waiting = <<>> /\ ~renders /\ toward = NoUrl /\ input = debounced
    BY DEF Table!Quiet
  <2>2. Lasts = {}
    <3>1. waiting \in Seq({}) /\ Len(waiting) = 0
      BY <2>1, EmptySeq
    <3>2. QED
      BY <3>1 DEF Lasts
  <2>3. QED
    BY <2>1, <2>2 DEF TableInv, ListSettles, Table!ListSettles, Listed, Boxed, Opened, Coming
<1>2. QED
  BY <1>1, TableInvariant, PTL

-----------------------------------------------------------------------------
(* The avatar editor. *)

\* The pictures asked for and not answered.
Previews == {i \in DOMAIN avatarCalls : avatarCalls[i].what = "preview"}

\* The last picture asked for is one of the form's values, or the one that is shown is, but
\* for a picture that was not drawn.
Drawn(values) ==
    /\ \A i \in Previews : (\A j \in Previews : j <= i) => avatarCalls[i].look = values
    /\ Previews = {} => picture = values \/ missed

\* A value that a render is due with is that of the form, unless the form has changed since.
Debounced == due => settled \in Looks /\ (timer = Avatar!NoTimer => settled = look)

\* With no timer and no render under way the last value let through is that of the form,
\* and so is the last picture, unless the last value was dropped.
Settled == timer = Avatar!NoTimer /\ ~due /\ ~skipped => passed = look /\ Drawn(look)

AvatarInv == Avatar!TypeOK /\ Debounced /\ Settled

\* A picture is asked for.
LEMMA AskDoes ==
    ASSUME Avatar!TypeOK, NEW l \in Looks, NEW what \in {"preview", "save"},
           avatarCalls' = Avatar!Ask(what, l)
    PROVE /\ avatarCalls' \in Seq(Avatar!Actions)
          /\ what = "preview" => Drawn(l)'
          /\ what = "save" /\ UNCHANGED <<picture, missed>> => \A v : Drawn(v) => Drawn(v)'
<1> DEFINE call == [what |-> what, look |-> l]
<1>1. avatarCalls \in Seq(Avatar!Actions) /\ call \in Avatar!Actions /\ avatarCalls' = Append(avatarCalls, call)
  BY DEF Avatar!TypeOK, Avatar!Actions, Avatar!Ask
<1>2. /\ avatarCalls' \in Seq(Avatar!Actions) /\ Len(avatarCalls) \in Nat
      /\ DOMAIN avatarCalls = 1 .. Len(avatarCalls)
      /\ DOMAIN avatarCalls' = 1 .. Len(avatarCalls) + 1
      /\ avatarCalls'[Len(avatarCalls) + 1] = call
      /\ \A i \in 1 .. Len(avatarCalls) : avatarCalls'[i] = avatarCalls[i]
  BY <1>1, Appended
<1>3. ASSUME what = "preview" PROVE Drawn(l)'
  <2>1. /\ Len(avatarCalls) + 1 \in Previews'
        /\ \A j \in Previews' : j \in Nat /\ j <= Len(avatarCalls) + 1
    BY <1>2, <1>3 DEF Previews
  <2>2. ASSUME NEW i \in Previews', \A j \in Previews' : j <= i PROVE avatarCalls'[i].look = l
    <3>1. i = Len(avatarCalls) + 1
      BY <1>2, <2>1, <2>2
    <3>2. QED
      BY <1>2, <3>1
  <2>3. QED
    BY <2>1, <2>2 DEF Drawn
<1>4. ASSUME what = "save", UNCHANGED <<picture, missed>>, NEW v, Drawn(v) PROVE Drawn(v)'
  <2>1. Previews' = Previews /\ \A i \in Previews : avatarCalls'[i] = avatarCalls[i]
    BY <1>2, <1>4 DEF Previews
  <2>2. QED
    BY <1>4, <2>1 DEF Drawn
<1>5. QED
  BY <1>2, <1>3, <1>4

\* The first action is answered: a picture drawn or missed, or a look saved.
LEMMA AnswerDoes ==
    ASSUME Avatar!TypeOK, avatarCalls # <<>>, avatarCalls' = Tail(avatarCalls), NEW v, Drawn(v),
           \/ /\ Head(avatarCalls).what = "preview"
              /\ picture' = Head(avatarCalls).look \/ missed' = TRUE
           \/ Head(avatarCalls).what = "save" /\ UNCHANGED <<picture, missed>>
    PROVE Drawn(v)'
<1>1. /\ Len(avatarCalls) \in Nat \ {0}
      /\ DOMAIN avatarCalls = 1 .. Len(avatarCalls)
      /\ DOMAIN avatarCalls' = 1 .. Len(avatarCalls) - 1
      /\ Head(avatarCalls) = avatarCalls[1]
      /\ \A i \in 1 .. Len(avatarCalls) - 1 : avatarCalls'[i] = avatarCalls[i + 1]
  BY Shifted DEF Avatar!TypeOK
<1>2. /\ \A i \in Previews' : i \in Nat \ {0} /\ i + 1 \in Previews /\ avatarCalls'[i] = avatarCalls[i + 1]
      /\ \A i \in Previews : i \in Nat \ {0} /\ (i # 1 => i - 1 \in Previews')
  BY <1>1 DEF Previews
<1>3. ASSUME NEW i \in Previews', \A j \in Previews' : j <= i PROVE avatarCalls'[i].look = v
  <2>1. \A j \in Previews : j <= i + 1
    <3> SUFFICES ASSUME NEW j \in Previews PROVE j <= i + 1
      OBVIOUS
    <3>1. CASE j = 1
      BY <1>2, <3>1
    <3>2. CASE j # 1
      BY <1>2, <1>3, <3>2
    <3>3. QED
      BY <3>1, <3>2
  <2>2. QED
    BY <1>2, <2>1 DEF Drawn
<1>4. ASSUME Previews' = {} PROVE picture' = v \/ missed'
  <2>1. CASE Head(avatarCalls).what = "preview"
    <3>1. Previews = {1}
      BY <1>1, <1>2, <1>4, <2>1, SMTT(30) DEF Previews
    <3>2. avatarCalls[1].look = v
      BY <3>1 DEF Drawn
    <3>3. QED
      BY <1>1, <2>1, <3>2
  <2>2. CASE Head(avatarCalls).what = "save"
    <3>1. Previews = {}
      BY <1>1, <1>2, <1>4, <2>2 DEF Previews
    <3>2. QED
      BY <2>2, <3>1 DEF Drawn
  <2>3. QED
    BY <2>1, <2>2
<1>5. QED
  BY <1>3, <1>4 DEF Drawn

\* The form changes, and the debounce starts again.
LEMMA ChangeKeeps ==
    ASSUME DelayAssumption, AvatarInv, Avatar!Choose \/ Avatar!Swatch \/ Avatar!Roll
    PROVE AvatarInv'
<1>1. PICK l \in Looks : Avatar!Change(l) /\ (avatarCalls' = avatarCalls \/ avatarCalls' = Avatar!Ask("preview", l))
  BY DEF Avatar!Choose, Avatar!Swatch, Avatar!Roll
<1>2. /\ look' = l /\ timer' = Delay /\ timer' # Avatar!NoTimer /\ Avatar!NoTimer = Delay + 1
      /\ picks' = picks + 1
      /\ UNCHANGED <<settled, passed, rest, due, picture, avatar, missed, skipped>>
  BY <1>1 DEF Avatar!Change, Avatar!NoTimer, DelayAssumption
<1>3. avatarCalls' \in Seq(Avatar!Actions)
  BY <1>1, AskDoes DEF AvatarInv, Avatar!TypeOK
<1>4. Avatar!TypeOK'
  BY <1>2, <1>3 DEF AvatarInv, Avatar!TypeOK, DelayAssumption
<1>5. Debounced' /\ Settled'
  BY <1>2 DEF AvatarInv, Debounced, Settled
<1>6. QED
  BY <1>4, <1>5 DEF AvatarInv

\* The form is saved.
LEMMA SaveAskedKeeps ==
    ASSUME AvatarInv, Avatar!Submit
    PROVE AvatarInv'
<1>1. /\ avatarCalls' = Avatar!Ask("save", look) /\ picks' = picks + 1 /\ look \in Looks
      /\ UNCHANGED <<look, settled, passed, timer, rest, due, picture, avatar, missed, skipped>>
  BY DEF Avatar!Submit, AvatarInv, Avatar!TypeOK
<1>2. avatarCalls' \in Seq(Avatar!Actions) /\ \A v : Drawn(v) => Drawn(v)'
  BY <1>1, AskDoes DEF AvatarInv
<1>3. Avatar!TypeOK'
  BY <1>1, <1>2 DEF AvatarInv, Avatar!TypeOK
<1>4. Debounced' /\ Settled'
  BY <1>1, <1>2 DEF AvatarInv, Debounced, Settled
<1>5. QED
  BY <1>3, <1>4 DEF AvatarInv

\* A timer fires, or time passes.
LEMMA TimeKeeps ==
    ASSUME DelayAssumption, AvatarInv, Avatar!Settle \/ Avatar!Tick
    PROVE AvatarInv'
<1>1. CASE Avatar!Settle
  BY <1>1 DEF Avatar!Settle, AvatarInv, Avatar!TypeOK, Debounced, Settled, DelayAssumption, Avatar!NoTimer
<1>2. CASE Avatar!Tick
  <2>1. UNCHANGED <<look, settled, passed, due, avatarCalls, picture, avatar, missed, skipped, picks>>
    BY <1>2 DEF Avatar!Tick
  <2>2. /\ timer' \in 0 .. Avatar!NoTimer /\ rest' \in 0 .. Delay
        /\ timer' = Avatar!NoTimer <=> timer = Avatar!NoTimer
    BY <1>2 DEF Avatar!Tick, AvatarInv, Avatar!TypeOK, DelayAssumption, Avatar!NoTimer
  <2>3. Avatar!TypeOK'
    BY <2>1, <2>2 DEF AvatarInv, Avatar!TypeOK, Avatar!NoTimer
  <2>4. Debounced' /\ Settled'
    BY <2>1, <2>2 DEF AvatarInv, Debounced, Settled, Drawn, Previews, Avatar!NoTimer
  <2>5. QED
    BY <2>3, <2>4 DEF AvatarInv
<1>3. QED
  BY <1>1, <1>2

\* The throttle lets a value through, which is drawn, or drops it.
LEMMA ThrottleKeeps ==
    ASSUME DelayAssumption, AvatarInv, Avatar!Throttle
    PROVE AvatarInv'
<1>1. /\ due /\ due' = FALSE /\ settled \in Looks
      /\ UNCHANGED <<look, settled, timer, picture, avatar, missed, picks>>
  BY DEF Avatar!Throttle, AvatarInv, Debounced
<1>2. CASE rest >= Delay
  <2>1. /\ passed' = settled /\ rest' = 0 /\ skipped' = FALSE
        /\ avatarCalls' = Avatar!Ask("preview", settled)
    BY <1>2 DEF Avatar!Throttle
  <2>2. avatarCalls' \in Seq(Avatar!Actions) /\ Drawn(settled)'
    BY <1>1, <2>1, AskDoes DEF AvatarInv
  <2>3. Avatar!TypeOK'
    <3>1. 0 \in 0 .. Delay
      BY DEF DelayAssumption
    <3>2. QED
      BY <1>1, <2>1, <2>2, <3>1 DEF AvatarInv, Avatar!TypeOK, Avatar!NoTimer
  <2>4. Debounced' /\ Settled'
    BY <1>1, <2>1, <2>2 DEF AvatarInv, Debounced, Settled, Drawn
  <2>5. QED
    BY <2>3, <2>4 DEF AvatarInv
<1>3. CASE ~(rest >= Delay)
  <2>1. skipped' = TRUE /\ UNCHANGED <<passed, rest, avatarCalls>>
    BY <1>3 DEF Avatar!Throttle
  <2>2. QED
    BY <1>1, <2>1 DEF AvatarInv, Avatar!TypeOK, Debounced, Settled
<1>4. QED
  BY <1>2, <1>3

\* A picture or a save is answered.
LEMMA AvatarAnswered ==
    ASSUME AvatarInv, Avatar!Draw \/ Avatar!Save
    PROVE AvatarInv'
<1>1. /\ avatarCalls # <<>> /\ avatarCalls' = Tail(avatarCalls)
      /\ UNCHANGED <<look, settled, passed, timer, rest, due, skipped, picks>>
  BY DEF Avatar!Draw, Avatar!Save
<1>2. /\ avatarCalls' \in Seq(Avatar!Actions)
      /\ Head(avatarCalls) \in Avatar!Actions /\ Head(avatarCalls).look \in Looks
  <2>1. avatarCalls \in Seq(Avatar!Actions)
    BY DEF AvatarInv, Avatar!TypeOK
  <2>2. avatarCalls' \in Seq(Avatar!Actions) /\ Head(avatarCalls) \in Avatar!Actions
    BY <1>1, <2>1, Shifted
  <2>3. QED
    BY <2>2 DEF Avatar!Actions
<1>3. /\ \/ /\ Head(avatarCalls).what = "preview" /\ avatar' = avatar
            /\ \/ picture' = Head(avatarCalls).look /\ missed' = FALSE
               \/ picture' = picture /\ missed' = TRUE
         \/ /\ Head(avatarCalls).what = "save" /\ UNCHANGED <<picture, missed>>
            /\ avatar' \in {avatar, Head(avatarCalls).look}
  BY DEF Avatar!Draw, Avatar!Save
<1>4. Avatar!TypeOK'
  BY <1>1, <1>2, <1>3 DEF AvatarInv, Avatar!TypeOK
<1>5. Drawn(look) => Drawn(look)'
  BY <1>1, <1>3, AnswerDoes DEF AvatarInv
<1>6. Debounced' /\ Settled'
  BY <1>1, <1>5 DEF AvatarInv, Debounced, Settled, Drawn
<1>7. QED
  BY <1>4, <1>6 DEF AvatarInv

\* The editor is mounted with its debounce under way.
LEMMA AvatarBegins ==
    ASSUME DelayAssumption, Avatar!Init
    PROVE AvatarInv
<1>1. /\ look \in Looks /\ settled = NoLook /\ passed = NoLook /\ timer = Delay /\ rest = 0
      /\ due = FALSE /\ picture = NoLook /\ avatar = NoLook /\ missed = FALSE
      /\ skipped = FALSE /\ picks = 0 /\ avatarCalls = <<[what |-> "preview", look |-> look]>>
  BY DEF Avatar!Init
<1>2. avatarCalls \in Seq(Avatar!Actions)
  BY <1>1 DEF Avatar!Actions
<1>3. Avatar!TypeOK
  <2>1. 0 \in 0 .. Delay /\ Delay \in 0 .. Avatar!NoTimer
    BY DEF DelayAssumption, Avatar!NoTimer
  <2>2. QED
    BY <1>1, <1>2, <2>1 DEF Avatar!TypeOK
<1>4. Debounced /\ Settled
  BY <1>1 DEF Debounced, Settled, Avatar!NoTimer, DelayAssumption
<1>5. QED
  BY <1>3, <1>4 DEF AvatarInv

\* Every step of the editor keeps what is said of it.
LEMMA AvatarStep ==
    ASSUME DelayAssumption, AvatarInv, Avatar!Next
    PROVE AvatarInv'
BY ChangeKeeps, SaveAskedKeeps, TimeKeeps, ThrottleKeeps, AvatarAnswered DEF Avatar!Next

\* And so does an editor that stays as it is.
LEMMA AvatarStays ==
    ASSUME AvatarInv, UNCHANGED avatarVars
    PROVE AvatarInv'
BY DEF avatarVars, AvatarInv, Avatar!TypeOK, Debounced, Settled, Drawn, Previews

\* The editor is what it should be in every state of every behaviour.
THEOREM AvatarInvariant == Spec => []AvatarInv
<1>1. Init => AvatarInv
  BY DelayAssumption, AvatarBegins DEF Init
<1>2. AvatarInv /\ [Next]_vars => AvatarInv'
  BY DelayAssumption, AvatarStep, AvatarStays DEF Next, vars
<1>3. QED
  BY <1>1, <1>2, PTL DEF Spec

\* The picture settles on the form's values, for any of them and any delay
\* (PreviewSettles).
THEOREM PictureSettles == Spec => []PreviewSettles
<1>1. AvatarInv => PreviewSettles
  <2> SUFFICES ASSUME AvatarInv, timer = Avatar!NoTimer, ~due, avatarCalls = <<>>, ~skipped
               PROVE ~Avatar!Spinning /\ (picture = look \/ missed)
    BY DEF AvatarInv, PreviewSettles, Avatar!PreviewSettles
  <2>1. Previews = {}
    <3>1. avatarCalls \in Seq({}) /\ Len(avatarCalls) = 0
      BY EmptySeq
    <3>2. QED
      BY <3>1 DEF Previews
  <2>2. passed = look /\ Drawn(look)
    BY DEF AvatarInv, Settled
  <2>3. QED
    BY <2>1, <2>2 DEF Avatar!Spinning, Drawn
<1>2. QED
  BY <1>1, AvatarInvariant, PTL

-----------------------------------------------------------------------------
(* The companies and the watchlist. *)

\* What is stored, what the administrator's page holds, what the user's does, and the calls.
StoreTyped ==
    /\ inserted \in Firms!CompanyIds /\ DOMAIN companies \subseteq 1 .. inserted
    /\ companies \in [DOMAIN companies -> Firms!Stored] /\ applied \subseteq DOMAIN companies
    /\ DOMAIN watched \subseteq DOMAIN companies /\ watched \in [DOMAIN watched -> Firms!Urls]
ListTyped == DOMAIN list \subseteq Firms!CompanyIds /\ list \in [DOMAIN list -> Firms!Rows]
PageTyped ==
    /\ ListTyped /\ blind \in BOOLEAN /\ firmUrl \in Firms!Places
    /\ firmOpen \in Firms!CompanyIds \union {Shut} /\ firmForm \in Firms!Forms \union {Shut}
CardsTyped ==
    /\ DOMAIN cards \subseteq Firms!CompanyIds /\ cards \in [DOMAIN cards -> Firms!Cards]
    /\ stale \in BOOLEAN
CallsTyped ==
    /\ errands \in Nat /\ restored \in BOOLEAN
    /\ admin \in Seq(Firms!AdminCalls) /\ user \in Seq(Firms!UserCalls)

\* No two companies have one name, however it is spelled.
Distinct ==
    \A c, d \in DOMAIN companies :
        Firms!Fold(companies[c].name) = Firms!Fold(companies[d].name) => c = d

\* The companies whose status is being changed, what a fetch answers of one, and whether the
\* list is to be fetched anew.
Deciding == {admin[i].id : i \in {j \in DOMAIN admin : admin[j].op = "status"}}
Row(c) == [name |-> companies[c].name, status |-> companies[c].status, url |-> companies[c].url]
Behind == \E i \in DOMAIN admin : admin[i].op = "refresh"

\* The list is what is stored of its status and page, but for the changes of status under
\* way; unless it is to be fetched anew, was fetched in vain, was written since, or a failed
\* change of status put back what others had changed.
Vouched ==
    ~restored /\ ~blind /\ ~Behind =>
        /\ DOMAIN list = Firms!OnPage(companies, firmUrl)
        /\ \A c \in DOMAIN list :
              \/ list[c] = Row(c)
              \/ /\ c \in Deciding
                 /\ \E to \in {"APPROVED", "REJECTED"} : list[c] = [Row(c) EXCEPT !.status = to]

\* A change of status that was asked for with no other call under way is the first one, and
\* what it saved of the list is still what is stored.
Alone(i) == admin[i].op = "status" /\ ~admin[i].amid
Restorable ==
    /\ \A i \in DOMAIN admin : Alone(i) => i = 1
    /\ ~restored =>
        \A i \in DOMAIN admin : Alone(i) =>
            admin[i].id \in DOMAIN companies /\ admin[i].previous = Row(admin[i].id)

\* The watchlist shows the companies that are watched and the URLs that are theirs.
Carded == ~stale => [c \in DOMAIN cards |-> cards[c].shown] = Firms!Shown(companies, watched)

FirmsInv ==
    /\ StoreTyped /\ PageTyped /\ CardsTyped /\ CallsTyped
    /\ Distinct /\ Vouched /\ Restorable /\ Carded

\* What a call of the administrator carries, and one of the user.
LEMMA CallsCarry ==
    /\ \A call \in Firms!AdminCalls :
        /\ call.op = "status" =>
            /\ call.id \in Firms!CompanyIds /\ call.to \in {"APPROVED", "REJECTED"}
            /\ call.previous \in Firms!Rows /\ call.amid \in BOOLEAN
        /\ call.op \in {"logo", "update"} =>
            /\ call.id \in Firms!CompanyIds /\ call.name \in Spellings /\ call.url \in Firms!Urls
            /\ call.at \in Firms!Places
            /\ [call EXCEPT !.op = "update"] \in Firms!AdminCalls
            /\ [call EXCEPT !.op = "update"].op = "update"
        /\ call.op \in {"delete", "company"} => call.id \in Firms!CompanyIds
        /\ call.op = "import" => call.rows \in Seq(Spellings)
    /\ [op |-> "refresh"] \in Firms!AdminCalls
    /\ \A call \in Firms!UserCalls :
        /\ call.op \in {"find", "insert"} => call.name \in Spellings
        /\ call.op \in {"fetchLogo", "watch", "unwatch", "override"} => call.id \in Firms!CompanyIds
        /\ call.op = "override" => call.url \in Firms!Urls
        /\ call.op = "fetchLogo" => [call EXCEPT !.op = "watch"] \in Firms!UserCalls
<1>1. ASSUME NEW call \in Firms!AdminCalls, call.op = "status"
      PROVE /\ call.id \in Firms!CompanyIds /\ call.to \in {"APPROVED", "REJECTED"}
            /\ call.previous \in Firms!Rows /\ call.amid \in BOOLEAN
  BY <1>1 DEF Firms!AdminCalls
<1>2. ASSUME NEW call \in Firms!AdminCalls, call.op \in {"logo", "update"}
      PROVE /\ call.id \in Firms!CompanyIds /\ call.name \in Spellings /\ call.url \in Firms!Urls
            /\ call.at \in Firms!Places
            /\ [call EXCEPT !.op = "update"] \in Firms!AdminCalls
            /\ [call EXCEPT !.op = "update"].op = "update"
  BY <1>2 DEF Firms!AdminCalls
<1>3. ASSUME NEW call \in Firms!AdminCalls, call.op \in {"delete", "company"}
      PROVE call.id \in Firms!CompanyIds
  BY <1>3 DEF Firms!AdminCalls
<1>4. ASSUME NEW call \in Firms!AdminCalls, call.op = "import"
      PROVE call.rows \in Seq(Spellings)
  BY <1>4 DEF Firms!AdminCalls
<1>5. ASSUME NEW call \in Firms!UserCalls
      PROVE /\ call.op \in {"find", "insert"} => call.name \in Spellings
            /\ call.op \in {"fetchLogo", "watch", "unwatch", "override"} => call.id \in Firms!CompanyIds
            /\ call.op = "override" => call.url \in Firms!Urls
  BY <1>5 DEF Firms!UserCalls
<1>6. ASSUME NEW call \in Firms!UserCalls, call.op = "fetchLogo"
      PROVE [call EXCEPT !.op = "watch"] \in Firms!UserCalls
  BY <1>6 DEF Firms!UserCalls
<1>7. [op |-> "refresh"] \in Firms!AdminCalls
  BY DEF Firms!AdminCalls
<1>8. QED
  BY <1>1, <1>2, <1>3, <1>4, <1>5, <1>6, <1>7

-----------------------------------------------------------------------------
(* The calls of the administrator. *)

\* A call more that is not a change of status.
LEMMA AdminAsks ==
    ASSUME FirmsInv, NEW call \in Firms!AdminCalls, call.op # "status", admin' = Append(admin, call),
           UNCHANGED <<companies, restored>>
    PROVE /\ admin' \in Seq(Firms!AdminCalls) /\ Restorable'
          /\ Deciding \subseteq Deciding' /\ (Behind => Behind')
<1>1. admin \in Seq(Firms!AdminCalls)
  BY DEF FirmsInv, CallsTyped
<1>2. /\ admin' \in Seq(Firms!AdminCalls) /\ Len(admin) \in Nat
      /\ DOMAIN admin = 1 .. Len(admin) /\ DOMAIN admin' = 1 .. Len(admin) + 1
      /\ admin'[Len(admin) + 1] = call
      /\ \A i \in 1 .. Len(admin) : admin'[i] = admin[i]
  BY <1>1, Appended
<1>3. Deciding \subseteq Deciding' /\ (Behind => Behind')
  BY <1>2 DEF Deciding, Behind
<1>4. Restorable'
  BY <1>2 DEF FirmsInv, Restorable, Alone, Row
<1>5. QED
  BY <1>2, <1>3, <1>4

\* The first call is over. The others were asked for amid it.
LEMMA AdminAnswered ==
    ASSUME FirmsInv, admin # <<>>, admin' = Tail(admin)
    PROVE /\ admin' \in Seq(Firms!AdminCalls) /\ Head(admin) \in Firms!AdminCalls
          /\ Restorable'
          /\ Deciding \subseteq Deciding' \union
                (IF Head(admin).op = "status" THEN {Head(admin).id} ELSE {})
          /\ Head(admin).op # "refresh" => (Behind => Behind')
<1>1. admin \in Seq(Firms!AdminCalls)
  BY DEF FirmsInv, CallsTyped
<1>2. /\ admin' \in Seq(Firms!AdminCalls) /\ Len(admin) \in Nat \ {0}
      /\ DOMAIN admin = 1 .. Len(admin) /\ DOMAIN admin' = 1 .. Len(admin) - 1
      /\ Head(admin) = admin[1] /\ admin[1] \in Firms!AdminCalls
      /\ \A i \in 1 .. Len(admin) - 1 : admin'[i] = admin[i + 1]
  BY <1>1, Shifted
<1>3. \A i \in DOMAIN admin' : ~Alone(i)'
  <2> SUFFICES ASSUME NEW i \in DOMAIN admin', Alone(i)' PROVE FALSE
    OBVIOUS
  <2>1. i + 1 \in DOMAIN admin /\ i + 1 # 1 /\ Alone(i + 1)
    BY <1>2 DEF Alone
  <2>2. QED
    BY <2>1 DEF FirmsInv, Restorable
<1>4. Restorable'
  BY <1>3 DEF Restorable
<1>5. ASSUME NEW j \in DOMAIN admin, j # 1
      PROVE j - 1 \in DOMAIN admin' /\ admin'[j - 1] = admin[j]
  BY <1>2, <1>5
<1>6. ASSUME NEW j \in DOMAIN admin, admin[j].op = "status", j # 1
      PROVE admin[j].id \in Deciding'
  BY <1>5, <1>6 DEF Deciding
<1>7. Head(admin).op # "refresh" => (Behind => Behind')
  BY <1>2, <1>5 DEF Behind
<1>8. QED
  BY <1>2, <1>4, <1>6, <1>7 DEF Deciding

\* The first call becomes another, or one more is asked for as it ends; neither is a change
\* of status.
LEMMA AdminGoesOn ==
    ASSUME FirmsInv, admin # <<>>, Head(admin).op # "status",
           NEW call \in Firms!AdminCalls, call.op # "status",
           \/ admin' = <<call>> \o Tail(admin) \/ admin' = Append(Tail(admin), call)
    PROVE /\ admin' \in Seq(Firms!AdminCalls) /\ Restorable' /\ Deciding \subseteq Deciding'
          /\ Head(admin).op # "refresh" => (Behind => Behind')
          /\ call.op = "refresh" => Behind'
<1> DEFINE n == Len(admin)
<1>1. admin \in Seq(Firms!AdminCalls)
  BY DEF FirmsInv, CallsTyped
<1>2. /\ Tail(admin) \in Seq(Firms!AdminCalls) /\ n \in Nat \ {0} /\ Len(Tail(admin)) = n - 1
      /\ DOMAIN admin = 1 .. n /\ Head(admin) = admin[1]
      /\ DOMAIN Tail(admin) = 1 .. n - 1
      /\ \A i \in 1 .. n - 1 : Tail(admin)[i] = admin[i + 1]
  BY <1>1, Shifted
<1>3. CASE admin' = <<call>> \o Tail(admin)
  <2>1. /\ <<call>> \in Seq(Firms!AdminCalls) /\ Len(<<call>>) = 1 /\ <<call>>[1] = call
    OBVIOUS
  <2>2. admin' \in Seq(Firms!AdminCalls)
    BY <1>2, <1>3, <2>1, ConcatProperties
  <2>3. Len(admin') = n
    BY <1>2, <1>3, <2>1, ConcatProperties
  <2>4. DOMAIN admin' = 1 .. n
    BY <2>2, <2>3
  <2>5. admin'[1] = call /\ \A i \in 2 .. n : admin'[i] = admin[i]
    <3>1. \A i \in 1 .. n : admin'[i] = IF i <= 1 THEN call ELSE Tail(admin)[i - 1]
      BY <1>2, <1>3, <2>1, ConcatProperties
    <3>2. QED
      BY <1>2, <3>1
  <2>6. \A i \in DOMAIN admin' : ~Alone(i)'
    BY <1>2, <2>4, <2>5 DEF Alone, FirmsInv, Restorable
  <2>7. Deciding \subseteq Deciding'
    BY <1>2, <2>4, <2>5 DEF Deciding
  <2>8. Head(admin).op # "refresh" => (Behind => Behind')
    BY <1>2, <2>4, <2>5 DEF Behind
  <2>9. call.op = "refresh" => Behind'
    BY <1>2, <2>4, <2>5 DEF Behind
  <2>10. QED
    BY <2>2, <2>6, <2>7, <2>8, <2>9 DEF Restorable
<1>4. CASE admin' = Append(Tail(admin), call)
  <2>1. /\ admin' \in Seq(Firms!AdminCalls) /\ DOMAIN admin' = 1 .. n /\ admin'[n] = call
        /\ \A i \in 1 .. n - 1 : admin'[i] = admin[i + 1]
    BY <1>2, <1>4, Appended
  <2>2. \A i \in DOMAIN admin' : ~Alone(i)'
    <3> SUFFICES ASSUME NEW i \in DOMAIN admin', Alone(i)' PROVE FALSE
      OBVIOUS
    <3>1. i \in 1 .. n - 1
      BY <1>2, <2>1 DEF Alone
    <3>2. i + 1 \in DOMAIN admin /\ i + 1 # 1 /\ Alone(i + 1)
      BY <1>2, <2>1, <3>1 DEF Alone
    <3>3. QED
      BY <3>2 DEF FirmsInv, Restorable
  <2>3. ASSUME NEW j \in DOMAIN admin, j # 1
        PROVE j - 1 \in DOMAIN admin' /\ admin'[j - 1] = admin[j]
    BY <1>2, <2>1, <2>3
  <2>4. Deciding \subseteq Deciding'
    <3>1. ASSUME NEW j \in DOMAIN admin, admin[j].op = "status" PROVE admin[j].id \in Deciding'
      BY <1>2, <2>3, <3>1 DEF Deciding
    <3>2. QED
      BY <3>1 DEF Deciding
  <2>5. Head(admin).op # "refresh" => (Behind => Behind')
    BY <1>2, <2>3 DEF Behind
  <2>6. call.op = "refresh" => Behind'
    BY <1>2, <2>1 DEF Behind
  <2>7. QED
    BY <2>1, <2>2, <2>4, <2>5, <2>6 DEF Restorable
<1>5. QED
  BY <1>3, <1>4

\* A refresh is asked for as the first call ends: until it comes nothing is said of the list.
LEMMA AdminRefreshes ==
    ASSUME FirmsInv, admin # <<>>, Head(admin).op # "status", Firms!Refreshing
    PROVE admin' \in Seq(Firms!AdminCalls) /\ Restorable' /\ Vouched'
<1> DEFINE call == [op |-> "refresh"]
<1>1. call \in Firms!AdminCalls /\ call.op = "refresh" /\ admin' = Append(Tail(admin), call)
  BY CallsCarry DEF Firms!Refreshing
<1> HIDE DEF call
<1>2. admin' \in Seq(Firms!AdminCalls) /\ Restorable' /\ Behind'
  BY <1>1, AdminGoesOn
<1>3. QED
  BY <1>2 DEF Vouched

-----------------------------------------------------------------------------
(* What is stored, and what is shown of it. *)

\* The ids of what is stored are among those that are ever given.
LEMMA StoredTyped ==
    ASSUME StoreTyped
    PROVE /\ companies \in [DOMAIN companies -> Firms!Stored]
          /\ DOMAIN companies \subseteq Firms!CompanyIds
<1>1. inserted \in 1 .. MaxCompanies /\ DOMAIN companies \subseteq 1 .. inserted
  BY DEF StoreTyped, Firms!CompanyIds
<1>2. 1 .. inserted \subseteq 1 .. MaxCompanies
  BY <1>1, CompaniesAssumption
<1>3. QED
  BY <1>1, <1>2 DEF StoreTyped, Firms!CompanyIds

\* The companies as a page lists them have names, statuses and URLs.
LEMMA ListedTyped ==
    ASSUME NEW f, f \in [DOMAIN f -> Firms!Stored], NEW p
    PROVE /\ DOMAIN Firms!Listed(f, p) = Firms!OnPage(f, p) /\ Firms!OnPage(f, p) \subseteq DOMAIN f
          /\ Firms!Listed(f, p) \in [Firms!OnPage(f, p) -> Firms!Rows]
          /\ \A c \in Firms!OnPage(f, p) : Firms!Listed(f, p)[c] =
                [name |-> f[c].name, status |-> f[c].status, url |-> f[c].url]
<1>1. Firms!OnPage(f, p) \subseteq DOMAIN f
  BY DEF Firms!OnPage
<1>2. QED
  BY <1>1 DEF Firms!Listed, Firms!Stored, Firms!Rows

\* A page has the same companies as long as they have the same statuses.
LEMMA OnPageSame ==
    ASSUME NEW f, NEW g, DOMAIN f = DOMAIN g, \A c \in DOMAIN f : f[c].status = g[c].status, NEW p
    PROVE Firms!OnPage(f, p) = Firms!OnPage(g, p)
<1>1. {c \in DOMAIN f : f[c].status = p.status} = {c \in DOMAIN g : g[c].status = p.status}
  OBVIOUS
<1>2. QED
  BY <1>1 DEF Firms!OnPage

\* The URLs shown are URLs.
LEMMA ShownTyped ==
    ASSUME NEW f, f \in [DOMAIN f -> Firms!Stored], NEW g, g \in [DOMAIN g -> Firms!Urls],
           DOMAIN g \subseteq DOMAIN f
    PROVE /\ DOMAIN Firms!Shown(f, g) = DOMAIN g
          /\ Firms!Shown(f, g) \in [DOMAIN g -> Firms!Urls]
BY DEF Firms!Shown, Firms!Stored

\* They are the same as long as the companies watched have the same URLs.
LEMMA ShownSame ==
    ASSUME NEW f, NEW g, NEW h, \A c \in DOMAIN h : f[c].url = g[c].url
    PROVE Firms!Shown(f, h) = Firms!Shown(g, h)
BY DEF Firms!Shown

\* The page goes somewhere and is rendered: the list is what is stored, or was fetched in vain.
LEMMA PageGoes ==
    ASSUME FirmsInv, NEW to \in Firms!Places, NEW id \in Firms!CompanyIds \union {Shut},
           Firms!Goes(to, id), StoreTyped'
    PROVE PageTyped' /\ Vouched'
<1>1. /\ firmUrl' = to /\ firmOpen' = id
      /\ list' = Firms!Listed(companies', firmUrl') \/ list' = <<>>
      /\ blind' = (list' # Firms!Listed(companies', firmUrl'))
      /\ firmForm' = IF firmOpen' \notin DOMAIN list' THEN Shut
                     ELSE IF firmForm # Shut THEN firmForm
                     ELSE [id |-> firmOpen', name |-> list'[firmOpen'].name,
                           url |-> list'[firmOpen'].url, saving |-> 0]
  BY DEF Firms!Goes, Firms!Rendered
<1> DEFINE listed == Firms!Listed(companies', firmUrl')
           shown == Firms!OnPage(companies', firmUrl')
<1>2. companies' \in [DOMAIN companies' -> Firms!Stored] /\ DOMAIN companies' \subseteq Firms!CompanyIds
  <2>1. StoreTyped' => /\ companies' \in [DOMAIN companies' -> Firms!Stored]
                       /\ inserted' \in 1 .. MaxCompanies /\ DOMAIN companies' \subseteq 1 .. inserted'
    BY DEF StoreTyped, Firms!CompanyIds
  <2>2. inserted' \in 1 .. MaxCompanies => 1 .. inserted' \subseteq 1 .. MaxCompanies
    BY CompaniesAssumption
  <2>3. QED
    BY <2>1, <2>2 DEF Firms!CompanyIds
<1>3. /\ DOMAIN listed = shown /\ shown \subseteq DOMAIN companies'
      /\ listed \in [shown -> Firms!Rows]
      /\ \A c \in shown : listed[c] = Row(c)'
  BY <1>2, ListedTyped DEF Row
<1> HIDE DEF listed, shown
<1>4. ListTyped'
  <2>1. CASE list' = listed
    BY <1>2, <1>3, <2>1 DEF ListTyped
  <2>2. CASE list' = <<>>
    <3>1. list' \in Seq({}) /\ Len(list') = 0
      BY <2>2, EmptySeq
    <3>2. DOMAIN list' = {}
      BY <3>1
    <3>3. QED
      BY <3>1, <3>2 DEF ListTyped
  <2>3. QED
    BY <1>1, <2>1, <2>2 DEF listed
<1>5. firmForm' \in Firms!Forms \union {Shut}
  <2>1. CASE firmOpen' \in DOMAIN list' /\ firmForm = Shut
    <3>1. firmOpen' \in Firms!CompanyIds /\ list'[firmOpen'] \in Firms!Rows
      BY <1>4, <2>1 DEF ListTyped
    <3>2. QED
      BY <1>1, <2>1, <3>1 DEF Firms!Forms, Firms!Rows
  <2>2. CASE ~(firmOpen' \in DOMAIN list' /\ firmForm = Shut)
    BY <1>1, <2>2 DEF FirmsInv, PageTyped
  <2>3. QED
    BY <2>1, <2>2
<1>6. Vouched'
  BY <1>1, <1>3 DEF Vouched, listed, shown
<1>7. QED
  BY <1>1, <1>4, <1>5, <1>6 DEF PageTyped

\* The page stays as it is, and so does what is stored of it.
LEMMA ListKept ==
    ASSUME FirmsInv, DOMAIN companies' = DOMAIN companies,
           \A c \in DOMAIN companies : Row(c)' = Row(c),
           UNCHANGED <<firmUrl, list, restored, blind>>,
           Deciding \subseteq Deciding', Behind => Behind'
    PROVE Vouched'
<1>1. \A c \in DOMAIN companies : companies'[c].status = companies[c].status
  BY DEF Row
<1>2. Firms!OnPage(companies', firmUrl') = Firms!OnPage(companies, firmUrl)
  BY <1>1, OnPageSame
<1>3. Firms!OnPage(companies, firmUrl) \subseteq DOMAIN companies
  BY DEF Firms!OnPage
<1>4. QED
  BY <1>2, <1>3 DEF FirmsInv, Vouched

\* What is not shown of what was stored is owned up to.
LEMMA ListUnheard ==
    ASSUME FirmsInv, blind' = Firms!Unheard, UNCHANGED <<firmUrl, list, restored>>,
           Deciding \subseteq Deciding', Behind => Behind'
    PROVE Vouched' /\ blind' \in BOOLEAN
<1>1. blind' \in BOOLEAN
  BY DEF Firms!Unheard, FirmsInv, PageTyped
<1>2. CASE companies' = companies
  <2>1. blind' = blind
    BY <1>2 DEF Firms!Unheard, FirmsInv, PageTyped
  <2>2. \A c \in DOMAIN companies : Row(c)' = Row(c)
    BY <1>2 DEF Row
  <2>3. QED
    BY <1>1, <1>2, <2>1, <2>2, ListKept
<1>3. CASE companies' # companies
  BY <1>1, <1>3 DEF Firms!Unheard, Vouched
<1>4. QED
  BY <1>2, <1>3

\* The administrator's calls stay as they are, and so do the companies there were.
LEMMA CallsStay ==
    ASSUME FirmsInv, UNCHANGED <<admin, restored>>, DOMAIN companies \subseteq DOMAIN companies',
           \A c \in DOMAIN companies : Row(c)' = Row(c)
    PROVE Restorable' /\ Deciding \subseteq Deciding' /\ (Behind => Behind')
BY DEF FirmsInv, Restorable, Alone, Deciding, Behind

\* A form that is still there is sent, or its save is over.
LEMMA FormSaved ==
    ASSUME FirmsInv, Firms!Saved
    PROVE firmForm' \in Firms!Forms \union {Shut}
BY DEF FirmsInv, PageTyped, Firms!Saved, Firms!Forms

\* The cards are rendered: they show what is stored.
LEMMA CardsRendered ==
    ASSUME FirmsInv, Firms!RenderCards, companies' \in [DOMAIN companies' -> Firms!Stored],
           DOMAIN companies' \subseteq Firms!CompanyIds,
           watched' \in [DOMAIN watched' -> Firms!Urls], DOMAIN watched' \subseteq DOMAIN companies'
    PROVE CardsTyped' /\ Carded'
<1> DEFINE shown == Firms!Shown(companies', watched')
<1>1. /\ stale' = FALSE
      /\ cards' = [c \in DOMAIN shown |->
                    [shown |-> shown[c],
                     typed |-> IF c \in DOMAIN cards THEN cards[c].typed ELSE shown[c]]]
  BY DEF Firms!RenderCards
<1>2. DOMAIN shown = DOMAIN watched' /\ shown \in [DOMAIN watched' -> Firms!Urls]
  BY ShownTyped
<1>3. cards \in [DOMAIN cards -> Firms!Cards]
  BY DEF FirmsInv, CardsTyped
<1> HIDE DEF shown
<1>4. \A c \in DOMAIN shown :
        [shown |-> shown[c], typed |-> IF c \in DOMAIN cards THEN cards[c].typed ELSE shown[c]]
            \in Firms!Cards
  BY <1>2, <1>3 DEF Firms!Cards
<1>5. DOMAIN cards' = DOMAIN shown /\ cards' \in [DOMAIN cards' -> Firms!Cards]
  BY <1>1, <1>4
<1>6. \A c \in DOMAIN cards' : cards'[c].shown = shown[c]
  BY <1>1, <1>5
<1>7. [c \in DOMAIN cards' |-> cards'[c].shown] = shown
  BY <1>2, <1>5, <1>6
<1>8. Carded'
  BY <1>7 DEF Carded, shown
<1>9. QED
  BY <1>1, <1>2, <1>5, <1>8 DEF CardsTyped

\* The cards stay as they are, and what is stored of them does too, or is owned up to.
LEMMA CardsStay ==
    ASSUME FirmsInv, UNCHANGED cards,
           \/ Firms!Elsewhere
           \/ /\ stale' = stale
              /\ Firms!Shown(companies', watched') = Firms!Shown(companies, watched)
    PROVE CardsTyped' /\ Carded'
<1>1. CASE Firms!Elsewhere
  <2>1. stale' = (stale \/ Firms!Shown(companies', watched') # Firms!Shown(companies, watched))
    BY <1>1 DEF Firms!Elsewhere
  <2>2. stale' \in BOOLEAN
    BY <2>1 DEF FirmsInv, CardsTyped
  <2>3. Carded'
    BY <2>1 DEF FirmsInv, Carded, CardsTyped
  <2>4. QED
    BY <2>2, <2>3 DEF FirmsInv, CardsTyped
<1>2. CASE stale' = stale /\ Firms!Shown(companies', watched') = Firms!Shown(companies, watched)
  BY <1>2 DEF FirmsInv, Carded, CardsTyped
<1>3. QED
  BY <1>1, <1>2

\* What is stored stays as it is.
LEMMA StoredStays ==
    ASSUME FirmsInv, UNCHANGED <<companies, watched, inserted>>, applied' \subseteq DOMAIN companies
    PROVE /\ StoreTyped' /\ Distinct' /\ \A c \in DOMAIN companies : Row(c)' = Row(c)
          /\ UNCHANGED <<cards, stale>> => CardsTyped' /\ Carded'
          /\ UNCHANGED <<admin, restored>> =>
                Restorable' /\ Deciding \subseteq Deciding' /\ (Behind => Behind')
<1>1. StoreTyped' /\ Distinct'
  BY DEF FirmsInv, Distinct, StoreTyped
<1>2. \A c \in DOMAIN companies : Row(c)' = Row(c)
  BY DEF Row
<1>3. UNCHANGED <<cards, stale>> => CardsTyped' /\ Carded'
  BY CardsStay
<1>4. UNCHANGED <<admin, restored>> =>
        Restorable' /\ Deciding \subseteq Deciding' /\ (Behind => Behind')
  BY <1>2, CallsStay
<1>5. QED
  BY <1>1, <1>2, <1>3, <1>4

-----------------------------------------------------------------------------
(* What the administrator and the user ask for. *)

\* The page, the dialog or what is typed in it changes.
LEMMA PageKeeps ==
    ASSUME FirmsInv,
           \/ Firms!ChangeStatus \/ Firms!ChangePage \/ Firms!OpenDialog \/ Firms!CloseDialog
           \/ Firms!TypeName \/ Firms!TypeUrl
    PROVE FirmsInv'
<1>1. /\ UNCHANGED <<companies, applied, watched, cards, admin, user, inserted, restored, stale>>
      /\ errands' \in {errands, errands + 1}
  BY DEF Firms!ChangeStatus, Firms!ChangePage, Firms!OpenDialog, Firms!CloseDialog, Firms!TypeName,
         Firms!TypeUrl, Firms!Act, Firms!Task, Firms!Untouched, Firms!database
<1>2. /\ StoreTyped' /\ Distinct' /\ \A c \in DOMAIN companies : Row(c)' = Row(c)
      /\ CardsTyped' /\ Carded' /\ Restorable' /\ Deciding \subseteq Deciding' /\ (Behind => Behind')
  BY <1>1, StoredStays DEF FirmsInv, StoreTyped
<1>3. CallsTyped'
  BY <1>1 DEF FirmsInv, CallsTyped
<1>4. ASSUME NEW to \in Firms!Places, NEW id \in Firms!CompanyIds \union {Shut}, Firms!Goes(to, id)
      PROVE PageTyped' /\ Vouched'
  BY <1>2, <1>4, PageGoes
<1>5. ASSUME UNCHANGED <<firmUrl, list, firmOpen, blind>>, firmForm' \in Firms!Forms
      PROVE PageTyped' /\ Vouched'
  <2>1. Vouched'
    BY <1>1, <1>2, <1>5, ListKept
  <2>2. QED
    BY <1>5, <2>1 DEF FirmsInv, PageTyped, ListTyped
<1>6. firmUrl \in Firms!Places /\ MaxCompanies \in Nat \ {0}
  BY CompaniesAssumption DEF FirmsInv, PageTyped
<1>7. PageTyped' /\ Vouched'
  <2>1. CASE Firms!ChangeStatus
    <3>1. PICK status \in Firms!CompanyStatuses : Firms!Goes([status |-> status, page |-> 1], Shut)
      BY <2>1 DEF Firms!ChangeStatus
    <3>2. [status |-> status, page |-> 1] \in Firms!Places
      BY <1>6 DEF Firms!Places
    <3>3. QED
      BY <1>4, <3>1, <3>2
  <2>2. CASE Firms!ChangePage
    <3>1. PICK i \in 1 .. MaxCompanies : Firms!Goes([firmUrl EXCEPT !.page = i], Shut)
      BY <2>2 DEF Firms!ChangePage
    <3>2. [firmUrl EXCEPT !.page = i] \in Firms!Places
      BY <1>6 DEF Firms!Places
    <3>3. QED
      BY <1>4, <3>1, <3>2
  <2>3. CASE Firms!OpenDialog
    <3>1. PICK c \in DOMAIN list : Firms!Goes(firmUrl, c)
      BY <2>3 DEF Firms!OpenDialog
    <3>2. c \in Firms!CompanyIds
      BY DEF FirmsInv, PageTyped, ListTyped
    <3>3. QED
      BY <1>4, <1>6, <3>1, <3>2
  <2>4. CASE Firms!CloseDialog
    BY <1>4, <1>6, <2>4 DEF Firms!CloseDialog
  <2>5. CASE Firms!TypeName
    <3>1. PICK n \in Spellings : firmForm' = [firmForm EXCEPT !.name = n]
      BY <2>5 DEF Firms!TypeName
    <3>2. firmForm \in Firms!Forms
      BY <2>5 DEF Firms!TypeName, FirmsInv, PageTyped
    <3>3. firmForm' \in Firms!Forms
      BY <3>1, <3>2 DEF Firms!Forms
    <3>4. QED
      BY <1>5, <2>5, <3>3 DEF Firms!TypeName
  <2>6. CASE Firms!TypeUrl
    <3>1. PICK u \in {"", "new"} : firmForm' = [firmForm EXCEPT !.url = u]
      BY <2>6 DEF Firms!TypeUrl
    <3>2. firmForm \in Firms!Forms /\ u \in Firms!Urls
      BY <2>6 DEF Firms!TypeUrl, FirmsInv, PageTyped, Firms!Urls
    <3>3. firmForm' \in Firms!Forms
      BY <3>1, <3>2 DEF Firms!Forms
    <3>4. QED
      BY <1>5, <2>6, <3>3 DEF Firms!TypeUrl
  <2>7. QED
    BY <2>1, <2>2, <2>3, <2>4, <2>5, <2>6
<1>8. QED
  BY <1>2, <1>3, <1>7 DEF FirmsInv

\* A change, a deletion or an import is asked for.
LEMMA AdminAskKeeps ==
    ASSUME FirmsInv, Firms!Submit \/ Firms!Delete \/ Firms!Import
    PROVE FirmsInv'
<1>1. /\ UNCHANGED <<companies, applied, watched, cards, user, inserted, restored, stale>>
      /\ errands' = errands + 1
  BY DEF Firms!Submit, Firms!Delete, Firms!Import, Firms!Act, Firms!Task, Firms!Untouched,
         Firms!database
<1>2. /\ StoreTyped' /\ Distinct' /\ \A c \in DOMAIN companies : Row(c)' = Row(c)
      /\ CardsTyped' /\ Carded'
  BY <1>1, StoredStays DEF FirmsInv, StoreTyped
<1>3. errands' \in Nat
  BY <1>1 DEF FirmsInv, CallsTyped
<1>4. \E call \in Firms!AdminCalls : call.op # "status" /\ admin' = Append(admin, call)
  <2>1. CASE Firms!Submit
    <3>1. PICK op \in {"logo", "update"} :
             admin' = Append(admin, [op |-> op, id |-> firmForm.id, name |-> firmForm.name,
                                     url |-> firmForm.url, at |-> firmUrl, by |-> errands'])
      BY <2>1 DEF Firms!Submit
    <3>2. firmForm \in Firms!Forms /\ firmUrl \in Firms!Places
      BY <2>1 DEF Firms!Submit, FirmsInv, PageTyped
    <3> DEFINE call == [op |-> op, id |-> firmForm.id, name |-> firmForm.name,
                        url |-> firmForm.url, at |-> firmUrl, by |-> errands']
    <3>3. call \in [op : {"logo", "update"}, id : Firms!CompanyIds, name : Spellings, url : Firms!Urls,
                    at : Firms!Places, by : Nat]
      BY <1>3, <3>2 DEF Firms!Forms
    <3>4. call \in Firms!AdminCalls /\ call.op # "status"
      BY <3>3 DEF Firms!AdminCalls
    <3>5. QED
      BY <3>1, <3>4
  <2>2. CASE Firms!Delete
    <3> DEFINE call == [op |-> "delete", id |-> firmForm.id]
    <3>1. admin' = Append(admin, call)
      BY <2>2 DEF Firms!Delete
    <3>2. firmForm \in Firms!Forms
      BY <2>2 DEF Firms!Delete, FirmsInv, PageTyped
    <3>3. call \in [op : {"delete", "company"}, id : Firms!CompanyIds]
      BY <3>2 DEF Firms!Forms
    <3>4. call \in Firms!AdminCalls /\ call.op # "status"
      BY <3>3 DEF Firms!AdminCalls
    <3>5. QED
      BY <3>1, <3>4
  <2>3. CASE Firms!Import
    <3>1. PICK n \in Spellings : \E m \in Spellings \ {n} :
             admin' = Append(admin, [op |-> "import", rows |-> <<n, m>>])
      BY <2>3 DEF Firms!Import
    <3>2. PICK m \in Spellings : admin' = Append(admin, [op |-> "import", rows |-> <<n, m>>])
      BY <3>1
    <3> DEFINE call == [op |-> "import", rows |-> <<n, m>>]
    <3>3. call \in [op : {"import"}, rows : Seq(Spellings)]
      OBVIOUS
    <3>4. call \in Firms!AdminCalls /\ call.op # "status"
      BY <3>3 DEF Firms!AdminCalls
    <3>5. QED
      BY <3>2, <3>4
  <2>4. QED
    BY <2>1, <2>2, <2>3
<1>5. /\ admin' \in Seq(Firms!AdminCalls) /\ Restorable'
      /\ Deciding \subseteq Deciding' /\ (Behind => Behind')
  BY <1>1, <1>4, AdminAsks
<1>6. CallsTyped'
  BY <1>1, <1>3, <1>5 DEF FirmsInv, CallsTyped
<1>7. PageTyped' /\ Vouched'
  <2>1. CASE Firms!Submit
    <3>1. UNCHANGED <<firmUrl, list, firmOpen, blind>> /\ firmForm' = [firmForm EXCEPT !.saving = errands']
      BY <2>1 DEF Firms!Submit
    <3>2. firmForm' \in Firms!Forms
      BY <1>3, <2>1, <3>1 DEF Firms!Submit, FirmsInv, PageTyped, Firms!Forms
    <3>3. Vouched'
      BY <1>1, <1>2, <1>5, <3>1, ListKept
    <3>4. QED
      BY <3>1, <3>2, <3>3 DEF FirmsInv, PageTyped, ListTyped
  <2>2. CASE Firms!Delete
    BY <1>2, <2>2, PageGoes DEF Firms!Delete, FirmsInv, PageTyped
  <2>3. CASE Firms!Import
    <3>1. UNCHANGED <<firmUrl, list, firmOpen, firmForm, blind>>
      BY <2>3 DEF Firms!Import, Firms!PageStays
    <3>2. Vouched'
      BY <1>1, <1>2, <1>5, <3>1, ListKept
    <3>3. QED
      BY <3>1, <3>2 DEF FirmsInv, PageTyped, ListTyped
  <2>4. QED
    BY <2>1, <2>2, <2>3
<1>8. QED
  BY <1>2, <1>5, <1>6, <1>7 DEF FirmsInv

\* A pending company is accepted or rejected at once in the list.
LEMMA DecisionKeeps ==
    ASSUME FirmsInv, Firms!UpdateStatus
    PROVE FirmsInv'
<1>1. PICK c \in DOMAIN list, to \in {"APPROVED", "REJECTED"} :
        /\ list' = [list EXCEPT ![c].status = to]
        /\ admin' = Append(admin, [op |-> "status", id |-> c, to |-> to, previous |-> list[c],
                                   amid |-> admin # <<>> \/ blind])
  BY DEF Firms!UpdateStatus
<1> DEFINE call == [op |-> "status", id |-> c, to |-> to, previous |-> list[c],
                    amid |-> admin # <<>> \/ blind]
<1>2. /\ UNCHANGED <<companies, applied, watched, firmUrl, firmOpen, firmForm, cards, user, inserted,
                     restored, blind, stale>>
      /\ errands' = errands + 1
  BY DEF Firms!UpdateStatus, Firms!Act, Firms!Task, Firms!Untouched, Firms!database
<1>3. /\ c \in Firms!CompanyIds /\ list[c] \in Firms!Rows /\ admin \in Seq(Firms!AdminCalls)
      /\ list \in [DOMAIN list -> Firms!Rows] /\ DOMAIN list \subseteq Firms!CompanyIds
      /\ blind \in BOOLEAN
  BY DEF FirmsInv, PageTyped, ListTyped, CallsTyped
<1>4. /\ call \in Firms!AdminCalls /\ call.op = "status" /\ call.id = c
      /\ call.previous = list[c] /\ (call.amid <=> admin # <<>> \/ blind)
  BY <1>3 DEF Firms!AdminCalls
<1>0. admin' = Append(admin, call)
  BY <1>1
<1> HIDE DEF call
<1>5. /\ admin' \in Seq(Firms!AdminCalls) /\ Len(admin) \in Nat
      /\ DOMAIN admin = 1 .. Len(admin) /\ DOMAIN admin' = 1 .. Len(admin) + 1
      /\ admin'[Len(admin) + 1] = call
      /\ \A i \in 1 .. Len(admin) : admin'[i] = admin[i]
  BY <1>0, <1>3, <1>4, Appended
<1>6. [list[c] EXCEPT !.status = to] \in Firms!Rows
  BY <1>3 DEF Firms!Rows, Firms!CompanyStatuses
<1>7. /\ DOMAIN list' = DOMAIN list /\ list' \in [DOMAIN list' -> Firms!Rows]
      /\ list'[c] = [list[c] EXCEPT !.status = to]
      /\ \A d \in DOMAIN list : d # c => list'[d] = list[d]
  BY <1>1, <1>3, <1>6
<1>8. /\ StoreTyped' /\ Distinct' /\ \A d \in DOMAIN companies : Row(d)' = Row(d)
      /\ CardsTyped' /\ Carded'
  BY <1>2, StoredStays DEF FirmsInv, StoreTyped
<1>9. PageTyped' /\ CallsTyped'
  BY <1>2, <1>3, <1>5, <1>7 DEF FirmsInv, PageTyped, ListTyped, CallsTyped
<1>10. Deciding \subseteq Deciding' /\ c \in Deciding' /\ (Behind => Behind')
  <2>1. Len(admin) + 1 \in DOMAIN admin' /\ call.op = "status" /\ call.id = c
    BY <1>4, <1>5
  <2>2. QED
    BY <1>5, <2>1 DEF Deciding, Behind
<1>11. ASSUME ~restored, ~blind, ~Behind
       PROVE /\ DOMAIN list = Firms!OnPage(companies, firmUrl) /\ DOMAIN list \subseteq DOMAIN companies
             /\ \A d \in DOMAIN list :
                  \/ list[d] = Row(d)
                  \/ /\ d \in Deciding
                     /\ \E s \in {"APPROVED", "REJECTED"} : list[d] = [Row(d) EXCEPT !.status = s]
  BY <1>11 DEF FirmsInv, Vouched, Firms!OnPage
<1>12. Vouched'
  <2> SUFFICES ASSUME ~restored, ~blind, ~Behind PROVE Vouched'
    BY <1>2, <1>10 DEF Vouched
  <2>1. \E s \in {"APPROVED", "REJECTED"} : list'[c] = [Row(c) EXCEPT !.status = s]
    BY <1>7, <1>11 DEF Row
  <2>2. \A d : Row(d)' = Row(d)
    BY <1>2 DEF Row
  <2>3. QED
    BY <1>2, <1>7, <1>10, <1>11, <2>1, <2>2 DEF Vouched
<1>13. Restorable'
  <2>1. ASSUME NEW i \in DOMAIN admin', Alone(i)'
        PROVE \/ i \in DOMAIN admin /\ Alone(i)
              \/ i = 1 /\ admin'[i] = call /\ DOMAIN admin = {} /\ ~blind
    <3>1. CASE i = Len(admin) + 1
      <4>1. admin = <<>> /\ ~blind
        BY <1>4, <1>5, <2>1, <3>1 DEF Alone
      <4>2. Len(admin) = 0
        BY <4>1
      <4>3. QED
        BY <1>5, <3>1, <4>1, <4>2
    <3>2. CASE i \in 1 .. Len(admin)
      BY <1>5, <2>1, <3>2 DEF Alone
    <3>3. QED
      BY <1>5, <3>1, <3>2
  <2>2. DOMAIN admin = {} /\ ~restored /\ ~blind => c \in DOMAIN companies /\ list[c] = Row(c)
    <3>1. DOMAIN admin = {} => ~Behind /\ Deciding = {}
      BY DEF Behind, Deciding
    <3>2. QED
      BY <1>11, <3>1
  <2>3. \A i \in DOMAIN admin : admin'[i] = admin[i]
    BY <1>5
  <2>4. \A d : Row(d)' = Row(d)
    BY <1>2 DEF Row
  <2>5. QED
    BY <1>2, <1>4, <2>1, <2>2, <2>3, <2>4 DEF FirmsInv, Restorable, Alone
<1>14. QED
  BY <1>8, <1>9, <1>12, <1>13 DEF FirmsInv

\* The user asks for something, types in a card, or applies to a company.
LEMMA UserAskKeeps ==
    ASSUME FirmsInv,
           Firms!Watch \/ Firms!Unwatch \/ Firms!SaveCard \/ Firms!TypeCard \/ Firms!Apply
    PROVE FirmsInv'
<1>1. /\ UNCHANGED <<companies, watched, firmUrl, list, firmOpen, firmForm, admin, inserted, restored,
                     blind, stale>>
      /\ errands' = errands + 1
  BY DEF Firms!Watch, Firms!Unwatch, Firms!SaveCard, Firms!TypeCard, Firms!Apply, Firms!Act,
         Firms!Task, Firms!PageStays, Firms!Untouched, Firms!database
<1>2. /\ user \in Seq(Firms!UserCalls) /\ DOMAIN cards \subseteq Firms!CompanyIds
      /\ cards \in [DOMAIN cards -> Firms!Cards]
  BY DEF FirmsInv, CallsTyped, CardsTyped
<1>3. /\ user' \in Seq(Firms!UserCalls) /\ applied' \subseteq DOMAIN companies
      /\ DOMAIN cards' = DOMAIN cards /\ cards' \in [DOMAIN cards' -> Firms!Cards]
      /\ \A c \in DOMAIN cards : cards'[c].shown = cards[c].shown
  <2>1. CASE Firms!Watch
    <3>1. PICK n \in Spellings : user' = Append(user, [op |-> "find", name |-> n])
      BY <2>1 DEF Firms!Watch
    <3>2. [op |-> "find", name |-> n] \in Firms!UserCalls
      BY DEF Firms!UserCalls
    <3>3. UNCHANGED <<cards, applied>>
      BY <2>1 DEF Firms!Watch, Firms!Act, Firms!Untouched, Firms!database
    <3>4. QED
      BY <1>2, <3>1, <3>2, <3>3 DEF FirmsInv, StoreTyped
  <2>2. CASE Firms!Unwatch
    <3>1. PICK c \in DOMAIN cards : user' = Append(user, [op |-> "unwatch", id |-> c])
      BY <2>2 DEF Firms!Unwatch
    <3>2. [op |-> "unwatch", id |-> c] \in Firms!UserCalls
      BY <1>2 DEF Firms!UserCalls
    <3>3. UNCHANGED <<cards, applied>>
      BY <2>2 DEF Firms!Unwatch, Firms!Act, Firms!Untouched, Firms!database
    <3>4. QED
      BY <1>2, <3>1, <3>2, <3>3 DEF FirmsInv, StoreTyped
  <2>3. CASE Firms!SaveCard
    <3>1. PICK c \in DOMAIN cards :
             user' = Append(user, [op |-> "override", id |-> c, url |-> cards[c].typed])
      BY <2>3 DEF Firms!SaveCard
    <3>2. cards[c].typed \in Firms!Urls /\ c \in Firms!CompanyIds
      BY <1>2 DEF Firms!Cards
    <3>3. [op |-> "override", id |-> c, url |-> cards[c].typed] \in Firms!UserCalls
      BY <3>2 DEF Firms!UserCalls
    <3>4. UNCHANGED <<cards, applied>>
      BY <2>3 DEF Firms!SaveCard, Firms!Act, Firms!Untouched, Firms!database
    <3>5. QED
      BY <1>2, <3>1, <3>3, <3>4 DEF FirmsInv, StoreTyped
  <2>4. CASE Firms!TypeCard
    <3>1. PICK c \in DOMAIN cards, u \in {"", "new"} : cards' = [cards EXCEPT ![c].typed = u]
      BY <2>4 DEF Firms!TypeCard
    <3>2. u \in Firms!Urls
      BY DEF Firms!Urls
    <3>3. /\ [cards[c] EXCEPT !.typed = u] \in Firms!Cards
          /\ [cards[c] EXCEPT !.typed = u].shown = cards[c].shown
      BY <1>2, <3>2 DEF Firms!Cards
    <3>4. UNCHANGED <<user, applied>>
      BY <2>4 DEF Firms!TypeCard, Firms!Act, Firms!Untouched, Firms!database
    <3>5. QED
      BY <1>2, <3>1, <3>3, <3>4 DEF FirmsInv, StoreTyped
  <2>5. CASE Firms!Apply
    BY <1>2, <2>5 DEF Firms!Apply, FirmsInv, StoreTyped
  <2>6. QED
    BY <2>1, <2>2, <2>3, <2>4, <2>5
<1>4. /\ StoreTyped' /\ Distinct' /\ \A c \in DOMAIN companies : Row(c)' = Row(c)
      /\ Restorable' /\ Deciding \subseteq Deciding' /\ (Behind => Behind')
  BY <1>1, <1>3, StoredStays
<1>5. Vouched'
  BY <1>1, <1>4, ListKept
<1>6. PageTyped' /\ CallsTyped' /\ CardsTyped'
  BY <1>1, <1>2, <1>3 DEF FirmsInv, PageTyped, ListTyped, CallsTyped, CardsTyped
<1>7. Carded'
  <2>1. [c \in DOMAIN cards' |-> cards'[c].shown] = [c \in DOMAIN cards |-> cards[c].shown]
    BY <1>3
  <2>2. QED
    BY <1>1, <2>1 DEF FirmsInv, Carded
<1>8. QED
  BY <1>4, <1>5, <1>6, <1>7 DEF FirmsInv

-----------------------------------------------------------------------------
(* What the API does of it. *)

\* A company's record is replaced by another.
LEMMA CompanyChanged ==
    ASSUME FirmsInv, NEW c \in DOMAIN companies, NEW r \in Firms!Stored,
           companies' = [companies EXCEPT ![c] = r], UNCHANGED <<applied, watched, inserted>>
    PROVE /\ DOMAIN companies' = DOMAIN companies /\ StoreTyped'
          /\ r.name = companies[c].name => Distinct'
          /\ r.url = companies[c].url => Firms!Shown(companies', watched') = Firms!Shown(companies, watched)
          /\ /\ r.name = companies[c].name /\ r.url = companies[c].url
             /\ r.status = companies[c].status
             => \A d \in DOMAIN companies : Row(d)' = Row(d)
<1>1. companies \in [DOMAIN companies -> Firms!Stored] /\ DOMAIN watched \subseteq DOMAIN companies
  BY DEF FirmsInv, StoreTyped
<1>2. /\ DOMAIN companies' = DOMAIN companies /\ companies' \in [DOMAIN companies' -> Firms!Stored]
      /\ companies'[c] = r /\ \A d \in DOMAIN companies : d # c => companies'[d] = companies[d]
  BY <1>1
<1>3. ASSUME r.name = companies[c].name PROVE Distinct'
  <2>1. \A d \in DOMAIN companies : companies'[d].name = companies[d].name
    BY <1>2, <1>3
  <2>2. QED
    BY <1>2, <2>1 DEF FirmsInv, Distinct
<1>4. ASSUME r.url = companies[c].url
      PROVE Firms!Shown(companies', watched') = Firms!Shown(companies, watched)
  <2>1. \A d \in DOMAIN watched : companies'[d].url = companies[d].url
    BY <1>1, <1>2, <1>4
  <2>2. QED
    BY <2>1, ShownSame
<1>5. ASSUME r.name = companies[c].name, r.url = companies[c].url, r.status = companies[c].status
      PROVE \A d \in DOMAIN companies : Row(d)' = Row(d)
  BY <1>2, <1>5 DEF Row
<1>6. StoreTyped'
  BY <1>2 DEF FirmsInv, StoreTyped
<1>7. QED
  BY <1>2, <1>3, <1>4, <1>5, <1>6

\* A company is inserted under a name that is free.
LEMMA Inserted ==
    ASSUME FirmsInv, NEW name \in Spellings, NEW u \in Firms!Urls, Firms!Insert(name, u),
           UNCHANGED <<applied, watched>>
    PROVE /\ inserted + 1 \in Firms!CompanyIds /\ DOMAIN companies \subseteq DOMAIN companies'
          /\ StoreTyped' /\ companies' # companies /\ Distinct'
          /\ Firms!Shown(companies', watched') = Firms!Shown(companies, watched)
          /\ \A c \in DOMAIN companies : Row(c)' = Row(c)
<1> DEFINE n == inserted + 1
           r == [name |-> name, status |-> "PENDING", url |-> u, logo |-> ""]
<1>1. /\ inserted < MaxCompanies /\ inserted' = n /\ Firms!NameFree(name, DOMAIN companies)
      /\ companies' = Firms!With(companies, n, r)
  BY DEF Firms!Insert
<1>2. /\ inserted \in 1 .. MaxCompanies /\ DOMAIN companies \subseteq 1 .. inserted
      /\ companies \in [DOMAIN companies -> Firms!Stored] /\ DOMAIN watched \subseteq DOMAIN companies
  BY DEF FirmsInv, StoreTyped, Firms!CompanyIds
<1>3. n \in 1 .. MaxCompanies /\ n \notin DOMAIN companies
  <2>1. MaxCompanies \in Nat /\ inserted \in Nat /\ inserted >= 1
    BY <1>2, CompaniesAssumption
  <2>2. inserted < MaxCompanies
    BY DEF Firms!Insert
  <2>3. n \in 1 .. MaxCompanies
    BY <2>1, <2>2
  <2>4. n \notin 1 .. inserted
    BY <2>1
  <2>5. QED
    BY <1>2, <2>3, <2>4
<1>4. r \in Firms!Stored
  BY DEF Firms!Stored, Firms!CompanyStatuses
<1>5. r.name = name
  OBVIOUS
<1> HIDE DEF r
<1>6. /\ DOMAIN companies' = DOMAIN companies \union {n} /\ companies'[n] = r
      /\ \A c \in DOMAIN companies : companies'[c] = companies[c]
      /\ companies' \in [DOMAIN companies' -> Firms!Stored]
  BY <1>1, <1>2, <1>3, <1>4 DEF Firms!With
<1>7. StoreTyped'
  <2>1. DOMAIN companies' \subseteq 1 .. inserted'
    BY <1>1, <1>2, <1>6
  <2>2. inserted' \in Firms!CompanyIds
    BY <1>1, <1>3 DEF Firms!CompanyIds
  <2>3. QED
    BY <1>6, <2>1, <2>2 DEF FirmsInv, StoreTyped
<1>8. Distinct'
  <2>1. \A c \in DOMAIN companies : Firms!Fold(companies[c].name) # Firms!Fold(name)
    BY <1>1 DEF Firms!NameFree
  <2>2. SUFFICES ASSUME NEW c \in DOMAIN companies', NEW d \in DOMAIN companies',
                        Firms!Fold(companies'[c].name) = Firms!Fold(companies'[d].name)
                 PROVE c = d
    BY DEF Distinct
  <2>3. CASE c = n
    BY <1>5, <1>6, <2>1, <2>2, <2>3
  <2>4. CASE d = n
    BY <1>5, <1>6, <2>1, <2>2, <2>4
  <2>5. CASE c # n /\ d # n
    BY <1>6, <2>2, <2>5 DEF FirmsInv, Distinct
  <2>6. QED
    BY <2>3, <2>4, <2>5
<1>9. Firms!Shown(companies', watched') = Firms!Shown(companies, watched)
  <2>1. \A c \in DOMAIN watched : companies'[c].url = companies[c].url
    BY <1>2, <1>6
  <2>2. QED
    BY <2>1, ShownSame
<1>10. companies' # companies
  BY <1>3, <1>6
<1>11. \A c \in DOMAIN companies : Row(c)' = Row(c)
  BY <1>6 DEF Row
<1>12. QED
  BY <1>3, <1>6, <1>7, <1>8, <1>9, <1>10, <1>11 DEF Firms!CompanyIds

\* A call of the user is answered, or becomes another.
LEMMA UserServed ==
    ASSUME FirmsInv, user # <<>>
    PROVE /\ Head(user) \in Firms!UserCalls
          /\ Firms!Answer => user' \in Seq(Firms!UserCalls)
          /\ \A task \in Firms!UserCalls : Firms!Become(task) => user' \in Seq(Firms!UserCalls)
<1>1. user \in Seq(Firms!UserCalls)
  BY DEF FirmsInv, CallsTyped
<1>2. Head(user) \in Firms!UserCalls /\ Tail(user) \in Seq(Firms!UserCalls)
  BY <1>1
<1>3. ASSUME NEW task \in Firms!UserCalls, Firms!Become(task)
      PROVE user' \in Seq(Firms!UserCalls)
  <2>1. <<task>> \in Seq(Firms!UserCalls) /\ user' = <<task>> \o Tail(user)
    BY <1>3 DEF Firms!Become
  <2>2. QED
    BY <1>2, <2>1, ConcatProperties
<1>4. QED
  BY <1>2, <1>3 DEF Firms!Answer

\* A change of status succeeds, or what it saved is put back.
LEMMA StatusServed ==
    ASSUME FirmsInv, Firms!ServeStatus
    PROVE FirmsInv'
<1> DEFINE call == Head(admin)
           c == call.id
           changed == IF c \in DOMAIN companies
                      THEN [companies EXCEPT ![c].status = call.to] ELSE companies
<1>1. /\ admin # <<>> /\ call.op = "status" /\ admin' = Tail(admin)
      /\ UNCHANGED <<applied, watched, cards, user, inserted, errands, stale>>
  BY DEF Firms!ServeStatus, Firms!Serving, Firms!Asked, Firms!Done
<1>2. /\ admin' \in Seq(Firms!AdminCalls) /\ call \in Firms!AdminCalls
      /\ Restorable' /\ Deciding \subseteq Deciding' \union {c} /\ (Behind => Behind')
  BY <1>1, AdminAnswered
<1>3. /\ c \in Firms!CompanyIds /\ call.to \in {"APPROVED", "REJECTED"}
      /\ call.previous \in Firms!Rows /\ call.amid \in BOOLEAN
  BY <1>1, <1>2, CallsCarry
<1>4. companies \in [DOMAIN companies -> Firms!Stored] /\ ListTyped
  BY DEF FirmsInv, StoreTyped, PageTyped
<1>5. \/ /\ companies' = changed /\ Firms!Goes(firmUrl, firmOpen) /\ UNCHANGED restored
      \/ /\ companies' \in {companies, changed} /\ list' = Firms!PutBack(call)
         /\ restored' = (restored \/ call.amid) /\ blind' = Firms!Unheard
         /\ UNCHANGED <<firmUrl, firmOpen, firmForm>>
  BY DEF Firms!ServeStatus, Firms!Asked
<1> HIDE DEF call, c
<1>6. StoreTyped' /\ Distinct' /\ CardsTyped' /\ Carded'
  <2>1. CASE companies' = companies
    BY <1>1, <2>1, StoredStays DEF FirmsInv, StoreTyped
  <2>2. CASE c \in DOMAIN companies /\ companies' = changed
    <3> DEFINE r == [companies[c] EXCEPT !.status = call.to]
    <3>1. /\ r \in Firms!Stored /\ r.name = companies[c].name /\ r.url = companies[c].url
      BY <1>3, <1>4, <2>2 DEF Firms!Stored, Firms!CompanyStatuses
    <3>2. companies' = [companies EXCEPT ![c] = r]
      BY <2>2
    <3> HIDE DEF r
    <3>3. /\ StoreTyped' /\ Distinct'
          /\ Firms!Shown(companies', watched') = Firms!Shown(companies, watched)
      BY <1>1, <2>2, <3>1, <3>2, CompanyChanged
    <3>4. QED
      BY <1>1, <3>3, CardsStay
  <2>3. QED
    BY <1>5, <2>1, <2>2
<1> HIDE DEF changed
<1>7. CallsTyped'
  BY <1>1, <1>2, <1>3, <1>5 DEF FirmsInv, CallsTyped
<1>8. PageTyped' /\ Vouched'
  <2>1. CASE Firms!Goes(firmUrl, firmOpen)
    BY <1>6, <2>1, PageGoes DEF FirmsInv, PageTyped
  <2>2. CASE /\ list' = Firms!PutBack(call) /\ restored' = (restored \/ call.amid)
             /\ blind' = Firms!Unheard /\ UNCHANGED <<firmUrl, firmOpen, firmForm>>
    <3>1. /\ DOMAIN list' = DOMAIN list /\ list' \in [DOMAIN list' -> Firms!Rows]
          /\ c \in DOMAIN list => list'[c] = call.previous
          /\ \A d \in DOMAIN list : d # c => list'[d] = list[d]
      BY <1>3, <1>4, <2>2 DEF Firms!PutBack, c, ListTyped
    <3>2. blind' \in BOOLEAN
      BY <2>2 DEF Firms!Unheard, FirmsInv, PageTyped
    <3>3. PageTyped'
      BY <1>4, <2>2, <3>1, <3>2 DEF FirmsInv, PageTyped, ListTyped
    <3>4. Vouched'
      <4> SUFFICES ASSUME ~restored', ~blind', ~Behind' PROVE Vouched'
        BY DEF Vouched
      <4>1. ~restored /\ ~call.amid /\ ~blind /\ ~Behind /\ companies' = companies
        BY <1>2, <1>3, <2>2 DEF FirmsInv, CallsTyped, PageTyped, Firms!Unheard
      <4>2. 1 \in DOMAIN admin /\ admin[1] = call
        BY <1>1 DEF FirmsInv, CallsTyped, call
      <4>3. Alone(1)
        BY <1>1, <4>1, <4>2 DEF Alone
      <4>4. call.previous = Row(c)
        BY <4>1, <4>2, <4>3 DEF FirmsInv, Restorable, c
      <4>5. \A d : Row(d)' = Row(d)
        BY <4>1 DEF Row
      <4>6. /\ DOMAIN list = Firms!OnPage(companies, firmUrl)
            /\ \A d \in DOMAIN list :
                  \/ list[d] = Row(d)
                  \/ /\ d \in Deciding
                     /\ \E to \in {"APPROVED", "REJECTED"} : list[d] = [Row(d) EXCEPT !.status = to]
        BY <4>1 DEF FirmsInv, Vouched
      <4>7. QED
        BY <1>2, <2>2, <3>1, <4>1, <4>4, <4>5, <4>6 DEF Vouched
    <3>5. QED
      BY <3>3, <3>4
  <2>3. QED
    BY <1>5, <2>1, <2>2
<1>9. QED
  BY <1>2, <1>6, <1>7, <1>8 DEF FirmsInv

\* The logo is uploaded, and the update comes after.
LEMMA LogoServed ==
    ASSUME FirmsInv, Firms!ServeLogo
    PROVE FirmsInv'
<1> DEFINE call == Head(admin)
           c == call.id
           update == [call EXCEPT !.op = "update"]
           changed == IF c \in DOMAIN companies
                      THEN [companies EXCEPT ![c].logo = "uploaded"] ELSE companies
<1>1. /\ admin # <<>> /\ call.op = "logo"
      /\ UNCHANGED <<applied, watched, firmUrl, list, firmOpen, cards, user, inserted, errands, restored,
                     blind, stale>>
  BY DEF Firms!ServeLogo, Firms!Serving, Firms!Asked
<1>2. call \in Firms!AdminCalls
  BY <1>1 DEF FirmsInv, CallsTyped
<1>3. update \in Firms!AdminCalls /\ update.op = "update"
  BY <1>1, <1>2, CallsCarry
<1>4. /\ companies' \in {companies, changed}
      /\ \/ admin' = Append(Tail(admin), update) /\ firmForm' = firmForm
         \/ admin' = Tail(admin) /\ Firms!Saved
  BY DEF Firms!ServeLogo, Firms!Asked, Firms!Done
<1> HIDE DEF update
<1>5. /\ admin' \in Seq(Firms!AdminCalls) /\ Restorable' /\ Deciding \subseteq Deciding'
      /\ (Behind => Behind')
  <2>1. CASE admin' = Append(Tail(admin), update)
    BY <1>1, <1>3, <2>1, AdminGoesOn
  <2>2. CASE admin' = Tail(admin)
    BY <1>1, <2>2, AdminAnswered
  <2>3. QED
    BY <1>4, <2>1, <2>2
<1> HIDE DEF c
<1>6. /\ StoreTyped' /\ Distinct' /\ CardsTyped' /\ Carded' /\ DOMAIN companies' = DOMAIN companies
      /\ \A d \in DOMAIN companies : Row(d)' = Row(d)
  <2>1. CASE companies' = companies
    BY <1>1, <2>1, StoredStays DEF FirmsInv, StoreTyped
  <2>2. CASE c \in DOMAIN companies /\ companies' = changed
    <3> DEFINE r == [companies[c] EXCEPT !.logo = "uploaded"]
    <3>1. /\ r \in Firms!Stored /\ r.name = companies[c].name /\ r.url = companies[c].url
          /\ r.status = companies[c].status
      BY <2>2 DEF FirmsInv, StoreTyped, Firms!Stored
    <3>2. companies' = [companies EXCEPT ![c] = r]
      BY <2>2
    <3> HIDE DEF r
    <3>3. /\ StoreTyped' /\ Distinct' /\ DOMAIN companies' = DOMAIN companies
          /\ Firms!Shown(companies', watched') = Firms!Shown(companies, watched)
          /\ \A d \in DOMAIN companies : Row(d)' = Row(d)
      BY <1>1, <2>2, <3>1, <3>2, CompanyChanged
    <3>4. QED
      BY <1>1, <3>3, CardsStay
  <2>3. QED
    BY <1>4, <2>1, <2>2
<1>7. Vouched'
  BY <1>1, <1>5, <1>6, ListKept
<1>8. firmForm' \in Firms!Forms \union {Shut}
  BY <1>4, FormSaved DEF FirmsInv, PageTyped
<1>9. PageTyped' /\ CallsTyped'
  BY <1>1, <1>5, <1>8 DEF FirmsInv, PageTyped, ListTyped, CallsTyped
<1>10. QED
  BY <1>5, <1>6, <1>7, <1>9 DEF FirmsInv

\* A company is updated under a name that no other has.
LEMMA UpdateServed ==
    ASSUME FirmsInv, Firms!ServeUpdate
    PROVE FirmsInv'
<1> DEFINE call == Head(admin)
           c == call.id
           free == c \in DOMAIN companies /\ Firms!NameFree(call.name, DOMAIN companies \ {c})
           changed == IF free THEN [companies EXCEPT ![c] = Firms!Changes(companies[c], call)]
                      ELSE companies
<1>1. /\ admin # <<>> /\ call.op = "update" /\ Firms!Elsewhere
      /\ UNCHANGED <<applied, watched, cards, user, inserted, errands, restored>>
  BY DEF Firms!ServeUpdate, Firms!Serving, Firms!Asked
<1>2. call \in Firms!AdminCalls
  BY <1>1 DEF FirmsInv, CallsTyped
<1>3. call.name \in Spellings /\ call.url \in Firms!Urls /\ call.at \in Firms!Places
  BY <1>1, <1>2, CallsCarry
<1>4. \/ /\ companies' = changed /\ Firms!Goes(call.at, Shut) /\ Firms!Refreshing
      \/ /\ companies' \in {companies, changed} /\ blind' = Firms!Unheard /\ admin' = Tail(admin)
         /\ Firms!Saved /\ UNCHANGED <<firmUrl, list, firmOpen>>
  BY DEF Firms!ServeUpdate, Firms!Asked, Firms!Done
<1>5. StoreTyped' /\ Distinct'
  <2> HIDE DEF call, c
  <2>1. CASE companies' = companies
    BY <1>1, <2>1, StoredStays DEF FirmsInv, StoreTyped
  <2>2. CASE free /\ companies' = changed
    <3> DEFINE r == Firms!Changes(companies[c], call)
    <3>1. r \in Firms!Stored /\ r.name = call.name
      BY <1>3, <2>2 DEF FirmsInv, StoreTyped, Firms!Stored, Firms!Changes
    <3>2. companies' = [companies EXCEPT ![c] = r]
      BY <2>2
    <3> HIDE DEF r
    <3>3. StoreTyped' /\ DOMAIN companies' = DOMAIN companies
      BY <1>1, <2>2, <3>1, <3>2, CompanyChanged
    <3>4. \A d \in DOMAIN companies \ {c} : Firms!Fold(companies[d].name) # Firms!Fold(call.name)
      BY <2>2 DEF Firms!NameFree
    <3>5. companies'[c] = r /\ \A d \in DOMAIN companies \ {c} : companies'[d] = companies[d]
      BY <2>2, <3>2 DEF FirmsInv, StoreTyped
    <3>6. SUFFICES ASSUME NEW d \in DOMAIN companies', NEW e \in DOMAIN companies',
                          Firms!Fold(companies'[d].name) = Firms!Fold(companies'[e].name)
                   PROVE d = e
      BY <3>3 DEF Distinct
    <3>7. CASE d = c
      BY <3>1, <3>3, <3>4, <3>5, <3>6, <3>7
    <3>8. CASE e = c
      BY <3>1, <3>3, <3>4, <3>5, <3>6, <3>8
    <3>9. CASE d # c /\ e # c
      BY <3>3, <3>5, <3>6, <3>9 DEF FirmsInv, Distinct
    <3>10. QED
      BY <3>7, <3>8, <3>9
  <2>3. QED
    BY <1>4, <2>1, <2>2
<1>6. CardsTyped' /\ Carded'
  BY <1>1, CardsStay
<1>7. /\ admin' \in Seq(Firms!AdminCalls) /\ Restorable' /\ PageTyped' /\ Vouched'
  <2>1. CASE Firms!Goes(call.at, Shut) /\ Firms!Refreshing
    <3>1. admin' \in Seq(Firms!AdminCalls) /\ Restorable' /\ Vouched'
      BY <1>1, <2>1, AdminRefreshes
    <3>2. PageTyped'
      BY <1>3, <1>5, <2>1, PageGoes
    <3>3. QED
      BY <3>1, <3>2
  <2>2. CASE /\ blind' = Firms!Unheard /\ admin' = Tail(admin)
             /\ Firms!Saved /\ UNCHANGED <<firmUrl, list, firmOpen>>
    <3>1. /\ admin' \in Seq(Firms!AdminCalls) /\ Restorable' /\ Deciding \subseteq Deciding'
          /\ (Behind => Behind')
      BY <1>1, <2>2, AdminAnswered
    <3>2. Vouched' /\ blind' \in BOOLEAN
      BY <1>1, <2>2, <3>1, ListUnheard
    <3>3. firmForm' \in Firms!Forms \union {Shut}
      BY <2>2, FormSaved
    <3>4. QED
      BY <2>2, <3>1, <3>2, <3>3 DEF FirmsInv, PageTyped, ListTyped
  <2>3. QED
    BY <1>4, <2>1, <2>2
<1>8. CallsTyped'
  BY <1>1, <1>7 DEF FirmsInv, CallsTyped
<1>9. QED
  BY <1>5, <1>6, <1>7, <1>8 DEF FirmsInv

\* The applications to a company are deleted, and its deletion comes next.
LEMMA DeleteServed ==
    ASSUME FirmsInv, Firms!ServeDelete
    PROVE FirmsInv'
<1> DEFINE call == Head(admin)
           second == [op |-> "company", id |-> call.id]
<1>1. /\ admin # <<>> /\ call.op = "delete" /\ applied' \subseteq applied
      /\ UNCHANGED <<companies, watched, firmUrl, list, firmOpen, firmForm, cards, user, inserted, errands,
                     restored, blind, stale>>
  BY DEF Firms!ServeDelete, Firms!Serving, Firms!Asked, Firms!PageStays
<1>2. call \in Firms!AdminCalls
  BY <1>1 DEF FirmsInv, CallsTyped
<1>3. second \in Firms!AdminCalls /\ second.op = "company"
  <2>1. call.id \in Firms!CompanyIds
    BY <1>1, <1>2, CallsCarry
  <2>2. QED
    BY <2>1 DEF Firms!AdminCalls
<1>4. admin' = <<second>> \o Tail(admin) \/ Firms!Refreshing
  BY DEF Firms!ServeDelete, Firms!Asked
<1> HIDE DEF second
<1>5. /\ StoreTyped' /\ Distinct' /\ CardsTyped' /\ Carded'
      /\ \A c \in DOMAIN companies : Row(c)' = Row(c)
  BY <1>1, StoredStays DEF FirmsInv, StoreTyped
<1>6. admin' \in Seq(Firms!AdminCalls) /\ Restorable' /\ Vouched'
  <2>1. CASE admin' = <<second>> \o Tail(admin)
    <3>1. /\ admin' \in Seq(Firms!AdminCalls) /\ Restorable' /\ Deciding \subseteq Deciding'
          /\ (Behind => Behind')
      BY <1>1, <1>3, <2>1, AdminGoesOn
    <3>2. QED
      BY <1>1, <1>5, <3>1, ListKept
  <2>2. CASE Firms!Refreshing
    BY <1>1, <2>2, AdminRefreshes
  <2>3. QED
    BY <1>4, <2>1, <2>2
<1>7. PageTyped' /\ CallsTyped'
  BY <1>1, <1>6 DEF FirmsInv, PageTyped, ListTyped, CallsTyped
<1>8. QED
  BY <1>5, <1>6, <1>7 DEF FirmsInv

\* A company that has no application goes, and its watches with it.
LEMMA CompanyDeleted ==
    ASSUME FirmsInv, Firms!ServeDeleteCompany
    PROVE FirmsInv'
<1> DEFINE c == Head(admin).id
           gone == IF c \notin applied THEN {c} ELSE {}
<1>1. /\ admin # <<>> /\ Head(admin).op = "company" /\ Firms!Refreshing /\ Firms!Elsewhere
      /\ UNCHANGED <<applied, cards, user, inserted, errands, restored>>
  BY DEF Firms!ServeDeleteCompany, Firms!Serving, Firms!Asked
<1>2. /\ \/ UNCHANGED <<companies, watched>>
         \/ /\ companies' = Firms!Keep(companies, Firms!CompanyIds \ gone)
            /\ watched' = Firms!Keep(watched, Firms!CompanyIds \ gone)
      /\ Firms!Goes(firmUrl, firmOpen) \/ Firms!PageStays
  BY DEF Firms!ServeDeleteCompany, Firms!Asked
<1>3. gone \intersect applied = {}
  OBVIOUS
<1> HIDE DEF gone
<1>4. StoreTyped' /\ Distinct'
  <2>1. CASE UNCHANGED <<companies, watched>>
    BY <1>1, <2>1, StoredStays DEF FirmsInv, StoreTyped
  <2>2. CASE /\ companies' = Firms!Keep(companies, Firms!CompanyIds \ gone)
             /\ watched' = Firms!Keep(watched, Firms!CompanyIds \ gone)
    <3>1. /\ companies \in [DOMAIN companies -> Firms!Stored] /\ DOMAIN companies \subseteq Firms!CompanyIds
          /\ watched \in [DOMAIN watched -> Firms!Urls] /\ DOMAIN watched \subseteq DOMAIN companies
          /\ DOMAIN companies \subseteq 1 .. inserted /\ applied \subseteq DOMAIN companies
      BY StoredTyped DEF FirmsInv, StoreTyped
    <3>2. /\ DOMAIN companies' = DOMAIN companies \ gone
          /\ companies' \in [DOMAIN companies' -> Firms!Stored]
          /\ \A d \in DOMAIN companies' : companies'[d] = companies[d]
      BY <2>2, <3>1 DEF Firms!Keep
    <3>3. DOMAIN watched' = DOMAIN watched \ gone /\ watched' \in [DOMAIN watched' -> Firms!Urls]
      BY <2>2, <3>1 DEF Firms!Keep
    <3>4. applied \subseteq DOMAIN companies' /\ DOMAIN watched' \subseteq DOMAIN companies'
      BY <1>3, <3>1, <3>2, <3>3
    <3>5. StoreTyped'
      BY <1>1, <3>1, <3>2, <3>3, <3>4 DEF FirmsInv, StoreTyped
    <3>6. Distinct'
      BY <3>2 DEF FirmsInv, Distinct
    <3>7. QED
      BY <3>5, <3>6
  <2>3. QED
    BY <1>2, <2>1, <2>2
<1>5. CardsTyped' /\ Carded'
  BY <1>1, CardsStay
<1>6. admin' \in Seq(Firms!AdminCalls) /\ Restorable' /\ Vouched'
  BY <1>1, AdminRefreshes
<1>7. PageTyped'
  <2>1. CASE Firms!Goes(firmUrl, firmOpen)
    BY <1>4, <2>1, PageGoes DEF FirmsInv, PageTyped
  <2>2. CASE Firms!PageStays
    BY <2>2 DEF Firms!PageStays, FirmsInv, PageTyped, ListTyped
  <2>3. QED
    BY <1>2, <2>1, <2>2
<1>8. CallsTyped'
  BY <1>1, <1>6 DEF FirmsInv, CallsTyped
<1>9. QED
  BY <1>4, <1>5, <1>6, <1>7, <1>8 DEF FirmsInv

\* A row of a file becomes a company, or fails.
LEMMA RowServed ==
    ASSUME FirmsInv, Firms!ServeRow
    PROVE FirmsInv'
<1> DEFINE call == Head(admin)
           others == [call EXCEPT !.rows = Tail(call.rows)]
<1>1. /\ admin # <<>> /\ call.op = "import" /\ call.rows # <<>> /\ admin' = <<others>> \o Tail(admin)
      /\ Firms!Insert(Head(call.rows), "new") \/ UNCHANGED <<companies, inserted>>
      /\ blind' = Firms!Unheard
      /\ UNCHANGED <<applied, watched, firmUrl, list, firmOpen, firmForm, cards, user, errands, restored,
                     stale>>
  BY DEF Firms!ServeRow, Firms!Serving, Firms!Asked
<1>2. call \in Firms!AdminCalls
  BY <1>1 DEF FirmsInv, CallsTyped
<1>3. call.rows \in Seq(Spellings)
  BY <1>1, <1>2, CallsCarry
<1>4. Head(call.rows) \in Spellings /\ Tail(call.rows) \in Seq(Spellings)
  BY <1>1, <1>3
<1>5. others \in Firms!AdminCalls /\ others.op # "status"
  BY <1>1, <1>2, <1>4 DEF Firms!AdminCalls
<1> HIDE DEF others
<1>6. /\ admin' \in Seq(Firms!AdminCalls) /\ Restorable' /\ Deciding \subseteq Deciding'
      /\ (Behind => Behind')
  BY <1>1, <1>5, AdminGoesOn
<1>7. StoreTyped' /\ Distinct' /\ CardsTyped' /\ Carded'
  <2>1. CASE Firms!Insert(Head(call.rows), "new")
    <3>1. "new" \in Firms!Urls
      BY DEF Firms!Urls
    <3>2. /\ StoreTyped' /\ Distinct'
          /\ Firms!Shown(companies', watched') = Firms!Shown(companies, watched)
      BY <1>1, <1>4, <2>1, <3>1, Inserted
    <3>3. QED
      BY <1>1, <3>2, CardsStay
  <2>2. CASE UNCHANGED <<companies, inserted>>
    BY <1>1, <2>2, StoredStays DEF FirmsInv, StoreTyped
  <2>3. QED
    BY <1>1, <2>1, <2>2
<1>8. Vouched' /\ blind' \in BOOLEAN
  BY <1>1, <1>6, ListUnheard
<1>9. PageTyped' /\ CallsTyped'
  BY <1>1, <1>6, <1>8 DEF FirmsInv, PageTyped, ListTyped, CallsTyped
<1>10. QED
  BY <1>6, <1>7, <1>8, <1>9 DEF FirmsInv

\* A file is done, or the page is rendered anew.
LEMMA RenderServed ==
    ASSUME FirmsInv, Firms!ServeImport \/ Firms!ServeRefresh
    PROVE FirmsInv'
<1>1. /\ admin # <<>> /\ Head(admin).op \in {"import", "refresh"}
      /\ UNCHANGED <<companies, applied, watched, cards, user, inserted, errands, restored, stale>>
      /\ \/ Firms!Goes(firmUrl, firmOpen) /\ Firms!Refreshing
         \/ Firms!PageStays /\ admin' = Tail(admin) /\ Head(admin).op = "import"
         \/ Firms!Goes(firmUrl, firmOpen) /\ admin' = Tail(admin)
  BY DEF Firms!ServeImport, Firms!ServeRefresh, Firms!Serving, Firms!Asked, Firms!Done
<1>2. /\ StoreTyped' /\ Distinct' /\ CardsTyped' /\ Carded'
      /\ \A c \in DOMAIN companies : Row(c)' = Row(c)
  BY <1>1, StoredStays DEF FirmsInv, StoreTyped
<1>3. Firms!Goes(firmUrl, firmOpen) => PageTyped' /\ Vouched'
  BY <1>2, PageGoes DEF FirmsInv, PageTyped
<1>4. admin' \in Seq(Firms!AdminCalls) /\ Restorable'
  BY <1>1, AdminRefreshes, AdminAnswered
<1>5. PageTyped' /\ Vouched'
  <2>1. CASE Firms!PageStays /\ admin' = Tail(admin) /\ Head(admin).op = "import"
    <3>1. Deciding \subseteq Deciding' /\ (Behind => Behind')
      BY <1>1, <2>1, AdminAnswered
    <3>2. UNCHANGED <<firmUrl, list, firmOpen, firmForm, blind>>
      BY <2>1 DEF Firms!PageStays
    <3>3. Vouched'
      BY <1>1, <1>2, <3>1, <3>2, ListKept
    <3>4. QED
      BY <3>2, <3>3 DEF FirmsInv, PageTyped, ListTyped
  <2>2. QED
    BY <1>1, <1>3, <2>1
<1>6. CallsTyped'
  BY <1>1, <1>4 DEF FirmsInv, CallsTyped
<1>7. QED
  BY <1>2, <1>4, <1>5, <1>6 DEF FirmsInv

-----------------------------------------------------------------------------
(* What the API does of what the user asks for. *)

\* A company is found by its name, or inserted and its logo fetched.
LEMMA FoundServed ==
    ASSUME FirmsInv, Firms!ServeFind \/ Firms!ServeInsert \/ Firms!ServeFetchLogo
    PROVE FirmsInv'
<1> DEFINE call == Head(user)
           c == call.id
<1>1. /\ user # <<>> /\ call.op \in {"find", "insert", "fetchLogo"}
      /\ UNCHANGED <<applied, watched, firmUrl, list, firmOpen, firmForm, cards, admin, errands, restored,
                     stale>>
  BY DEF Firms!ServeFind, Firms!ServeInsert, Firms!ServeFetchLogo, Firms!Calling, Firms!PageStays,
         Firms!database
<1>2. call \in Firms!UserCalls
  BY <1>1, UserServed
<1>3. companies \in [DOMAIN companies -> Firms!Stored] /\ DOMAIN companies \subseteq Firms!CompanyIds
  BY StoredTyped DEF FirmsInv
<1>4. ASSUME user' \in Seq(Firms!UserCalls), StoreTyped', Distinct',
             DOMAIN companies \subseteq DOMAIN companies',
             \A d \in DOMAIN companies : Row(d)' = Row(d),
             Firms!Shown(companies', watched') = Firms!Shown(companies, watched),
             \/ blind' = Firms!Unheard
             \/ UNCHANGED blind /\ DOMAIN companies' = DOMAIN companies
      PROVE FirmsInv'
  <2>1. CardsTyped' /\ Carded'
    BY <1>1, <1>4, CardsStay
  <2>2. Restorable' /\ Deciding \subseteq Deciding' /\ (Behind => Behind')
    BY <1>1, <1>4, CallsStay
  <2>3. Vouched' /\ blind' \in BOOLEAN
    BY <1>1, <1>4, <2>2, ListKept, ListUnheard DEF FirmsInv, PageTyped
  <2>4. PageTyped' /\ CallsTyped'
    BY <1>1, <1>4, <2>3 DEF FirmsInv, PageTyped, ListTyped, CallsTyped
  <2>5. QED
    BY <1>4, <2>1, <2>2, <2>3, <2>4 DEF FirmsInv
<1>5. ASSUME user' \in Seq(Firms!UserCalls), UNCHANGED <<companies, inserted>>,
             blind' = Firms!Unheard \/ UNCHANGED blind
      PROVE FirmsInv'
  <2>1. /\ StoreTyped' /\ Distinct' /\ \A d \in DOMAIN companies : Row(d)' = Row(d)
        /\ Firms!Shown(companies', watched') = Firms!Shown(companies, watched)
    BY <1>1, <1>5, StoredStays DEF FirmsInv, StoreTyped
  <2>2. QED
    BY <1>4, <1>5, <2>1
<1>6. CASE Firms!ServeFind
  <2>1. UNCHANGED <<companies, inserted, blind>>
    BY <1>6 DEF Firms!ServeFind, Firms!database, Firms!PageStays
  <2>2. user' \in Seq(Firms!UserCalls)
    <3>1. CASE Firms!Become([op |-> "insert", name |-> call.name])
      <4>1. call.name \in Spellings
        BY <1>2, <1>6, CallsCarry DEF Firms!ServeFind, Firms!Calling
      <4>2. [op |-> "insert", name |-> call.name] \in Firms!UserCalls
        BY <4>1 DEF Firms!UserCalls
      <4>3. QED
        BY <1>1, <3>1, <4>2, UserServed
    <3>2. CASE \E d \in Firms!NamedAs(call.name) : Firms!Become([op |-> "watch", id |-> d])
      <4>1. PICK d \in DOMAIN companies : Firms!Become([op |-> "watch", id |-> d])
        BY <3>2 DEF Firms!NamedAs
      <4>2. [op |-> "watch", id |-> d] \in Firms!UserCalls
        BY <1>3, <4>1 DEF Firms!UserCalls
      <4>3. QED
        BY <1>1, <4>1, <4>2, UserServed
    <3>3. CASE Firms!Answer
      BY <1>1, <3>3, UserServed
    <3>4. QED
      BY <1>6, <3>1, <3>2, <3>3 DEF Firms!ServeFind
  <2>3. QED
    BY <1>5, <2>1, <2>2
<1>7. CASE Firms!ServeInsert
  <2>1. /\ blind' = Firms!Unheard
        /\ \/ /\ Firms!Insert(call.name, "")
              /\ Firms!Become([op |-> "fetchLogo", id |-> inserted + 1]) \/ Firms!Answer
           \/ UNCHANGED <<companies, inserted>> /\ Firms!Answer
    BY <1>7 DEF Firms!ServeInsert
  <2>2. CASE Firms!Insert(call.name, "")
    <3>1. call.name \in Spellings /\ "" \in Firms!Urls
      BY <1>2, <1>7, CallsCarry DEF Firms!ServeInsert, Firms!Calling, Firms!Urls
    <3>2. /\ inserted + 1 \in Firms!CompanyIds /\ DOMAIN companies \subseteq DOMAIN companies'
          /\ StoreTyped' /\ companies' # companies /\ Distinct'
          /\ Firms!Shown(companies', watched') = Firms!Shown(companies, watched)
          /\ \A d \in DOMAIN companies : Row(d)' = Row(d)
      BY <1>1, <2>2, <3>1, Inserted
    <3>3. [op |-> "fetchLogo", id |-> inserted + 1] \in Firms!UserCalls
      BY <3>2 DEF Firms!UserCalls
    <3>4. user' \in Seq(Firms!UserCalls)
      <4>1. CASE Firms!Answer
        BY <1>1, <4>1, UserServed
      <4>2. CASE Firms!Become([op |-> "fetchLogo", id |-> inserted + 1])
        BY <1>1, <3>3, <4>2, UserServed
      <4>3. QED
        BY <2>1, <4>1, <4>2
    <3>5. QED
      BY <1>4, <2>1, <3>2, <3>4
  <2>3. CASE UNCHANGED <<companies, inserted>> /\ Firms!Answer
    BY <1>1, <1>5, <2>1, <2>3, UserServed
  <2>4. QED
    BY <2>1, <2>2, <2>3
<1>8. CASE Firms!ServeFetchLogo
  <2>1. /\ UNCHANGED <<inserted, blind>> /\ Firms!Become([call EXCEPT !.op = "watch"])
        /\ \/ c \in DOMAIN companies /\ companies' = [companies EXCEPT ![c].logo = "fetched"]
           \/ companies' = companies
    BY <1>8 DEF Firms!ServeFetchLogo, Firms!PageStays
  <2>2. [call EXCEPT !.op = "watch"] \in Firms!UserCalls
    BY <1>2, <1>8, CallsCarry DEF Firms!ServeFetchLogo, Firms!Calling
  <2>3. user' \in Seq(Firms!UserCalls)
    BY <1>1, <2>1, <2>2, UserServed
  <2>4. CASE companies' = companies
    BY <1>5, <2>1, <2>3, <2>4
  <2>5. CASE c \in DOMAIN companies /\ companies' = [companies EXCEPT ![c].logo = "fetched"]
    <3> DEFINE r == [companies[c] EXCEPT !.logo = "fetched"]
    <3> HIDE DEF c
    <3>1. /\ r \in Firms!Stored /\ r.name = companies[c].name /\ r.url = companies[c].url
          /\ r.status = companies[c].status
      BY <1>3, <2>5 DEF Firms!Stored
    <3>2. companies' = [companies EXCEPT ![c] = r]
      BY <2>5
    <3> HIDE DEF r
    <3>3. /\ StoreTyped' /\ Distinct' /\ DOMAIN companies' = DOMAIN companies
          /\ Firms!Shown(companies', watched') = Firms!Shown(companies, watched)
          /\ \A d \in DOMAIN companies : Row(d)' = Row(d)
      BY <1>1, <2>1, <2>5, <3>1, <3>2, CompanyChanged
    <3>4. QED
      BY <1>4, <2>1, <2>3, <3>3
  <2>6. QED
    BY <2>1, <2>4, <2>5
<1>9. QED
  BY <1>6, <1>7, <1>8

\* A watch is added, removed or given another URL, and the cards are rendered; or it fails.
LEMMA WatchServed ==
    ASSUME FirmsInv, Firms!ServeWatch \/ Firms!ServeUnwatch \/ Firms!ServeOverride
    PROVE FirmsInv'
<1> DEFINE call == Head(user)
           c == call.id
<1>1. /\ user # <<>> /\ call.op \in {"watch", "unwatch", "override"} /\ Firms!Answer
      /\ UNCHANGED <<companies, applied, firmUrl, list, firmOpen, firmForm, admin, inserted, errands,
                     restored, blind>>
  BY DEF Firms!ServeWatch, Firms!ServeUnwatch, Firms!ServeOverride, Firms!Watches, Firms!Calling,
         Firms!PageStays, Firms!database
<1>2. call \in Firms!UserCalls /\ user' \in Seq(Firms!UserCalls)
  BY <1>1, UserServed
<1>3. /\ companies \in [DOMAIN companies -> Firms!Stored] /\ DOMAIN companies \subseteq Firms!CompanyIds
      /\ watched \in [DOMAIN watched -> Firms!Urls] /\ DOMAIN watched \subseteq DOMAIN companies
  BY StoredTyped DEF FirmsInv, StoreTyped
<1>4. /\ Distinct' /\ Restorable' /\ Deciding \subseteq Deciding' /\ (Behind => Behind')
      /\ \A d \in DOMAIN companies : Row(d)' = Row(d)
  BY <1>1, CallsStay DEF FirmsInv, Distinct, Row
<1>5. Vouched' /\ PageTyped' /\ CallsTyped'
  BY <1>1, <1>2, <1>4, ListKept DEF FirmsInv, PageTyped, ListTyped, CallsTyped
<1>6. ASSUME watched' \in [DOMAIN watched' -> Firms!Urls], DOMAIN watched' \subseteq DOMAIN companies,
             Firms!RenderCards \/ (UNCHANGED cards /\ Firms!Elsewhere)
      PROVE FirmsInv'
  <2>1. StoreTyped'
    BY <1>1, <1>6 DEF FirmsInv, StoreTyped
  <2>2. CardsTyped' /\ Carded'
    BY <1>1, <1>3, <1>6, CardsRendered, CardsStay
  <2>3. QED
    BY <1>4, <1>5, <2>1, <2>2 DEF FirmsInv
<1>7. ASSUME NEW changed, Firms!Watches(changed),
             changed \in [DOMAIN changed -> Firms!Urls], DOMAIN changed \subseteq DOMAIN companies
      PROVE FirmsInv'
  <2>1. /\ watched' = watched \/ watched' = changed
        /\ Firms!RenderCards \/ (UNCHANGED cards /\ Firms!Elsewhere)
    BY <1>7 DEF Firms!Watches
  <2>2. CASE watched' = watched
    BY <1>3, <1>6, <2>1, <2>2
  <2>3. CASE watched' = changed
    BY <1>6, <1>7, <2>1, <2>3
  <2>4. QED
    BY <2>1, <2>2, <2>3
<1>8. CASE Firms!ServeWatch
  <2>1. CASE UNCHANGED <<watched, cards, stale>>
    <3>1. Firms!Shown(companies', watched') = Firms!Shown(companies, watched)
      BY <1>1, <2>1
    <3>2. CardsTyped' /\ Carded'
      BY <2>1, <3>1, CardsStay
    <3>3. StoreTyped'
      BY <1>1, <2>1 DEF FirmsInv, StoreTyped
    <3>4. QED
      BY <1>4, <1>5, <3>2, <3>3 DEF FirmsInv
  <2>2. CASE c \in DOMAIN companies /\ Firms!Watches(Firms!With(watched, c, ""))
    <3> DEFINE changed == Firms!With(watched, c, "")
    <3>1. changed \in [DOMAIN changed -> Firms!Urls] /\ DOMAIN changed \subseteq DOMAIN companies
      BY <1>3, <2>2 DEF Firms!With, Firms!Urls
    <3> HIDE DEF changed
    <3>2. QED
      BY <1>7, <2>2, <3>1 DEF changed
  <2>3. QED
    BY <1>8, <2>1, <2>2 DEF Firms!ServeWatch, Firms!database
<1>9. CASE Firms!ServeUnwatch
  <2> DEFINE changed == Firms!Keep(watched, Firms!CompanyIds \ {c})
  <2>1. changed \in [DOMAIN changed -> Firms!Urls] /\ DOMAIN changed \subseteq DOMAIN companies
    BY <1>3 DEF Firms!Keep
  <2> HIDE DEF changed
  <2>2. QED
    BY <1>7, <1>9, <2>1 DEF Firms!ServeUnwatch, changed
<1>10. CASE Firms!ServeOverride
  <2> DEFINE changed == [d \in DOMAIN watched |-> IF d = c THEN call.url ELSE watched[d]]
  <2>1. call.url \in Firms!Urls
    BY <1>2, <1>10, CallsCarry DEF Firms!ServeOverride, Firms!Calling
  <2>2. changed \in [DOMAIN changed -> Firms!Urls] /\ DOMAIN changed \subseteq DOMAIN companies
    BY <1>3, <2>1
  <2> HIDE DEF changed
  <2>3. QED
    BY <1>7, <1>10, <2>2 DEF Firms!ServeOverride, changed
<1>11. QED
  BY <1>8, <1>9, <1>10

-----------------------------------------------------------------------------

\* The pages begin with one company, listed, and no watch.
LEMMA FirmsBegin ==
    ASSUME Firms!Init
    PROVE FirmsInv
<1> DEFINE first == [name |-> CHOOSE n \in Spellings : TRUE, status |-> "PENDING",
                     url |-> "old", logo |-> ""]
<1>1. /\ companies = [c \in {1} |-> first] /\ applied \in SUBSET {1} /\ watched = <<>>
      /\ firmUrl = [status |-> "PENDING", page |-> 1]
      /\ list = Firms!Listed(companies, firmUrl) /\ firmOpen = Shut /\ firmForm = Shut /\ cards = <<>>
      /\ admin = <<>> /\ user = <<>> /\ inserted = 1 /\ errands = 0
      /\ restored = FALSE /\ blind = FALSE /\ stale = FALSE
  BY DEF Firms!Init
<1>2. first \in Firms!Stored
  <2>1. (CHOOSE n \in Spellings : TRUE) \in Spellings
    <3>1. <<"acme", 1>> \in Spellings
      BY DEF Spellings
    <3>2. QED
      BY <3>1
  <2>2. QED
    BY <2>1 DEF Firms!Stored, Firms!CompanyStatuses, Firms!Urls
<1> HIDE DEF first
<1>3. /\ DOMAIN companies = {1} /\ companies \in [DOMAIN companies -> Firms!Stored]
      /\ 1 \in Firms!CompanyIds
  BY <1>1, <1>2, CompaniesAssumption DEF Firms!CompanyIds
<1>4. /\ DOMAIN list = Firms!OnPage(companies, firmUrl) /\ list \in [DOMAIN list -> Firms!Rows]
      /\ DOMAIN list \subseteq DOMAIN companies /\ \A c \in DOMAIN list : list[c] = Row(c)
  BY <1>1, <1>3, ListedTyped DEF Row
<1>5. DOMAIN watched = {} /\ DOMAIN cards = {} /\ DOMAIN admin = {}
  <2>1. /\ watched \in Seq({}) /\ Len(watched) = 0 /\ cards \in Seq({}) /\ Len(cards) = 0
        /\ admin \in Seq({}) /\ Len(admin) = 0
    BY <1>1, EmptySeq
  <2>2. QED
    BY <2>1
<1>6. /\ watched \in [DOMAIN watched -> Firms!Urls] /\ cards \in [DOMAIN cards -> Firms!Cards]
      /\ admin \in Seq(Firms!AdminCalls) /\ user \in Seq(Firms!UserCalls)
  BY <1>1, <1>5, EmptySeq
<1>7. StoreTyped
  BY <1>1, <1>3, <1>5, <1>6 DEF StoreTyped
<1>8. PageTyped
  <2>1. firmUrl \in Firms!Places
    BY <1>1, <1>3 DEF Firms!Places, Firms!CompanyStatuses, Firms!CompanyIds
  <2>2. QED
    BY <1>1, <1>3, <1>4, <2>1 DEF PageTyped, ListTyped
<1>9. CardsTyped /\ CallsTyped
  BY <1>1, <1>5, <1>6 DEF CardsTyped, CallsTyped
<1>10. Distinct /\ Vouched /\ Restorable
  BY <1>1, <1>3, <1>4, <1>5 DEF Distinct, Vouched, Restorable
<1>11. Carded
  <2>1. [c \in DOMAIN cards |-> cards[c].shown] = Firms!Shown(companies, watched)
    BY <1>5 DEF Firms!Shown
  <2>2. QED
    BY <2>1 DEF Carded
<1>12. QED
  BY <1>7, <1>8, <1>9, <1>10, <1>11 DEF FirmsInv

\* Every step of the administrator, the user and the API keeps the companies what they
\* should be.
LEMMA FirmsStep ==
    ASSUME FirmsInv, Firms!Next
    PROVE FirmsInv'
BY PageKeeps, AdminAskKeeps, DecisionKeeps, UserAskKeeps, StatusServed, LogoServed, UpdateServed,
   DeleteServed, CompanyDeleted, RowServed, RenderServed, FoundServed, WatchServed
   DEF Firms!Next

\* And so do pages that stay as they are.
LEMMA FirmsStay ==
    ASSUME FirmsInv, UNCHANGED firmsVars
    PROVE FirmsInv'
<1>1. UNCHANGED <<companies, applied, watched, firmUrl, list, firmOpen, firmForm, cards, admin, user,
                  inserted, errands, restored, blind, stale>>
  BY DEF firmsVars
<1>2. /\ StoreTyped' /\ Distinct' /\ \A c \in DOMAIN companies : Row(c)' = Row(c)
      /\ CardsTyped' /\ Carded' /\ Restorable' /\ Deciding \subseteq Deciding' /\ (Behind => Behind')
  BY <1>1, StoredStays DEF FirmsInv, StoreTyped
<1>3. Vouched'
  BY <1>1, <1>2, ListKept
<1>4. PageTyped' /\ CallsTyped'
  BY <1>1 DEF FirmsInv, PageTyped, ListTyped, CallsTyped
<1>5. QED
  BY <1>2, <1>3, <1>4 DEF FirmsInv

\* The companies are what they should be in every state of every behaviour.
THEOREM FirmsInvariant == Spec => []FirmsInv
<1>1. Init => FirmsInv
  BY FirmsBegin DEF Init
<1>2. FirmsInv /\ [Next]_vars => FirmsInv'
  BY FirmsStep, FirmsStay DEF Next, vars
<1>3. QED
  BY <1>1, <1>2, PTL DEF Spec

\* One company a name, and at rest a list that shows what is stored of its status and page
\* and a watchlist that shows the URLs that are the user's, however the calls of the
\* administrator and of the user interleave and whichever fail, before what they do or
\* after it, but for the losses CompanyKeeps names; for any number of companies and calls
\* and pages of any size.
THEOREM CompaniesKeep == Spec => []CompanyKeeps
<1>1. FirmsInv => CompanyKeeps
  <2> SUFFICES ASSUME FirmsInv PROVE CompanyKeeps
    OBVIOUS
  <2>1. ASSUME admin = <<>>, ~restored, ~blind PROVE list = Firms!Listed(companies, firmUrl)
    <3>1. admin \in Seq({}) /\ Len(admin) = 0
      BY <2>1, EmptySeq
    <3>2. Deciding = {} /\ ~Behind
      BY <3>1 DEF Deciding, Behind
    <3>3. DOMAIN list = Firms!OnPage(companies, firmUrl) /\ \A c \in DOMAIN list : list[c] = Row(c)
      BY <2>1, <3>2 DEF FirmsInv, Vouched
    <3>4. companies \in [DOMAIN companies -> Firms!Stored]
      BY DEF FirmsInv, StoreTyped
    <3>5. /\ DOMAIN Firms!Listed(companies, firmUrl) = DOMAIN list
          /\ Firms!Listed(companies, firmUrl) \in [DOMAIN list -> Firms!Rows]
          /\ \A c \in DOMAIN list : list[c] = Firms!Listed(companies, firmUrl)[c]
      BY <3>3, <3>4, ListedTyped DEF Row
    <3>6. list \in [DOMAIN list -> Firms!Rows]
      BY DEF FirmsInv, PageTyped, ListTyped
    <3>7. QED
      BY <3>5, <3>6
  <2>2. Firms!CompanyKeeps
    BY <2>1 DEF FirmsInv, Distinct, Carded, Firms!CompanyKeeps
  <2>3. Firms!TypeOK
    BY DEF FirmsInv, StoreTyped, PageTyped, ListTyped, CardsTyped, CallsTyped, Firms!TypeOK
  <2>4. QED
    BY <2>2, <2>3 DEF CompanyKeeps
<1>2. QED
  BY <1>1, FirmsInvariant, PTL

-----------------------------------------------------------------------------
(* The job profile. *)

\* What is stored was cleaned, and so was what a request has read.
Neat(kept) == \A f \in Profile!Fields :
    Profile!Clean(Profile!Response(kept)[f]) = Profile!Response(kept)[f]

\* A field that was not edited is as the form was made.
Untyped(t) == \A f \in Profile!Fields \ typed[t] : page[t].form[f] = told[t][f]

\* The fields a save was not made for are sent as the form knew them; a CV fills a field
\* that was read empty; and a request answers a call.
Meant(call) ==
    call.op = "save" => \A f \in Profile!Fields \ call.wants : call.dto[f] = call.knew[f]
Wanted(t) ==
    /\ \A i \in DOMAIN asked[t] : Meant(asked[t][i])
    /\ request[t] # Idle =>
        /\ asked[t] # <<>> /\ Neat(request[t].read) /\ Meant(request[t])
        /\ request[t].op \in {"found", "fill"} => request[t].knew["titles"] = ""

\* The calls of a form that is gone come before those of the form that is there.
Newest(t) ==
    \A i, j \in DOMAIN asked[t] : i < j /\ asked[t][i].here => asked[t][j].here

\* A tab that is not unsure was made from what is stored, awaits every answer, and its
\* request has read what is stored.
Sure(t) ==
    ~unsure[t] =>
        /\ page[t].saved = Profile!Response(row)
        /\ \A f \in Profile!Fields \ typed[t] : page[t].form[f] = Profile!Response(row)[f]
        /\ \A i \in DOMAIN asked[t] : asked[t][i].here
        /\ request[t] # Idle => Profile!Response(request[t].read) = Profile!Response(row)

ProfileInv ==
    /\ Profile!TypeOK /\ Neat(row)
    /\ \A t \in Tabs : Untyped(t) /\ Wanted(t) /\ Newest(t) /\ Sure(t)

\* What a call and a request carry.
LEMMA AskCarries ==
    /\ \A call \in Profile!Asks :
        /\ call.op \in {"save", "upload", "fill"} /\ call.here \in BOOLEAN
        /\ call.knew \in Profile!Rows /\ call.wants \in SUBSET Profile!Fields
        /\ call.op = "save" => call.dto \in Profile!Rows
        /\ call.op = "upload" =>
            call.dto \in [{"resumeText"} -> {"read"}] /\ call.wants = {"resumeText"}
    /\ \A r \in Profile!Requests :
        /\ r.read \in Profile!Reads /\ r.knew \in Profile!Rows
        /\ r.op \in {"save", "upload", "found", "fill"}
        /\ r.op = "save" => r.dto \in Profile!Rows /\ r.wants \in SUBSET Profile!Fields
        /\ r.op = "upload" => r.dto \in [{"resumeText"} -> {"read"}] /\ r.wants = {"resumeText"}
        /\ r.op \in {"found", "fill"} => r.dto \in [{"titles"} -> {"read"}]
<1>1. ASSUME NEW call \in Profile!Asks
      PROVE /\ call.op \in {"save", "upload", "fill"} /\ call.here \in BOOLEAN
            /\ call.knew \in Profile!Rows /\ call.wants \in SUBSET Profile!Fields
            /\ call.op = "save" => call.dto \in Profile!Rows
            /\ call.op = "upload" =>
                call.dto \in [{"resumeText"} -> {"read"}] /\ call.wants = {"resumeText"}
  BY <1>1 DEF Profile!Asks, Profile!Fields
<1>2. ASSUME NEW r \in Profile!Requests
      PROVE /\ r.read \in Profile!Reads /\ r.knew \in Profile!Rows
            /\ r.op \in {"save", "upload", "found", "fill"}
            /\ r.op = "save" => r.dto \in Profile!Rows /\ r.wants \in SUBSET Profile!Fields
            /\ r.op = "upload" => r.dto \in [{"resumeText"} -> {"read"}] /\ r.wants = {"resumeText"}
            /\ r.op \in {"found", "fill"} => r.dto \in [{"titles"} -> {"read"}]
  BY <1>2 DEF Profile!Requests
<1>3. QED
  BY <1>1, <1>2

\* What a page is answered of a row.
LEMMA Answers ==
    /\ \A kept \in Profile!Reads : Profile!Response(kept) \in Profile!Rows
    /\ \A kept \in Profile!Rows : Profile!Response(kept) = kept
    /\ Profile!Blank \in Profile!Rows /\ Neat(NoRow)
<1>1. Profile!Blank \in Profile!Rows /\ \A f \in Profile!Fields : Profile!Blank[f] = ""
  BY DEF Profile!Blank, Profile!Rows, Profile!Values
<1>2. Neat(NoRow)
  BY <1>1 DEF Neat, Profile!Response, Profile!Clean
<1>3. \A kept \in Profile!Rows : Profile!Response(kept) = kept
  BY NothingAssumption DEF NothingAssumption, Profile!Response
<1>4. QED
  BY <1>1, <1>2, <1>3 DEF Profile!Response, Profile!Reads

\* An update cleans the fields it is given and leaves the others as they were read.
LEMMA Updated ==
    ASSUME NEW kept \in Profile!Reads, NEW dto,
           dto \in Profile!Rows \union [{"resumeText"} -> {"read"}] \union [{"titles"} -> {"read"}]
    PROVE /\ Profile!Update(kept, dto) \in Profile!Rows
          /\ \A f \in Profile!Fields :
                Profile!Update(kept, dto)[f] =
                    IF f \in DOMAIN dto THEN Profile!Clean(dto[f]) ELSE Profile!Response(kept)[f]
          /\ Neat(kept) => Neat(Profile!Update(kept, dto))
<1> DEFINE next1 == Profile!Update(kept, dto)
<1>1. Profile!Response(kept) \in Profile!Rows
  BY Answers
<1>2. \A f \in DOMAIN dto : dto[f] \in Profile!Values
  BY DEF Profile!Rows, Profile!Values
<1>3. \A v \in Profile!Values : /\ Profile!Clean(v) \in Profile!Values
                                /\ Profile!Clean(Profile!Clean(v)) = Profile!Clean(v)
  BY DEF Profile!Values, Profile!Clean
<1>4. \A f \in Profile!Fields :
        next1[f] = IF f \in DOMAIN dto THEN Profile!Clean(dto[f]) ELSE Profile!Response(kept)[f]
  BY DEF Profile!Update
<1>5. next1 \in Profile!Rows
  BY <1>1, <1>2, <1>3 DEF Profile!Update, Profile!Rows
<1>6. Profile!Response(next1) = next1
  BY <1>5, Answers
<1>7. Neat(kept) => Neat(next1)
  BY <1>2, <1>3, <1>4, <1>6 DEF Neat
<1>8. QED
  BY <1>4, <1>5, <1>7

\* The calls and the request of a tab that stay as they are.
LEMMA WantedStays ==
    ASSUME NEW u \in Tabs, Wanted(u), asked'[u] = asked[u], request'[u] = request[u]
    PROVE Wanted(u)'
<1>1. \A i \in DOMAIN asked'[u] : Meant(asked[u][i])
  BY DEF Wanted
<1>2. (\A i \in DOMAIN asked[u] : Meant(asked[u][i]))'
  BY <1>1 DEF Meant
<1>3. request[u] # Idle => Neat(request[u].read) /\ Meant(request[u])
  BY DEF Wanted
<1>4. (request[u] # Idle => Neat(request[u].read) /\ Meant(request[u]))'
  BY <1>3 DEF Neat, Meant
<1>5. QED
  BY <1>2, <1>4 DEF Wanted

\* A tab whose page, calls and request stay as they are is as it should be, unless it is
\* sure of a preference that changes.
LEMMA TabStays ==
    ASSUME ProfileInv, NEW u \in Tabs,
           page'[u] = page[u], asked'[u] = asked[u], request'[u] = request[u], typed'[u] = typed[u],
           told'[u] = told[u],
           ~unsure'[u] => ~unsure[u] /\ Profile!Response(row)' = Profile!Response(row)
    PROVE Untyped(u)' /\ Wanted(u)' /\ Newest(u)' /\ Sure(u)'
<1>1. Untyped(u)'
  BY DEF ProfileInv, Untyped
<1>2. Wanted(u)'
  BY WantedStays DEF ProfileInv
<1>3. Newest(u)'
  BY DEF ProfileInv, Newest
<1>4. Sure(u)'
  BY DEF ProfileInv, Sure
<1>5. QED
  BY <1>1, <1>2, <1>3, <1>4

-----------------------------------------------------------------------------

\* A page that is loaded awaits no answer to what was asked before.
LEMMA LoadKeeps ==
    ASSUME ProfileInv, NEW t \in Tabs, Profile!Load(t)
    PROVE ProfileInv'
<1> DEFINE gone == [i \in DOMAIN asked[t] |-> [asked[t][i] EXCEPT !.here = FALSE]]
<1>1. PICK answer \in {Profile!Response(row), Profile!Blank} :
        /\ page' = [page EXCEPT ![t] = [saved |-> answer, form |-> answer]]
        /\ told' = [told EXCEPT ![t] = answer]
        /\ unsure' = [unsure EXCEPT ![t] = asked[t] # <<>> \/ answer # Profile!Response(row)]
  BY DEF Profile!Load
<1>2. /\ asked' = [asked EXCEPT ![t] = gone] /\ typed' = [typed EXCEPT ![t] = {}]
      /\ UNCHANGED <<row, request>>
  BY DEF Profile!Load
<1>3. /\ row \in Profile!Reads /\ page \in [Tabs -> Profile!Pages] /\ told \in [Tabs -> Profile!Rows]
      /\ asked \in [Tabs -> Seq(Profile!Asks)] /\ typed \in [Tabs -> SUBSET Profile!Fields]
      /\ unsure \in [Tabs -> BOOLEAN]
  BY DEF ProfileInv, Profile!TypeOK
<1>4. answer \in Profile!Rows
  BY <1>3, Answers
<1>5. /\ gone \in Seq(Profile!Asks) /\ DOMAIN gone = DOMAIN asked[t]
      /\ \A i \in DOMAIN asked[t] : ~gone[i].here /\ (Meant(asked[t][i]) => Meant(gone[i]))
      /\ asked[t] # <<>> => gone # <<>>
      /\ asked[t] = <<>> => DOMAIN gone = {}
  <2>1. asked[t] \in Seq(Profile!Asks)
    BY <1>3
  <2>2. /\ Len(asked[t]) \in Nat /\ DOMAIN asked[t] = 1 .. Len(asked[t])
        /\ \A i \in DOMAIN asked[t] : asked[t][i] \in Profile!Asks
    BY <2>1
  <2>3. ASSUME NEW call \in Profile!Asks
        PROVE /\ [call EXCEPT !.here = FALSE] \in Profile!Asks
              /\ ~[call EXCEPT !.here = FALSE].here
              /\ Meant(call) => Meant([call EXCEPT !.here = FALSE])
    BY <2>3 DEF Profile!Asks, Meant
  <2>4. gone \in [1 .. Len(asked[t]) -> Profile!Asks]
    BY <2>2, <2>3
  <2>5. gone \in Seq(Profile!Asks) /\ Len(gone) = Len(asked[t])
    BY <2>2, <2>4
  <2>6. DOMAIN gone = DOMAIN asked[t]
    OBVIOUS
  <2>7. \A i \in DOMAIN asked[t] : ~gone[i].here /\ (Meant(asked[t][i]) => Meant(gone[i]))
    BY <2>2, <2>3
  <2>8. asked[t] # <<>> => Len(asked[t]) # 0
    BY <2>1
  <2>9. gone = <<>> => Len(gone) = 0
    OBVIOUS
  <2>10. asked[t] = <<>> => Len(asked[t]) = 0
    OBVIOUS
  <2>11. QED
    BY <2>2, <2>5, <2>6, <2>7, <2>8, <2>9, <2>10
<1> HIDE DEF gone
<1>6. /\ page'[t].saved = answer /\ page'[t].form = answer /\ told'[t] = answer /\ typed'[t] = {}
      /\ asked'[t] = gone /\ unsure'[t] = (asked[t] # <<>> \/ answer # Profile!Response(row))
  BY <1>1, <1>2, <1>3
<1>7. \A u \in Tabs \ {t} : /\ page'[u] = page[u] /\ told'[u] = told[u] /\ typed'[u] = typed[u]
                            /\ asked'[u] = asked[u] /\ unsure'[u] = unsure[u]
  BY <1>1, <1>2, <1>3
<1>8. Profile!TypeOK'
  <2>1. page' \in [Tabs -> Profile!Pages] /\ told' \in [Tabs -> Profile!Rows]
    BY <1>1, <1>3, <1>4 DEF Profile!Pages
  <2>2. asked' \in [Tabs -> Seq(Profile!Asks)]
    BY <1>2, <1>3, <1>5
  <2>3. typed' \in [Tabs -> SUBSET Profile!Fields] /\ unsure' \in [Tabs -> BOOLEAN]
    BY <1>1, <1>2, <1>3
  <2>4. QED
    BY <1>2, <2>1, <2>2, <2>3 DEF ProfileInv, Profile!TypeOK
<1>9. Untyped(t)' /\ Wanted(t)' /\ Newest(t)' /\ Sure(t)'
  <2>1. Untyped(t)'
    BY <1>6 DEF Untyped
  <2>2. Wanted(t)'
    <3>1. Wanted(t)
      BY DEF ProfileInv
    <3>2. \A i \in DOMAIN gone : Meant(gone[i])
      BY <1>5, <3>1 DEF Wanted
    <3>3. (\A i \in DOMAIN asked[t] : Meant(asked[t][i]))'
      BY <1>6, <3>2 DEF Meant
    <3>4. request[t] # Idle => Neat(request[t].read) /\ Meant(request[t])
      BY <3>1 DEF Wanted
    <3>5. (request[t] # Idle => Neat(request[t].read) /\ Meant(request[t]))'
      BY <1>2, <3>4 DEF Neat, Meant
    <3>6. QED
      BY <1>2, <1>5, <1>6, <3>1, <3>3, <3>5 DEF Wanted
  <2>3. Newest(t)'
    BY <1>5, <1>6 DEF Newest
  <2>4. Sure(t)'
    BY <1>2, <1>5, <1>6 DEF Sure, ProfileInv, Wanted
  <2>5. QED
    BY <2>1, <2>2, <2>3, <2>4
<1>10. \A u \in Tabs \ {t} : Untyped(u)' /\ Wanted(u)' /\ Newest(u)' /\ Sure(u)'
  BY <1>2, <1>7, TabStays
<1>11. Neat(row)'
  BY <1>2 DEF ProfileInv, Neat
<1>12. QED
  BY <1>8, <1>9, <1>10, <1>11 DEF ProfileInv

\* A field is edited.
LEMMA EditKeeps ==
    ASSUME ProfileInv, NEW t \in Tabs,
           Profile!EditText(t) \/ Profile!EditTokens(t) \/ Profile!EditPicked(t)
    PROVE ProfileInv'
<1>1. PICK f \in Profile!Fields, v \in Profile!Values :
        /\ page' = [page EXCEPT ![t].form[f] = v] /\ typed' = [typed EXCEPT ![t] = typed[t] \union {f}]
        /\ UNCHANGED <<row, asked, request, told, unsure>>
  BY DEF Profile!EditText, Profile!EditTokens, Profile!EditPicked, Profile!Put, Profile!Fields,
         Profile!Values
<1>2. /\ page \in [Tabs -> Profile!Pages] /\ typed \in [Tabs -> SUBSET Profile!Fields]
  BY DEF ProfileInv, Profile!TypeOK
<1>3. /\ page' \in [Tabs -> Profile!Pages] /\ typed' \in [Tabs -> SUBSET Profile!Fields]
      /\ page'[t].saved = page[t].saved /\ typed'[t] = typed[t] \union {f}
      /\ \A g \in Profile!Fields \ {f} : page'[t].form[g] = page[t].form[g]
      /\ \A u \in Tabs \ {t} : page'[u] = page[u] /\ typed'[u] = typed[u]
  BY <1>1, <1>2 DEF Profile!Pages, Profile!Rows
<1>4. Profile!TypeOK' /\ Neat(row)'
  BY <1>1, <1>3 DEF ProfileInv, Profile!TypeOK, Neat
<1>5. \A u \in Tabs \ {t} : Untyped(u)' /\ Wanted(u)' /\ Newest(u)' /\ Sure(u)'
  BY <1>1, <1>3, TabStays
<1>6. Untyped(t)' /\ Wanted(t)' /\ Newest(t)' /\ Sure(t)'
  <2>1. Untyped(t)' /\ Sure(t)'
    BY <1>1, <1>3 DEF ProfileInv, Untyped, Sure
  <2>2. Wanted(t)'
    BY <1>1, WantedStays DEF ProfileInv
  <2>3. Newest(t)'
    BY <1>1 DEF ProfileInv, Newest
  <2>4. QED
    BY <2>1, <2>2, <2>3
<1>7. QED
  BY <1>4, <1>5, <1>6 DEF ProfileInv

\* The form is saved, a CV uploaded, or the form filled from it.
LEMMA AskKeepsProfile ==
    ASSUME ProfileInv, NEW t \in Tabs, Profile!Save(t) \/ Profile!Upload(t) \/ Profile!Fill(t)
    PROVE ProfileInv'
<1>1. UNCHANGED <<row, page, request, typed, told, unsure>>
  BY DEF Profile!Save, Profile!Upload, Profile!Fill
<1>2. /\ page \in [Tabs -> Profile!Pages] /\ asked \in [Tabs -> Seq(Profile!Asks)]
      /\ typed \in [Tabs -> SUBSET Profile!Fields] /\ told \in [Tabs -> Profile!Rows]
  BY DEF ProfileInv, Profile!TypeOK
<1>3. \E call \in Profile!Asks :
        call.here /\ Meant(call) /\ asked' = [asked EXCEPT ![t] = Append(asked[t], call)]
  <2>1. CASE Profile!Save(t)
    <3> DEFINE call == [op |-> "save", dto |-> page[t].form, wants |-> typed[t], knew |-> told[t],
                        here |-> TRUE]
    <3>1. page[t].form \in Profile!Rows
      BY <1>2 DEF Profile!Pages
    <3>2. call \in Profile!Asks
      BY <1>2, <3>1 DEF Profile!Asks
    <3>3. Meant(call)
      BY DEF ProfileInv, Untyped, Meant
    <3>4. QED
      BY <2>1, <3>2, <3>3 DEF Profile!Save, Profile!Ask
  <2>2. CASE Profile!Upload(t)
    <3> DEFINE call == [op |-> "upload", dto |-> [f \in {"resumeText"} |-> "read"],
                        wants |-> {"resumeText"}, knew |-> told[t], here |-> TRUE]
    <3>1. call \in Profile!Asks
      BY <1>2 DEF Profile!Asks
    <3>2. Meant(call)
      BY DEF Meant
    <3>3. QED
      BY <2>2, <3>1, <3>2 DEF Profile!Upload, Profile!Ask
  <2>3. CASE Profile!Fill(t)
    <3> DEFINE call == [op |-> "fill", dto |-> <<>>, wants |-> {}, knew |-> told[t], here |-> TRUE]
    <3>1. call \in Profile!Asks
      BY <1>2 DEF Profile!Asks
    <3>2. Meant(call)
      BY DEF Meant
    <3>3. QED
      BY <2>3, <3>1, <3>2 DEF Profile!Fill, Profile!Ask
  <2>4. QED
    BY <2>1, <2>2, <2>3
<1>4. PICK call \in Profile!Asks :
        call.here /\ Meant(call) /\ asked' = [asked EXCEPT ![t] = Append(asked[t], call)]
  BY <1>3
<1> DEFINE n == Len(asked[t])
<1>5. /\ asked' \in [Tabs -> Seq(Profile!Asks)] /\ n \in Nat
      /\ DOMAIN asked[t] = 1 .. n /\ DOMAIN asked'[t] = 1 .. n + 1 /\ asked'[t][n + 1] = call
      /\ \A i \in 1 .. n : asked'[t][i] = asked[t][i]
      /\ \A u \in Tabs \ {t} : asked'[u] = asked[u]
  <2>1. asked[t] \in Seq(Profile!Asks) /\ asked'[t] = Append(asked[t], call)
    BY <1>2, <1>4
  <2>2. /\ Append(asked[t], call) \in Seq(Profile!Asks) /\ n \in Nat
        /\ DOMAIN asked[t] = 1 .. n /\ DOMAIN Append(asked[t], call) = 1 .. n + 1
        /\ Append(asked[t], call)[n + 1] = call
        /\ \A i \in 1 .. n : Append(asked[t], call)[i] = asked[t][i]
    BY <2>1, Appended
  <2>3. asked' \in [Tabs -> Seq(Profile!Asks)] /\ \A u \in Tabs \ {t} : asked'[u] = asked[u]
    BY <1>2, <1>4, <2>2
  <2>4. QED
    BY <2>1, <2>2, <2>3
<1>6. asked'[t] # <<>>
  <2>1. asked'[t] = <<>> => DOMAIN asked'[t] = {}
    <3>1. <<>> \in Seq({}) /\ Len(<<>>) = 0
      BY EmptySeq
    <3>2. QED
      BY <3>1
  <2>2. n + 1 \in DOMAIN asked'[t]
    BY <1>5
  <2>3. QED
    BY <2>1, <2>2
<1> HIDE DEF n
<1>7. Profile!TypeOK' /\ Neat(row)'
  BY <1>1, <1>5 DEF ProfileInv, Profile!TypeOK, Neat
<1>8. Untyped(t)'
  BY <1>1 DEF ProfileInv, Untyped
<1>9. \A u \in Tabs \ {t} : Untyped(u)' /\ Wanted(u)' /\ Newest(u)' /\ Sure(u)'
  BY <1>1, <1>5, TabStays
<1>10. Wanted(t)'
  <2>1. Wanted(t)
    BY DEF ProfileInv
  <2>2. (\A i \in DOMAIN asked[t] : Meant(asked[t][i]))'
    <3>1. \A i \in 1 .. n : Meant(asked[t][i])
      BY <1>5, <2>1 DEF Wanted
    <3>2. \A i \in 1 .. n + 1 : i \in 1 .. n \/ i = n + 1
      BY <1>5
    <3>3. QED
      BY <1>4, <1>5, <3>1, <3>2 DEF Meant
  <2>3. request[t] # Idle => Neat(request[t].read) /\ Meant(request[t])
    BY <2>1 DEF Wanted
  <2>4. (request[t] # Idle => Neat(request[t].read) /\ Meant(request[t]))'
    BY <1>1, <2>3 DEF Neat, Meant
  <2>5. QED
    BY <1>1, <1>6, <2>1, <2>2, <2>4 DEF Wanted
<1>11. Newest(t)'
  BY <1>4, <1>5 DEF ProfileInv, Newest
<1>12. Sure(t)'
  BY <1>1, <1>4, <1>5 DEF ProfileInv, Sure
<1>13. QED
  BY <1>7, <1>8, <1>9, <1>10, <1>11, <1>12 DEF ProfileInv

-----------------------------------------------------------------------------

\* The first call of a tab is answered or refused.
LEMMA CallOver ==
    ASSUME ProfileInv, NEW t \in Tabs, asked[t] # <<>>, Profile!Answered(t)
    PROVE /\ asked' \in [Tabs -> Seq(Profile!Asks)]
          /\ request' \in [Tabs -> Profile!Requests \union {Idle}]
          /\ request'[t] = Idle /\ Wanted(t)' /\ Newest(t)'
          /\ Head(asked[t]).here => \A i \in DOMAIN asked'[t] : asked'[t][i].here
          /\ (\A i \in DOMAIN asked[t] : asked[t][i].here) =>
                Head(asked[t]).here /\ \A i \in DOMAIN asked'[t] : asked'[t][i].here
          /\ \A u \in Tabs \ {t} : asked'[u] = asked[u] /\ request'[u] = request[u]
<1> DEFINE n == Len(asked[t])
<1>1. /\ asked' = [asked EXCEPT ![t] = Tail(asked[t])] /\ request' = [request EXCEPT ![t] = Idle]
      /\ asked \in [Tabs -> Seq(Profile!Asks)] /\ request \in [Tabs -> Profile!Requests \union {Idle}]
  BY DEF Profile!Answered, ProfileInv, Profile!TypeOK
<1>2. /\ Tail(asked[t]) \in Seq(Profile!Asks) /\ n \in Nat \ {0}
      /\ DOMAIN asked[t] = 1 .. n /\ DOMAIN Tail(asked[t]) = 1 .. n - 1
      /\ Head(asked[t]) = asked[t][1]
      /\ \A i \in 1 .. n - 1 : Tail(asked[t])[i] = asked[t][i + 1]
  <2>1. asked[t] \in Seq(Profile!Asks)
    BY <1>1
  <2>2. QED
    BY <2>1, Shifted
<1> HIDE DEF n
<1>3. /\ asked' \in [Tabs -> Seq(Profile!Asks)] /\ request' \in [Tabs -> Profile!Requests \union {Idle}]
      /\ asked'[t] = Tail(asked[t]) /\ request'[t] = Idle
      /\ \A u \in Tabs \ {t} : asked'[u] = asked[u] /\ request'[u] = request[u]
  BY <1>1, <1>2
<1>4. DOMAIN asked'[t] = 1 .. n - 1 /\ \A i \in 1 .. n - 1 : asked'[t][i] = asked[t][i + 1]
  BY <1>2, <1>3
<1>5. \A i \in 1 .. n - 1 : i + 1 \in 1 .. n /\ 1 < i + 1 /\ 1 \in 1 .. n
  BY <1>2
<1>6. Wanted(t)'
  <2>1. \A i \in 1 .. n : Meant(asked[t][i])
    BY <1>2 DEF ProfileInv, Wanted
  <2>2. \A i \in DOMAIN asked'[t] : Meant(asked[t][i + 1])
    BY <1>4, <1>5, <2>1
  <2>3. (\A i \in DOMAIN asked[t] : Meant(asked[t][i]))'
    BY <1>4, <2>2 DEF Meant
  <2>4. QED
    BY <1>3, <2>3 DEF Wanted
<1>7. Newest(t)'
  <2> SUFFICES ASSUME NEW i \in 1 .. n - 1, NEW j \in 1 .. n - 1, i < j, asked'[t][i].here
               PROVE asked'[t][j].here
    BY <1>4 DEF Newest
  <2>1. i + 1 \in 1 .. n /\ j + 1 \in 1 .. n /\ i + 1 < j + 1
    BY <1>2
  <2>2. asked[t][i + 1].here
    BY <1>4
  <2>3. asked[t][j + 1].here
    BY <1>2, <2>1, <2>2 DEF ProfileInv, Newest
  <2>4. QED
    BY <1>4, <2>3
<1>8. Head(asked[t]).here => \A i \in DOMAIN asked'[t] : asked'[t][i].here
  BY <1>2, <1>4, <1>5 DEF ProfileInv, Newest
<1>9. (\A i \in DOMAIN asked[t] : asked[t][i].here) => Head(asked[t]).here
  BY <1>2
<1>10. QED
  BY <1>3, <1>6, <1>7, <1>8, <1>9

\* A call that is refused changes nothing else.
LEMMA RefuseKeeps ==
    ASSUME ProfileInv, NEW t \in Tabs, asked[t] # <<>>, Profile!Refuse(t)
    PROVE ProfileInv'
<1>1. Profile!Answered(t) /\ UNCHANGED <<row, page, typed, told, unsure>>
  BY DEF Profile!Refuse
<1>2. /\ asked' \in [Tabs -> Seq(Profile!Asks)]
      /\ request' \in [Tabs -> Profile!Requests \union {Idle}]
      /\ request'[t] = Idle /\ Wanted(t)' /\ Newest(t)'
      /\ (\A i \in DOMAIN asked[t] : asked[t][i].here) =>
            \A i \in DOMAIN asked'[t] : asked'[t][i].here
      /\ \A u \in Tabs \ {t} : asked'[u] = asked[u] /\ request'[u] = request[u]
  BY <1>1, CallOver
<1>3. Profile!TypeOK' /\ Neat(row)'
  BY <1>1, <1>2 DEF ProfileInv, Profile!TypeOK, Neat
<1>4. Untyped(t)' /\ Sure(t)'
  BY <1>1, <1>2 DEF ProfileInv, Untyped, Sure
<1>5. \A u \in Tabs \ {t} : Untyped(u)' /\ Wanted(u)' /\ Newest(u)' /\ Sure(u)'
  BY <1>1, <1>2, TabStays
<1>6. QED
  BY <1>2, <1>3, <1>4, <1>5 DEF ProfileInv

\* A request begins, or goes on, by reading the row.
LEMMA FindKeeps ==
    ASSUME ProfileInv, NEW t \in Tabs, asked[t] # <<>>,
           NEW r \in Profile!Requests, r.read = row, Meant(r),
           r.op \in {"found", "fill"} => r.knew["titles"] = "",
           request' = [request EXCEPT ![t] = r],
           UNCHANGED <<row, page, asked, typed, told, unsure>>
    PROVE ProfileInv'
<1>1. request \in [Tabs -> Profile!Requests \union {Idle}]
  BY DEF ProfileInv, Profile!TypeOK
<1>2. /\ request' \in [Tabs -> Profile!Requests \union {Idle}] /\ request'[t] = r
      /\ \A u \in Tabs \ {t} : request'[u] = request[u]
  BY <1>1
<1>3. Profile!TypeOK' /\ Neat(row)'
  BY <1>2 DEF ProfileInv, Profile!TypeOK, Neat
<1>4. Wanted(t)'
  <2>1. \A i \in DOMAIN asked[t] : Meant(asked[t][i])
    BY DEF ProfileInv, Wanted
  <2>2. (\A i \in DOMAIN asked[t] : Meant(asked[t][i]))'
    BY <2>1 DEF Meant
  <2>3. Neat(r.read)
    BY DEF ProfileInv
  <2>4. Neat(request[t].read)' /\ Meant(request[t])'
    BY <1>2, <2>3 DEF Neat, Meant
  <2>5. QED
    BY <1>2, <2>2, <2>4 DEF Wanted
<1>5. Untyped(t)' /\ Newest(t)' /\ Sure(t)'
  BY <1>2 DEF ProfileInv, Untyped, Newest, Sure
<1>6. \A u \in Tabs \ {t} : Untyped(u)' /\ Wanted(u)' /\ Newest(u)' /\ Sure(u)'
  BY <1>2, TabStays
<1>7. QED
  BY <1>3, <1>4, <1>5, <1>6 DEF ProfileInv

\* The answer of a request replaces what the form holds, or the text of the CV in it.
LEMMA AdoptKeeps ==
    ASSUME ProfileInv, NEW t \in Tabs, asked[t] # <<>>, Profile!Answered(t),
           row' \in Profile!Reads, Neat(row'),
           NEW answer \in Profile!Rows, Profile!Response(row') = answer,
           NEW op, Profile!AdoptAnswer(t, op, answer),
           unsure' \in [Tabs -> BOOLEAN], unsure'[t] = Profile!Unsure(t, op),
           op = "upload" /\ ~unsure[t] =>
               \A f \in Profile!Fields \ {"resumeText"} : answer[f] = Profile!Response(row)[f],
           \A u \in Tabs \ {t} : ~unsure'[u] => ~unsure[u] /\ answer = Profile!Response(row)
    PROVE ProfileInv'
<1>1. /\ page \in [Tabs -> Profile!Pages] /\ typed \in [Tabs -> SUBSET Profile!Fields]
      /\ told \in [Tabs -> Profile!Rows] /\ unsure \in [Tabs -> BOOLEAN]
      /\ asked \in [Tabs -> Seq(Profile!Asks)]
  BY DEF ProfileInv, Profile!TypeOK
<1>2. /\ asked' \in [Tabs -> Seq(Profile!Asks)]
      /\ request' \in [Tabs -> Profile!Requests \union {Idle}]
      /\ request'[t] = Idle /\ Wanted(t)' /\ Newest(t)'
      /\ Head(asked[t]).here => \A i \in DOMAIN asked'[t] : asked'[t][i].here
      /\ (\A i \in DOMAIN asked[t] : asked[t][i].here) => Head(asked[t]).here
      /\ \A u \in Tabs \ {t} : asked'[u] = asked[u] /\ request'[u] = request[u]
  BY CallOver
<1> DEFINE old == page[t]
           form1 == IF op = "upload" THEN [old.form EXCEPT !["resumeText"] = answer["resumeText"]]
                    ELSE answer
           typed1 == IF op = "upload" THEN typed[t] \ {"resumeText"} ELSE {}
           told1 == IF op = "upload" THEN [told[t] EXCEPT !["resumeText"] = answer["resumeText"]]
                    ELSE answer
<1>3. "resumeText" \in Profile!Fields /\ answer["resumeText"] \in Profile!Values
  BY DEF Profile!Rows, Profile!Fields
<1>4. old.form \in Profile!Rows /\ old.saved \in Profile!Rows /\ told[t] \in Profile!Rows
  BY <1>1 DEF Profile!Pages
<1>5. /\ form1 \in Profile!Rows /\ told1 \in Profile!Rows /\ typed1 \in SUBSET Profile!Fields
      /\ op # "upload" => form1 = answer /\ told1 = answer /\ typed1 = {}
      /\ op = "upload" => /\ form1["resumeText"] = answer["resumeText"]
                          /\ told1["resumeText"] = answer["resumeText"]
                          /\ \A f \in Profile!Fields \ {"resumeText"} :
                                form1[f] = old.form[f] /\ told1[f] = told[t][f]
                          /\ typed1 = typed[t] \ {"resumeText"}
  BY <1>1, <1>3, <1>4 DEF Profile!Rows
<1>6. CASE Head(asked[t]).here
  <2>1. /\ page' = [page EXCEPT ![t] = [saved |-> answer, form |-> form1]]
        /\ typed' = [typed EXCEPT ![t] = typed1] /\ told' = [told EXCEPT ![t] = told1]
    BY <1>6 DEF Profile!AdoptAnswer, Profile!Adopt
  <2> HIDE DEF form1, typed1, told1
  <2>2. /\ page' \in [Tabs -> Profile!Pages] /\ typed' \in [Tabs -> SUBSET Profile!Fields]
        /\ told' \in [Tabs -> Profile!Rows]
        /\ page'[t].saved = answer /\ page'[t].form = form1 /\ typed'[t] = typed1 /\ told'[t] = told1
        /\ \A u \in Tabs \ {t} : page'[u] = page[u] /\ typed'[u] = typed[u] /\ told'[u] = told[u]
    BY <1>1, <1>5, <2>1 DEF Profile!Pages
  <2>3. Profile!TypeOK'
    BY <1>2, <2>2 DEF Profile!TypeOK
  <2>4. Untyped(t)'
    BY <1>5, <2>2 DEF ProfileInv, Untyped
  <2>5. Sure(t)'
    <3> SUFFICES ASSUME ~unsure'[t]
                 PROVE /\ page'[t].saved = answer
                       /\ \A f \in Profile!Fields \ typed'[t] : page'[t].form[f] = answer[f]
                       /\ \A i \in DOMAIN asked'[t] : asked'[t][i].here
                       /\ request'[t] = Idle
      BY DEF Sure
    <3>1. CASE op = "upload"
      <4>1. ~unsure[t]
        BY <1>1, <1>6, <3>1 DEF Profile!Unsure
      <4>2. \A f \in Profile!Fields \ typed[t] : old.form[f] = Profile!Response(row)[f]
        BY <4>1 DEF ProfileInv, Sure
      <4>3. ASSUME NEW f \in Profile!Fields \ typed'[t] PROVE page'[t].form[f] = answer[f]
        BY <1>5, <2>2, <3>1, <4>1, <4>2, <4>3
      <4>4. QED
        BY <1>2, <1>6, <2>2, <4>3
    <3>2. CASE op # "upload"
      BY <1>2, <1>5, <1>6, <2>2, <3>2
    <3>3. QED
      BY <3>1, <3>2
  <2>6. \A u \in Tabs \ {t} : Untyped(u)' /\ Wanted(u)' /\ Newest(u)' /\ Sure(u)'
    BY <1>2, <2>2, TabStays
  <2>7. Neat(row)'
    BY DEF Neat
  <2>8. QED
    BY <1>2, <2>3, <2>4, <2>5, <2>6, <2>7 DEF ProfileInv
<1>7. CASE ~Head(asked[t]).here
  <2>1. UNCHANGED <<page, typed, told>>
    BY <1>7 DEF Profile!AdoptAnswer
  <2>2. unsure[t]
    BY <1>2, <1>7 DEF ProfileInv, Sure
  <2>3. unsure'[t]
    BY <1>7, <2>2 DEF Profile!Unsure
  <2>4. Untyped(t)' /\ Sure(t)'
    BY <2>1, <2>3 DEF ProfileInv, Untyped, Sure
  <2>5. Profile!TypeOK'
    BY <1>2, <2>1 DEF ProfileInv, Profile!TypeOK
  <2>6. \A u \in Tabs \ {t} : Untyped(u)' /\ Wanted(u)' /\ Newest(u)' /\ Sure(u)'
    BY <1>2, <2>1, TabStays
  <2>7. Neat(row)'
    BY DEF Neat
  <2>8. QED
    BY <1>2, <2>4, <2>5, <2>6, <2>7 DEF ProfileInv
<1>8. QED
  BY <1>6, <1>7

\* An update finds the row, or fails to.
LEMMA FindStep ==
    ASSUME ProfileInv, NEW t \in Tabs, Profile!Find(t)
    PROVE ProfileInv'
<1> DEFINE call == Head(asked[t])
           r == [op |-> call.op, dto |-> call.dto, wants |-> call.wants, read |-> row,
                 knew |-> IF call.op = "save" THEN call.knew ELSE Profile!Response(row)]
<1>1. /\ asked[t] # <<>> /\ call.op # "fill"
      /\ \/ request' = [request EXCEPT ![t] = r] /\ UNCHANGED <<row, page, asked, typed, told, unsure>>
         \/ Profile!Refuse(t)
  BY DEF Profile!Find
<1>2. asked[t] \in Seq(Profile!Asks) /\ row \in Profile!Reads
  BY DEF ProfileInv, Profile!TypeOK
<1>3. call \in Profile!Asks /\ Meant(call)
  <2>1. /\ Head(asked[t]) = asked[t][1] /\ 1 \in DOMAIN asked[t] /\ asked[t][1] \in Profile!Asks
    BY <1>1, <1>2
  <2>2. QED
    BY <2>1 DEF ProfileInv, Wanted
<1>4. CASE Profile!Refuse(t)
  BY <1>1, <1>4, RefuseKeeps
<1>5. CASE request' = [request EXCEPT ![t] = r] /\ UNCHANGED <<row, page, asked, typed, told, unsure>>
  <2>1. Profile!Response(row) \in Profile!Rows
    BY <1>2, Answers
  <2>2. r \in Profile!Requests
    <3>1. CASE call.op = "save"
      <4>1. call.dto \in Profile!Rows /\ call.wants \in SUBSET Profile!Fields /\ call.knew \in Profile!Rows
        BY <1>3, <3>1, AskCarries
      <4>2. r \in [op : {"save"}, dto : Profile!Rows, wants : SUBSET Profile!Fields,
                   read : Profile!Reads, knew : Profile!Rows]
        BY <1>2, <3>1, <4>1
      <4>3. QED
        BY <4>2 DEF Profile!Requests
    <3>2. CASE call.op = "upload"
      <4>1. call.dto \in [{"resumeText"} -> {"read"}] /\ call.wants = {"resumeText"}
        BY <1>3, <3>2, AskCarries
      <4>2. r \in [op : {"upload"}, dto : [{"resumeText"} -> {"read"}], wants : {{"resumeText"}},
                   read : Profile!Reads, knew : Profile!Rows]
        BY <1>2, <2>1, <3>2, <4>1
      <4>3. QED
        BY <4>2 DEF Profile!Requests
    <3>3. QED
      BY <1>1, <1>3, <3>1, <3>2, AskCarries
  <2>3. Meant(r) /\ r.read = row /\ r.op \notin {"found", "fill"}
    BY <1>1, <1>3, AskCarries DEF Meant
  <2> HIDE DEF r
  <2>4. QED
    BY <1>1, <1>5, <2>2, <2>3, FindKeeps
<1>6. QED
  BY <1>1, <1>4, <1>5

\* The update that fills the form finds the row again.
LEMMA FindAgainStep ==
    ASSUME ProfileInv, NEW t \in Tabs, Profile!FindAgain(t)
    PROVE ProfileInv'
<1> DEFINE r == [[request[t] EXCEPT !.op = "fill"] EXCEPT !.read = row]
<1>1. /\ request[t] # Idle /\ request[t].op = "found"
      /\ request' = [request EXCEPT ![t].op = "fill", ![t].read = row]
      /\ UNCHANGED <<row, page, asked, typed, told, unsure>>
  BY DEF Profile!FindAgain
<1>2. request[t] \in Profile!Requests /\ row \in Profile!Reads
      /\ request \in [Tabs -> Profile!Requests \union {Idle}]
  BY <1>1 DEF ProfileInv, Profile!TypeOK
<1>3. request' = [request EXCEPT ![t] = r]
  BY <1>1, <1>2
<1>4. /\ r \in Profile!Requests /\ r.read = row /\ r.op = "fill"
      /\ r.knew = request[t].knew
  BY <1>1, <1>2 DEF Profile!Requests
<1>5. Meant(r) /\ r.knew["titles"] = "" /\ asked[t] # <<>>
  BY <1>1, <1>4 DEF Meant, ProfileInv, Wanted
<1> HIDE DEF r
<1>6. QED
  BY <1>1, <1>3, <1>4, <1>5, FindKeeps

\* A CV fills a field that is empty, answers what is stored when none is, and is refused
\* when it has no text.
LEMMA ApplyStep ==
    ASSUME ProfileInv, NEW t \in Tabs, Profile!Apply(t)
    PROVE ProfileInv'
<1> DEFINE held == Profile!Response(row)
           dto == Profile!Propose("titles", held.titles, held.resumeText)
           r == [op |-> "found", dto |-> dto, wants |-> {}, read |-> row, knew |-> held]
<1>1. request[t] = Idle /\ asked[t] # <<>>
  BY DEF Profile!Apply
<1>2. /\ row \in Profile!Reads /\ held \in Profile!Rows /\ unsure \in [Tabs -> BOOLEAN]
  BY Answers DEF ProfileInv, Profile!TypeOK
<1>3. CASE Profile!Refuse(t)
  BY <1>1, <1>3, RefuseKeeps
<1>4. CASE /\ Profile!Answered(t) /\ Profile!AdoptAnswer(t, "fill", held) /\ row' = row
           /\ unsure' = [unsure EXCEPT ![t] = Profile!Unsure(t, "fill")]
  <2>1. Profile!Unsure(t, "fill") \in BOOLEAN
    BY <1>2 DEF Profile!Unsure
  <2>2. /\ unsure' \in [Tabs -> BOOLEAN] /\ unsure'[t] = Profile!Unsure(t, "fill")
        /\ \A u \in Tabs \ {t} : unsure'[u] = unsure[u]
    BY <1>2, <1>4, <2>1
  <2>3. row' \in Profile!Reads /\ Neat(row') /\ Profile!Response(row') = held
    BY <1>2, <1>4 DEF ProfileInv
  <2> HIDE DEF held
  <2>4. QED
    BY <1>1, <1>2, <1>4, <2>2, <2>3, AdoptKeeps DEF held
<1>5. CASE /\ DOMAIN dto # {} /\ request' = [request EXCEPT ![t] = r]
           /\ UNCHANGED <<row, page, asked, typed, told, unsure>>
  <2>1. dto \in [{"titles"} -> {"read"}] /\ held["titles"] = ""
    <3>1. <<>> \in Seq({}) /\ Len(<<>>) = 0
      BY EmptySeq
    <3>2. DOMAIN <<>> = {}
      BY <3>1
    <3>3. dto # <<>>
      BY <1>5, <3>2
    <3>4. Profile!Read(held.resumeText) = "read" /\ held.titles = ""
      BY <3>3 DEF Profile!Propose, Profile!Read
    <3>5. QED
      BY <3>4 DEF Profile!Propose
  <2> HIDE DEF dto
  <2>2. r \in [op : {"found", "fill"}, dto : [{"titles"} -> {"read"}], wants : {{}},
               read : Profile!Reads, knew : Profile!Rows]
    BY <1>2, <2>1
  <2>3. r \in Profile!Requests
    BY <2>2 DEF Profile!Requests
  <2>4. Meant(r) /\ r.read = row /\ r.knew["titles"] = ""
    BY <2>1 DEF Meant
  <2> HIDE DEF r
  <2>5. QED
    BY <1>1, <1>5, <2>3, <2>4, FindKeeps
<1>6. QED
  BY <1>3, <1>4, <1>5 DEF Profile!Apply

\* What a request stores: it answers a call, and goes by what it read.
LEMMA Storing ==
    ASSUME ProfileInv, NEW t \in Tabs, request[t] # Idle
    PROVE LET r == request[t]
              answer == Profile!Update(r.read, r.dto)
          IN /\ r \in Profile!Requests /\ asked[t] # <<>> /\ Meant(r)
             /\ answer \in Profile!Rows /\ answer \in Profile!Reads /\ Neat(answer)
             /\ Profile!Response(answer) = answer
             /\ \A f \in Profile!Fields :
                    answer[f] = IF f \in DOMAIN r.dto THEN Profile!Clean(r.dto[f])
                                ELSE Profile!Response(r.read)[f]
             /\ r.op = "save" => r.dto \in Profile!Rows
             /\ r.op = "upload" => DOMAIN r.dto = {"resumeText"} /\ r.wants = {"resumeText"}
             /\ r.op \in {"found", "fill"} => DOMAIN r.dto = {"titles"} /\ r.knew["titles"] = ""
             /\ r.op \in {"save", "upload", "found", "fill"}
<1> DEFINE r == request[t]
           answer == Profile!Update(r.read, r.dto)
<1>1. r \in Profile!Requests
  BY DEF ProfileInv, Profile!TypeOK
<1>2. /\ asked[t] # <<>> /\ Neat(r.read) /\ Meant(r)
      /\ r.op \in {"found", "fill"} => r.knew["titles"] = ""
  BY DEF ProfileInv, Wanted
<1>3. /\ r.op \in {"save", "upload", "found", "fill"} /\ r.read \in Profile!Reads
      /\ r.op = "save" => r.dto \in Profile!Rows
      /\ r.op = "upload" => r.dto \in [{"resumeText"} -> {"read"}] /\ r.wants = {"resumeText"}
      /\ r.op \in {"found", "fill"} => r.dto \in [{"titles"} -> {"read"}]
  BY <1>1, AskCarries
<1> HIDE DEF r
<1>4. r.dto \in Profile!Rows \union [{"resumeText"} -> {"read"}] \union [{"titles"} -> {"read"}]
  BY <1>3
<1>5. /\ answer \in Profile!Rows /\ Neat(answer)
      /\ \A f \in Profile!Fields :
            answer[f] = IF f \in DOMAIN r.dto THEN Profile!Clean(r.dto[f])
                        ELSE Profile!Response(r.read)[f]
  BY <1>2, <1>3, <1>4, Updated
<1> HIDE DEF answer
<1>6. answer \in Profile!Reads /\ Profile!Response(answer) = answer
  BY <1>5, Answers DEF Profile!Reads
<1>7. QED
  BY <1>1, <1>2, <1>3, <1>5, <1>6 DEF r, answer

\* The row is saved and the answer reaches the tab, or is lost; or another row was inserted.
LEMMA StoreStep ==
    ASSUME ProfileInv, NEW t \in Tabs, Profile!Store(t)
    PROVE ProfileInv'
<1> DEFINE r == request[t]
           answer == Profile!Update(r.read, r.dto)
<1>1. /\ request[t] # Idle
      /\ \/ Profile!Refuse(t)
         \/ /\ row' = answer /\ Profile!Answered(t)
            /\ \/ /\ Profile!AdoptAnswer(t, r.op, answer)
                  /\ unsure' = [u \in Tabs |-> IF u = t THEN Profile!Unsure(t, r.op)
                                              ELSE unsure[u] \/ answer # Profile!Response(row)]
               \/ /\ UNCHANGED <<page, typed, told>>
                  /\ unsure' = [u \in Tabs |-> unsure[u] \/ u = t \/ answer # Profile!Response(row)]
  BY DEF Profile!Store
<1>2. /\ asked[t] # <<>>
      /\ answer \in Profile!Rows /\ answer \in Profile!Reads /\ Neat(answer)
      /\ Profile!Response(answer) = answer
      /\ \A f \in Profile!Fields :
            answer[f] = IF f \in DOMAIN r.dto THEN Profile!Clean(r.dto[f])
                        ELSE Profile!Response(r.read)[f]
      /\ r.op = "upload" => DOMAIN r.dto = {"resumeText"}
  BY <1>1, Storing
<1>3. unsure \in [Tabs -> BOOLEAN]
  BY DEF ProfileInv, Profile!TypeOK
<1>4. CASE Profile!Refuse(t)
  BY <1>2, <1>4, RefuseKeeps
<1>5. r.op = "upload" /\ ~unsure[t] =>
        \A f \in Profile!Fields \ {"resumeText"} : answer[f] = Profile!Response(row)[f]
  <2>1. ~unsure[t] => Profile!Response(r.read) = Profile!Response(row)
    BY <1>1 DEF ProfileInv, Sure
  <2>2. QED
    BY <1>2, <2>1
<1> HIDE DEF answer
<1>6. CASE /\ row' = answer /\ Profile!Answered(t) /\ Profile!AdoptAnswer(t, r.op, answer)
           /\ unsure' = [u \in Tabs |-> IF u = t THEN Profile!Unsure(t, r.op)
                                       ELSE unsure[u] \/ answer # Profile!Response(row)]
  <2>1. Profile!Unsure(t, r.op) \in BOOLEAN
    BY <1>3 DEF Profile!Unsure
  <2>2. /\ unsure' \in [Tabs -> BOOLEAN] /\ unsure'[t] = Profile!Unsure(t, r.op)
        /\ \A u \in Tabs \ {t} : ~unsure'[u] => ~unsure[u] /\ answer = Profile!Response(row)
    BY <1>3, <1>6, <2>1
  <2> DEFINE op == r.op
  <2>3. op = "upload" /\ ~unsure[t] =>
            \A f \in Profile!Fields \ {"resumeText"} : answer[f] = Profile!Response(row)[f]
    BY <1>5
  <2>4. Profile!AdoptAnswer(t, op, answer) /\ unsure'[t] = Profile!Unsure(t, op)
    BY <1>6, <2>2
  <2> HIDE DEF op
  <2>5. row' \in Profile!Reads /\ Neat(row') /\ Profile!Response(row') = answer
    BY <1>2, <1>6
  <2>6. QED
    BY <1>2, <1>6, <2>2, <2>3, <2>4, <2>5, AdoptKeeps
<1>7. CASE /\ row' = answer /\ Profile!Answered(t) /\ UNCHANGED <<page, typed, told>>
           /\ unsure' = [u \in Tabs |-> unsure[u] \/ u = t \/ answer # Profile!Response(row)]
  <2>1. /\ asked' \in [Tabs -> Seq(Profile!Asks)]
        /\ request' \in [Tabs -> Profile!Requests \union {Idle}]
        /\ Wanted(t)' /\ Newest(t)'
        /\ \A u \in Tabs \ {t} : asked'[u] = asked[u] /\ request'[u] = request[u]
    BY <1>2, <1>7, CallOver
  <2>2. /\ unsure' \in [Tabs -> BOOLEAN] /\ unsure'[t]
        /\ \A u \in Tabs \ {t} : ~unsure'[u] => ~unsure[u] /\ answer = Profile!Response(row)
    BY <1>3, <1>7
  <2>3. Profile!TypeOK'
    BY <1>2, <1>7, <2>1, <2>2 DEF ProfileInv, Profile!TypeOK
  <2>4. Untyped(t)' /\ Sure(t)'
    BY <1>7, <2>2 DEF ProfileInv, Untyped, Sure
  <2>5. Profile!Response(row') = answer /\ Neat(row')
    BY <1>2, <1>7
  <2>6. Neat(row)'
    BY <2>5 DEF Neat
  <2>7. \A u \in Tabs \ {t} : Untyped(u)' /\ Wanted(u)' /\ Newest(u)' /\ Sure(u)'
    BY <1>7, <2>1, <2>2, <2>5, TabStays
  <2>8. QED
    BY <2>1, <2>3, <2>4, <2>6, <2>7 DEF ProfileInv
<1>8. QED
  BY <1>1, <1>4, <1>6, <1>7

-----------------------------------------------------------------------------

\* Every tab begins with what is stored.
LEMMA ProfileBegins ==
    ASSUME Profile!Init
    PROVE ProfileInv
<1>1. /\ row \in {NoRow, [Profile!Blank EXCEPT !.resumeText = "mine"]}
      /\ page = [t \in Tabs |-> [saved |-> Profile!Response(row), form |-> Profile!Response(row)]]
      /\ asked = [t \in Tabs |-> <<>>] /\ request = [t \in Tabs |-> Idle]
      /\ typed = [t \in Tabs |-> {}] /\ told = [t \in Tabs |-> Profile!Response(row)]
      /\ unsure = [t \in Tabs |-> FALSE]
  BY DEF Profile!Init
<1> DEFINE given == [Profile!Blank EXCEPT !.resumeText = "mine"]
<1>2. /\ given \in Profile!Rows /\ \A f \in Profile!Fields : given[f] \in {"", "mine"}
  BY DEF Profile!Blank, Profile!Rows, Profile!Values, Profile!Fields
<1> HIDE DEF given
<1>3. row \in Profile!Reads /\ Neat(row)
  <2>1. Profile!Response(given) = given
    BY <1>2, Answers
  <2>2. Neat(given)
    BY <1>2, <2>1 DEF Neat, Profile!Clean
  <2>3. QED
    BY <1>1, <1>2, <2>2, Answers DEF given, Profile!Reads
<1>4. Profile!Response(row) \in Profile!Rows
  BY <1>3, Answers
<1>5. <<>> \in Seq(Profile!Asks) /\ DOMAIN <<>> = {}
  <2>1. <<>> \in Seq({}) /\ Len(<<>>) = 0
    BY EmptySeq
  <2>2. QED
    BY <2>1
<1>6. Profile!TypeOK
  BY <1>1, <1>3, <1>4, <1>5 DEF Profile!TypeOK, Profile!Pages
<1>7. ASSUME NEW t \in Tabs
      PROVE Untyped(t) /\ Wanted(t) /\ Newest(t) /\ Sure(t)
  <2>1. /\ page[t].saved = Profile!Response(row) /\ page[t].form = Profile!Response(row)
        /\ DOMAIN asked[t] = {} /\ request[t] = Idle /\ told[t] = Profile!Response(row)
    BY <1>1, <1>5
  <2>2. QED
    BY <2>1 DEF Untyped, Wanted, Newest, Sure
<1>8. QED
  BY <1>3, <1>6, <1>7 DEF ProfileInv

\* Every step of a tab or of the API keeps the profile what it should be.
LEMMA ProfileStep ==
    ASSUME ProfileInv, Profile!Next
    PROVE ProfileInv'
<1>1. PICK t \in Tabs :
        \/ Profile!Load(t) \/ Profile!EditText(t) \/ Profile!EditTokens(t) \/ Profile!EditPicked(t)
        \/ Profile!Save(t) \/ Profile!Upload(t) \/ Profile!Fill(t)
        \/ Profile!Find(t) \/ Profile!Apply(t) \/ Profile!FindAgain(t) \/ Profile!Store(t)
        \/ Profile!StoreFails(t)
  BY DEF Profile!Next
<1>2. CASE Profile!StoreFails(t)
  BY <1>2, Storing, RefuseKeeps DEF Profile!StoreFails
<1>3. QED
  BY <1>1, <1>2, LoadKeeps, EditKeeps, AskKeepsProfile, FindStep, ApplyStep, FindAgainStep, StoreStep

\* And so does a profile that stays as it is.
LEMMA ProfileStays ==
    ASSUME ProfileInv, UNCHANGED profileVars
    PROVE ProfileInv'
<1>1. UNCHANGED <<row, page, asked, request, typed, told, unsure>>
  BY DEF profileVars
<1>2. Profile!TypeOK' /\ Neat(row)'
  BY <1>1 DEF ProfileInv, Profile!TypeOK, Neat
<1>3. \A u \in Tabs : Untyped(u)' /\ Wanted(u)' /\ Newest(u)' /\ Sure(u)'
  BY <1>1, TabStays
<1>4. QED
  BY <1>2, <1>3 DEF ProfileInv

\* The profile is what it should be in every state of every behaviour.
THEOREM ProfileInvariant == Spec => []ProfileInv
<1>1. Init => ProfileInv
  BY ProfileBegins DEF Init
<1>2. ProfileInv /\ [Next]_vars => ProfileInv'
  BY ProfileStep, ProfileStays DEF Next, vars
<1>3. QED
  BY <1>1, <1>2, PTL DEF Spec

\* Only a store changes the preference.
LEMMA OnlyStores ==
    ASSUME ProfileInv, [Next]_vars, row' # row
    PROVE \E t \in Tabs : Profile!Store(t)
<1>1. CASE Profile!Next
  BY <1>1 DEF Profile!Next, Profile!Load, Profile!EditText, Profile!EditTokens, Profile!EditPicked,
     Profile!Put, Profile!Save, Profile!Upload, Profile!Fill, Profile!Find, Profile!Apply,
     Profile!FindAgain, Profile!StoreFails, Profile!Refuse
<1>2. QED
  BY <1>1 DEF Next, vars, profileVars

\* A field that a store changes was meant to change, empty and filled, or no longer what the
\* request went by.
LEMMA StoresWhatIsMeant ==
    ASSUME ProfileInv, NEW t \in Tabs, Profile!Store(t), NEW f \in Profile!Fields,
           Profile!Response(row)[f] # Profile!Response(row')[f]
    PROVE /\ request[t] # Idle /\ request'[t] = Idle
          /\ \/ f \in request[t].wants
             \/ request[t].op = "fill" /\ Profile!Response(row)[f] = ""
             \/ Profile!Response(row)[f] # request[t].knew[f]
             \/ Profile!Response(row)[f] # Profile!Response(request[t].read)[f]
<1> DEFINE r == request[t]
           answer == Profile!Update(r.read, r.dto)
<1>1. r # Idle /\ r.op # "found" /\ row' = answer /\ Profile!Answered(t)
  BY DEF Profile!Store, Profile!Refuse
<1>2. /\ asked[t] # <<>> /\ Meant(r) /\ Profile!Response(answer) = answer
      /\ \A g \in Profile!Fields :
            answer[g] = IF g \in DOMAIN r.dto THEN Profile!Clean(r.dto[g])
                        ELSE Profile!Response(r.read)[g]
      /\ r.op = "upload" => DOMAIN r.dto = {"resumeText"} /\ r.wants = {"resumeText"}
      /\ r.op \in {"found", "fill"} => DOMAIN r.dto = {"titles"} /\ r.knew["titles"] = ""
      /\ r.op \in {"save", "upload", "found", "fill"}
  BY <1>1, Storing
<1>3. request'[t] = Idle
  BY <1>2, <1>1, CallOver
<1>4. answer[f] # Profile!Response(row)[f]
  BY <1>1, <1>2
<1>5. Profile!Clean(Profile!Response(row)[f]) = Profile!Response(row)[f]
  BY DEF ProfileInv, Neat
<1> HIDE DEF answer
<1>6. CASE f \notin DOMAIN r.dto
  BY <1>1, <1>2, <1>3, <1>4, <1>6
<1>7. CASE f \in DOMAIN r.dto /\ r.op = "save"
  <2>1. f \notin r.wants => r.dto[f] = r.knew[f]
    BY <1>2, <1>7 DEF Meant
  <2>2. answer[f] = Profile!Clean(r.dto[f])
    BY <1>2, <1>7
  <2>3. QED
    BY <1>1, <1>3, <1>4, <1>5, <2>1, <2>2
<1>8. CASE f \in DOMAIN r.dto /\ r.op = "upload"
  BY <1>1, <1>2, <1>3, <1>8
<1>9. CASE f \in DOMAIN r.dto /\ r.op = "fill"
  BY <1>1, <1>2, <1>3, <1>9
<1>10. QED
  BY <1>1, <1>2, <1>6, <1>7, <1>8, <1>9

\* A field of the preference changes only by a request that was made for it, or that went by
\* what another has changed since, and a form at rest holds what is stored: for any tabs and
\* any number of edits, saves, uploads and page loads.
THEOREM ProfileTruth == Spec => ProfileTellsTruth
<1>1. ProfileInv => Profile!TypeOK /\ Profile!FormTellsTruth
  <2> SUFFICES ASSUME ProfileInv, NEW t \in Tabs, asked[t] = <<>>, typed[t] = {}, ~unsure[t]
               PROVE page[t].form = Profile!Response(row) /\ ~Profile!Dirty(t)
    BY DEF ProfileInv, Profile!FormTellsTruth
  <2>1. /\ page[t].saved = Profile!Response(row)
        /\ \A f \in Profile!Fields : page[t].form[f] = Profile!Response(row)[f]
    BY DEF ProfileInv, Sure
  <2>2. page[t].form \in Profile!Rows /\ Profile!Response(row) \in Profile!Rows
    BY Answers DEF ProfileInv, Profile!TypeOK, Profile!Pages
  <2>3. page[t].form = Profile!Response(row)
    BY <2>1, <2>2 DEF Profile!Rows
  <2>4. QED
    BY <2>1, <2>3 DEF Profile!Dirty
<1>2. ASSUME ProfileInv, [Next]_vars, NEW f \in Profile!Fields,
             Profile!Response(row)[f] # Profile!Response(row')[f]
      PROVE \E t \in Tabs :
                /\ request[t] # Idle /\ request'[t] = Idle
                /\ \/ f \in request[t].wants
                   \/ request[t].op = "fill" /\ Profile!Response(row)[f] = ""
                   \/ Profile!Response(row)[f] # request[t].knew[f]
                   \/ Profile!Response(row)[f] # Profile!Response(request[t].read)[f]
  <2>1. PICK t \in Tabs : Profile!Store(t)
    BY <1>2, OnlyStores
  <2>2. QED
    BY <1>2, <2>1, StoresWhatIsMeant
<1>3. ProfileInv /\ [Next]_vars =>
        [\A f \in Profile!Fields : Profile!Response(row)[f] # Profile!Response(row')[f] =>
            \E t \in Tabs :
                /\ request[t] # Idle /\ request'[t] = Idle
                /\ \/ f \in request[t].wants
                   \/ request[t].op = "fill" /\ Profile!Response(row)[f] = ""
                   \/ Profile!Response(row)[f] # request[t].knew[f]
                   \/ Profile!Response(row)[f] # Profile!Response(request[t].read)[f]]_(Profile!vars)
  BY <1>2
<1>4. QED
  BY <1>1, <1>3, ProfileInvariant, PTL
     DEF Spec, ProfileTellsTruth, Profile!ProfileTellsTruth, Profile!ProfileKeeps

-----------------------------------------------------------------------------
(* Lists that are filtered. *)

\* A set of numbers that is not empty has a least one.
LEMMA LeastNumber ==
    ASSUME NEW S \in SUBSET Nat, S # {}
    PROVE \E x \in S : \A y \in S : x =< y
<1> DEFINE Less == {ss \in Nat \X Nat : ss[1] < ss[2]}
<1>1. IsWellFoundedOn(Less, Nat)
  BY NatLessThanWellFounded, Zenon DEF OpToRel
<1>2. PICK x \in S : \A y \in S : <<y, x>> \notin Less
  <2> HIDE DEF Less
  <2>1. QED
    BY <1>1, WFMin
<1>3. ASSUME NEW y \in S
      PROVE x =< y
  <2>1. x \in Nat /\ y \in Nat /\ ~(y < x)
    BY <1>2
  <2>2. QED
    BY <2>1
<1>4. QED
  BY <1>3

\* A set that has zero and the successor of each number it has has them all.
LEMMA Climb ==
    ASSUME NEW S, 0 \in S, \A n \in Nat : n \in S => n + 1 \in S
    PROVE  Nat \subseteq S
<1> DEFINE Bad == {n \in Nat : n \notin S}
<1>1. SUFFICES ASSUME Bad # {} PROVE FALSE
  OBVIOUS
<1>2. PICK m \in Bad : \A k \in Bad : m =< k
  <2> HIDE DEF Bad
  <2>1. Bad \in SUBSET Nat
    BY DEF Bad
  <2>2. QED
    BY <1>1, <2>1, LeastNumber
<1>3. m \in Nat /\ m # 0 /\ m \notin S
  OBVIOUS
<1>4. m - 1 \in Nat /\ (m - 1) + 1 = m
  BY <1>3
<1>5. m - 1 \notin Bad
  <2> HIDE DEF Bad
  <2>1. QED
    BY <1>2, <1>3, <1>4
<1>6. QED
  BY <1>3, <1>4, <1>5

\* The greatest of the first n numbers is n, and what comes before are the first n - 1.
First(n) == 1 .. n
Last(s) == CHOOSE x \in s : \A y \in s : x >= y
LEMMA LastOfFirst ==
    ASSUME NEW n \in Nat, n # 0
    PROVE  Last(First(n)) = n /\ First(n) \ {Last(First(n))} = First(n - 1)
<1>1. n \in First(n) /\ \A y \in First(n) : n >= y
  BY DEF First
<1>2. \A x \in First(n) : (\A y \in First(n) : x >= y) => x = n
  BY DEF First
<1>3. Last(First(n)) = n
  BY <1>1, <1>2 DEF Last
<1>4. QED
  BY <1>3 DEF First

\* The last place of a set is one of it, and the rest is smaller by one.
LEMMA RestIsSmaller ==
    ASSUME NEW n \in Nat, NEW s \in SUBSET (1 .. n), s # {}
    PROVE /\ Last(s) \in s /\ s \ {Last(s)} \in SUBSET (1 .. n)
          /\ Cardinality(s) \in Nat /\ Cardinality(s \ {Last(s)}) = Cardinality(s) - 1
<1> DEFINE Left == {n - x : x \in s}
<1>0. IsFiniteSet(1 .. n)
  BY FS_Interval
<1>1. Left \in SUBSET Nat /\ Left # {}
  <2>1. \A x \in s : n - x \in Nat
    OBVIOUS
  <2>2. PICK x : x \in s
    OBVIOUS
  <2>3. QED
    BY <2>1, <2>2
<1>2. PICK m \in Left : \A y \in Left : m =< y
  <2> HIDE DEF Left
  <2>1. QED
    BY <1>1, LeastNumber
<1>3. PICK x \in s : m = n - x
  BY <1>2
<1>4. ASSUME NEW y \in s
      PROVE  x >= y
  <2>1. n - x =< n - y
    BY <1>2, <1>3
  <2>2. x \in Int /\ y \in Int
    OBVIOUS
  <2>3. QED
    BY <2>1, <2>2
<1>5. Last(s) \in s
  BY <1>4 DEF Last
<1>6. IsFiniteSet(s)
  BY <1>0, FS_Subset
<1>7. QED
  BY <1>5, <1>6, FS_CardinalityType, FS_RemoveElement

\* The list with one more, if that is one of some.
Longer(kept, e, some) == IF e \in some THEN Append(kept, e) ELSE kept

\* g takes the elements of a list at each set of places, the last one last.
Walks(g, seq, some) ==
    g = [s \in SUBSET DOMAIN seq |->
            IF s = {} THEN <<>> ELSE Longer(g[s \ {Last(s)}], seq[Last(s)], some)]

\* What Kept makes of a list is what such a function makes of all its places.
LEMMA KeptWalks ==
    ASSUME NEW seq, NEW some, NEW g, Walks(g, seq, some)
    PROVE  \E h : Walks(h, seq, some) /\ Docs!Kept(seq, some) = h[DOMAIN seq]
<1> DEFINE it == CHOOSE h : Walks(h, seq, some)
<1>1. Walks(it, seq, some)
  OBVIOUS
<1>2. Docs!Kept(seq, some) = it[DOMAIN seq]
  BY DEF Docs!Kept, Docs!FoldLeft, Docs!MapThenFoldSet, Walks, Longer, Last, Docs!Max
<1>3. QED
  BY <1>1, <1>2

\* There is such a function: one that is right of the sets of up to m places gives one that
\* is right of those of up to m + 1.
LEMMA WalkExists ==
    ASSUME NEW n \in Nat, NEW seq, DOMAIN seq = 1 .. n, NEW some
    PROVE \E g : Walks(g, seq, some)
<1> DEFINE S == 1 .. n
           Of(g, s) == IF s = {} THEN <<>> ELSE Longer(g[s \ {Last(s)}], seq[Last(s)], some)
           Right(g, m) == \A s \in SUBSET S : Cardinality(s) <= m => g[s] = Of(g, s)
           Good == {m \in Nat : \E g : Right(g, m)}
<1>0. IsFiniteSet(S)
  BY FS_Interval
<1>1. 0 \in Good
  <2> DEFINE g == [s \in SUBSET S |-> <<>>]
  <2>1. ASSUME NEW s \in SUBSET S, Cardinality(s) <= 0
        PROVE s = {}
    <3>1. IsFiniteSet(s) /\ Cardinality(s) \in Nat
      BY <1>0, FS_Subset, FS_CardinalityType
    <3>2. Cardinality(s) = 0
      BY <2>1, <3>1
    <3>3. QED
      BY <3>1, <3>2, FS_EmptySet
  <2>2. ASSUME NEW s \in SUBSET S, Cardinality(s) <= 0
        PROVE  g[s] = Of(g, s)
    <3>1. s = {} /\ g[s] = <<>>
      BY <2>1, <2>2
    <3> HIDE DEF g
    <3>2. QED
      BY <3>1
  <2> HIDE DEF g
  <2>3. Right(g, 0)
    BY <2>2
  <2> HIDE DEF Right
  <2>4. QED
    BY <2>3
<1>2. ASSUME NEW m \in Nat, m \in Good
      PROVE m + 1 \in Good
  <2>1. PICK g : Right(g, m)
    BY <1>2
  <2> DEFINE h == [s \in SUBSET S |-> Of(g, s)]
  <2>2. ASSUME NEW s \in SUBSET S, Cardinality(s) <= m + 1
        PROVE h[s] = Of(h, s)
    <3>1. CASE s = {}
      BY <3>1
    <3>2. CASE s # {}
      <4>1. s \ {Last(s)} \in SUBSET S /\ Cardinality(s \ {Last(s)}) <= m
        BY <2>2, <3>2, RestIsSmaller
      <4>2. g[s \ {Last(s)}] = h[s \ {Last(s)}]
        BY <2>1, <4>1
      <4>3. h[s] = Longer(g[s \ {Last(s)}], seq[Last(s)], some)
        BY <3>2
      <4> HIDE DEF h
      <4>4. QED
        BY <3>2, <4>2, <4>3
    <3>3. QED
      BY <3>1, <3>2
  <2> HIDE DEF h
  <2>3. Right(h, m + 1)
    BY <2>2
  <2> HIDE DEF Right
  <2>4. QED
    BY <2>3
<1>3. Nat \subseteq Good
  <2> HIDE DEF Good
  <2>1. QED
    BY <1>1, <1>2, Climb
<1>4. PICK g : Right(g, Cardinality(S))
  BY <1>0, <1>3, FS_CardinalityType
<1> DEFINE h == [s \in SUBSET S |-> g[s]]
<1>5. ASSUME NEW s \in SUBSET S
      PROVE h[s] = Of(h, s)
  <2>1. Cardinality(s) <= Cardinality(S)
    BY <1>0, FS_Subset
  <2>2. g[s] = Of(g, s)
    BY <1>4, <2>1
  <2>3. QED
    BY <2>2, RestIsSmaller
<1>6. Walks(h, seq, some)
  BY <1>5 DEF Walks
<1>7. QED
  BY <1>6

\* Two of them agree on the places their lists share.
LEMMA WalksAgree ==
    ASSUME NEW m \in Nat, NEW n \in Nat, n <= m, NEW s, NEW t, DOMAIN s = 1 .. n,
           DOMAIN t = 1 .. m, \A i \in 1 .. n : s[i] = t[i],
           NEW some, NEW g, Walks(g, s, some), NEW h, Walks(h, t, some)
    PROVE  g[First(n)] = h[First(n)]
<1> DEFINE Same == {k \in Nat : k <= n => g[First(k)] = h[First(k)]}
<1>1. 0 \in Same
  <2>1. First(0) = {}
    BY DEF First
  <2>2. g[{}] = <<>> /\ h[{}] = <<>>
    BY DEF Walks
  <2>3. QED
    BY <2>1, <2>2
<1>2. ASSUME NEW k \in Nat, k \in Same
      PROVE  k + 1 \in Same
  <2>1. CASE k + 1 > n
    BY <2>1
  <2>2. CASE k + 1 <= n
    <3>1. /\ First(k + 1) \in SUBSET DOMAIN s /\ First(k + 1) \in SUBSET DOMAIN t
          /\ First(k + 1) # {} /\ k + 1 \in 1 .. n
      <4>1. k + 1 \in First(k + 1) /\ k + 1 \in 1 .. n
        BY <2>2 DEF First
      <4>2. First(k + 1) \subseteq 1 .. n /\ First(k + 1) \subseteq 1 .. m
        BY <2>2 DEF First
      <4>3. QED
        BY <4>1, <4>2
    <3>2. Last(First(k + 1)) = k + 1 /\ First(k + 1) \ {k + 1} = First(k)
      <4>1. k + 1 \in Nat /\ k + 1 # 0 /\ (k + 1) - 1 = k
        OBVIOUS
      <4>2. QED
        BY <4>1, LastOfFirst
    <3>3. g[First(k)] = h[First(k)] /\ s[k + 1] = t[k + 1]
      BY <1>2, <2>2, <3>1
    <3>4. g[First(k + 1)] = Longer(g[First(k)], s[k + 1], some)
      BY <3>1, <3>2 DEF Walks
    <3>5. h[First(k + 1)] = Longer(h[First(k)], t[k + 1], some)
      BY <3>1, <3>2 DEF Walks
    <3>6. QED
      BY <3>3, <3>4, <3>5
  <2>3. QED
    BY <2>1, <2>2
<1>3. Nat \subseteq Same
  <2> HIDE DEF Same
  <2>1. QED
    BY <1>1, <1>2, Climb
<1>4. QED
  BY <1>3

\* Nothing is kept of an empty list; of a list with one more, that too if it is one of some.
LEMMA KeptGrows ==
    ASSUME NEW some
    PROVE  /\ Docs!Kept(<<>>, some) = <<>>
           /\ \A S : \A s \in Seq(S), e \in S :
                  Docs!Kept(Append(s, e), some) = Longer(Docs!Kept(s, some), e, some)
<1>1. Docs!Kept(<<>>, some) = <<>>
  <2>1. DOMAIN <<>> = 1 .. 0 /\ DOMAIN <<>> = {}
    OBVIOUS
  <2>2. PICK g : Walks(g, <<>>, some)
    BY <2>1, WalkExists
  <2>3. PICK h : Walks(h, <<>>, some) /\ Docs!Kept(<<>>, some) = h[DOMAIN <<>>]
    BY <2>2, KeptWalks
  <2>4. h[{}] = <<>>
    BY <2>3 DEF Walks
  <2>5. QED
    BY <2>1, <2>3, <2>4
<1>2. ASSUME NEW S, NEW s \in Seq(S), NEW e \in S
      PROVE  Docs!Kept(Append(s, e), some) = Longer(Docs!Kept(s, some), e, some)
  <2> DEFINE n == Len(s)
             t == Append(s, e)
  <2>1. /\ n \in Nat /\ DOMAIN s = 1 .. n /\ DOMAIN t = 1 .. (n + 1) /\ t[n + 1] = e
        /\ \A i \in 1 .. n : s[i] = t[i]
    BY AppendProperties, LenProperties
  <2> HIDE DEF n, t
  <2>2. PICK g : Walks(g, s, some) /\ Docs!Kept(s, some) = g[First(n)]
    <3>1. PICK f : Walks(f, s, some)
      BY <2>1, WalkExists
    <3>2. QED
      BY <2>1, <3>1, KeptWalks DEF First
  <2>3. PICK h : Walks(h, t, some) /\ Docs!Kept(t, some) = h[First(n + 1)]
    <3>1. PICK f : Walks(f, t, some)
      BY <2>1, WalkExists
    <3>2. QED
      BY <2>1, <3>1, KeptWalks DEF First
  <2>4. g[First(n)] = h[First(n)]
    BY <2>1, <2>2, <2>3, WalksAgree
  <2>5. Last(First(n + 1)) = n + 1 /\ First(n + 1) \ {n + 1} = First(n)
    <3>1. n + 1 \in Nat /\ n + 1 # 0 /\ (n + 1) - 1 = n
      BY <2>1
    <3>2. QED
      BY <3>1, LastOfFirst
  <2>6. First(n + 1) \in SUBSET DOMAIN t /\ First(n + 1) # {}
    <3>1. n + 1 \in First(n + 1)
      BY <2>1 DEF First
    <3>2. First(n + 1) = DOMAIN t
      BY <2>1 DEF First
    <3>3. QED
      BY <3>1, <3>2
  <2>7. h[First(n + 1)] = Longer(h[First(n)], t[n + 1], some)
    BY <2>3, <2>5, <2>6 DEF Walks
  <2>8. QED
    BY <2>1, <2>2, <2>3, <2>4, <2>7 DEF t
<1>3. QED
  BY <1>1, <1>2

\* A set of lists that has the empty one, and with each list the one with one more, has
\* them all.
LEMMA ClimbLists ==
    ASSUME NEW S, NEW G, <<>> \in G, \A s \in Seq(S), e \in S : s \in G => Append(s, e) \in G
    PROVE  Seq(S) \subseteq G
<1> DEFINE Upto == {n \in Nat : \A s \in Seq(S) : Len(s) = n => s \in G}
<1>1. 0 \in Upto
  <2>1. \A s \in Seq(S) : Len(s) = 0 => s = <<>>
    BY EmptySeq
  <2>2. QED
    BY <2>1
<1>2. ASSUME NEW n \in Nat, n \in Upto
      PROVE  n + 1 \in Upto
  <2>1. ASSUME NEW s \in Seq(S), Len(s) = n + 1
        PROVE  s \in G
    <3>1. PICK f \in Seq(S), e \in S : s = Append(f, e)
      <4>1. s # <<>>
        BY <2>1
      <4>2. QED
        BY <4>1, SequenceEmptyOrAppend
    <3>2. f \in G
      <4>1. Len(f) = n
        BY <2>1, <3>1, AppendProperties, LenProperties
      <4>2. QED
        BY <1>2, <4>1
    <3>3. QED
      BY <3>1, <3>2
  <2>2. QED
    BY <2>1
<1>3. Nat \subseteq Upto
  <2> HIDE DEF Upto
  <2>1. QED
    BY <1>1, <1>2, Climb
<1>4. \A s \in Seq(S) : Len(s) \in Nat
  OBVIOUS
<1>5. QED
  BY <1>3, <1>4

\* What is in a list.
Things(l) == {l[i] : i \in DOMAIN l}

\* A list with one more has it beside what it had.
LEMMA OneMore ==
    ASSUME NEW S, NEW l \in Seq(S), NEW e \in S
    PROVE  /\ Things(Append(l, e)) = Things(l) \union {e}
           /\ Len(Append(l, e)) = Len(l) + 1 /\ Append(l, e) \in Seq(S)
<1>1. /\ Append(l, e) \in Seq(S) /\ Len(Append(l, e)) = Len(l) + 1 /\ Len(l) \in Nat
      /\ \A i \in 1 .. Len(l) : Append(l, e)[i] = l[i]
      /\ Append(l, e)[Len(l) + 1] = e
  BY AppendProperties
<1>2. DOMAIN Append(l, e) = (1 .. Len(l)) \union {Len(l) + 1} /\ DOMAIN l = 1 .. Len(l)
  BY <1>1, LenProperties
<1>3. QED
  BY <1>1, <1>2 DEF Things

\* What is kept of a list is a list of no more, of the same things but for those that are
\* not some; all of it is kept when all of it is some.
LEMMA KeptIsPart ==
    ASSUME NEW S, NEW s \in Seq(S), NEW some
    PROVE  /\ Docs!Kept(s, some) \in Seq(S) /\ Len(Docs!Kept(s, some)) <= Len(s)
           /\ Things(Docs!Kept(s, some)) = Things(s) \cap some
<1> DEFINE Part(k, l) == k \in Seq(S) /\ Len(k) <= Len(l) /\ Things(k) = Things(l) \cap some
           G == {l \in Seq(S) : Part(Docs!Kept(l, some), l)}
<1>1. <<>> \in G
  <2>1. Docs!Kept(<<>>, some) = <<>>
    BY KeptGrows
  <2>2. <<>> \in Seq(S) /\ Part(<<>>, <<>>)
    BY EmptySeq DEF Things
  <2> HIDE DEF Part
  <2>3. QED
    BY <2>1, <2>2
<1>2. ASSUME NEW l \in Seq(S), NEW e \in S, l \in G
      PROVE  Append(l, e) \in G
  <2> DEFINE k == Docs!Kept(l, some)
  <2>1. Part(k, l)
    BY <1>2
  <2>2. Docs!Kept(Append(l, e), some) = Longer(k, e, some)
    BY KeptGrows
  <2> HIDE DEF k
  <2>3. Things(Append(l, e)) = Things(l) \union {e} /\ Len(Append(l, e)) = Len(l) + 1 /\ Append(l, e) \in Seq(S)
    BY OneMore
  <2>4. Things(Append(k, e)) = Things(k) \union {e} /\ Len(Append(k, e)) = Len(k) + 1 /\ Append(k, e) \in Seq(S)
    BY <2>1, OneMore
  <2>5. Len(k) \in Nat /\ Len(l) \in Nat
    BY <2>1
  <2>6. Part(Longer(k, e, some), Append(l, e))
    <3>1. CASE e \in some
      BY <2>1, <2>3, <2>4, <2>5, <3>1 DEF Longer
    <3>2. CASE e \notin some
      BY <2>1, <2>3, <2>5, <3>2 DEF Longer
    <3>3. QED
      BY <3>1, <3>2
  <2> HIDE DEF Part
  <2>7. QED
    BY <2>2, <2>3, <2>6
<1>3. Seq(S) \subseteq G
  <2> HIDE DEF G
  <2>1. QED
    BY <1>1, <1>2, ClimbLists
<1>4. QED
  BY <1>3

\* A list with one more at each end, whichever is put there first.
LEMMA BothEnds ==
    ASSUME NEW S, NEW l \in Seq(S), NEW e \in S, NEW x \in S
    PROVE  /\ <<e>> \o Append(l, x) = Append(<<e>> \o l, x)
           /\ <<e>> \o l \in Seq(S) /\ Len(<<e>> \o l) = Len(l) + 1
           /\ (<<e>> \o l)[1] = e /\ \A i \in 1 .. Len(l) : (<<e>> \o l)[i + 1] = l[i]
<1>1. <<e>> \in Seq(S) /\ <<x>> \in Seq(S) /\ Len(<<e>>) = 1 /\ <<e>>[1] = e
  OBVIOUS
<1>2. Append(l, x) = l \o <<x>>
  BY AppendIsConcat
<1>3. /\ <<e>> \o l \in Seq(S) /\ Len(<<e>> \o l) = 1 + Len(l)
      /\ \A i \in 1 .. 1 + Len(l) : (<<e>> \o l)[i] = IF i <= 1 THEN <<e>>[i] ELSE l[i - 1]
  BY <1>1, ConcatProperties, Zenon
<1>4. Append(<<e>> \o l, x) = (<<e>> \o l) \o <<x>>
  BY <1>3, AppendIsConcat
<1>5. <<e>> \o (l \o <<x>>) = (<<e>> \o l) \o <<x>>
  BY <1>1, ConcatAssociative
<1>6. Len(l) \in Nat
  OBVIOUS
<1>7. (<<e>> \o l)[1] = e
  BY <1>1, <1>3, <1>6
<1>8. ASSUME NEW i \in 1 .. Len(l)
      PROVE  (<<e>> \o l)[i + 1] = l[i]
  <2>1. i + 1 \in 1 .. 1 + Len(l) /\ ~(i + 1 <= 1) /\ (i + 1) - 1 = i
    BY <1>6
  <2>2. QED
    BY <1>3, <2>1
<1>9. Len(<<e>> \o l) = Len(l) + 1
  BY <1>3, <1>6
<1>10. QED
  BY <1>2, <1>3, <1>4, <1>5, <1>7, <1>8, <1>9

\* What is kept of a list with one more before it: that too, if it is one of some.
LEMMA KeptFirst ==
    ASSUME NEW S, NEW s \in Seq(S), NEW e \in S, NEW some
    PROVE  Docs!Kept(<<e>> \o s, some) =
               IF e \in some THEN <<e>> \o Docs!Kept(s, some) ELSE Docs!Kept(s, some)
<1> DEFINE Put(k) == IF e \in some THEN <<e>> \o k ELSE k
           G == {l \in Seq(S) : Docs!Kept(<<e>> \o l, some) = Put(Docs!Kept(l, some))}
<1>1. <<>> \in G
  <2>1. <<e>> \o <<>> = Append(<<>>, e) /\ <<>> \in Seq(S)
    BY EmptySeq, AppendIsConcat
  <2>2. Docs!Kept(Append(<<>>, e), some) = Longer(Docs!Kept(<<>>, some), e, some)
    BY <2>1, KeptGrows
  <2>3. Docs!Kept(<<>>, some) = <<>>
    BY KeptGrows
  <2>4. Longer(<<>>, e, some) = Put(<<>>)
    BY <2>1 DEF Longer
  <2> HIDE DEF Put
  <2>5. QED
    BY <2>1, <2>2, <2>3, <2>4
<1>2. ASSUME NEW l \in Seq(S), NEW x \in S, l \in G
      PROVE  Append(l, x) \in G
  <2> DEFINE k == Docs!Kept(l, some)
  <2>1. Docs!Kept(Append(l, x), some) = Longer(k, x, some)
    BY KeptGrows
  <2>2. <<e>> \o l \in Seq(S) /\ <<e>> \o Append(l, x) = Append(<<e>> \o l, x) /\ Append(l, x) \in Seq(S)
    BY BothEnds, AppendProperties
  <2>3. Docs!Kept(<<e>> \o Append(l, x), some) = Longer(Put(k), x, some)
    <3>1. Docs!Kept(Append(<<e>> \o l, x), some) = Longer(Docs!Kept(<<e>> \o l, some), x, some)
      BY <2>2, KeptGrows
    <3>2. QED
      BY <1>2, <2>2, <3>1
  <2>4. k \in Seq(S)
    BY KeptIsPart
  <2> HIDE DEF k
  <2>5. Longer(Put(k), x, some) = Put(Longer(k, x, some))
    BY <2>4, BothEnds DEF Longer
  <2> HIDE DEF Put
  <2>6. QED
    BY <2>1, <2>2, <2>3, <2>5
<1>3. Seq(S) \subseteq G
  <2> HIDE DEF G
  <2>1. QED
    BY <1>1, <1>2, ClimbLists
<1>4. QED
  BY <1>3

\* A list of which all is some is kept whole.
LEMMA KeptWhole ==
    ASSUME NEW S, NEW s \in Seq(S), NEW some
    PROVE  Things(s) \subseteq some => Docs!Kept(s, some) = s
<1> DEFINE G == {l \in Seq(S) : Things(l) \subseteq some => Docs!Kept(l, some) = l}
<1>1. <<>> \in G
  BY KeptGrows, EmptySeq
<1>2. ASSUME NEW l \in Seq(S), NEW x \in S, l \in G
      PROVE  Append(l, x) \in G
  <2>1. Things(Append(l, x)) = Things(l) \union {x} /\ Append(l, x) \in Seq(S)
    BY OneMore
  <2>2. Docs!Kept(Append(l, x), some) = Longer(Docs!Kept(l, some), x, some)
    BY KeptGrows
  <2>3. QED
    BY <1>2, <2>1, <2>2 DEF Longer
<1>3. Seq(S) \subseteq G
  <2> HIDE DEF G
  <2>1. QED
    BY <1>1, <1>2, ClimbLists
<1>4. QED
  BY <1>3

\* Nothing is in a list twice.
Once(l) == \A i, j \in DOMAIN l : l[i] = l[j] => i = j

\* Nor is it in one with one more, if that was not in it.
LEMMA OnceMore ==
    ASSUME NEW S, NEW l \in Seq(S), NEW x \in S
    PROVE  /\ Append(l, x) \in Seq(S)
           /\ Once(Append(l, x)) <=> Once(l) /\ x \notin Things(l)
<1>1. /\ Append(l, x) \in Seq(S) /\ Len(Append(l, x)) = Len(l) + 1 /\ Len(l) \in Nat
      /\ \A i \in 1 .. Len(l) : Append(l, x)[i] = l[i]
      /\ Append(l, x)[Len(l) + 1] = x
  BY AppendProperties
<1>2. DOMAIN Append(l, x) = (1 .. Len(l)) \union {Len(l) + 1} /\ DOMAIN l = 1 .. Len(l)
  BY <1>1, LenProperties
<1>3. Len(l) + 1 \notin 1 .. Len(l)
  BY <1>1
<1>4. QED
  BY <1>1, <1>2, <1>3 DEF Once, Things

\* A list in which nothing is twice has nothing twice when only some of it is kept.
LEMMA KeptOnce ==
    ASSUME NEW S, NEW s \in Seq(S), NEW some
    PROVE  Once(s) => Once(Docs!Kept(s, some))
<1> DEFINE G == {l \in Seq(S) : Once(l) => Once(Docs!Kept(l, some))}
<1>1. <<>> \in G
  BY KeptGrows, EmptySeq
<1>2. ASSUME NEW l \in Seq(S), NEW x \in S, l \in G
      PROVE  Append(l, x) \in G
  <2> DEFINE k == Docs!Kept(l, some)
  <2>1. Append(l, x) \in Seq(S) /\ (Once(Append(l, x)) <=> Once(l) /\ x \notin Things(l))
    BY OnceMore
  <2>2. Docs!Kept(Append(l, x), some) = Longer(k, x, some)
    BY KeptGrows
  <2>3. k \in Seq(S) /\ Things(k) \subseteq Things(l)
    BY KeptIsPart
  <2>4. Once(Append(k, x)) <=> Once(k) /\ x \notin Things(k)
    BY <2>3, OnceMore
  <2>5. Once(l) => Once(k)
    BY <1>2
  <2> HIDE DEF k
  <2>6. Once(Append(l, x)) => Once(Longer(k, x, some))
    BY <2>1, <2>3, <2>4, <2>5 DEF Longer
  <2>7. QED
    BY <2>1, <2>2, <2>6
<1>3. Seq(S) \subseteq G
  <2> HIDE DEF G
  <2>1. QED
    BY <1>1, <1>2, ClimbLists
<1>4. QED
  BY <1>3

-----------------------------------------------------------------------------
(* The documents: what is stored, and the list of the library or of the field. *)

Changes == {"rename", "delete"}

\* A list of files that are stored or were, of which the last has number top.
Known(l, top) == l \in Seq(Docs!Files) /\ \A i \in DOMAIN l : l[i].id <= top

Uploads == [op : {"upload"}, kind : Kinds, left : 0 .. 1, here : BOOLEAN]
Renames == [op : {"rename"}, id : Nat, name : Names, here : BOOLEAN, previous : Seq(Docs!Files)]
Deletes == [op : {"delete"}, id : Nat, here : BOOLEAN, previous : Seq(Docs!Files)]
Fetches == [op : {"fetch"}, here : BOOLEAN]
Attaches == [op : {"attach"}, id : 0 .. MaxFiles, here : BOOLEAN]
Requests == Uploads \union Renames \union Deletes \union Fetches \union Attaches

\* A change says what the list was before it, which had the file it is about.
Brought(task, top) ==
    /\ task \in Requests
    /\ task.op \in Changes => Known(task.previous, top) /\ Docs!Has(task.previous, task.id)

\* A task of the page that is open is one it makes.
Fits(task, on) ==
    /\ task.op \in Changes => on = "library"
    /\ task.op \in {"fetch", "attach"} => on = "dialog"
    /\ task.op = "upload" /\ on = "dialog" => task.kind = Resume

Tasks ==
    /\ tasks \in Seq(Requests)
    /\ \A i \in DOMAIN tasks :
        /\ Brought(tasks[i], ids) /\ (tasks[i].here => Fits(tasks[i], view)) /\ (~unseen => tasks[i].here)

\* What a task makes of a list.
Effect(task, l) ==
    CASE task.op = "rename" -> Docs!Named(l, task.id, task.name)
      [] task.op = "delete" -> Docs!Without(l, task.id)
      [] OTHER -> l

\* The list has a file that the task's did not.
Misses(task, l) == \E k \in 1 .. MaxFiles : Docs!Has(l, k) /\ ~Docs!Has(task.previous, k)

\* From what is stored each task makes the list the next one starts from, and the last
\* the one of the page. A change put back gives the list it was made in, unless an
\* upload came since.
Leads(c, made, had, todo) ==
    /\ c \in [0 .. Len(todo) -> Seq(Docs!Files)] /\ c[0] = had /\ c[Len(todo)] = made
    /\ \A i \in 1 .. Len(todo) :
        /\ c[i] = Effect(todo[i], c[i - 1])
        /\ todo[i].op \in Changes => todo[i].previous = c[i - 1] \/ Misses(todo[i], c[i - 1])

Library == view = "library" /\ ~unseen /\ ~clobbered => \E c : Leads(c, files, stored, tasks)

Asked(l) == l # <<>> /\ Head(l).op = "fetch"

\* The field has the list once it was fetched, and shows a file that can be attached.
Field ==
    view = "dialog" /\ ~unseen =>
        /\ value # 0 => Docs!Attachable(value)
        /\ \A i \in DOMAIN tasks : tasks[i].op = "fetch" => i = 1
        /\ files = IF Asked(tasks) THEN <<>> ELSE Docs!OfKind(stored, Resume)

DocsInv ==
    /\ Docs!TypeOK /\ ids \in 0 .. MaxFiles
    /\ Known(stored, ids) /\ Known(files, ids) /\ Len(stored) <= ids
    /\ Tasks /\ Library /\ Field
    /\ attached # 0 => Docs!Attachable(attached)

\* A list has a file when one of its files has that number.
LEMMA HasIs ==
    ASSUME NEW l, NEW k
    PROVE  Docs!Has(l, k) <=> \E f \in Things(l) : f.id = k
BY DEF Docs!Has, Things

\* Renaming keeps the number of files, their numbers and kinds.
LEMMA NamedIs ==
    ASSUME NEW l \in Seq(Docs!Files), NEW id, NEW name \in Names
    PROVE  /\ Docs!Named(l, id, name) \in Seq(Docs!Files)
           /\ Len(Docs!Named(l, id, name)) = Len(l)
           /\ DOMAIN Docs!Named(l, id, name) = DOMAIN l
           /\ \A i \in DOMAIN l : /\ Docs!Named(l, id, name)[i].id = l[i].id
                                  /\ Docs!Named(l, id, name)[i].kind = l[i].kind
           /\ \A k : Docs!Has(Docs!Named(l, id, name), k) <=> Docs!Has(l, k)
           /\ \A e \in Docs!Files : e.id # id =>
                  Docs!Named(<<e>> \o l, id, name) = <<e>> \o Docs!Named(l, id, name)
<1> DEFINE Re(f) == IF f.id = id THEN [f EXCEPT !.name = name] ELSE f
           m == Docs!Named(l, id, name)
<1>1. DOMAIN l = 1 .. Len(l) /\ Len(l) \in Nat /\ \A i \in 1 .. Len(l) : l[i] \in Docs!Files
  BY LenProperties, ElementOfSeq
<1>2. \A f \in Docs!Files : Re(f) \in Docs!Files /\ Re(f).id = f.id /\ Re(f).kind = f.kind
  BY DEF Docs!Files
<1>3. \A x : Docs!Named(x, id, name) = [i \in DOMAIN x |-> Re(x[i])]
  BY DEF Docs!Named
<1> HIDE DEF Re
<1>4. m = [i \in 1 .. Len(l) |-> Re(l[i])]
  BY <1>1, <1>3
<1>5. m \in Seq(Docs!Files)
  <2>1. \A i \in 1 .. Len(l) : Re(l[i]) \in Docs!Files
    BY <1>1, <1>2
  <2>2. QED
    BY <1>1, <1>4, <2>1, IsASeq
<1>6. DOMAIN m = DOMAIN l /\ Len(m) = Len(l)
  BY <1>1, <1>4, <1>5, LenProperties
<1>7. \A i \in DOMAIN l : m[i].id = l[i].id /\ m[i].kind = l[i].kind
  BY <1>1, <1>2, <1>4
<1>8. \A k : Docs!Has(m, k) <=> Docs!Has(l, k)
  BY <1>6, <1>7 DEF Docs!Has
<1>9. ASSUME NEW e \in Docs!Files, e.id # id
      PROVE  Docs!Named(<<e>> \o l, id, name) = <<e>> \o m
  <2> DEFINE x == <<e>> \o l
             y == <<e>> \o m
             z == Docs!Named(x, id, name)
  <2>1. x \in Seq(Docs!Files) /\ Len(x) = Len(l) + 1 /\ x[1] = e /\ \A i \in 1 .. Len(l) : x[i + 1] = l[i]
    BY BothEnds
  <2>2. y \in Seq(Docs!Files) /\ Len(y) = Len(l) + 1 /\ y[1] = e /\ \A i \in 1 .. Len(l) : y[i + 1] = m[i]
    BY <1>5, <1>6, BothEnds
  <2> HIDE DEF x, y
  <2>3. DOMAIN x = 1 .. Len(x) /\ Len(x) \in Nat /\ \A i \in 1 .. Len(x) : x[i] \in Docs!Files
    BY <2>1, LenProperties, ElementOfSeq
  <2>4. z = [i \in 1 .. Len(x) |-> Re(x[i])]
    BY <1>3, <2>3
  <2>5. z \in Seq(Docs!Files) /\ Len(z) = Len(x)
    <3>1. \A i \in 1 .. Len(x) : Re(x[i]) \in Docs!Files
      BY <1>2, <2>3
    <3>2. z \in Seq(Docs!Files)
      BY <2>3, <2>4, <3>1, IsASeq
    <3>3. QED
      BY <2>3, <2>4, <3>2, LenProperties
  <2>6. ASSUME NEW i \in 1 .. Len(z)
        PROVE  z[i] = y[i]
    <3>1. CASE i = 1
      BY <1>9, <2>1, <2>2, <2>4, <2>5, <3>1 DEF Re
    <3>2. CASE i # 1
      <4>1. i - 1 \in 1 .. Len(l) /\ (i - 1) + 1 = i
        BY <1>1, <2>1, <2>5, <3>2
      <4>2. x[i] = l[i - 1] /\ y[i] = m[i - 1]
        BY <2>1, <2>2, <4>1
      <4>3. QED
        BY <1>4, <2>4, <2>5, <4>1, <4>2
    <3>3. QED
      BY <3>1, <3>2
  <2>7. z = y
    BY <2>1, <2>2, <2>5, <2>6, SeqEqual
  <2>8. QED
    BY <2>7 DEF x, y
<1>10. QED
  BY <1>5, <1>6, <1>7, <1>8, <1>9

\* Deleting leaves the files with other numbers.
LEMMA WithoutIs ==
    ASSUME NEW l \in Seq(Docs!Files), NEW id
    PROVE  /\ Docs!Without(l, id) \in Seq(Docs!Files) /\ Len(Docs!Without(l, id)) <= Len(l)
           /\ Things(Docs!Without(l, id)) = {f \in Things(l) : f.id # id}
           /\ \A e \in Docs!Files : e.id # id =>
                  Docs!Without(<<e>> \o l, id) = <<e>> \o Docs!Without(l, id)
<1> DEFINE some == {f \in Docs!Files : f.id # id}
<1>1. Things(l) \subseteq Docs!Files
  BY LenProperties, ElementOfSeq DEF Things
<1>2. \A x : Docs!Without(x, id) = Docs!Kept(x, some)
  BY DEF Docs!Without
<1>3. ASSUME NEW e \in Docs!Files, e.id # id
      PROVE  Docs!Kept(<<e>> \o l, some) = <<e>> \o Docs!Kept(l, some)
  BY <1>3, KeptFirst
<1>4. Things(l) \cap some = {f \in Things(l) : f.id # id}
  BY <1>1
<1> HIDE DEF some
<1>5. QED
  BY <1>2, <1>3, <1>4, KeptIsPart

\* The files of a kind.
LEMMA OfKindIs ==
    ASSUME NEW l \in Seq(Docs!Files)
    PROVE  /\ Docs!OfKind(l, Resume) \in Seq(Docs!Files)
           /\ Things(Docs!OfKind(l, Resume)) = {f \in Things(l) : f.kind = Resume}
           /\ \A e \in Docs!Files : e.kind = Resume =>
                  Docs!OfKind(<<e>> \o l, Resume) = <<e>> \o Docs!OfKind(l, Resume)
           /\ Docs!OfKind(<<>>, Resume) = <<>>
<1> DEFINE some == {f \in Docs!Files : f.kind = Resume}
<1>1. Things(l) \subseteq Docs!Files
  BY LenProperties, ElementOfSeq DEF Things
<1>2. \A x : Docs!OfKind(x, Resume) = Docs!Kept(x, some)
  BY DEF Docs!OfKind
<1>3. ASSUME NEW e \in Docs!Files, e.kind = Resume
      PROVE  Docs!Kept(<<e>> \o l, some) = <<e>> \o Docs!Kept(l, some)
  BY <1>3, KeptFirst
<1>4. Things(l) \cap some = {f \in Things(l) : f.kind = Resume}
  BY <1>1
<1>5. Docs!Kept(<<>>, some) = <<>>
  BY KeptGrows
<1> HIDE DEF some
<1>6. QED
  BY <1>2, <1>3, <1>4, <1>5, KeptIsPart

\* What a task makes of a list has fewer files by the one deleted.
LEMMA EffectIs ==
    ASSUME NEW top, NEW t, Brought(t, top), NEW l \in Seq(Docs!Files)
    PROVE  /\ Effect(t, l) \in Seq(Docs!Files) /\ Len(Effect(t, l)) <= Len(l)
           /\ t.op \notin Changes => Effect(t, l) = l
           /\ \A k : Docs!Has(Effect(t, l), k) <=> Docs!Has(l, k) /\ ~(t.op = "delete" /\ k = t.id)
<1> USE DEF Changes
<1>1. CASE t.op = "rename"
  <2>1. \A x : Effect(t, x) = Docs!Named(x, t.id, t.name)
    BY <1>1 DEF Effect
  <2>2. t.name \in Names
    BY <1>1 DEF Brought, Requests, Uploads, Renames, Deletes, Fetches, Attaches
  <2>3. Len(Docs!Named(l, t.id, t.name)) <= Len(l)
    <3>1. Len(Docs!Named(l, t.id, t.name)) = Len(l) /\ Len(l) \in Nat
      BY <2>2, NamedIs
    <3>2. QED
      BY <3>1
  <2>4. QED
    BY <1>1, <2>1, <2>2, <2>3, NamedIs
<1>2. CASE t.op = "delete"
  <2>1. \A x : Effect(t, x) = Docs!Without(x, t.id)
    BY <1>2 DEF Effect
  <2>2. \A k : Docs!Has(Docs!Without(l, t.id), k) <=> Docs!Has(l, k) /\ k # t.id
    <3>1. Things(Docs!Without(l, t.id)) = {f \in Things(l) : f.id # t.id}
      BY WithoutIs
    <3>2. QED
      BY <3>1, HasIs
  <2>3. QED
    BY <1>2, <2>1, <2>2, WithoutIs
<1>3. CASE t.op \notin Changes
  <2>1. \A x : Effect(t, x) = x
    BY <1>3 DEF Effect
  <2>2. Len(l) <= Len(l)
    BY LenProperties
  <2>3. QED
    BY <1>3, <2>1, <2>2
<1>4. QED
  BY <1>1, <1>2, <1>3

\* It takes no notice of a file put before the others.
LEMMA EffectBehind ==
    ASSUME NEW top, NEW t, Brought(t, top), NEW l \in Seq(Docs!Files), NEW e \in Docs!Files,
           t.op \in Changes => e.id # t.id
    PROVE  Effect(t, <<e>> \o l) = <<e>> \o Effect(t, l)
<1> USE DEF Changes
<1>1. CASE t.op = "rename"
  <2>1. \A x : Effect(t, x) = Docs!Named(x, t.id, t.name)
    BY <1>1 DEF Effect
  <2>2. t.name \in Names /\ e.id # t.id
    BY <1>1 DEF Brought, Requests, Uploads, Renames, Deletes, Fetches, Attaches
  <2>3. Docs!Named(<<e>> \o l, t.id, t.name) = <<e>> \o Docs!Named(l, t.id, t.name)
    BY <2>2, NamedIs
  <2>4. QED
    BY <2>1, <2>3
<1>2. CASE t.op = "delete"
  <2>1. \A x : Effect(t, x) = Docs!Without(x, t.id)
    BY <1>2 DEF Effect
  <2>2. Docs!Without(<<e>> \o l, t.id) = <<e>> \o Docs!Without(l, t.id)
    BY <1>2, WithoutIs
  <2>3. QED
    BY <2>1, <2>2
<1>3. CASE t.op \notin Changes
  BY <1>3 DEF Effect
<1>4. QED
  BY <1>1, <1>2, <1>3

\* A task that is called starts from the list of the page.
LEMMA LeadsOn ==
    ASSUME NEW c, NEW made, NEW had, NEW S, NEW todo \in Seq(S), Leads(c, made, had, todo),
           NEW top, NEW t, Brought(t, top), t.op \in Changes => t.previous = made
    PROVE  \E d : Leads(d, Effect(t, made), had, Append(todo, t))
<1> DEFINE n == Len(todo)
           m == Append(todo, t)
           d == [i \in 0 .. n + 1 |-> IF i = n + 1 THEN Effect(t, made) ELSE c[i]]
<1>1. n \in Nat /\ Len(m) = n + 1 /\ m[n + 1] = t /\ \A i \in 1 .. n : m[i] = todo[i]
  <2>1. todo \in Seq(S \union {t}) /\ t \in S \union {t}
    BY SeqMonotonic
  <2>2. QED
    BY <2>1, AppendProperties, LenProperties
<1>2. /\ c \in [0 .. n -> Seq(Docs!Files)] /\ c[0] = had /\ c[n] = made
      /\ \A i \in 1 .. n :
          /\ c[i] = Effect(todo[i], c[i - 1])
          /\ todo[i].op \in Changes => todo[i].previous = c[i - 1] \/ Misses(todo[i], c[i - 1])
  BY DEF Leads
<1> HIDE DEF n, m
<1>3. Effect(t, made) \in Seq(Docs!Files)
  <2>1. made \in Seq(Docs!Files)
    BY <1>1, <1>2
  <2>2. QED
    BY <2>1, EffectIs
<1>4. d \in [0 .. n + 1 -> Seq(Docs!Files)]
  BY <1>1, <1>2, <1>3
<1>5. d[n + 1] = Effect(t, made) /\ d[0] = had /\ \A i \in 0 .. n : d[i] = c[i]
  BY <1>1, <1>2
<1> HIDE DEF d
<1>6. ASSUME NEW i \in 1 .. n + 1
      PROVE  /\ d[i] = Effect(m[i], d[i - 1])
             /\ m[i].op \in Changes => m[i].previous = d[i - 1] \/ Misses(m[i], d[i - 1])
  <2>1. CASE i = n + 1
    <3>1. i - 1 = n /\ d[i - 1] = made /\ m[i] = t
      BY <1>1, <1>2, <1>5, <2>1
    <3>2. QED
      BY <1>5, <2>1, <3>1
  <2>2. CASE i # n + 1
    <3>1. i \in 1 .. n /\ i \in 0 .. n /\ i - 1 \in 0 .. n
      BY <1>1, <2>2
    <3>2. d[i] = c[i] /\ d[i - 1] = c[i - 1] /\ m[i] = todo[i]
      BY <1>1, <1>5, <3>1
    <3>3. QED
      BY <1>2, <3>1, <3>2
  <2>3. QED
    BY <2>1, <2>2
<1>7. Leads(d, Effect(t, made), had, m)
  BY <1>1, <1>4, <1>5, <1>6 DEF Leads
<1>8. QED
  BY <1>7 DEF m

\* Once the first task is done, the others start from what it made.
LEMMA LeadsFromNext ==
    ASSUME NEW c, NEW made, NEW had, NEW S, NEW todo \in Seq(S), todo # <<>>,
           Leads(c, made, had, todo)
    PROVE  \E d : Leads(d, made, Effect(Head(todo), had), Tail(todo))
<1> DEFINE n == Len(todo)
           m == Tail(todo)
           d == [i \in 0 .. n - 1 |-> c[i + 1]]
<1>1. n \in Nat /\ n # 0 /\ Len(m) = n - 1 /\ Head(todo) = todo[1] /\ \A i \in 1 .. n - 1 : m[i] = todo[i + 1]
  <2>1. n \in Nat /\ n # 0
    BY EmptySeq
  <2>2. Head(todo) = todo[1]
    BY <2>1
  <2>3. QED
    BY <2>1, <2>2, HeadTailProperties
<1>2. /\ c \in [0 .. n -> Seq(Docs!Files)] /\ c[0] = had /\ c[n] = made
      /\ \A i \in 1 .. n :
          /\ c[i] = Effect(todo[i], c[i - 1])
          /\ todo[i].op \in Changes => todo[i].previous = c[i - 1] \/ Misses(todo[i], c[i - 1])
  BY DEF Leads
<1> HIDE DEF n, m
<1>3. d \in [0 .. n - 1 -> Seq(Docs!Files)] /\ \A i \in 0 .. n - 1 : d[i] = c[i + 1]
  BY <1>1, <1>2
<1> HIDE DEF d
<1>4. d[0] = Effect(Head(todo), had) /\ d[n - 1] = made
  <2>1. 1 \in 1 .. n /\ 0 \in 0 .. n - 1 /\ n - 1 \in 0 .. n - 1 /\ 0 + 1 = 1 /\ 1 - 1 = 0 /\ (n - 1) + 1 = n
    BY <1>1
  <2>2. QED
    BY <1>1, <1>2, <1>3, <2>1
<1>5. ASSUME NEW i \in 1 .. n - 1
      PROVE  /\ d[i] = Effect(m[i], d[i - 1])
             /\ m[i].op \in Changes => m[i].previous = d[i - 1] \/ Misses(m[i], d[i - 1])
  <2>1. i + 1 \in 1 .. n /\ i \in 0 .. n - 1 /\ i - 1 \in 0 .. n - 1 /\ (i - 1) + 1 = i /\ (i + 1) - 1 = i
    BY <1>1
  <2>2. d[i] = c[i + 1] /\ d[i - 1] = c[i] /\ m[i] = todo[i + 1]
    BY <1>1, <1>3, <2>1
  <2>3. QED
    BY <1>2, <2>1, <2>2
<1>6. Leads(d, made, Effect(Head(todo), had), m)
  BY <1>1, <1>3, <1>4, <1>5 DEF Leads
<1>7. QED
  BY <1>6 DEF m

\* A file that no change under way is about or has seen can be put before all lists.
LEMMA LeadsWithOne ==
    ASSUME NEW c, NEW made, NEW had, NEW S, NEW todo \in Seq(S), Leads(c, made, had, todo),
           NEW e \in Docs!Files, e.id \in 1 .. MaxFiles, NEW top,
           \A i \in DOMAIN todo :
               /\ Brought(todo[i], top)
               /\ todo[i].op \in Changes => e.id # todo[i].id /\ ~Docs!Has(todo[i].previous, e.id)
    PROVE  \E d : Leads(d, <<e>> \o made, <<e>> \o had, todo)
<1> DEFINE n == Len(todo)
           d == [i \in 0 .. n |-> <<e>> \o c[i]]
<1>1. n \in Nat /\ DOMAIN todo = 1 .. n
  BY LenProperties
<1>2. /\ c \in [0 .. n -> Seq(Docs!Files)] /\ c[0] = had /\ c[n] = made
      /\ \A i \in 1 .. n :
          /\ c[i] = Effect(todo[i], c[i - 1])
          /\ todo[i].op \in Changes => todo[i].previous = c[i - 1] \/ Misses(todo[i], c[i - 1])
  BY DEF Leads
<1> HIDE DEF n
<1>3. \A i \in 0 .. n : d[i] = <<e>> \o c[i] /\ <<e>> \o c[i] \in Seq(Docs!Files)
  BY <1>2, BothEnds
<1>4. d \in [0 .. n -> Seq(Docs!Files)]
  BY <1>3
<1> HIDE DEF d
<1>5. d[0] = <<e>> \o had /\ d[n] = <<e>> \o made
  <2>1. 0 \in 0 .. n /\ n \in 0 .. n
    BY <1>1
  <2>2. d[0] = <<e>> \o c[0] /\ d[n] = <<e>> \o c[n]
    BY <1>3, <2>1
  <2>3. QED
    BY <1>2, <2>2
<1>6. ASSUME NEW i \in 1 .. n
      PROVE  /\ d[i] = Effect(todo[i], d[i - 1])
             /\ todo[i].op \in Changes => Misses(todo[i], d[i - 1])
  <2>1. i \in 0 .. n /\ i - 1 \in 0 .. n /\ i \in DOMAIN todo
    BY <1>1
  <2>2. d[i] = <<e>> \o c[i] /\ d[i - 1] = <<e>> \o c[i - 1] /\ c[i - 1] \in Seq(Docs!Files)
    BY <1>2, <1>3, <2>1
  <2>3. Effect(todo[i], <<e>> \o c[i - 1]) = <<e>> \o Effect(todo[i], c[i - 1])
    <3>1. Brought(todo[i], top) /\ (todo[i].op \in Changes => e.id # todo[i].id)
      BY <2>1
    <3>2. QED
      BY <2>2, <3>1, EffectBehind
  <2>4. Docs!Has(<<e>> \o c[i - 1], e.id)
    <3>1. /\ <<e>> \o c[i - 1] \in Seq(Docs!Files) /\ Len(<<e>> \o c[i - 1]) = Len(c[i - 1]) + 1
          /\ (<<e>> \o c[i - 1])[1] = e
      BY <2>2, BothEnds
    <3>2. 1 \in DOMAIN (<<e>> \o c[i - 1])
      <4>1. Len(c[i - 1]) \in Nat
        BY <2>2, LenProperties
      <4>2. DOMAIN (<<e>> \o c[i - 1]) = 1 .. Len(<<e>> \o c[i - 1])
        BY <3>1, LenProperties
      <4>3. QED
        BY <3>1, <4>1, <4>2
    <3>3. QED
      BY <3>1, <3>2 DEF Docs!Has
  <2>5. QED
    BY <1>2, <2>1, <2>2, <2>3, <2>4 DEF Misses
<1>7. Leads(d, <<e>> \o made, <<e>> \o had, todo)
  BY <1>1, <1>4, <1>5, <1>6 DEF Leads, Misses
<1>8. QED
  BY <1>7

\* When no change is under way the page has what is stored; and any list leads to itself.
LEMMA LeadsNowhere ==
    ASSUME NEW top, NEW S, NEW todo \in Seq(S),
           \A i \in DOMAIN todo : Brought(todo[i], top) /\ todo[i].op \notin Changes
    PROVE  /\ \A c, made, had : Leads(c, made, had, todo) => made = had
           /\ \A l \in Seq(Docs!Files) : \E c : Leads(c, l, l, todo)
<1> DEFINE n == Len(todo)
<1>1. n \in Nat /\ DOMAIN todo = 1 .. n
  BY LenProperties
<1> HIDE DEF n
<1>2. \A i \in 1 .. n, l \in Seq(Docs!Files) : Effect(todo[i], l) = l
  BY <1>1, EffectIs
<1>3. ASSUME NEW c, NEW made, NEW had, Leads(c, made, had, todo)
      PROVE  made = had
  <2>1. /\ c \in [0 .. n -> Seq(Docs!Files)] /\ c[0] = had /\ c[n] = made
        /\ \A i \in 1 .. n : c[i] = Effect(todo[i], c[i - 1])
    BY <1>3 DEF Leads, n
  <2> DEFINE Same == {i \in Nat : i <= n => c[i] = had}
  <2>2. 0 \in Same
    BY <2>1
  <2>3. ASSUME NEW i \in Nat, i \in Same
        PROVE  i + 1 \in Same
    <3>1. CASE i + 1 <= n
      <4>1. i + 1 \in 1 .. n /\ i \in 0 .. n /\ (i + 1) - 1 = i
        BY <1>1, <3>1
      <4>2. c[i + 1] = Effect(todo[i + 1], c[i]) /\ c[i] \in Seq(Docs!Files) /\ c[i] = had
        BY <1>1, <2>1, <2>3, <4>1
      <4>3. QED
        BY <1>2, <4>1, <4>2
    <3>2. CASE ~(i + 1 <= n)
      BY <3>2
    <3>3. QED
      BY <3>1, <3>2
  <2>4. Nat \subseteq Same
    <3> HIDE DEF Same
    <3>1. QED
      BY <2>2, <2>3, Climb
  <2>5. QED
    BY <1>1, <2>1, <2>4
<1>4. ASSUME NEW l \in Seq(Docs!Files)
      PROVE  \E c : Leads(c, l, l, todo)
  <2> DEFINE c == [i \in 0 .. n |-> l]
  <2>1. c \in [0 .. n -> Seq(Docs!Files)] /\ \A i \in 0 .. n : c[i] = l
    OBVIOUS
  <2> HIDE DEF c
  <2>2. ASSUME NEW i \in 1 .. n
        PROVE  c[i] = Effect(todo[i], c[i - 1]) /\ todo[i].op \notin Changes
    <3>1. i \in 0 .. n /\ i - 1 \in 0 .. n
      BY <1>1
    <3>2. QED
      BY <1>1, <1>2, <2>1, <3>1
  <2>3. Leads(c, l, l, todo)
    BY <1>1, <2>1, <2>2 DEF Leads, n
  <2>4. QED
    BY <2>3
<1>5. QED
  BY <1>3, <1>4

\* What a task is by what it does, and one whose page was left is one.
LEMMA RequestIs ==
    ASSUME NEW t \in Requests
    PROVE  /\ t.op \in {"upload", "rename", "delete", "fetch", "attach"} /\ t.here \in BOOLEAN
           /\ t.op = "upload" => t \in Uploads
           /\ t.op = "rename" => t \in Renames
           /\ t.op = "delete" => t \in Deletes
           /\ t.op = "attach" => t \in Attaches
BY DEF Requests, Uploads, Renames, Deletes, Fetches, Attaches

LEMMA LeftTask ==
    ASSUME NEW top, NEW t, Brought(t, top)
    PROVE  /\ Brought([t EXCEPT !.here = FALSE], top)
           /\ [t EXCEPT !.here = FALSE].here = FALSE /\ [t EXCEPT !.here = FALSE].op = t.op
<1> DEFINE u == [t EXCEPT !.here = FALSE]
<1>1. t \in Requests
  BY DEF Brought
<1>2. CASE t \in Uploads
  BY <1>2 DEF Uploads, Brought, Requests, Changes
<1>3. CASE t \in Renames
  <2>1. /\ u \in Renames /\ u.op = t.op /\ u.here = FALSE /\ u.previous = t.previous /\ u.id = t.id
        /\ t.op = "rename"
    BY <1>3 DEF Renames
  <2> HIDE DEF u
  <2>2. Known(u.previous, top) /\ Docs!Has(u.previous, u.id)
    BY <2>1 DEF Brought, Changes
  <2>3. QED
    BY <2>1, <2>2 DEF Brought, Requests, u
<1>4. CASE t \in Deletes
  <2>1. /\ u \in Deletes /\ u.op = t.op /\ u.here = FALSE /\ u.previous = t.previous /\ u.id = t.id
        /\ t.op = "delete"
    BY <1>4 DEF Deletes
  <2> HIDE DEF u
  <2>2. Known(u.previous, top) /\ Docs!Has(u.previous, u.id)
    BY <2>1 DEF Brought, Changes
  <2>3. QED
    BY <2>1, <2>2 DEF Brought, Requests, u
<1>5. CASE t \in Fetches
  BY <1>5 DEF Fetches, Brought, Requests, Changes
<1>6. CASE t \in Attaches
  BY <1>6 DEF Attaches, Brought, Requests, Changes
<1>7. QED
  BY <1>1, <1>2, <1>3, <1>4, <1>5, <1>6 DEF Requests

\* A list that was known still is when there are more files.
LEMMA StillKnown ==
    ASSUME NEW top \in Nat, NEW more \in Nat, top <= more
    PROVE  /\ \A l : Known(l, top) => Known(l, more)
           /\ \A t : Brought(t, top) => Brought(t, more)
<1>1. ASSUME NEW l, Known(l, top)
      PROVE  Known(l, more)
  <2>1. \A i \in DOMAIN l : l[i].id \in Int
    <3>1. \A f \in Docs!Files : f.id \in Int
      BY DEF Docs!Files
    <3>2. QED
      BY <1>1, <3>1, ElementOfSeq, LenProperties DEF Known
  <2>2. QED
    BY <1>1, <2>1 DEF Known
<1>2. QED
  BY <1>1 DEF Brought

-----------------------------------------------------------------------------
(* What the user does with the documents. *)

\* A page calls an action of its own.
LEMMA TaskAsked ==
    ASSUME DocsInv, NEW t, Brought(t, ids), t.here = TRUE, Fits(t, view),
           tasks' = Append(tasks, t), UNCHANGED <<view, ids, unseen>>
    PROVE  /\ Tasks'
           /\ DOMAIN tasks' = 1 .. Len(tasks) + 1 /\ tasks'[Len(tasks) + 1] = t /\ Len(tasks) \in Nat
           /\ DOMAIN tasks = 1 .. Len(tasks) /\ \A i \in 1 .. Len(tasks) : tasks'[i] = tasks[i]
           /\ \A i \in DOMAIN tasks' : tasks'[i].op \in {"upload", "rename", "delete", "fetch", "attach"}
<1>1. tasks \in Seq(Requests) /\ t \in Requests
  BY DEF DocsInv, Tasks, Brought
<1>2. /\ tasks' \in Seq(Requests) /\ Len(tasks) \in Nat /\ DOMAIN tasks = 1 .. Len(tasks)
      /\ DOMAIN tasks' = 1 .. Len(tasks) + 1 /\ tasks'[Len(tasks) + 1] = t
      /\ \A i \in 1 .. Len(tasks) : tasks'[i] = tasks[i]
  BY <1>1, Appended
<1>3. ASSUME NEW i \in DOMAIN tasks'
      PROVE  /\ Brought(tasks'[i], ids) /\ (tasks'[i].here => Fits(tasks'[i], view))
             /\ (~unseen => tasks'[i].here)
  <2>1. CASE i \in DOMAIN tasks
    <3>1. Brought(tasks[i], ids) /\ (tasks[i].here => Fits(tasks[i], view)) /\ (~unseen => tasks[i].here)
      BY <2>1 DEF DocsInv, Tasks
    <3>2. QED
      BY <1>2, <2>1, <3>1
  <2>2. CASE i = Len(tasks) + 1
    BY <1>2, <2>2
  <2>3. QED
    BY <1>2, <2>1, <2>2
<1>4. \A i \in DOMAIN tasks' : tasks'[i].op \in {"upload", "rename", "delete", "fetch", "attach"}
  <2>1. \A i \in DOMAIN tasks' : tasks'[i] \in Requests
    BY <1>2, LenProperties, ElementOfSeq
  <2>2. QED
    BY <2>1, RequestIs
<1>5. Tasks'
  BY <1>2, <1>3 DEF Tasks
<1>6. QED
  BY <1>2, <1>4, <1>5

\* The tasks of a page that was left.
LEMMA LeftTasks ==
    ASSUME Tasks
    PROVE  /\ Docs!Leave \in Seq(Requests) /\ Len(Docs!Leave) = Len(tasks) /\ Len(tasks) \in Nat
           /\ DOMAIN Docs!Leave = 1 .. Len(tasks)
           /\ \A i \in DOMAIN Docs!Leave : Brought(Docs!Leave[i], ids) /\ Docs!Leave[i].here = FALSE
           /\ tasks = <<>> <=> Len(tasks) = 0
<1> DEFINE Left(t) == [t EXCEPT !.here = FALSE]
<1>1. tasks \in Seq(Requests) /\ Len(tasks) \in Nat /\ DOMAIN tasks = 1 .. Len(tasks)
  BY LenProperties DEF Tasks
<1>2. \A i \in 1 .. Len(tasks) : Brought(Left(tasks[i]), ids) /\ Left(tasks[i]).here = FALSE
  <2>1. \A i \in 1 .. Len(tasks) : Brought(tasks[i], ids)
    BY <1>1 DEF Tasks
  <2>2. QED
    BY <2>1, LeftTask
<1>3. Docs!Leave = [i \in 1 .. Len(tasks) |-> Left(tasks[i])]
  BY <1>1 DEF Docs!Leave
<1> HIDE DEF Left
<1>4. \A i \in 1 .. Len(tasks) : Left(tasks[i]) \in Requests
  BY <1>2 DEF Brought
<1>5. Docs!Leave \in Seq(Requests)
  BY <1>1, <1>3, <1>4, IsASeq
<1>6. DOMAIN Docs!Leave = 1 .. Len(tasks) /\ Len(Docs!Leave) = Len(tasks)
  BY <1>1, <1>3, <1>5, LenProperties
<1>7. tasks = <<>> <=> Len(tasks) = 0
  BY <1>1, EmptySeq
<1>8. QED
  BY <1>1, <1>2, <1>3, <1>5, <1>6, <1>7

\* A list of no more files than there can be.
LEMMA FewFiles ==
    ASSUME NEW l \in Seq(Docs!Files), NEW n \in Nat, Len(l) <= n
    PROVE  l \in Docs!SeqOf(Docs!Files, n)
<1>1. Len(l) \in 0 .. n /\ l \in [1 .. Len(l) -> Docs!Files]
  BY LenProperties
<1>2. QED
  BY <1>1 DEF Docs!SeqOf

\* The library is opened with what was fetched, if it was.
LEMMA OpenLibraryKeeps ==
    ASSUME FilesAssumption, DocsInv, Docs!OpenLibrary
    PROVE  DocsInv'
<1>1. /\ view' = "library" /\ files' \in {stored, <<>>} /\ value' = 0 /\ uploading' = FALSE
      /\ tasks' = Docs!Leave /\ unseen' = (tasks # <<>> \/ files' # stored)
      /\ UNCHANGED <<stored, attached, ids>>
  BY DEF Docs!OpenLibrary
<1>2. /\ tasks' \in Seq(Requests) /\ Len(tasks') = Len(tasks) /\ DOMAIN tasks' = 1 .. Len(tasks)
      /\ Len(tasks) \in Nat /\ (tasks = <<>> <=> Len(tasks) = 0)
      /\ \A i \in DOMAIN tasks' : Brought(tasks'[i], ids) /\ tasks'[i].here = FALSE
  BY <1>1, LeftTasks DEF DocsInv
<1>3. ~unseen' => DOMAIN tasks' = {} /\ files' = stored
  <2>1. ~unseen' => tasks = <<>> /\ files' = stored
    BY <1>1, Zenon
  <2>2. tasks = <<>> => 1 .. Len(tasks) = {}
    BY <1>2
  <2>3. QED
    BY <1>2, <2>1, <2>2
<1>4. Tasks'
  BY <1>1, <1>2, <1>3 DEF Tasks
<1>5. Known(files, ids)'
  <2>1. <<>> \in Seq(Docs!Files) /\ DOMAIN <<>> = {}
    BY EmptySeq
  <2>2. QED
    BY <1>1, <2>1 DEF DocsInv, Known
<1>6. Docs!TypeOK'
  <2>1. \A i \in DOMAIN tasks' : tasks'[i].op \in {"upload", "rename", "delete", "fetch", "attach"}
    BY <1>2, RequestIs DEF Brought
  <2>2. \A i \in DOMAIN files' : files'[i] \in Docs!Files
    BY <1>5, LenProperties, ElementOfSeq DEF Known
  <2>3. 0 \in 0 .. MaxFiles
    BY FilesAssumption DEF FilesAssumption
  <2>4. QED
    BY <1>1, <2>1, <2>2, <2>3 DEF DocsInv, Docs!TypeOK
<1>7. Library'
  <2>1. SUFFICES ASSUME ~unseen' PROVE \E c : Leads(c, files', stored', tasks')
    BY DEF Library
  <2>2. \A i \in DOMAIN tasks' : Brought(tasks'[i], ids) /\ tasks'[i].op \notin Changes
    BY <1>3, <2>1
  <2>3. stored \in Seq(Docs!Files)
    BY DEF DocsInv, Known
  <2>4. \E c : Leads(c, stored, stored, tasks')
    BY <1>2, <2>2, <2>3, LeadsNowhere
  <2>5. QED
    BY <1>1, <1>3, <2>1, <2>4
<1>8. Field'
  BY <1>1 DEF Field
<1>9. QED
  BY <1>1, <1>4, <1>5, <1>6, <1>7, <1>8 DEF DocsInv, Docs!Attachable

\* The field starts from the application, and asks for the list.
LEMMA OpenDialogKeeps ==
    ASSUME FilesAssumption, DocsInv, Docs!OpenDialog
    PROVE  DocsInv'
<1> DEFINE fetch == [op |-> "fetch", here |-> TRUE]
<1>1. /\ view' = "dialog" /\ files' = <<>> /\ value' = attached /\ uploading' = FALSE
      /\ tasks' = Append(Docs!Leave, fetch) /\ unseen' = (tasks # <<>>)
      /\ UNCHANGED <<stored, attached, ids>>
  BY DEF Docs!OpenDialog
<1>2. /\ Docs!Leave \in Seq(Requests) /\ Len(Docs!Leave) = Len(tasks)
      /\ Len(tasks) \in Nat /\ (tasks = <<>> <=> Len(tasks) = 0)
      /\ DOMAIN Docs!Leave = 1 .. Len(tasks)
      /\ \A i \in DOMAIN Docs!Leave : Brought(Docs!Leave[i], ids) /\ Docs!Leave[i].here = FALSE
  BY LeftTasks DEF DocsInv
<1>3. /\ fetch \in Requests /\ fetch.op = "fetch" /\ fetch.here = TRUE /\ Brought(fetch, ids)
      /\ Fits(fetch, "dialog")
  BY DEF Requests, Fetches, Brought, Changes, Fits
<1> HIDE DEF fetch
<1>4. /\ tasks' \in Seq(Requests) /\ DOMAIN tasks' = 1 .. Len(tasks) + 1 /\ tasks'[Len(tasks) + 1] = fetch
      /\ Len(tasks') = Len(tasks) + 1
      /\ \A i \in 1 .. Len(tasks) : tasks'[i] = Docs!Leave[i]
  BY <1>1, <1>2, <1>3, Appended
<1>5. \A i \in DOMAIN tasks' : i # Len(tasks) + 1 =>
          i \in 1 .. Len(tasks) /\ Brought(tasks'[i], ids) /\ tasks'[i].here = FALSE
  BY <1>2, <1>4
<1>6. ~unseen' => Len(tasks) = 0 /\ \A i \in DOMAIN tasks' : i = Len(tasks) + 1 /\ i = 1
  <2>1. ~unseen' => tasks = <<>>
    BY <1>1, Zenon
  <2>2. Len(tasks) = 0 => \A i \in DOMAIN tasks' : i = Len(tasks) + 1 /\ i = 1
    BY <1>4
  <2>3. QED
    BY <1>2, <2>1, <2>2
<1>7. Tasks'
  <2>1. ASSUME NEW i \in DOMAIN tasks'
        PROVE  /\ Brought(tasks'[i], ids) /\ (tasks'[i].here => Fits(tasks'[i], "dialog"))
               /\ (~unseen' => tasks'[i].here)
    BY <1>3, <1>4, <1>5, <1>6
  <2>2. QED
    BY <1>1, <1>4, <2>1 DEF Tasks
<1>8. Known(files, ids)' /\ DOMAIN files' = {}
  <2>1. <<>> \in Seq(Docs!Files) /\ DOMAIN <<>> = {}
    BY EmptySeq
  <2>2. QED
    BY <1>1, <2>1 DEF Known
<1>9. Docs!TypeOK'
  <2>1. \A i \in DOMAIN tasks' : tasks'[i].op \in {"upload", "rename", "delete", "fetch", "attach"}
    BY <1>3, <1>4, <1>5, RequestIs DEF Brought
  <2>2. QED
    BY <1>1, <1>8, <2>1 DEF DocsInv, Docs!TypeOK
<1>10. Library'
  BY <1>1 DEF Library
<1>11. Field'
  <2>1. value' # 0 => Docs!Attachable(value)'
    BY <1>1 DEF DocsInv, Docs!Attachable
  <2>2. ~unseen' => Asked(tasks')
    <3>1. tasks' # <<>> /\ Head(tasks') = tasks'[1]
      BY <1>2, <1>4, Shifted
    <3>2. QED
      BY <1>2, <1>3, <1>4, <1>6, <3>1 DEF Asked
  <2>3. QED
    BY <1>1, <1>6, <2>1, <2>2 DEF Field
<1>12. QED
  BY <1>1, <1>7, <1>8, <1>9, <1>10, <1>11 DEF DocsInv, Docs!Attachable

\* What a task makes of a list that was known is known.
LEMMA EffectKnown ==
    ASSUME NEW top, NEW t, Brought(t, top), NEW n, NEW l, Known(l, n)
    PROVE  Known(Effect(t, l), n)
<1> USE DEF Changes
<1>1. l \in Seq(Docs!Files) /\ \A f \in Things(l) : f.id <= n
  BY DEF Known, Things
<1>2. Effect(t, l) \in Seq(Docs!Files)
  BY <1>1, EffectIs
<1>3. CASE t.op = "rename"
  <2>1. Effect(t, l) = Docs!Named(l, t.id, t.name) /\ t.name \in Names
    BY <1>3 DEF Effect, Brought, Requests, Uploads, Renames, Deletes, Fetches, Attaches
  <2>2. DOMAIN Docs!Named(l, t.id, t.name) = DOMAIN l
        /\ \A i \in DOMAIN l : Docs!Named(l, t.id, t.name)[i].id = l[i].id
    BY <1>1, <2>1, NamedIs
  <2>3. QED
    BY <1>2, <2>1, <2>2 DEF Known
<1>4. CASE t.op = "delete"
  <2>1. Effect(t, l) = Docs!Without(l, t.id)
    BY <1>4 DEF Effect
  <2>2. Things(Effect(t, l)) \subseteq Things(l)
    BY <1>1, <2>1, WithoutIs
  <2>3. \A f \in Things(Effect(t, l)) : f.id <= n
    BY <1>1, <2>2
  <2>4. QED
    BY <1>2, <2>3 DEF Known, Things
<1>5. CASE t.op \notin Changes
  BY <1>5 DEF Effect
<1>6. QED
  BY <1>3, <1>4, <1>5

\* The library calls an action, and shows at once what it will make.
LEMMA LibraryAsks ==
    ASSUME DocsInv, view = "library", NEW t, Brought(t, ids), t.here = TRUE,
           t.op \in {"upload", "rename", "delete"}, t.op \in Changes => t.previous = files,
           tasks' = Append(tasks, t), files' = Effect(t, files), uploading' \in BOOLEAN,
           UNCHANGED <<stored, attached, value, view, ids, clobbered, unseen>>
    PROVE  DocsInv'
<1>1. Fits(t, view)
  BY DEF Fits, Changes
<1>2. Tasks' /\ \A i \in DOMAIN tasks' : tasks'[i].op \in {"upload", "rename", "delete", "fetch", "attach"}
  BY <1>1, TaskAsked
<1>3. Known(files', ids)
  BY EffectKnown DEF DocsInv
<1>4. Docs!TypeOK'
  <2>1. \A i \in DOMAIN files' : files'[i] \in Docs!Files
    BY <1>3, LenProperties, ElementOfSeq DEF Known
  <2>2. QED
    BY <1>2, <2>1 DEF DocsInv, Docs!TypeOK
<1>5. Library'
  <2>1. SUFFICES ASSUME ~unseen, ~clobbered PROVE \E c : Leads(c, files', stored, tasks')
    BY DEF Library
  <2>2. PICK c : Leads(c, files, stored, tasks)
    BY <2>1 DEF DocsInv, Library
  <2>3. tasks \in Seq(Requests)
    BY DEF DocsInv, Tasks
  <2>4. \E d : Leads(d, Effect(t, files), stored, Append(tasks, t))
    BY <2>2, <2>3, LeadsOn
  <2>5. QED
    BY <2>4
<1>6. Field'
  BY DEF Field
<1>7. QED
  BY <1>2, <1>3, <1>4, <1>5, <1>6 DEF DocsInv, Docs!Attachable

\* Files are dropped in a panel.
LEMMA PickKeeps ==
    ASSUME DocsInv, Docs!Pick
    PROVE  DocsInv'
<1>1. PICK kind \in Kinds, left \in 0 .. 1 :
          tasks' = Append(tasks, [op |-> "upload", kind |-> kind, left |-> left, here |-> TRUE])
  BY DEF Docs!Pick, Docs!Call
<1> DEFINE t == [op |-> "upload", kind |-> kind, left |-> left, here |-> TRUE]
<1>2. Brought(t, ids) /\ t.here = TRUE /\ t.op = "upload" /\ t.op \notin Changes
  BY DEF Brought, Requests, Uploads, Changes
<1>3. view = "library" /\ uploading' = TRUE
      /\ UNCHANGED <<stored, attached, files, value, view, ids, clobbered, unseen>>
  BY DEF Docs!Pick
<1> HIDE DEF t
<1>4. Effect(t, files) = files
  BY <1>2 DEF Effect
<1>5. tasks' = Append(tasks, t)
  BY <1>1 DEF t
<1>6. QED
  BY <1>2, <1>3, <1>4, <1>5, LibraryAsks

\* A file is given another name.
LEMMA RenameKeeps ==
    ASSUME DocsInv, Docs!Rename
    PROVE  DocsInv'
<1>1. PICK i \in DOMAIN files, name \in Names :
          /\ files' = Docs!Named(files, files[i].id, name)
          /\ tasks' = Append(tasks, [op |-> "rename", id |-> files[i].id, name |-> name,
                                     here |-> TRUE, previous |-> files])
  BY DEF Docs!Rename, Docs!Call
<1> DEFINE t == [op |-> "rename", id |-> files[i].id, name |-> name, here |-> TRUE, previous |-> files]
<1>2. view = "library" /\ UNCHANGED <<stored, attached, value, view, uploading, ids, clobbered, unseen>>
  BY DEF Docs!Rename
<1>3. Known(files, ids) /\ files \in Seq(Docs!Files) /\ uploading \in BOOLEAN
  BY DEF DocsInv, Known, Docs!TypeOK
<1>4. files[i].id \in Nat
  <2>1. files[i] \in Docs!Files
    BY <1>3, LenProperties, ElementOfSeq
  <2>2. QED
    BY <2>1 DEF Docs!Files
<1>5. t \in Requests /\ t.here = TRUE /\ t.op = "rename" /\ t.previous = files /\ t.id = files[i].id /\ t.name = name
  BY <1>3, <1>4 DEF Requests, Renames
<1> HIDE DEF t
<1>6. Docs!Has(files, t.id)
  BY <1>5 DEF Docs!Has
<1>7. Brought(t, ids)
  BY <1>3, <1>5, <1>6 DEF Brought
<1>8. files' = Effect(t, files)
  BY <1>1, <1>5 DEF Effect
<1>9. tasks' = Append(tasks, t)
  BY <1>1 DEF t
<1>10. QED
  BY <1>2, <1>3, <1>5, <1>7, <1>8, <1>9, LibraryAsks

\* A file is deleted.
LEMMA ConfirmDeleteKeeps ==
    ASSUME DocsInv, Docs!ConfirmDelete
    PROVE  DocsInv'
<1>1. PICK i \in DOMAIN files :
          /\ files' = Docs!Without(files, files[i].id)
          /\ tasks' = Append(tasks, [op |-> "delete", id |-> files[i].id, here |-> TRUE,
                                     previous |-> files])
  BY DEF Docs!ConfirmDelete, Docs!Call
<1> DEFINE t == [op |-> "delete", id |-> files[i].id, here |-> TRUE, previous |-> files]
<1>2. view = "library" /\ UNCHANGED <<stored, attached, value, view, uploading, ids, clobbered, unseen>>
  BY DEF Docs!ConfirmDelete
<1>3. Known(files, ids) /\ files \in Seq(Docs!Files) /\ uploading \in BOOLEAN
  BY DEF DocsInv, Known, Docs!TypeOK
<1>4. files[i].id \in Nat
  <2>1. files[i] \in Docs!Files
    BY <1>3, LenProperties, ElementOfSeq
  <2>2. QED
    BY <2>1 DEF Docs!Files
<1>5. t \in Requests /\ t.here = TRUE /\ t.op = "delete" /\ t.previous = files /\ t.id = files[i].id
  BY <1>3, <1>4 DEF Requests, Deletes
<1> HIDE DEF t
<1>6. Docs!Has(files, t.id)
  BY <1>5 DEF Docs!Has
<1>7. Brought(t, ids)
  BY <1>3, <1>5, <1>6 DEF Brought
<1>8. files' = Effect(t, files)
  BY <1>1, <1>5 DEF Effect
<1>9. tasks' = Append(tasks, t)
  BY <1>1 DEF t
<1>10. QED
  BY <1>2, <1>3, <1>5, <1>7, <1>8, <1>9, LibraryAsks

\* The field calls an action.
LEMMA FieldAsks ==
    ASSUME DocsInv, view = "dialog", NEW t, Brought(t, ids), t.here = TRUE, Fits(t, "dialog"),
           t.op \in {"upload", "attach"}, tasks' = Append(tasks, t), uploading' \in BOOLEAN,
           UNCHANGED <<stored, attached, files, value, view, ids, clobbered, unseen>>
    PROVE  DocsInv'
<1>1. /\ Tasks' /\ \A i \in DOMAIN tasks' : tasks'[i].op \in {"upload", "rename", "delete", "fetch", "attach"}
      /\ DOMAIN tasks' = 1 .. Len(tasks) + 1 /\ tasks'[Len(tasks) + 1] = t /\ Len(tasks) \in Nat
      /\ DOMAIN tasks = 1 .. Len(tasks) /\ \A i \in 1 .. Len(tasks) : tasks'[i] = tasks[i]
  BY TaskAsked
<1>2. Docs!TypeOK'
  BY <1>1 DEF DocsInv, Docs!TypeOK
<1>3. Library'
  BY DEF Library
<1>4. Field'
  <2>1. SUFFICES ASSUME ~unseen
                 PROVE  /\ \A i \in DOMAIN tasks' : tasks'[i].op = "fetch" => i = 1
                        /\ Asked(tasks') <=> Asked(tasks)
    BY DEF DocsInv, Field, Docs!Attachable
  <2>2. \A i \in DOMAIN tasks' : tasks'[i].op = "fetch" => i = 1
    BY <1>1, <2>1 DEF DocsInv, Field
  <2>3. Asked(tasks') <=> Asked(tasks)
    <3>1. tasks \in Seq(Requests) /\ t \in Requests
      BY DEF DocsInv, Tasks, Brought
    <3>2. Head(tasks') = (IF tasks = <<>> THEN t ELSE Head(tasks)) /\ tasks' # <<>>
      BY <3>1, HeadTailAppend, AppendProperties
    <3>3. QED
      BY <3>2 DEF Asked
  <2>4. QED
    BY <2>2, <2>3
<1>5. QED
  BY <1>1, <1>2, <1>3, <1>4 DEF DocsInv, Docs!Attachable

\* A CV is uploaded from the field, or the form is submitted with its value.
LEMMA FieldCalls ==
    ASSUME FilesAssumption, DocsInv, Docs!UploadOne \/ Docs!Submit
    PROVE  DocsInv'
<1>1. CASE Docs!UploadOne
  <2> DEFINE t == [op |-> "upload", kind |-> Resume, left |-> 0, here |-> TRUE]
  <2>1. /\ t.here = TRUE /\ t.op = "upload" /\ Brought(t, ids) /\ Fits(t, "dialog")
    BY FilesAssumption DEF FilesAssumption, Brought, Requests, Uploads, Changes, Fits
  <2>2. /\ view = "dialog" /\ uploading' = TRUE /\ tasks' = Append(tasks, t)
        /\ UNCHANGED <<stored, attached, files, value, view, ids, clobbered, unseen>>
    BY <1>1 DEF Docs!UploadOne, Docs!Call
  <2> HIDE DEF t
  <2>3. QED
    BY <2>1, <2>2, FieldAsks
<1>2. CASE Docs!Submit
  <2> DEFINE t == [op |-> "attach", id |-> value, here |-> TRUE]
  <2>1. value \in 0 .. MaxFiles /\ uploading \in BOOLEAN
    BY DEF DocsInv, Docs!TypeOK
  <2>2. /\ t.here = TRUE /\ t.op = "attach" /\ Brought(t, ids) /\ Fits(t, "dialog")
    BY <2>1 DEF Brought, Requests, Attaches, Changes, Fits
  <2>3. /\ view = "dialog" /\ tasks' = Append(tasks, t)
        /\ UNCHANGED <<stored, attached, files, value, view, uploading, ids, clobbered, unseen>>
    BY <1>2 DEF Docs!Submit, Docs!Call
  <2> HIDE DEF t
  <2>4. QED
    BY <2>1, <2>2, <2>3, FieldAsks
<1>3. QED
  BY <1>1, <1>2

\* A file of a known list has a number.
LEMMA KnownNumbers ==
    ASSUME NEW l \in Seq(Docs!Files), NEW i \in DOMAIN l
    PROVE  l[i] \in Docs!Files /\ l[i].id \in 1 .. MaxFiles
<1>1. l[i] \in Docs!Files
  BY LenProperties, ElementOfSeq
<1>2. QED
  BY <1>1 DEF Docs!Files

\* Another file is chosen, which is one that can be attached when the list is what is stored.
LEMMA ChooseKeeps ==
    ASSUME FilesAssumption, DocsInv, Docs!Choose
    PROVE  DocsInv'
<1>1. /\ view = "dialog" /\ value' \in {0} \union {files[i].id : i \in DOMAIN files}
      /\ UNCHANGED <<stored, attached, files, view, uploading, tasks, ids, clobbered, unseen>>
  BY DEF Docs!Choose
<1>2. files \in Seq(Docs!Files) /\ stored \in Seq(Docs!Files)
  BY DEF DocsInv, Known
<1>3. value' \in 0 .. MaxFiles
  <2>1. MaxFiles \in Nat
    BY FilesAssumption DEF FilesAssumption
  <2>2. \A i \in DOMAIN files : files[i].id \in 1 .. MaxFiles
    BY <1>2, KnownNumbers
  <2>3. QED
    BY <1>1, <2>1, <2>2
<1>4. Docs!TypeOK'
  BY <1>1, <1>3 DEF DocsInv, Docs!TypeOK
<1>5. Tasks' /\ Library'
  BY <1>1 DEF DocsInv, Tasks, Library
<1>6. Field'
  <2>1. SUFFICES ASSUME ~unseen, value' # 0 PROVE Docs!Attachable(value)'
    BY <1>1 DEF DocsInv, Field
  <2>2. PICK i \in DOMAIN files : value' = files[i].id
    BY <1>1, <2>1
  <2>3. files = Docs!OfKind(stored, Resume)
    <3>1. files # <<>>
      BY <2>2, EmptySeq
    <3>2. QED
      BY <1>1, <2>1, <3>1 DEF DocsInv, Field
  <2>4. files[i] \in Things(stored) /\ files[i].kind = Resume
    <3>1. files[i] \in Things(files)
      BY <2>2 DEF Things
    <3>2. QED
      BY <1>2, <2>3, <3>1, OfKindIs
  <2>5. QED
    BY <1>1, <2>2, <2>4 DEF Docs!Attachable, Things
<1>7. QED
  BY <1>1, <1>4, <1>5, <1>6 DEF DocsInv, Docs!Attachable

-----------------------------------------------------------------------------
(* What the API does with the tasks. *)

\* The task that is first.
LEMMA FirstTask ==
    ASSUME DocsInv, tasks # <<>>
    PROVE  /\ Brought(Docs!Task, ids) /\ (Docs!Task.here => Fits(Docs!Task, view))
           /\ (~unseen => Docs!Task.here) /\ Docs!Task.here \in BOOLEAN
           /\ tasks \in Seq(Requests) /\ Len(tasks) \in Nat \ {0} /\ Docs!Task = Head(tasks)
           /\ Docs!Task.op # "fetch" => ~Asked(tasks)
<1>1. tasks \in Seq(Requests)
  BY DEF DocsInv, Tasks
<1>2. Head(tasks) = tasks[1] /\ 1 \in DOMAIN tasks /\ Len(tasks) \in Nat \ {0}
  BY <1>1, Shifted
<1>3. Docs!Task = Head(tasks)
  BY DEF Docs!Task
<1>4. /\ Brought(tasks[1], ids) /\ (tasks[1].here => Fits(tasks[1], view))
      /\ (~unseen => tasks[1].here)
  BY <1>2 DEF DocsInv, Tasks
<1>5. Docs!Task.here \in BOOLEAN
  BY <1>2, <1>3, <1>4, RequestIs DEF Brought
<1>6. QED
  BY <1>1, <1>2, <1>3, <1>4, <1>5 DEF Asked

\* Once it is done the others are left.
LEMMA TaskOver ==
    ASSUME DocsInv, tasks # <<>>, tasks' = Tail(tasks), UNCHANGED <<view, ids>>, ~unseen' => ~unseen
    PROVE  /\ Tasks'
           /\ \A i \in DOMAIN tasks' : tasks'[i].op \in {"upload", "rename", "delete", "fetch", "attach"}
           /\ \A i \in DOMAIN tasks' : i + 1 \in DOMAIN tasks /\ i \in Nat \ {0} /\ tasks'[i] = tasks[i + 1]
<1>1. tasks \in Seq(Requests)
  BY DEF DocsInv, Tasks
<1>2. /\ tasks' \in Seq(Requests) /\ DOMAIN tasks' = 1 .. Len(tasks) - 1 /\ DOMAIN tasks = 1 .. Len(tasks)
      /\ Len(tasks) \in Nat /\ \A i \in 1 .. Len(tasks) - 1 : tasks'[i] = tasks[i + 1]
  BY <1>1, Shifted
<1>3. \A i \in DOMAIN tasks' : i + 1 \in DOMAIN tasks /\ i \in Nat \ {0} /\ tasks'[i] = tasks[i + 1]
  BY <1>2
<1>4. \A i \in DOMAIN tasks : Brought(tasks[i], ids) /\ (tasks[i].here => Fits(tasks[i], view))
                              /\ (~unseen => tasks[i].here)
  BY DEF DocsInv, Tasks
<1>5. \A i \in DOMAIN tasks' : Brought(tasks'[i], ids) /\ (tasks'[i].here => Fits(tasks'[i], view))
                               /\ (~unseen' => tasks'[i].here)
  <2>1. TAKE i \in DOMAIN tasks'
  <2>2. i + 1 \in DOMAIN tasks /\ tasks'[i] = tasks[i + 1]
    BY <1>3
  <2>3. QED
    BY <1>4, <2>2
<1>6. Tasks'
  BY <1>2, <1>5 DEF Tasks
<1>7. \A i \in DOMAIN tasks' : tasks'[i].op \in {"upload", "rename", "delete", "fetch", "attach"}
  BY <1>5, RequestIs DEF Brought
<1>8. QED
  BY <1>3, <1>6, <1>7

\* Nor is any of the others the one that asks for the list.
LEMMA NoneAsks ==
    ASSUME DocsInv, view = "dialog", ~unseen, tasks # <<>>, tasks' = Tail(tasks)
    PROVE  (\A i \in DOMAIN tasks' : tasks'[i].op # "fetch") /\ ~Asked(tasks')
<1>1. tasks \in Seq(Requests)
  BY DEF DocsInv, Tasks
<1>2. /\ tasks' \in Seq(Requests) /\ DOMAIN tasks' = 1 .. Len(tasks) - 1 /\ DOMAIN tasks = 1 .. Len(tasks)
      /\ Len(tasks) \in Nat /\ \A i \in 1 .. Len(tasks) - 1 : tasks'[i] = tasks[i + 1]
  BY <1>1, Shifted
<1>3. \A i \in DOMAIN tasks : tasks[i].op = "fetch" => i = 1
  BY DEF DocsInv, Field
<1>4. ASSUME NEW i \in DOMAIN tasks'
      PROVE  tasks'[i].op # "fetch"
  <2>1. i + 1 \in DOMAIN tasks /\ i + 1 # 1 /\ tasks'[i] = tasks[i + 1]
    BY <1>2
  <2>2. QED
    BY <1>3, <2>1
<1>5. tasks' # <<>> => Head(tasks') = tasks'[1] /\ 1 \in DOMAIN tasks'
  BY <1>2, Shifted
<1>6. QED
  BY <1>4, <1>5 DEF Asked

\* The API attaches the file, if it is stored and of the kind, or does not.
LEMMA AttachServed ==
    ASSUME DocsInv, Docs!ServeAttach
    PROVE  DocsInv'
<1>1. /\ tasks # <<>> /\ Docs!Task.op = "attach" /\ tasks' = Tail(tasks)
      /\ attached' \in {attached} \union
            (IF Docs!Task.id = 0 \/ Docs!Attachable(Docs!Task.id) THEN {Docs!Task.id} ELSE {})
      /\ UNCHANGED <<stored, files, value, view, uploading, ids, clobbered, unseen>>
  BY DEF Docs!ServeAttach, Docs!Serving
<1>2. /\ Brought(Docs!Task, ids) /\ (Docs!Task.here => Fits(Docs!Task, view))
      /\ (~unseen => Docs!Task.here) /\ ~Asked(tasks)
  BY <1>1, FirstTask
<1>3. Docs!Task.id \in 0 .. MaxFiles
  BY <1>1, <1>2, RequestIs DEF Brought, Attaches
<1>4. /\ Tasks' /\ \A i \in DOMAIN tasks' : tasks'[i].op \in {"upload", "rename", "delete", "fetch", "attach"}
  BY <1>1, TaskOver
<1>5. attached' \in 0 .. MaxFiles /\ (attached' # 0 => Docs!Attachable(attached'))
  BY <1>1, <1>3 DEF DocsInv, Docs!TypeOK
<1>6. Docs!TypeOK'
  BY <1>1, <1>4, <1>5 DEF DocsInv, Docs!TypeOK
<1>7. ~unseen => view = "dialog"
  BY <1>1, <1>2 DEF Fits
<1>8. Library'
  BY <1>1, <1>7 DEF Library
<1>9. Field'
  <2>1. SUFFICES ASSUME ~unseen, view = "dialog" PROVE Field'
    BY <1>1 DEF Field
  <2>2. (\A i \in DOMAIN tasks' : tasks'[i].op # "fetch") /\ ~Asked(tasks')
    BY <1>1, <2>1, NoneAsks
  <2>3. QED
    BY <1>1, <1>2, <2>1, <2>2 DEF DocsInv, Field, Docs!Attachable
<1>10. QED
  BY <1>1, <1>4, <1>5, <1>6, <1>8, <1>9 DEF DocsInv, Docs!Attachable

\* The list arrives, is empty because the API failed, or is for a field that is gone.
LEMMA FetchServed ==
    ASSUME DocsInv, Docs!ServeFetch
    PROVE  DocsInv'
<1>1. /\ tasks # <<>> /\ Docs!Task.op = "fetch" /\ tasks' = Tail(tasks)
      /\ UNCHANGED <<stored, attached, value, view, uploading, ids, clobbered>>
      /\ Docs!Task.here => /\ files' \in {Docs!OfKind(stored, Resume), <<>>}
                           /\ unseen' = (unseen \/ files' # Docs!OfKind(stored, Resume))
      /\ ~Docs!Task.here => UNCHANGED <<files, unseen>>
  BY DEF Docs!ServeFetch, Docs!Serving
<1>2. /\ Brought(Docs!Task, ids) /\ (Docs!Task.here => Fits(Docs!Task, view))
      /\ (~unseen => Docs!Task.here) /\ Docs!Task.here \in BOOLEAN
  BY <1>1, FirstTask
<1>3. ~unseen' => ~unseen /\ Docs!Task.here /\ files' = Docs!OfKind(stored, Resume)
  <2>1. CASE Docs!Task.here
    <3>1. unseen' = (unseen \/ files' # Docs!OfKind(stored, Resume))
      BY <1>1, <2>1
    <3>2. QED
      BY <2>1, <3>1, Zenon
  <2>2. CASE ~Docs!Task.here
    BY <1>1, <1>2, <2>2
  <2>3. QED
    BY <2>1, <2>2
<1>4. /\ Tasks' /\ \A i \in DOMAIN tasks' : tasks'[i].op \in {"upload", "rename", "delete", "fetch", "attach"}
  BY <1>1, <1>3, TaskOver
<1>5. Known(files', ids)
  <2>1. Known(Docs!OfKind(stored, Resume), ids)
    <3>1. stored \in Seq(Docs!Files) /\ \A f \in Things(stored) : f.id <= ids
      BY DEF DocsInv, Known, Things
    <3>2. /\ Docs!OfKind(stored, Resume) \in Seq(Docs!Files)
          /\ Things(Docs!OfKind(stored, Resume)) \subseteq Things(stored)
      BY <3>1, OfKindIs
    <3>3. \A f \in Things(Docs!OfKind(stored, Resume)) : f.id <= ids
      BY <3>1, <3>2
    <3>4. QED
      BY <3>2, <3>3 DEF Known, Things
  <2>2. Known(<<>>, ids)
    <3>1. <<>> \in Seq(Docs!Files) /\ DOMAIN <<>> = {}
      BY EmptySeq
    <3>2. QED
      BY <3>1 DEF Known
  <2>3. files' \in {Docs!OfKind(stored, Resume), <<>>, files}
    BY <1>1, <1>2
  <2>4. QED
    BY <2>1, <2>2, <2>3 DEF DocsInv
<1>6. Docs!TypeOK'
  <2>1. \A i \in DOMAIN files' : files'[i] \in Docs!Files
    BY <1>5, LenProperties, ElementOfSeq DEF Known
  <2>2. QED
    BY <1>1, <1>4, <2>1 DEF DocsInv, Docs!TypeOK
<1>7. ~unseen' => view = "dialog"
  BY <1>1, <1>2, <1>3 DEF Fits
<1>8. Library'
  BY <1>1, <1>7 DEF Library
<1>9. Field'
  <2>1. SUFFICES ASSUME ~unseen', ~unseen, view = "dialog" PROVE Field'
    BY <1>1, <1>3 DEF Field
  <2>2. (\A i \in DOMAIN tasks' : tasks'[i].op # "fetch") /\ ~Asked(tasks')
    BY <1>1, <2>1, NoneAsks
  <2>3. QED
    BY <1>1, <1>3, <2>1, <2>2 DEF DocsInv, Field, Docs!Attachable
<1>10. QED
  BY <1>1, <1>4, <1>5, <1>6, <1>8, <1>9 DEF DocsInv, Docs!Attachable

\* A change that failed, when no other was made since and its list is as it left it: the
\* list it puts back is what is stored.
LEMMA PutBackIsStored ==
    ASSUME DocsInv, tasks # <<>>, Docs!Task.op \in Changes, ~unseen, ~clobbered, view = "library",
           files = Docs!Changed(Docs!Task), ~Docs!ChangedAgain
    PROVE  /\ Docs!Task.previous = stored
           /\ \A i \in DOMAIN Tail(tasks) : Brought(Tail(tasks)[i], ids) /\ Tail(tasks)[i].op \notin Changes
<1> DEFINE t == Docs!Task
           was == t.previous
<1>1. /\ Brought(t, ids) /\ tasks \in Seq(Requests) /\ Len(tasks) \in Nat \ {0} /\ t = Head(tasks)
  BY FirstTask
<1>2. PICK c : Leads(c, files, stored, tasks)
  BY DEF DocsInv, Library
<1>3. /\ DOMAIN tasks = 1 .. Len(tasks) /\ Tail(tasks) \in Seq(Requests)
      /\ DOMAIN Tail(tasks) = 1 .. Len(tasks) - 1 /\ Head(tasks) = tasks[1]
      /\ \A i \in 1 .. Len(tasks) - 1 : Tail(tasks)[i] = tasks[i + 1]
  BY <1>1, Shifted
<1>4. ASSUME NEW i \in DOMAIN Tail(tasks)
      PROVE  Brought(Tail(tasks)[i], ids) /\ Tail(tasks)[i].op \notin Changes
  <2>1. i + 1 \in 2 .. Len(tasks) /\ i + 1 \in DOMAIN tasks /\ Tail(tasks)[i] = tasks[i + 1]
    BY <1>1, <1>3
  <2>2. Brought(tasks[i + 1], ids) /\ tasks[i + 1].here
    BY <2>1 DEF DocsInv, Tasks
  <2>3. tasks[i + 1].op \notin Changes
    BY <2>1, <2>2 DEF Docs!ChangedAgain, Changes
  <2>4. QED
    BY <2>1, <2>2, <2>3
<1>5. files = Effect(t, stored)
  <2>1. \E d : Leads(d, files, Effect(Head(tasks), stored), Tail(tasks))
    BY <1>1, <1>2, LeadsFromNext
  <2>2. QED
    BY <1>1, <1>3, <1>4, <2>1, LeadsNowhere
<1>6. files = Effect(t, was)
  BY DEF Docs!Changed, Effect, Changes
<1>7. was = stored \/ Misses(t, stored)
  <2>1. c[0] = stored /\ (tasks[1].op \in Changes => tasks[1].previous = c[1 - 1] \/ Misses(tasks[1], c[1 - 1]))
    BY <1>1, <1>2 DEF Leads
  <2>2. QED
    BY <1>1, <1>3, <2>1
<1>8. ASSUME Misses(t, stored)
      PROVE  FALSE
  <2>1. PICK k \in 1 .. MaxFiles : Docs!Has(stored, k) /\ ~Docs!Has(was, k)
    BY <1>8 DEF Misses
  <2>2. Docs!Has(was, t.id) /\ was \in Seq(Docs!Files) /\ stored \in Seq(Docs!Files)
    BY <1>1 DEF DocsInv, Brought, Known
  <2>3. k # t.id
    BY <2>1, <2>2
  <2>4. Docs!Has(Effect(t, stored), k)
    BY <1>1, <2>1, <2>2, <2>3, EffectIs
  <2>5. ~Docs!Has(Effect(t, was), k)
    BY <1>1, <2>1, <2>2, EffectIs
  <2>6. QED
    BY <1>5, <1>6, <2>4, <2>5
<1>9. QED
  BY <1>4, <1>7, <1>8

\* A rename or a deletion is done, done without the page knowing, or not done.
LEMMA ChangeServed ==
    ASSUME DocsInv, tasks # <<>>, Docs!Task.op \in Changes, tasks' = Tail(tasks),
           UNCHANGED <<value, view, uploading, ids>>,
           attached' \in 0 .. MaxFiles, attached' # 0 => Docs!Attachable(attached)',
           stored' \in {stored, Effect(Docs!Task, stored)}, Known(stored', ids), Len(stored') <= ids,
           stored' \in Docs!SeqOf(Docs!Files, MaxFiles),
           \/ stored' = Effect(Docs!Task, stored) /\ UNCHANGED <<files, clobbered, unseen>>
           \/ Docs!Undo /\ unseen' = TRUE
           \/ stored' = stored /\ Docs!Undo /\ unseen' = unseen
    PROVE  DocsInv'
<1> DEFINE t == Docs!Task
<1>1. /\ Brought(t, ids) /\ (t.here => Fits(t, view)) /\ t = Head(tasks)
      /\ (~unseen => t.here) /\ t.here \in BOOLEAN /\ tasks \in Seq(Requests)
  BY FirstTask
<1>2. Docs!Undo => /\ files' = IF t.here THEN t.previous ELSE files
                   /\ clobbered' = (clobbered \/ (t.here /\ (files # Docs!Changed(t) \/ Docs!ChangedAgain)))
  BY DEF Docs!Undo, Docs!PutBack
<1>3. ~unseen' => ~unseen
  OBVIOUS
<1>4. /\ Tasks' /\ \A i \in DOMAIN tasks' : tasks'[i].op \in {"upload", "rename", "delete", "fetch", "attach"}
  BY <1>3, TaskOver
<1>5. Known(files', ids)
  <2>1. Known(t.previous, ids) /\ Known(files, ids)
    BY <1>1 DEF DocsInv, Brought
  <2>2. QED
    BY <1>2, <2>1
<1>6. Docs!TypeOK'
  <2>1. \A i \in DOMAIN files' : files'[i] \in Docs!Files
    BY <1>5, LenProperties, ElementOfSeq DEF Known
  <2>2. QED
    BY <1>4, <2>1 DEF DocsInv, Docs!TypeOK
<1>7. ~unseen => view = "library" /\ view # "dialog"
  <2>1. ~unseen => Fits(t, view)
    BY <1>1
  <2>2. QED
    BY <2>1 DEF Fits
<1>8. Field'
  BY <1>3, <1>7 DEF Field
<1>9. Library'
  <2>1. SUFFICES ASSUME ~unseen', ~clobbered', view = "library"
                 PROVE  \E c : Leads(c, files', stored', tasks')
    BY DEF Library
  <2>2. ~unseen /\ t.here
    BY <1>1, <1>3, <2>1
  <2>3. CASE stored' = Effect(t, stored) /\ UNCHANGED <<files, clobbered, unseen>>
    <3>1. PICK c : Leads(c, files, stored, tasks)
      BY <2>1, <2>2, <2>3 DEF DocsInv, Library
    <3>2. QED
      BY <1>1, <2>3, <3>1, LeadsFromNext
  <2>4. CASE stored' = stored /\ Docs!Undo
    <3>1. clobbered' = (clobbered \/ (t.here /\ (files # Docs!Changed(t) \/ Docs!ChangedAgain)))
      BY <1>2, <2>4
    <3>2. ~clobbered /\ files = Docs!Changed(t) /\ ~Docs!ChangedAgain
      BY <2>1, <2>2, <3>1, Zenon
    <3>3. /\ t.previous = stored
          /\ \A i \in DOMAIN Tail(tasks) : Brought(Tail(tasks)[i], ids) /\ Tail(tasks)[i].op \notin Changes
      BY <2>1, <2>2, <3>2, PutBackIsStored
    <3>4. files' = stored /\ stored' = stored /\ stored \in Seq(Docs!Files) /\ Tail(tasks) \in Seq(Requests)
      <4>1. stored \in Seq(Docs!Files)
        BY DEF DocsInv, Known
      <4>2. Tail(tasks) \in Seq(Requests)
        BY <1>1, Shifted
      <4>3. QED
        BY <1>2, <2>2, <2>4, <3>3, <4>1, <4>2
    <3>5. \E c : Leads(c, stored, stored, Tail(tasks))
      BY <3>3, <3>4, LeadsNowhere
    <3>6. QED
      BY <3>4, <3>5
  <2>5. QED
    BY <2>1, <2>3, <2>4
<1>10. QED
  BY <1>4, <1>5, <1>6, <1>8, <1>9 DEF DocsInv

\* A file is renamed.
LEMMA RenameServed ==
    ASSUME FilesAssumption, DocsInv, Docs!ServeRename
    PROVE  DocsInv'
<1> DEFINE t == Docs!Task
<1>1. /\ tasks # <<>> /\ t.op = "rename" /\ tasks' = Tail(tasks)
      /\ stored' \in {stored, Docs!Named(stored, t.id, t.name)}
      /\ \/ stored' = Docs!Named(stored, t.id, t.name) /\ UNCHANGED <<files, clobbered, unseen>>
         \/ Docs!Undo /\ unseen' = TRUE
         \/ stored' = stored /\ Docs!Undo /\ unseen' = unseen
      /\ UNCHANGED <<attached, value, view, uploading, ids>>
  BY DEF Docs!ServeRename, Docs!Serving
<1>2. Brought(t, ids) /\ t.op \in Changes /\ Effect(t, stored) = Docs!Named(stored, t.id, t.name)
  BY <1>1, FirstTask DEF Changes, Effect
<1>3. t.name \in Names
  BY <1>1, <1>2, RequestIs DEF Brought, Renames
<1>4. Known(stored, ids) /\ stored \in Seq(Docs!Files) /\ Len(stored) <= ids /\ ids \in 0 .. MaxFiles /\ MaxFiles \in Nat
  BY FilesAssumption DEF FilesAssumption, DocsInv, Known
<1>5. Known(stored', ids) /\ Len(stored') = Len(stored) /\ DOMAIN stored' = DOMAIN stored
      /\ \A i \in DOMAIN stored : stored'[i].id = stored[i].id /\ stored'[i].kind = stored[i].kind
  <2>1. Known(Effect(t, stored), ids)
    BY <1>2, <1>4, EffectKnown
  <2>2. QED
    BY <1>1, <1>2, <1>3, <1>4, <2>1, NamedIs
<1>6. stored' \in Docs!SeqOf(Docs!Files, MaxFiles)
  <2>1. stored' \in Seq(Docs!Files)
    BY <1>5 DEF Known
  <2>2. Len(stored') \in Nat /\ Len(stored') <= MaxFiles
    BY <1>4, <1>5, LenProperties
  <2>3. QED
    BY <1>4, <2>1, <2>2, FewFiles
<1>7. attached' \in 0 .. MaxFiles /\ (attached' # 0 => Docs!Attachable(attached)')
  <2>1. attached \in 0 .. MaxFiles /\ (attached # 0 => Docs!Attachable(attached))
    BY DEF DocsInv, Docs!TypeOK
  <2>2. QED
    BY <1>1, <1>5, <2>1 DEF Docs!Attachable
<1> HIDE DEF t
<1>8. QED
  BY <1>1, <1>2, <1>4, <1>5, <1>6, <1>7, ChangeServed DEF t

\* A file is deleted, and what names it names none.
LEMMA DeleteDone ==
    ASSUME FilesAssumption, DocsInv, Docs!ServeDelete
    PROVE  DocsInv'
<1> DEFINE t == Docs!Task
<1>1. /\ tasks # <<>> /\ t.op = "delete" /\ tasks' = Tail(tasks)
      /\ \/ /\ stored' = Docs!Without(stored, t.id)
            /\ attached' = IF attached = t.id THEN 0 ELSE attached
         \/ UNCHANGED <<stored, attached>>
      /\ \/ stored' = Docs!Without(stored, t.id) /\ UNCHANGED <<files, clobbered, unseen>>
         \/ Docs!Undo /\ unseen' = TRUE
         \/ stored' = stored /\ Docs!Undo /\ unseen' = unseen
      /\ UNCHANGED <<value, view, uploading, ids>>
  BY DEF Docs!ServeDelete, Docs!Serving
<1>2. Brought(t, ids) /\ t.op \in Changes /\ Effect(t, stored) = Docs!Without(stored, t.id)
  BY <1>1, FirstTask DEF Changes, Effect
<1>3. Known(stored, ids) /\ stored \in Seq(Docs!Files) /\ Len(stored) <= ids /\ ids \in 0 .. MaxFiles /\ MaxFiles \in Nat
      /\ Len(stored) \in Nat
  BY FilesAssumption, LenProperties DEF FilesAssumption, DocsInv, Known
<1>4. Known(stored', ids) /\ Len(stored') <= Len(stored)
  <2>1. Known(Effect(t, stored), ids) /\ Len(Effect(t, stored)) <= Len(stored)
    BY <1>2, <1>3, EffectKnown, EffectIs
  <2>2. QED
    BY <1>1, <1>2, <1>3, <2>1
<1>5. stored' \in Docs!SeqOf(Docs!Files, MaxFiles) /\ Len(stored') <= ids
  <2>1. stored' \in Seq(Docs!Files)
    BY <1>4 DEF Known
  <2>2. Len(stored') \in Nat /\ Len(stored') <= MaxFiles /\ Len(stored') <= ids
    <3>1. Len(stored') \in Nat
      BY <2>1, LenProperties
    <3>2. QED
      BY <1>3, <1>4, <3>1
  <2>3. QED
    BY <1>3, <2>1, <2>2, FewFiles
<1>6. attached' \in 0 .. MaxFiles /\ (attached' # 0 => Docs!Attachable(attached)')
  <2>1. attached \in 0 .. MaxFiles /\ (attached # 0 => Docs!Attachable(attached)) /\ 0 \in 0 .. MaxFiles
    BY <1>3 DEF DocsInv, Docs!TypeOK
  <2>2. CASE UNCHANGED <<stored, attached>>
    BY <2>1, <2>2 DEF Docs!Attachable
  <2>3. CASE stored' = Docs!Without(stored, t.id) /\ attached' = IF attached = t.id THEN 0 ELSE attached
    <3>1. SUFFICES ASSUME attached' # 0 PROVE Docs!Attachable(attached)'
      BY <2>1, <2>3
    <3>2. attached' = attached /\ attached # t.id
      BY <2>3, <3>1
    <3>3. PICK f \in Things(stored) : f.id = attached /\ f.kind = Resume
      BY <2>1, <3>1, <3>2 DEF Docs!Attachable, Things
    <3>4. f \in Things(stored')
      BY <1>3, <2>3, <3>2, <3>3, WithoutIs
    <3>5. QED
      BY <3>2, <3>3, <3>4 DEF Docs!Attachable, Things
  <2>4. QED
    BY <1>1, <2>2, <2>3
<1> HIDE DEF t
<1>7. QED
  BY <1>1, <1>2, <1>4, <1>5, <1>6, ChangeServed DEF t

\* The files that are left to send make another task.
LEMMA SentOn ==
    ASSUME DocsInv, tasks # <<>>, Docs!Task.op = "upload", Docs!Continue,
           view' = view, ids' \in Nat, ids <= ids', ~unseen' => ~unseen
    PROVE  /\ Tasks' /\ uploading' \in BOOLEAN
           /\ \A i \in DOMAIN tasks' : tasks'[i].op \in {"upload", "rename", "delete", "fetch", "attach"}
           /\ \/ tasks' = Tail(tasks)
              \/ \E t : tasks' = Append(Tail(tasks), t) /\ Brought(t, ids) /\ t.op = "upload"
           /\ view = "dialog" /\ ~unseen => (\A i \in DOMAIN tasks' : tasks'[i].op # "fetch") /\ ~Asked(tasks')
<1> DEFINE t == [Docs!Task EXCEPT !.left = @ - 1]
           n == Len(tasks) - 1
<1>1. /\ Brought(Docs!Task, ids) /\ (Docs!Task.here => Fits(Docs!Task, view))
      /\ (~unseen => Docs!Task.here) /\ Docs!Task.here \in BOOLEAN /\ tasks \in Seq(Requests)
      /\ Docs!Task \in Uploads
  BY FirstTask, RequestIs DEF Brought
<1>2. /\ Tail(tasks) \in Seq(Requests) /\ DOMAIN Tail(tasks) = 1 .. n /\ DOMAIN tasks = 1 .. Len(tasks)
      /\ Len(Tail(tasks)) = n /\ n \in Nat /\ \A i \in 1 .. n : Tail(tasks)[i] = tasks[i + 1]
  BY <1>1, Shifted
<1>3. uploading' = (uploading /\ (Docs!Task.here => Docs!Task.left # 0))
  BY DEF Docs!Continue
<1>4. uploading' \in BOOLEAN
  BY <1>3
<1>5. CASE Docs!Task.left = 0
  <2>1. tasks' = Tail(tasks)
    <3>1. tasks' = Tail(tasks) \o <<>>
      BY <1>5 DEF Docs!Continue
    <3>2. QED
      BY <1>2, <3>1, ConcatEmptySeq
  <2>2. \A i \in DOMAIN tasks' : i + 1 \in DOMAIN tasks /\ tasks'[i] = tasks[i + 1]
    BY <1>2, <2>1
  <2>3. \A i \in DOMAIN tasks' : Brought(tasks'[i], ids') /\ (tasks'[i].here => Fits(tasks'[i], view))
                                 /\ (~unseen => tasks'[i].here)
    <3>1. \A i \in DOMAIN tasks : Brought(tasks[i], ids) /\ (tasks[i].here => Fits(tasks[i], view))
                                  /\ (~unseen => tasks[i].here)
      BY DEF DocsInv, Tasks
    <3>2. \A x : Brought(x, ids) => Brought(x, ids')
      BY StillKnown DEF DocsInv
    <3>3. QED
      BY <2>2, <3>1, <3>2
  <2>4. Tasks'
    BY <1>2, <2>1, <2>3 DEF Tasks
  <2>5. \A i \in DOMAIN tasks' : tasks'[i].op \in {"upload", "rename", "delete", "fetch", "attach"}
    BY <2>3, RequestIs DEF Brought
  <2>6. QED
    BY <1>4, <2>1, <2>4, <2>5, NoneAsks
<1>6. CASE Docs!Task.left # 0
  <2>1. /\ t \in Uploads /\ t.op = "upload" /\ t.here = Docs!Task.here /\ t.kind = Docs!Task.kind
    BY <1>1, <1>6 DEF Uploads
  <2> HIDE DEF t
  <2>2. t \in Requests /\ Brought(t, ids) /\ (t.here => Fits(t, view))
    BY <1>1, <2>1 DEF Brought, Requests, Changes, Fits
  <2>3. tasks' = Append(Tail(tasks), t)
    <3>1. tasks' = Tail(tasks) \o <<t>>
      BY <1>6 DEF Docs!Continue, t
    <3>2. QED
      BY <1>2, <2>2, <3>1, AppendIsConcat
  <2>4. /\ tasks' \in Seq(Requests) /\ DOMAIN tasks' = 1 .. n + 1 /\ tasks'[n + 1] = t
        /\ \A i \in 1 .. n : tasks'[i] = tasks[i + 1]
    BY <1>2, <2>2, <2>3, Appended
  <2>5. \A i \in DOMAIN tasks' : i = n + 1 \/ (i + 1 \in DOMAIN tasks /\ i + 1 # 1 /\ tasks'[i] = tasks[i + 1])
    BY <1>2, <2>4
  <2>6. \A i \in DOMAIN tasks' : Brought(tasks'[i], ids') /\ (tasks'[i].here => Fits(tasks'[i], view))
                                 /\ (~unseen => tasks'[i].here)
    <3>1. \A i \in DOMAIN tasks : Brought(tasks[i], ids) /\ (tasks[i].here => Fits(tasks[i], view))
                                  /\ (~unseen => tasks[i].here)
      BY DEF DocsInv, Tasks
    <3>2. \A x : Brought(x, ids) => Brought(x, ids')
      BY StillKnown DEF DocsInv
    <3>3. QED
      BY <1>1, <2>1, <2>2, <2>4, <2>5, <3>1, <3>2
  <2>7. Tasks'
    BY <2>4, <2>6 DEF Tasks
  <2>8. \A i \in DOMAIN tasks' : tasks'[i].op \in {"upload", "rename", "delete", "fetch", "attach"}
    BY <2>6, RequestIs DEF Brought
  <2>9. ASSUME view = "dialog", ~unseen
        PROVE  (\A i \in DOMAIN tasks' : tasks'[i].op # "fetch") /\ ~Asked(tasks')
    <3>1. \A i \in DOMAIN tasks : tasks[i].op = "fetch" => i = 1
      BY <2>9 DEF DocsInv, Field
    <3>2. \A i \in DOMAIN tasks' : tasks'[i].op # "fetch"
      BY <2>1, <2>4, <2>5, <3>1
    <3>3. 1 \in DOMAIN tasks' /\ Head(tasks') = tasks'[1]
      BY <1>2, <2>4
    <3>4. QED
      BY <3>2, <3>3 DEF Asked
  <2>10. QED
    BY <1>4, <2>1, <2>2, <2>3, <2>7, <2>8, <2>9
<1>7. QED
  BY <1>5, <1>6

\* A file is refused, stored, or stored without the page being told.
LEMMA UploadServed ==
    ASSUME FilesAssumption, DocsInv, Docs!ServeUpload
    PROVE  DocsInv'
<1> DEFINE t == Docs!Task
           file == [id |-> ids + 1, kind |-> t.kind, name |-> Given]
<1>1. /\ tasks # <<>> /\ t.op = "upload" /\ Docs!Continue
      /\ UNCHANGED <<view, attached, clobbered>>
      /\ \/ UNCHANGED <<stored, files, value, ids, unseen>>
         \/ /\ ids < MaxFiles /\ ids' = ids + 1 /\ stored' = <<file>> \o stored
            /\ \/ /\ files' = IF t.here THEN <<file>> \o files ELSE files
                  /\ value' = IF t.here /\ view = "dialog" THEN file.id ELSE value
                  /\ unseen' = unseen
               \/ unseen' = TRUE /\ UNCHANGED <<files, value>>
  BY DEF Docs!ServeUpload, Docs!Serving
<1>2. /\ Brought(t, ids) /\ (t.here => Fits(t, view)) /\ (~unseen => t.here) /\ t.here \in BOOLEAN
      /\ tasks \in Seq(Requests) /\ ~Asked(tasks) /\ t \in Uploads /\ t = Head(tasks)
  BY <1>1, FirstTask, RequestIs DEF Brought
<1>3. ids \in 0 .. MaxFiles /\ MaxFiles \in Nat
  BY FilesAssumption DEF FilesAssumption, DocsInv
<1>4. /\ Known(stored, ids) /\ Known(files, ids) /\ stored \in Seq(Docs!Files) /\ files \in Seq(Docs!Files)
      /\ Len(stored) \in Nat /\ Len(stored) <= ids
  BY LenProperties DEF DocsInv, Known
<1>5. (~unseen' => ~unseen) /\ ids' \in Nat /\ ids <= ids' /\ ids' \in 0 .. MaxFiles
  BY <1>1, <1>3
<1>6. /\ Tasks' /\ uploading' \in BOOLEAN
      /\ \A i \in DOMAIN tasks' : tasks'[i].op \in {"upload", "rename", "delete", "fetch", "attach"}
      /\ \/ tasks' = Tail(tasks)
         \/ \E u : tasks' = Append(Tail(tasks), u) /\ Brought(u, ids) /\ u.op = "upload"
      /\ view = "dialog" /\ ~unseen => (\A i \in DOMAIN tasks' : tasks'[i].op # "fetch") /\ ~Asked(tasks')
  BY <1>1, <1>5, SentOn
<1>7. ASSUME NEW made \in Seq(Docs!Files), NEW had, NEW d, Leads(d, made, had, Tail(tasks))
      PROVE  \E c : Leads(c, made, had, tasks')
  <2>1. CASE tasks' = Tail(tasks)
    BY <1>7, <2>1
  <2>2. ASSUME NEW u, tasks' = Append(Tail(tasks), u), Brought(u, ids), u.op = "upload"
        PROVE  \E c : Leads(c, made, had, tasks')
    <3>1. Tail(tasks) \in Seq(Requests)
      BY <1>1, <1>2, Shifted
    <3>2. u.op \notin Changes
      BY <2>2 DEF Changes
    <3>3. Effect(u, made) = made
      BY <3>2, <2>2 DEF Effect
    <3>4. \E c : Leads(c, Effect(u, made), had, Append(Tail(tasks), u))
      BY <1>7, <2>2, <3>1, <3>2, LeadsOn
    <3>5. QED
      BY <2>2, <3>3, <3>4
  <2>3. QED
    BY <1>6, <2>1, <2>2
<1>8. ASSUME view = "library", ~unseen, ~clobbered
      PROVE  \E d : Leads(d, files, stored, Tail(tasks))
  <2>1. PICK c : Leads(c, files, stored, tasks)
    BY <1>8 DEF DocsInv, Library
  <2>2. Effect(Head(tasks), stored) = stored
    BY <1>1, <1>2 DEF Effect
  <2>3. \E d : Leads(d, files, Effect(Head(tasks), stored), Tail(tasks))
    BY <1>1, <1>2, <2>1, LeadsFromNext
  <2>4. QED
    BY <2>2, <2>3
<1>9. CASE UNCHANGED <<stored, files, value, ids, unseen>>
  <2>1. Docs!TypeOK'
    BY <1>1, <1>6, <1>9 DEF DocsInv, Docs!TypeOK
  <2>2. Library'
    <3>1. SUFFICES ASSUME view = "library", ~unseen, ~clobbered PROVE \E c : Leads(c, files, stored, tasks')
      BY <1>1, <1>9 DEF Library
    <3>2. QED
      BY <1>4, <1>7, <1>8, <3>1
  <2>3. Field'
    BY <1>1, <1>2, <1>6, <1>9 DEF DocsInv, Field, Docs!Attachable
  <2>4. QED
    BY <1>1, <1>6, <1>9, <2>1, <2>2, <2>3 DEF DocsInv, Docs!Attachable
<1>10. CASE ids < MaxFiles /\ ids' = ids + 1 /\ stored' = <<file>> \o stored
  <2>1. file \in Docs!Files /\ file.id = ids + 1 /\ file.id \in 1 .. MaxFiles /\ file.kind = t.kind
    BY <1>2, <1>3, <1>10 DEF Docs!Files, Uploads
  <2> HIDE DEF file
  <2>2. ASSUME NEW l, Known(l, ids)
        PROVE  Known(l, ids + 1) /\ Known(<<file>> \o l, ids + 1) /\ ~Docs!Has(l, file.id)
               /\ \A f : f \in Things(<<file>> \o l) <=> f = file \/ f \in Things(l)
    <3>1. /\ l \in Seq(Docs!Files) /\ Len(l) \in Nat /\ DOMAIN l = 1 .. Len(l)
          /\ \A i \in 1 .. Len(l) : l[i].id <= ids /\ l[i].id \in 1 .. MaxFiles
      BY <2>2, LenProperties, KnownNumbers DEF Known
    <3>2. Known(l, ids + 1) /\ ~Docs!Has(l, file.id)
      BY <1>3, <2>1, <3>1 DEF Known, Docs!Has
    <3>3. /\ <<file>> \o l \in Seq(Docs!Files) /\ Len(<<file>> \o l) = Len(l) + 1
          /\ (<<file>> \o l)[1] = file /\ \A i \in 1 .. Len(l) : (<<file>> \o l)[i + 1] = l[i]
      BY <2>1, <3>1, BothEnds
    <3> DEFINE m == <<file>> \o l
    <3> HIDE DEF m
    <3>4. m \in Seq(Docs!Files) /\ DOMAIN m = 1 .. Len(l) + 1 /\ m[1] = file /\ \A i \in 1 .. Len(l) : m[i + 1] = l[i]
      BY <3>3, LenProperties DEF m
    <3>5. \A i \in DOMAIN m : i = 1 \/ (i - 1 \in 1 .. Len(l) /\ m[i] = l[i - 1])
      <4>1. TAKE i \in DOMAIN m
      <4>2. CASE i # 1
        <5>1. i - 1 \in 1 .. Len(l) /\ (i - 1) + 1 = i
          BY <3>1, <3>4, <4>2
        <5>2. QED
          BY <3>4, <5>1
      <4>3. QED
        BY <4>2
    <3>6. Known(m, ids + 1)
      <4>1. \A i \in DOMAIN m : m[i].id <= ids + 1
        BY <1>3, <2>1, <3>1, <3>4, <3>5
      <4>2. QED
        BY <3>4, <4>1 DEF Known
    <3>7. \A f : f \in Things(m) <=> f = file \/ f \in Things(l)
      <4>1. Things(m) \subseteq Things(l) \union {file}
        BY <3>1, <3>4, <3>5 DEF Things
      <4>2. file \in Things(m)
        BY <3>1, <3>4 DEF Things
      <4>3. ASSUME NEW f \in Things(l)
            PROVE  f \in Things(m)
        <5>1. PICK i \in 1 .. Len(l) : f = l[i]
          BY <3>1 DEF Things
        <5>2. i + 1 \in DOMAIN m /\ m[i + 1] = f
          BY <3>1, <3>4, <5>1
        <5>3. QED
          BY <5>2 DEF Things
      <4>4. QED
        BY <4>1, <4>2, <4>3
    <3>8. QED
      BY <3>2, <3>6, <3>7 DEF m
  <2>3. Known(stored', ids') /\ Known(files', ids')
    BY <1>1, <1>4, <1>10, <2>2
  <2>4. Len(stored') = Len(stored) + 1 /\ stored' \in Seq(Docs!Files)
    BY <1>4, <1>10, <2>1, BothEnds
  <2>5. Len(stored') <= ids' /\ stored' \in Docs!SeqOf(Docs!Files, MaxFiles)
    <3>1. Len(stored') <= ids' /\ Len(stored') <= MaxFiles
      BY <1>3, <1>4, <1>10, <2>4
    <3>2. QED
      BY <1>3, <2>4, <3>1, FewFiles
  <2>6. value' \in 0 .. MaxFiles /\ attached' \in 0 .. MaxFiles
    BY <1>1, <1>3, <2>1 DEF DocsInv, Docs!TypeOK
  <2>7. Docs!TypeOK'
    <3>1. \A i \in DOMAIN files' : files'[i] \in Docs!Files
      BY <2>3, LenProperties, ElementOfSeq DEF Known
    <3>2. QED
      BY <1>1, <1>6, <2>5, <2>6, <3>1 DEF DocsInv, Docs!TypeOK
  <2>8. \A k : (Docs!Attachable(k) => Docs!Attachable(k)')
    <3>1. \A f \in Things(stored) : f \in Things(stored')
      BY <1>4, <1>10, <2>2
    <3>2. \A k : Docs!Attachable(k) <=> \E f \in Things(stored) : f.id = k /\ f.kind = Resume
      BY DEF Docs!Attachable, Things
    <3>3. \A k : Docs!Attachable(k)' <=> \E f \in Things(stored') : f.id = k /\ f.kind = Resume
      BY DEF Docs!Attachable, Things
    <3>4. QED
      BY <3>1, <3>2, <3>3
  <2>9. attached' # 0 => Docs!Attachable(attached)'
    BY <1>1, <2>8 DEF DocsInv, Docs!Attachable
  <2>10. ~unseen' => t.here /\ files' = <<file>> \o files /\ value' = IF view = "dialog" THEN file.id ELSE value
    BY <1>1, <1>2, <1>10
  <2>11. Library'
    <3>1. SUFFICES ASSUME view = "library", ~unseen', ~unseen, ~clobbered
                   PROVE  \E c : Leads(c, files', stored', tasks')
      BY <1>1, <1>5 DEF Library
    <3>2. PICK d : Leads(d, files, stored, Tail(tasks))
      BY <1>8, <3>1
    <3>3. /\ Tail(tasks) \in Seq(Requests)
          /\ \A i \in DOMAIN Tail(tasks) :
                /\ Brought(Tail(tasks)[i], ids)
                /\ Tail(tasks)[i].op \in Changes =>
                      file.id # Tail(tasks)[i].id /\ ~Docs!Has(Tail(tasks)[i].previous, file.id)
      <4>1. /\ Tail(tasks) \in Seq(Requests) /\ DOMAIN tasks = 1 .. Len(tasks) /\ Len(tasks) \in Nat
            /\ DOMAIN Tail(tasks) = 1 .. Len(tasks) - 1
            /\ \A i \in 1 .. Len(tasks) - 1 : Tail(tasks)[i] = tasks[i + 1]
        BY <1>1, <1>2, Shifted
      <4>2. ASSUME NEW i \in DOMAIN Tail(tasks)
            PROVE  /\ Brought(Tail(tasks)[i], ids)
                   /\ Tail(tasks)[i].op \in Changes =>
                         file.id # Tail(tasks)[i].id /\ ~Docs!Has(Tail(tasks)[i].previous, file.id)
        <5>1. i + 1 \in DOMAIN tasks /\ Tail(tasks)[i] = tasks[i + 1]
          BY <4>1
        <5>2. Brought(tasks[i + 1], ids)
          BY <5>1 DEF DocsInv, Tasks
        <5>3. ASSUME tasks[i + 1].op \in Changes
              PROVE  file.id # tasks[i + 1].id /\ ~Docs!Has(tasks[i + 1].previous, file.id)
          <6>1. Known(tasks[i + 1].previous, ids) /\ Docs!Has(tasks[i + 1].previous, tasks[i + 1].id)
            BY <5>2, <5>3 DEF Brought
          <6>2. QED
            BY <2>2, <6>1
        <5>4. QED
          BY <5>1, <5>2, <5>3
      <4>3. QED
        BY <4>1, <4>2
    <3>4. \E e : Leads(e, <<file>> \o files, <<file>> \o stored, Tail(tasks))
      BY <2>1, <3>2, <3>3, LeadsWithOne
    <3>5. <<file>> \o files \in Seq(Docs!Files)
      BY <1>4, <2>1, BothEnds
    <3>6. QED
      BY <1>7, <1>10, <2>10, <3>1, <3>4, <3>5
  <2>12. Field'
    <3>1. SUFFICES ASSUME view = "dialog", ~unseen', ~unseen PROVE Field'
      BY <1>1, <1>5 DEF Field
    <3>2. t.kind = Resume
      BY <1>1, <1>2, <3>1 DEF Fits
    <3>3. Docs!OfKind(stored', Resume) = <<file>> \o Docs!OfKind(stored, Resume)
      BY <1>4, <1>10, <2>1, <3>2, OfKindIs
    <3>4. files' = Docs!OfKind(stored', Resume)
      BY <1>2, <2>10, <3>1, <3>3 DEF DocsInv, Field
    <3>5. file \in Things(stored')
      BY <1>4, <1>10, <2>2
    <3>6. Docs!Attachable(value)'
      BY <2>1, <2>10, <3>1, <3>2, <3>5 DEF Docs!Attachable, Things
    <3>7. QED
      BY <1>1, <1>6, <3>1, <3>4, <3>6 DEF Field
  <2>13. QED
    BY <1>5, <1>6, <2>3, <2>5, <2>7, <2>9, <2>11, <2>12 DEF DocsInv
<1>11. QED
  BY <1>1, <1>9, <1>10

-----------------------------------------------------------------------------
(* The documents as a whole. *)

\* At first nothing is stored, and no page is open.
LEMMA DocsBegin ==
    ASSUME FilesAssumption, Docs!Init
    PROVE  DocsInv
<1>1. /\ stored = <<>> /\ attached = 0 /\ files = <<>> /\ value = 0 /\ view = Nobody /\ uploading = FALSE
      /\ tasks = <<>> /\ ids = 0
  BY DEF Docs!Init
<1>2. MaxFiles \in Nat
  BY FilesAssumption DEF FilesAssumption
<1>3. <<>> \in Seq(Docs!Files) /\ <<>> \in Seq(Requests) /\ Len(<<>>) = 0 /\ DOMAIN <<>> = {}
  BY EmptySeq
<1>4. Known(<<>>, 0)
  BY <1>3 DEF Known
<1>5. Docs!TypeOK
  <2>1. <<>> \in Docs!SeqOf(Docs!Files, MaxFiles)
    <3>1. Len(<<>>) <= MaxFiles
      BY <1>2, <1>3
    <3>2. QED
      BY <1>2, <1>3, <3>1, FewFiles
  <2>2. 0 \in 0 .. MaxFiles
    BY <1>2
  <2>3. QED
    BY <1>1, <1>3, <2>1, <2>2 DEF Docs!TypeOK
<1>6. Tasks
  BY <1>1, <1>3 DEF Tasks
<1>7. Library
  <2>1. \E c : Leads(c, <<>>, <<>>, <<>>)
    BY <1>3, LeadsNowhere
  <2>2. QED
    BY <1>1, <2>1 DEF Library
<1>8. Field
  <2>1. Docs!OfKind(<<>>, Resume) = <<>>
    BY <1>3, OfKindIs
  <2>2. QED
    BY <1>1, <1>3, <2>1 DEF Field, Asked
<1>9. QED
  BY <1>1, <1>2, <1>3, <1>4, <1>5, <1>6, <1>7, <1>8 DEF DocsInv

\* Every step of theirs keeps what is said of them.
LEMMA DocsStep ==
    ASSUME FilesAssumption, DocsInv, Docs!Next
    PROVE  DocsInv'
BY OpenLibraryKeeps, PickKeeps, RenameKeeps, ConfirmDeleteKeeps, OpenDialogKeeps, ChooseKeeps,
   FieldCalls, UploadServed, RenameServed, DeleteDone, FetchServed, AttachServed
   DEF Docs!Next

\* And so do documents that stay as they are.
LEMMA DocsStay ==
    ASSUME DocsInv, UNCHANGED docsVars
    PROVE  DocsInv'
BY DEF docsVars, DocsInv, Docs!TypeOK, Known, Tasks, Library, Field, Docs!Attachable

\* The documents are what they should be in every state of every behaviour.
THEOREM DocsInvariant == Spec => []DocsInv
<1>1. Init => DocsInv
  BY FilesAssumption, DocsBegin DEF Init
<1>2. DocsInv /\ [Next]_vars => DocsInv'
  BY FilesAssumption, DocsStep, DocsStay DEF Next, vars
<1>3. QED
  BY <1>1, <1>2, PTL DEF Spec

\* With no action under way the library lists what is stored, in its order and with its
\* names, and the field what can be attached, whatever uploads, renames and deletions
\* failed; what an application names is stored (LibraryTellsTruth).
THEOREM LibraryTruth == Spec => []LibraryTellsTruth
<1>1. DocsInv => LibraryTellsTruth
  <2>1. SUFFICES ASSUME DocsInv PROVE LibraryTellsTruth
    OBVIOUS
  <2>2. ASSUME tasks = <<>>, ~clobbered, ~unseen, view = "library"
        PROVE  files = stored
    <3>1. PICK c : Leads(c, files, stored, tasks)
      BY <2>1, <2>2 DEF DocsInv, Library
    <3>2. Len(tasks) = 0
      BY <2>2
    <3>3. QED
      BY <3>1, <3>2 DEF Leads
  <2>3. ASSUME tasks = <<>>, ~unseen, view = "dialog"
        PROVE  files = Docs!OfKind(stored, Resume) /\ (value # 0 => Docs!Has(files, value))
    <3>1. files = Docs!OfKind(stored, Resume) /\ (value # 0 => Docs!Attachable(value))
      BY <2>1, <2>3 DEF DocsInv, Field, Asked
    <3>2. ASSUME value # 0
          PROVE  Docs!Has(files, value)
      <4>1. PICK f \in Things(stored) : f.id = value /\ f.kind = Resume
        BY <3>1, <3>2 DEF Docs!Attachable, Things
      <4>2. f \in Things(files)
        BY <2>1, <3>1, <4>1, OfKindIs DEF DocsInv, Known
      <4>3. QED
        BY <4>1, <4>2, HasIs
    <3>3. QED
      BY <3>1, <3>2
  <2>4. QED
    BY <2>1, <2>2, <2>3 DEF LibraryTellsTruth, Docs!LibraryTellsTruth, DocsInv
<1>2. QED
  BY <1>1, DocsInvariant, PTL

-----------------------------------------------------------------------------
(* The board: lists of cards. *)

\* The board keeps of a list what the documents do.
LEMMA CardsKept ==
    ASSUME NEW s, NEW some
    PROVE  Board!Kept(s, some) = Docs!Kept(s, some)
BY DEF Board!Kept, Docs!Kept, Board!FoldLeft, Docs!FoldLeft, Board!MapThenFoldSet,
       Docs!MapThenFoldSet, Board!Max, Docs!Max

\* And counts as everybody does.
LEMMA CardsCount == \A S : Board!Cardinality(S) = Cardinality(S)
BY DEF Board!Cardinality, Cardinality

\* A list in which nothing is twice is as long as what is in it is many.
LEMMA OnceCounts ==
    ASSUME NEW S, NEW s \in Seq(S), Once(s)
    PROVE  IsFiniteSet(Things(s)) /\ Cardinality(Things(s)) = Len(s)
<1> DEFINE Counts(l) == IsFiniteSet(Things(l)) /\ Cardinality(Things(l)) = Len(l)
           G == {l \in Seq(S) : Once(l) => Counts(l)}
<1>1. <<>> \in G
  <2>1. Things(<<>>) = {} /\ Len(<<>>) = 0 /\ <<>> \in Seq(S)
    BY EmptySeq DEF Things
  <2>2. QED
    BY <2>1, FS_EmptySet
<1>2. ASSUME NEW l \in Seq(S), NEW e \in S, l \in G
      PROVE  Append(l, e) \in G
  <2>1. /\ Append(l, e) \in Seq(S) /\ Len(Append(l, e)) = Len(l) + 1
        /\ Things(Append(l, e)) = Things(l) \union {e}
    BY OneMore
  <2>2. SUFFICES ASSUME Once(Append(l, e)) PROVE Counts(Append(l, e))
    BY <2>1
  <2>3. Once(l) /\ e \notin Things(l)
    BY <2>2, OnceMore
  <2>4. Counts(l)
    BY <1>2, <2>3
  <2>5. QED
    BY <2>1, <2>3, <2>4, FS_AddElement
<1>3. Seq(S) \subseteq G
  <2> HIDE DEF G
  <2>1. QED
    BY <1>1, <1>2, ClimbLists
<1>4. QED
  BY <1>3

\* Two lists that share nothing, each with nothing twice, make one with nothing twice.
LEMMA OnceJoined ==
    ASSUME NEW S, NEW k \in Seq(S), NEW l \in Seq(S)
    PROVE  /\ k \o l \in Seq(S) /\ Things(k \o l) = Things(k) \union Things(l)
           /\ Once(k) /\ Once(l) /\ Things(k) \cap Things(l) = {} => Once(k \o l)
<1>1. /\ k \o l \in Seq(S) /\ Len(k \o l) = Len(k) + Len(l)
      /\ \A i \in 1 .. Len(k) + Len(l) : (k \o l)[i] = IF i <= Len(k) THEN k[i] ELSE l[i - Len(k)]
  BY ConcatProperties, Zenon
<1>2. /\ Len(k) \in Nat /\ Len(l) \in Nat /\ DOMAIN k = 1 .. Len(k) /\ DOMAIN l = 1 .. Len(l)
      /\ DOMAIN (k \o l) = 1 .. Len(k) + Len(l)
  BY <1>1, LenProperties
<1>3. \A i \in DOMAIN k : i \in DOMAIN (k \o l) /\ (k \o l)[i] = k[i]
  BY <1>1, <1>2
<1>4. ASSUME NEW i \in DOMAIN l
      PROVE  Len(k) + i \in DOMAIN (k \o l) /\ (k \o l)[Len(k) + i] = l[i]
  <2>1. Len(k) + i \in 1 .. Len(k) + Len(l) /\ ~(Len(k) + i <= Len(k)) /\ (Len(k) + i) - Len(k) = i
    BY <1>2
  <2>2. QED
    BY <1>1, <1>2, <2>1
<1>5. ASSUME NEW i \in DOMAIN (k \o l)
      PROVE  \/ i \in DOMAIN k /\ (k \o l)[i] = k[i]
             \/ i \notin DOMAIN k /\ i - Len(k) \in DOMAIN l /\ (k \o l)[i] = l[i - Len(k)] /\ i \in Int
  BY <1>1, <1>2
<1>6. Things(k \o l) = Things(k) \union Things(l)
  <2>1. ASSUME NEW x \in Things(k \o l)
        PROVE  x \in Things(k) \union Things(l)
    BY <1>5 DEF Things
  <2>2. ASSUME NEW x \in Things(k)
        PROVE  x \in Things(k \o l)
    BY <1>3 DEF Things
  <2>3. ASSUME NEW x \in Things(l)
        PROVE  x \in Things(k \o l)
    <3>1. PICK i \in DOMAIN l : x = l[i]
      BY DEF Things
    <3>2. QED
      BY <1>4, <3>1 DEF Things
  <2>4. QED
    BY <2>1, <2>2, <2>3
<1>7. ASSUME Once(k), Once(l), Things(k) \cap Things(l) = {},
             NEW i \in DOMAIN (k \o l), NEW j \in DOMAIN (k \o l), (k \o l)[i] = (k \o l)[j]
      PROVE  i = j
  <2>1. CASE i \in DOMAIN k /\ j \in DOMAIN k
    BY <1>3, <1>7, <2>1 DEF Once
  <2>2. CASE i \notin DOMAIN k /\ j \notin DOMAIN k
    <3>1. i - Len(k) = j - Len(k)
      BY <1>5, <1>7, <2>2 DEF Once
    <3>2. i \in Int /\ j \in Int
      BY <1>5, <2>2
    <3>3. QED
      BY <1>2, <3>1, <3>2
  <2>3. CASE i \in DOMAIN k /\ j \notin DOMAIN k
    BY <1>3, <1>5, <1>7, <2>3 DEF Things
  <2>4. CASE i \notin DOMAIN k /\ j \in DOMAIN k
    BY <1>3, <1>5, <1>7, <2>4 DEF Things
  <2>5. QED
    BY <2>1, <2>2, <2>3, <2>4
<1>8. QED
  BY <1>1, <1>6, <1>7 DEF Once

\* Of finitely many things with a number each, one has the greatest.
LEMMA GreatestOf ==
    ASSUME NEW S, S # {}, NEW n \in Nat, NEW p \in [S -> 0 .. n]
    PROVE  \E x \in S : \A y \in S : p[y] <= p[x]
<1> DEFINE Left == {n - p[x] : x \in S}
<1>1. Left \in SUBSET Nat /\ Left # {}
  <2>1. \A x \in S : n - p[x] \in Nat
    OBVIOUS
  <2>2. QED
    BY <2>1
<1>2. PICK m \in Left : \A y \in Left : m =< y
  <2> HIDE DEF Left
  <2>1. QED
    BY <1>1, LeastNumber
<1>3. PICK x \in S : m = n - p[x]
  BY <1>2
<1>4. ASSUME NEW y \in S
      PROVE  p[y] <= p[x]
  <2>1. n - p[x] =< n - p[y]
    BY <1>2, <1>3
  <2>2. p[x] \in Int /\ p[y] \in Int
    OBVIOUS
  <2>3. QED
    BY <2>1, <2>2
<1>5. QED
  BY <1>4

\* A list of all of S, once each, with the numbers in order.
Sorted(l, S, p) ==
    /\ l \in Seq(S) /\ Once(l) /\ Things(l) = S
    /\ \A i, j \in DOMAIN l : i < j => p[l[i]] <= p[l[j]]

\* There is one: of what is left without one of the greatest number, with that one last.
LEMMA SortedExists ==
    ASSUME NEW T, IsFiniteSet(T), NEW n \in Nat, NEW p \in [T -> 0 .. n]
    PROVE  \E l : Sorted(l, T, p)
<1> DEFINE Good == {m \in Nat : \A S \in SUBSET T : Cardinality(S) = m => \E l : Sorted(l, S, p)}
<1>1. 0 \in Good
  <2>1. ASSUME NEW S \in SUBSET T, Cardinality(S) = 0
        PROVE  \E l : Sorted(l, S, p)
    <3>1. S = {}
      BY <2>1, FS_Subset, FS_EmptySet
    <3>2. <<>> \in Seq(S) /\ DOMAIN <<>> = {}
      BY EmptySeq
    <3>3. Sorted(<<>>, S, p)
      BY <3>1, <3>2 DEF Sorted, Once, Things
    <3>4. QED
      BY <3>3
  <2>2. QED
    BY <2>1
<1>2. ASSUME NEW m \in Nat, m \in Good
      PROVE  m + 1 \in Good
  <2>1. ASSUME NEW S \in SUBSET T, Cardinality(S) = m + 1
        PROVE  \E l : Sorted(l, S, p)
    <3>0. IsFiniteSet(S) /\ S # {}
      BY <2>1, FS_Subset, FS_EmptySet
    <3>1. PICK x \in S : \A y \in S : p[y] <= p[x]
      <4> DEFINE q == [y \in S |-> p[y]]
      <4>1. q \in [S -> 0 .. n] /\ \A y \in S : q[y] = p[y]
        OBVIOUS
      <4> HIDE DEF q
      <4>2. PICK x \in S : \A y \in S : q[y] <= q[x]
        BY <3>0, <4>1, GreatestOf
      <4>3. QED
        BY <4>1, <4>2
    <3>2. S \ {x} \in SUBSET T /\ Cardinality(S \ {x}) = m
      <4>1. Cardinality(S \ {x}) = Cardinality(S) - 1
        BY <3>0, <3>1, FS_RemoveElement
      <4>2. m + 1 - 1 = m
        OBVIOUS
      <4>3. QED
        BY <2>1, <4>1, <4>2
    <3>3. PICK l : Sorted(l, S \ {x}, p)
      BY <1>2, <3>2
    <3>4. l \in Seq(S) /\ Once(l) /\ Things(l) = S \ {x}
      <4>1. Seq(S \ {x}) \subseteq Seq(S)
        OBVIOUS
      <4>2. QED
        BY <3>3, <4>1 DEF Sorted
    <3>5. Append(l, x) \in Seq(S) /\ Once(Append(l, x)) /\ Things(Append(l, x)) = S
      <4>1. x \in S /\ x \notin S \ {x} /\ (S \ {x}) \union {x} = S
        BY <3>1
      <4>2. Append(l, x) \in Seq(S) /\ Once(Append(l, x))
        BY <3>4, <4>1, OnceMore
      <4>3. Things(Append(l, x)) = (S \ {x}) \union {x}
        BY <3>4, <4>1, OneMore
      <4>4. QED
        BY <4>1, <4>2, <4>3
    <3>6. /\ Len(l) \in Nat /\ DOMAIN l = 1 .. Len(l) /\ DOMAIN Append(l, x) = 1 .. Len(l) + 1
          /\ \A i \in 1 .. Len(l) : Append(l, x)[i] = l[i]
          /\ Append(l, x)[Len(l) + 1] = x
      BY <3>4, AppendProperties, LenProperties
    <3>7. ASSUME NEW i \in DOMAIN Append(l, x), NEW j \in DOMAIN Append(l, x), i < j
          PROVE  p[Append(l, x)[i]] <= p[Append(l, x)[j]]
      <4>1. CASE j = Len(l) + 1
        <5>1. Append(l, x)[i] \in S
          BY <3>5 DEF Things
        <5>2. QED
          BY <3>1, <3>6, <4>1, <5>1
      <4>2. CASE j # Len(l) + 1
        <5>1. i \in 1 .. Len(l) /\ j \in 1 .. Len(l)
          BY <3>6, <3>7, <4>2
        <5>2. p[l[i]] <= p[l[j]]
          BY <3>3, <3>6, <3>7, <5>1 DEF Sorted
        <5>3. QED
          BY <3>6, <5>1, <5>2
      <4>3. QED
        BY <4>1, <4>2
    <3>8. Sorted(Append(l, x), S, p)
      BY <3>5, <3>7 DEF Sorted
    <3>9. QED
      BY <3>8
  <2>2. QED
    BY <2>1
<1>3. Nat \subseteq Good
  <2> HIDE DEF Good
  <2>1. QED
    BY <1>1, <1>2, Climb
<1>4. Cardinality(T) \in Nat /\ T \in SUBSET T
  BY FS_CardinalityType
<1>5. QED
  BY <1>3, <1>4

-----------------------------------------------------------------------------
(* The board: columns. *)

\* The cards of a status.
InStatus(st, s) == {x \in DOMAIN st : st[x].status = s}

\* What a page or the API can have of the applications.
HasCards(st) == st \in [DOMAIN st -> Board!Cards] /\ DOMAIN st \subseteq Apps

\* Columns in which no card is twice.
Parted(cols) ==
    /\ cols \in [Statuses -> Seq(Apps)]
    /\ \A s \in Statuses : Once(cols[s])
    /\ \A s, t \in Statuses : s # t => Things(cols[s]) \cap Things(cols[t]) = {}

\* Columns that have the cards where their status is.
Laid(cols, st) == \A s \in Statuses : Things(cols[s]) = InStatus(st, s)

\* A card is in a list or not.
LEMMA HoldsIs ==
    ASSUME NEW l, NEW x
    PROVE  Board!Holds(l, x) <=> x \in Things(l)
BY DEF Board!Holds, Things

\* A column has the cards of its status, once each.
LEMMA ColumnIs ==
    ASSUME AppsAssumption, NEW st, HasCards(st), NEW s
    PROVE  LET column == Board!BuildColumn(st, s)
           IN column \in Seq(Apps) /\ Once(column) /\ Things(column) = InStatus(st, s)
<1> DEFINE S == InStatus(st, s)
           n == Cardinality(Apps) + 1
           p == [x \in S |-> IF st[x].order = Unset THEN Cardinality(Apps) + 1 ELSE st[x].order]
           InOrder(l) == \A i, j \in DOMAIN l : i < j => p[l[i]] <= p[l[j]]
           column == Board!BuildColumn(st, s)
<1>1. S \in SUBSET Apps /\ IsFiniteSet(Apps) /\ IsFiniteSet(S)
  <2>1. S \in SUBSET Apps /\ IsFiniteSet(Apps)
    BY DEF InStatus, HasCards, AppsAssumption
  <2>2. QED
    BY <2>1, FS_Subset
<1>2. Cardinality(Apps) \in Nat /\ Cardinality(S) \in Nat
  BY <1>1, FS_CardinalityType
<1>3. p \in [S -> 0 .. n]
  <2>1. ASSUME NEW x \in S
        PROVE  p[x] \in 0 .. n
    <3>1. st[x].order = Unset \/ st[x].order \in 0 .. Cardinality(Apps)
      <4>1. st[x] \in Board!Cards
        BY DEF InStatus, HasCards
      <4>2. st[x].order \in Board!Orders
        BY <4>1 DEF Board!Cards
      <4>3. QED
        BY <4>2, CardsCount DEF Board!Orders
    <3>2. QED
      BY <1>2, <3>1
  <2>2. QED
    BY <2>1
<1>4. \A l \in Board!SetToSeqs(S) : l \in Seq(Apps) /\ Once(l) /\ Things(l) = S
  <2>1. SUFFICES ASSUME NEW l \in Board!SetToSeqs(S)
                 PROVE  l \in Seq(Apps) /\ Once(l) /\ Things(l) = S
    OBVIOUS
  <2>2. l \in [1 .. Cardinality(S) -> S] /\ Once(l)
    <3>1. l \in [1 .. Cardinality(S) -> S]
      BY CardsCount DEF Board!SetToSeqs
    <3>2. \A i, j \in 1 .. Cardinality(S) : i # j => l[i] # l[j]
      BY CardsCount DEF Board!SetToSeqs
    <3> HIDE DEF S
    <3>3. QED
      BY <3>1, <3>2 DEF Once
  <2>3. l \in Seq(S) /\ Len(l) = Cardinality(S) /\ DOMAIN l = 1 .. Cardinality(S)
    BY <1>2, <2>2
  <2>4. Things(l) \in SUBSET S
    BY <2>2 DEF Things
  <2>5. Cardinality(Things(l)) = Cardinality(S)
    BY <2>2, <2>3, OnceCounts
  <2>6. Things(l) = S
    BY <1>1, <2>4, <2>5, FS_Subset
  <2>7. l \in Seq(Apps)
    BY <1>1, <2>3
  <2>8. QED
    BY <2>2, <2>6, <2>7
<1>5. \E l \in Board!SetToSeqs(S) : InOrder(l)
  <2>1. n \in Nat
    BY <1>2
  <2>2. PICK l : Sorted(l, S, p)
    <3> HIDE DEF p, n, S
    <3>1. QED
      BY <1>1, <1>3, <2>1, SortedExists
  <2>3. l \in Seq(S) /\ Once(l) /\ Len(l) = Cardinality(S)
    BY <2>2, OnceCounts DEF Sorted
  <2>4. l \in [1 .. Cardinality(S) -> S]
    BY <1>2, <2>3
  <2>5. l \in Board!SetToSeqs(S)
    <3>1. \A i, j \in 1 .. Cardinality(S) : i # j => l[i] # l[j]
      BY <2>3, <2>4 DEF Once
    <3> HIDE DEF S
    <3>2. QED
      BY <2>4, <3>1, CardsCount DEF Board!SetToSeqs
  <2>6. InOrder(l)
    BY <2>2 DEF Sorted
  <2>7. QED
    BY <2>5, <2>6
<1>6. column \in Board!SetToSeqs(S)
  <2> DEFINE Place(x) == IF st[x].order = Unset THEN Cardinality(Apps) + 1 ELSE st[x].order
  <2>1. PICK l \in Board!SetToSeqs(S) : InOrder(l)
    BY <1>5
  <2>2. \A i, j \in DOMAIN l : i < j => Place(l[i]) <= Place(l[j])
    <3>1. \A i \in DOMAIN l : l[i] \in S
      BY <1>4 DEF Things
    <3>2. \A i \in DOMAIN l : p[l[i]] = Place(l[i])
      BY <3>1
    <3> HIDE DEF p, Place
    <3>3. QED
      BY <2>1, <3>2
  <2>3. column = CHOOSE c \in Board!SetToSeqs(S) :
                     \A i, j \in DOMAIN c : i < j => Place(c[i]) <= Place(c[j])
    BY CardsCount DEF Board!BuildColumn, InStatus
  <2> HIDE DEF Place, S, column
  <2>4. QED
    BY <2>1, <2>2, <2>3
<1>7. QED
  BY <1>4, <1>6

\* Merged columns have every card where its status is, wherever they were.
LEMMA MergeIs ==
    ASSUME AppsAssumption, NEW st, HasCards(st), NEW cols, Parted(cols)
    PROVE  Parted(Board!MergeColumnItems(cols, st)) /\ Laid(Board!MergeColumnItems(cols, st), st)
<1> DEFINE kept(s) == Board!Kept(cols[s], {x \in DOMAIN st : st[x].status = s})
           added(s) == Board!Kept(Board!BuildColumn(st, s), Apps \ Board!ToSet(kept(s)))
           merged == Board!MergeColumnItems(cols, st)
<1>1. ASSUME NEW s \in Statuses
      PROVE  /\ merged[s] = kept(s) \o added(s) /\ merged[s] \in Seq(Apps) /\ Once(merged[s])
             /\ Things(merged[s]) = InStatus(st, s)
  <2>1. cols[s] \in Seq(Apps) /\ Once(cols[s])
    BY DEF Parted
  <2>2. kept(s) \in Seq(Apps) /\ Once(kept(s)) /\ Things(kept(s)) = Things(cols[s]) \cap InStatus(st, s)
    BY <2>1, CardsKept, KeptIsPart, KeptOnce DEF InStatus
  <2>3. Board!ToSet(kept(s)) = Things(kept(s))
    BY DEF Board!ToSet, Things
  <2> DEFINE column == Board!BuildColumn(st, s)
  <2>4. column \in Seq(Apps) /\ Once(column) /\ Things(column) = InStatus(st, s)
    BY ColumnIs
  <2>5. added(s) = Board!Kept(column, Apps \ Things(kept(s)))
    BY <2>3
  <2>6. merged[s] = kept(s) \o added(s)
    BY DEF Board!MergeColumnItems
  <2> HIDE DEF kept, column, merged
  <2>7. /\ added(s) \in Seq(Apps) /\ Once(added(s))
        /\ Things(added(s)) = InStatus(st, s) \cap (Apps \ Things(kept(s)))
    BY <2>4, <2>5, CardsKept, KeptIsPart, KeptOnce
  <2>8. InStatus(st, s) \subseteq Apps
    BY DEF InStatus, HasCards
  <2> HIDE DEF added
  <2>9. /\ kept(s) \o added(s) \in Seq(Apps) /\ Once(kept(s) \o added(s))
        /\ Things(kept(s) \o added(s)) = InStatus(st, s)
    <3>1. Things(kept(s)) \cap Things(added(s)) = {}
      BY <2>7
    <3>2. Things(kept(s)) \union Things(added(s)) = InStatus(st, s)
      BY <2>2, <2>7, <2>8
    <3>3. QED
      BY <2>2, <2>7, <3>1, <3>2, OnceJoined
  <2>10. QED
    BY <2>6, <2>9
<1>2. merged = [s \in Statuses |-> merged[s]]
  BY DEF Board!MergeColumnItems
<1> HIDE DEF merged
<1>3. \A s, t \in Statuses : s # t => InStatus(st, s) \cap InStatus(st, t) = {}
  BY DEF InStatus
<1>4. Parted(merged) /\ Laid(merged, st)
  BY <1>1, <1>2, <1>3 DEF Parted, Laid
<1>5. QED
  BY <1>4 DEF merged

\* A card that is moved is in the column it is moved to and in no other.
LEMMA MoveIs ==
    ASSUME NEW cols, Parted(cols), NEW x \in Apps, NEW to \in Statuses,
           NEW from \in Statuses, x \in Things(cols[from])
    PROVE  LET moved == Board!MoveToColumn(cols, x, to)
           IN /\ Parted(moved)
              /\ \A s \in Statuses : Things(moved[s]) =
                     (Things(cols[s]) \ {x}) \union (IF s = to THEN {x} ELSE {})
<1> DEFINE others(s) == Board!Kept(cols[s], Apps \ {x})
           moved == Board!MoveToColumn(cols, x, to)
<1>1. moved = [s \in Statuses |-> IF s = to THEN Append(others(s), x) ELSE others(s)]
  <2>1. Board!Holds(cols[from], x)
    BY HoldsIs
  <2>2. QED
    BY <2>1 DEF Board!MoveToColumn
<1>2. ASSUME NEW s \in Statuses
      PROVE  others(s) \in Seq(Apps) /\ Once(others(s)) /\ Things(others(s)) = Things(cols[s]) \ {x}
  <2>1. cols[s] \in Seq(Apps) /\ Once(cols[s])
    BY DEF Parted
  <2>2. /\ others(s) \in Seq(Apps) /\ Once(others(s))
        /\ Things(others(s)) = Things(cols[s]) \cap (Apps \ {x})
    BY <2>1, CardsKept, KeptIsPart, KeptOnce
  <2>3. Things(cols[s]) \subseteq Apps
    BY <2>1 DEF Things
  <2>4. QED
    BY <2>2, <2>3
<1> HIDE DEF others
<1>3. ASSUME NEW s \in Statuses
      PROVE  /\ moved[s] \in Seq(Apps) /\ Once(moved[s])
             /\ Things(moved[s]) = (Things(cols[s]) \ {x}) \union (IF s = to THEN {x} ELSE {})
  <2>1. /\ Append(others(s), x) \in Seq(Apps) /\ Once(Append(others(s), x))
        /\ Things(Append(others(s), x)) = (Things(cols[s]) \ {x}) \union {x}
    BY <1>2, OnceMore, OneMore
  <2>2. QED
    BY <1>1, <1>2, <2>1
<1>4. moved \in [Statuses -> Seq(Apps)]
  BY <1>1, <1>3
<1> HIDE DEF moved
<1>5. \A s, t \in Statuses : s # t => Things(moved[s]) \cap Things(moved[t]) = {}
  BY <1>3 DEF Parted
<1>6. Parted(moved)
  BY <1>3, <1>4, <1>5 DEF Parted
<1>7. QED
  BY <1>3, <1>6 DEF moved

-----------------------------------------------------------------------------
(* The board: what holds of it. *)

\* An order that a drag gave a card; a drag that ended; an action called for one.
Places == [app : Apps, order : 0 .. Cardinality(Apps)]
Drags == {m \in [card : Apps, to : Statuses, orders : SUBSET Places,
                 snapshot : [Statuses -> Seq(Apps)]] : Parted(m.snapshot)}
Saves == [move : 1 .. Len(moves), saves : {"status", "orders"}]

\* Everything is what it should be, and no card is twice in the columns that are shown or
\* that could be put back.
Sound ==
    /\ server \in [Apps -> Board!Cards] /\ HasCards(store) /\ Parted(columns)
    /\ fresh # None => fresh \in [Apps -> Board!Cards]
    /\ drag # None => drag.card \in Apps /\ Parted(drag.snapshot)
    /\ moves \in Seq(Drags) /\ queue \in Seq(Saves)

\* The page has what the API has, but for a status stored by an action that then failed.
Heard == DOMAIN store = Apps /\ (~unheard => store = server)

\* A drag that nothing else runs beside: the cards were where the API has them, and are
\* but for the one dragged.
Dragging ==
    /\ queue = <<>> /\ fresh = None /\ Heard /\ drag.card \in Apps
    /\ Laid(drag.snapshot, store)
    /\ \E s \in Statuses : Laid(columns, Board!Patched(store, drag.card, s))

\* Its status is to be saved: it is where it was dragged, and would be put back.
StatusOwed ==
    /\ Len(queue) = 1 /\ queue[1].saves = "status" /\ fresh = None /\ Heard
    /\ LET move == moves[queue[1].move]
       IN Laid(move.snapshot, store) /\ Laid(columns, Board!Patched(store, move.card, move.to))

\* Nothing but orders is to be saved: the columns are those of the store, which is that
\* of the API if the tab has heard of it, or is empty, unless a render of it is under way.
Settling ==
    /\ queue = <<>> \/ (Len(queue) = 1 /\ queue[1].saves = "orders")
    /\ fresh \in {None, server} /\ Laid(columns, store)
    /\ queue = <<>> /\ fresh = None => Heard \/ DOMAIN store = {}

BoardInv ==
    /\ Sound
    /\ ~raced =>
          \/ drag # None /\ Dragging
          \/ drag = None /\ (StatusOwed \/ Settling)

\* Columns in which no card is twice are short enough.
LEMMA PartedFits ==
    ASSUME AppsAssumption, NEW cols, Parted(cols)
    PROVE  /\ cols \in Board!Columns
           /\ \A s \in Statuses : /\ Len(cols[s]) \in 0 .. Cardinality(Apps)
                                  /\ Cardinality(Things(cols[s])) = Len(cols[s])
<1>1. Cardinality(Apps) \in Nat /\ IsFiniteSet(Apps)
  BY FS_CardinalityType DEF AppsAssumption
<1>2. ASSUME NEW s \in Statuses
      PROVE  /\ Len(cols[s]) \in 0 .. Cardinality(Apps)
             /\ Cardinality(Things(cols[s])) = Len(cols[s])
             /\ cols[s] \in Board!SeqOf(Apps, Cardinality(Apps))
  <2> DEFINE l == cols[s]
  <2>1. l \in Seq(Apps) /\ Once(l)
    BY DEF Parted
  <2> HIDE DEF l
  <2>2. Things(l) \in SUBSET Apps
    BY <2>1 DEF Things
  <2>3. Cardinality(Things(l)) = Len(l) /\ Cardinality(Things(l)) <= Cardinality(Apps)
    BY <1>1, <2>1, <2>2, OnceCounts, FS_Subset
  <2>4. Len(l) \in 0 .. Cardinality(Apps) /\ l \in [1 .. Len(l) -> Apps]
    BY <1>1, <2>1, <2>3
  <2>5. l \in Board!SeqOf(Apps, Cardinality(Apps))
    BY <2>4 DEF Board!SeqOf
  <2>6. QED
    BY <2>3, <2>4, <2>5 DEF l
<1>3. cols \in [Statuses -> Board!SeqOf(Apps, Cardinality(Apps))]
  BY <1>2 DEF Parted
<1>4. QED
  BY <1>2, <1>3, CardsCount DEF Board!Columns

\* A status that is patched moves its card from one status to another.
LEMMA PatchedIs ==
    ASSUME NEW st, HasCards(st), NEW x, NEW s \in Statuses
    PROVE  LET patched == Board!Patched(st, x, s)
           IN /\ HasCards(patched) /\ DOMAIN patched = DOMAIN st
              /\ x \in DOMAIN st => \A t \in Statuses : InStatus(patched, t) =
                     (InStatus(st, t) \ {x}) \union (IF t = s THEN {x} ELSE {})
<1>1. CASE x \notin DOMAIN st
  BY <1>1 DEF Board!Patched
<1>2. CASE x \in DOMAIN st
  <2> DEFINE patched == [st EXCEPT ![x].status = s]
  <2>1. Board!Patched(st, x, s) = patched
    BY <1>2 DEF Board!Patched
  <2>2. st \in [DOMAIN st -> Board!Cards] /\ DOMAIN st \subseteq Apps
    BY DEF HasCards
  <2>3. DOMAIN patched = DOMAIN st
    BY <2>2
  <2>4. ASSUME NEW y \in DOMAIN st
        PROVE  /\ patched[y] \in Board!Cards
               /\ patched[y].status = IF y = x THEN s ELSE st[y].status
    <3>1. st[y] \in Board!Cards
      BY <2>2
    <3>2. CASE y = x
      <4>1. patched[y] = [st[x] EXCEPT !.status = s]
        BY <2>2, <3>2
      <4>2. QED
        BY <3>1, <3>2, <4>1 DEF Board!Cards
    <3>3. CASE y # x
      <4>1. patched[y] = st[y]
        BY <2>2, <3>3
      <4>2. QED
        BY <3>1, <3>3, <4>1
    <3>4. QED
      BY <3>2, <3>3
  <2>5. patched \in [DOMAIN patched -> Board!Cards]
    <3>1. patched = [y \in DOMAIN st |-> patched[y]]
      BY <2>2
    <3> HIDE DEF patched
    <3>2. QED
      BY <2>3, <2>4, <3>1
  <2> HIDE DEF patched
  <2>6. HasCards(patched)
    BY <2>2, <2>3, <2>5 DEF HasCards
  <2>7. \A t \in Statuses : InStatus(patched, t) =
            (InStatus(st, t) \ {x}) \union (IF t = s THEN {x} ELSE {})
    BY <1>2, <2>3, <2>4 DEF InStatus
  <2>8. QED
    BY <2>1, <2>3, <2>6, <2>7
<1>3. QED
  BY <1>1, <1>2

\* Orders that are saved leave each card its status.
LEMMA OrderedIs ==
    ASSUME AppsAssumption, NEW st, HasCards(st), NEW orders \in SUBSET Places
    PROVE  LET ordered == Board!Ordered(st, orders)
           IN /\ HasCards(ordered) /\ DOMAIN ordered = DOMAIN st
              /\ \A t \in Statuses : InStatus(ordered, t) = InStatus(st, t)
<1> DEFINE ordered == Board!Ordered(st, orders)
           Of(x) == CHOOSE o \in orders : o.app = x
<1>1. st \in [DOMAIN st -> Board!Cards] /\ DOMAIN st \subseteq Apps
  BY DEF HasCards
<1>2. ordered = [x \in DOMAIN st |-> IF \E o \in orders : o.app = x
                                     THEN [st[x] EXCEPT !.order = Of(x).order] ELSE st[x]]
  BY DEF Board!Ordered
<1>3. ASSUME NEW x \in DOMAIN st
      PROVE  ordered[x] \in Board!Cards /\ ordered[x].status = st[x].status
  <2>1. st[x] \in Board!Cards
    BY <1>1
  <2>2. CASE \E o \in orders : o.app = x
    <3>1. Of(x) \in orders
      BY <2>2
    <3>2. Of(x).order \in Board!Orders
      <4> HIDE DEF Of
      <4>1. Of(x).order \in 0 .. Cardinality(Apps)
        BY <3>1 DEF Places
      <4>2. QED
        BY <4>1, CardsCount DEF Board!Orders
    <3>3. ordered[x] = [st[x] EXCEPT !.order = Of(x).order]
      BY <1>2, <2>2
    <3> HIDE DEF Of, ordered
    <3>4. QED
      BY <2>1, <3>2, <3>3 DEF Board!Cards
  <2>3. CASE ~\E o \in orders : o.app = x
    <3>1. ordered[x] = st[x]
      BY <1>2, <2>3
    <3>2. QED
      BY <2>1, <3>1
  <2>4. QED
    BY <2>2, <2>3
<1>4. DOMAIN ordered = DOMAIN st /\ ordered = [x \in DOMAIN st |-> ordered[x]]
  BY <1>2
<1> HIDE DEF ordered
<1>5. ordered \in [DOMAIN ordered -> Board!Cards]
  BY <1>3, <1>4
<1>6. HasCards(ordered)
  BY <1>1, <1>4, <1>5 DEF HasCards
<1>7. \A t \in Statuses : InStatus(ordered, t) = InStatus(st, t)
  BY <1>3, <1>4 DEF InStatus
<1>8. QED
  BY <1>4, <1>6, <1>7 DEF ordered

\* The orders that changed are places in columns.
LEMMA ChangesFit ==
    ASSUME AppsAssumption, NEW cols, Parted(cols), NEW some \in SUBSET Statuses
    PROVE  Board!OrderChanges(cols, some) \in SUBSET Places
<1>1. SUFFICES ASSUME NEW o \in Board!OrderChanges(cols, some)
               PROVE  o \in Places
  OBVIOUS
<1>2. PICK s \in some : \E i \in DOMAIN cols[s] : o = [app |-> cols[s][i], order |-> i - 1]
  BY DEF Board!OrderChanges
<1>0. PICK i \in DOMAIN cols[s] : o = [app |-> cols[s][i], order |-> i - 1]
  BY <1>2
<1>3. cols[s] \in Seq(Apps) /\ Len(cols[s]) \in 0 .. Cardinality(Apps)
  BY PartedFits DEF Parted
<1>4. i \in 1 .. Len(cols[s]) /\ cols[s][i] \in Apps
  BY <1>3
<1>5. Cardinality(Apps) \in Nat
  BY FS_CardinalityType DEF AppsAssumption
<1>6. i - 1 \in 0 .. Cardinality(Apps)
  BY <1>3, <1>4, <1>5
<1>7. QED
  BY <1>0, <1>4, <1>6 DEF Places

\* However a card is moved, no card is twice in the columns.
LEMMA MoveParted ==
    ASSUME NEW cols, Parted(cols), NEW x \in Apps, NEW to \in Statuses
    PROVE  Parted(Board!MoveToColumn(cols, x, to))
<1>1. CASE \A s \in Statuses : ~Board!Holds(cols[s], x)
  BY <1>1 DEF Board!MoveToColumn
<1>2. CASE \E s \in Statuses : Board!Holds(cols[s], x)
  <2>1. PICK s \in Statuses : x \in Things(cols[s])
    BY <1>2, HoldsIs
  <2>2. QED
    BY <2>1, MoveIs
<1>3. QED
  BY <1>1, <1>2

\* One that is where a patch would have it is moved to where another would.
LEMMA MoveLays ==
    ASSUME NEW cols, Parted(cols), NEW st, HasCards(st), NEW x \in DOMAIN st,
           NEW s \in Statuses, Laid(cols, Board!Patched(st, x, s)), NEW to \in Statuses
    PROVE  Laid(Board!MoveToColumn(cols, x, to), Board!Patched(st, x, to))
<1>1. x \in Apps
  BY DEF HasCards
<1>2. \A t \in Statuses : Things(cols[t]) = (InStatus(st, t) \ {x}) \union (IF t = s THEN {x} ELSE {})
  BY PatchedIs DEF Laid
<1>3. x \in Things(cols[s])
  BY <1>2
<1> DEFINE moved == Board!MoveToColumn(cols, x, to)
<1>4. \A t \in Statuses : Things(moved[t]) = (Things(cols[t]) \ {x}) \union (IF t = to THEN {x} ELSE {})
  BY <1>1, <1>3, MoveIs
<1> HIDE DEF moved
<1>5. \A t \in Statuses : Things(moved[t]) = (InStatus(st, t) \ {x}) \union (IF t = to THEN {x} ELSE {})
  BY <1>2, <1>4
<1>6. Laid(moved, Board!Patched(st, x, to))
  <2>1. \A t \in Statuses : InStatus(Board!Patched(st, x, to), t) =
            (InStatus(st, t) \ {x}) \union (IF t = to THEN {x} ELSE {})
    BY PatchedIs
  <2>2. QED
    BY <1>5, <2>1 DEF Laid
<1>7. QED
  BY <1>6 DEF moved

-----------------------------------------------------------------------------
(* The board: its steps. *)

\* At first the columns are those of what the API has.
LEMMA BoardBegin ==
    ASSUME AppsAssumption, Board!Init
    PROVE  BoardInv
<1>1. server \in [Apps -> Board!Cards]
  <2>1. server \in [Apps -> [status : Statuses, order : {Unset}]]
    BY DEF Board!Init
  <2>2. [status : Statuses, order : {Unset}] \subseteq Board!Cards
    BY DEF Board!Cards, Board!Orders
  <2>3. QED
    BY <2>1, <2>2
<1>2. HasCards(server) /\ store = server
  BY <1>1 DEF HasCards, Board!Init
<1>3. \A s \in Statuses : /\ columns[s] \in Seq(Apps) /\ Once(columns[s])
                          /\ Things(columns[s]) = InStatus(store, s)
  <2>1. \A s \in Statuses : columns[s] = Board!BuildColumn(server, s)
    BY DEF Board!Init
  <2>2. QED
    BY <1>2, <2>1, ColumnIs
<1>4. columns = [s \in Statuses |-> columns[s]]
  BY DEF Board!Init
<1>5. Parted(columns) /\ Laid(columns, store)
  <2>1. \A s, t \in Statuses : s # t => InStatus(store, s) \cap InStatus(store, t) = {}
    BY DEF InStatus
  <2>2. QED
    BY <1>3, <1>4, <2>1 DEF Parted, Laid
<1>6. /\ drag = None /\ moves = <<>> /\ queue = <<>> /\ fresh = None
      /\ moves \in Seq(Drags) /\ queue \in Seq(Saves)
  BY EmptySeq DEF Board!Init
<1>7. QED
  BY <1>1, <1>2, <1>5, <1>6 DEF BoardInv, Sound, Settling, Heard

\* A card is picked up: the columns as they are would be put back.
LEMMA DragStarts ==
    ASSUME BoardInv, Board!DragStart
    PROVE  BoardInv'
<1>1. PICK s \in Statuses : \E i \in DOMAIN columns[s] :
          drag' = [card |-> columns[s][i], snapshot |-> columns]
  BY DEF Board!DragStart
<1>2. PICK x \in Things(columns[s]) : drag'.card = x /\ drag'.snapshot = columns
  BY <1>1 DEF Things
<1>3. /\ drag = None /\ raced' = (raced \/ queue # <<>> \/ fresh # None)
      /\ UNCHANGED <<server, store, columns, moves, queue, fresh, unheard>>
  BY DEF Board!DragStart
<1>4. x \in Apps /\ Parted(columns)
  <2>1. columns[s] \in Seq(Apps) /\ Parted(columns)
    BY DEF BoardInv, Sound, Parted
  <2>2. QED
    BY <2>1 DEF Things
<1>5. Sound'
  BY <1>2, <1>3, <1>4 DEF BoardInv, Sound, Drags, Saves
<1>6. ASSUME ~raced'
      PROVE  Settling /\ Dragging'
  <2>1. ~raced /\ queue = <<>> /\ fresh = None
    BY <1>3, <1>6
  <2>2. Settling /\ Laid(columns, store)
    BY <1>3, <2>1 DEF BoardInv, StatusOwed, Settling
  <2>3. x \in InStatus(store, s)
    BY <2>2 DEF Laid
  <2>4. Heard /\ x \in DOMAIN store
    BY <2>1, <2>2, <2>3 DEF Settling, InStatus
  <2>5. Laid(columns, Board!Patched(store, x, s))
    <3>1. \A t \in Statuses : InStatus(Board!Patched(store, x, s), t) =
              (InStatus(store, t) \ {x}) \union (IF t = s THEN {x} ELSE {})
      BY <2>4, PatchedIs DEF BoardInv, Sound
    <3>2. \A t \in Statuses : t # s => x \notin InStatus(store, t)
      BY <2>3 DEF InStatus
    <3>3. \A t \in Statuses : InStatus(Board!Patched(store, x, s), t) = InStatus(store, t)
      BY <2>3, <3>1, <3>2
    <3>4. QED
      BY <2>2, <3>3 DEF Laid
  <2>6. Laid(columns', Board!Patched(store', drag'.card, s))
    BY <1>2, <1>3, <2>5
  <2>7. Laid(drag'.snapshot, store')
    BY <1>2, <1>3, <2>2
  <2>8. queue' = <<>> /\ fresh' = None /\ Heard' /\ drag'.card \in Apps
    BY <1>2, <1>3, <1>4, <2>1, <2>4 DEF Heard
  <2>9. Dragging'
    BY <2>6, <2>7, <2>8 DEF Dragging
  <2>10. QED
    BY <2>2, <2>9
<1>7. ASSUME Settling
      PROVE  Settling'
  BY <1>3, <1>7 DEF Settling, Laid, InStatus, Heard
<1>8. QED
  BY <1>5, <1>6, <1>7 DEF BoardInv

\* It is held over a column.
LEMMA DraggedOver ==
    ASSUME BoardInv, Board!DragOver
    PROVE  BoardInv'
<1>1. PICK to \in Statuses : columns' = Board!MoveToColumn(columns, drag.card, to)
  BY DEF Board!DragOver
<1>2. drag # None /\ UNCHANGED <<server, store, drag, moves, queue, fresh, raced, unheard>>
  BY DEF Board!DragOver
<1>3. Sound'
  <2>1. Parted(columns')
    BY <1>1, <1>2, MoveParted DEF BoardInv, Sound
  <2>2. QED
    BY <1>2, <2>1 DEF BoardInv, Sound, Drags, Saves
<1>4. ASSUME ~raced
      PROVE  Dragging'
  <2>1. Dragging
    BY <1>2, <1>4 DEF BoardInv
  <2>2. PICK s \in Statuses : Laid(columns, Board!Patched(store, drag.card, s))
    BY <2>1 DEF Dragging
  <2>3. drag.card \in DOMAIN store /\ HasCards(store) /\ Parted(columns)
    BY <2>1 DEF Dragging, BoardInv, Sound, Heard
  <2>4. Laid(columns', Board!Patched(store, drag.card, to))
    BY <1>1, <2>2, <2>3, MoveLays
  <2>5. Laid(columns', Board!Patched(store', drag'.card, to))
    BY <1>2, <2>4
  <2>6. Laid(drag'.snapshot, store')
    BY <1>2, <2>1 DEF Dragging
  <2>7. QED
    BY <1>2, <2>1, <2>5, <2>6 DEF Dragging, Heard
<1>5. QED
  BY <1>2, <1>3, <1>4 DEF BoardInv

\* It is put back.
LEMMA DragCancelled ==
    ASSUME BoardInv, Board!Cancel
    PROVE  BoardInv'
<1>1. /\ drag # None /\ columns' = drag.snapshot /\ drag' = None
      /\ UNCHANGED <<server, store, moves, queue, fresh, raced, unheard>>
  BY DEF Board!Cancel
<1>2. Sound'
  BY <1>1 DEF BoardInv, Sound, Drags, Saves
<1>3. ASSUME ~raced
      PROVE  Settling'
  <2>1. Dragging
    BY <1>1, <1>3 DEF BoardInv
  <2>2. Laid(columns', store')
    BY <1>1, <2>1 DEF Dragging
  <2>3. QED
    BY <1>1, <2>1, <2>2 DEF Dragging, Settling, Heard
<1>4. QED
  BY <1>1, <1>2, <1>3 DEF BoardInv

\* It is let go: its status is to be saved, or orders, or nothing.
LEMMA DragEnded ==
    ASSUME AppsAssumption, BoardInv, Board!DragEnd
    PROVE  BoardInv'
<1> DEFINE x == drag.card
           Items(target) == IF target = None THEN columns ELSE Board!MoveToColumn(columns, x, target)
           Reached(items) == {s \in Statuses : Board!Holds(items[s], x)}
           To(items) == CHOOSE s \in Reached(items) : TRUE
           Orders(items) == Board!OrderChanges(items, {To(items), store[x].status})
           Move(items) == [card |-> x, to |-> To(items), orders |-> Orders(items),
                           snapshot |-> drag.snapshot]
           Called(what) == queue' = Append(queue, [move |-> Len(moves) + 1, saves |-> what])
<1>1. /\ drag # None /\ drag' = None
      /\ UNCHANGED <<server, store, fresh, raced, unheard>>
  BY DEF Board!DragEnd
<1>2. PICK target \in Statuses \union {None} :
          /\ columns' = Items(target)
          /\ \/ (Reached(Items(target)) = {} \/ x \notin DOMAIN store) /\ UNCHANGED <<moves, queue>>
             \/ /\ Reached(Items(target)) # {} /\ x \in DOMAIN store
                /\ \/ /\ store[x].status # To(Items(target))
                      /\ moves' = Append(moves, Move(Items(target))) /\ Called("status")
                   \/ /\ store[x].status = To(Items(target)) /\ Orders(Items(target)) # {}
                      /\ moves' = Append(moves, Move(Items(target))) /\ Called("orders")
                   \/ /\ store[x].status = To(Items(target)) /\ UNCHANGED <<moves, queue>>
  BY DEF Board!DragEnd
<1> DEFINE items == Items(target)
<1>3. x \in Apps /\ Parted(columns) /\ Parted(drag.snapshot) /\ HasCards(store)
  BY <1>1 DEF BoardInv, Sound
<1>4. Parted(items)
  BY <1>3, MoveParted
<1>5. ASSUME Reached(items) # {}, x \in DOMAIN store
      PROVE  Move(items) \in Drags /\ To(items) \in Reached(items)
  <2>1. To(items) \in Reached(items)
    BY <1>5
  <2>2. store[x].status \in Statuses
    <3>1. store[x] \in Board!Cards
      BY <1>3, <1>5 DEF HasCards
    <3>2. QED
      BY <3>1 DEF Board!Cards
  <2> HIDE DEF items, To
  <2>3. {To(items), store[x].status} \in SUBSET Statuses
    BY <2>1, <2>2
  <2>4. Orders(items) \in SUBSET Places
    BY <1>4, <2>3, ChangesFit
  <2> HIDE DEF Orders
  <2>5. QED
    BY <1>3, <2>1, <2>3, <2>4 DEF Drags, Parted
<1> HIDE DEF items, Reached, To, Orders, Items
<1>6. moves \in Seq(Drags) /\ queue \in Seq(Saves)
  BY DEF BoardInv, Sound
<1>7. ASSUME NEW move \in Drags, NEW what \in {"status", "orders"},
             moves' = Append(moves, move), Called(what)
      PROVE  /\ moves' \in Seq(Drags) /\ queue' \in Seq(Saves')
             /\ queue = <<>> => /\ Len(queue') = 1 /\ queue'[1].saves = what
                                /\ moves'[queue'[1].move] = move
  <2>1. /\ moves' \in Seq(Drags) /\ Len(moves') = Len(moves) + 1 /\ Len(moves) \in Nat
        /\ moves'[Len(moves) + 1] = move
    BY <1>6, <1>7, AppendProperties
  <2>2. Saves \subseteq Saves' /\ [move |-> Len(moves) + 1, saves |-> what] \in Saves'
    BY <2>1 DEF Saves
  <2>3. queue \in Seq(Saves')
    BY <1>6, <2>2
  <2>4. /\ queue' \in Seq(Saves') /\ Len(queue') = Len(queue) + 1
        /\ queue'[Len(queue) + 1] = [move |-> Len(moves) + 1, saves |-> what]
    BY <1>7, <2>2, <2>3, AppendProperties
  <2>5. QED
    BY <2>1, <2>4
<1>8. columns' = items
  BY <1>2 DEF items
<1>9. Sound'
  <2>1. moves' \in Seq(Drags) /\ queue' \in Seq(Saves')
    <3>1. CASE UNCHANGED <<moves, queue>>
      BY <1>6, <3>1 DEF Saves
    <3>2. CASE /\ Reached(items) # {} /\ x \in DOMAIN store
               /\ moves' = Append(moves, Move(items)) /\ (Called("status") \/ Called("orders"))
      BY <1>5, <1>7, <3>2
    <3>3. QED
      BY <1>2, <3>1, <3>2 DEF items
  <2>2. QED
    BY <1>1, <1>4, <1>8, <2>1 DEF BoardInv, Sound
<1>10. ASSUME ~raced
       PROVE  StatusOwed' \/ Settling'
  <2>1. Dragging
    BY <1>1, <1>10 DEF BoardInv
  <2>2. PICK s \in Statuses : Laid(columns, Board!Patched(store, x, s))
    BY <2>1 DEF Dragging
  <2>3. x \in DOMAIN store /\ Heard /\ queue = <<>> /\ fresh = None
    BY <1>3, <2>1 DEF Dragging, BoardInv, Sound, Heard
  <2>4. PICK t \in Statuses : Laid(items, Board!Patched(store, x, t))
    <3>1. CASE target = None
      BY <2>2, <3>1 DEF items, Items
    <3>2. CASE target # None
      <4>1. Laid(Board!MoveToColumn(columns, x, target), Board!Patched(store, x, target))
        BY <1>3, <2>2, <2>3, <3>2, MoveLays
      <4>2. QED
        BY <3>2, <4>1 DEF items, Items
    <3>3. QED
      BY <3>1, <3>2
  <2>5. \A s1 \in Statuses : Things(items[s1]) =
            (InStatus(store, s1) \ {x}) \union (IF s1 = t THEN {x} ELSE {})
    BY <1>3, <2>3, <2>4, PatchedIs DEF Laid
  <2>6. Reached(items) = {t}
    BY <2>5, HoldsIs DEF Reached
  <2>7. To(items) = t
    BY <2>6 DEF To
  <2>8. Move(items) \in Drags
    BY <1>5, <2>3, <2>6
  <2>9. CASE /\ store[x].status # To(items)
             /\ moves' = Append(moves, Move(items)) /\ Called("status")
    <3>1. Len(queue') = 1 /\ queue'[1].saves = "status" /\ moves'[queue'[1].move] = Move(items)
      BY <1>7, <2>3, <2>8, <2>9
    <3>2. Laid(drag.snapshot, store) /\ Laid(items, Board!Patched(store, x, To(items)))
      BY <2>1, <2>4, <2>7 DEF Dragging
    <3>3. Move(items).snapshot = drag.snapshot /\ Move(items).card = x /\ Move(items).to = To(items)
      OBVIOUS
    <3>4. store' = store /\ Heard' /\ fresh' = None
      BY <1>1, <2>3 DEF Heard
    <3> HIDE DEF Move
    <3>5. StatusOwed'
      BY <1>8, <3>1, <3>2, <3>3, <3>4 DEF StatusOwed
    <3>6. QED
      BY <3>5
  <2>10. ASSUME store[x].status = To(items)
         PROVE  Laid(columns', store')
    <3>1. x \in InStatus(store, t) /\ \A s1 \in Statuses : s1 # t => x \notin InStatus(store, s1)
      BY <2>3, <2>7, <2>10 DEF InStatus
    <3>2. \A s1 \in Statuses : Things(items[s1]) = InStatus(store, s1)
      BY <2>5, <3>1
    <3>3. QED
      BY <1>1, <1>8, <3>2 DEF Laid
  <2>11. CASE /\ store[x].status = To(items)
              /\ moves' = Append(moves, Move(items)) /\ Called("orders")
    <3>1. Len(queue') = 1 /\ queue'[1].saves = "orders" /\ queue' # <<>>
      BY <1>7, <2>3, <2>8, <2>11
    <3>2. QED
      BY <1>1, <2>3, <2>10, <2>11, <3>1 DEF Settling
  <2>12. CASE store[x].status = To(items) /\ UNCHANGED <<moves, queue>>
    BY <1>1, <2>3, <2>10, <2>12 DEF Settling, Heard
  <2>13. QED
    BY <1>2, <2>3, <2>6, <2>9, <2>11, <2>12 DEF items
<1>11. QED
  BY <1>1, <1>9, <1>10 DEF BoardInv

\* The first of the actions called, and those after it.
LEMMA FirstSave ==
    ASSUME Sound, queue # <<>>
    PROVE  /\ Head(queue) = queue[1] /\ Head(queue) \in Saves /\ Tail(queue) \in Seq(Saves)
           /\ moves[Head(queue).move] \in Drags
           /\ Len(queue) = 1 => Tail(queue) = <<>>
<1>1. queue \in Seq(Saves) /\ moves \in Seq(Drags)
  BY DEF Sound
<1>2. Head(queue) = queue[1] /\ Head(queue) \in Saves /\ Tail(queue) \in Seq(Saves)
      /\ Len(Tail(queue)) = Len(queue) - 1
  BY <1>1, HeadTailProperties
<1>3. Head(queue).move \in 1 .. Len(moves)
  BY <1>2 DEF Saves
<1>4. moves[Head(queue).move] \in Drags
  <2> DEFINE n == Head(queue).move
  <2>1. n \in 1 .. Len(moves)
    BY <1>3
  <2> HIDE DEF n
  <2>2. moves[n] \in Drags
    BY <1>1, <2>1
  <2>3. QED
    BY <2>2 DEF n
<1>5. Len(queue) = 1 => Tail(queue) = <<>>
  <2>1. ASSUME Len(queue) = 1
        PROVE  Tail(queue) = <<>>
    <3>1. Len(Tail(queue)) = 0
      BY <1>2, <2>1
    <3>2. QED
      BY <1>2, <3>1, EmptySeq
  <2>2. QED
    BY <2>1
<1>6. QED
  BY <1>2, <1>4, <1>5

\* The status is saved, and the orders wait; or the columns are put back.
LEMMA StatusSaved ==
    ASSUME AppsAssumption, BoardInv, Board!ServeStatus
    PROVE  BoardInv'
<1> DEFINE move == moves[Head(queue).move]
           more == IF move.orders = {} THEN <<>> ELSE <<[Head(queue) EXCEPT !.saves = "orders"]>>
<1>1. queue # <<>> /\ Head(queue).saves = "status" /\ UNCHANGED <<drag, moves, raced>>
  BY DEF Board!ServeStatus, Board!Answered
<1>2. \/ /\ server' = Board!Patched(server, move.card, move.to)
         /\ store' = Board!Patched(store, move.card, move.to)
         /\ fresh' = server' /\ columns' = columns /\ queue' = Tail(queue) \o more
      \/ /\ columns' = move.snapshot /\ queue' = Tail(queue)
         /\ server' \in {server, Board!Patched(server, move.card, move.to)}
         /\ unheard' = (unheard \/ server' # server) /\ UNCHANGED <<store, fresh>>
  BY DEF Board!ServeStatus, Board!Restored
<1>3. Sound
  BY DEF BoardInv
<1>4. /\ Head(queue) = queue[1] /\ Head(queue) \in Saves /\ Tail(queue) \in Seq(Saves)
      /\ move \in Drags /\ (Len(queue) = 1 => Tail(queue) = <<>>)
  BY <1>1, <1>3, FirstSave
<1>5. move.card \in Apps /\ move.to \in Statuses /\ Parted(move.snapshot)
  BY <1>4 DEF Drags
<1>6. /\ more \in Seq(Saves)
      /\ more = <<>> \/ (Len(more) = 1 /\ more[1].saves = "orders")
  <2>1. [Head(queue) EXCEPT !.saves = "orders"] \in Saves
        /\ [Head(queue) EXCEPT !.saves = "orders"].saves = "orders"
    BY <1>4 DEF Saves
  <2> DEFINE one == [Head(queue) EXCEPT !.saves = "orders"]
  <2> HIDE DEF one
  <2>2. <<one>> \in Seq(Saves) /\ Len(<<one>>) = 1 /\ <<one>>[1] = one /\ <<>> \in Seq(Saves)
    BY <2>1 DEF one
  <2>3. QED
    BY <2>1, <2>2 DEF one
<1>7. Saves' = Saves
  BY <1>1 DEF Saves
<1>8. ASSUME ~raced
      PROVE  StatusOwed /\ drag = None
  BY <1>1, <1>4, <1>8 DEF BoardInv, Dragging, Settling
<1> HIDE DEF move, more
<1>0. LET written == Board!Patched(server, move.card, move.to)
      IN HasCards(written) /\ written \in [Apps -> Board!Cards]
  <2>1. HasCards(server) /\ DOMAIN server = Apps
    BY <1>3 DEF Sound, HasCards
  <2> DEFINE written == Board!Patched(server, move.card, move.to)
  <2>2. HasCards(written) /\ DOMAIN written = Apps
    BY <1>5, <2>1, PatchedIs
  <2> HIDE DEF written
  <2>3. written \in [Apps -> Board!Cards]
    BY <2>2 DEF HasCards
  <2>4. QED
    BY <2>2, <2>3 DEF written
<1>9. CASE /\ server' = Board!Patched(server, move.card, move.to)
           /\ store' = Board!Patched(store, move.card, move.to)
           /\ fresh' = server' /\ columns' = columns /\ queue' = Tail(queue) \o more
  <2>1. HasCards(store')
    BY <1>3, <1>5, <1>9, PatchedIs DEF Sound
  <2>2. server' \in [Apps -> Board!Cards]
    BY <1>0, <1>9
  <2>3. fresh' # None
    BY <1>9, <2>2 DEF AppsAssumption
  <2>4. queue' \in Seq(Saves)
    BY <1>4, <1>6, <1>9, ConcatProperties
  <2>5. Sound'
    BY <1>1, <1>3, <1>7, <1>9, <2>1, <2>2, <2>4 DEF Sound
  <2>6. ASSUME ~raced
        PROVE  Settling'
    <3>1. Len(queue) = 1 /\ Laid(columns, Board!Patched(store, move.card, move.to))
      BY <1>4, <1>8, <2>6 DEF StatusOwed, move
    <3>2. Laid(columns', store')
      BY <1>9, <3>1
    <3>3. queue' = more
      BY <1>4, <1>6, <1>9, <3>1
    <3>4. QED
      BY <1>6, <1>9, <2>3, <3>2, <3>3 DEF Settling
  <2>7. QED
    BY <1>1, <1>8, <2>5, <2>6 DEF BoardInv
<1>10. CASE /\ columns' = move.snapshot /\ queue' = Tail(queue)
            /\ server' \in {server, Board!Patched(server, move.card, move.to)}
            /\ unheard' = (unheard \/ server' # server) /\ UNCHANGED <<store, fresh>>
  <2>0. server' \in [Apps -> Board!Cards]
    BY <1>0, <1>3, <1>10 DEF Sound
  <2>1. Sound'
    BY <1>1, <1>3, <1>4, <1>5, <1>7, <1>10, <2>0 DEF Sound
  <2>2. ASSUME ~raced
        PROVE  Settling'
    <3>1. Heard /\ fresh = None /\ Len(queue) = 1 /\ Laid(move.snapshot, store)
      BY <1>4, <1>8, <2>2 DEF StatusOwed, move
    <3>2. Laid(columns', store')
      BY <1>10, <3>1
    <3>3. Heard'
      BY <1>10, <3>1 DEF Heard
    <3>4. QED
      BY <1>4, <1>10, <3>1, <3>2, <3>3 DEF Settling
  <2>3. QED
    BY <1>1, <1>8, <2>1, <2>2 DEF BoardInv
<1>11. QED
  BY <1>2, <1>9, <1>10 DEF move, more

\* Some of the orders are saved, and the page is rendered again.
LEMMA OrdersSaved ==
    ASSUME AppsAssumption, BoardInv, Board!ServeOrders
    PROVE  BoardInv'
<1> DEFINE orders == moves[Head(queue).move].orders
<1>1. queue # <<>> /\ Head(queue).saves = "orders" /\ UNCHANGED <<drag, moves, raced>>
  BY DEF Board!ServeOrders, Board!Answered
<1>2. PICK saved \in SUBSET orders, ok \in BOOLEAN :
          /\ server' = Board!Ordered(server, saved)
          /\ store' = IF ok THEN Board!Ordered(store, saved) ELSE store
          /\ fresh' = server' /\ queue' = Tail(queue) /\ columns' = columns
  BY DEF Board!ServeOrders
<1>3. Sound
  BY DEF BoardInv
<1>4. /\ Head(queue) = queue[1] /\ Tail(queue) \in Seq(Saves)
      /\ moves[Head(queue).move] \in Drags /\ (Len(queue) = 1 => Tail(queue) = <<>>)
  BY <1>1, <1>3, FirstSave
<1>5. saved \in SUBSET Places
  BY <1>4 DEF Drags
<1> HIDE DEF orders
<1>6. HasCards(server) /\ DOMAIN server = Apps /\ HasCards(store)
  BY <1>3 DEF Sound, HasCards
<1>7. HasCards(server') /\ DOMAIN server' = Apps
  BY <1>2, <1>5, <1>6, OrderedIs
<1>8. server' \in [Apps -> Board!Cards] /\ fresh' # None
  <2>1. server' \in [Apps -> Board!Cards]
    BY <1>7 DEF HasCards
  <2>2. QED
    BY <1>2, <2>1 DEF AppsAssumption
<1>9. HasCards(store') /\ \A t \in Statuses : InStatus(store', t) = InStatus(store, t)
  <2>1. CASE ok
    <3>1. store' = Board!Ordered(store, saved)
      BY <1>2, <2>1
    <3>2. QED
      BY <1>5, <1>6, <3>1, OrderedIs
  <2>2. CASE ~ok
    BY <1>2, <1>6, <2>2
  <2>3. QED
    BY <2>1, <2>2
<1>10. Saves' = Saves
  BY <1>1 DEF Saves
<1>11. Sound'
  BY <1>1, <1>2, <1>3, <1>4, <1>8, <1>9, <1>10 DEF Sound
<1>12. ASSUME ~raced
       PROVE  drag = None /\ Settling'
  <2>1. drag = None /\ Settling
    BY <1>1, <1>4, <1>12 DEF BoardInv, Dragging, StatusOwed
  <2>2. Laid(columns', store')
    BY <1>2, <1>9, <2>1 DEF Settling, Laid
  <2>3. queue' = <<>>
    BY <1>1, <1>2, <1>4, <2>1 DEF Settling
  <2>4. QED
    BY <1>2, <1>8, <2>1, <2>2, <2>3 DEF Settling
<1>13. QED
  BY <1>1, <1>11, <1>12 DEF BoardInv

\* The page is rendered with what was fetched, or with nothing.
LEMMA BoardRendered ==
    ASSUME AppsAssumption, BoardInv, Board!Render
    PROVE  BoardInv'
<1>1. PICK st \in {fresh, <<>>} : store' = st /\ columns' = Board!MergeColumnItems(columns, st)
  BY DEF Board!Render
<1>2. fresh # None /\ fresh' = None /\ UNCHANGED <<server, drag, moves, queue, raced, unheard>>
  BY DEF Board!Render
<1>3. HasCards(st) /\ (st = <<>> => DOMAIN st = {})
  <2>1. HasCards(fresh)
    BY <1>2 DEF BoardInv, Sound, HasCards
  <2>2. HasCards(<<>>) /\ DOMAIN <<>> = {}
    <3>1. DOMAIN <<>> = {} /\ <<>> \in [{} -> Board!Cards]
      OBVIOUS
    <3>2. QED
      BY <3>1 DEF HasCards
  <2>3. QED
    BY <2>1, <2>2
<1>4. Parted(columns') /\ Laid(columns', store')
  BY <1>1, <1>3, MergeIs DEF BoardInv, Sound
<1>5. Sound'
  BY <1>1, <1>2, <1>3, <1>4 DEF BoardInv, Sound, Saves
<1>6. ASSUME ~raced
      PROVE  drag = None /\ Settling'
  <2>1. drag = None /\ Settling
    BY <1>2, <1>6 DEF BoardInv, Dragging, StatusOwed
  <2>2. Heard' \/ DOMAIN store' = {}
    <3>1. DOMAIN server = Apps
      BY DEF BoardInv, Sound
    <3>2. QED
      BY <1>1, <1>2, <1>3, <2>1, <3>1 DEF Settling, Heard
  <2>3. QED
    BY <1>2, <1>4, <2>1, <2>2 DEF Settling
<1>7. QED
  BY <1>2, <1>5, <1>6 DEF BoardInv

\* A page that has not all of them is rendered again.
LEMMA BoardRefreshed ==
    ASSUME AppsAssumption, BoardInv, Board!Refresh
    PROVE  BoardInv'
<1>1. /\ fresh = None /\ DOMAIN store # Apps /\ fresh' = server
      /\ UNCHANGED <<server, store, columns, drag, moves, queue, raced>>
  BY DEF Board!Refresh
<1>2. server \in [Apps -> Board!Cards]
  BY DEF BoardInv, Sound
<1>3. Sound'
  BY <1>1, <1>2 DEF BoardInv, Sound, Saves
<1>4. ASSUME ~raced
      PROVE  drag = None /\ Settling'
  <2>1. DOMAIN server = Apps /\ fresh' # None
    BY <1>1, <1>2 DEF AppsAssumption
  <2>2. drag = None /\ Settling
    BY <1>1, <1>4, <2>1 DEF BoardInv, Dragging, StatusOwed, Heard
  <2>3. Laid(columns', store')
    BY <1>1, <2>2 DEF Settling
  <2>4. QED
    BY <1>1, <2>1, <2>2, <2>3 DEF Settling
<1>5. QED
  BY <1>1, <1>3, <1>4 DEF BoardInv

\* Every step of the board keeps what is said of it.
LEMMA BoardStep ==
    ASSUME AppsAssumption, BoardInv, Board!Next
    PROVE  BoardInv'
BY DragStarts, DraggedOver, DragCancelled, DragEnded, StatusSaved, OrdersSaved, BoardRendered,
   BoardRefreshed DEF Board!Next

\* And so does a board that stays as it is.
LEMMA BoardStays ==
    ASSUME BoardInv, UNCHANGED boardVars
    PROVE  BoardInv'
BY DEF boardVars, BoardInv, Sound, Saves, Dragging, StatusOwed, Settling, Heard

\* The board is what it should be in every state of every behaviour.
THEOREM BoardInvariant == Spec => []BoardInv
<1>1. Init => BoardInv
  BY AppsAssumption, BoardBegin DEF Init
<1>2. BoardInv /\ [Next]_vars => BoardInv'
  BY AppsAssumption, BoardStep, BoardStays DEF Next, vars
<1>3. QED
  BY <1>1, <1>2, PTL DEF Spec

\* No card is twice on the board, however drags, answers and renders overlap; and with
\* nothing under way each card is in the column of its status, whatever failed, unless
\* a drag was started beside another's actions; and the page then has what the API has,
\* unless the API stored a status and failed after it (CardsSettle).
THEOREM CardsSettled == Spec => []CardsSettle
<1>1. BoardInv => CardsSettle
  <2>1. SUFFICES ASSUME BoardInv PROVE CardsSettle
    OBVIOUS
  <2>2. Sound
    BY <2>1 DEF BoardInv
  <2>3. Board!TypeOK
    <3>1. columns \in Board!Columns /\ (drag = None \/ (drag.card \in Apps /\ drag.snapshot \in Board!Columns))
      BY <2>2, AppsAssumption, PartedFits DEF Sound
    <3>2. ASSUME NEW i \in DOMAIN queue
          PROVE  queue[i].move \in DOMAIN moves
      <4>1. queue[i] \in Saves /\ DOMAIN moves = 1 .. Len(moves)
        BY <2>2 DEF Sound
      <4>2. QED
        BY <4>1 DEF Saves
    <3>3. QED
      BY <2>2, <3>1, <3>2 DEF Board!TypeOK, Sound, HasCards
  <2>4. \A l : Board!ToSet(l) = Things(l)
    BY DEF Board!ToSet, Things
  <2>5. \A s, t \in Statuses : s # t => Board!ToSet(columns[s]) \intersect Board!ToSet(columns[t]) = {}
    BY <2>2, <2>4 DEF Sound, Parted
  <2>6. \A s \in Statuses : Board!Cardinality(Board!ToSet(columns[s])) = Len(columns[s])
    BY <2>2, <2>4, AppsAssumption, PartedFits, CardsCount DEF Sound
  <2>7. ASSUME drag = None, queue = <<>>, fresh = None, ~raced, NEW x \in DOMAIN store
        PROVE  Board!Holds(columns[store[x].status], x) /\ (~unheard => store[x] = server[x])
    <3>1. Settling
      BY <2>1, <2>7 DEF BoardInv, StatusOwed
    <3>2. ~unheard => store = server
      BY <2>7, <3>1 DEF Settling, Heard
    <3>3. store[x].status \in Statuses
      <4>1. store[x] \in Board!Cards
        BY <2>2, <2>7 DEF Sound, HasCards
      <4>2. QED
        BY <4>1 DEF Board!Cards
    <3>4. x \in Things(columns[store[x].status])
      BY <2>7, <3>1, <3>3 DEF Settling, Laid, InStatus
    <3>5. QED
      BY <3>2, <3>4, HoldsIs
  <2>8. QED
    BY <2>3, <2>5, <2>6, <2>7 DEF CardsSettle, Board!CardsSettle
<1>2. QED
  BY <1>1, BoardInvariant, PTL
=============================================================================
