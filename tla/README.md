# Verification of Pathpipe

Pathpipe crawls the job boards of the companies its users follow, keeps the
offers in a database, scores them against each user's profile, mails digests of
new ones and tracks applications. This directory holds TLA+ models of it: the
crawl that keeps stored offers a mirror of boards it does not control, the API's
requests statement by statement, the pages of the web application with the
actions they call, the migrations, and the pure functions in between; TLC checks
them on small instances, and TLAPS proves for every instance what matters most
about the crawl, the HTTP client, the API's requests, the digests, the pages and
the pure parts.

`src/...` means the repository's sources. *Discovery* is
`src/apps/worker/src/domain/discovery`, *ingest* is
`src/apps/api/src/features/job-posting/ingest`, *features* is
`src/apps/api/src/features`, *web* is `src/apps/web/src`. `PROJECT.json` maps each
definition to the lines it models.

## Inventory

| Component | State it keeps | Operations | What is hard | What makes it correct |
|---|---|---|---|---|
| Discovery cycle (`cycle.ts`, `schedule.ts`, `pipeline.ts`, `ingest.ts`) | in memory: the sources as listed, one task each | list sources, plan, light and full read, post chunks, reconcile, save state, expire, notify | any call fails before or after it took effect; a crash between rows and state; boards change meanwhile; two workers in a deploy | nothing listed is closed; a stored hash vouches for rows; listed offers end up open, dropped ones closed |
| Board adapters, normalisation (`adapters/`, `normalize/`) | none | read a board page by page, drop and join copies | truncated pages that read as the end; page limits | a listing owns up to what it left out; the richest copy stays |
| ATS worker (`ats.worker.ts`, `limiter.ts`) | `cycleRunning` | crons, trigger queue, shutdown | dropped ticks, overlap of processes | one cycle at a time per process |
| Vendor HTTP client (`infrastructure/http`) | per vendor: call queue, last hit, strikes, budget, pause; robots.txt cache | request, retry, drop, begin a cycle | many callers, sleeps, retries, Retry-After | the vendor is not asked faster or more often than it allows |
| Job sources (`job-source.service.ts`) | `job_source` rows | list tasks, update state | a URL shared by companies; stale hash | the state is that of the last finished read |
| Posting ingest (`job-posting-ingest.service.ts`, `job-posting-lifecycle.service.ts`) | `job_posting`, `job_posting_location` | batch, reconcile, close expired | a batch is five statements with no transaction; identity by URL, id or key | one row per opening, open while a board lists it, cities as digested |
| Match scoring, listing, dashboard (`match/`, `job-posting.service.ts`, `dashboard.service.ts`) | none (SQL text) | score, filter, facets, pages, counts | one criterion written three times; unknown values | the three agree; counts are of what is shown |
| Location parsing (`packages/db/src/parsing`) | none | split, look up | one word has several readings | no word is lost |
| Match alerts, email delivery (`job-alert.service.ts`, `packages/queues`, `email.worker.ts`) | `lastNotifiedAt`; BullMQ jobs | queue a digest per user, send, retry | stamp after query; crash between queue and stamp; stalled jobs | each new match is announced once, each digest is settled |
| Company seeding (`seed.ts`, `company-seed.service.ts`) | `company` rows | probe, upsert by name | check-then-insert, saves of older copies, a unique index on folded names | one company a name however spelled; a person's URL stays |
| Applications, interactions, job events | rows per user | track, change status, edit, delete, record | requests of many statements, snapshot taken once | one application per offer; the log ends where the row is |
| Accounts (`auth/`, `user/`) and their pages | user row, tokens, cookie | sign up and in, verify, reset, one-time codes, providers | whole-row saves; tokens used twice; mails nobody awaits | a password changes by a reset only; a verification is not lost |
| Files (`user/file`) and the documents pages | `user_file` rows; the list on the page | upload, rename, delete, attach | the list changes before the answer; a failure puts it back | the page lists what is stored |
| Job profile (`job-preference`) and its form | one row a user; the form in each tab | save, upload a CV, fill from it | the row is read and saved whole; two tabs | a field changes by a request made for it |
| Companies, watches (`company`) and their pages | `company`, `company_watch` rows; list, dialog, cards | accept, reject, edit, delete, import, watch, override | deletions in two statements, look-ups before inserts | one company a name; lists show what is stored |
| Matches page, kanban board, applications table | URL, pending navigation, stores | filter, search, select, drag, edit, delete | actions in flight while the page moves on | what is shown at rest is what is stored |
| Avatar editor | form, preview | choose, roll, save | a debounce before a throttle | the picture is that of the form |
| Migrations | all tables | fold copies, rename, seed the journal, roll back | rows that several users marked | constraints hold, nobody loses a mark |

A cron or a trigger starts a cycle in the worker; the cycle asks the API for the
sources, reads each board through its adapter and the HTTP client, posts offers
in chunks and a reconcile per company to the API, stores the source's state,
then asks the API to expire dated offers and, if anything was inserted, to
compute match alerts, which queue digests that the worker mails. All persistent
state is in the API's database. The web application renders pages from what the
API answers, keeps copies of it in stores and forms, and changes both by server
actions, which a tab sends one after another.

## Modules

| Module | What it is |
|---|---|
| `SourceSchedule` | `schedule.ts` as pure operators; extended by `DiscoveryCycle` |
| `DiscoveryCycle` | the cycle, one action per request of the worker, with the API's effect in it |
| `OfferLedger` | what the crawl promises of a stored offer, without cycles, tasks or failures |
| `JobPostings` | one company's rows, one action per SQL statement of a batch |
| `VendorThrottle` | the HTTP client's handling of one vendor |
| `JobAlerts` | the digests of one user: notifier, form, queue and mail worker |
| `Seeding` | two seeding runs and people who name and edit companies |
| `Upgrade` | the migrations that fold or rewrite rows |
| `Tracking` | a user's applications around one offer, statement by statement |
| `Accounts`, `AccountPages` | one address in the API; the pages over it, in two tabs |
| `MatchesPage`, `KanbanBoard`, `ApplicationsList`, `Documents`, `JobProfile`, `Companies`, `AvatarEditor` | the pages, each with what the API keeps for it |
| `Matching`, `JobBoard`, `Places`, `Listings` | the pure parts: scores, the listing and the dashboard, locations, board reads |
| `Readings` | the pure parts side by side, with what is asserted of them |
| `MC*` | the instances; `MCPages` and `MCMachines` put models that share nothing side by side |
| `*_proofs` | the proofs about `DiscoveryCycle`, `VendorThrottle`, `Tracking`, `JobPostings`, `AccountPages`, `Readings`, about `JobAlerts` and `Seeding` as `MCMachines` runs them (`Machines_proofs`) and about the pages as `MCPages` runs them (`Pages_proofs`) |

`JobPostings` refines in statements what `DiscoveryCycle` does in one step
(`PostChunk`, `Reconcile`), for one company, and `VendorThrottle` is below
`ReadLight` and `ReadFull`: these two are relations of a reader, not checked
ones. `DiscoveryCycle` implements `OfferLedger`, checked by `two_workers` and
proved: rows map to themselves, `lapsed` to the dated offers past their date, and
`due` to an insert counted and not yet announced. `AccountPages` extends
`Accounts`, `JobBoard` extends `Matching`.

### The crawl and the code

A task's `stage` is the line `processSource` has reached: `queued` (before
`limit`), `light`, `full` (`pipeline.ts`), `ingest`, `reconcile`
(`ingest.ts`), `save` (`saveState`), `done`. `known` is the row as `listTasks`
returned it, with dates as ages in hours; it ages while it waits, because
`planSource` subtracts from the time its turn comes. `ReadLight` and `ReadFull`
take any answer in `GoodAnswers`, or one in `BadAnswers` when a fault is left: a
thrown request, an empty answer, and for an adapter in `Silent` a truncated
listing that does not say so. `Capped` boards may answer a truncated listing that
does say so. `PostChunk` and `Reconcile` carry their whole effect on the rows;
their failing twins leave any state the call can have left. The content hash is
the listing itself; a dead field of a task is reset, so that equal behaviours are
equal states.

A version of an offer in `JobPostings` is a URL, a vendor id or none, the folded
title with its city (`dedupKey`) and a set of cities. A request goes through
`resolve`, `insert`, `merge`, `touch`, `cities` and, after the last chunk,
`reconcile`. A merge that several offers of a chunk match takes any of them, as
`UPDATE ... FROM` does. `Alike` stands for the trigram similarity of titles in one
city, and `Reordered` for one of 1, of titles with the same words in another order: the
older of two rows as similar is taken. A chunk of the worker, of 150, is inserted whole and
merged in parts of at most 100, one or two here (`NextPart`). `Stop` is a request that dies
between two statements. `visited` are the sources that the `Promise.all` of the cycle under
way has been through; `NextCycle` comes when all of them have ended, since `cycleRunning`
drops the ticks before that.

`VendorThrottle!chain` is the promise chain `hostChain`; its head is the call in
`throttledRequest`, at the await that `call.stage` names; `timer` is what is left
of a `sleep`. A step is the code between two awaits.

`JobAlerts` counts time in offers inserted; a notification reads the preference,
queries, queues and saves the whole preference in steps of its own, and a job is
tried, retried, stalled and given up as BullMQ does with the repository's
options (external). `Seeding` follows a run from probe to the API's find and
insert, or save, of each board; people name a company (a look, then an insert) and
edit one in between. A name is a word and a spelling, and two names clash by the word
(`UQ_company_name_lower`). A copy that others have written under is `stale`.

### The API's requests and the code

In `Tracking` and `Accounts` a client has at most one request under way, and the
request's `at` is the statement it has reached; reads that follow one another are
one step. Nothing in these services runs in a transaction, so any statement of
another request fits between two, and `Stop` ends a request anywhere. In
`Tracking`, `Change` is `update` of an application with its date, its frozen offer
and its event; `Patched` is the interaction's link to the application it made. In
`Accounts`, `Written` is the save of a user, which writes the columns TypeORM finds
changed since the entity was read, and a token is told from the others of its
kind.

### The pages and the code

Every page has the committed state of what the API keeps, what the browser holds
(stores, forms, URL), and the server actions called and not answered, in order:
Next.js sends those of one tab one after another, so an action's `Serve` step is
the whole of the API's request for it, but for `JobProfile` and `Companies`, whose
two tabs or two people interleave statement by statement. `Companies` keeps the
administrator's place, a status (PENDING unless one is chosen) and a page of `PageSize`,
and shows what is stored of it. A navigation that
starts while another is pending replaces it; a page that renders again starts
from what the API has. An action may fail before its effect or after it: the answer
gets lost, or the API stored the row and failed at the event, which it records in a
later statement outside a transaction. Dialogs may be closed by Escape at any time,
also while they save. What a page shows in the meantime is left free: properties
are about the page at rest.

A history variable (`raced`, `overtaken`, `restored`, `unsure`, `left`, `halved`,
`unheard`, `blind`, ...) is set where a race that the code does lose has been lost, or a
change was stored and its page told that it failed; the property then claims the rest. These
races are listed below, under "What the models show".

### The pure parts and the code

`Readings` fills in one sheet at a time from a bounded set of cases and evaluates
two functions of the code on it, or one on two inputs: the properties never
restate a function but compare independent encodings (score, filter and card of
one criterion), a count and a listing, a whole and its parts. A query has the filters of
`buildQuery`: the values chosen, a status, the score's bounds, pay, age and the profile.

### The migrations and the code

A migration is one step, in the order of the data source; where a constraint
refuses a row the start fails and nothing has changed (`failed`). `OldTables` are
the tables a release may have left, up to what the next migration looks at; TLC checks
that they keep that release's constraints (`Sound`). What a mark may end up on is `Akin` to
what it was on: a row of a company of the same name that shares a URL, a key or an id with
it, or with a row that does.
`Rollback` is the way back of the first.

## Runs

Breadth-first search over the whole bounded state space, but for violations.
Distinct states in brackets.

| Run | Shows |
|---|---|
| `mirror` (153 k) | two companies behind one board, chunks of one offer, one of them with an end date, a failing board request and a silently truncating adapter: types, `RowsMirrorHash`, `InsertsAreAnnounced` |
| `two_workers` (2.9 M) | two workers on one capped board, faults among board, reconcile, state, crash: `HashMeansIngested`, `ListedNeverRemoved`, `ImplementsLedger` |
| `liveness` (197 k) | every call can fail, a crash, two faults in all, the company joins and leaves: `ListedOffersOpen`, `DroppedOffersClose` |
| `polite` (365 k) | three callers on two hosts, one of them skipping robots.txt: `OvershootBounded`, `FirstAttemptsWait`, `DroppedSendsNoPage` and, with fairness, `EveryCallSettles` |
| `tabs` (5.1 M) | two tabs of one browser, two tokens of a kind, requests that stop: `UnverifiedHasMail`, `SwitchTellsTruth`, `PasswordOnlyByReset`, `VerifiedStays`, `CodeTogglesOnce` |
| `requests` (991 k) | two sessions, three requests, two applications, one stop: `OfferIsFrozen`, `OneApplicationPerOffer`, `LogKeepsUp` |
| `readings` (152 k) | every sheet: `MissIsHidden`, `UnknownNeverHurts`, `BoardAddsUp`, `NothingLost`, `ListingHonest` |
| `machines` (935 k) | four machines, one per behaviour: `OneRowPerOpening`, `CitiesFollowDigest`, `ReadOffersOpen` of the postings; `EachAnnouncedOnce`, `DigestsSettle` of the digests; `SeedKeeps`; `UpgradeKeeps` |
| `pages` (2.5 M) | seven pages, one per behaviour: `UrlFollowsChoices`, `PaneTellsTruth`, `CardsSettle`, `LibraryTellsTruth`, `CompanyKeeps`, `ListSettles`, `PreviewSettles`, `ProfileTellsTruth` |
| `silent`, `engaged`, `total` | violations, see findings |

`MCMachines` and `MCPages` take one of their models per behaviour and leave the
others as they began: their states add up. Some properties claim less than they
might, or hold under conditions that a cfg or `Settings` names:

- `RowsMirrorHash` (`mirror`): no failed batch, reconcile or state update. The
  liveness run says that the crawl recovers from these.
- `OneRowPerOpening`: boards of a company are read in turn. With two at once, two
  batches that spell an opening differently both look for it before either
  inserts it, and both spellings are stored.
- `CitiesFollowDigest`: boards read in turn, requests run to their end. One that stops after
  its merge leaves a digest for city rows it did not write.
- `ReadOffersOpen`: boards give every offer an id. It rests on a cycle reading each
  board once (`visited`, `NextCycle`): one that is read again while another is still to
  be reconciled would drop an offer whose row it took over, and close it (the mutant
  `ReadAnyTime`). Two workers can do that in a deploy.
- `UnknownNeverHurts`, that an unknown is no worse than something unwanted: where the
  offer can earn on something else (`Rateable`). An offer that says nothing on all it is
  rated by has a ceiling of 0 and scores 0 (`NULLIF`), below one that says something
  unwanted and earns points that have no ceiling, as a remote offer without a place does
  on LOCATION. Readers who follow companies and who do not are both checked.
- `MissIsHidden`: an offer whose minimum is enough beside a maximum that is not, as reads
  that give one bound at a time leave, shows a miss (the card looks at the maximum alone)
  and is not hidden.
- `SwitchTellsTruth`: a dialog left by Escape or from outside goes round `handleClose`
  and leaves the switch flipped (`left`), until a later toggle is cancelled, refused or
  confirmed.
- `PaneTellsTruth`, `CardsSettle`, `ListSettles`, `CompanyKeeps`: a change that was stored
  by a call answered with an error is not shown until the next render (`halved`,
  `unheard`, `blind`): the page puts the old state back. What a failure without an effect
  leaves behind is checked, and of deletions any failure.
- `SeedKeeps`, that nothing overwrites a URL or a name somebody gave: a run saves the copy
  it read, over what was written meanwhile (`stale`). That no two companies have one name
  has no exception.
- `FirstAttemptsWait` exempts retries and `DroppedSendsNoPage` robots.txt: a
  retry's own sleep can be shorter than the gap, and a dropped vendor is still
  asked for the robots.txt of a host not read yet. `OvershootBounded` says by how
  much retries and robots.txt exceed the budget.

### Bounds

- `AgeCap`, `HitCap`: ages saturate one interval past the last threshold they are
  compared with, or at it. Nothing distinguishes older values. `FailureCap`:
  `failureCount` saturates; 0, 1, 2 give no backoff, one hour and two hours.
- `FaultCap`: failed calls and crashes in a behaviour. The liveness properties
  need it too: a board that always fails is never mirrored.
- Offers, companies, sources: two of what interleaves in a run, one of the rest.
  A chunk of one offer out of two is a listing of several chunks; two companies
  make the loop of `processSource` go round; two boards are enough to take a row
  over and to close it.
- `VendorThrottle`: delays keep the order of the real ones. `Budget = 3` is
  reached, and exceeded, within one or two calls.
- `MaxRequests = 3` (`Tracking`): two requests that race and one that meets what
  they left. Two sessions race; a third adds an interleaving of the same pairs.
- `TwoLinks`, `TwoCodes`: a token and the one that replaces it.
- `MaxDigests = 2`, `MAX_OFFERS_PER_DIGEST = 1`, `ATTEMPTS = 2`, `MAX_STALLED = 1`: the
  second digest, the offer past the limit, a retry and a stall all happen.
- `MaxActs`, `MaxOps`, `MaxTasks`, `MaxDrags`, `MaxPushes`, `MaxCalls`, `MaxListActs`,
  `MaxPicks`: what people do on a page. Three actions are one under way, one made on
  top of what it shows and one that meets their answers; where an entity must exist
  first there is one more. `Delay = 2` ticks leave room for a timer to be late.
- `Names` (`Documents`): two, so that a document is renamed to a name and back while
  an action that read the first is under way. `ChangedAgain` came out of it, see below.
- `OldTables`: three copies of an opening under two keys, so that two of them share
  one key, two another, and all three belong together; two users.
- `PageSize = 1`, `MaxCompanies = 2` (`Companies`): a page that is full and one after it.
- Readings: every criterion met, missed and unknown, muted or not, alone and in
  pairs; boards up to a page past `MAX_PAGES`.

Symmetry is used among sessions (`requests`) and tabs (`tabs`), which no property
or initial state tells apart; both runs check safety only.

### Fairness

`DiscoveryCycle!FairSpec`: time passes; a cron starts some cycle again and again
(not a given mode: a tick that meets a running cycle is dropped); a running cycle
and each of its sources go on. The last is the assumption that an API call ends:
the API client sets no timeout, so the code itself does not guarantee it. Nothing
is assumed of the boards. `VendorThrottle!FairSpec`: time passes and the first call
of the queue goes on: a sleep by its timer, a fetch by its `AbortSignal.timeout`.
`JobAlerts!Fairness`: the worker takes waiting jobs, a job that is due is retried
and the stalled check runs, as BullMQ's worker does. The pages assume none.

## Proofs

The theorems hold for every value of the constants that meets the named assumptions of
the module proved about: what a policy, a budget or a bound is a number of, that a
`NoRow` is no row and an `Idle` no request, that hosts, boards and ids are finitely
many, and that the inputs enumerated are ones the code can be given. What a theorem
needs beyond them it assumes itself. Each is proved from an inductive invariant, which a
run checked first; the conjuncts that are not the property are there for a reason.

The crawl and the HTTP client:

- `TypeCorrect`: `TypeOK` is inductive.
- `ListedSafe` (with `Silent = {}`): the invariant is `TypeOK` and `SoundReads`:
  a listing a task carries is either marked partial or contains every pinned
  offer of its board. A reconcile is reached only by an unmarked listing, so what
  it closes is not pinned. The invariant is needed because the listing was read
  several steps before it is used, and the board changed since.
- `LedgerImplemented` (with `Silent = {}`): each step of the crawl maps to a step of
  `OfferLedger` or a stutter, from the same invariant.
- `HashSafe` (with no failing batch and no company joining): `TasksCover` says
  that an offer of a task's listing has a row for every company of the source,
  except for the companies still pending and what is left to post for the
  current one; at `save` nothing is left. Rows are never deleted (`RowsStay`), so
  the stored hash stays backed.
- `MirrorKept` (one worker, no company joining or leaving, no failing batch, reconcile or
  state update, no crash: those of its run): `TasksMirror` says of each task which
  companies already have rows that mirror the listing it carries and which still have
  those of the stored hash. A company being rewritten has either kind of row, so neither
  claim can be made of it until its reconcile.
- `DroppedIsLeftAlone`, `PoliteFirstAttempts`: `ThrottleInv` adds to the types that
  age plus timer covers the gap wherever a call waits for its first attempt, that
  a pause ends with its sleep, that a dropped vendor has no call past its check,
  that a vendor out of strikes is dropped and that a call in a pause has read its
  robots.txt.
- `InsertsAnnounced` (batches and notifications succeed, no worker crashes):
  `InsertIsRemembered` names the cycle in charge of a row nobody was told of, one
  that remembers inserting and has not notified. It needs `StagedInSources` (a source
  is worked on only while its cycle is at its sources): otherwise a chunk could be
  posted by a cycle already past its notification.
- `BudgetOvershoot` (for any finite number of hosts): `SpentInv` counts what a vendor
  was asked. Before a first attempt leaves the budget is not spent, a call that
  retries is beyond it by its attempts at most, and the robots.txt of a host, asked
  without a look at the budget, is answered or under way once. The cardinality of
  the hosts read so far carries the bound.

The API's requests:

- `OneApplication`, `OfferFrozenForGood`, `JournalKeepsUp` (`TrackingInv`). `Shapes` says
  what a request knows at each statement, `Alone` that two requests about one thing were
  recorded as a race. While the requests about the offer come one after the other
  (`Calm`), the offer's application is the one its link names, or the one its request is
  about to link (`OfferLinked`), and a request that found no live link is right until it
  writes (`TracksOnce`, `ReadIsFresh`). `DatedFirst` (the date is stored before the
  event) makes the first sending the one that takes the snapshot, and `LoggedOrOwing`
  names the request that still has an event to record.
- `OneRow` (no board lists two spellings of one opening at once, `SpelledOnce`, where
  boards take turns): `Resolved` says that the keys a batch was given before it inserts
  are still those it would be given, which holds because no other request writes in
  between. A batch is not compared with itself; hence the hypothesis.
- `CitiesFollow` (besides, similarity parts the titles and nothing is retitled into
  another opening, `OpeningsApart`, and a board lists a URL once, `UrlsOnce`: all three
  hold in the run): an offer then matches one row, so that a row whose digest is ahead of
  its cities is one the request under way is about to write (`Due`), and each row that
  changed has the digest of one offer (`Told`).
- `WhatWasReadIsOpen` (boards that give every offer an id, any number of them read at a
  time, requests that stop anywhere): `PostedBy` says of each statement which row an offer of
  the chunk has. From its merge to the end of the cycle that row is `Safe`: its owner has
  been visited in this cycle, and if it is still at work its listing names the row; hence
  no reconcile to come closes it, whichever board takes it over. It takes `DigestTellsId`: a
  merge that skips a row because its digest agrees leaves it an owner and an id that the
  listing names. An offer without an id that matches by its key alone is touched and then
  closed. An attempt to prove it of boards that are read at any time failed, and TLC found
  why: the model let a board be read twice in a cycle, which the worker does not.
- `MailReaches`, `SwitchIsTrue` and the action properties `PasswordsKept`,
  `VerifiedForGood`, `CodesServeOnce` (`Inv` of `AccountPages_proofs`). `Mailed` and `Owed`
  name the request that still has a token to mail or to make; `Current` compares the row
  a request read with the one stored, and `stale` remembers that it no longer agrees;
  `Coded` follows a code from its look-up to the save; `Switched` relates page, switch
  and row at each place a tab can be, `left` marking a switch that a dialog closed by
  Escape left flipped. The proof is about any number of tabs.
- `AnnouncedOnce` (any number of notifications at once, of offers and attempts): `Settled`
  accounts for every offer up to the stamp, which was announced, touched, or left out
  by a limit; `OneWriter` and `Once` say that without an overlap or a stop the one copy
  of the row in use is the row.
- `SeedsKept` (any platforms, words and number of runs that overlap; `SeedAssumption` says
  that `Nothing` is no run and `Hand` not the lack of a URL): the unique index keeps one
  company a name (`OneAName`); `Looked` says that the company a run found is still as it
  was read, unless it was written since (`stale`), so that saving the copy takes back
  nothing people wrote (`HandStays`). That a run confirms each board it found, under its
  lowercase name if it was found by that (`ByBoardCovers`), is an induction over the places
  of a fold: `MergesExist` builds the function the fold chooses, and a least place where
  what is kept does not cover what was found leads to an earlier one.
- `UpgradesKeep` (any tables, users and companies; `TablesAssumption`: a release meets
  tables that keep the constraints of the one before): the invariant is the property's own.
  `CanonicalIs` says that the oldest row of a group stays and is the same for all of it,
  `BestIs` that a user's most engaged mark exists, `MergedIs` that the marks after a pass
  are one per user and row and that each is on the row it was on or on one of its key.
  `PassKeeps` is a pass of `CompanyNames`; a mark goes along three of them (`AkinGrows`),
  and rows without copies by one key stay so while others fold (`PartsHaveNone`).

The pages:

- `UrlFollows` (`Paged`, `Followed`): the URL that is coming, or the one that is there,
  is what the choices add up to. `PaneTruth` (`Mine`, `Toggling`, `Resting`,
  `SeenFirst`): a toggle under way is the only one and says the opposite of what is
  stored; with none, the pane has the stored star or will take it.
- `TableSettles`: the rows are stored or a render is on its way (`Listed`); the box, the
  URL and the dialog each agree with the navigation that is coming (`Boxed`, `Opened`).
- `PictureSettles`: of the previews asked for the last is the form's (`Drawn`), and a value
  let through the debounce and the throttle is (`Debounced`, `Settled`).
- `CompaniesKeep`: names are distinct under folding (`Distinct`); the list is what is stored
  of its status and its page, but for changes of status under way (`Vouched`), and what one
  of these, asked for alone, would put back is still stored (`Restorable`).
- `ProfileTruth`: a form not marked unsure was made of what is stored (`Sure`), a save
  carries for the fields not meant what the form knew (`Wanted`), and what is stored has
  been cleaned, so that reading it back changes nothing (`Neat`).
- `LibraryTruth` (any finite number of files, `FilesAssumption`): the actions on their way
  lead, one after the other, from the list stored to the list shown (`Leads`). A failed
  action that puts back its list breaks the chain only if a later one has changed the list,
  which `clobbered` records (`Library`). `DocsInv` adds that every list, those a task would
  put back included, has ids already given (`Known`, `Tasks`), and that the dialog lists
  the resumes stored unless the first of its tasks is to fetch them (`Field`).
- `CardsSettled` (any finite set of applications and any columns; `AppsAssumption`: the
  page without a board is no board): `Sound` says of the board shown, and of every snapshot
  a drag may put back, that no card is in it twice, always. Unless drags were raced there
  are three phases: a card is moved on the page alone (`Dragging`), its status is to be
  saved and what was shown before can be put back (`StatusOwed`), or the columns are those
  of the page's list, which is the API's, empty, or to be rendered again (`Settling`).
- Both need facts about lists that the library does not state. What is kept of a list is a
  fold here (`Kept`), and a claim about it is made for each prefix: if the whole list failed
  it, a least prefix would, and the prefix before that leads to it (`Climb`). `SortedExists`
  builds a sorted list of a finite set from its greatest element (`GreatestOf`), with a
  smallest set that has none as counterexample.

The pure parts, for every sheet of any size:

- `MissHidden` (what the filter lets through is not capped, and its card shows no miss on
  a criterion that counts, but for a crossed salary), `ListingTold` (what an adapter left
  out it owned up to, and of copies the richest stays), `UnknownForgiven` (an offer that
  does not say scores as if the
  criterion were muted, between one that meets it and, where something is left to rate by,
  one that misses it, whether or not the reader follows a company), `BoardSums`
  (facets, pages, badge and figures of a board count the same offers).
- The sums these need are folds over sets, and the library's induction theorems cannot
  be used. `SmallestSubset` and `LeastNumber` take a least counterexample instead, from
  the library's facts about well-founded relations, which take sets: what fails of some
  subset of a finite set fails of a smallest one, and does not fail of that one without
  an element.
  `SumsExist`, `SumsTakeAny` and `SumsAgree` then say that a sum does not depend on the
  order its elements are taken in. Scores compare as fractions rounded to a percent
  (`HitHelps`, `MissHurts`); pages partition the ranks of the offers (`Ranked`,
  `PagesPart`); a streak is the first week without an application (`StreakIs`).
- `WordsKept` (a location field of any number of words): a field is cut at each "or", and
  every word but those is in a chunk (`ChunkHas`); a chunk is one place or one for each
  of its parts, and read from the right each word becomes country, region or city
  (`PartsPlaced`, `OnePlaced`). Of plain cities no two words are one place (`PlacesApart`).

What the attempts showed of the models. In `Accounts` the claim of `CodeTogglesOnce`
was not inductive: with a third tab a request can be overtaken twice and its copy of
`needOtp` be right again by accident; `stale` now remembers a change and not a
difference. In `Documents` a failed action can find the list looking as it left it,
renamed to another name and back meanwhile, and still undo that change: `ChangedAgain` now
counts it as clobbered, and the run has the two names it takes. Neither showed
in the instances that had been run. Where two cards of a column have the same place in it,
the sort of the library is undefined by its own definition, though TLC evaluates it: a column is
now some list of its cards by position (the code takes the older first, dates are left out).

Only model-checked: liveness under fairness, and everything about ENABLED
(`ListedOffersOpen`, `DroppedOffersClose`, `EveryCallSettles`, `DigestsSettle`). Neither
checked nor proved, because they do not hold then: `OneRowPerOpening` and
`CitiesFollowDigest` where boards overlap, and the latter where an offer matches two rows.

## Findings

Where a comment or a doc says something that the code does not do:

1. `silent`: an adapter that stops at a page it could not read (SmartRecruiters)
   reports a complete listing; offers of later pages are closed, though a partial
   listing "must say so".
2. `engaged`: folding the copies of an offer, the mark of a dropped copy is lost where
   the surviving one has a mark, however weak, though "the one they engaged with
   most wins".
3. `total`: the count in the bar of the applications is that of all of them, though
   it is said to follow a hidden column.

## What the models show, beyond the findings

Behaviours that a property names or that a wider cfg shows. The crawl:

- After a failed batch the hash of the whole listing is stored; the offers are
  missing until the reconcile interval is over. A full read that fails after a
  light one stores the light one's hash.
- A board that becomes empty never gets its last offers closed; nor does a URL that
  loses its last company. A board without ids closes the cross-posted offer it just
  touched. The vendor's id has no unique index, so an offer with a new URL and
  title gets a second row. `closeExpired` closes an offer its board still lists.
- An offer retitled so that its URL matches one row and its key another rewrites both.
  `changed` keeps the last row a URL is told of, so the other's digest vouches for city
  rows that were never written.
- A retry leaves within the pause that `Retry-After` asked for, though the next calls
  wait. A trigger job completes although its cycle was dropped. An API request has
  no timeout: one that never ends stops the crawl.
- Offers inserted between the notifier's query and its stamp are never announced, nor
  are those past the limit of a digest, which is applied before the minimum score;
  a stop before the stamp, or two notifications at once, announce twice. The stamp
  saves the whole preference, over what the form saved meanwhile.
- A company of several words is seeded twice, under two spellings of its slug.

Scores and places:

- An offer with nothing known to be rated by scores 0, while one whose domain is known and
  unwanted can score 55: a remote offer without a place, read by someone who wants a domain
  and a city.
- A country code is tried before a state: `AR`, `CA`, `CO`, `DE`, `IL`, `IN`, `MA`, `TN`
  are read as countries where nothing follows; `OR` is a separator; Idaho is missing.
  "Hybrid (Paris)" keeps its bracket, "Remote - Paris (France)" loses it.
- A profile with nothing to score by (exclusions only, every criterion muted) gives no
  score, and the dashboard then counts every offer as a strong match. A post dated in
  the future scores above its ceiling. The badge of new offers and the filter of new
  ones differ where a profile hides.

Requests:

- Two requests to track one offer both create an application; one that stops between
  the row and its link leads to a second. Two moves at once take two snapshots. A move
  to APPLIED fails where a mark was inserted after it looked. Applications older than
  the journal count as sent and are never snapshotted.
- A sign-up's mail is sent in a promise nobody awaits. A reset that read the user
  before a verification was stored undoes it.

Pages:

- Matches: a choice made while a navigation is pending is built on the old URL and
  loses the earlier one; two star toggles that fail leave the wrong star.
- Applications: the search box is reset when a navigation lands while one types; a
  dialog reopened while its close is pending stays shut though the URL names it; hidden
  rows that are selected are deleted with the rest; emptied fields are not saved, but
  for city, country and files. A failed fetch shows an empty board.
- Documents: a rename or deletion that fails puts the whole earlier list back; a
  failed fetch shows an empty library.
- Job profile: a failed read shows an empty form, and saving it empties the profile;
  edits made while saving or filling are lost; a save queued behind an upload puts the
  old CV back; two tabs overwrite each other; filling from a CV overwrites a field that
  was stored meanwhile, though it "never overwrites".
- A call that stores its row and then fails at the date or the event answers with an error:
  the page puts the old star, column or row back over what is stored, and shows it so until
  the next render.
- Security: Escape closes the dialog of the code and leaves the switch flipped.
- Companies: a change of status that fails puts the whole earlier company back; deleting one
  first deletes everybody's applications to it, and may then fail; a logo fetched from
  the site may replace an uploaded one; fields emptied in the dialog stay.
- Avatar: two changes less than a delay apart at the throttle lose the second, and the
  spinner stays.

Migrations:

- `GlobalOffers` refuses to start where one id has two URLs; `CompanyNames` where a user
  watches two spellings but not the oldest. `GlobalOffers` ranks DISMISSED above a SEEN
  offer with an application. An override of a watch goes with its duplicate. `Rollback`
  keeps the first user's mark of an offer only.

## Not modelled

- What only renders: layouts, navigation, static pages, mail templates, charts, the
  components of `packages/ui` that keep no state the pages rely on.
- Text: decoding entities, stripping tags, folding accents, the words of a CV, the
  tables of names beyond the rows that tell two rules apart.
- Entities and DTOs (their columns are the state of the models), migrations that only
  add columns or tables, deployment files.
- The adapters' field names; matching a path against robots.txt; the size cap of a
  body; cron expressions; `findStale` and `applyValidity`, which no worker calls.
- Cryptography, cookies and signatures: a token is its identity, a guard what it lets
  through.
- Clocks that jump, and a database that loses a committed statement.

Left for later: the logos and contacts of an application; the statement-level `JobPostings`
as a refinement of `DiscoveryCycle`'s batch.
