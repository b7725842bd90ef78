# GovLens: a TLA+ model of its core

GovLens lets citizens report local issues, their MP's office handle them, and the
reporter decide whether they are resolved.  This directory models the parts of the
program whose correctness depends on the order of events: requests that overlap,
statements that fail half way, messages that arrive twice, tokens that outlive what
they certify.  TLC checks the models on small instances, TLAPS proves the most
important of their properties for every value of the constants.

Paths below are relative to `src/`; `api/`, `db/`, `service/`, `cache/` and `queue/`
abbreviate the directories under `backend/internal/`.

To run: `tlc -config IssueLifecycle.cfg MC_IssueLifecycle.tla` and
`tlapm IssueLifecycleProofs.tla`; likewise for the other modules.
`PROJECT.json` lists all runs, what they check, and the lines each definition models.

## 1. Inventory

### Parts and how they interact

```
 browser (Next.js)  --HTTP-->  API (Go, chi)  --SQL-->  PostgreSQL  <--SQL--  ML sidecar (Python)
   DataStoreContext              handlers     --keys->  Redis                     worker.py
   RoleContext, api.ts                        --publish-> NATS JetStream --fetch-->
```

| component | state | operations | talks to |
|---|---|---|---|
| **Issue lifecycle** (`api/issues.go`, `db/issues.sql.go`) | `issues.status`, `issues.resolved_at`, comments | create, change status, verify | database; afterwards the response cache |
| **Accounts and MP profiles** (`api/auth.go`, `api/admin.go`, `db/mp_profile_workflows.go`) | `users.role`, `users.constituency`, `mp_profiles`, `audit_logs` | register, bulk import, change role, suspend | database, in transactions |
| **Enrichment** (`api/issues.go`, `queue/nats.go`, `ml_sidecar/worker.py`) | `issues.severity`, `sector`, `sentiment_score`; the stream ISSUES and its consumer | publish, fetch, classify and update, ack or nak; the office's `manage` | NATS, database |
| **Sessions** (`api/auth.go`, `service/auth.go`, `frontend/src/lib/api.ts`, `context/RoleContext.tsx`, `middleware.ts`) | Redis `refresh:<token>`, signed access tokens, the browser's copy | log in, refresh, log out, middleware | Redis, database |
| **Response cache** (`cache/redis.go`, seven handlers) | Redis `issues:list:*`, `heatmap:geojson`, `analytics:overview`, `ml:*`, `mp:*`, `briefings:list` | cache-aside reads, deletion after writes | Redis, database |
| **Upvotes** (`db/issues.sql.go`) | `issue_upvotes`, `issues.upvotes` | toggle, one statement | database |
| **Browser session** (`frontend/src/lib/api.ts`, `lib/auth.ts`, `context/RoleContext.tsx`, `middleware.ts`) | the token in localStorage and its cookie copy, shared by the tabs; the user that each tab shows | log in, one retry after 401, log out, guard pages | API |
| **Browser store and drawer** (`context/DataStoreContext.tsx`, `components/IssueDetailDrawer.tsx`) | issues, upvoted ids, comments as shown; the drawer's form | optimistic change, refresh on focus, save | API |
| **Report form** (`components/ReportModal.tsx`) | a draft in four steps, its sector, its photos | classify, continue, file | API |
| **Sign-up and admin's page** (`app/register/page.tsx`, `app/admin/page.tsx`) | dependent selects and their lists; the users' list, two dialogs | choose, register; change role, suspend, import | API |
| **Briefings** (`app/mp/briefings/page.tsx`, `lib/issueIntelligence.ts`, `api/briefings.go`) | a post being written, the review lock of a generated draft | generate, edit, review, discard, publish | store, API |
| **MP's analytics** (`app/mp/analytics/page.tsx`) | focus, drill filters, figures of the ML service | click a card or chart, load figures | store, API |
| **Heat maps** (`components/IssueHeatmapMap.tsx`, `app/heatmap/page.tsx`, `app/mp/heatmap/page.tsx`) | selected zone and issue, a flag between two libraries | click on zone, pin, map or list | store, MapLibre, deck.gl |
| **MP's queue** (`app/mp/dashboard/page.tsx`, `components/PlotlyClientChart.tsx`) | filters, the charts' handlers | filter, click in a chart | store, Plotly |
| **Weekly list** (`components/WeeklyFocusList.tsx`) | tasks, their copy in localStorage | add, tick, delete, reset | browser session |
| **Geographic scope** (`api/geo_scope.go`, `frontend/src/lib/geo-scope.ts`, `ml_sidecar/geo_scope.py`) | none | decide whether an issue is in a constituency; list window of 500 | - |
| **Start-up** (`backend/cmd/api/main.go`) | connections, present or absent for good | retry with backoff, degrade, shut down | all |
| **Uploads** (`api/uploads.go`) | files on disk | save, remove when a later step fails | disk, database |
| Comments, zones, analytics and ML queries | rows | insert, select, aggregate | database, cache |
| Classifier, sentiment | none | score words | - |

### What is hard here

- **Overlap.** Every request is a goroutine; a handler is a sequence of statements, each
  committed by itself.  What was checked on the row read first is not checked again when
  the row is written (`api/issues.go:724`, `914`; `db/mp_profile_workflows.go:157`).
- **Half-done work.** The note, the timestamp, the audit entry, the publication and the
  deletion of a session are "best effort": their errors are logged or dropped and the
  request goes on.  A context that is cancelled (client gone, 60 s timeout) ends it between
  two statements.
- **Delivery.** JetStream delivers at least once, the worker crashes with messages in hand,
  its task may die at the start while the process serves on.
- **Stale certificates.** A role is signed into a token for an hour; a cached answer is
  served for 30 seconds to minutes; a form holds the columns it loaded.
- **Asynchronous views.** A handler of a page is a function with `await`s: between two of them
  the user types, closes the dialog, moves to another page, and other answers come.  Few requests
  are cancelled, so answers come in any order, and what they set belongs to whatever is shown by
  then.  Effects put forms back whenever the data they derive from changes.  Three libraries call
  back on their own (MapLibre, deck.gl, Plotly), and all tabs share one token.
- **Retries and limits.** Start-up backoff, a nak without delay or limit, the window of 500.

`PROJECT.json` lists each of these as a hazard at its line, with the properties that
would catch it or the reason why none does yet.

### What makes each component correct

- *Lifecycle*: citizens close issues, MPs do not ("Citizens verify, MPs don't self-close",
  README.md:53); the timestamp rests on a verification; a claim carries its note; status
  and timestamp agree once nothing disturbs them; requests are answered.
- *Accounts*: an MP has a constituency and an active profile, nobody else has an active one;
  becoming an MP is gated (README.md:56); the log is true.
- *Enrichment*: a published issue is enriched in the end, its message is not dropped before
  and not applied after its ack; a person's choice stands (README.md:54).
- *Sessions*: rights that were taken away and sessions that were ended lapse in bounded time.
- *Response cache*: what is served was true at most a TTL and one request ago; when a writing
  handler has answered, what its write outdated is gone from the keys it deletes.
- *Upvotes and browser store*: the counter moves with the rows; the page agrees with the database
  once requests are answered; a save stores what the user saved.
- *Browser session*: a tab acts as the user it shows; a logout stays one.
- *Forms*: a choice of the user's is what is sent, once, and whole: the sector, the constituency,
  the flag that was not touched.
- *Briefings*: nothing generated is published unreviewed (app/mp/briefings/page.tsx:135).
- *Analytics, maps, queue*: what is shown belongs to what was chosen: figures to the constituency,
  evidence to the card, the selection to the last click, a handler to the filter on the page.
- *Weekly list*: it is there again when the page is opened again.
- *Geographic scope*: the three implementations agree, and the office sees all of its issues.

## 2. Modules

| module | models | extends / used by |
|---|---|---|
| `IssueAccountability` | the abstract promise about the public record | - |
| `IssueLifecycle` | the handlers, statement by statement | implements `IssueAccountability` |
| `MC_IssueLifecycle` | a small instance | `IssueLifecycle.cfg`, `IssueLifecycleStampRace.cfg`, `IssueLifecycleVerdictRace.cfg` |
| `IssueLifecycleProofs` | theorems | - |
| `OfficeRegister` | the abstract promise about users, offices and profiles | - |
| `Accounts`, `MC_Accounts`, `AccountsProofs` | users, profiles, role transactions | implements `OfficeRegister`; `Accounts.cfg` |
| `AssistedSeverity` | the abstract promise about who chooses a severity, and when | - |
| `Enrichment`, `MC_Enrichment`, `EnrichmentProofs` | publication, delivery, worker, office | implements `AssistedSeverity`; `Enrichment.cfg`, `EnrichmentOverride.cfg` |
| `Sessions`, `MC_Sessions`, `SessionsProofs` | tokens, refresh, logout, time | `Sessions.cfg` |
| `ResponseCache`, `MC_ResponseCache`, `ResponseCacheProofs` | look-ups, stores, writes, deletions, lifetimes | `ResponseCache.cfg` |
| `UpvoteLedger` | the abstract promise about votes and counters | - |
| `Upvotes`, `MC_Upvotes`, `UpvotesProofs` | the button, its requests, the statement, the list | implements `UpvoteLedger`; `Upvotes.cfg` |
| `ReportForm`, `Registration`, `AdminPage`, `BriefingDesk`, `WeeklyList` | the forms of the web client and the MP's list | `FormProofs` |
| `BrowserSession`, `IssueDesk`, `SignalLoads`, `HotspotMap`, `QueueBoard` | the tabs' session, the store with the drawer, figures, maps, charts | `ViewProofs` |
| `InsightDesk` | cards, drill filters and evidence of the MP's analytics | `ViewProofs`; `InsightHeadline.cfg` |
| `Browser`, `MC_Browser` | all eleven views of the client | `Browser.cfg`; `BriefingReview.cfg` runs `BriefingDesk` by itself |
| `FormProofs`, `ViewProofs` | theorems; the second extends the first and speaks of `Browser` | - |

Definitions named `X_Something` before a definition `X` are mutations of `X`: plausible
mistakes.  Substituting one for `X` must break the property that `PROJECT.json` names,
which shows that the property depends on that piece of the code.

### IssueLifecycle

State: the row's `status` and `resolvedAt` (whether the column is NULL), and for each slot
(a goroutine) its request `req` and the statement `pc` it executes next.  History variables
that no action reads for its guard: who wrote the status last (`setBy`), what was ever `claimed` or
`verified`, whether the current status is `noted`, which requests ran `alone`, which issues are
`settled`, that is, last written by a request that ran alone and to its end.

| action | code |
|---|---|
| `CreateIssue` | the INSERT of `handleCreateIssue` |
| `AcceptStatusChange` | `handleUpdateStatus` up to `UpdateIssueStatus`: role, constituency, `validateIssueStatusChange` |
| `AcceptVerification` | `handleVerifyIssue` up to the write: reporter, awaiting verification |
| `WriteStatus` | `UpdateIssueStatus`, whose WHERE names the id only |
| `InsertNote`, `WriteStamp` | the two following statements; a status change stores its note before the timestamp, a verification its comment after it |
| `FailWrite`, `FailNote`, `FailStamp` | the statement reports an error (a status write may be committed all the same); after the last two the handler goes on |
| `Abandon` | the context is cancelled, or the process stops, between two statements |

The checks of a handler are one step with the read of the issue: between them the code reads
only columns that are never updated.  The cache invalidations at the end belong to the
response cache.  The roles of `TokenRoles[u]` are a set: a user whose role changed holds
tokens with either role for a while.  `Sessions` shows how long.

Properties:

- `OnlyReporterOrAdminDecides`: whatever overlaps, a status turns into a verdict only through
  an admin's token or by the reporter after a claim.
- `StampRestsOnVerification`: a timestamp only on an issue that was declared resolved.
- `SettledStampAgrees`, `SettledClaimHasNote`: a request that met no other request and no
  fault leaves status, timestamp and note in order, whatever disorder it found.
- `Accountability`: the whole is an implementation of `IssueAccountability` (`Promise == INSTANCE
  IssueAccountability`), in which every status write is one atomic step in the name of a person:
  `Handle` by an MP of the issue's constituency and at most to a claim, `Decide` by the reporter after
  a claim, `Override` by an admin.  `setBy` names the person, so that the admin of the instance
  excuses nobody else's write.  The mapping is the identity on the row's columns and the histories;
  notes, timing, requests in flight and faults are stutters.
- `RequestsReturn` (liveness).

### Accounts

A transaction takes a slot, reads what it reads, waits for the lock of the users row
(`WriteRole`), writes the profile and commits.  Its writes appear at the commit; up to there
nobody else could see them (READ COMMITTED).  `BeginChange` reads the row *before* it holds
the lock, as `ChangeUserRoleWithLifecycle` does, so that `seen` may be out of date when it
decides whether to check the constituency and whether to archive.  Any statement may fail
(`Rollback`), the answer of a commit may be lost (`LoseCommit`), the audit entry may be
(`LoseAudit`).

- `MPHasActiveProfile`: survives all overlaps, because the upsert always activates and a
  constituency is never taken away.
- `ProfileFollowsRole`: the converse, of users whose role changes have not overlapped.  With
  overlap it fails: a change to citizen that read "citizen" before a change to MP committed
  does not archive.  Nothing in the repository claims otherwise, so the property states the
  case in which the code delivers it.
- `ActsInOneStep`: the whole implements `OfficeRegister` (`Register == INSTANCE ... WITH contested <-
  raced`), where users enrol, enter office and leave it in single steps that see the row they
  change.  Locks, waiting, rollbacks and lost answers are stutters; the commit is the step.  Two role
  changes of one user that meet show in the register as `Contest`: from then on a move may fail to
  archive the profile or archive one that was none of its business, and still every MP has both
  a constituency and an active profile, since `Appoint` is the same.
- `OnboardingIsGated`, `AuditIsTrue`, `TransactionsEnd` (liveness); and the type invariant `TypeOK`,
  which is proved only.  The texts of a profile are payload: only these transactions write them.

### Enrichment

`msg[i]` follows the message about an issue from the INSERT (`publishing`) through JetStream
(`ready`, `out`) to `acked`, or to `lost`.  The worker is one task: `fetch`, `update`, `ack`.
`severity[i]` records who chose the value rather than the value.  `AckWait` may happen while
the worker still has the message in hand; its late ack is honoured then, and until it comes
the message may be lost to a crash and delivered again.  `ManageIssue` writes the whole form that `Load` copied, as
`IssueDetailDrawer.tsx:137` does.

Fetch takes any non-empty set of waiting messages, so the batch of ten is not exceeded by
the two issues of the instance.  The branch of `worker.py:42` that acks a message without
text is not modelled: the text is title and description joined by `". "`, so it is never empty.

- `AckedIsEnriched`, `AckedIsFinal`, `PublishedIsEnriched` (liveness).
- `AssistsAsPromised`: the whole implements `AssistedSeverity`, in which there is no worker and no
  drawer.  A message that is ready or out is "queued" there (`Stage`), so that fetches, ack waits,
  naks and crashes are stutters; the UPDATE is `Assist`, also when it raises after the commit, the ack
  is `Settle`, and a save of the drawer is `Decide`.  It says what a reader of `worker.py` would hope
  for: after its ack nothing of a message is applied, and a stale drawer puts back the
  classifier's choice only for an issue that the classifier has looked at.
- `TypeOK` is proved only.

### Sessions

Time is a number.  A token is a record (user, role, session, expiry); `authMiddleware` accepts
it while `now < exp` and looks at nothing else.  `BeginLogin` and `BeginRefresh` read, later
`MintLogin` and `LoadUser`/`MintRefresh` go by what was read.  `Logout`, `ChangeRole`,
`SuspendUser` and `Tick` come in between.  A handler that has begun is over within `Grace`
ticks: its context is cancelled after 60 seconds, and nothing it does after its last
database call waits.  In `MintLogin` signing the token and storing the refresh token are one
step: the token leaves the handler only after the second.

`heldAt` remembers when a user last had a role.

- `PrivilegeExpires`: who is accepted as an MP or admin is one, or was within a token's
  lifetime plus one request ("so changes take effect on next refresh", `api/auth.go:471`).
- `SessionEnds`: what a session gave out is the session owner's, and is accepted for less than
  that after a logout or the end of seven days, also when a refresh was in flight.

### ResponseCache

An answer is abstracted to the time since when it has been out of date (`stale`, 0 while it is
what a query would give); who outdated it (`by`) is remembered for the properties.  A reader
misses (`BeginRead`), queries (`Query`) and stores (`Store`); a hit changes nothing.  A writer
writes (`WriteRows`), which outdates some of the answers that show what it changed, in Redis
and in readers' hands, then deletes its keys one by one (`DeleteKey`) in any order, as a SCAN
finds them.  `Shows` is what the queries select from, `Deletes` what the handlers delete; the
two differ: a new issue is shown by five families of answers and deletes one, the worker
deletes none.  A deletion that fails (`FailDelete`) is ignored; a write that fails
(`FailWrite`), committed or not, deletes nothing.  `Tick` lets time pass and drops the keys
whose lifetime is over; like in `Sessions`, a handler is over within `Grace` ticks.

A look-up that fails although the key is there counts as a fault.  `mp:profile` is missing on
purpose: its handler looks the user up under the plain string `"user_id"` while the middleware
stores it under a `contextKey` (`api/mp.go:32`, `api/server.go:17`), so it answers 401 before it
gets to the cache.  Lists of logged-in users do not go through the cache either.

- `StalenessBounded`: whatever is stored late, stored over newer answers or never deleted, no
  answer has been out of date for a lifetime plus a request.
- `OutdatedIsDeleted`: an answer that a write outdated in Redis, under a key its handler
  deletes, is gone when that handler has answered; what remains comes from readers that had
  queried before, or from a failed deletion.

### Upvotes

`ToggleUpvote` is one SQL statement, but two of them on one row overlap under READ COMMITTED:
each decides by its own snapshot (`Snapshot`), and what it then does (`Execute`) is up to the
primary key and the row lock.  A row that is already there makes the insertion fail, a row that
has been deleted meanwhile is not deleted again (step `"gone"`).  Waiting for a lock is not a
step: the statement executes when it has the lock.  The counter is updated in the same
statement, on the newest version of the issue's row.

A tab changes what it shows at the click (`Click`), reverts by toggling again when an error
comes back (`Answer`), and replaces everything by a list (`AskList`, `ReadList`, `ShowList`)
whenever it gets the focus.  `FailToggle` covers requests that never arrive, statements that
fail and answers that are lost after the commit.  React is taken to run an updater of its
state once, as production builds do.

- `CounterIsVotes`: the counter is the number of rows plus what `seed.sql` gave the issue beyond
  its rows.
- `Ledger`: the whole implements `UpvoteLedger`, where votes are cast and withdrawn one by one.
- `QuietTabAgrees`: a tab that met no other click since it asked for its list (`calm`) shows the
  database's counter and its user's vote once nothing is in flight, also after failures; for
  issues that the user had voted for before (`had`) it does not, since the page looks for the field
  `has_upvoted` and the API sends `is_upvoted` (chapter 6).

### The views of the web client

Each view is a module: its state is what React keeps (state, refs, the closures of handlers and
effects that wait), its actions are the user's events, the answers of requests, and the callbacks
of libraries.  A handler with `await`s is one action per stretch between two of them, and its
closure is a record in a slot (`asks`, `posts`, `calls`, `writes`, `runs`, ...).  An effect belongs
to the action that changes what it depends on, since React runs it before the
next event; only in `WeeklyList`, where another tab may come in between, is it a step (`RunEffects`).
Variables
after "what the properties remember" are histories that no guard reads; most say that a condition
which a property names has held so far.

| module | actions and code | property |
|---|---|---|
| `ReportForm` | `RunAI`, `ContinueDetails`, `AnswerAsk` (`classifyDraft`, handleContinue's first step), `Submit`, `AnswerPost`, `FailPost`, `LosePost` (its third), photos, `ResetAndClose`, which cancels nothing | `OverrideStands`; `SmoothReportIsFiled` for a user who waits |
| `Registration` | `ChooseRegion`, `ChooseDistrict` with their effects, `AnswerDistricts`, `AnswerConstituencies` in any order, `Register` to `LogInAndLeave` | `ChoicesFit` when lists come in order |
| `AdminPage` | SWR's fetch (`FocusPage`, `ReadUsers`, `ShowUsers`), the suspension dialog, `ChangeRoleOf`, the import dialog, `OtherAdmin` | `UntouchedFlagsStand` for an admin who waits |
| `BrowserSession` | `request` of `api.ts` (`AskData`, `Served`, `Refused`, `Renewed`, `GiveUp`), `login`, `logout`, the middleware (`Visit`, `EnterSite`), links, expiry | `TabsActAsShown` while logins do not overlap; `LogoutSticks` |
| `IssueDesk` | the drawer's form and its effect, `changeIssueStatus`, `saveIssueManagement`, `verifyIssue`, `addComment`, each with the optimistic change, the request (`Perform`) and its answer; `refreshIssues`; `OthersWrite`: other people's requests, and one that the browser has given up on and the API commits later | `CalmDeskIsTrue` |
| `BriefingDesk` | the clusters and the effect on them (`IssuesChange`), `GenerateDraft`, `EditPost`, `TickReview`, `DiscardLock`, `PublishPost`, which nothing keeps from being clicked twice | `GateHoldsDrafts`; not `NothingUnreviewedIsPublished`: finding 5 |
| `InsightDesk` | the cards, drill filters and evidence as operators on the issues; one action per card and chart | `InsightsAreTraced`; not `EveryHeadlineIsTraced`: finding 4 |
| `SignalLoads` | the effect that loads the ML figures, its cleanup, its answers | `OwnFiguresStand` |
| `HotspotMap` | one action per gesture, with the order in which deck.gl and MapLibre report it | `SelectionIsMeant`: the selection is one of those that the gestures leave open (`meant`) |
| `QueueBoard` | the filters, the runs of the charts' effect (`Imported`, `Drawn`, `RunFails`), clicks | `HandlersAreCurrent` |
| `WeeklyList` | the two effects of a render together (`RunEffects`), the handlers of the list, logout, opening by address (the user is not known yet) or by link | `WeeklyListIsKept` for one MP with one tab at a time |

Three cards of the analytics page count issues (`Counting`; the forecast's card counts predictions).
After a click, the card of the pressure and that of the pattern show exactly their issues, whatever
filters were set before, because they set the ones that their evidence is filtered by.  The card of
the rising sector does not set the zone: it counts the recent issues of all zones and shows those of
any age in one zone, the one of an earlier click or else the one under most pressure.
`InsightsAreTraced` states both; that the second is not what the page promises is finding 4.  A pattern
that the ML service sends comes with a count of its own, which is not modelled: the evidence is
compared with the issues on the page.

Of the two libraries on the map, `meant` and `owed` say what may be lost: a click on a pin which the
map reports before the layer may clear the zone, and the first click beside zones and pins after a
gesture that the map has not reported last may be swallowed by the flag.  A second one never is, and
a click on a zone always counts.

The conditions in these properties are not decoration.  Without `smooth`, an answer of a closed
draft sets the sector of the next one; without `inOrder`, a constituency may be chosen from the
list of the district before; without `patient`, a suspension writes back a flag that was read
before somebody changed it; without `orderly`, a refresh in one tab stores the token of a user whom
another tab has replaced; without `calm`, a list fetched before a write undoes it on the page;
without `solitary`, the last tab or user to change the weekly list wins, under one key.  The
repository claims nothing for these cases, so the properties say where the code delivers.

`Browser` puts the views together: the one that is `open` moves.  In the program they share the data
store's issues and the user who is signed in.  In the model each view has its own copy of what it
reads there, which may change at any moment, whoever causes it (`IssueChanges`, `IssuesChange`,
`ScopeChanges`, `HomeChanges`, `OthersWrite`).  So the composition is a frame that lets one run check
eleven modules, and says nothing about how one view's changes look in another.

## 3. Runs and bounds

| run | instance | distinct states (about) | result |
|---|---|---|---|
| `lifecycle` | 1 issue, reporter, MP of the constituency, MP of another who has become a citizen, admin; 2 slots; 2 faults | 436,000 | holds |
| `stamp_race` | the same, no fault | - | violated: finding 1 |
| `verdict_race` | the same, no fault | - | violated: finding 2 |
| `accounts` | 1 user, 2 slots, 2 faults | 36,000 | holds |
| `enrichment` | 2 issues, 1 drawer, 3 faults | 32,000 | holds |
| `override` | 2 issues, no fault | - | violated: finding 3 |
| `sessions` | 2 users, role MP or citizen, 1 refresh token, 1 handler, lifetimes 2, grace 1, time up to 6 | 1,130,000 | holds |
| `response_cache` | 2 keys (a list that lives 1 tick, an ML answer that lives 2), status change and worker's update, 2 readers, 2 writers, 1 fault, time 1 to 3 | 3,200,000 | holds |
| `upvotes` | 2 users with a tab each, 1 issue, 2 toggles and 2 lists in flight, 3 clicks, 1 fault | 3,300,000 | holds |
| `browser` | every view by itself, sizes below | 570,000 | holds |
| `headlines` | 2 issues, 2 zones, 2 sectors, 2 days, window of 1 | - | violated: finding 4 |
| `review_gate` | 2 topics of up to 2 issues, 1 publication | - | violated: finding 5 |

Why these are enough to be interesting:

- *One issue, one user row.* The handlers touch one issue and one user each; requests on
  different ones share no row.  The proofs cover any number.
- *Two slots.* The races need a second request between two statements of the first.  Slots
  are reused, so any sequence of requests occurs.
- *Faults.* The bound `MaxFaults` counts failed statements, cancelled requests, crashes and
  restarts.  Two make a failure during the repair of a failure possible; the enrichment has
  three so that a failed update, a failed ack and a crash can meet on one message.
- *Time.* Six ticks let a session (2) end, and a token minted by a refresh at its last moment
  (2 + 1) expire, before the clock stops.  One handler is enough: a handler affects others
  only through sessions and roles, which the admin and the logout change at any time.
- *Cache.* Two readers let an older answer be stored over a newer one, two writers let a
  second write outdate what the first's deletion let in.  Within three ticks an answer is
  queried and outdated at 1, stored at 2 and still served at 3, the last moment that
  `StalenessBounded` allows a list.  The two kinds of write are one that deletes every key it
  outdates and one that deletes none; the other kinds are mixtures of the two.
- *Clicks.* Two toggles of one user meet in every order of snapshot and effect; the third click
  comes after a failure and its revert.  Two lists may arrive in the wrong order.
- *Views.* Two requests of a kind in flight are what it takes for answers to come out of order:
  two classifications, two lists of each kind, two fetches, three loads of the figures (the first
  of no constituency), two runs of an effect.  Three districts in two regions, so that a district
  may be the wrong one and a region has more than one.  Two tabs and two people, an MP and a
  citizen, so that a token changes hands and a page may be out of bounds.  Two tabs, two constituencies
  (one of them the default) and one task besides the first for the weekly list.  Two zones and two
  issues; two topics of up to two issues, the size below which a cluster disappears; two days and
  a window of one, so that there is a current and a prior window; one write in flight at a time,
  for `CalmDeskIsTrue` says nothing about two.
- No run restricts the states with a constraint, and none switches off the deadlock check.

`Browser.cfg` uses `SYMMETRY` and `VIEW`; the other runs use neither, and two of them check
liveness, for which a symmetry would not be sound.  `a1`, `a2` and `b1`, `b2` are model values that
no definition tells apart, and none of the definitions that use them chooses one with CHOOSE.  The
view `Seen` is the open view and its state: the others rest in initial states, which nothing reads.

## 4. Fairness

- `IssueLifecycle`: weak fairness of each slot's statements.  A goroutine is scheduled and a
  statement returns, with an error at the latest when the context is cancelled after 60
  seconds (`middleware.Timeout`, `main.go:101`).  Clients owe nothing: no fairness for
  `Accept...`.
- `Accounts`: strong fairness for taking a row lock, since PostgreSQL serves the waiters of a
  row lock in turn and other transactions come and go meanwhile; weak for the rest.
- `Enrichment`: weak fairness of the worker's loop, of the handler after the INSERT and of the
  ack-wait timer; strong fairness of "the worker fetches the message of issue i", since
  JetStream hands out the waiting messages in order and the ack-wait may make one wait again.
  Starting again after a crash is part of the worker's step: docker-compose restarts the
  container.  None for faults, for the office or for the start of a task that has died.
- `Sessions`, `ResponseCache`, `Upvotes` and the views have no liveness property and no fairness:
  the client owes nothing, and a request may be lost.

## 5. Proofs

All theorems hold for arbitrary constants under the named assumptions of the modules
(`...Assumption`), which only give the constants their types, set the values for "nothing"
apart and say that users, issues, zones and sectors are finitely many where something counts them; TLC evaluates them in each run.

**IssueLifecycleProofs.** `TypeCorrect` is inductive by itself.  `EntitlementInv` is the
strengthening behind `SeparationOfDuties` and `StampRests`: a request in flight is entitled to
its target *whenever it writes* (an MP of the constituency to an MP's target; an admin by an admin's
token; the reporter because the issue was claimed once), and past its status write with the target
`verified-resolved` it concerns an issue in `verified`.  It is needed because the check and
the write are separate statements: what the check establishes must be something that later
steps cannot undo.  `claimed` and `verified` only grow; `status` does not, which is why
`VerdictEndsPending` fails.  `SettledInv` states that a request in `alone` owns its row: no
other is in flight on its issue, and the row already holds what its finished statements wrote.
From it follow `SettledStamp` and `SettledNote`.  `ClosingNeedsAClaim`: without admins,
verified issues were claimed.  `KeepsPromise` is the refinement: initial states map to initial
states, each action to an action of `IssueAccountability` or a stutter; the entitlement of the request is what
makes its write a `Handle`, `Decide` or `Override` of the user who asked (`StatusWriteKeepsPromise`).

**AccountsProofs.** `OfficeInv` adds to `MPHasActiveProfile` that the holders of row locks
exclude each other, so that a row about to be inserted does not exist (`LocksExclude`), and
that what a transaction read or was given suffices for the role it will write, however the row
has changed since (`ReadsSuffice`): a change to "mp" knows a user with a constituency, because
it checked one or read an MP's row, and nothing takes a constituency away.  `FollowInv` adds
that the role which a change has read is still the user's as long as no other change
overlapped (`ReadsAreFresh`).  `OfficesActInOneStep` is the refinement of `OfficeRegister`; it rests on
one lemma, `CommitActsAtOnce`: by `LocksExclude` and `ReadsSuffice` the commit finds the row that its
transaction needs, and by `ReadsAreFresh` the role it read long before is the one that the register's
step sees, unless the user is contested.  `AuditsAreTrue` and `GateHolds` follow the transactions'
steps.

**EnrichmentProofs.** `DeliveryInv` adds `WorkerInStep`: the message about to be acked has been
applied, the worker has no message twice, and a message exists only for an issue that was
inserted.  `ChoicesAreMade` adds where a severity can come from: the classifier's stands only where it
was stored, and a drawer holds a choice that was made for its issue.  With both, every step is one
of `AssistedSeverity` or a stutter (`AssistanceIsBounded`).

**SessionsProofs.** `AuthorityInv` bounds, for every handler, what it has read by when it
began, and for every token its expiry by when the role was last held and when the session
ended.  Both survive a step if the step is `Onward`: time, histories and sessions only move
forward.  That is one lemma each (`HandlerStaysRecent`, `TokenStaysBounded`), and every action
is then shown to be onward and to add only bounded tokens.  `PrivilegesExpire` and
`SessionsEnd` follow.

**ResponseCacheProofs.** `TypeCorrect` is proved and not part of a run.  `TimedInv` says of every entry that it expires within its lifetime and
`Grace` of the time it went out of date, and of every reader that what it holds went out of date
no earlier than it began; with the age limit on handlers (`Tick`) this carries over to the entry
it stores.  `PendingInv` says that an entry outdated by a slot is among the keys that the slot,
now deleting, has left, and that a slot which has not written yet has all of its keys left.

**UpvotesProofs.** `VotesInv` adds to `TypeOK` and `CounterIsVotes` that a row which a statement has
found, and has not been told is gone, is there (`FoundIsThere`, which makes a deletion delete
exactly one row), that a shown counter includes the own vote shown with it (`ViewsCounted`), and
that a tab with a click in flight shows a list.  `EffectIsOneVote` shows that a statement's effect
is one vote, one withdrawal or nothing; both the counter (`OneVoteKeepsCounter`, with the
library's facts about cardinalities) and the refinement (`ImplementsLedger`) rest on it.
`QuietTabsAgree` needs what a quiet tab shows while it is *not* at rest (`QuietInv`): its only click
in flight puts it one toggle ahead of the database (`Ahead`), until the statement or the
revert closes the gap (`EffectCatchesUp`, `FlipMoves`); beside it no other click is in flight and what
its snapshot saw is still true (`CalmIsAlone`); and a list that no click has overlapped with is
what the database holds when it is shown (`AloneIsCurrent`).

**FormProofs.**  Each form has a shape (its type invariant, in parts) and one strengthening.
- *Report form*: `OverrideHolds` is inductive with the shape: a choice by the user replaces the
  sector at once, and no answer sets a sector that is there.  `SmoothInv` says what waiting for
  answers buys: at most one classification and one report in flight (`SmoothAsks`, `SmoothPosts`),
  nothing of another draft, and a title from the second step on (`SmoothDraft`).
- *Sign-up*: `ListsFollow` says of each kind of list that the newest request is for the selection
  above, and that the list on offer is that selection's when no newest request is left.  It holds of
  the districts only while a region is chosen, which is why `ChoicesInv` carries both levels at once.
- *Admin's page*: `PatientInv` relates four copies of a row: the database's, the page's, the
  dialog's and the patch's.
- *Briefings*: `GateInv` says that text of a draft without a lock means that somebody let go of it.
- *Weekly list*: `WeekInv` follows the one tab through the phases `Opened`, `Loading`, `Saving` and
  `Settled`, with what must be in the store in each.  It is needed because the store may hold another
  constituency's list while a save is due.

**ViewProofs.**
- *Session*: `QuietInv`: after a clean logout no refresh in flight carries anybody's token; it is
  needed because the refresh's answer, not its request, stores the token.  `OrderlyInv` says for each
  tab that it shows nobody, is about to reload, or fits the token; that the token is the refresh
  cookie's user's; and that every request is, too.
- *Desk*: `CalmInv` follows the one write in flight through its requests: what the copy and the row
  share in each phase (`WriteFits`), and that a refresh which met no write brings what the API has
  (`CleanFetch`).  It has to name the work the handler began with, since the form is put back.
- *Figures*: `LoadsAreOwn`: a load that is not cancelled is one for the constituency shown.
- *Maps*: the property and the type invariant are inductive together with `FlagIsOwed`: a flag is only
  left behind by a gesture that the map has not reported last.
- *Charts*: `RunsFollow`: at most one run per chart has not been told to stop, it belongs to the
  filter on the page, and it has not attached its handler yet.
- *Intelligence desk*: a card names a zone, sector or pair that none of the others is ahead of, by
  numbers of cases.  `SomeFirst` shows that a finite set with such an order has
  a first element, so that what a card names is a zone with issues (`TopZoneIsZone`,
  `TopSectorIsSector`, `TopRecurringIsRow`) and never the value for "no filter".  `EvidenceIsTraced`
  then follows a click (`ClickedIsSet`).  On the cards of the pressure and of the pattern it sets every
  filter that narrows the evidence.  On that of the rising sector it sets the sector and leaves the
  zone to an earlier click or to the default (`SectorIsTraced`).  Other steps forget
  the click or leave cards and filters alone (`SameCards`).
- *The views together*: `BrowserStep` is the frame: a step of `Browser` is a step of one view and
  leaves the variables of the ten others.  That
  holds by the form of the specification and so does `ViewsMoveAlone`; it only serves to carry the
  theorems about the single views over to the specification that the run checks, as
  `BrowserTypeCorrect` and `ClientKeepsPromises`.

**Only model-checked.** Liveness (`RequestsReturn`, `TransactionsEnd`,
`PublishedIsEnriched`): temporal properties under fairness are beyond the prover.  Every invariant,
action property and refinement of a passing run is proved.

## 6. Findings

1. `stamp_race`: two overlapping status changes leave `resolved_at` in contradiction to the
   status, although `api/issues.go:743` says the timestamp is written only when resolution is
   fully verified.
2. `verdict_race`: a verdict is written over a status that is not pending any more, although
   the refusal "issue is not awaiting citizen verification" says it would not be.
3. `override`: the worker overwrites severity and sector of every issue, although the
   repository's README says the citizen always has override.
4. `headlines`: the card of the rising sector counts the recent issues of all zones, and a click on
   it lists those of one zone, although the page says that every headline can be traced back to the
   underlying issue records.
5. `review_gate`: a refresh of the issues lets go of the review lock of a generated draft, which
   can then be published, although the page says that human review is required before anything can be.

Observed while modelling, and not the subject of a run, since one look at the code settles them:

- The browser looks for the field `has_upvoted` (`context/DataStoreContext.tsx:253`), the API sends
  `is_upvoted`; after every fetch the page shows none of the user's own votes, and the next click on
  one of them withdraws it while the page counts one more.
- The admin page says that a user with blocked login is "completely prevented from
  authenticating"; `login_suspended` is stored and never read by the login.
- The sidecar's response-time trend (`ml_sidecar/main.py:242`) selects issues with the status
  `resolved`, but the handlers write `verified-resolved`.
- `components/MPIssueWorkspace.tsx` is imported nowhere; the drawer does its work.
- A load of the public profile that fails shows "No MP Registered" (`app/mp-profile/page.tsx:83`).

## 7. Not modelled, and the plan

Not modelled for good:

- the classifier and the sentiment score: floating-point scoring of words, without state;
- the geographic scope: three copies of a comparison of place names by their characters, with a
  table of aliases.  What can go wrong is in the strings, which a model would abstract away.  The
  list window of 500 is a limit in one query;
- start-up (a sequential loop before anything is served), uploads (files with random names that one
  handler writes and removes), comments, zones and the aggregations (single statements; only their
  caching has behaviour);
- the schema, the seed data and the location import: they are the `Init` of the modules;
- pages that only present what they are given: the feed, the public profile, layout and
  wording.

Left out of modelled components: the avatar upload of a registration, the texts of a profile (which
no endpoint edits), what `content_hidden` hides, the count that the ML service sends with a pattern,
the texts of comments (`loadComments` and the empty thread that a refresh leaves until the drawer
loads it again), the counts that the heat map keeps of the zone that was selected, and the messages
of the drawer.

The client's views and the API's handlers are not composed with each other: a view sees the API
through answers that may come late, out of order or not at all, which is more than the handlers do.
`Sessions` abstracts from which tab asks, `BrowserSession` from roles that change.

Plan: a composition of
`Sessions` with `IssueLifecycle`, in which the tokens that the latter takes as a constant come from
the former, and of `Accounts`, which supplies the role changes.
