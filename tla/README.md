# MAAS Site Manager: models and proofs

TLA+ models of the MAAS Site Manager backend (`src/backend/msm`), the TLC
configurations that check them on small instances, and TLAPS proofs of what
matters most. Paths below are relative to `src/backend/msm/` unless they begin
with `src/`.

Site Manager enrols MAAS installations ("sites"), mirrors boot images from
simplestreams servers into S3, and serves them to the sites. An API server
(FastAPI, one transaction per request, PostgreSQL) holds the state; workers run
Temporal workflows that call the API back over HTTP and write to S3. Nothing
spans the four stores (database, S3, Temporal's schedules and histories, what a
MAAS has stored): each is written by its own step, and most of what can go wrong
lies between two of these steps.

## 1. Inventory

| Component | State it keeps | Operations | Where |
|---|---|---|---|
| Image download and deletion | `boot_asset_item.bytes_synced`; S3 objects; workflows `download-item-<id>` | PUT of a sync, `DownloadUpstreamImageWorkflow`, `download_asset`, PATCH of an item, removal, `DeleteItems` | **ItemDownload** |
| Image retention and index | versions with `last_seen`, `last_sync` of the source, view `images_index` | sync, `RemoveStaleImages`, `bootasset-versions:remove`, deselection, purge, REFRESH | **ImageRetention** |
| Site enrolment, access tokens | `site`, `token` rows; the tokens a MAAS has stored | enrol, poll, refresh, verify, accept, reject, delete, token creation and deletion | **SiteEnrolment** |
| Boot sources and schedules | `boot_source.sync_interval`, row locks; two Temporal schedules per source | create, PATCH, purge, selection, start of the server | **SyncSchedules** |
| Worker credentials | worker tokens; the token in the arguments of every schedule | daily refresh, start of the server, `enable_sync`, `disable_sync` | **WorkerCredentials** |
| Selections and their refresh | `boot_source_selection`, triggers of syncs | refresh PUT, select, remove, sync, the two queries | **Selections** |
| Product identity | uniqueness of products, versions, items | `get_or_create`, `upsert` | in **Selections**, **Uploads** |
| Custom images | source 1: its assets, revisions and items, objects, open multipart uploads | upload, removal, delivery to a site | **Uploads** |
| Index queries | `images_index` over all sources | concurrent REFRESH, queries of sites | **ImageIndex** |
| Profiles, configuration, status of sites | `site_profile`, `site.trigger_image_sync`, `site_state_status`, lock of `site_data` | profiles, PATCH of a site, configuration, details, status | **SiteConfig** |
| Users | `user`; JWTs | command line, login, the requests of `/users` | **Accounts** |
| OIDC providers and logins | `oidc_provider`, the provider of a user, cookies | provider CRUD, login, callback, logout | **OidcLogin** |
| Heartbeats, metrics | `site_data` | reports | not modelled: measurements no control depends on |
| Settings, service configuration | key-value rows | read, write | not modelled: one row, one request |
| Simplestreams parsing | none | parse, verify, cut | not modelled: a data transformation; its result is an input of `SyncFetch` |
| Worker process; HTTP, schemas, errors; migrations; command line; frontend; deployment | none of the above | | not modelled, reasons in `PROJECT.json` |

How they interact:

- A schedule starts `SyncUpstreamSource` for its source with a **worker token in
  its arguments** (WorkerCredentials → everything a worker does).
- The sync reads upstream, **PUTs** what it has listed, starts one download
  workflow for each item that is not fully synced and one `RemoveStaleImages`,
  all of them abandoned children that outlive it.
- A download streams into a multipart upload and **PATCHes** `bytes_synced` after
  each part; the PATCH refreshes the view that sites are served from.
- `RemoveStaleImages` reads twice and then **POSTs** a removal to the same
  handler that users call. The handler notes the item ids; the S3 middleware,
  outside the transaction middleware, starts `DeleteItems` after the commit.
- Requests about a source call Temporal **in the middle of their transaction**;
  a selection triggers a sync before it commits.
- An upload writes its object to S3 **in the middle of its transaction**.
- A site is told to synchronise by an answer, and its reports, sent when it
  likes, **reset the trigger** that an administrator has set.
- A login asks for the enabled provider at each of its steps, with the user's
  browser and the provider **in between**.

What is hard, and where: interleaved transactions under READ COMMITTED
(enrolment, schedules); state in several stores with no common commit
(downloads, uploads, schedules, worker tokens, cookies); workflows that outlive what started them
(cleanups, downloads after a timeout); reads used long after they were made
(cleanup, enrolment, logins, profiles); lost and late answers (rotation, PATCH,
Temporal calls, configuration); the death of the API server between two steps; and
work that must go on for ever (daily refresh, periodic sync). `PROJECT.json` lists
each hazard at its line.

What makes each component correct:

- *downloads*: an item that counts as synced has its object, a deletion never
  takes the object of a row that is there, a listed item is stored in the end, a
  removed one is deleted in the end;
- *retention*: the index serves whole, existing versions; a cleanup keeps what
  its sync has listed; the index settles on what upstream offers;
- *enrolment*: one token enrols one site, no access without approval, rotation
  never takes the token that MAAS has stored;
- *schedules*: they follow the row, and go when it goes; requests and starts end;
- *credentials*: what a schedule hands out is accepted by the API, for ever;
- *selections*: what is selected stays selected and is fetched, and is named once;
- *custom images*: the last upload is served, and a site is sent what it was offered;
- *index*: it follows the rows, and offers nothing that is not stored;
- *sites*: changes of a profile are not lost, and a trigger reaches its site;
- *accounts*: one provider at most is enabled, an account belongs to a provider
  at which its owner has signed in, and some administrator remains.

## 2. Modules

The modules of the first five components each have an `MC` module that gives them
small instances, and `.cfg` files named after the runs. The others are put
together by Server, which MCServer gives small instances (and OidcLogin is also
checked alone, by MCOidcLogin). Theorems are in `_proofs` modules, those about
Selections, Uploads, Accounts and OidcLogin in Server_proofs. `PROJECT.json` maps
each definition to its lines. A definition whose comment says "Mutant of" is a
version of the one below it with a plausible bug in it; no specification uses it,
and each shows that a property notices.

### ItemDownload

One item, or a few, across the three stores.

| Model | Code |
|---|---|
| `row`, `synced` | the `boot_asset_item` row and its `bytes_synced` |
| `stored` | length of the S3 object `<path>/<id>` |
| `toDownload`, `SyncPut`, `StartDownload`, `SkipStarted` | the PUT handler (`apiserver/user/handlers/bootassets.py:420`) and the loop over its answer (`temporal/workflows/sync.py:193`) |
| `wf`, `CanStart` | what Temporal knows of `download-item-<id>`, under ALLOW_DUPLICATE_FAILED_ONLY |
| `GetItem`, `BeginAttempt`, `Report` | `DownloadUpstreamImageWorkflow.run` |
| `pc`, `target`, `len`, `sent`, `UploadPart`, `PatchSynced`, `CompleteUpload`, `AttemptFails` | `download_asset` and `S3ResourceManager` |
| `reqState`, `reqItem`, `Remove...`, `StartDelete`, `ApiCrash` | a removing request through `TransactionMiddleware` and `S3Middleware` |
| `deleting`, `DeleteObject`, `DeleteTimeout` | `DeleteItems` |

Sizes are counted in parts. `stored` and `synced` are separate because S3 and
the database are: the last PATCH precedes `complete_upload`. Faults are named and
counted (`FaultKinds`, `MaxFaults`), so a run says which it admits. A lost answer
(in `AttemptFails` and `DeleteObject`) leaves the effect of its call behind. The
activity has no heartbeat timeout and a start-to-close timeout no shorter than
the execution timeout of its workflow (120 minutes, both), so a dead worker is
noticed by nobody until the workflow is timed out, and the activity of a workflow
that was timed out goes on beside the next one. Not in the model: the parts of
unfinished uploads, which no code reads; several items in one request, which
share its fate (`RemoveRollback` is possible at any time for that reason).

**ItemStore** is what this promises, seen from outside: items that are listed,
gone, stored or condemned. The row goes and its object is condemned in one step
there, although a transaction, a middleware and a workflow each do their part;
`ImplementsStore` maps `row`, `stored`, `deleting` and the committed requests to
it.

### ImageRetention

The versions of one product. `have`, `fresh`, `complete` are its versions with a
row, with `last_seen = last_sync`, with all items synced; `index` is what
`images_index` serves. `SyncFetch`, `SyncPut`, `SyncEnd` are the sync workflow,
`GetVersions`, `GetLastSync`, `RemoveStale` the three activities of the cleanup,
with anything in between. `putSince` stands for the comparison of timestamps: when
a PUT falls between the two reads, everything that was read is older than
`last_sync`. `BeyondLimit` leaves open which of the complete versions go, as the
query has no ORDER BY. `Like` says which names contain which, as the lookup of a
version is an ILIKE `'%name%'`: `Removable` is what it may find, and in the passing
run it is not the identity. A removal may then take another version than the one
asked for, of which `CleanupKeepsLatest` says when. Versions are numbers whose
order stands for that of the name strings. A download is one step here, a request is one step (ImageIndex has them in steps),
and the items of a version do not change once upstream has published it.

### SiteEnrolment

Sites, tokens, and requests that are open at once. A request is opened by the
reads of its handler, and written and committed in one step; that is what READ
COMMITTED with row locks makes of a handler whose writes are at its end. Where a
handler reads twice, there is a step between (`PostEnroll`, `FindSite`,
`WritePending`). `waiting`, `using` and `held` are the MAAS side: the call it
waits for, the token it polls with, the access token it has stored. An answer is
heard or lost; with `LateCalls` a client may also give up a call that goes on
running. `approval` is history, for one property.

### SyncSchedules

The row of a source, the lock on it, and its two schedules; each request is a
program counter over the statements and Temporal calls of its handler, in their
order. `enable_sync` is `UpdateRefresh`, `UpdateSync`, `CreateRefresh`,
`CreateSync`; `disable_sync` is `DeleteRefresh`, `DeleteSync`. Temporal's calls
take effect at once; a commit or a rollback concerns the row alone. `RpcError`
is a call that fails before or after it took effect, `Rollback` a transaction
that fails after its calls, `Crash` the death of the (single) API server, after
which `OpenEnsure` enables source by source what the rows say. `hurt` is history:
the sources on which a request failed halfway since the server last enabled them.
The custom image source has no schedules and is left out.

### WorkerCredentials

Worker tokens with their expiry, the token in each schedule, the transaction of a
renewal (`tx`), and the requests that write schedules meanwhile (`setting`).
A renewal (`Rotate`) and a start of the server (`Start`) make a token, write it to
the schedules one by one and commit last, as `rotate_worker_jwt` and `ensure` do;
a rollback undoes the row and not the schedules. Time passes in half days
(`Interval` 2, `Duration` 4: one and two days): nothing in the code depends on
less, except the margin of five minutes, which `TokenNeeded` rounds to the unit.
Tokens nothing refers to any more are used again.

### Selections

Rows of `boot_source_selection`, the assets a sync has stored, and what upstream
has. A refresh is `FetchCatalogue` (minutes of downloads), `OpenAvailable` (the
reads of the PUT) and `StoreAvailable` (its writes), a change by a user is
`OpenChange`, `UpdateSelection` (which locks the row and sends the trigger),
`CommitSelect` or `CommitRemove`; a sync is `SyncRead`, `OpenAssets`,
`LockSource` (the UPDATE of `last_sync`), `FindAssets`, `StoreAssets`, or ends in
`SyncGivesUp` with nothing stored: its execution timeout is twice the interval,
and until then Temporal retries what fails. An activity may be run again while its
first request goes on, so two PUTs of one source do meet.

Assets are looked up by ILIKE `'%name%'`, as versions are, and `Like` says which
images that finds. A product whose name is within that of another image takes the
asset of the other (`FindAssets`, `Missing`), and a removal purges those of every
image it finds (`Purge`), also when its row has gone by then.

`lapsed`, `crossed` and `missed` are history. An image is `lapsed` when upstream
has not had it all the time since the last sync began. A source is `crossed` when
a request on its rows was committed with what it had read before another one was
committed, and `missed` until the next sync begins, when the last one has given up
or has read the selections before the change that triggered it was committed.
Those do lose something, at least until the next sync of the interval, and the
properties exempt them.
`ReadOrders` has every order in which the database may return the rows, those of
sources with the same priority in any; `Selectable` and `Chosen` are what the
loops of the two queries pick from one, a row by its image and by what comes
before it. Bodies name one row here.

### Uploads

Custom images. An upload is one transaction: `OpenUpload` takes the id of the
item and opens the multipart upload, `Stream`, `FindAsset` or `CreateAsset`,
`Revise`, `InsertRevision`, `CompleteUpload`, `Commit`. Ids are taken from a
sequence and lost by a rollback; S3 is written whatever becomes of the
transaction. `Similar` says which stored names match which in the lookup of
`get_or_create`. `Later` compares revisions as the strings they become: `Base` is
where a second digit begins. A site reads the index (`ReadIndex`), asks for the
path it was given (`AskFor`) and is sent the object (`SendObject`), one offer at a
time; it reads the view as of the last commit, as staleness of the view is
the subject of ImageIndex.

### ImageIndex

The entry of one image in `images_index`, with an asset of it in several sources.
`Views` is the query of the view: the source with the highest priority, the
greatest version, and nothing if that asset has no version. Each request that
refreshes the view changes its rows and computes its entry in one step
(`Refresh`: the snapshot), and writes the view and commits in another
(`Commit`: the lock); `PutAsset` does not refresh. `Locks` says which rows the
change of another request holds. Assets with a subarch (bootloaders) are left out.

### SiteConfig

Profiles and sites. PATCH of a profile is `CheckProfile`, `ReadConfig`,
`WriteProfile`; a stored configuration leaves out what has its default, so a row
stands for a value of every option. PATCH of a site is `CheckSite`, `WriteSite`.
Each request of a site is authenticated by what `Open...` reads, then updates
`site_data` (`Lock`), which keeps the requests of one site apart until they
commit, and then runs: `AnswerConfig`, `SaveDetails`, or `ReadState` and
`SaveState`. The trigger in a configuration is thus the one read before the lock.
`maas` is what the site does with it, known from `src/` by the reports it sends.
`asked`, `crossed` and `pending` are history.

### Accounts

Users, their sessions, and the requests of `/users`: each is opened for an
authenticated actor, checks for conflicts (`CheckConflict`) or the password
(`CheckPassword`), and writes (`WriteNew`, `WriteChange`, `WritePassword`,
`WriteDelete`); the unique indexes are in `Collides`. `stale` and `moved` are
history: a request was committed for somebody who had lost the right to it, or
whose address had changed.

### OidcLogin

Providers, the provider of each account, and the browser of each person with its
cookies and the code it comes back with. `Check...`, `FetchMetadata` and the write
are the steps of an administrator's request; `LoginInfo`, `AuthorizationUrl`,
`SignIn`, `OpenCallback`, `ExchangeCode`, `FindAccount`, `InsertAccount` those of a
login; `OpenLogout`, `Revoke` those of a logout. `Client` is the client that is
made for the enabled provider each time one is needed. A request that raises
leaves no cookies, as its answer is made by a middleware. An id that has no row
ends in an error before anything is read, and is not opened. `signedIn` and
`raced` are history.

### Server

These six modules and SiteEnrolment, in one specification. A behaviour is one of
a single part, chosen by its first state (`part`); the variables of the other
parts stay `None`. The parts do not act on each other: nothing in one of them is
read by another. OidcLogin is extended, and stays as it starts in the other parts. The
others are instances: `Acc` of Accounts, `Prof` and `Conf` of SiteConfig (profiles
without sites, sites with their profiles), `Enrol` of SiteEnrolment without late
calls, `Sel` and `TwoSources` of Selections, `Up` of Uploads, `OneVersion` and
`TwoVersions` of ImageIndex. Two instances of a module share its variables. `Sel`
makes two parts, "one image" and "two images", which differ in the images
upstream may have and in how many requests may be open (`SelBounds`). The part
"two sources" has no steps: its initial states are all tables of selections
there can be, for the two queries. Everything is a constant here, and
`ServerAssumption` collects what the parts assume of them; MCServer only gives values.

## 3. Runs

| Run | Instance | Checks |
|---|---|---|
| `ItemDownload_live` | 1 item of 2 parts, 2 attempts, 2 requests, upstream serves what it lists, 3 retried faults, fairness | `FullySyncedIsStored`, `TrueMeansStored`, `EventuallyStored`, `EventuallyDeleted`, `SkippedIsInProgress` |
| `ItemDownload_faults` | the same, every fault, up to 4, streams too short and too long | `OnlyRemovedAreDeleted`, `ImplementsStore` |
| `ItemDownload_timeout` | the same, 1 fault | `FullySyncedIsStored` **violated** |
| `ImageRetention_serial` | 3 versions, the name of the second contains that of the first, upstream cut to 1, limit 2, no sync during a cleanup, fairness | `TypeOK`, `IndexServesStored`, `CleanupKeepsLatest`, `EventuallyCurrent` |
| `ImageRetention_race` | 2 versions, syncs during cleanups | `RemovesOnlyUnlisted` **violated** |
| `SiteEnrolment_enrol` | 2 sites, 2 enrolment and 2 access tokens, 2 requests, late calls | `TokenEnrolsOneSite`, `AccessFollowsApproval` |
| `SyncSchedules_overlap` | 1 source, 3 requests, 3 intervals, 1 fault, fairness | `TypeOK`, `SchedulesFollowRow`, `EveryRequestEnds` |
| `SyncSchedules_orphan` | 1 source, 2 requests, no fault | `PurgedIsNotScheduled` **violated** |
| `SyncSchedules_stuck` | 1 source, 2 requests, 1 fault, fairness | `EventuallyStarted` **violated** |
| `WorkerCredentials_refresh` | 1 source, 6 tokens, 7 half days, 2 faults | `TypeOK`, `RefreshGoesOn`, `ScheduledTokenIsGood`, `RunKeepsAccess` |
| `Server_parts` | the parts below, 2 requests each unless said otherwise | `PartsTypeOK` and what the parts list |
| `OidcLogin_returning` | 2 providers, 1 person, 2 requests | `ReturningUserLogsIn` **violated** |

The parts of `Server_parts`:

| Part | Instance | Checks |
|---|---|---|
| accounts | 2 users, 2 names, 2 passwords, 5 bodies | `OwnPasswordOnly`, `AdminRemains` |
| oidc | 2 providers, 1 person | `OneProviderEnabled`, `EnabledIsNotDeleted`, `BoundWhereSignedIn` |
| profiles | 2 profiles, 2 options of 2 values, 2 bodies, no site | `ChangeIsKept` |
| sites | 1 site, 1 profile beside the default one | `TriggerReachesSite`, `StateCreatedOnce` |
| enrol | 1 site, 2 enrolment and 3 access tokens, no late calls | `StoredTokenIsKept` |
| one image, two images | 1 source, 2 rows; 2 requests and 1 image, 1 request and 2 images, the name of one within that of the other | `SelectionIsKept`, `ListedOnce`, `NoDuplicateProduct`, `SelectedIsFetched` |
| two sources | any rows: 3 sources, two of the same priority, 2 images, 3 rows | `EachImageListedOnce` |
| uploads | 2 images, one name within the other, 3 assets, 3 items, `Base` 3 | `LastUploadIsServed`, `OfferedIsSent` |
| one version, two versions | 2 sources, 2 priorities; 2 requests and 1 version, 1 request and 2 versions | `IndexIsCurrent`, `OfferedIsStored` |

Why the bounds are enough. *ItemDownload*: two parts are the fewest with a part
before the last, lengths of one and three parts give a stream that is short or
long, two attempts are a download and its successor, two requests race for one
removal; items share nothing but a sync. Each fault is recovered from by itself,
and four of them leave the leftovers of two for two others to meet.
*ImageRetention*: three versions are one that upstream drops, one it keeps, one
it adds. Upstream cut to one version and a limit of two never leave anything beyond
the limit: that phase of a cleanup (`BeyondLimit`) removes nothing in the run, and
is covered by the theorem `CleanupIsSafe`, for any limit that the cut respects. *SiteEnrolment*: two MAAS compete for one token, and three access tokens
are one stored, one being issued, one being verified. *SyncSchedules*: sources
share nothing, and three requests are a holder of the lock, a waiter, and one
that calls Temporal without the lock; the intervals are "disabled", one below and
one above the floor of the refresh interval. *WorkerCredentials*: seven half days
hold three refreshes, so that a token made at the first has expired by the last;
six tokens are all that can be referred to at once. *Server_parts*: two requests
are the one that is overtaken and the one that overtakes it, which is what the
histories of these modules record; a third can only overtake once more. Two rows
of an image are one that a refresh deletes and the one a later refresh adds; of
two images one is found in place of the other, for which requests need not
overlap; three
items of uploads are one that is served, one that is removed or doubled, and one
on the second digit (`Base` 3 stands for the tenth upload of a day). Two sources
of the index give each order of priorities, equal ones included; the queries have
three, one above two that are equal, and their three rows are one image in each of
them, or in two of them and another beside it. What does not depend on the
bounds is proved (section 5).

Deadlock is off where ids, which are never used twice, run out (sources, rows of
users, providers, selections and items). Symmetry is used for safety only, never
in a run with a liveness property.

## 4. Fairness

- *ItemDownload*: Temporal runs workflows and retries activities without limit;
  the API server finishes its requests; the schedule makes PUTs for ever, and
  strongly so, because it waits for the downloads of the last sync to be started.
  Faults are bounded, as each recovers by a retry.
- *ImageRetention*: syncs and cleanups go on to their ends. `SyncPut` and
  `RemoveStale` are strongly fair, as a sync may be cut off and started over, and
  a removal by a user may make the POST fail for a while; giving up is fair only
  for a cleanup that cannot succeed. `EventuallyCurrent` is about behaviours that
  come to rest (`Quiet`): upstream and users change nothing any more, no workflow
  that could go on is cut off, and no cleanup takes a listed version for a withdrawn
  one. Syncs and cleanups go on for ever in them.
- *SyncSchedules*: strong fairness of each request, because PostgreSQL hands a row
  lock to the waiter that has waited longest; a server that is down is started.
- The other modules state no liveness. That the refresh goes on is the
  invariant `RefreshGoesOn`: whenever one refresh is over, the next has a token
  it can use. That a selection is fetched is the invariant `SelectedIsFetched`: a
  sync is due, has read it, or it is stored, unless upstream has dropped it, or
  the last sync has given up or has come too early: then it waits for the next
  sync of the interval. Both go on as long as Temporal runs its schedules.

## 5. Proofs

Every theorem holds for all values of the constants under the assumptions
declared with them. Most of these give types. The others are:

- model values differ from what they stand beside (`None`, `Gone`, `Off`, `Local`, ...);
- `Versions` of ImageRetention is a finite set; sizes, limits, intervals, durations
  and `Base` are above zero;
- an enrolment token is no access token, a real source has not the name of the
  refresh's own schedule (`Own`), and every image has a folder;
- a name contains itself (`Like`, `Similar`): nothing else is assumed of names, nor
  of the priorities of sources, which may be equal.

Some theorems have a hypothesis of their own, stated with each in the table:
`UpstreamKeep <= VersionsToKeep`, no `workflow_timeout`, an upstream that serves
what it lists, no late calls, how long tokens and syncs last in intervals, a finite
table of selections. The modules that Server instantiates
define theirs (`SiteConfigAssumption`, ...), as an instance cannot take an ASSUME
with it: the theorems about them have them as hypotheses. `ServerAssumption` is
the one ASSUME they become, from which the theorems of Server_proofs follow, and
TLC evaluates it for the values of MCServer.

| Theorem | Says | Argument |
|---|---|---|
| `ItemDownload_proofs!TypeCorrect` | `[]TypeOK` | with `Targets`: what is under way has an item |
| `...!DeletesAreSafe` | `[]OnlyRemovedAreDeleted` | inductive with the types; every fault included |
| `...!ObjectsAreKept` | `ListedObjectKept` | from `DeletesAreSafe`: only `DeleteObject` takes an object away |
| `...!BookkeepingIsSound`, `TrueIsSound` | `[]FullySyncedIsStored`, `[]TrueMeansStored` without `workflow_timeout` | `StoredInv`, below |
| `...!SkipsAreSafe` | `SkippedIsInProgress` without `workflow_timeout`, when upstream serves what it lists | with `StoredInv`; `FalseIsRemoved`: a workflow returned False only for an item removed under it |
| `...!StoreImplemented` | `ImplementsStore`: ItemDownload implements ItemStore | each step maps to one of the store or to a stutter, under every fault; with the types and `DeleteInv` |
| `ImageRetention_proofs!RetentionTypeCorrect`, `IndexIsSound` | `[]TypeOK`, `[]IndexServesStored` | one lemma on `DeleteRows`: a removal refreshes the view |
| `...!CleanupIsSafe` | `CleanupKeepsLatest`, when a sync lists no more versions than the limit keeps; any names may contain others | counting: a set cut to the `n` greatest has at most `n` (`GreatestBound`), so nothing is beyond the limit (`NothingBeyond`), and what goes was found by the name of a withdrawn version |
| `SiteEnrolment_proofs!EnrolTypeCorrect` | `[]TypeOK` | with `Carries`: what a request in each state carries |
| `...!TokensAreNotShared` | `[]TokenEnrolsOneSite` | `claim_jwt` decides, whatever was read before |
| `...!ApprovalComesFirst` | `[]AccessFollowsApproval` | with `LetIn`: an open poll, refresh or verify is for a site once approved |
| `...!RotationIsSafe` | `[]StoredTokenIsKept` without late calls | `RotationInv`, below |
| `Server_proofs!OidcTypeCorrect` | `[]TypeOK` | with `Carries` |
| `...!OneIsEnabled`, `EnabledStays` | `[]OneProviderEnabled`, `EnabledIsNotDeleted` | `Checked`: what a change was checked for holds until another one is committed |
| `...!AccountsAreOwned` | `[]BoundWhereSignedIn` | `Signed`: codes and callbacks under way are of providers at which the person has signed in |
| `...!AccountsHaveProviders` | `[]AccountHasProvider` | the foreign key, and ON DELETE CASCADE |
| `WorkerCredentials_proofs!CredentialsTypeCorrect` | `[]TypeOK` | |
| `...!RefreshNeverStops` | `[]RefreshGoesOn`, when tokens last longer than the interval | `RefreshInv`, below |
| `...!SchedulesHaveGoodTokens` | `[]ScheduledTokenIsGood`, when they last two intervals | `TokensInv`, below |
| `...!RunsKeepAccess` | `[]RunKeepsAccess`, when syncs are also shorter than the interval | with `RunLasts` |
| `ImageIndex_proofs!IndexTypeCorrect`, `IndexFollowsRows`, `OfferedExists` | `[]TypeOK`, `[]IndexIsCurrent`, `[]OfferedIsStored` | `Computed`: a request beside which nothing was committed has the view of the rows as its commit will leave them |
| `SiteConfig_proofs!ConfigTypeCorrect` | `[]TypeOK` | with `Carries` and `Remembered` |
| `...!ChangesAreKept` | `[]ChangeIsKept` | `Computed`: options about to be written were merged into those of the row, or have none |
| `...!TriggersReachSites`, `StatesAreCreatedOnce` | `[]TriggerReachesSite`, `[]StateCreatedOnce` | `SitesInv`, below |
| `Server_proofs!PartsTypeCorrect` | `[]PartsTypeOK` | `PartsInv`, below |
| `...!PasswordsAreOwn` | `[]OwnPasswordOnly` | `AccInv`, below |
| `...!AdminsRemain` | `AdminRemains` | from `AccGuarded`: only a request of somebody else takes the rights of the last administrator |
| `...!ProfileChangesAreKept`, `SitesAreTriggered`, `SiteStatesAreCreatedOnce`, `StoredTokensAreKept`, `IndexesAreCurrent`, `OfferedVersionsAreStored` | the properties of the run `Server_parts` about these parts | the invariants of SiteConfig_proofs, SiteEnrolment_proofs and ImageIndex_proofs, through `PartsInv` |
| `...!SelectionsAreKept`, `ImagesAreListedOnce` | `[]SelectionIsKept`, `[]ListedOnce` | `SelFits`, below |
| `...!ProductsAreUnique` | `[]NoDuplicateProduct` | `SelAssets`, below |
| `...!SelectionsAreFetched` | `[]SelectedIsFetched` | `SelFetched`, below |
| `...!LastUploadsAreServed`, `OfferedItemsAreSent` | `[]LastUploadIsServed`, `[]OfferedIsSent` | `UpInv`, below |
| `...!ImagesAreNamedOnce` | `[]EachImageListedOnce`, when the table is finite; sources may have the same priority | the first row of each image, below |
| `SyncSchedules_proofs!SchedulesTypeCorrect` | `[]TypeOK` | with `OnPath` and `Boot`: which steps a request of each kind goes through |
| `...!SchedulesFollow` | `[]SchedulesFollowRow`, every fault included | `IInv`, below |

*Why `FullySyncedIsStored` needs a strengthening.* It says nothing of the state
in which an attempt has PATCHed its last part and not yet completed, nor of why
a retry sets `bytes_synced` back. `StoredInv` adds that an attempt is the one its
workflow waits for (`Owned`, `Waiting`), that what it has sent is what the row
says (`Progress`), and that row and object agree whenever no download is at work
(`Settled`). The timeout of a workflow breaks `Owned`, and with it the property;
that is the run `ItemDownload_timeout`.

*Why `StoredTokenIsKept` needs one.* That verify spares the stored token follows
only if the verified token *is* the stored one when the transaction commits.
`OneCall` says that the open requests of a MAAS are the one it waits for, and
`HeldIsOwn` that what it has stored belongs to its site. Both fail for late calls.

*Why `SchedulesFollowRow` needs one.* It speaks of a source on which no request
is open, so it says nothing of the states in which a request has changed one
schedule and not yet the other, or both and not yet the row. `Locks` says that a
row is locked by a PATCH from its UPDATE on and by a purge from its DELETE on, and
by no one else. `SchedInv` then says what each position in `enable_sync` and
`disable_sync` implies for the two schedules: of the PATCH that holds the lock
(`Patched`), of a creation, whose source no one else knows (`Created`, from
`Fresh`), and of the start of the server, which runs alone (`Ensured`). A purge
that has touched a schedule (`Purging`) suspends all this until its commit takes
the row away or its failure marks the source as hurt. That a step touches its
own source only is `RequestStepOn`; `StepSched` reduces each step to that source.

*Why the tokens of the workers need one.* `RefreshGoesOn` speaks of the time when
no renewal runs. `RefreshInv` says of one that does (`Renewing`) that it makes a
token that lasts, or keeps some that do, and has written one of them to the
refresh's own schedule, and of the time between that what this schedule has lasts
until the next refresh (`OwnLasts`). For the other schedules `TokensInv` counts in
days: a schedule has a token that lasts beyond the next refresh, except while one
is pending (`Scheduled`), and some token does (`Newest`), so that a request that
enables a source in the middle of a renewal writes one that is good. The refresh
runs once a day and tokens last two days. That is where two intervals are needed:
a token written a moment before it is replaced must outlive the refresh that
replaces it.

*Why `TriggerReachesSite` needs one.* It holds of a site only because of what the
site cannot report: `Resting` adds that a site with a pending request neither
synchronises nor has a report on a synchronisation under way. `StateCreatedOnce`
rests on `Alone`: of the requests of a site one at a time is past the lock of
`site_data`.

*Why `OwnPasswordOnly` needs one.* The password is checked for the user that the
token names by its address, and is written to the row that has that address.
`AccFresh` says of an open request that, until the address is moved (`moved`), the
row it read still has the address, and `AccUnique` that no other row can.
`AccGuarded` keeps what the handlers refuse, and a body cannot undo: nobody demotes
or deletes himself. `AdminRemains` follows from it.

*Why the selections need one.* A refresh decides by what it has read which rows to
delete and which to insert. `SelFits` says that what an open refresh has seen is
all that its source has, and what was selected then, until another request makes
it stale; a stale one that commits is what `crossed` exempts. `SelAssets`: a sync that
has updated `last_sync` holds its source alone, so that what it has found without
an asset has none when it writes. `SelFetched` relates requests, syncs and
upstream (`SelTold`): a request that is about to commit a change has made a sync
due, or a sync has read the rows since and the source will be `missed`; and what a
sync has read is, but for what is `lapsed`, what its PUT asks for. A removal purges
the assets of images whose names contain its own, selected or not: what fetches
them again is that it, too, has made a sync due.

*Why the uploads need one.* `OfferedIsSent` speaks of one site and one path.
`UpRows` says that the revisions of an asset are 1 to the greatest, each with one
item, `UpFits` and `UpApart` that an open upload has an id of its own and the next
revision, alone; `UpObjects` that what is committed is in S3, and `UpSite` that the
offered item keeps its path as long as it is there, so that `get_by_path` finds
this row or none. For `LastUploadIsServed`, `UpLast` says that an image of one
asset (`UpOne`) has the last upload as its greatest revision (`UpTop`); below `Base`
the strings are in the order of the revisions.

*Parts.* `PartsInv` is, for each part, the invariant of that part. The instances
of ImageIndex, SiteConfig and SiteEnrolment are proved by instances of their
`_proofs` modules (`OneVersionP`, `ConfP`, ...). The prover takes `X!P` and `XP!P`
for different operators, though they are the same formula: lemmas that expand both
(`ConfTriggerReachesSite`, ...) lead from one to the other. That a part is chosen
at the start and that the others' steps are stutters is `PartsStart`, `PartsStep`.

*Queries.* An order in which a query reads a finite table is a bijection
(`TwoOrder`), and each set of positions has a first one (`TwoFirst`); so each image
has a first row that is selected, or else a first row, and this one is named.

Left to TLC: every liveness property, and ENABLED in it.

## 6. Disagreements between code and documentation that a run shows

1. **A download that is timed out counts as done** (`ItemDownload_timeout`;
   `temporal/activities/images.py:301`). The last PATCH makes `bytes_synced` equal
   to `file_size`; if the workflow is timed out, and the activity is cancelled,
   before `complete_upload`, no object exists and no later sync downloads one.
2. **A PUT between the two reads of a cleanup empties the product**
   (`ImageRetention_race`; `temporal/workflows/delete.py:79`). The versions are
   read first and `last_sync` second.
3. **A PATCH during a purge leaves schedules for ever** (`SyncSchedules_orphan`;
   `apiserver/service/images.py:205`).
4. **A server that cannot start** (`SyncSchedules_stuck`;
   `apiserver/service/temporal.py:518`). One schedule without the other makes
   `enable_sync` create both; the error for the one that exists is not caught.

5. **Nobody logs in through OIDC twice** (`OidcLogin_returning`;
   `apiserver/service/user.py:229`). The columns of a user are selected without
   `provider_id`, so the provider of whoever comes back differs from the one at
   which they have signed in: 409.

### Disagreements that have no run

Met while modelling, and kept here because each takes a single request or is a
variant of one above:

- An upload that completes after `DeleteItems` has been through, or a server that
  dies between the commit of a removal and `start_delete_workflow`, leaves an
  object without a row for good.
- When upstream serves fewer bytes than it lists, the download completes with
  False, and ALLOW_DUPLICATE_FAILED_ONLY makes every sync skip the item as "in
  progress" until Temporal forgets the workflow.
- A cleanup may remove the only whole version while a newer one downloads, against
  "Only removes complete versions to maintain availability"
  (`temporal/workflows/delete.py:65`): a version that left upstream goes at once.
- A removal by version name uses ILIKE and may take a version whose name contains
  the one asked for. A cleanup that does so removes what is listed instead of what
  was withdrawn, the next sync lists it again, and so on for ever.
- Assets are looked up by ILIKE as well (`apiserver/service/images.py:452`). An
  image whose names are within those of another has its versions stored with the
  asset of the other, and gets none of its own until that is gone. Deselecting it
  (`apiserver/user/handlers/selections.py:248`) purges the assets of every image
  whose names contain its own, selected or not, and does so also when its row
  has been deleted meanwhile; the sync it has triggered fetches the others again.
- A verify that arrives late revokes the token MAAS has stored since.
- An enrolment that read its site before the site was deleted is answered 202 and
  updates a deleted row: the MAAS polls in vain. A rejection that read the site
  as pending deletes it although it has been accepted since.
- The purge of a source whose sync is disabled fails with NOT_FOUND (no schedule
  to delete), always; so does the selection of images of such a source.
- A PATCH that disables the sync takes every RPCError for a missing schedule.
- A schedule keeps the execution timeout of its first interval.
- One missed daily refresh stops the renewals until the server is started again:
  the next one starts with a token that has just expired, and a 401 is not retried.
- Two changes of providers that are checked at the same time may enable two of
  them; from then on every login and every change of a provider fails, and only
  the database can be corrected by hand.
- Logout fails when the provider of the session is not the enabled one, and with
  status 500 when the token is denied already; a denied refresh token is never
  looked for by refresh. Cookies that a handler clears before it raises stay.
- Two administrators who demote or delete one another at a time leave none, and
  a deleted user's JWT is good for any request that is past authentication.
- Two changes of one profile's options at a time: the second is written from what
  was read before the first, which is lost (`crossed` in SiteConfig).
- A trigger that is set while the site synchronises is lost when COMPLETE is
  reported (`apiserver/site/handlers/config.py:130`).
- A selection whose trigger is sent before it commits may be read too early by the
  sync, and is then fetched by the next interval only. So is one whose sync reaches
  its execution timeout (`apiserver/service/temporal.py:147`).
- The tenth upload of an image on one day is not served: its version sorts before
  the second. Two first uploads at a time create two assets; the view serves either
  one, and later uploads go to either one.
- Two custom images that differ in their os alone have one path: `get_by_path`
  finds two rows, and neither can be downloaded.
- A refresh of the view that waits for another one undoes it, until the next
  refresh (`crossed` in ImageIndex).
- `clear_errors` without `errors` clears nothing; `update_last_seen` looks up the
  skew of heartbeats by `SiteData.c.id` instead of the site.

## 7. What is not modelled

Sizes and times other than those above, the contents of files and signatures,
simplestreams parsing, HTTP parsing, sorting, pagination and error texts,
metrics, heartbeats, settings, the command line but for the creation of users,
the frontend. What an option of a site's configuration means is data. Sessions
by OIDC cookies (`oidc_authenticated_user`, the refresh and the cache of tokens)
are used by no route. Bootloaders are assets with a subarch and differ in the view
by that column alone. A database failure is a rollback. No request locks the rows
of two sources, so deadlocks between them do not arise. Temporal, S3 and
PostgreSQL are taken at their documented behaviour: a schedule exists once, a
workflow id runs once, an object appears when its upload completes, a
transaction reads what has been committed (READ COMMITTED).

## 8. Plan

Done: the modules of section 2, and a theorem for each safety property that a
passing run checks. Left, in this order:

1. OIDC sessions, when a route comes to use them.
2. Compositions: a sync of Selections with the downloads of ItemDownload, so that
   a selection is stored in the end; ImageRetention over the steps of ImageIndex.
