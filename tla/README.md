# WaterMenu: a formal model

WaterMenu is a family menu: a React client, a NestJS backend over PostgreSQL
and an uploads directory, and shell scripts that deploy both on one host. This
directory holds TLA+ modules of the parts of it that are hard to test, the TLC
configurations that check them on small instances, and TLAPS proofs of what
holds for every size. `PROJECT.json` maps every definition to the lines it
stands for and lists hazards, runs, mutants and theorems. Paths below
are relative to the repository.

## 1. The system

| Part | State | Operations | Talks to |
|---|---|---|---|
| Dish images (`backend/src/dish-images`) | rows of `dish_images`, files in the uploads directory | upload, setCover, delete, list, getFile | PostgreSQL, file system |
| Invitations (`backend/src/invites`) | `workspace_invites`, `users`, `workspace_members` | create, revoke, accept, list, preview | PostgreSQL, clock |
| Dishes, variants, recipes, meal records, feedback | the tables of those names | create, update, delete (records), upsert (feedback) | PostgreSQL |
| Recommendations | none | recommend, pickBlindBox | reads dishes, records, feedback |
| Sessions and authentication (`backend/src/auth`, `session`) | session store, cookie | login, logout, me, the guard in front of every handler | every request |
| Query cache of the client (`frontend/src/api`, `hooks`) | TanStack Query cache, `/auth/me`, tab, panel | queries, mutations, invalidation, the global 401 handler | the backend, by HTTP |
| Feedback card (`components/recent-meal-records.tsx`) | feedback shown, rating shown, mode, draft of the note | rate, save or drop a note, edit, delete | record lists, feedback requests |
| History panel (`components/history-records-panel.tsx`) | page, merged records | next page, filter, back to page 1 after an own change | the paged query of records |
| Home page, dialogs (`pages/home-page.tsx`, `components/modal.tsx`, `hooks/use-scroll-lock.ts`) | results of two mutations, open panels, style of the body | recommend, blind box, reset, open, close, Escape | recommendations, every panel |
| Image upload (`hooks/use-image-upload.ts`) | chosen file, prompt, compression and upload under way | choose, compress, send anyway, cancel, try again | dish images |
| Forms of a meal record (`components/*meal-record-form.tsx`, `dish-autocomplete.tsx`) | chosen dish and variant, search text | search, pick, make a dish, send | dishes, variants, meal records |
| Deployment (`scripts`, `docker-compose.prod.yml`) | image tags, containers, schema of the database, dumps, `.last-deployment` | deploy, rollback, backup, restore | docker, PostgreSQL |
| Members, health, schema/seed, presentation, proxy, `.trellis` tooling | see `PROJECT.json` | read only, configuration, or beside the program | |

What makes it hard:

* **Handlers interleave at every `await`.** Node runs one handler at a time
  only between two awaits. Most handlers look for a row, decide, and write by
  id in a later statement. Only two services use transactions, at READ
  COMMITTED, where each statement sees what others have committed meanwhile.
* **Two stores without a common transaction**: files and rows of images;
  image tags, a record file and the database of a deployment; the session
  store and the cookie.
* **Faults**: the process dies between two awaits, a disk write fails, a COMMIT
  is carried out but its answer lost, a shell command fails under `set -e`.
* **Answers arrive out of order** in the client: a read from before a mutation
  after it, a 401 for an old session after a new login, a list from before a
  rating after its answer, pages of a list at different times.
* **Components come and go while their requests run**: callbacks given to
  `mutate` are dropped with the component, those of a hook are not; a
  compression ends for a panel that is closed, or closed and open again; the
  answer to one form arrives when the next one is open.
* **Local copies of server data**: the card, the panel's merged list, the chosen
  dish and variant are copied into `useState` and brought up to date by effects.
* **Global state shared by nested parts**: every dialog saves and restores the
  style of the body, and every dialog hears Escape.
* **Locks and unique indexes** make requests wait for one another, in orders
  that can form a cycle.
* **Time**: an invitation expires while a password is hashed; recent meals are
  judged by the day.

What makes each part correct: every listed image can be served and no file is
lost silently, at most nine images and one cover; an invitation lets in one
account, in time, and none once it is revoked; rows of one workspace never refer
to another's, one feedback per user and record, errors only for requests that
were overtaken; users read their own writes, see their own data and are not
thrown out; a card comes to show what the server has, keeps the note with a
rating and a draft through everything but its own end; merged pages hold no
record twice and are the list once all are fresh; a recommendation is not older
than the last own change; the page scrolls exactly when no dialog is open; a
photo is sent once and its input can be used again; a form records what was
picked, and only its own record closes it; a deployment that reports success
runs what is checked out, and a rollback finds its images.

## 2. The modules

| Module | Models | Abstract specification |
|---|---|---|
| `DishImages` | `DishImagesService`, statement by statement | `Gallery`: pictures and one cover, each operation atomic |
| `Invites` | `InvitesService`, statement by statement | `Tokens`: invitations as single-use tokens |
| `Deploy` | the deployment, rollback, backup and restore scripts with the compose file | |
| `Client` | one browser tab, its cookie and cache, with the sessions of the backend | |
| `Catalog` | dishes, variants, recipes, meal records, feedback, recommendations | |
| `FeedbackCard` | one card of the record lists, its list and its requests | |
| `History` | the history panel over a paged list that changes meanwhile; its state and invariants are `HistoryState` | |
| `Home` | recommendations on the screen, dialogs and the scroll lock | |
| `Upload` | a photo from the input to the backend; its state and invariants are `UploadState` | |
| `RecordForms` | the two forms that record a meal, with the search for a dish | |
| `MC*` | constants and symmetry for TLC | |
| `*Proofs` | the theorems, one module per component; `HomeProofs` also has those of `Upload` and `History` | |

`DishImages` implements `Gallery` and `Invites` implements `Tokens` through
`INSTANCE ... WITH`, checked as a property and proved. The components meet in
few places: a session's workspace (`Home` in `Catalog`, `Accounts` in
`Client`), and the change counter of `Client`, which stands for any statement
of the other services that commits. They are composed only this far; their
tables are disjoint. The five modules of the screen rest on the rules of
`Client`: they use the same fetch (`sent`, `read`, answered), the same
invalidation, which cancels a running fetch unless nothing was loaded yet, and
observe its consequences for one component each. What they send is elsewhere:
the feedback of `FeedbackCard`, the records of `History` and `RecordForms` are
requests of `Catalog`, the stored photo of `Upload` one of `DishImages`, and the
prompt of `Upload` is one of the dialogs of `Home`. Each has the other side as
one atomic step, which `Catalog` and `DishImages` justify or refute: an upsert
is one statement in its effect (`OneFeedbackEach`), an upload that is answered
has its row and its file (`RowsHaveFiles`).

### DishImages

Actions are named by the step of the handler: `StoreFile`, `CountRows`,
`InsertRow`/`CommitUpload` and `CleanUp` for upload; `FindForCover`,
`BeginClear`, `ClearOne`, `CommitCover`, `CoverGone` for setCover;
`FindForDelete`, `DeleteRow`, `FindNextCover`, `PromoteNext`, `Unlink` and the
`...Gone` variants for delete. `held` are row locks: `updateMany` of setCover
updates row by row and waits for rows that others have locked; a statement that
has waited checks its condition on the new version of the row. `Deadlocked` and
`DeadlockVictim` are PostgreSQL's detector. Faults are a constant set
(`crash`, `disk`, `ack`) with a bound.

One dish is enough, because every statement is confined to one dish. The number
of covers is not bounded by the number of requests: that is why no run claims a
bound on it under races. The history variable `lost` holds the uploads whose
COMMIT was carried out and not answered. `RoomForCounted`, `Ownership`, `PromotesAnother` and
`ReadsHold` are parts of the inductive invariants of the proofs.

### Invites

`create` counts and inserts, `revoke` finds and marks, `accept` is a
transaction of user, membership and a conditional mark, with the roll-back of
the first two if the mark meets no row. The unique index on e-mail addresses
makes an insertion wait for another transaction that holds the address. A date
taken by the server and the statement that carries it are separate steps, so
that hashing and waiting take time. The clock never runs backwards. One
workspace, one role: roles are never changed, and only administrators pass.

### Deploy

Each command whose failure leaves a different state is a step; `Stop` ends a
script after any of them. A version is its image and the migrations it brings.
Simplifications, stated in the module: one script at a time, with commands by
hand between the scripts (`Pull`, `UpByHand`, `TagByHand`); `docker compose ps |
grep running` finds a postgres that runs; a dump is the version of its schema;
a container that is healthy stays so until something is done to it.
The model has the two image names apart (`watermenu-frontend`, which the
scripts save, and `watermenu-nginx`, which compose builds). `certs` says whether
the certificates are in `deploy/certs`, which the operator changes at any time
(`Certify`). `up -d` waits for the backend, not for nginx: a new nginx container
that finds no certificates exits, and is restarted until it finds them
(`NginxRestarts`, `loaded`). The script offers to go on without certificates and reports
success unchecked with `--skip-health-check`, so `SuccessServesHead` speaks of
pages only for runs that checked; for all runs it says which containers there
are, and that the backend works, since `up -d` fails otherwise.
`RecordNamesProven`, that the record names a version that has once been
healthy, is defined but not claimed: it does not hold after a failed deployment
is followed by another.

### Client

The state is the session store (`owner`, `live`), the cookie, `auth.user`
(`shown`, `known`), tab and panel, and per query the cached answer and the
fetch that counts. An answer is abstracted to whose data it is and to the count
of commits at which it was read: it shows a change exactly if it was read after
it. The rules of TanStack Query the code relies on are external definitions:
data is stale at once (but for the prefetch of recent meals, whose cards
observe the same images without a stale time), a refetch by invalidation
cancels the running one unless nothing was loaded yet, mounting and
reconnecting join it, `setQueryData` cancels nothing. One key per family, one
dish for all, one logout at a time; the inline variants of a card are those of
the panel. A reload is not a step: `Init` covers every cookie and session it
could find. Another tab appears only as a login there (`TakeOver`).

The properties have exemptions, each a ghost variable (`joined`, `taken`,
`overtook`), because the code cannot promise more: dropping any of them makes
the property fail. `Promised` leaves the table of dishes out of what record
lists promise, because no hook invalidates them when a dish changes.

### Catalog

Handlers of several workspaces over six tables, with only single statements
atomic. The workspace, the links between rows, activity, the day of a meal and
the ratings are kept; names, texts and notes are not, so that a 409 for a name
may always happen and the update of a recipe is no step. An upsert is one
statement or a search and a write, as Prisma may send it. Identities are never
reused (`gone`). The recommendation reads dishes in one statement and records
with their ratings in the next; `TopSets` are the answers that the order by
score and ties allow, and the blind box may draw any candidate, since every
weight is positive. An empty answer given at once is left out. `raced` is a
ghost: another request has deleted the record, or rated it for the same user,
since this one has begun. `switched` is another: the dishes that have come on
offer or gone off it between the two reads of a recommendation.

### FeedbackCard

The card of `recent-meal-records.tsx`, in the list of recent meals or in the
history panel. `fb` and `rec` are the rows; `list` and `fetch` are the query;
`current`, `selected`, `mode`, `note` are the `useState`s of the card; `ups` are
the requests on their way with the closure each was sent from (`base`), and
`own` is the one whose callbacks the mutation observer still calls: a second
`mutate` takes it over. The effect of line 133 is part of every step that
changes the list (`Refill`), and so is the key of the edit form (`Rekey`).
`Elsewhere` writes from other devices, `ListFails` and `Reconnect` are the
outage. A write of the feedback is identified by its number, as `updatedAt` does
for React. The ghost `crossed` marks that a newer feedback was read while a
request was pending: its answer, or the old rating its `onError` puts back, then
overwrites what is newer, so `CardKnows` cannot be promised. `saw` and `clean`
record what a request was sent in view of: a rating keeps the note exactly in
this case, and not on a list from before the note was saved.

### History

One setting of the filters, with its queries per page. `FirstPages` and
`Answer(p)` are `MealRecordsService.list`; the table changes between two pages,
by the user (a card or the manual form) or by others. The effects of lines 64
and 82 run with the step that changes the observed data. A record is its place
in the order, the newest meal first, and the change that wrote it last. So the
items of an answer are a function from places to changes, and `Listed` puts
records in their order (`InOrder`), once in `Fill` for page 1 and once for what
`Merge` appends; only the list on the screen is a sequence, since only its order
depends on what was merged when. Three ghosts are the exceptions: `mixed`, an
answer from before that of page 1 was merged; `joined`, the observed answer is
that of an older fetch; `kept`, the list was emptied by `resetPage` while
neither page nor answer changed, so that no effect fills it again: the panel
says that nothing was found. `BlankOnlyIfKept` says that this is the only way.

### Home

`stack` has for each dialog whether it is open, the open ones it was opened over
(`under`), and the style its lock has saved; a dialog that goes is taken out of
every `under`. `CleanUps` restores the styles in the order in which React runs
clean-ups (`Rank`), and `Render` is one render that removes some dialogs and
adds at most one. The guard of every action is what the page renders and what
covers it: a covered button cannot be pressed, but Escape reaches every dialog
(`Escape`), and an answer closes what its callback closes. Ghosts: `together`,
two dialogs were closed by one render, or not the last one first; `bared`, one
was closed under another that stays. The image preview of a card is taken to
cover the whole page. Answers of recommendations are abstracted
to how many of the user's changes they know; `Reset` is `resetRecommendations`,
which also drops a request that runs.

### Upload

`HandIn` is the decision of `handleFile` by size and by whether the browser can
compress the file. `jobs` are compressions and uploads, which outlive the
component: `mine` says whether the one on the screen began them. `Close` and
`Open` unmount and mount the host (a panel that can retry, or a gallery that
cannot). `StoredOnce` counts photos against those handed in.

### RecordForms

The form of the history panel, whose dish is searched or made, and the dialog of
a dish, whose variant is chosen, one after the other. `list` and `vlist` are the
two queries, `form` the fields, `create` the dish that is being made, `subs` the
records on their way. A search finds the dish of that very name and a dish has
one variant; time, meal type, note, focus and the opening of the list are left
out. Ghosts: `meant` is what the user picked, or asked to make, last; `astray`,
that the form holds another dish, because the list lacked a dish when its name
was typed over, or because the answer to a creation came later; `gone`, that
the chosen variant has left the list; `made` and `kept` what was made and
stored for this form.

Two idealisations: `isPending` is taken as visible at once, where the code goes
through the resolver of the form and a render first, so that a second click
within that gap, which makes a second record, is outside the model; and at most
one creation of a dish is on its way, across forms.

## 3. The runs

| Run | Bounds | What it shows |
|---|---|---|
| `images_race` | 2 requests, 4 uploads, limit 2, 1 crash or disk failure | `RowsHaveFiles`, `FilesAccountedFor`, `LimitWithinRace`, `OnlyDeleteLosesCovers` under races |
| `images_serial` | 1 request, 4 uploads, limit 3, 2 faults of any kind | one request at a time implements `Gallery`, with `OneCover` |
| `images_live` | 2 requests, 2 images, 2 faults of any kind, `FairSpec` | every request ends, deadlocks included; a row without a file is one whose own COMMIT was not answered |
| `invites_race` | 2 requests, 3 invitations, 2 addresses, limit 1, 2 ticks, `FairSpec` | one account per invitation, in time, none after revocation; `Tokens` implemented; requests end |
| `deploy` | 3 versions, one broken, 3 deployments, 1 kept image and dump, certificates and everything by hand | the record can be restored, a success is of what is checked out and serves if it was checked, only a restored dump outdates the schema |
| `client` | 2 accounts, 2 sessions, 1 query, 1 mutation, 3 tabs, 1 panel, 1 outage | read your writes, own data, nothing left after logout, thrown out only by old answers |
| `catalog` | 2 users in 2 workspaces, 2 requests, 2 dishes, 1 variant, 1 record, limit 1, 2 days | workspaces apart, one feedback each, errors only from races, recent dishes last, praise never hurts |
| `card` | 2 ratings, 1 note, 2 requests, 2 writes, 2 versions of the record | the card comes to show what the server has, a rating keeps the note, a draft survives, an edit starts from what is shown |
| `history` | 3 records, pages of 1, 2 pages, 2 changes | nothing twice, fresh pages are the list, blank only if kept so, own changes shown |
| `home` | 2 changes of the user, all five kinds of dialogs | locked behind an open dialog, unlocked after closing in order, recommendations not older than the last change |
| `upload` | 2 jobs at once, 3 photos, fair ends of jobs | what is shown is what runs, a photo is stored once, none too large is sent, the input can be used again |
| `forms` | 2 dishes, 2 records on their way, 2 forms, 1 change by others | what is recorded was picked, variants sent are listed, only its own record closes a form |

Why the bounds are enough. A race in this code is between two requests: each
holds what it has read while the other writes, and a third adds no new kind of
step; where the count of requests matters (the overrun limits) the bound is a
formula in `Cardinality(Requests)` and proved. The limits are as small as
leaves a case below, at and above them. Four uploads let images be deleted and
replaced. Three versions are the one before, the failed one and the next. One
query family with one change covers the client's fetches against mutations,
because families share no state; the theorems are for all. A `Limit` of one of
two dishes is the smallest list from which a dish can fall. The clock needs one
tick past the expiry.

On the screen: the observer of a card's mutation follows one request at a time,
so two slots hold the one it follows and one it has left; two writes let one
overtake the other, and the theorems are for any number. Two pages of one record
each are the smallest list that shifts under its reader, and three records leave
one beyond them. The dialogs of `Home` are all there are. Two uploads are one
begun before the panel was closed and one after; three photos leave one to be
handed in when both slots have been used. Two forms are the closed one, whose
answer is late, and the next.

Deadlock is checked wherever requests can always begin. It is off in the runs
of `Deploy` and `Client` and in the five of the screen, where the bounds on
runs, sessions, outages, writes, photos and forms are used up. Symmetry is over
images and requests, accounts, in `Catalog` over requests, dishes and the two
users exchanged together with their workspaces, in `FeedbackCard` over ratings
and slots and in `RecordForms` over names and slots: the specifications tell
none of them apart. It is not used in runs with liveness.

### Refuted promises

Six configurations are not among the runs: TLC finds the one property of each
violated, which a document, a comment or a test states and the code does not
keep. They stay as reproductions, each to be run on the module it is named for
(`MCDishImages` for the first two).

| Configuration | Property | What the code does | What is promised |
|---|---|---|---|
| `DishImagesOldest.cfg` | `PromotesOldest` | `sortOrder` is the number of rows at the upload, so after deletions a new image sorts before an older one (`dish-images.service.ts:89`) | the oldest remaining image becomes the cover (`deploy/README.md:178`) |
| `DishImagesNoCover.cfg` | `DeleteKeepsACover` | `isCover` is read before the transaction that relies on it (`dish-images.service.ts:121`): a deletion that races a change of cover leaves none | when the cover is deleted and images remain, another becomes it (`deploy/README.md:178`) |
| `InvitesRevoke.cfg` | `RevokesOnlyUnused` | `revoke` marks by id what an accept has used since the search (`invites.service.ts:88`), and reports success | only unused invitations can be revoked (`backend/test/members-invites.e2e-spec.ts:305`) |
| `DeployBackup.cfg` | `DumpsBeforeMigrating` | step 0 has stopped postgres before step 5 looks whether it runs (`deploy.sh:70`, `:190`) | a dump before each deployment (`scripts/DEPLOYMENT_AUTOMATION.md:11`) |
| `DeployRollback.cfg` | `FailureRollsBack` | the script looks for an image no build produces (`deploy.sh:213`) | a failed health check after an upgrade rolls back (`.trellis/spec/deployment.md:631`) |
| `HomeNested.cfg` | `UnlockedWhenClosed` | Escape, or the answer to a record, closes two dialogs at once; the inner one restores the lock of the outer one, and the page stays locked | nested dialogs unlock when all are closed (`use-scroll-lock.ts:5`) |

## 4. Fairness

Safety runs assume none. `DishImages!FairSpec` and `Invites!FairSpec` are
strongly fair in each step of a request that has begun: the event loop resumes
every handler whose answer has come, and PostgreSQL queues those who wait for
a row or an index entry, so that one who can proceed again and again does.
`DishImages` adds weak fairness of the deadlock detector (`deadlock_timeout`).
Nothing makes a client call, a fault happen or a transaction fail. `Upload` is
weakly fair in `Proceeds(s)`: the browser ends a compression, by its result or
by an error, and a request by its answer or its failure; nothing makes the user
choose, confirm or close. `Client` has
no liveness property: without polling or a refetch on focus nothing makes an
idle tab learn anything.

## 5. The proofs

TLAPS proves these for every value of the constants under the named `ASSUME`
of the module (finite sets of requests and rows, positive limits, a `None`
that is nothing else). Faults, interleavings and the number of requests are
unbounded in them.

**DishImages** (`DishImagesProofs`). `TypeInv` strengthens the types.
`ListedImagesAreServable` needs `Ownership`: an upload in flight owns its
identity, and whoever is going to remove a file finds no row for it; with it
every step that adds a row has a file, and every one that removes a file has no
row. It assumes that no COMMIT answer is lost (`"ack" \notin FaultKinds`).
`NoSilentOrphans` charges each file without a row to a request or a fault.
`RacesOverrunLimitByRequests` counts rows together with uploads past their
count (`RoomForCounted`). With one request, `SerialInv` adds `ReadsHold`,
and gives `SerialLimit`, `SerialRequestsKeepOneCover` and the refinement
`SerialRequestsAreAtomic`; the last holds under every fault, since the gallery
speaks of rows. `OnlyDeletesLoseCovers` holds for any number of requests: a
change of the cover that clears the last one sets its own in the same commit,
and a first image comes as the cover. `DanglingRowsCostTheirAnswer` is without
the assumption on lost answers: `AtRisk` are the rows whose file is gone or about
to be removed by a clean-up, and by `RisksCharged` each is in `lost`. Nothing
else puts a row at risk, neither a crash nor a full disk, because uploads in
flight have identities of their own (`UploadsApart`).

**Invites** (`InvitesProofs`). `Consistent` says that an inserted but
uncommitted user has an address nobody else has or waits to commit; from it
follow `OneAccountEach`, `InvitesAreSingleUseTokens` (the refinement of
`Tokens`), `RevokedStaysClosed` and `NoUseAfterExpiry`.
`RacesOverrunPendingByRequests` and `SerialPendingLimit` count creations past
their count.

**Deploy** (`DeployProofs`). `RollbackFindsImages` and `SuccessIsHonest` rest
on which tags a run has written at each place of the script (`Named`, `Built`),
the second also on what a health check has seen: a later `up -d` by hand finds
both containers on their images and leaves them;
`SchemaFollowsBackend` on one step; `NothingIsEverRecorded` shows that without
a tag made by hand (`NoFrontend`) the record a rollback needs is never written.

**Client** (`ClientProofs`). `NothingIsLeft`, `OwnDataOnly`, `OnlyOldAnswers`
and `ReadYourWrites`, for any number of families, mutations, sessions and
outages. `OwnInv` follows whose session each fetch was sent with; `StaleInv`
relates the count of commits at which a running fetch will be read to the last
acknowledged change of each table; `PromisesKept` is the fact about
`Invalidates` and `Reads` it rests on, by cases on the families.

**Catalog** (`CatalogProofs`). `Held`: what a request has found stays in its
workspace (`Kept`), whatever others do; so `WorkspacesStayApart`, though the
check and the write are two statements. `FeedbackIsUnique` from the unique
index. `ErrorsComeFromRaces` from `Undisturbed`: a request that is not raced
still sees what it has seen. `RecentDishesAreLastResort` from `ListedHolds`: what a recommendation
has read is what is on offer when it is computed, but for `switched`; so what it
decides on the dishes it has read holds of the tables it is answered from. `PraiseNeverHurts` from the
monotonicity of the score: `PraisedRatings` says which sets of ratings grow and
shrink (with `Isolation`, because the row that is replaced must have been
counted for the same dish), and finite cardinalities do the rest.

**FeedbackCard** (`FeedbackCardProofs`). `CardIsConsistent`: `KnowInv` says that
whatever was read is the row or older (`ReadInv`), and that a card which was not
crossed shows the list's feedback or a newer one of its own, with the rating of
that or of the request it waits for (`ShowInv`); so once list and server agree,
so does the card. `EditsWhatIsShown` follows from the key of the form, step by
step. `RatingsAndNotesSurvive`: a request that was sent in view of the row
carries what the row has (`Carries`). `DraftsAreKept` by cases on the steps.

**Home** (`HomeProofs`). `RecommendationsAreFresh` from `FreshInv`: an answer is
fresh from the moment it is computed, since being told of a change resets both
requests, also one that has been answered and not yet arrived.
`LocksAreConsistent` from `DialogInv`: by `LocksInv` a dialog that lies over
another has saved the lock (unless `bared`), and one that lies over none has
saved the style of a free page (unless `together`), so that whichever clean-up
of a render is the last restores what the rest needs. `ShownInv` ties the open
dialogs to the state they are rendered from; it is what excludes a panel that
goes without its prompt.

**Upload** (`HomeProofs`, as `Photo`). `PhotosStayInOrder`, for any number of
jobs and photos. `PhotoShown`: at most one job was begun by the component that
is on the screen, and `compressing` and `pending` name exactly this one, however
many of an earlier mounting still run. `PhotoCount` counts a photo as stored, in
flight or asked about, so that the end of a job moves it and never copies it.

**History** (`HomeProofs`, as `Past`). `PagesStayConsistent`, `NothingIsHidden`
and `OwnChangesStay`, for any number of records, pages and changes, by one
invariant, `HistoryInv`. `TableInv`: the user's answered changes are no newer
than their rows. `AnswersInv`: whatever was read at change `n` has each record
of its page as it was then, and is the answer of today if nothing has changed
since. `ListInv`: the observed page is the only one that is fetched, the pages
before it are in the cache, and page 1 alone is its answer. `MergedInv`: a list
of several pages that is not `mixed` is what the table has on the pages it holds
as long as page 1 is of today, and never older than an own change. The merge
rests on two lemmas: merging a page into the list of disjoint others appends it
in order (`MergeOfListed`), and consecutive pages are one list (`PagesJoin`).
Both speak of ranks, how many records come before one, so that no induction over
sequences is needed. `TimelyInv` and `BlankInv` follow the fetch of page 1:
structural sharing hides an answer equal to the one before, so what makes an
emptied list fill again is that the next answer differs in a record the user has
changed. TLC has checked `HistoryInv` on the instance of `history` and on one with
3 pages.

The last two are parts of the page. Modules of steps cannot be extended together,
since each has its `Init`, `Next` and `Spec`, so their state, assumptions and
invariants are modules of their own: `HomeProofs` extends `UploadState` and
`HistoryState`, and reaches the steps by `INSTANCE`. An instance brings a copy of
every definition, and `SamePhotoProperties` and `SamePastProperties` carry what
is proved of the copies to the invariants the runs check.

**RecordForms** (`RecordFormsProofs`). `FormsAreConsistent`,
`WhatWasPickedIsRecorded`, `VariantsSentAreListed` and
`FormsCloseByTheirOwnRecord`, for any number of names, forms and records.
`SubInv`: at most one request is the form's own, and `kept` is one exactly while
it is stored and not yet answered. `DishInv` and
`VariantInv` relate the fields to what was meant and what is listed; `MadeInv`
follows a dish from its creation through the invalidation to the list.

The type invariants and the strengthenings (`Ownership`, `PromotesAnother`,
`RoomForCounted`, `ReadsHold`, `LimitHolds`, `Consistent`, `SubInv` and the
like) are proved and named by no run, except where a run checks a conjunction of
which the types are one part.

Every invariant and every other action property of the runs is stated by a
theorem. Only model-checked:

* liveness (`RequestsEnd`, `NobodyWaitsForever`, `BusyEnds`), which is out
  of the prover's reach under fairness;
* the refuted promises, which are counterexamples.

## 6. Not modelled, and why

* Reading handlers (members, health, single rows): they change nothing. The list
  of records is in `History`, that of dishes and variants in `RecordForms`.
* The guard's repair of a session without a workspace, and the save of a
  session at the end of its request: they need sessions whose content is read
  and written back, which `Client` has as existing or not. Login by password is
  a refusal that may happen.
* The panels of recipes and inline variants and the form of a dish: fields
  between opening and submitting, with no answer that changes them. Their
  requests are steps of `Client` and `Catalog`, their opening and closing is in
  `Home`.
* The filters of the dish list, and which records a filter lets through.
* The invitation page: a form in front of `accept`, and a fresh load after it.
* What migrations do to rows; pre-checks, swap and log files of the scripts;
  the development scripts; the `.trellis` tooling, which is beside the program.
* Wording, layout, formats, validation of fields, image decoding, progress bars,
  focus and the arrows of the preview.

## 7. Plan

Done, in this order: `DishImages` with `Gallery`; `Invites` with `Tokens`;
`Deploy`; `Client`; `Catalog`; their proofs; `FeedbackCard`, `History`, `Home`,
`Upload`, `RecordForms`; the proofs of `FeedbackCard`, `Home`, `RecordForms`,
`Upload` and `History`.
What could still be added:

1. Sessions with a content in `Client`: the guard's repair racing a logout.
2. The number of whole dumps kept by `CleanUp` after failed dumps, in `Deploy`,
   and a second operator at the same time.
3. The form of a dish with its first image.

## 8. Running it

    tlc -config <run>.cfg <module>.tla      # the module of each cfg is in PROJECT.json
    tlapm <Module>Proofs.tla

The longest run, `forms`, takes two to three minutes; the proofs a few minutes
each.
