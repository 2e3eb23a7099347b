# Snowboard Trip Advisor: TLA+ specifications and proofs

The repository has two apps over one pile of files. The **public app** is a static site
that reads `data/published/current.v1.json`; a reader's shortlist lives in the address and
in `localStorage`. The **admin app** is a React front end and a set of Vite-middleware
handlers in one local Node process; analysts edit resorts and notes in it (autosaved), and
publish. This directory holds TLA+ models of the stateful parts of both, the TLC runs that
check them, and TLAPS proofs.

Paths below are relative to the repository. In the tables `admin/` is `apps/admin/`, `public/` is
`apps/public/`, `schema/` is `packages/schema/src/`.

## 1. Inventory

| Component (code) | State | Operations | What must hold | Here |
|---|---|---|---|---|
| Publishing (`schema/publishDataset.ts`) | lock file, counter, `history/`, `current.v1.json` | validate, lock, allocate a counter, write archive, write current, unlock | one writer; numbers unique; what is served is archived; a confirmed version survives | `PublishDataset`, proved |
| Workspace API (`admin/server/{workspace,resortUpsert,analystNotes}.ts`) | `data/admin-workspace/<slug>.json`, `slugLocks` | PUT resort, PUT note, under `withSlugLock` | arrival order; no lost update; provenance moves with the value; the lock map is cleaned | `WorkspaceServer`, proved |
| Note autosave (`admin/src/state/{useAnalystNoteDraft,flushAll}.ts`, `admin/src/views/ResortEditor/AnalystNoteSection.tsx`) | per path: draft, lastSent, status, revision, timer, controller; caches | type, delete, debounce, flush, settle, abort, flush-all | `saved` means stored; nothing stuck; a deletion stays deleted | `NoteDraft`, proved |
| Resort draft autosave (`admin/src/state/{useWorkspaceState,useModeToggle}.ts`, `admin/src/views/ResortEditor/FieldRow.tsx`) | per resort: draft, lastSentDraft, statuses, revision, timer, the PUT in flight; per row: local text | type, switch mode, clear, debounce, flush, settle, abort, re-render | `saved` means stored; no edit dropped by an old answer; no answer changes what an input stands for | `ResortDraft`, proved |
| Publish handler and history (`admin/server/{publish,listPublishes}.ts`, `admin/src/state/usePublish.ts`, `admin/src/views/PublishDialog.tsx`) | files; hook status; dialog | compose file by file, merge, stamp, validate, publish, list | what ships was held by the admin during the call; nothing dropped; one publish per confirmation | `PublishFlow`, `AdminApp`, proved |
| Admin reads (`admin/server/{listResorts,resortDetail,health}.ts`) | none | projections of the files | they agree with each other, with the publish and with the public loader | `ResortViews`, `PublishFlow`, proved |
| Admin read caches (`admin/src/state/use{Health,ResortList,ListPublishes,ResortDetail}.ts`) | in-flight maps, generations, Suspense cache | mount, join, cancel, invalidate, settle, retry | no view stuck loading; no older list after a publish | `AdminApp`, proved |
| Admin shell, routes (`admin/src/{App.tsx,lib/urlState.ts,lib/shortcuts.ts,state/useURLState.ts}`, `admin/src/views/{Shell,ResortsTable,ResortEditor,PublishHistory}.tsx`) | address, history | navigate, Back, filter, turn page | what is mounted is what the address says | `AdminApp`, proved |
| Admin dispatch (`admin/server/dispatch.ts`, `admin/vite-plugin-admin-api.ts`, `admin/src/lib/apiClient.ts`) | none | routing, parameter check, error codes | each request reaches its handler | `AdminApi`, through `AdminApp` |
| Public shortlist and URL state (`public/src/state/{useShortlist,useURLState}.ts`, `public/src/lib/urlState.ts`, `public/src/views/{cards,detail,FilterBar,ResortCard,ViewToggle,MergeReplaceDialog}.tsx`, `public/src/views/cardsSelectors.ts`, `public/src/views/states/NoResorts.tsx`) | address, session history, `localStorage`, bootstrap and mirror memory, price bucket | star, open, close, filter, sort, merge/replace/keep, reload, Back, another tab | a reload asks nothing; the newest star stays; Back reopens no closed drawer; no filter is a dead end | `PublicApp`, proved |
| Public dataset fetch (`public/src/state/useDataset.ts`, `public/src/lib/datasetFetch.ts`, `public/src/App.tsx`, `public/src/views/states/DatasetUnavailable.tsx`) | one cached promise, the lazy chunks, error boundary | load, settle, Retry | Retry recovers | `PublicApp`, proved |
| Validators, view models (`schema/{validatePublishedDataset,resortView,loadResortDatasetFromObject}.ts`) | none | pure | as for the admin reads | `ResortViews` |
| Toast, drawer (`packages/design-system/src/components/Toast.tsx`, `packages/design-system/src/primitives/Drawer.tsx`) | timer; dismissal | show, suspend, resume, expire | the toast is up for its time | `AdminApp`, `PublicApp`, proved |
| Markdown, integrations, build, CI | – | – | – | not modelled, see section 6 |

**How they interact.** The autosave hooks send PUTs to the workspace API; each PUT rewrites
one JSON file per resort. `POST /api/resorts/__all__/publish` reads all workspace files
*without* the slug locks, lays them over `current.v1.json`, and calls `publishDataset`,
which writes the new `current.v1.json`. That file is in turn the base onto which a first PUT
of a resort is merged, and what the list, detail and health handlers fall back to. The
dialog that starts a publish decides by the health page's counts; its success invalidates
the publish history every mounted view shares. The public app only reads the served file.

**What is hard.** Several processes may publish (the admin server and the command line); a machine
may stop between any two file operations; async handlers of one Node process interleave at every
`await`; answers reach the client late, aborted or not at all, while the analyst keeps typing or
navigates; two tabs share one storage; a click behind the drawer is handled before or after the
drawer's dismissal, depending on the pointer; one decision is taken by several pieces of code.
`PROJECT.json` lists each such place with its line under `hazards`, and the property that covers
it.

## 2. Modules

```
PublishLog     <== PublishDataset      <- PublishDataset_proofs
WorkspaceStore <== WorkspaceServer     <- WorkspaceServer_proofs
     \              /
     WorkspaceMerge <- ResortDraft     <- ResortDraft_proofs <- ResortSync_proofs
                       NoteDraft       <- NoteDraft_proofs
ResortViews         <- PublishFlow     <- PublishFlow_proofs
AdminApi            <- AdminApp        <- AdminApp_proofs
ShareableUrl <- CardsGrid <- PublicApp <- PublicApp_proofs
```

`A <- B`: B extends A. `A <== B`: B implements A, by a refinement mapping that is model-checked
and proved. Each `MC*` module gives small values to the constants of the module it extends.
Definitions commented "Mutant:" are wrong variants of the definition after them; they are not
part of any `Next`. They document which mistake each property would catch, and
`PROJECT.json` pairs them with the property.

**PublishDataset**: one action per file operation. `pc` says where a call is: `open` (the
`O_EXCL` spin loop), `read` (counter), `stage`, `rename`, `syncdir` for each `target` (the
three calls of `atomicWriteText`), and `unlock` or `fail` (`finally`). Every file has two
copies, what processes see and what a power loss would leave (`...Dur`). `Crash` kills one
process, `PowerLoss` all and picks for every entry not yet synced its old or new state,
`IOError` throws in any operation of the body; a failing unlink is swallowed as in the code.
`RemoveStaleLock` is the operator doing what no code does. `PublishLog` is the promise without
locks and files: numbers only grow, only the newest archive starts being served, a confirmed
version is never taken back.

**WorkspaceMerge, WorkspaceStore, WorkspaceServer**: the pure part is
`mergeResort`/`mergeLiveSignal`, the note patch, `assertProvenancePairing`, and the order of
the verdicts. A metric is a value and the `upstream_hash` of its provenance entry; a body that
replaces a parent key (`altitude_m`) lists all its leaves, as the handler's shallow merge sees
it. `slugLocks[s]` is the request whose promise the map holds, `prev[r]` the promise `r`
chained on; file and current are read in either order, a write may throw before or after its
rename, and `Restart` loses promises and map but not files: a handler that was writing has
renamed its file or has not (`Landing`). Rename, directory sync and reply of a write that succeeds
are one step, since the next handler of the resort waits for the reply and a restart or a failure
in between has its own step. `WorkspaceStore` is the promise: a PUT
is judged and merged at one instant.

**NoteDraft**: one record per note path, after `NotesPathState`. `flights` are the PUTs whose
promise has not settled. `inbox` is what the server has still to apply: aborting does not
remove a PUT from it; it may be applied or `Vanish`. `fulfilled` and `latest` are the response
cached by `useAnalystNotes` and the mirror a render refreshes.

**ResortDraft**: a draft, a sent draft and a body have the same form, after `DraftShape`.
`Parent` gives a field's top-level key, so `altitude_m.min` and `.max` are siblings:
`PatchLeaf` takes the other leaf from the cached resort, `Diff` sends whole parents but only
the sources of leaves that changed, `ClearLeaf` drops the parent. `flight` is the only PUT in
flight; `Finally` arms the next flush. `text` is the row's local text. A text is a number and the
way it is written (`Forms`): `SetFieldValue` takes the number of it, as `Number(raw)` does, and
`AsText` writes a stored one the `Plain` way, as `String()` does, so `155.0` is not the text of 155.
The local text follows the stored value by the comparison of texts in `FieldRow` (`Follows`), at
every render. The server is `MergeContent` and `ResortVerdict` of `WorkspaceMerge`.

**ResortViews**: the projection of the editor, the counts of list and health, the validator's
cross-record checks and the public loader, each translated from its own file, as operators
over a resort's sources (path to age) and its live signal. `AgedBy` says by which path's source the
loader ages a value: it takes `lifts_open.count` for both leaves of `lifts_open`.

**PublishFlow**: calls list the directory, read file by file, read the served dataset, and then
merge, stamp and validate without another `await`, while PUTs and a shell change the files and
other calls serve. `Put` answers an unknown slug with 404 and keeps of the file, or of what is
served, whatever the patch does not name, `observed_at` included, which the server never stamps;
the file of a new resort comes from `Author`, an analyst with a shell. `seen` collects what the
admin held of each resort during a call, `overtaken` the calls that another one overtook; both are
history variables. `publishDataset` is one step here: `PublishDataset` is what justifies it.
`Health`, `Summaries` and `Detail` are the GET handlers, in one reading each.

**AdminApi, AdminApp**: the route table with its matching and error codes; and one tab: the
address, the views App mounts for it, the requests under way with the handlers attached to
each, the hooks' in-flight maps and the editor's cache (`cache`), `useListPublishes`'
generations, the publish dialog and the toast. A commit of React and the effects it runs are
one step with the event that caused them.

**ShareableUrl, CardsGrid, PublicApp**: parse, serialize, normalize, push or replace; filters
and sort of the cards; and one tab of the public app with its session history, the storage
other tabs write, the bootstrap (hydrate, collide, mirror), the conflict dialog, the drawer,
the dataset promise and the lazy chunks under Suspense, and the error boundary, whose Retry drops
the promise while `React.lazy` keeps a chunk that failed. The drawer is not modal: with one open,
any click behind it takes effect in one of three ways (`Dismissals`), the dismissal before the
click's handler (mouse, keyboard), after it (a tap) or not at all (a click without a pointer).
`stacked` is a history variable: something was opened over a drawer that was still up.

## 3. Runs

| Run | Instance | States | Shows |
|---|---|---|---|
| `publish` | 2 processes, 2 valid and 1 invalid dataset, 2 spins, counters to 2, all faults, fair | 625k | lock, numbering, durability, `PublishLog`, every call returns |
| `workspace_edits` | 1 resort, 3 requests, 7 bodies, failing writes, a publish | 1.2M | atomic updates, provenance |
| `workspace_locks` | 2 resorts, 3 requests, 1 body, failures, restarts, fair | 104k | order, every request answered, each PUT whole or not at all |
| `note_saved` | 1 path, 3 texts, 3 revisions, 4 PUTs, fair | 624k | `saved` means stored; drafts settle |
| `note_faults` | 2 paths, 1 text, 2 revisions, 1 failure, flush-all, no Escape | 256k | nothing stuck; one PUT per path; deletions final; cache write-through |
| `resort_draft` | 3 fields (2 siblings), fresh values written 2 ways, 3 revisions, 3 PUTs, 1 fault, fair | 217k | `saved` means stored; inputs and edits kept; nothing refused; drafts settle |
| `publish_flow` | 2 resorts, 2 calls, 2 edits, 1 tick, 21 starts | 389k | what is published, and that the readers agree |
| `public_app` | 2 links, 2 stored lists, a shortlist of 1, 2 history entries, 3 price buckets, countries of a link, 1 write of another tab, dataset and drawer chunk may fail, fair | 83k | reload, stars, filters and order of the cards, Back, Retry recovers |
| `admin_app` | 8 links, 3 requests under way, 5 events, 2 versions | 1.4M | loading, routes, history after a publish, dialog, toast |
| `note_delete_escape` | with Escape | – | finding 1 |
| `resort_revert` | 1 field, values typed again | – | finding 2 |
| `public_back` | 3 history entries | – | finding 3 |

**Bounds.** *publish*: two processes suffice for any interference on one lock, since a third could
only wait or time out; counters to 2 give each a version and let a stale one be overtaken.
*workspace*: three requests on one resort give a predecessor, a request queued behind it and one
that arrives while the first cleans up; the bodies include two edits of sibling leaves made from
one snapshot; restarts are in the run of the locks, with one body, because a request is lost, and
a write landed, in the same way whatever its body. *note*: three revisions allow type, delete,
type again (or A, B, A) with an older PUT unanswered; two paths let one answer be merged before
the other is rendered. *resort_draft*: three revisions go to three fields, so an edit of a leaf,
of its sibling and of another field meet one PUT in all orders; one more way to write a number
stands for all of them, since only equality of texts is compared. *publish_flow*: two calls
overlap in every order with two changes between any two of their reads; the starts hold a corrupt
file, a file under another resort's name, missing sources, a source in the wrong map, a bad fx
block, a signal observed in the future, leaves of `lifts_open` of different age, and ages at, on
and past both limits. *public*: with a shortlist limit of 1 every second star, every merge and every longer
list meets both cuts, and `ReloadQuiet` and `NewestStarKept` are proved for any limit; the
catalogue has two countries plus one that left; three history entries are a drawer over another
over the page. The links of `public_app` bring the countries, one that left among them; clicks
take countries away there (`MaxChips` 0) and choose a bucket that keeps some resorts or none,
since adding a chip multiplies the states and leads to no other kind of dead end. `public_back` leaves out what its property does
not depend on (buckets, storage, failures). *admin_app*: pages of one version, so that a publish
adds a page and a page can be past the end; three requests are a stale one, its replacement and
the publish; five events allow open, confirm, navigate, come back and one fault. `MaxRev`,
`MaxFlights`, `MaxFaults`, `MaxCounter`, `MaxClock`, `MaxEdits`, `MaxEntries`, `MaxChips`,
`Buckets`, `MayFail`, `MaxOthers`, `MaxCalls` and `MaxActs` are the only bounds, and all appear
only in guards of users, faults, time and other writers (`MaxEntries`, `MaxChips` and `Buckets`
end a reader's clicks, `MaxCalls` an analyst's).

`CHECK_DEADLOCK FALSE`: every instance comes to rest when its finite set of events is done,
and so do the programs.

**Fairness.** `WF` of the steps of a running call or handler only (`publish`, `workspace_locks`,
`note_saved`, `resort_draft`, `public_app`): Node resumes an async function when its promise or
file operation completes, the browser runs due timers and settles its requests, React renders what
they end in, and the server handles a request it received. No fairness is given to users, faults,
restarts, the removal of a stale lock, or to obtaining the lock. `EveryCallReturns` therefore
rests on the bounded spin loop and not on luck, and `RetryRecovers` has the reader who presses
Retry and the dataset that can be fetched again as its antecedent. The other runs check safety
only: what an admin tab shows at last depends on a network without a deadline, and
`NoStuckLoading` says as an invariant what the code owes.

## 4. Proofs

Proved by TLAPS for all values of the constants, from the named `ASSUME`s only (sentinels are
not data, bounds are naturals, initial states are ones the program can be in). Each module
proves `Init => IInv`, `IInv /\ [Next]_vars => IInv'`, and what follows from `IInv`.

*PublishDataset_proofs*. `IInv` adds to the properties: archive numbers never exceed the
*durable* counter (an archive is renamed only after the counter's directory was synced, so a
power loss cannot hand out its number again); no version is newer than the process inside the
lock; and, per process and phase, which of its files are visible and durable. `Refinement`
shows every step to be a step of `PublishLog` or a stutter.

*WorkspaceServer_proofs*. `IInv` says that arrivals have distinct numbers, that every request
of a resort but the oldest chained on its immediate predecessor, that a request inside its
handler has all earlier ones settled, and that the map entry is the latest request of its
resort or gone with all of them settled. From this follows `Fresh`: what a handler read is
still what the file holds when it writes, which makes the read-merge-write atomic,
a restart in the middle of a write included (`RestartLeaves`).
`Provenance`, `HalvesCarried` and `Refinement` follow.

*NoteDraft_proofs*. `IInv` holds per path: PUTs are numbered and the one not aborted is the
last (`Numbered`); a PUT of the latest revision carries the draft (`Carries`); the server's queue is a
tail of what was sent (`Queued`); as long as nothing failed, the current PUT is last in the
queue until it is answered, and a path that waits for nothing agrees with server and cache
(`Faultless`, which is what makes `SavedMeansStored` inductive); and a deletion is
all that is on its way (`Deleted`, if Escape is not pressed: finding 1 is what Escape does to
it). `latest = fulfilled` is part of it: a cache write is rendered before the next event.

*ResortDraft_proofs*. The texts of the inputs as a function of the draft, the cached resort
and what was cleared (`Inputs`): a text written the plain way is the row's value at every moment,
any other only while the draft has the edit; that a cleared field has no source in the draft, so no
later body carries it (`ClearedIsNotDrafted`), which gives `ClearedIsNotAwaited`.

*ResortSync_proofs*. What draft, `lastSentDraft`, the PUT in flight and the server have to do
with each other, field by field, in two invariants. None of the four properties is inductive
alone: each speaks of a status or a body, and what makes it true is what the server held
when that was computed.

- `Sync` gives `SavedMeansStored`, `EditsKeptUntilStored` and `AnswersKeepInputs` (what an
  answer takes from the draft, it brings in the resort). Values are stamped with the
  revision they were typed in (`Aged`), so a value in two places is one edit. The draft of the
  PUT in flight is the draft up to later edits (`Made`). What its body leaves out, the
  server has, and no PUT under way could overwrite it; once answered, the server has all of it
  (`Carried`). A field whose parent is as last sent reads in the server as in the draft
  (`Based`), for modes `ModesBased`; and each status says which of this holds (`Awaiting`,
  `Saved`). It survives clears, aborts and lost connections because an aborted or failed PUT
  leaves `lastSentDraft` behind, so the next body carries the field again.
- `Fits` gives `UndisturbedNeverRefused`: a draft has whole parents (`Whole`), a stored source
  stays (`Sourced`), and while nothing was cleared or broke (`Quiet`) the server has handled
  everything but possibly the PUT in flight, would accept that one, and differs from the draft
  exactly in the edits made since, each with a source of its own.

The four theorems assume `FreshValues`: no value is typed a second time, and the stored values and
sources the resort starts with are none of those an edit will make. Without it they are false
as finding 2 and the note on autosave in section 5 say: a value typed back makes a body the
server refuses, and equals a stale `lastSentDraft`. The run `resort_draft` has such constants.

*PublishFlow_proofs*. No stamp is ahead of the clock, and what a call read was stamped no later
than it will be itself (`StampsPast`), from which, with `Keeps`, `StampsAdvance`: it takes the
host's clock not to be set back; what a call read is what is served until another serves
(`Keeps`), from which `PublishKeepsResorts`; and, per phase of a call, that each entry it read, or
found missing, is among those seen since it began (`Recent`), from which `VersionsAreRecent`.
`EditorShowsWhatPublishes` is a theorem about any workspace and needs only the types.

So are the two properties about code that takes one decision in several places. For
`GateAgreesWithPublish` the health page's four counts are turned into whether the sets they count
are empty, with each file that counts standing for its own resort; then the checks of the
validator are compared with those of the page one by one. For `FreshnessAgrees` the statement is
first shown of one metric of one resort (the state each of the four pieces of code gives it, the
loader by the source it looks at, `AgedBy`), and then summed: the list's and the health page's
counts are cardinalities of the same sets, because the map from files to slugs is one-to-one. Both
assume that the sets of slugs and of metric paths are finite (a directory listing and a constant
of the code) and that ages are integers.

*AdminApp_proofs*. `IInv` relates requests, cache, views and generations: identifiers are
unique (`Requests`), a ticket in the cache is that of a request under way (`Tickets`), a waiter
is attached for the key its view is mounted for (`Waiters`), a request that can still be joined
or taken was not answered with less than the tab knows (`Fresh`), what a view shows is current
or a request will tell it (`Told`), views are those of the address (`Mounted`), a publish is
under way exactly while its dialog waits (`Publishing`), and the timer's arithmetic (`Timed`).
All five properties of the run follow.

*PublicApp_proofs*. Two invariants.

- Unless something was opened over a drawer that was still up (`stacked`), at most the last entry
  of the session history opens a drawer (`Layered`): what is pushed is pushed on an entry whose
  drawer was dismissed, and the dismissal replaced it. From this `BackNeverReopens`; finding 5 is
  what happens otherwise.
- `InStep`, for what a reload asks. `ReloadIsQuiet` is not inductive: it says nothing of what
  the next mirror will skip. `Mirrored` adds the memo: as long as nobody else
  wrote and the dialog was not left behind, the memo, once set, is the address' list and
  what the storage reads as; before that, a pending dialog is about the address, or there was
  nothing to ask. The entry shown reads back as it is from the first normalization on
  (`AddressIsShareable`), because whatever `setURLState` is handed, serializing and parsing
  it once cuts it and twice changes nothing (`ReadsBack`, `SetIs`). `NewestStarSurvives` then
  joins the cut at the head (`ToggledIs`), the cut at the tail and the mirror, which cannot
  skip a list with a new star; the three orders of a click and a dismissal come to one list
  (`ClickedIs`).

`FiltersNeverStrand` needs the lists themselves. What filtering keeps is given by counting
(`ElementsAt`: the n-th element kept is the one with n kept positions up to it), so that facts on
cardinalities take the place of an induction. The sort is handled the same way: its
comparator with the position as the last resort is a strict total order (`BeforeTotal`),
the numbers of elements before each are therefore distinct and leave no rank out (`RanksAll`),
and the element of each rank is behind those of lower ranks (`SortViewsIs`).

**Only model-checked.** Liveness (`EveryCallReturns`, `EveryRequestAnswered`, `RetryRecovers`,
`DraftsSettle` twice): temporal proofs under fairness and `ENABLED` are out of the prover's reach.
Every other property of a passing run is a theorem. No module declares a `RECURSIVE` operator.

**Only proved.** `NoLockLeak` (the lock map holds unanswered requests only) and
`AddressIsShareable` (the address is canonical) are in no configuration.

## 5. Findings

1. **Escape during a delete brings the note back, empty** (`note_delete_escape`). The comments
   name this race and close it for the timer; `flushNow` from Escape is open.
2. **Typing a value and typing it back is reported as a failed save** (`resort_revert`). The
   first flush sends the whole draft; the unchanged value with a new source is a
   provenance-only body, and the server answers 400. The comment on the empty diff says that an
   edit then reverted needs no PUT. Writing the stored number in another way (155.0 over 155) is
   refused likewise.
3. **Back can reopen a closed drawer** (`public_back`). With one drawer open a tap on another card
   pushes the switch before Radix dismisses the drawer, which then clears the new entry: Back from
   there reopens the first. The hook's comment and its test exclude it for one drawer only.

Other places where the code does not do what a text says, seen while modelling; no run is
about them:

- *Workspace*: the design calls the upsert "naturally idempotent"; a repeated PUT is refused as
  provenance-only (`resortUpsert.ts:395`). `listPublishes.ts` comments that a malformed archive
  surfaces as a 500; dispatch maps the `ZodError` to 400 `invalid-request`.
- *Autosave*: a text like `155.0` stays in its input after a clear of the sibling field took the
  edit out of the draft, and is then neither to be sent nor stored; a plainly written one would
  have followed the stored value. A note (`useAnalystNoteDraft.ts:254`) or field
  (`useWorkspaceState.ts:424`) can be shown as saved that is not, after a PUT that was applied but
  whose reply was lost or aborted: the stale `lastSent` makes the next diff empty.
- *Publish*: everything is read before `publishDataset` takes its lock and nothing again under it, so
  of two overlapping publishes the one composed first may serve last. It then regresses a resort's
  content, or drops a resort that the other published: one added meanwhile the documented way,
  by writing its file in a shell (no request can, a PUT of an unknown slug is a 404). This is the
  exception in `PublishKeepsResorts` and `StampsAdvance`.
- *Freshness*: the public app ages `lifts_open.total` by the source of the count
  (`loadResortDatasetFromObject.ts:70`): after an edit of the count alone the admin reports the
  total as stale and the public app does not, although the spec has one table of states for both.
  `FreshnessAgrees` is what does hold, the loader's choice of the source being part of its
  statement.
- *Health*: the gate is blind to a signal observed in the future and to a wrong fx block, which
  the validator refuses. A file whose slug differs from its name, replaced while the directory is
  read, may be missed. A version archived but never served is listed as published.
- *Admin*: an error toast of the publish dialog is shown while the dialog is open
  (`Toast.tsx:219` says it must not be). Opening the dialog joins a health request under way instead
  of making its own. A rejection in the editor's cache stays when one leaves by `g r` or Back.
- *Public*: the failure screen's Retry cannot bring back a lazy chunk whose import failed; only a
  reload or another address can. After Back under the conflict dialog, Replace writes the slugs of
  the entry left behind. A duplicate in a link's shortlist gives a duplicate column in the matrix.
  The merge preview is not cut to the limit as the result is. The banner about dropped slugs says
  it clears when the slug is toggled off, but nothing offers that toggle.

## 6. Not modelled, and plan

**External to these models**: Markdown rendering is a pipeline of third-party plugins without
state; the integrations are stubs at this commit; build, CI and deployment are configuration.

**Left out of modelled components**: hot reload of the drafts' stores; the Markdown preview;
live-signal paths of the editor (it has no input for them) and its read-only layout; timestamps
and response bodies; a second admin server process (the lock map is per process and the server
is run once, locally); reordering of two PUTs of one path on the wire; the time between an
answer and the render that shows it; column sorting, the gallery and the timing of the `g`
shortcuts; body and query schemas. The sidebar's links are full page loads and so are initial
states. In the public app the dataset is constant for a session, links are followed only by
opening the tab, the matrix' highlight is not kept, and the shortlist drawer and the share
dialog are not there because nothing opens them at this commit (`App.tsx:106-118`).

**Plan.**
1. `PublishFlow` over `PublishDataset`'s steps instead of `Serve`, with `PublishLog` as
   the promise between them.
2. Two tabs of the public app as two processes, when storage events are listened to.
