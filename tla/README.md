# Nafir in TLA+

Nafir is a music library one uploads one's own files to: an API server in Go
(`src/server`) over PostgreSQL and an S3-compatible object storage, and a
Flutter client (`src/lib`). Files also arrive through messenger bots and links.
This directory specifies the parts of it whose correctness depends on the order
in which requests, workers, timers and failures meet, model-checks them with
TLC and proves their main safety properties with TLAPS.

The repository also keeps the tool its screens are designed with: live mode, a
script of 13,500 lines that a dev server adds to a page
(`src/.skills/impeccable/scripts/live-browser.js`). It lets a developer pick an
element, asks an agent for variants of it, shows them, and takes the chosen one
over into the source. It is not part of the product, but it is the largest
program here and all of it is callbacks, so its sessions, previews, copy edits
and targets are specified too. Its two partners, the helper process it talks to
and the agent, are not in the repository: they are modelled from what the page
sends, expects and handles, and marked external.

| module | what it is |
| --- | --- |
| `TagRewrites` | the queue that writes a track's edited metadata into its stored file, its workers, the garbage collector, deletion and streaming |
| `MetadataSync` | what an owner is promised about such edits; `TagRewrites` implements it |
| `TrackUploads` | one owner's tracks: reservation, upload, completion, copy, deletion, cleanup, and the limits |
| `TrackLibrary` | what the store promises about an owner's rows; `TrackUploads` implements it |
| `BotImports` | a file sent to a messenger bot, from its update to its track, over retries and restarts |
| `Sessions` | an account's session epoch, the caches of it, revocation and deletion |
| `AccountPurge` | a deleted account's files and the sweeps that remove them |
| `PlayQueue` | the order tracks play in, in the client |
| `LiveSession` | live mode: one page's variant sessions, over reloads, reconnects and late reads |
| `ComponentPreview` | live mode: variants that are imported and mounted while the user chooses among them |
| `CopyEdits` | live mode: texts edited in the page, saved, applied by the agent, repaired or rolled back |
| `PageTools` | live mode: the pick and insert tools, and agent targets that several tabs compete for |
| `InsertPlacement` | live mode: where an insertion goes and how its placeholder is resized, as operators |
| `MC*` | what TLC needs besides: symmetry sets, layouts and settings |
| `*_proofs` | the theorems about the module they are named after; `Accounts_proofs` is about `Sessions` and `AccountPurge`, `Library_proofs` about `TrackUploads` and `PlayQueue` |

`PROJECT.json` says which lines of the source every definition stands for
(`map`), which runs there are, which faulty variant of the code each property
detects (`mutants`; the variants are the definitions marked "mutant" in the
modules), and which hazards of the code led to which property.

## Running it

    tlc -workers 2 -config TagRewrites_one.cfg MCTagRewrites.tla
    tlapm TagRewrites_proofs.tla

Each run takes less than three minutes.

## Inventory

Paths are below `src/server/internal` for the server and below
`src/lib/features` for the client. Each part comes with its state, its
operations, those it interacts with, what is hard about it, and what makes it
correct. "→" names the module.

### Server

**Track uploads** (`httpapi/tracks.go`, `store/tracks.go`, `storage/storage.go`)
→ `TrackUploads`. State: `tracks` rows (pending or ready, with a size), objects
in storage, upload forms that expire by themselves. Operations: reserve under
the owner's limits and sign a form; verify the posted object and mark it ready,
or discard it; delete; list, search and stream. The client posts straight to
storage, so the server learns of a file only when it is asked to complete it.
Hard: storage and database change in separate calls; a file can be posted after
its row went; requests of one owner run at once on several instances. Correct
when the limits hold under concurrency, a ready track has its verified file,
and a removed row leaves no object.

**Pending upload cleaner** (`cmd/api/main.go`, `CleanupStalePending`) →
`TrackUploads`. A ticker on each instance; one transaction removes objects and
rows of reservations older than `PENDING_UPLOAD_TTL` while it holds their row
locks. Hard: a removal cannot be rolled back.

**Saving another account's track** (`store/fingerprints.go`) → `TrackUploads`.
Reserve, copy on the storage server, mark ready, or discard, in that order.
Recognising a snippet is a search over fingerprints and has no state.

**Tag rewrite queue** (`tagwriter/tagwriter.go`, `store/tagjobs.go`) →
`TagRewrites`. State: nine columns of a track's row, `storage_garbage`, the
objects, presigned URLs. Operations: edit, claim with a lease, rewrite, record
the new key, put, swap, fail, release, collect garbage. Interacts with the
metadata and delete handlers, the streaming handler and the quota. Hard: leases
that run out, crashes between any two calls, commits in doubt, a collector that
decides first and removes later. Correct when a track's audio is never lost,
"written" is true, a player's URL stays good, and nothing is leaked.

**Messenger bots** (`bot/*.go`, `store/bots.go`) → `BotImports` for imports.
State: updates seen, chats linked, link codes and their failed attempts,
imports with attempts. Operations: webhook, link, import with retries, resume
after a restart, notify. Hard: at-least-once delivery, runs cut off at any
step, two runs of one import. Correct when a file becomes one playable track,
retries end, and what is half stored goes.

**Link imports** (`linkimport/*.go`). Checks a submitted link, adds an import of
the same table and runs it through the same `Importer` under a time limit.
Hard: its limits are read in statements of their own before the insert.

**Account deletion** (`store/account_deletions.go`, `httpapi/auth.go`,
`main.go`) → `AccountPurge`. A row per deleted account; its rows cascade; the
handler and a loop on each instance sweep the account's storage prefix until a
sweep after `purge_after` is recorded. Hard: files, rewrites and copies in flight
land after a sweep. Correct when every deleted account is purged, nothing is left
or arrives after that, and an account that still exists keeps its files.

**Sessions** (`auth/sessions.go`, `auth/token.go`, `httpapi/auth.go`) →
`Sessions`. Tokens carry an epoch; each instance caches an account's epoch for
30 seconds. Operations: check, revoke, delete, forget. Hard: a lookup that was
under way when the epoch was revoked, other instances, lost answers. Correct when
an ended session is accepted, and a new one refused, at most for that long.

**Email verification** (`store/email_verification.go`). Codes with a limited
number of guesses, a cooldown and an address that can be corrected meanwhile;
every operation locks the user's row.

**Fingerprint and transcription jobs** (`store/fingerprints.go`,
`store/transcriptions.go` and their workers). Claims with leases and attempts.
The transcription's lease fences its result; the fingerprint's does not.

**Playlists and sharing** (`store/playlists.go`). Ordered entries, roles,
invitations; `SaveShared` copies a whole playlist's tracks.

**Lyrics** (`lyrics/service.go`). A cached answer per song, refreshed when it is
old, and the owner's own choice.

**Public catalog** (`catalog/*.go`). Groups copies of a recording by sound.

**Rate limiter** (`httpapi/rate_limit.go`). A bounded table of windows.

Without state of their own or of one statement each: routing, tags and audio
formats, loudness, link fetchers, publication review, listening history, pages.

### Client

**Play queue** (`player/application/play_queue.dart`) → `PlayQueue`. A list, a
play order over it, a position, shuffle and repeat. Hard: index arithmetic when
a track is removed from a shuffled queue. Correct when every entry plays once,
the current track stays, and what is preloaded is what plays next.

**Player controller and audio engine** (`player_controller.dart`,
`audio_engine.dart`). Loads, preloads, crossfades on two decks, completions and
renewed URLs, all asynchronous; request numbers decide whose result counts.
Hard: every `await` is a place where the user may choose another track.

**Library transfers** (`library_sync_controller.dart`, `upload_controller.dart`).
Uploads and downloads one at a time, with an upload controller shared between
the screen and the queue. Hard: cancelling, signing out, lost answers.

**Favorites** (`favorite_tracks.dart`). Likes shown before the server knows.

The other parts (session, API client, screens, platform services) and the reason
why each is left out are listed under `components` in `PROJECT.json`.

### Live mode

All of it is `live-browser.js`, in one tab; several tabs may show one page. A
handler runs to its end, microtasks and mutation observers included; everything
else is a callback: of the user, a timer, an answer, the event stream, an
import, hot reload.

**Variant sessions** → `LiveSession`. State: the overlay's state (picking,
configuring, generating, cycling, saving), the current session, what arrived,
the session saved in the browser's storage and the ids handled there, the
wrapper in the page; the helper's journal. Operations: Go, Accept, Discard, page
load and resume, done, complete, discarded and error events, checkpoints,
source reads and their retries, missed completions, the scout for a wrapper that
hydrates late. Hard: each of these may come when the page has gone on to
something else. Correct when a handled session never comes back, one at work is
not forgotten, and a page that waits gets its variants or stops waiting.

**Component previews** → `ComponentPreview`. State: the mounted preview, the
injections and the selection under way, the recovery card, the Tune spinner.
Operations: read a manifest, import and mount, turn to another variant, Accept
and commit to the DOM, Discard, Retry, Dismiss, wait for a routed-away element.
Hard: every `await` in an injection or selection. Correct when the counter, the
preview and the accepted variant agree and no failure leaves a dead end.

**Copy edits** → `CopyEdits`. State: drafts, the texts shown, the dock with its
counter, buttons and progress, the lock with its stored copy; the helper's
store and apply. Operations: edit, save, cancel, discard; Apply, Keep fixing,
Rollback; progress events. Hard: an apply takes minutes, reports by events and
answers by requests, and outlives the page. Correct when no text is left that
only looks saved, the lock is on exactly during an apply, and it comes off.

**Pick and insert tools** → `PageTools`, `InsertPlacement`. State: which tool is
on, the picked element, the insertion line, the placeholder and its snapshot.
Operations: toggle, hover, click, arrows, Enter, Escape, resize, Create, Go,
recreate a placeholder a framework rendered away. Hard: modes that overlap;
arithmetic of boxes and gaps. Correct when the line is where the pointer is, a
drag moves one edge, and no placeholder stays behind.

**Agent targets** → `PageTools`. State: what a tab has seen of a target, its
loops of timers and requests; the helper's request with its lease. Operations:
announce and replay, head start, claim, denial and retry, scroll, renew, Go,
report. Hard: leases that lapse while their holder is busy, several tabs,
several targets, a user at work. Correct when a request becomes one session,
never disturbs another, and is served while a tab can.

Not modelled of it: annotations, parameter panels, the chat, the design panel
and the detector, which are state only their own handlers touch.

### How the parts meet

The database and the object storage are the only shared state of the server:
no call covers both, no call to storage can be rolled back, and several
instances may run. Inside the database, parts meet in a row lock (a track, a
user, a queued object), in the advisory lock of an owner's uploads, or in the
`WHERE` of a conditional update. The client meets the server in single
requests, any of which can be lost after it took effect.
Live mode shares nothing with either: its tabs meet in the browser's storage,
in the page's source, and at the helper.

### Hazards no property covers yet

`PROJECT.json` lists the hazards with the properties about them. Three of those
have none: two are behaviour of the code that no property can exclude (see
Observations), and one is the player's. The following were found in the
inventory and belong to parts that are not modelled:

- `player/data/audio_engine.dart:257`, `player_controller.dart:773`, `:802`, `:538`:
  a load, a link renewal or a completion that finishes after the user chose
  another track.
- `library_sync_controller.dart:268`, `upload_controller.dart:94`, `:195`: signing
  out or picking a file while a transfer is suspended; the lost answer of a
  completed upload, after which the client deletes a ready track.
- `favorite_tracks.dart:188`: a refresh that overwrites a like under way.
- `store/fingerprints.go:39`, `store/transcriptions.go:64`: a lease that runs out
  under a worker whose result is not, or is, fenced.
- `linkimport/service.go:129`: limits read in a statement of their own.
- `store/playlists.go:476`: a copy of many tracks that stops in the middle.
- `lyrics/service.go:121`: a refresh in flight against the owner's choice.
- `httpapi/rate_limit.go:63`: the table of windows at its limit.
- `store/bots.go:96`, `store/email_verification.go:110`: guesses that cost attempts
  while codes and addresses change.
- `bot/service.go:48`: an update recorded as seen before its file is queued.
## What is modelled

In every module one step is what nothing else can come between: a statement, a
transaction without storage calls inside, or one call to storage or to a
messenger. A transaction that makes storage calls is several steps with its
row locks as state (`gc.locked`, `cleanup.locked`, `owner_lock`); what it did to
storage shows at once and its rows change with the commit. A call that can fail
has a disjunct in which it fails; where the code cannot know whether it took
effect, there is one in which it did.

### TagRewrites

One ready track. Row variables have the names of the columns. A time stamp is
what a comparison with it says: `tag_claimed_until` is the worker whose lease
runs or `NoWorker`, `tag_not_before` says whether the retry still has to wait,
`garbage[k]` whether a queued key is inside its grace period or due. A key is
`<<version, attempt>>`, as `revisionKey` names it; an object is the version its
tags describe. `pc[w]` is where `RunOnce` is and `job[w]` the claim it holds.

| code | actions |
| --- | --- |
| `UpdateMetadata` | `Edit` |
| `ClaimTagRewrite` | `Claim`, `ClaimExhausted` (both over `Claimable`, which also queues an abandoned object) |
| `RunOnce`, `process` | `Rewrite`, `ProcessFails`, `Put`, `Stat` |
| `RecordPendingObject`, `ReleaseTagRewrite`, `FailTagRewrite` | of that name |
| `CompleteTagRewrite` | `CompleteDeleted`, `CompleteSuperseded`, `CompleteOverQuota`, `CompleteSwap`, `CompleteError` |
| `DeleteGarbage` | `CollectSelect`, `CollectRemove`, `CollectCommit`, `CollectAbort` |
| `handleDelete` | `DeleteRead`, `DeleteObject`, `DeletePending`, `DeleteRow`, `DeleteFails` |
| `handleStream`, the URL's end | `Stream`, `StreamExpires` |
| time, a dying process | `LeaseExpires`, `RetryDue`, `GraceOver`, `Crash` |

Two switches add faults the configuration normally excludes. `Overrun`: a lease
ends while its worker still works (the code cuts a job off at nine tenths of its
lease, but not the transaction that records its outcome). `InDoubt`: a swap
commits and its worker is told it failed.

`MetadataSync` has an edit, a publication, a giving up and a deletion, each in
one step, and no worker. Under the mapping `file <- storage_key[1]` every step of
the queue is one of those or a stutter: a player gets either the tags a version
had or the ones that were saved, never a mixture and never an older version
marked as the saved one.

### TrackUploads

All tracks one owner ever reserves, numbered in order; `status` is "free" before
the reservation and "gone" after the removal. `file` is what the client will
post: audio, something else, or a copy of another account's track. A request
(`req[r]`) is one running handler. `ReserveRead` takes the owner's advisory lock
and checks the limits, `ReserveInsert` inserts and releases it; a copy and a
completed tag rewrite (`Resize`) take the same lock. `Complete*`, `Discard*` and
`MarkReady` are `handleComplete`; `Delete*` is `handleDelete`; `Copy*` is
`SaveTrackCopy`; `Cleanup*` is `CleanupStalePending` with its row locks. `Abort`
is a request whose process dies or whose client goes away, at any step.

`Faults` chooses among what goes wrong: a file posted although its upload was
given up ("late"), storage refusing to remove a rejected object ("storage"), a
cleanup that fails after it removed objects ("rollback"), and a commit reported
as an error ("indoubt"). They are separate because some properties hold only
without some of them, and the runs and theorems say which.

`TrackLibrary` has no request, lock, lock order or form: a reservation within
the limits, a finish, a removal, a growth within the quota. That `TrackUploads`
implements it means that what a request read under the lock is still true when
it writes.

### BotImports

One message, one process. `handler` is the webhook's goroutine between
`FirstDelivery` and handing its import to a run; `run["webhook"]` and
`run["resumed"]` are the two goroutines that may be in `Importer.Run`: the one
for the new import and the one `Resume` starts after a restart. `recent` stands
for the comparison of the import's `updated_at` with the resumed run's
`staleBefore`. `Stop` is SIGTERM (it cancels only the resumed run's context),
`Restart` the end and the new start, or a crash, at any step. `mishaps`
remembers two things properties have to except: a write of the import's row
that was reported as failed, and two runs that were at work on it at once.

### Sessions

One account, any number of processes and requests. `check` is three steps:
`CheckCached` or `CheckAfresh` (the clock and the cache are read under the
lock), `LookUp`, and `Store` (the answer is cached under the lock, with the life
counted from the first step). `RevokeSessions` and `Delete` are the statements,
each with a lost answer as an alternative, and `Forget` is the call after them.
`CacheCleared` is the emptying of a full cache, `Restart` a process's end.

Nothing compares clock values but with a life, so a cache entry has the ticks
it has `left`, a check the ticks since it began (`age`), and an epoch the ticks
since it ended (`since`), all capped at `TTL`; the state space needs no bound on
time. `late` records, when a check answers, how old the newest change is that
the answer did not take into account; the properties are about it.

### AccountPurge

One account's row, its row in `account_deletions`, and its prefix. `work[w]` is
anything that found the account and will write: `HandOut` signs an upload form,
`Put` stores an import's, a copy's or a rewrite's object. `Land` is a client's
post of a form, possible until it expires and again after a sweep.
`DeleteAccount` is the statement, with a lost answer as an alternative, and the
start of the handler's own sweep; `PurgeSelect`, `RemoveListed` and `MarkPurged`
are a round of the purge loop, `SweepFails` any error or a process that stops.
A sweep has to remove what was stored when it began (`todo`) and may remove what
came later. Durations are constants in ticks and timers count down.

`GraceAssumption` (a write, a form and a sweep fit into the grace period) is
what the code relies on without checking: the period is `PENDING_UPLOAD_TTL` (two
hours by default), the form's life another setting, and a sweep has no limit.

### PlayQueue

The queue with the operations the controller calls: `PlayFrom`,
`PlayShuffled`, `ToggleShuffle`, `CycleRepeat`, `SkipTo`, `PlayNext`, `Previous`,
`Remove`. `_order` is a function from play positions to list indexes; shuffling
chooses any permutation that begins with the current track. Lists may hold a
track twice, as playlists may.

### LiveSession

One tab in HTML mode with one picked element. `tab` is the overlay with the
browser's storage and the markup (`dom[s]` is what the page has of session `s`: a
wrapper with so many variants, the accepted one, the carbonized one, or
nothing), `source` the file, `journal` the helper's record. Each handler is an
operator from one tab to the next (`Cleanup`, `Resume`, `Restore`, `ShowCycling`,
`MarkHandled`, `AcceptAnswered`, `DoneSeen` and so on have the names of the
code's), and an action applies those one event calls, observers included.

| code | actions |
| --- | --- |
| `handleGo`, `handleAccept`, `handleDiscard`, picking and Escape | `Go`, `Accept`, `Discard`, `Pick`, `ExitConfigure` |
| `init`, `resumeSession`, `restoreSessionWithoutWrapper`, `restoreFromActiveSessions` | `Reload`, `Resume` within it |
| the event stream | `Connect`, `Hear`, `StreamDrops`, `ServerLost` |
| `fetch` of source, its retries, missed completions, the orphan check | `Fetched`, `FetchFails`, `ReadAgain` |
| answers and posts | `Answered`, `HelperTakes`, `PostLost` |
| hot reload, the agent | `Hmr`, `AgentWrites`, `AgentDone`, `AgentPromotes`, `AgentDiscards`, `AgentFails` |

### ComponentPreview

The overlay of one tab while variants are compiled components. A task is one
`injectSvelteComponentsFromManifest`, `selection` one `selectVariant`; each step is
what the function does up to its next `await`, so `ManifestRead`, `ParamsRead`,
`TaskMounts` and `TaskExplains` of two tasks interleave with `SelectionMounts`,
`SelectionExplains` and the user. `own` remembers whether the preview record the
function holds is still the page's, which is what its writes depend on. The first
mount of a session looks for the picked element (`AnchorFound` is its observer).

### CopyEdits

`page` has the texts shown, the drafts, the dock and the lock; `staged` is the
helper's store, `job` its apply, `source` the file. A request is sent, taken and
answered in three steps (`Take`, `Answered`), the stream delivers in order
beside them (`Hear`), and a request of a page that was reloaded is answered to
nobody. The agent's apply goes on one edit at a time (`ApplyNext`), may leave
edits out, give up, or need a repair or a decision. `OtherTabApplies` is an apply
this page only hears of.

### PageTools and InsertPlacement

Each tab has the tools' state, what it knows of each target (`seen`) and its
`loops`: a loop is one pursuit of a target, in a timer, a claim, the scroll, the
renewal, a report, or waiting for an answer to one. The helper's side of a target is
`helper[t]`: pending or over, who holds the lease, who reported what. `Drop`,
`RetryDeclined`, `ClaimAndAct`, `GoFor` follow the functions; everything a state change
triggers (`setLiveState` retries declined targets) is in the operator, not an action
of its own.

`InsertPlacement` has the geometry over whole pixels: axis, sibling rows, gaps
with their slop, the side of an element, the placeholder's sizing and clamping,
and a drag of each edge. It has no variables; `PageTools` calls it, and its
results are judged in `LineFollowsPointer` and `OppositeSideStays`.

In these four modules `faults` remembers which kinds of trouble a behaviour has
met, each at most once and at most `MaxFaults` kinds together (in `PageTools`, a
number of the setting). A property that trouble of some kind rightly or
avoidably breaks names that kind; for the avoidable ones see Observations. The
type invariants of `LiveSession`, `ComponentPreview` and `CopyEdits` are theorems; that of
`PageTools` was checked while the module was written and is kept as a definition.
## What the runs show

Bounds are in the configurations. They are the smallest at which the cases the
properties are about occur; every property is shown not to be vacuous by a
faulty variant of the code that violates it under the same bounds.

**tag_one** (one worker, three versions, two attempts, fairness). The default
deployment has one worker. An edit may overtake a running job, an attempt may fail
and be retried, and any call may crash. `PlayableUntilDeleted`: the row always
names an existing object. `PlaybackUndisturbed`: a URL handed out stays good until
it expires, although the row moves on. `NothingLeaks`: every object is named by
the row, queued, or in the hands of a worker about to do either.
`CollectorSparesUsed`: the collector never removes what the row names, although it
decides before it removes. `EditsSettle`: no edit stays pending for good. Three
versions are two edits, so one can overtake the other; two attempts are a failure
and its retry.

**tag_faults** (two workers, three versions, one attempt, both faults).
`WrittenMatchesMetadata` and `ImplementsSync` hold whatever leases and commits do:
the checks inside `CompleteTagRewrite` do not rely on the lease. Two workers are
enough for one to be overtaken by another; a third adds no new relation between
two of them.

**uploads_limits** (two requests, two tracks, sizes 1 and 2, quota 3, one
unfinished upload, late files and refused removals). Two tracks of size 2 do
not fit and two uploads are one too many, so each limit is reached both alone
and in a race of two reservations; they are guards of `TrackLibrary`'s reservation and
growth, so `ImplementsLibrary` is where a check that has become stale would show.
`ReadyIsPlayable` (below) shows that `PlayableUntilDeleted` holds for any number of
requests.

**uploads_clean** (one request, two tracks, half-done cleanups, commits in
doubt, fairness). The request races with the cleaner, with time and with
itself after an abort. `NothingLeaks`, and `PendingSettles`: a reservation stops
counting against the limits in the end.

**queue_order** (every list of one to three entries over three tracks). Three
entries are the fewest for which a removal can lie before, at and after the
position in a shuffled order, and for which a list with a track twice has
another one beside it. `RemoveKeepsOrder`: a removal takes at most one entry out
of what is still to play. `PeekIsNext`: what is preloaded is what plays next.

**bot_restarts** (three tracks, two attempts, one restart). Two attempts and one
restart give every order of claim, retry and resume of two runs; three tracks
are one more than the attempts of one run, so that a run after a restart can
still reserve. `DoneIsPlayable`; `ImportedOnce`: one track per message and life of the
process; `ImportEnds`.

**session_lag** (two processes, two requests, two revocations, a life of three
ticks). Two requests are one whose check hangs between lookup and storing and
one that revokes, or is let in, meanwhile; two processes are the one that
forgets the entry and one that does not. With three ticks a check can begin,
hang, store and be used in different ticks. `TokensEnd`: an ended session is let
in nowhere by a check that begins `TTL` after its end or later, because an entry
lives from the start of its check.

**account_purge** (two processes, two writers, two objects, fairness; a form of
two ticks, a write and a sweep of one, a grace period of exactly their sum).
`PurgedStaysEmpty`: the sweep that is recorded as the last overlooked nothing
and nothing arrives after it; with a grace period one tick shorter TLC finds a
file that stays. `PurgeEnds`: each deletion ends so, also if its request stopped right
after the statement.

**live_page** (two sessions, one variant, one reread, one kind of trouble). With
two sessions everything late can meet a newer session; one kind of trouble, placed
anywhere, already gives the reload in the middle of an accept, the broken stream
during a generation, the lost post. `HandledStaysAway`, `WorkNotGivenUp`,
`SavingHasAnAccept`, `CreationBeforeProgress`, `ReadyIsShown`, `GenerationSettles`.

**component_preview** (two sessions of two variants, two manifests at once, two
kinds of trouble). Two failures in a row are what recovery has to survive: the
mount and then the remount of the previous variant. `ComparisonShown`,
`RecoveryOffered`, `AcceptedIsCommitted`, `NothingLingers`, `PublishedIsShown`.

**copy_edits** (two leaves, three texts of which one cannot be saved, two staged
edits, four things asked of the helper, two at once, two events in the stream, one
kind of trouble besides those not counted). Two edits are enough for one to be
applied and one to stay. `NoStrayText`, `LockAgrees`, `EditsStayUsable`,
`ApplyUnlocks`.

**page_tools** (seven settings). A user with the tools on a column and on a row,
without targets; two targets in one tab; one target in two tabs; a target beside a
dry one; a target with two kinds of trouble; a target that finds the insert tool
in use. All settings together would multiply cases that do not interact.
`OneGo`, `SessionKept` and `Served` are about targets, `NoStrayPlaceholder`,
`LineFollowsPointer` and `OppositeSideStays` about the tools. The points of a
layout lie in both halves of both elements and in the gap; the drags pass the
smallest and the largest size.

## Observations

The models show three places where the code does something else than its own
comments say. No run is kept for them, since each would check one property no
other bound needs; the definitions are in the modules and TLC finds the
violation in seconds with these bounds:

- `CollectorSparesUsed`, `store/tagjobs.go:101`: tag_one's configuration with
  `Spec` and two workers. Garbage collection
  "never deletes a key a track still uses" (`tagwriter.go:303`).
  `ReleaseTagRewrite` clears whichever lease is there. With more than one worker,
  one that was superseded, and whose lease is already another's, frees the
  other's job; a third claim queues the other's object as abandoned, the collector
  selects it, the other worker swaps it in, and the collector removes the file
  the track now plays.
- `DeletedLeavesNothing`, `httpapi/tracks.go:695`: tag_one's configuration with
  `Spec` and `MaxAttempts = 1`. A deletion is to take the replacement object of a
  running rewrite along. It removes the keys it read at its start; an object
  recorded after that stays in storage and nothing names it.
- `RolledBackIsRetried`, `store/tracks.go:431`: uploads_clean's configuration with
  `Spec`, two requests and `Faults = {"rollback"}`. "If storage fails, the
  transaction rolls back and a later run retries the same row" (`tracks.go:383`).
  A completion that had verified the object before may mark the row ready
  meanwhile; its object is gone and no later run looks at it.

Other behaviour worth knowing, which the models contain but no document denies:
a swap whose commit is in doubt makes the worker queue the key the track now
plays, which the collector then spares but which takes the grace period from the
key's next replacement; a file posted after its track was deleted stays in
storage, and so does a rejected one that storage refuses to remove; a crash
between `MarkReady` and `FinishImport` makes a message two tracks; a copy whose
commit is in doubt ends as a ready row without an object; removing a deleted
track from the queue takes out one of its entries if it is there several times.

Two more are milder. After
`Forget`, a check that looked the epoch up before the revocation caches the old one
again, so a process may accept an ended session, and refuse the one the revocation
answered with, for the rest of `TTL` although it forgot the entry itself
(`sessions.go:18` says the life only bounds other processes); `TokensEnd` and
`NewTokensWork` are the bounds that do hold. A sweep that began before
`purge_after` may be recorded as the last (`main.go:726` says one after it is);
`PurgedStaysEmpty` holds as long as the grace period leaves room for it. And a
resumed import that a shutdown cuts off is recorded as failed although attempts
are left (`importer.go:132`; `deploy/README.md:433` says such imports resume).

Of live mode, where a property names a kind of trouble it does not survive:

- *Sessions.* A session list from the helper that is empty bypasses the check
  whether the saved session is still one of it, and a closed one stays
  "generating". A late answer to a discard or accept, and a late source read, act on
  whatever session is current ("late"; "moved" if a reconnect, or markup that was
  put off, made the page another session's meanwhile). A page that is reloaded twice,
  with the done falling between, may stay at "generating" with all its variants: the
  record already counts them, so `recoverMissedGenerationCompletion` does not read
  again. An agent that fails an accept after the user went on
  reaches the generic error branch (`live-browser.js:7733`), unlike the comment at
  8238 says. A Go with annotations posts its generate after an upload, and a
  checkpoint in between is refused and abandons the session.
- *Previews.* Turning to a variant while another is being remounted leaves the
  counter at one and the page at the other. A mount that ends after Accept or
  Discard reopens the comparison of a handled session; so does Retry on a card
  that was not cleared, and a discard answered late leaves the card of its session
  behind, whose Retry puts the page back in a session it no longer has. A
  failed answer to an accept reopens whatever is current.
  Enter pressed twice while a selection is under way posts two accepts.
- *Copy edits.* Saving another edit while the helper asks for a decision locks the
  page again and hides both buttons until the lock's fifteen minutes are over (`4111`; the
  comment at 4338 means to prevent it). A repair's answer that comes after the
  decision's event hides the buttons too (`4241`). One that is lost, and fails after the repair is over, asks the user
  for a decision there is none about (`4248`), and the Apply pill stays disabled with edits
  staged: `EditsStayUsable` fails without its last premise, with three things asked and
  three kinds of trouble. After Rollback the Apply pill stays
  disabled though edits are staged. A reload during an apply or a decision leaves
  the lock set. What is typed while a save is under way is saved nowhere.
- *Targets.* State is not looked at again after the renewal's answer, so what the user
  starts meanwhile is overwritten ("rushed"). A reconnect replays a target, and a
  second loop in the same tab may press Go again ("twice": the claim path does not
  ask `agentTargetTaken`), and what the user begins beside it may leave a placeholder
  behind. A result lost with its page ("lost") or overtaken by what its tab sends next
  ("late") leads to a second Go. A tab that stood down when its lease lapsed does not come back
  ("stood"). An apply's end rebuilds the insert row without the prompt typed in it.

## Fairness

Safety runs use `Spec`, which has none. The liveness runs assume:

- `TagRewrites`: each worker goes on with its loop (`Worker.Run` polls on a
  ticker), leases and retry delays end, the collector's ticker fires, and
  collections stop failing at some time (storage and database errors do not
  last). Nothing is assumed of owners, players, crashes or failing attempts:
  `MaxAttempts` ends those.
- `TrackUploads`: a handler that began runs to its end (weakly fair; it may be
  aborted at any step), forms expire and reservations grow old, the cleaner's
  ticker fires, and a cleanup that can remove or commit again and again does so
  at some time (strongly fair, since a rollback disables it each time).
- `BotImports`: the process goes on with what it has begun and is started again
  after it was told to stop; nothing is assumed of the webhook.
- `AccountPurge`: time passes; a writer and the handler's sweep end one way or
  the other (the handler's by its timeout of 20 seconds); each loop goes on with
  its rounds (its ticker), and its storage and database calls stop failing at
  some time. Nothing is assumed of clients or of when an account is deleted.
- Live mode: what the page has begun goes on (answers and events are handled,
  timers fire, imports and mounts end one way or the other, its stream is
  reconnected by the browser), the helper takes what reached it, and the
  agent goes on with a session or an apply it has. Nothing is assumed of the user,
  of reloads or of hot reload. Trouble is bounded, not unfair: a post, an event or
  a page that is lost is lost.

## What is proved

`PROJECT.json` names, for each theorem, the property of a run it states. The
others state properties that no run checks any more because the proof covers
every instance: `TypeOK`, `FreshKeys`, `SettledByOwnAttempt`, `PendingBounded`,
`QuotaKept`, `ReadyOnlyDeletedByOwner`, `LibraryOrder`, `CurrentKept`,
`NothingLeaks` of `BotImports`, `NewTokensWork` and `AudioOutlivesAccount`.

TLAPS checks the theorems for every value of the constants that satisfies the
named assumptions of each module (`NoWorker` is no worker, bounds are positive,
and the like).

**TagRewrites_proofs**, with both faults allowed:
- `TypeCorrect`.
- `WrittenIsWhatWasSaved` (`WrittenMatchesMetadata`). Not inductive by itself: a
  swap must know what the worker uploaded. `VersionInv` adds that an object's
  tags are those its key names (`KeysNameContents`) and that a row marked
  written names a key of its version (`WrittenKeyIsCurrent`).
- `UploadsAreFresh` (`FreshKeys`). `KeyInv` introduces the keys that were handed
  out (`Used`: those up to the row's version and attempts) and says that stored
  keys and those of busy workers are among them, that no two busy workers have
  the same one, and that a worker before its upload has one nothing is stored
  under. A retry gets a new attempt and an edit a new version, so a claim always
  leaves the used keys.
- `EditsSettledByOwnAttempt` and `QueueImplementsSync` follow from which steps
  can change the status (`StatusStep`) and from `VersionInv`.

The second part of **TagRewrites_proofs**, for one worker whose lease outlasts it and whose
swaps are not in doubt (`OneWorker`), and any number of edits and attempts:
`AudioIsNeverLost` (`PlayableUntilDeleted`), `PlayersKeepTheirFile`
(`PlaybackUndisturbed`), `NothingIsForgotten` (`NothingLeaks`) and
`CollectorIsSafe` (`CollectorSparesUsed`). The invariant `Places` says where a key
can be: the row's is not queued (`RowKeys`); the worker's is not queued, not the
row's file and not played, and is the pending one exactly once it was recorded
(`JobKeys`); a played one is not due and not pending (`PlayedKeys`); what the
collector locked stays due until it is through, and what it locked but spared is
gone or still pending (`CollectorKeys`). A claim's key was in none of these places
(`MetKeys`, from `KeyInv`), so the worker's key starts out in its place. Then only
doomed keys lose their objects (`RemovedAreDoomed`), no step loses track of a key
(`NamedStep`), and `StoredKeys`, which contains the properties, is inductive. With
two workers `JobKeys` fails at `ReleaseTagRewrite`: see Observations.

**Library_proofs**, first about `TrackUploads`, for any tracks, requests, sizes and limits:
- `TypeCorrect` contains that the owner's lock is held exactly from the reading
  to the writing of a reservation. `OrderCorrect` is the invariant the others
  rest on: which requests can be at work on the same track, and what state its
  row has at each stage of each (`Alone`, `Stages`, `RowFacts`).
- `PendingLimit` (`PendingBounded`) under every fault. While a reservation is
  between reading and inserting there is still room (`Room`), because only the
  holder of the lock adds a row that counts.
- `WithinQuota` (`QuotaKept`) under every fault, for the same reason in bytes:
  who is about to insert or resize still has the room it read, because the lock
  keeps out every other insertion and resizing (`Space`). What the owner has
  stored is counted as the set of its bytes (`BytesOf`), so that the library's
  theorems about finite sets say what an insertion adds.
- `UploadsImplementLibrary` (`ImplementsLibrary`) under every fault: each step is
  one of `TrackLibrary`'s or changes no row it knows. The steps that insert or
  resize use the two limits above; that the rest is allowed follows from
  `OrderCorrect`.
- `ReadyIsKept` (`ReadyOnlyDeletedByOwner`) under every fault.
- `CleanRemoval` (`NothingLeaks`), assuming neither late files nor refused
  removals: `Emptied` says for each stage that leads to a row's removal that
  the object is gone already and that nobody can put it back.
- `ReadyIsPlayable` (`PlayableUntilDeleted`), assuming neither half-done
  cleanups nor commits in doubt: `Kept` says that what a completion verified,
  and what a copy stored, is still there when the row is marked.

The two assumptions are needed: TLC finds the violations without them (one
is `RolledBackIsRetried` above).

Then, in the same module, about `PlayQueue`, for lists of any length with or without duplicates:
`QueueTypeCorrect` (the order stays a permutation, whose hard case is `Remove`),
`PlaysInLibraryOrder`, `CurrentIsKept`, `PeekPredicts`, and `RemovalKeepsTheRest`
(`RemoveKeepsOrder`), which follows where every index of the old order goes.

**BotImports_proofs**: `TypeCorrect`, `NothingIsLeft` (`NothingLeaks`),
`DoneCanBePlayed` (`DoneIsPlayable`) and `OneMessageOneTrack` (`ImportedOnce`),
with any number of attempts, tracks and restarts. The inductive invariant `Kept`
says what a run's track is at each of its stages (`Stage`), that two runs never have the same track (`Apart`), that a
run's track was reserved (`Used`), and that a finished import's track is ready
and no run is still removing it (`Named`). `OneMessageOneTrack` needs another,
`Single`: without a mishap at most one run works on the import, which is then
downloading (`Alone`), and the ready tracks no run holds are no more than the
restarts until the import is done (`Once`). A restart lets go of what a run
held, which is why it is worth one track more; the finite-set theorems of the
library count the one track that is still held.

**Accounts_proofs**, first about `Sessions`, for any number of processes, requests and revocations and
any life of the cache: `TypeCorrect`, `SessionsEnd` (`TokensEnd`) and
`NewSessionsWork` (`NewTokensWork`). Neither is inductive: what matters is what an
answer read earlier is still worth. `Known(answer, n)` says that of an answer with
`n` ticks to live: if it is an epoch that ended, it ended at least `n` ticks before
it could do so `TTL` ago (`since + n <= TTL`). It holds for entries with the time
they have left (`CacheInv`), and for a check between lookup and storing with what
its entry would have (`Found`); a tick takes one from `n` as it ages the epoch.
That epochs end in order (`SinceInv`) turns an old entry into a bound for the
refusal of the newest token.

Then, in the same module, about `AccountPurge`, for any number of processes,
writers and objects and any times that satisfy `GraceAssumption`:
`PurgeTypeCorrect`, `PurgeIsFinal`
(`PurgedStaysEmpty`) and `AudioIsKept` (`AudioOutlivesAccount`). The inductive
invariant compares each timer with the time to `purge_after`: after the deletion
every form ends (`FormInv`), and every writer's form would end (`WorkInv`), a
sweep's time before it; a sweep that overlooked a file will have taken all its
time before it (`SweepInv`). So when a sweep can be recorded there is no such
file, and no form or writer to bring one.

**LiveSession_proofs**, for any number of sessions, variants, rereads and kinds
of trouble: `TypeCorrect`, `NothingComesBack` (`HandledStaysAway`), `SavingEnds`
(`SavingHasAnAccept`) and `CreatedFirst` (`CreationBeforeProgress`). A handler is an
operator from one tab to the next, so each operator has a lemma that says it keeps
the tab `Sane` and what it leaves of the requests under way (`Shift`), and a step
applies those of the operators its handler is made of. `PageInv` adds to the three
properties that whatever the page knows of was started, in its session, its saved
copy, its posts, their answers, its timers and its markup: a new session is nobody's
yet, so nothing old can be about it.

`WorkStays` (`WorkNotGivenUp`) needs to know what the page's knowledge is worth. A page
makes a session its own, or gives one up, by a generate it posted, an answer it got or
an event it hears, and `WorkInv` says what each of them tells of the helper's journal
for as long as it is on its way: a generate is of a session the helper has not heard of,
which the page waits for or has turned to another for good (`Unborn`); a refused checkpoint
is of a session without a record, a granted accept or discard of one that is being
accepted, discarded or closed (`Decided`); a complete or discarded event is of a closed
one (`Ended`). While an accept or discard is out the page is at its session or at none:
that is what "moved" gives up. A handler that gives nothing up is `Calm`.

`ReadyComesToShow` (`ReadyIsShown`) is about a page that met no trouble but a reload, of
which a behaviour has one. What holds before it and what holds throughout differ, and
`ReadyInv` has a layer for each. `Sound` holds throughout: source and markup are what
the journal lets them be (`Written`, `Drawn`), the page observes its own session and a
restore would take up that one or none (`Owned`), nothing has arrived of a session
without a wrapper (`Begun`), and whatever the page still waits for has something that
ends the wait: a page that has counted all variants reads the source (`Ripe`), and one
with variants it has not counted (`Behind`) has a stream still to connect, a generation
under way, a done in the stream or a read due (`Catches`). At rest with a ready session
none of these is left, so the page compares. `Fresh` holds until the reload: the stream
is open, every session that was started is posted or taken, reads and dones are only of
what is over, and the page knows the file of what has arrived. A reload discards all
timers and events, and `Fresh` is why it leaves a page that is `Sound`. A second
reload may meet a page that is not `Fresh`, and can leave it waiting as described above;
the model has one of each kind of trouble, and the theorem says no more.

**ComponentPreview_proofs**, for any number of sessions, variants, manifests read at
once and kinds of trouble: `TypeCorrect`, `ComparisonIsTrue` (`ComparisonShown`),
`SomethingToPress` (`RecoveryOffered`), `AcceptCommitsWhatItNamed`
(`AcceptedIsCommitted`) and `PreviewGoesWithItsSession` (`NothingLingers`), each
under the premise it states. None is inductive, and what each needs depends on the
trouble there has been, so the invariant `Inv` has a layer for each premise:
- always: what is idle is nobody's, a preview shows what it says or nothing
  (`Sound`), and a hidden bar has a card or something under way (`Offer`);
- without "dismissed" a session that has come as far as work, a wait, a preview or a
  card has a manifest, so that its card can be retried (`Filed`);
- without "late" everything is the page's own session's (`Own`): what is being read
  or mounted, waited for, saved, and, while the helper is asked to end the session,
  nothing is under way at all (`AskedOwn`). So a pending accept is still about what
  the page shows when its answer comes (`Pends`);
- without "late" and "failure" every mount still owns the preview it mounts into,
  and a preview that shows nothing yet has such a mount (`Flows`);
- without "late" and "overlap" what the agent has published bounds every count that
  is read, saved or restored (`Counted`), a mount and the counter name the same
  variant (`TasksCount`), and so does the variant turned to, from the one that was
  mounted (`TurnCounts`, `MountCounts`). `Counted` is what a reload rests on: it
  restores an old count, but only one the manifest still covers.

A handler is an operator from one page to the next; each operator has a lemma that
says what it leaves alone (`Same`, `Ended`, `Astray`), each action one that sums
them up as a relation of the page before and after (`Reported`, `Dropped`, `Compares`,
`Over`, `Reopened`), and the invariant is kept by the relations.

**PageTools_proofs**, for any tabs and targets, layouts, number of loops, of the
user's steps and of kinds of trouble. The invariant `ToolsInv` says of each page
that at most one target acts in it, that a target has one loop after it unless
"twice" happened, and that a page which acts has no session running, short of
"twice" and "rushed"; and of each target (`LeaseHeld`) that who is
past a granted renewal holds the lease and nobody has pressed Go yet, and that
once it was pressed the lease is kept until the result is in.
- `GoIsPressedOnce` (`OneGo`), `PlaceholderIsTidy` (`NoStrayPlaceholder`) and
  `RunningSessionStays` (`SessionKept`), each under the premise it states. What a
  step does to a page is one of a few relations: the user, a session and an
  apply leave the pursuits alone (`Tame`), and politely so (`Polite`); a pursuit's
  step changes that one only (`Pursuit`), and short of Go nothing of the tools
  (`Chase`).
- `OneSideIsDragged` (`OppositeSideStays`), whatever the trouble: only who places an
  element has a placeholder, and what its session keeps of it is it, in its sizes and
  margins (`Boxed`), so that putting it back after the framework rendered anew
  moves no side either.

**CopyEdits_proofs**, for any finite set of leaves, any elements, texts and bounds, and
any number of kinds of trouble in one behaviour (the run has one): `TypeCorrect`,
and the run's three invariants, each under the premise it states. For
`NoTextIsStray` (`NoStrayText`): a leaf may be
edited and saved several times, and every edit carries the text it replaces, so
what the saved edits make of a text is a chain: `Ends(edits, n, l, from, to)` says
that the first `n` of them lead the leaf `l` from one text to another, and
`Chained` that each begins where the one before it on its leaf ended. The
inductive invariant is that the saved edits, applied to the source as it was before
the apply that runs (`Ground`), lead to the text the leaf has once nobody types
(`Flow`), that the source is as far along the chain as the apply is (`Progress`),
and that edits a discard has taken are still undone by going back along it
(`Undo`). For `RestoreDiscarded`, which undoes edits oldest first,
`DiscardRestores` shows that it brings back the text before the chain, or tells the
user. Below that it needs that one request for the edits is under way at a
time (`OneAsk`), and that a stash holds what is edited (`StashMatches`).

`LockIsTheHelpers` (`LockAgrees`) needs to know in which order an apply's events and
answers reach the page. Its invariant `LockInv` names how far an apply can be, for page
and helper together: the page is locked for a request the helper has not taken
(`Requested`); it is locked and the apply runs, or the stream still holds its end
(`UnderWay`); the user is asked (`Deciding`); the helper has rolled back
(`RolledBack`); or there is no apply (`AtRest`). Each step stays in its stage or
leads to the next one.

`SavedEditsStayUsable` (`EditsStayUsable`) allows for more trouble, another tab's apply
and lost answers, in which those stages overlap. Its invariant `UseInv` looks at the
stream instead: the last event it holds that has a count has the right one, or none
has one and the dock shows it (`CountComes`); and likewise for the lock once no apply
runs (`FreeComes`). What an event or an answer does to dock and lock is stated once
for both (`ShownDock`, `AnsweredDock`).

Only model-checked: every liveness property (fairness and `ENABLED` are beyond the
prover); and, of the invariants, `LineFollowsPointer`, which is about the boxes and
points the run gives and a result of two sorts and a fold, about which nothing can be
proved without induction over sequences.

## What is left out

Data that no property tells apart: names, tags, audio, hashes, who asks. Requests
that are refused at once and change nothing are no steps. An edit against an
old version is refused in the same way. Storage and database are as reliable as
the code can assume: a call takes effect once or not, at once for storage, and a
committed transaction is serializable with respect to the rows it locks.
`TagRewrites` follows one track and `BotImports` one message, because tracks meet
only in the owner's quota (a choice in `TagRewrites`, `CompleteOverQuota`, and
the subject of `TrackUploads`) and messages only there and in the order they are
resumed. The remaining parts, with the reasons, are in `PROJECT.json`.

## Plan

Done, in this order: `TagRewrites` and `MetadataSync`, `TrackUploads` and
`TrackLibrary`, `PlayQueue`, `BotImports`, `Sessions`, `AccountPurge`, each with
its runs and proofs, and of live mode `LiveSession`, `ComponentPreview` and `PageTools`
over `InsertPlacement` and `CopyEdits` with runs and proofs. Next:

1. `Player`: `PlayerController` over `JustAudioEngine`: loads, preloads and link
   renewals in flight, completions that arrive twice, against an abstract player
   that plays what was asked for last. It composes with `PlayQueue` in the
   choice of the next track. Bounds: two or three tracks, two requests in flight.
2. `Transfers`: the upload and download queues with the upload controller they
   share; cancelling, signing out, lost answers. With `TrackUploads` as the
   server, for "a track the server made ready is not deleted by mistake".
3. Email codes and link codes, where guesses cost attempts and addresses change.
4. `Jobs`: fingerprints and transcriptions as two instances of one lease
   protocol, with and without fencing. Worth proving: a fenced result is never
   overwritten by an older one.
5. Link imports as an extension of `BotImports`; `SaveShared` as a copy of many
   tracks over `TrackUploads`' reservation.
6. `Favorites`, `Lyrics`, `RateLimiter`, then the catalog's grouping.

A theorem to add: `LineFollowsPointer`, for layouts whose siblings are one row or
column in document order, if the sort and the fold get lemmas of their own.
