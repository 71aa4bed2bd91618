# A verification project for fvtt-migrate

fvtt-migrate copies a Foundry VTT installation: it reads a data directory,
plans what to take along, hashes the selected files, and pushes them, by
content, to a directory or to a receiver on another machine. This directory
holds TLA+ models of the parts where order, failure and concurrency decide
whether the copy is right, the TLC runs that check them on small instances, and
TLAPS proofs for every instance.

`tlc -config MCPush_local.cfg MCPush` checks a run; `tlapm PushProof.tla`
checks a proof. PROJECT.json lists the runs, maps definitions to source lines,
and names the hazards, the mutants and the theorems. A definition commented
`mutant` is a plausible mistake in the code; no specification uses it, it is
put in place of the definition after it to show that a run would notice.

## The system

| part | state | operations | with whom |
| --- | --- | --- | --- |
| receiver, `internal/transfer/filetarget.go`, `internal/api/server.go`, `internal/content/cache.go` | blobs on disk, the tree, the index in memory and on disk, `held` | Missing, Put, Place, PlaceMany, Commit, NewReceiver | called by the sender, over HTTP or directly; one handler per call, in parallel |
| sender, `internal/transfer/apply.go`, `internal/api/client.go`, `retry.go` | what is missing, what is placed, the counters | Apply, uploadAll, placeAll, call with retries | the receiver; reports progress |
| progress, `internal/progress` | last event let through | Throttle, Emit | called by the workers of hashing and uploading |
| panel session, `internal/session`, `internal/api/local.go`, `cmd/.../panel.go` | root, last reading, two locks | open, scan, state, plan, run, verify | requests of the browser, in parallel |
| content hashing, `internal/content` | the cache of digests | HashTree, Recheck | before and after Apply |
| verify, `internal/verify` | none | Files, Worlds, Remote | after a run |
| selection, `internal/transfer/select.go`, `internal/scan` | none | Select, Classify, the index | plan to sender |
| plan, `internal/plan`, `internal/version` | none | Build, Recommend, Resolve, Validate | inventory to plan |
| upstream | results by package ID | CheckAll, a pool of workers | plan |
| foundry, report | none | Open, Inventory, EachDocument; formatting | everything that reads |
| serve, browse, token, command line | the stored token | start-up | glue |
| web panel, `web/src` | App: stage, inventory, plan, destination, result; each screen: what it waits for | choosing, reading, planning, switches, starting, stopping, checking, loading the page again | calls api.Local and takes answers as they come |

What is hard here:

- **failure between two steps.** Put, Place and Commit are several system calls
  each; a sender or receiver may stop between any two, and the next run starts
  from what it finds.
- **what is remembered against what lies there.** Blobs are trusted by name,
  placed files by size and time, and both are skipped when they are believed to
  be there. A hard link makes a blob and a placed file one inode.
- **calls that are lost, repeated or late.** A retry may run beside the call it
  repeats.
- **goroutines.** The upload pool: an unbuffered channel, a bounded error
  channel, a mutex for the counters, a throttle with a lock of its own.
- **requests in parallel** over one session whose root changes while a disk is
  being walked.
- **answers that come late** to a page that went on: no answer is tied to what
  was asked for last, a screen that is gone can still change App's state, and
  what changes under a running transfer starts it again.

## Modules

| module | models | composed of |
| --- | --- | --- |
| `FileTarget` | the receiver | |
| `Push` | Apply over a receiver, run after run, with losses, restarts and edits | extends `FileTarget` |
| `Delivery` | what a run promises whoever looks at the destination | refined by `Push` (`Delivers`) |
| `UploadPool` | uploadAll: feeder, workers, errors, counters, progress | |
| `PanelSession` | session.Session and the panel's handlers over it, whoever asks; it has no specification of its own | |
| `Page` | the page: App, its screens, its calls | extends `PanelSession` |
| `Snapshot` | apply and verify around Apply: hashing, the cache, Recheck, verify.Files, against a source that changes | |
| `MCPush`, `MCUploadPool`, `MCPage`, `MCSnapshot` | instances for TLC | |
| `PushProof`, `UploadPoolProof`, `SnapshotProof` | theorems | extend the module they are about |
| `PushKeptProof` | theorems about what stays in place, and the refinement | extends `PushProof` |
| `PushAfterProof` | theorems about what a run leaves behind, what is remembered, and late calls | extends `PushKeptProof` |
| `PageProof` | the types of panel and page, and what the panel's locks are for | extends `Page` |
| `PageShownProof` | the page shows the transfer that goes on | extends `PageProof` |
| `PageAwaitedProof` | what a screen says is under way is | extends `PageShownProof` |

### FileTarget and Push

State and code: `blob` is `.fvtt-blobs`, `file` the tree, `data` what each
inode holds, `index`/`saved` the content.Cache in memory and on disk, `held`
the map of FileTarget. Each call being handled is a record in `call` with its
`pc` at the system call it makes next: `CheckDigest` is one turn of the loop of
Missing; `OpenTemp`, `RejectBody`, `StoreBlob`, `LoseTemp` are Put; `FindBytes`,
`Unlink`, `Link`, `Copy`, `FailPlace`, `Remember` are Place for the entry whose
turn it is; `SaveIndex`, `FailCommit`, `RemoveBlob`, `RemoveTemp`, `Cleared` are
Commit. RemoveAll removes names one by one in any order.

`temp` of a call is what Put's temporary file comes to hold: the body that was
named, or something else, part of it or a source that changed since it was hashed.
Only `StoreBlob` tells them apart, by the digest, as Put does.

`Push` is the sender: `Start` to `SendMissing`, `HandOver`, `SendBlob`,
`SendPlacements`, `SendCommit`, an `Answer...` for each, and `Advance` where a list
is empty. A receiver is asked about `NegotiateBatch` digests a call, in the order of
their paths, and each call has tries of its own, as in Client.Missing; a directory
is asked about all. `LoseRequest`, `LoseAnswer`, `Retry` are client.call and upload;
`Quit` and `RestartReceiver` are crashes; `StopUpload` is the Stop button while
uploading to a directory; `Edit` is somebody at the destination between two runs.
`Remembers` tells a receiver (`serve`) from a directory target.

A digest is uploaded at a time, since uploads of different digests touch different
names; how the workers interleave is UploadPool. What a failed upload does to the
run is here: `GiveUp` ends the worker that made it (`gone` counts them) and not the
run, the feeder hands the next digest to a worker that is left, and uploadAll
returns the error when the list is empty. With no worker left and digests in the
list the run is `Stuck`: nothing but `Quit`, or `StopUpload` in the panel, moves it.

Abstractions: a content is its digest, and `Foreign` is any other; a size and
modification time is the pair of an inode and what it holds, so **every write is
assumed to change size or time**; Put's read of a source file that changed ends
in `RejectBody`; directories, permissions and path safety are left out; a run
has one sender.

`promise` is a history variable: the content a run reported in place at a path,
cleared when a run sends the path again or somebody changes it.

### UploadPool

One step per channel operation, upload attempt, back-off, locked section, and
event. Time is left out: Throttle may let any intermediate event through or
drop it. `stored`, `failed` and `dropped` record what became of each digest.

### PanelSession and Page

Each call of the page is a slot in `req`: `pc` is the handler's next step, or how
it ended; `from` is what the caller remembers of it. A handler is a goroutine of
net/http and interleaves with all others; `HandleOpen` and `HandleSnapshot` are
one step since Session.mu is held throughout, Session.Read is `ReadRoot`,
`TryScanLock`, `ReadDisk`, `StoreReading`, and a run is `HandleRun`, `Copy`,
`EndRun`, with the last event written before the lock is released. A copy may come
to a standstill instead (`Block`): that is uploadAll's feeder when all workers have
failed, and only the end of the request, whose context the run has, lets it return
(`Unblock`). A reading is the root it is of, and whether the files have changed
since the disk was walked (`old`, which `Change` sets in every reading there is).

`page` is App's state and `local` that of the mounted screen. An event, be it a
click or an answer, is one step up to the end of the render it causes
(JavaScript runs it to the end): `Render` is the new state, `CleanedUp` the
cleanups, `Effects` the effects in the order React has them, and `Mounted` what
App renders. What a callback does after an `await` is a step of its own: `Take...`
finds the page as it is by then. A call outlives its screen: `Disowned` says that
the screen's setters no longer do anything, while App's do (`onOpen`, `scanned`,
`onPlan`); `Abandoned` that nobody hears the answer, after an abort or a reload,
though the panel works on. VerifyScreen asks each world of a list that may be
null, and an error in a render removes the page: the screen "nothing".

`Stall` makes the copy of a transfer come to its standstill, and `Cancel` is the
end of a request that was aborted. A page that listens does not abort by itself, so
the standstill may last.

`Holds` says which worlds, folders and packages an installation has, and `Blocked`
which of its worlds lack their system; ids may be those of another installation's.
The cards of the worlds are drawn from the inventory on the page, the blocker of a
card is looked up in the plan on the page, and the two may be of different
installations: `SwitchCard` reads both.

Abstractions: a plan is the installation it is of and the set it takes, worlds,
folders nobody refers to, packages to update; what plan.Build takes by itself is
`Default`, the rest is the user's (`MaxSwitched` bounds how much of it). `other`
is the identity of the plan object, which the effect of TransferScreen compares.
`Trimmed` forgets what no screen looks at any more. A package is the four fields
`split` sorts by, and its id. Clearing a field again, looking through folders,
order and grouping, the figures of the progress display, and the parts of State
but its coming before the plan are left out; so are detect, browse and ping, which
reach none of this state. Abandoned calls that only read are forgotten at once.
There is one page at a time, but one that was loaded again leaves its calls in the
panel. React's second mount of effects in development is not in it.

`pressed` is a history variable: was the transfer on the screen asked for as a
preview?

### Snapshot

The order is main.go's, which the panel repeats: `Start` is Select and
OpenCache; `Stat`, `Hash`, `FailHash` are a worker of HashTreeWithProgress, with
the look and the reading as two steps, and `Hashed` the end of the pool;
`SaveCache` writes the cache and decides about errors, where apply and verify
part; `Ask`, `Put`, `StopSending`, `Sent`, `Place`, `Commit` are Apply;
`Recheck` and `Check` are one turn of the loops of Recheck and verify.Files.
`Write` and `Remove` are anybody in the source at any moment, `Spoil` anybody
at the destination between two runs, `Fail` an error or the end of the process
at any step. `saved` outlives the run, as do the source, the blobs and the tree.

A file is a stamp and a content. The stamp is its size and modification time;
**every change is assumed to give one that the path never had**, which a coarse
clock or a restored time breaks. `SizeOf` tells what comparing sizes sees. A
file that changed since the look is read before, after or across the change,
so `Readable` is then any content. The
destination is a directory whose calls are one step each, since `Push` has
their steps. verify's worlds are not in it. `moment` is a history variable: the
source when the last file was hashed.

## Runs

All Push runs have two paths, two digests and one call at a time unless said
otherwise.

| run | instance | shows |
| --- | --- | --- |
| push_local | directory, any two selections one after another (also one content at both paths), 2 workers, 3 runs, 1 edit | `Kept`, refinement of `Delivery` |
| push_receiver | receiver, stable source, batches of one, 1 worker, 2 runs, 1 edit, 1 restart in any phase, losses, fairness | `TypeOK`, `Kept`, `AnswersTrue`, `NoLeftovers`, `Ends`, refinement |
| push_copies | receiver without hard links, edits in place, 1 restart in any phase but place and commit | `Kept`, `AnswersTrue`, `Remembered` |
| push_late_safe | two slots: calls of earlier runs are still at work, 3 runs, 1 restart | `BlobsTrue`, `RightOrAbsent` |
| pool | 2 workers, 4 digests, any failures, cancellation, fairness | the properties of the pool: nothing lost or counted twice, errors and completion reported, `EndsWithWorker`, `CancelEnds` |
| snapshot | 2 files, 2 contents of one size, 2 workers, 2 changes of the source, 2 runs of apply, a dry run or verify --deep | `OneMoment`, `CacheTrue`, `DeepVerified` |
| page | 2 calls in flight, 2 installations that share a world, whose system only one of them has, one of which changes at any moment and has a package with a switch and one without, the other a folder, 1 destination, 1 decision changed at a time, reload at any moment, copies that stand still, fairness | `TypeOK`, `ReadingOfChosen`, `ReadingsAdvance`, `OneTransfer`, `RunIsShown`, `AsPressed`, `BlockedStays`, `Awaited`, `WaitsEnd`, `LockFreed` |

The bounds: two paths and two digests suffice for a batch of more than one, two
batches, two paths of one content, a path that changes its content, and a path
served from another; a second run meets what an interrupted first one left, a
third (push_local, push_late_safe) meets what the second made of that. In snapshot
one change may fall into the reading of a file and another after it, or both into
two runs with one cache; the contents have one size, since where sizes differ
verify finds a loss without looking at the digest. `NInodes` is chosen so that no run is
short of a free number (checked once as an invariant); numbers are handed out
lowest first, so a larger bound adds no states. `Attempts` is 2 for 5: the first
and the last failure are what the code tells apart; push_late_safe has 1, since
there a further run takes the part of a retry, and push_late has 2. `Workers` is 2,
so one may fail and the other go on; it is 1 in push_receiver, where the run is
stuck as soon as the first of two uploads fails. `NegotiateBatch` is 1, so that two
digests are two calls. Symmetry is
used for call slots in runs of safety properties only. In page two calls are enough
for what goes wrong between calls, one that is late and one it is late for, and for
a run that is still copying beside the next one that is refused; a third would only
be a second late one. Two installations tell the chosen one from another, and one
decision of the user tells a plan from the new one that replaces it. Both have
worlds, so the screen of an installation without any is not reached in this run;
the theorems cover it.
`CHECK_DEADLOCK FALSE` stands in pool and pool_stuck, where the pool may
really stop.

Fairness: in `Push`, a run that can proceed does (`WF_vars(Proceed)`: one
goroutine that Go schedules), and a handler finishes its call (`WF_vars(Work(c))`,
`Forget`: net/http gives each call a goroutine, and every system call returns).
No loss, crash, cancellation, edit or new run is ever forced. In `UploadPool`
the feeder and each worker have weak fairness; an upload attempt ends somehow,
as an HTTP request over a live connection does. In `Page` some handler or answer
goes on as long as there is one (`WF_vars(Progress)`): each handler has a goroutine,
the browser runs its callbacks, and there is no state in which calls go round
without a click. That a copy returns is not assumed: it may stand still, and nothing
but the end of its request, which net/http turns into a cancelled context, moves it.
The run that holds the lock goes on besides (`WF_vars(RunProgress)`), whatever other
requests do. Neither a click, nor a standstill, nor a change of files is forced.

### What the code does not keep

Five runs expect a violation; each property is what a comment, a test, a message
or the README of the repository says.

- **push_overwritten**: `placedAt` never compares the digest of the index entry
  with the one it was asked for. Contents that swap paths (a rotated log, a
  change taken back) are then skipped in Missing and placed from the wrong file.
- **push_late**: the first PlaceMany still runs when its retry was answered; its
  Remove comes after Commit, and nothing is there to link.
- **pool_stuck**: all workers have failed; the feeder waits for ever, since the
  command's context is never cancelled. `Ends` of Push therefore says that a run is
  done, has failed, or is `Stuck`. In the panel the same wait lasts until the page
  ends its request: the screen of such a transfer goes on saying that it is under
  way, which `WaitsEnd` excepts, but once it is stopped or left, or the page loaded
  again, the lock comes free (`LockFreed`).
- **panel_wrong_root**: the transfer reads the root the panel was started with,
  not the one that was chosen and planned. This run is on the page, so it also
  shows how a user gets there: choose, read, plan, start.
- **verify_skips**: verify takes the entries that could be hashed and never looks
  at the errors, as apply does; a selected file that is gone or unreadable in the
  source is missing at the destination while "everything the plan selected is
  present". Without `--deep` the second half of that message, "reads back
  identically", rests on sizes alone, which is why `DeepVerified` is about
  `--deep`.

What holds has limits without a run of their own. Of the sending side and the
receiver; change the constant named to see the first three:

- `Remembered` needs restarts to stay out of place and commit (`RestartPhases`): a
  receiver restarted there saves an index without what the run placed before.
- `AnswersTrue` needs a file system without hard links once somebody edits in
  place (`InPlaceEdits`): after an interrupted run blob and placed file are one
  inode, and the blob is trusted by its name.
- `RightOrAbsent` needs a destination nobody edits while a late call is at work
  (`MaxEdits`): `remember` takes what it finds after the link for what it linked.
- `CompletionShown` is about the event that completes a phase; an earlier count
  may still be written after it (progress.go:113), so a counter may come to rest
  below its total.

Of the page, where each of these is a behaviour of `Page`:

- A plan that comes in after Start replaces the one that runs: the transfer is
  aborted and started again with the decisions of a new plan. Worlds that had been
  switched off are then in it, though Worlds.tsx:21 says that they go nowhere.
  `RunIsShown` and `AsPressed` hold of the new transfer.
- If it comes in when the result is already shown, a second transfer runs behind
  that result: the effect does not clear it (Transfer.tsx:51).
- A transfer that was stopped keeps its progress display, without a button but
  those of the bar; `Awaited` excepts it.
- The page may show the worlds of one installation beside the plan of another: an
  answer is not compared with the root chosen by then. The picker may bounce back
  to the plan of before when GET /api/inventory is answered late.
- A verdict that comes late takes the page away from a running transfer, which is
  aborted. A plan asked for by the target version or the updates that fails shows
  nothing. A reading that failed offers no button.
- A verification without any world at the destination answers `"worlds": null`
  (verify.go:46 promises empty lists); the page is then gone until it is loaded
  again.
- A policy is set by package id, which a system and a module may share.

## Proofs

Constants are as general as the assumptions `FileTargetAssumption`,
`PushAssumption`, `UploadPoolAssumption` and `SnapshotAssumption` say, those of the
page further down: any sets of digests, slots and workers, any numbers of paths,
runs, edits and restarts.

- `PushTypeOK`: types, among them that a call is never tried more than `Attempts`
  times, nor more workers lost than there are. `Waiting` strengthens it by what a
  sender that waits is in: a run, and in its uploads one that has a digest in hand
  and so a worker left to lose.
- `PushBlobsTrue`: every blob holds what its name says, also with calls handled
  late, as long as nobody writes into a file that is a hard link (`Unshared`: no
  edits, none in place, or no hard links). A file is written only under a free inode
  (`FreshIsNew`), only `StoreBlob` gives an inode to a blob, and where files are
  copied no two names share one (`Apart`).
- `PushKept`, `PushAnswersTrue`, `PushDelivers`: under `Calm` (no call is handled
  after its sender gave it up, `Unshared`, and the source of a remembering receiver
  does not change) what a run reported stays, what the
  receiver says it has it can serve, and every step is one of `Delivery` or none
  that it sees. The three share one inductive invariant, `KInv`. `Kept` alone says
  nothing of a run under way, so it is joined by: `Alone` (one handler at work at
  most, the one the run waits for), `Shape` and `Batches` (what that handler still
  has to place is of the run's selection and promised by nobody), `Progress` (paths
  the run is through with hold what was selected), `Sources` (the bytes a placement
  is about to link are the right ones, and not under the path it unlinks) and
  `Memory` (an index entry says what the source has at its path). `Memory` gives
  `AnswersTrue`; `AnswersTrue` gives `Sources` when bytes are found; `Sources`
  gives `Progress` when a batch is answered; `Progress` gives `Kept` at Commit.
  Calm is what push_receiver and push_copies assume; push_local, whose source
  changes, satisfies it too, since a directory target remembers nothing.
- `PushNoLeftovers` needs of Calm only that no call is handled late. `Emptied` says
  that there is no blob once a commit has ended well, until it is answered and after;
  `Alone`, here proved from that assumption by itself (`NextAlone`), that nobody is
  at work who could store one in between.
- `PushRemembered`, under `Settled` (Calm, a receiver that remembers, and no restart
  while a run places or commits). The state at the end of a run says too little, so
  `Entered` follows each path: once its batch is through, its index entry is the
  digest, the inode and the bytes that lie there (`Recorded`); once the commit has
  saved, so is the entry on the disk. A receiver started anew reads these, and what it
  holds a digest at is a path the source has it at, by `Memory`, hence recorded too.
- `PushRightOrAbsent`: calls may be handled at any time, so nothing of `Alone`,
  `Progress` or `Sources` holds. What does is `Known`, which no longer depends on the
  order of calls: what a call has in its batch, what lies at the path it copies
  from, and what is remembered, is what the source has there. It needs a source that
  does not change (`Stable`) and no edits (`MaxEdits = 0`), with or without hard
  links; push_late_safe is such an instance, and `BlobsTrue` the other half of its
  invariant.
- `PoolTypeOK`, `PoolNilMeansAll`, `PoolAccounted`, `PoolErrorReported`: the
  inductive invariant follows each digest from the feeder into exactly one of a
  worker's hands, `stored`, `failed` and `dropped`, and ties the errors in the
  channel to the workers that are gone.
- `PoolCountedOnce`, `PoolCompletionShown`: a digest joins `Counted` (stored, and in
  nobody's hand) in the step that counts it and in no other (`NextCounted`), so the
  counter is its cardinality. `Completing` says that the event of the last count has
  been shown or is with a worker that can only write it; later writes of earlier
  counts do not take `shown.final` back. `CompletionShown` takes both: when uploadAll
  has returned with all digests stored, all are counted.
- `SnapshotCacheTrue`: an entry lies only if its stamp is the file's while the
  content is not. `Recorded` extends this to a worker's look: a stamp still the
  file's means that nothing was written since. `Past` and `PastJobs` say that no
  stamp is of the future, so a change takes a file away from all of them.
- `SnapshotOneMoment`: `Owned` (every selected path is with the pool, in the
  entries or in the errors), `Still` (from the last hash on, a file with the stamp
  of its entry has not changed since `moment`), `Delivered` (paths that are placed
  hold what their entry says) and `Passed` (a path Recheck let through had its
  digest at `moment`) together make the copy one of `moment`. A change after a path
  was rechecked does no harm, since its bytes are at the destination.
- `SnapshotDeepVerified`: `Passed` also says of each path that Files let through
  that the digests are equal; `Recorded` makes the digest the file's.
- `PageTypeOK`: `Typed` says of every slot which caller makes which call, which
  steps its handler has, and what it has in hand there (`CallerOK`, `HandlerOK`):
  without them the answer a callback takes need not be of the type it stores.
- `PageReadingOfChosen`, `PageOneTransfer`, `PageReadingsAdvance`: all the panel
  sees of a step of the page is `PageStep`, that a slot is filled or cleared when
  nothing is at work in it (`PageLeavesWork`), so these hold under any page that
  calls as this one does. What the panel's own steps do to the slots is `PanelStep`,
  what a change of the files does to them `ChangeSlots`. `ScanHeld` ties the lock to
  the slot that reads, and `Newer` says that what it is about to store is old only
  if what is there is old too.
- `ShownRunIsShown`, `ShownAsPressed`, `ShownBlockedStays`: a step changes the slots
  of the page's transfer only through `CleanedUp` and `Effects`. Either these leave
  every transfer alone, and then screen, plan and destination are what they were, or
  they abort every transfer, and at most one is started, with the new ones.
  `AskedAs` and `NoneBlocked` say the same of the page that the theorems say of what
  was sent; what is blocked is so in the installation the plan is of (`Unblocked`),
  whichever inventory is shown.
- `PageAwaited`: `Placed` says where the owner of a call is, `Hears` that what a
  screen waits for is its own. A call of an earlier visit does not count, since its
  failure would tell nobody.

The page's theorems assume `PanelSessionAssumption` and `PageAssumption`: any
installations, plans, worlds, packages and destinations, any number of requests in
flight, changes and decisions.

Every invariant, action property and refinement that a passing run checks is a
theorem, under hypotheses the instance of that run satisfies. Only checked by TLC
are, since liveness under fairness is out of the prover's reach, `Ends`,
`EndsWithWorker`, `CancelEnds`, `WaitsEnd` and `LockFreed`. The inductive invariants were
checked by TLC on the instances of the runs before they were proved.

## Not modelled, and the plan

1. verify: which losses Worlds and Remote notice (Remote compares the totals of a
   world, Worlds each namespace), over small worlds.
2. A second sender at one receiver; a shared cache of two processes.
3. The stored token; Hello's capabilities and placing one by one; listings of
   folders in the picker, of which a late one replaces a newer one.
4. Operators for plan, version, selection and upstream, checked against
   reference definitions over small inputs.
5. Proofs: the safety half of `Ends`, `WaitsEnd` and `LockFreed` (a measure that falls with every
   step nobody forces), and what of `Kept` is left when calls are handled late but no
   placement is repeated.

Left out for good: formatting and report, order and grouping of lists on the page,
directory walks, LevelDB reading, the HTTP servers' start-up, argument parsing.
