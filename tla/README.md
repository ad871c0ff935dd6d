# Formal models of relayfile-adapters

TLA+ specifications of the stateful core of this repository, the TLC
configurations that check them on small instances, and TLAPS proofs of the
properties that matter most for every instance. Paths below are relative to
`src/packages/`. Run inside this directory:

    tlc -workers 2 -config MCAtomicIndex.cfg MCAtomicIndex
    tlapm AtomicIndex_proofs.tla

`PROJECT.json` lists the components, the runs with their properties, a plausible
bug ("mutant") that each property catches, the source lines of every
definition, the findings, the hazards of the code and the theorems.

## The system

The repository turns provider events (webhooks, listings, storage
notifications) into files of a Relayfile workspace, and files that agents write
into provider calls. About fifty provider packages translate payloads and paths;
they are mostly stateless. What keeps state, waits, retries or runs concurrently
is a small shared core, and the GitHub adapter, the richest of the providers:

| Component | State | Operations | Talks to |
|---|---|---|---|
| Atomic index upsert, `core/src/atomic-index` | one `_index.json` with its revision; per call: attempt, content and revision read | `upsertIndexAtomic`: read, merge, compare-and-swap write, back off | the VFS; called by every ingest of github, linear and notion |
| Storage bridge, `core/src/storage-bridge`, `s3/src/bridge.ts` and ten more | claims of the publisher and of each worker, subscriptions, attempts, dead letters | `handleNotification`, `publish`, worker `start`/`stop`/`handleEvent`, retry, dead letter | provider notifications in, `ingestWebhook` of Relayfile out |
| Schema-driven sync, `core/src/runtime/schema-adapter.ts` | a checkpoint file (cursor, watermark); per run: position, filter, page, watermark | `sync`: request a page, write its records, store the checkpoint | the provider's listing; record files with revisions |
| Writeback client, `core/src/vfs-client`, `relay-helpers/src/receipt.ts` | per call: admission, operation id, deadline, outcome | `writeJsonFile` over a mount or HTTP, `created` | Relayfile's operations and workers |
| Relay scopes, `relay-helpers/src/transport.ts`, `write-authorizer.ts` | a process transport; a chain of authorizer frames per asynchronous context | bind, restore, run scoped, spawn, write | decide which transport a write of the writeback client takes, or deny it |
| Auxiliary files, `core/src/emit-auxiliary`, e.g. `confluence/src/emit-auxiliary-files.ts` | record files, aliases and rows in the VFS; per batch: queued rows and errors | `runEmitBatch`, `PriorAliasReader`, `IndexFileReconciler.flush` | a VFS client that may lack `readFile` or `deleteFile` |
| GitHub record mirror, `github/src/index.ts`, `pr/diff-writer.ts`, `issues/issue-mapper.ts`, with `core/src/alias-lifecycle.ts` | per record: canonical file, by-id and by-title alias, index row; per call: the record, the version before, candidates for deletion | ingest (webhook, materialisation, backfill), `cleanupStaleAliases`, gate refresh | GitHub's API, the VFS, the atomic index |
| GitHub pull index, `github/src/pull-index-convergence.ts`, `lazy.ts`, `index-emitter.ts` | rows per repository, the root index, in-flight materialisations | scan by page, upsert, materialise | GitHub's listings, the atomic index |
| HTTP retry, file cache, webhook server, bulk ingests, Linear reconciliation | see "Not modelled" | | |

What is hard in them: several callers interleave at every `await` on files that
only some paths protect with a revision; answers are lost after the effect;
deadlines race answers; claims expire or outlive a crash; pages shift while they
are read; one of several steps fails and the others go on; clients lack
operations; scopes are left in another order than they were entered. What makes
each correct:

- *Index*: no upsert undoes another's row; at most one caller creates the file;
  a fault-free call never exhausts a sufficient budget.
- *Bridge*: a claim never outlives its work; one handler at a time per event and
  worker; bounded delivery; a final outcome; `publish` resolves after the work.
- *Sync*: what lies below the stored watermark is in the workspace; a pass over
  the whole listing is complete; stalled listings are noticed; in the end
  everything arrives.
- *Writeback*: "confirmed" means applied, "dropped" means never applied, a create
  draft is applied once, every call settles.
- *Scopes*: a write asks exactly the authorizers it was under when it began, in
  the order of binding; nested transport bindings restore.
- *Auxiliary files*: every wrong file is named in an error; the index follows the
  records.
- *Record mirror*: indexes and aliases name stored records; an ingest that goes
  through repairs what failed ones left; renames leave one alias and the cleanup
  never removes it; a gate refresh fails closed.
- *Pull index*: a scan loses no pull request it set out with; the index converges.

How they compose: every row written by the mirror and the pull index goes through
the atomic index, which `AtomicIndex` refines to one atomic merge (`IndexStore`);
`RecordMirror.WriteRow` and `PullIndex.Upsert` use it in that form.

## Modules

| Module | Models |
|---|---|
| `IndexStore` | abstract index: every upsert is one atomic merge |
| `AtomicIndex`, `AtomicIndex_proofs` | the compare-and-swap loop; refines `IndexStore` |
| `StorageBridge`, `StorageBridge_proofs` | bridge, publisher and workers in one process, with restarts |
| `SchemaSync`, `SchemaSync_proofs` | runs of `sync` over a changing listing |
| `Writeback`, `Writeback_proofs` | calls of `writeJsonFile`, Relayfile's workers (external) and `created` |
| `RelayPolicy` | abstract scopes: a set of bindings per context |
| `RelayScopes`, `RelayScopes_proofs` | frames, restore callbacks, the process transport and writes; refines `RelayPolicy` |
| `EmitAuxiliary`, `EmitAuxiliary_proofs` | batches of the Confluence space emitter over the shared core |
| `RecordMirror`, `RecordMirror_proofs` | ingests and gate refreshes of one issue or pull request |
| `PullIndex`, `PullIndex_proofs` | scans, ingests and materialisations over the index files |
| `MC*` | the instances for TLC |

Common conventions. A step ends where the code awaits something another caller
can affect; everything up to the next such point is one action. Actions named
`...Fails`, `...Refused` or `...Lost` are the error paths; where a step has one
outcome on failure, it is a disjunct with `Fails`. Definitions introduced by
`(mutant)` are not part of a specification. External parts (the VFS, the
provider, Relayfile) do what the calling code relies on, plus the faults named in
the module. History variables are marked `history` and never guard an action.
A variable `setting` (`deployment` in `StorageBridge`), chosen in `Init` and never
changed, is the instance at hand: options, who calls what, which faults occur and
how often. One run so covers several instances of the same question.

### AtomicIndex

`Writers` are calls on one path. `pc[w]` is `read`, `write`, `sleep` or how the
call returned; `seen` and `base` are the snapshot of the current attempt. The
read has three outcomes because `readIndexWithRevision` has: content with
revision, content without one (taken as revision "0"), and nothing, where a
missing file and a failed reader are the same to the code. The write conflicts,
succeeds, fails with another error (rethrown at once), is applied with its answer
lost, or is applied and repeated below the helper so that the helper sees a
conflict with its own write. A row is named by the call that wrote it.

### StorageBridge

A notification walks its batch in order: claim, push to the workers subscribed at
that moment, wait for all (`Promise.all`). A handler claims, fetches (deletions
are not fetched), ingests up to `MaxAttempts` times and dead-letters. `Ttl` lets
publish claims expire at any moment. The publisher and the workers are given their
idempotency stores separately: `Lasting` keeps the publisher's claims over a restart,
`Durable` the workers'. A store outside the process may also reject a claim, having
recorded it or not: `PublishClaimFails` makes `handleNotification` reject, and
`HandlerClaimFails`, which happens outside the worker's try block, leaves the event
"unclaimed": neither ingested nor dead-lettered. `ResolvedMeansSettled` exempts that
by name, and its premise says that publish claims outlast the workers'. `outcome` and
`received` are history. Only the event id is kept of an event.

### SchemaSync

Marks stand for the cursor field's values; a record's version is its mark.
`Page`, `Skipped` and `ServedCursor` are the provider; `NextCursor`, `HasMore`,
`HasNext`, `RepeatedLink` and `RepeatedPage` are the code's view of it, for the
four pagination strategies. Each record and the checkpoint are written with a
revision read one step earlier, as in the code, so overlapping runs conflict.
`sized` says whether the adapter knows the size of a full page: without one
(no `options.limit`, no `pagination.pageSize`, or one the provider does not fill)
`HasMore` is false and a pass over numbered pages or offsets ends after the first, as
`schema-adapter.sync.test.ts:742-791` expects. `FreshPassIsComplete` exempts that case
by name (`Unsized`).
`Touch` changes a record at the provider with a new highest mark; equal marks
occur among the initial ones only.

### Writeback

Over a mount a call renames its draft into place and polls the same path. Over
HTTP it sends PUTs (the SDK repeats them) until the admission deadline, then polls
the operation, then the error class is decided. `ops` are Relayfile's operations,
minted once per identity for create drafts; `file` and `acting` are what the
mount and its worker do. `Retry` is a caller that follows the `retryable` flag.
`Reported` is `created`'s translation of the outcome.

### RelayScopes and RelayPolicy

A context (`AsyncLocalStorage`) holds one frame in `store`; a frame points to the
frame it was made under and is never removed, only deactivated. `ActiveFrame` and
`Authorizers` walk up the chain as the functions of that name do. `Restore` may be
called for any active binding in any context that exists, because callbacks can be
handed around; `RunScoped` makes a frame that is never restored. A write takes the
transport and the list of authorizers in one step (`StartWrite`) and then asks
them one at a time; a throw or a malformed answer is a denial, as in the code.
Transports are process-wide: each binding remembers its predecessor.
A write without transport and without fallback throws; every client of the package
passes a fallback. The setters of the process transport beside
`bindRelayTransport` (`transport.ts:237-249`) are not modelled.
`RelayPolicy` says what a reader of the package expects: a context is under a set
of numbered bindings, a release removes one from all of them, a write asks the
ones it began under in ascending order. The refinement maps the chain above
`store[c]` to that set. It needs no condition on the order of releases. For transports,
`TransportOfNewest` says two things: with nested releases (`nested`) the process has the
transport of the newest binding in force, and with releases in any order the last
binding stays in force until its own release, if no older one has the same transport
(`Distinct`). The condition is needed: a release recognises its binding by the
transport alone (`transport.ts:259`), so an older binding of the same transport,
released out of order, does overwrite the newer one although line 253 says it will not.

### EmitAuxiliary

A batch is planned record by record: read the by-id alias, compute the stale
paths, delete them, write the new ones; then the index is read once and written
once. `caps` says which optional operations the client has. `expected` is what
the files should hold by the records given so far, `owed` the paths and rows in
the errors that nothing has made good since, and `RetryPath` the caller that
repairs a reported path, as `EmitAuxiliaryFilesResult` invites it to.
Three histories delimit what the code does not promise: `blind` (the prior
version could not be seen when the record was planned), `evicted` (a key taken
over by another space before the first gave it up) and `unsure` (rows another
flush, or a failed index read, dropped).

### RecordMirror

One issue or one pull request (`setting.kind`) and the files that mirror it. A
version of the record has a title; versions may share one, so that a record is
renamed back. A file's bytes are its version and, of a pull request, the gate and
whether its mergeability is known: comparisons of bytes are equalities of these.
`Ingest` follows `reconcileIssueRecord`, `ingestIssue` and `ingestPullRequest`:
fetch, the gate's verdict, `meta.json`, the previous alias, by-id, for issues the
probe for a title collision, by-title, the cleanup of the previous title's aliases
one by one, and the index row. Where errors go differs and is modelled as the code
has it: a pull request stops without `meta.json`, an issue goes on; an exception in
a webhook's ingest makes it write the envelope's record once (`Throw`); the cleanup
swallows its own. A title without a slug (`NoSlug`: emoji, punctuation) throws where its
alias path is made, after the by-id alias was written (`WriteByIdOnly`): no title alias,
no cleanup, no row. A VFS that cannot delete (`deletes`) has no candidates to clean up.
`OneTitleAlias` exempts these two by name (`Cleanable`). `Refresh` is `reconcilePullRequestGateRecord`: keep what the alias
holds, mark the alias and `meta.json` pending, ask the provider, write both back.
`clean` and the setting's `callers` delimit what is promised: `Repaired`,
`OneTitleAlias`, `FreshAliasSurvives` and `FailsClosed` are about calls one after
another, because refreshes and cleanups take no revision and TLC finds them to undo
each other when they overlap (hazards at `github/src/index.ts:918` and
`github/src/alias-cleanup.ts:53`). `NothingDangles` holds however calls overlap.

### PullIndex

A row is the version of the pull request it shows, 0 for no row. A scan follows a
page number and moves on only when the page's rows are stored; a caller repeats a
call that rejects, which is why a failure leaves the scan where it is. An ingest
replaces one row, then the repository's row in the root index. A materialisation
reads the root index before the request for the metadata and writes it after,
lists all pages, writes the rows outright and ingests what it listed; an ingest whose
alias write throws takes the materialisation with it. A second caller with the same
map and plan gets the same promise and is no call of its own; under another map or plan
it is one, so materialisations of one repository overlap. Pull requests
are opened and changed at any moment and never leave the list of all states, so
numbers are positions by creation. `goal` is what was open, at which version, when
the call began (history).

## Runs

| Run | Instance | Shows |
|---|---|---|
| `atomic` | 3 calls (2 on one record); all five faults with 2 attempts, no fault with 3; file present or not | types, `WinningReadIsCurrent`, `NoLostUpdate`, `NoExhaustion`, refinement of `IndexStore` |
| `bridge_races` | 2 deliveries of a batch of 2; 2 workers in memory with a throwing error hook; 1 worker with 2 restarts and all faults, where both stores survive and publish claims expire or not, or only the worker's store survives | types, `ResolvedMeansSettled`, `SingleFlight`, `BoundedDelivery`, `SettlesOnce` |
| `bridge_memory` | 1 worker, in-memory stores, 1 restart, fairness | `ClaimGuardsWork`, `HandoverSettles` |
| `sync` | 3 records (2 with equal marks), pages of 2, 18 kinds of listing (6 of them numbered pages without a size), 1 failure, page limits 1 and 3; two overlapping runs | types, `CaughtUp`, `StallStopsEarly`, `CheckpointCoversWritten`, `FreshPassIsComplete`, `EverythingArrives` |
| `writeback_own` | a create draft over HTTP, a plain file, a mounted draft; 3 PUTs | types, `ConfirmedMeansApplied`, `DroppedMeansNeverApplied`, `AppliedOnce`, `CallSettles` |
| `writeback_shared` | 2 mounted calls on one path | **violated**: `ConfirmedMeansApplied` |
| `scopes` | 2 writing contexts under 2 bindings; 3 contexts, 3 bindings, 1 writer; 4 transport bindings, released in every order | types, `TransportOfNewest`, refinement of `RelayPolicy` |
| `emit_batches` | 2 emitters, 3 records, names and a key that change hands, every capability, 1 error | types, `GapIsReported`, `IndexFollowsRecords` |
| `emit_nameless` | a space without a name that is named later, no error | **violated**: `GapIsReported` |
| `mirror` | titles A, B, A again; serial calls with 2 failures; with 1, titles A, B, A, none, A and a VFS that cannot delete; 2 overlapping calls with 1; issues with backfills, pull requests with refreshes | types, `NothingDangles`, `Repaired`, `OneTitleAlias`, `FreshAliasSurvives`, `FailsClosed` |
| `mirror_snapshots` | a pull request, serial calls, no failure | **violated**: `EverySnapshotInvalidated` |
| `pulls` | up to 3 pull requests, pages of 2; a scan beside an ingest, a scan, a materialisation; serial calls with 2 failures; 2 repositories materialised in turn | types, `RootLists`, `ScanCovers`, `Delivers`, `IndexConverges` |

Why the bounds are enough to be interesting. A lost update needs two calls and a
third to hide it; a second attempt is where a stale snapshot would matter. Two
deliveries of a batch of two have a duplicate ahead of, at and behind the one in
flight; with `MaxAttempts = 2` there is a retry, a last attempt and a dead letter;
two restarts let a claim be found, lost and found, by a publisher and a worker that
remember alike or not. Three records with pages of two
have a full page, a partial one and, with equal marks across the page boundary,
the tie that an exclusive filter would lose; a listing of exactly one page is
reached through the filter. Three PUTs allow a lost answer, a repeat and a retry
after the error. Three bindings give a chain with an inactive frame at the top, in
the middle and at the bottom, restored from the context that made it and from
another; four transport bindings over two transports repeat one with another
between. The emitters' batches rename, remove and recreate, move a key in both
orders, and meet at the index; one error can fall on any operation. Three versions
over two titles are the rename and the rename back of issue #106, and two failures
can hit a call and the one that repairs it. Three pull requests with pages of two
have a full and a short page, and an empty one after two; one is opened in between.
`MaxMark`, `MaxFaults`, `MaxOps`, `MaxPuts`, `MaxEmits`, `MaxVersion`, and the
settings' `faults`, `restarts`, `last`, `pulls`, `bindings` and `transports` bound
what would otherwise be unbounded and appear in the guards; `CHECK_DEADLOCK FALSE`
is set where all calls may have returned. `mirror` declares its two calls symmetric,
which is sound there: they differ in nothing and the run has only invariants.

### The findings

- `writeback_shared`: over a mount, `waitForReceipt`
  (`core/src/vfs-client/index.ts:857`) accepts any JSON at the draft's path that
  differs from its own and has an id-like field. A second call on the same path
  therefore confirms the first, although no provider has seen anything.
- `emit_nameless`: a space without a name is published under its key
  (`confluence/src/emit-auxiliary-files.ts:331`), but the prior state read back
  (line 459) forgets that: its old by-title alias is neither deleted nor reported.
- `mirror_snapshots`: a gate refresh promises to "invalidate any previously-ready
  snapshot" (`github/src/index.ts:512`) and rewrites the by-id alias and
  `meta.json`. The by-title alias, where `ingestPullRequest` stores the same bytes,
  keeps showing a ready gate, during the refresh and after it.

The histories of `EmitAuxiliary` mark further places where the code gives up
silently: an index that cannot be read counts as empty and the rows of other
records go (`core/src/emit-auxiliary/index.ts:339`), and a record updated and
removed in one batch keeps its row (line 355).

## Fairness

Fairness is weak and only on what the runtime drives: an awaited promise settles,
a timer fires. Faults, restarts, provider changes, new notifications and the
actions of Relayfile's workers are never fair: they need not happen.

- `StorageBridge`: each publish and each handler in flight. Workers need not be
  started.
- `SchemaSync`: each run's steps, and that somebody starts a run again and again,
  which is what a scheduler that calls `sync` does; `EverythingArrives` is about
  repeated runs.
- `Writeback`: each call's own steps. The workers may do nothing at all, which is
  why `CallSettles` rests on the deadlines. It concerns the calls that wait.
  The code tests the deadline between two answers of `getOp`; fairness of the polling
  step includes that every `getOp` answers or rejects.
- `PullIndex`: each call's steps, and that a caller who scans starts a scan again
  (the convergence job is periodic). Ingests and materialisations need not happen.

`AtomicIndex`, `RelayScopes`, `EmitAuxiliary` and `RecordMirror` are checked for
safety only and assume no fairness.

## Proofs

All proofs hold for every value of the constants that satisfies the ASSUMEs of
the modules (any number of calls, keys, paths, faults).

`AtomicIndex_proofs`

- `TypeCorrect`: `TypeOK` is inductive, its last conjunct included (a call that
  sleeps has an attempt left).
- `WinningReadIsAuthoritative`, `NothingLost`, `CreatedOnce`: the heart is that a
  matching revision identifies the content. `WinningReadIsCurrent` is not
  inductive: a call that read a revision *above* the current one could become
  fresh later. `RevisionsGrow` excludes it (no base exceeds the revision; an
  absent file has no rows and nobody is done), and revisions only grow, so a call
  that is not fresh never becomes so. `NothingLost` and `CreatedOnce` follow
  because every successful write merges into the content as it is.
- `BudgetSuffices`: without faults, `Budget` charges every attempt a call has lost,
  and every write it has missed since it read, to another call that is done.
  An exhausted call would have `MaxAttempts` others done; they are fewer.
- `Refinement`: a step that writes maps to one `Upsert` of the abstract index,
  every other step to a stutter, by `WinningReadIsCurrent`.

`StorageBridge_proofs`

- `TypeCorrect` from `TypeInv`, which adds `Tries` (a handler short of its dead
  letter has an attempt left).
- `HandlesAlone` from `Flight`: handlers exist only while their notification is
  delivering or after the hook threw (`Placed`), so that a notification moves on
  only without them, and whoever is past the claim holds it (`Held`).
- `DeliveryIsBounded` from `Counted`: what Relayfile has received of an event is at
  most what forgotten claims account for (`Allowance`), plus the attempts of the
  one handler at work.
- `OutcomeIsFinal` from `Fresh`: as long as no claim is forgotten, whoever is at work
  on an event finds it unsettled, and every settled event is claimed.
- `ResolvesWhenSettled` and `ClaimsGuardWork` from `Delivery`: publish claims that do
  not expire keep two deliveries of an event apart (`Apart`), and a claim has work
  or an outcome, or was left by a restart or by a claim that rejected, with stores that
  survive both, in which case the publisher's claim keeps the event from being
  delivered again (`Guarded`, `Abandoned`). The last disjunct is what makes the
  invariant inductive for every kind of store.

`Writeback_proofs`

- `TypeCorrect` from `TypeInv`, which adds that a polling call polls an operation
  that is its draft, and that an answer naming an operation names one that exists.
- `ConfirmedIsApplied`, `DroppedIsNeverApplied`, `DraftsAreAppliedOnce` under
  `OwnPaths` (no two calls share a path; HTTP paths name create drafts or concern
  no provider). `writeback_shared` shows that the first half is needed. The
  invariant `Evidence` says where everything comes from: calls keep to their way
  (`Ways`), operations and files stem from a call (`Origins`), a draft has at most
  one operation (`OneOp`, by the content identity), effects match operations and
  acted-on drafts (`Effect`), and every outcome has its ground (`Grounds`). The
  operation an answer names is the last one minted; that it exists is an induction
  on the naturals through a well-founded relation (`LastExists`).

`SchemaSync_proofs`

- `TypeCorrect` from `Inv`. A run's actions are first sorted by what they move
  (`Stepped`: started, ended, paged, prepared, written, refused, saved), because every
  write also marks other runs' revisions as old; the invariants below go through these
  seven cases instead of the model's actions. What a listing is comes next: sorted by
  key and complete above its filter, and its pages are consecutive (`Listings`, `Pages`,
  `NextCursors`, by well-founded induction over positions).
- `WatermarkCoversWritten` from `Covered`. The stored checkpoint is `Reliable` and every
  run `Sound`: all below the watermark and all up to the cursor was written, and up to
  the end of the page in hand what was not is still in the queue (`Coming`), unless a
  write of the page failed. The bounds are ones the provider has given (`KnownMark`,
  `KnownKey`), so that a record that changes lands above them, which is the assumption
  on new marks that the model states.
- `WatermarkIsCaughtUp` adds `Unmixed`: where one caller runs, a queue holds no version
  older than the one written (`Fresh`), so what was written is what the workspace has.
- `StallIsNoticed` from `Noticed`: a run at a listing that ignores its position has read
  one page, and holds the link or the page that the next answer repeats (`Stalled`).
- `FreshPassCompletes` from `Passes`: what a pass from the first page has come past
  (`Reached`) is in the workspace or still in the queue, and the next position does not
  skip any of the rest (`Passed`); of numbered pages it needs that their size is known.

`RelayScopes_proofs`

- `TypeCorrect` from `Inv`. The chain of a frame is a recursive function along pointers
  to smaller numbers; `Climb` is the induction for any such pointers and `Follows` the
  recursion, each proved once from a least counterexample. A frame's `LineOf` is the set
  of its chain; a frame that is made adds itself to the line of the one before (`Tops`),
  others keep theirs (`Grows`), a release takes one frame out of every line (`Drops`).
  `Written` adds to the types that what a write has still to ask is in ascending order
  and behind what it has asked (`Ordered`).
- `NestedTransports` from `Stacked`: every transport binding in force remembers what the
  ones below it leave in force (`Below`), which is what a release puts back. Releases in
  any order: from `Top`, as no other release recognises the last binding for its own.
- `ImplementsPolicy`: the initial state and each action map to the policy's, or to a
  stutter (`PolicyBind`, `PolicyRelease` and so on, then `PolicyStep`).

`EmitAuxiliary_proofs`

- `TypeCorrect` from `Base`: files hold nothing but versions of records some emitter is
  given, at their paths (`Genuine`), and an emission deletes and writes only paths that
  are its own (`Own`) and only what is expected there (`Works`).
- `GapsReported` from `Accounted`: a path with something other than what is expected is
  in an error, in the hands of the emission at work on it, taken over, or was out of
  sight (`Settled`). It assumes `Named`, that no record has a key and no name;
  `emit_nameless` shows that the assumption is needed.
- `IndexFollows` from `Tracking`: each record that was planned is queued for the index,
  and the last of an id in the batch as it is to be published (`Told`, `Final`).

`RecordMirror_proofs`

- `TypeCorrect`, `NamesAreStored` from `Inv`. `Sound` is about the files: of a pull
  request, every file's version has a canonical file. It is inductive only with what
  each call under way can count on (`Fits`): past `meta.json` its record is stored, if
  it counts as stored or is a pull request, and a refresh holds a record that is. As
  canonical files and the by-id alias are never deleted (`Grows`; the candidates of the
  cleanup are title aliases), one call's step leaves what the others count on.
- `CleanupSparesFresh`, `RefreshFailsClosed` from `Solo`, for callers one after another
  and any number of failures: a call that cleans up still has the alias it wrote, and
  that alias is not among its candidates (`Knows`), which is what `Stale` leaving out
  the alias in use is for; a call that has marked the alias and is about to mark
  `meta.json` finds the alias as it left it.
- `RenamesLeaveNothing` from `Orderly`, for one caller without failures and refreshes,
  where the cleanup can work (`Cleanable`), so that every version mirrored has an alias.
  Between calls the by-id alias names the only title alias there is (`Neat`); up to the
  write there is also the one the call makes (`Renaming`); after it, the old ones that
  the cleanup still has on its list (`Sweeping`), until the files are `Neat` again.
  Whatever the probe for a collision finds is then the record's own alias, which is why
  a call never takes the collision's path.
- `IngestRepairs` from `Mending`: while no change is left to be told (`due`) and nothing
  has failed since the last full ingest began (`clean`), what each step of the call in
  progress has put right stays right, whatever earlier calls left (`Mends`): first the
  canonical file, then the alias, then the row, and of a pull request the gate
  (`Synced`).

`PullIndex_proofs`

- `TypeCorrect` from `Inv`: the pull requests a call holds are open (`Fits`), and the
  provider's list only grows.
- `ScanIsComplete` from `Scans`. Only a caller that materialises is ever between
  `metadata` and `outright`; where nobody does, a row once there stays (`Lasting`).
  A scan at page `k` has rows for all of its goal up to `Offset(k)`, and one about to
  merge holds the rest of its page, which is short only if the goal ends there
  (`Covers`). `Paging` says what a page of the list holds, `PageStored` that storing
  it extends the first half to the next page. As the list may have grown since the
  scan began, `Covers` compares the goal with the list as it is.
- `RootIsComplete` from `Roots`: for calls one after another and while nothing failed,
  the copy of the root index that a materialisation holds across its request is the
  file, and past the write its repository is in it (`Rooted`).
- `WorkIsDelivered` from `Held` and `Shown`. `Held` holds for any number of callers: a
  batch is nowhere older than the goal, and the pages read hold what they should, which
  for a list read from its newest end (`PagingBack`) means everything but the numbers
  below the page, however many were opened since. `Shown` is about a caller by itself:
  the rows show the goal up to the page a scan has reached, and all of it once a
  materialisation without failures has written its list (`Shows`). `EndOfScan` and
  `EndOfWhole` say in which steps a call ends.

Only model-checked: the liveness properties `HandoverSettles`, `EverythingArrives`,
`CallSettles` and `IndexConverges` (liveness and ENABLED are outside the prover's
reach). Every other property of the passing runs is a theorem. Four theorems have
hypotheses beyond the ASSUMEs: `OwnPaths` (three of `Writeback`) and `Named` (one of
`EmitAuxiliary`) hold in the passing runs' instances and fail in those of the findings; a property that
is about calls one after another (`Alone` and the like) says so itself.

## Limits of the models

Contents, names and payloads are opaque; hashing, slugs and rendering are not
modelled, so titles are told apart by their slugs, of which `RecordMirror` knows one
title without any; a blank title, which has no alias and throws nothing, is left out. Time is absent: deadlines and
back-offs may fire at any moment, and the lengths of back-offs do not matter.
`SchemaSync` assumes that no record takes the newest mark after a page with that
mark was read, apart from initial ties. `EmitAuxiliary` models one adapter's space
records and not a process that stops inside a batch. Overlapping `sync` runs can put
an older version back over a newer one; `CheckpointCoversWritten` is about what was
written at some time for that reason, and `CaughtUp` about serial runs. `RecordMirror`
has one record, so a title collision comes only from what earlier versions left, and
`PullIndex` shows of a row its version, not its fields: that an ingest replaces a
row by one with fewer fields (`github/src/index-emitter.ts:415`) is not checked. A title
without a slug is one of its failures.

## Not modelled

- *HTTP retry* (`core/src/http/retry.ts`): one sequential loop; its branches are
  tested one by one and nothing else runs on its state.
- *GitHub file cache* (`github/src/files/cache.ts`): overlapping calls lose manifest
  entries, but no document or test promises otherwise and a lost entry is fetched
  again; a property would be ours, not the code's.
- *Webhook server*: persists the events of a delivery concurrently and answers for all;
  what makes a redelivery harmless is left to the sink it is given.
- *GitHub and Notion bulk ingest, Linear reconciliation*: one caller over independent
  chunks, and a cursor loop of the kind `SchemaSync` and `PullIndex` check.
- *Issues and commits of a materialisation, a pull request's files and diff, comments*:
  the same write-and-record pattern as what is modelled, on files of their own.
- *Everything stateless*: payload and path mapping of fifty providers, renderers,
  digests, routers, status normalisation, event keys, parsers, code generators,
  generated catalogs and development tools have no behaviour over time. They are most
  of the repository's lines, which is why the mapped share of it is small.

`PROJECT.json` has the list component by component.

## Plan

Done: `IndexStore`/`AtomicIndex` (every adapter's shared index is the most important
state), `StorageBridge`, `SchemaSync`, `Writeback`, `EmitAuxiliary`, `RecordMirror`,
`PullIndex`, `RelayPolicy`/`RelayScopes`, with the proofs above. Next:

1. `EmitAuxiliary` without `Named`, for emitters that repair what the nameless record
   leaves, should the code come to remember the published title.
2. A refinement between `PullIndex` and `AtomicIndex`, so that the atomic rows of the
   former are the abstract index of the latter by proof and not by construction.
3. `RetryLoop` and `FileCache`, should their packages come to promise something of
   overlapping calls.
