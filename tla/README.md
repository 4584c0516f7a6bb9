# Verification of the AINumbers repository

TLA+ models of the parts of the repository that keep state and are hard to
test, TLC configurations that check them on small instances, and proofs,
checked by TLAPS, of the results that matter most for every value of the
constants. Source paths are relative to the repository root; numbers in
brackets are lines of the file named.

Contents: 1 the system, 2 what is hard in it, 3 the models, 4 the runs and
their bounds, 5 fairness, 6 proofs, 7 where the code and its texts disagree,
8 what is not modelled, 9 what is left to do.

## 1. The system

The repository publishes static pages and machine-readable calculators. Few of
its files keep state that outlives a function call; these do, or decide what
does.

| part | source | state | operations | correct when |
| --- | --- | --- | --- | --- |
| Ledger tab | `ledger/index.html` | an IndexedDB store shared by all tabs; per tab a verdict cache, the address, what is on screen, a dialog | import (file, paste, folder, fragment), verify, show, attach a closure, share an anchor, remove | what is shown, and the verdict beside it, belong to the record named; no handler undoes another's write; no screen hangs on a well-formed artifact |
| Live channel | `ledger/index.html`, `scripts/ain-bridge-v1.snippet.html` | per call a listener and a timer; per tab a queue | send a receipt, look it up, store it, acknowledge | every call settles; an acknowledgement is true |
| Registry lineage log | `scripts/gen-registry-lineage.mjs` | tile, bundle, checkpoint and anchor files | publish, hold the anchor, check | append-only; every published checkpoint verifiable, whatever run died where |
| Merkle tree and tlog verifiers | `scripts/gen-registry-lineage.mjs`, `chaingraph/kernels/c2sp-tlog-verify.mjs` | none | root, proof, tiles, verify | a verifier accepts exactly what is true |
| Landing automation | `scripts/ci/auto-arm.mjs`, `.github/workflows/automerge-label.yml` | labels, auto-merge flags, the merge queue, on the forge | label, arm, hold, re-queue, release, recover | passes of auto-arm arm lineage changes one at a time; a re-queue has an end; nothing that may land is forgotten |
| Derived-artifact regeneration | `.github/workflows/derived-artifacts-regen.yml`, `derived-regen-deadman.yml`, `scripts/scheduled-red-issue.mjs` | derived files on `main`, a waiting run, an issue | regenerate, gate, rebase, push, retry, report | nothing landed is overwritten; a stale `main` does not go unreported; what is pushed passed the gates; the chain of runs ends |
| Pull-request sync | `scripts/ci/pr-sync-main.mjs`, `.github/workflows/pr-autofix.yml` | branches, attempt marks | wait for the regeneration, merge `main`, retry after a race | no builder's push is lost; every pull request the bot may merge into gets the newest `main` |
| Id reservation | `scripts/check-id-collision.mjs`, `scripts/ci/pr-sync-main.mjs` | a legacy registry and one file an id | reserve, check, merge both sides' additions | an id has one owner; a merge loses no reservation |
| Kernel VM | `chaingraph/vm/kernel-vm.mjs` | a guest with jobs, host calls in flight | drive, answer, interrupt, read, dispose | a run ends, and what it returns does not depend on what it leaves behind |
| Kernels | `chaingraph/kernels/*.mjs` | none | pure functions; one matches payers with receivers | vectors; in a portfolio whose ids are each listed once, everybody is settled and nobody overpaid |
| Assembly | `scripts/assemble-chaingraph.mjs` | generated files | assemble | additive changes only |
| Preflight and its cap | `scripts/preflight.mjs`, `scripts/lib/preflight-cap.mjs` | a counter file | count, refuse | no more runs than the cap |
| Anchoring clients | `scripts/register-sigsum.mjs`, `scripts/register-rekor.mjs`, `scripts/fv-sigsum-upgrade-flip.mjs` | receipts, status histories | submit, poll, record | what is recorded was included |
| Pages and data | `tools/`, `guides/` | none | none | |

How they meet. A tool page hands a receipt to the Ledger by a link fragment or
over a `BroadcastChannel`; all open Ledger tabs share one IndexedDB store and
hear each other on that channel. The regeneration workflow runs the lineage
publisher on `main`; the publisher uses the tlog verifiers as its append-only
gate and the Sigsum client as its witness, and static hosting serves what it
wrote. A pull request lands by way of a label, auto-arm's or one given by hand,
the label's event and the merge queue; its landing is a push to `main`, which starts the regeneration and
the sync, each in a concurrency group of its own; the regeneration's own commit
is such a push again. The sync merges `main` into the pull requests still open,
and resolves the id registry's conflicts when that is mechanical. Kernels are
the pages' calculators; the VM runs them for callers that want their output
repeated elsewhere.

## 2. What is hard

- The publisher writes many files one after another and can die between any
  two, or in the middle of one. What is left is served to readers and is the
  input of the next run, which may see edited records.
- Ledger handlers are asynchronous. Between two awaits of one handler, other
  handlers of the tab, the user and other tabs run; several handlers keep what
  they read before an await and use it after.
- All pages and tabs share one channel: an acknowledgement reaches pages that
  did not ask, and every other tab. Tabs close with messages in their queue.
- Merkle code differs on sizes around powers of two and on the right edge.
- The bots read the forge call by call and act on what they read, while people
  and other bots push, label, land and drop. A concurrency group keeps one run
  waiting and forgets the one it replaces. Events are sent once: what a run
  refuses, nobody sends again.
- Several workflows leave work to each other's next push; each must come.
- In the VM, guest jobs run in two places of the host, the drive loop and the
  callback of every answer, and the context is disposed at the end whatever is
  still in flight.

`PROJECT.json` lists the main hazards at their lines, with the properties that
cover them; section 7 has formulas for what the code does not keep.

## 3. The models

**LineageLog** is the publisher with its files. State: the record file
(`records`), the disk (`disk`, `checkpoint`, `anchor`), and one run (`pc`,
`plan`, `todo`). `StartRun` is everything up to the first network call: read
back, recompute, gate, build. `SubmitAccepted`, `SubmitFailed` and `KeysAbsent`
are the three outcomes of anchoring; `WriteTile`, `WriteCheckpoint` and
`WriteAnchor` are single file writes; `Crash` may come before any of them and,
with `TornWrites`, truncate the file in hand. `EditRecords` lets the operator
make any edit. A root is represented by the leaves under it. `published` is a
history variable. **AppendOnlyLog** is what a log promises, in one action: the
trees signed so far are ordered by extension and the next extends them all.
LineageLog implements it with `signed <- published` (`ImplementsLog`).

**Merkle**, **TlogConsistency**, **TlogInclusion**, **TileTree** check what
LineageLog abstracts from. Merkle has the tree code over hash terms, its recursion
over ranges as recursive functions of a length. The two verifiers are state machines with one step per loop
iteration; the list of hashes they are given is chosen hash by hash as they take
it, so "any proof" costs no more than the paths it can take. TileTree grows a
log in batches and reads its root back from the tiles, level by level: the
partial tile (`Edge`) and the root of what is right of it (`RightOf`); its levels
are recursive functions of the level (`LevelsOver`, `Cells`).

**LedgerChannel** has any number of sends and tabs. A message is posted to every
open channel but its sender's; a tab's handler is a lookup, a write and an
answer, each a step of its own, because `dbGet` and `dbPut` are separate
transactions; it may fail or its tab be closed in between. `ever`, `acks`,
`lost` are history variables.

**LedgerTab** is one tab in depth: `task[i]` is the await at which the i-th
handler under way stands and holds what that handler has captured. Each action
is the code from one await to the next. Other tabs are the action `OtherTab`,
which writes and deletes rows at any time. An artifact is its claimed hash, the
body (`Genuine` is the one the hash was computed from) and the two attachments
outside the preimage. `Ask` frees the handler whose dialog is replaced: it waits
for a promise nobody can resolve any more, which the code leaves to the garbage
collector. `isArtifact` looks only for the presence of keys and at the hash, so
an artifact may be `Malformed`: some code trips over one of its fields. `Throw`
is that, wherever it happens: the handler ends there with an exception nobody
handles, and what it has drawn stays.

**Landing** composes three modules. *Forge* is GitHub and the people: pull
requests with their labels, the verdicts on their current head, merge ref,
auto-merge flag and queue entry, and the last `Window` removals, which is all a
read of the timeline returns. People open, push and close, label `automerge`
themselves (`HandLabel`: `automerge-label.yml`:3-4 asks sessions to, and as
`auto-arm-allow.json` is empty at this commit it is the path in use) and take
`mq-ejected` off. Assumed of them: nobody takes `automerge` off, a closed pull
request is not reopened. Whether a pull request is lineage-class is read off its
listed files on every pass, at most a hundred of them (`auto-arm.mjs` 58); in the
model it is a constant, so a push that changes it is left out. `lost` and `late`
are history: whose timeouts have left the window, and who was labelled by hand
since the pass under way read its list.
*AutoArm* is `auto-arm.mjs`: `StartPass` reads the list, its labels and `main`'s
tip; `Decide` reads checks, merge ref and queue of one pull request and makes
the decision; `AddLabel` and `UpdateBranch` are the calls that follow, so that
anything may come between reading and writing. *AutomergeLabel* has the runs of
`automerge-label.yml`: an event either starts a run with what its payload said,
or is dropped by the job's `if`; a run then reads the shadow check (`Guard`),
decides by the event (`DecideLabeled`, `DecideTimeout`, `DecideRemoval`) and
calls (`Enable`, `Hold`, `ClearHold`). `StartScan`, `ViewPR` and `Rearm` are the
hourly scan. Events and the changes that send them are one step (Landing);
merged and closed are both "gone". MCLanding studies the lane and the queue
one at a time (section 4).

**Upkeep** composes three more. *MainBranch* is `main`: each commit carries what
the sources call for and what the derived files say, both named by the landing
that last changed them. *Regen* is the single writer: `Regenerate` (generators,
gates, staging), `Pull` (the rebase, with git's own merge of derived files or,
on a conflict, the reset and regeneration on the new tip), `Push`, up to
`MaxAttempts` times; `Conclude` is the end of the run with the listener's
report, `Retry` the listener's second attempt, `Fault` a failure of any step.
`queued` is the one run the group keeps waiting. *SyncMain* is `sync-main`:
`Read` and `Wait` are `regenGate`, `Merge`, `Raced` and `Refused` the ways out of
`syncOne` and the retry after it. The commit a run was started for is its
event's, never the newest. A head that has just been pushed, by a builder or by
the bot, is `young` until its checks are over and its minutes have passed (`Age`);
till then `decide` skips it (282-283), also when it is read again after a race
(689-691), and a later run of the schedule has to come for it.

**Reservations** has the registry on three sides (merge base, pull request,
`main`), each a legacy file and shards; people edit either on either side, and
`Sync` is the whole of the bot's resolution: the plan made on `main`, the plan
made again on the merged tree, main's copy of the seed check, the push.

**KernelVM** is `runKernelInVM`. The guest is any kernel: its entry is the task
`Main`, which may start others and need not await them; a turn takes a task to
its next await, an end, or an await of what nothing settles. The host is at the
evaluation, in the drive loop, awaiting a batch of calls, in an answer's
`.finally`, or over. An answer that comes when the context is disposed is noted
in `stray`.

**Netting** is the kernel of multilateral netting, one gross position and one
match a step, with amounts in its rounding unit. `Entities` are the entries of
the caller's list and `ids` gives each its id: an id may be listed twice, and is
then matched once for each entry, or not at all, and a position that names it
then moves one side only (54-55). `Excess` is by how much the entries' positions
do not cancel out; `Closed` is the portfolio the kernel's statement is about, each
id with one entry.

**MCAlgorithms** extends Netting, Reservations, KernelVM, TlogInclusion,
TlogConsistency and TileTree (whose definitions have names of their own:
`RegistryInit`, `KernelInit`, `InclusionInit`, `ConsistencyInit`, `TilesInit`),
side by side for one run: a behaviour runs one of them, the others are parked:
Netting in its initial state, the rest in a state that none of their own
behaviours reaches.

LedgerChannel and LedgerTab overlap on `handleChannelReceipt`: the first keeps
the message and the answer, the second what the handler does to the screen.

The MC modules give TLC record sets, spans, orders and symmetry.

## 4. Runs

Passing:

| run | instance | shows |
| --- | --- | --- |
| `lineage_log` | two record values, three records, tiles of two, one death, files truncated or not | every checkpoint ever published can be verified from disk; anchors name published heads; a registered anchor is never demoted; the log never forks and implements AppendOnlyLog; a run that completes leaves a log that passes `--check`; owed records are eventually published |
| `ledger_channel` | two sends, two tabs, two artifacts, one malformed receipt | acknowledgements are true; they never multiply |
| `ledger_channel_live` | two sends, one tab | every call settles; what reached a tab is recorded or its handler died |
| `ledger_tab` | one hash with a genuine body and an altered, malformed one, every door, one closure, two handlers | types; the dialog answers for what it shows; an anchored record is verified afresh |
| `ledger_tab_live` | one hash with a genuine body and a malformed one, by link, file and channel, two handlers | the loading screen of a well-formed artifact ends |
| `landing` | two lineage pull requests in the list's order, the second labelled by hand or not, a move of `main`; the first alone with timeouts, lost refs and red gates, a cap of two, a window of two, two workflow runs at a time | a pass arms a lineage pull request only where every other on its way was labelled by hand after its list; the cap holds as far as the window shows; what may land is not forgotten; the lane moves |
| `upkeep` | four events among three landings (sources, refused text, by hand), two faults and two pushes of a builder to one pull request; two push attempts | `main` only grows and no builder's push is lost; sync runs never give way to nobody; a stale `main` has its issue open but where a retry displaced a run; the chain ends; the pull request catches up |
| `algorithms` | publisher's proofs to 17 leaves, audit paths to 13, any list for 5 and 4 leaves; logs of 11 entries, batches of one to three, tiles of 2 and 4; four entities, each with its id or one id twice and one not at all, four positions; two ids, four edits; two tasks, two calls each | growth and members accepted, nothing else; every published root follows from the tiles; fewer legs than parties, all settled but dust and imbalance; no reservation lost, plain additions never refused; a VM run ends, returns quiet and throws for cause |

Violated, each a finding (section 7): `ledger_channel_notice`,
`ledger_tab_verdict`, `ledger_tab_anchor`, `upkeep_text`.

Why the bounds are enough.

- Lineage: tiles two cells wide give a full tile, a partial tile and a second
  level with three records (`MaxSize`), so every branch of the tiling and of the
  read-back is taken. A second death (`MaxCrashes`) would leave what the first
  can leave; the theorems of section 6 hold for any number of both.
- Channel: a wrong acknowledgement needs two sends, a race between lookups two
  tabs; two of each cover every pair. `ledger_channel_live` has one tab: its
  properties speak of one call and of one handler at a time.
- Tab: every hazard listed is between two handlers (`Ids`), or a handler and
  another tab, and `OtherTab` may act any number of times. Of one hash there are
  two bodies, so that what is shown, stored, cached and asked about can differ
  although the address is the same. A malformed artifact may trip any handler
  that reads it. `ledger_tab_live` leaves out closures and the folder scan, whose
  handlers draw no loading screen of their own. Handlers of different hashes meet in the
  dialog too: that the dialog answers its import for any number of hashes is
  proved (section 6).
- Tlog: 17 leaves pass 16, so all four cases (old size a power of two or not,
  new size one or not) occur at several depths; with any list the tree must be
  small: consistency goes to 5, the smallest size with three levels and a lone
  right edge, audit paths to 4 (3 has the lone edge).
- Widths: 256 is a power of two, which is all the code uses of it; 2 and 4
  differ in whether a partial tile can hold several cells.
- Landing: the lane needs two pull requests, the cap and the holds one; a
  behaviour of MCLanding studies one of the two (`study`). "lane": both, with
  every order of passes, labels by hand (`ByHand` is the second, so that the
  list's own order is broken by it), pushes, checks and the one move of `main`
  that `MaxTip` lets come between a pass's read and its write; entries leave the
  queue by a push or a merge only, the shadow check is the last to pass, and one
  event run is under way at a time. "queue": the first alone, dropped for any of
  `Faults`, with two runs under way, so that the run of an earlier timeout may
  count after a later one; `main` moves only as it merges. `Window` is 2 (10 in
  the code) and `TimeoutCap` 2 (3), so that a timeout leaves the window while
  others count; removals for a conflict take the path of "other" and are left out
  of `Faults`. The two liveness properties rest on the scan, which needs no slot
  of `Runs`. The theorems are for any numbers of all of these.
- Upkeep: MCUpkeep gives a behaviour a `Budget` of four events from outside,
  landings (`MaxLandings` 3), failures (`MaxFaults` 2) and builders' pushes
  (`MaxPushes` 2) together, the first landing one of sources only. That is enough
  for both pushes of a regeneration to be refused (`MaxAttempts` 2, 3 in the
  code) with a third version for the rebase, the retry, the displaced run that
  leaves `main` stale, a sync that waits too long, a head given up (`MaxSyncs` 1,
  2 in the code), a race left alone while the head is young, one tried again,
  and a second race. Landings that touch nothing derived (`Kinds` without
  `other`) only move the tip, which the others do too. In `upkeep_text` there are
  no faults, all four kinds and three attempts.
- Netting: three payers and a receiver, or two and two, are reached with four
  entities; amounts of 1, 2, 3 and 5 units against a tolerance of 2 leave less,
  as much and more than it. Of the two lists one is closed, and the other has an
  id twice and one not at all.
- Reservations: an id is disputed or free by itself; the second is there for the
  plan, which refuses as a whole. Four edits (`MaxEdits`) cover an addition, its
  withdrawal and a change on both sides.
- KernelVM: an unawaited task with two calls (`MaxCalls`) can still be at work
  when the entry is done, which is every hazard the loop has; the theorems are
  for any number.

Symmetry is declared only where no property tells the values apart: calls, tabs
and artifacts (`ledger_channel`), handlers (`ledger_tab`); never in runs with
liveness.

The machines of `algorithms` end when their function returns: that run is
checked without deadlock detection. The others are checked with it.

## 5. Fairness

- LineageLog: the regeneration workflow runs on every push to `main`, so runs
  start again and again; the steps of a run and each file write are weakly fair.
  The workflow has no Sigsum keys, so however often a run with keys fails to
  submit, one without them comes round: `KeysAbsent` is strongly fair. Edits,
  deaths and submissions are not fair. Deaths are bounded by `MaxCrashes`: a run
  killed every time publishes nothing, in the code as in the model. What is
  promised is for an `Intact` log: once a death has truncated the published
  checkpoint or tile, the gate refuses until a person restores it.
- LedgerChannel: timers fire, queued messages are delivered to open tabs and
  transactions end (`Fairness`). Nothing the user does is fair. `SendSettles`
  rests on the timer alone.
- LedgerTab: the browser completes IndexedDB requests, hashing and compression
  (`Continue`, for each handler). The anchor service and the user's answer are
  not fair.
- Landing: auto-arm runs three times an hour and the scan every hour
  (`LanePass`, `Scanning`), and a run that started goes on. Nothing of the world
  is fair: no check turns green, nothing merges because it should. Both liveness
  properties therefore say that a pull request cannot stay where a bot should
  have moved it.
- Upkeep: runs that started go on, a waiting run starts when its group is free,
  a retry comes after its ten minutes, the sync's schedule fires, and the checks
  and minutes of a head that nobody pushes to pass (`Age`). Landings, pushes and
  faults are not fair.
- KernelVM: the guest runs while it has jobs, WebCrypto answers every call, and
  the event loop runs callbacks.

## 6. Proofs

Checked by TLAPS, each in a module of its own next to the model.

- **LineageLogProofs**: `TypeCorrect`, `LogNeverForks`, `LogAppendOnly`,
  `HistoryVerifies`, `CompletedRunsCheck`, `AnchorsNamePublished`,
  `AnchorsNotDemoted` and `PublisherImplementsLog`: every safety property the run
  checks, that the checkpoint only grows, and the refinement. `NeverForks` is not
  inductive: a run publishes what it planned, so the plan must extend the
  checkpoint on disk (`PlanExtends`), and that checkpoint everything published
  before it (`HeadIsNewest`). Verifiability needs `WrittenSoFar` besides: each
  file of the plan is still to write or holds the bytes of the plan's tree. The
  step that carries the argument is the lemma `TileKeepsPublished`: a run does
  rewrite files in place, but a path that a published tree uses as well has the
  same content in the plan's tree, because that tree is an extension
  (`SameContent`). A completed run passes `--check` because of what holds
  between its last two writes (`CheckedButAnchor`); the anchor results speak of
  the record the plan carries from the submission to the last write
  (`AnchorPlanned`, `NotDemoting`). All hold with truncated files. For the
  refinement, the tree a run is about to publish is longer than the checkpoint
  on disk (`PlanGrows`) and extends it, so `WriteCheckpoint` signs a strict
  extension of everything signed, and no other step signs.
- **LedgerChannelProofs**: `ChannelTypeCorrect`, `AcksAreTrue`,
  `EachReceiptInOneHand` and `NoStorm`. A handler
  answers from what it learnt at its lookup, two awaits before, so the
  invariant says of every handler that is about to answer that the row has been
  there (`JobsHold`), that rows come from nowhere else (`RowsWereStored`), and
  the property itself for every queue and every answer taken. That
  acknowledgements do not multiply is no fact a step keeps by itself: it is
  read off an account (`Account`) of what is owed. A call and a tab that still
  owes it an answer have the receipt at one place of the tab's queue or in one
  handler, never both (`HandedOnce`); and answers given and answers owed are
  together within one for each call made and each tab (`Balanced`), because a
  handler that answers owes no longer. The count needs finitely many calls and
  tabs, which is all a browser has; no bound is assumed.
- **LedgerTabProofs**: `TabTypeCorrect`, `SaveIsOfWhatIsShown` and
  `AnchoringReverifies`. Whenever the dialog is open, the handler it resolves
  stands at the question about the very artifact shown; this is inductive
  together with the types, because a handler moves nobody but itself
  (`MovesItself`), except in `Ask`, which replaces dialog and resolver together.
  The same lemmas, and that no resolver outlives its dialog (`NoStaleAsker`),
  leave `Relink` as the only step of a handler that waits for the new link, and
  `Relink` drops the cached verdict before it shows the record.
- **LandingProofs**: `LandingTypes`, `PassesArmOne` and
  `CapBoundsRequeues`. A pass compares labels it read at its start, so the
  comparison alone does not keep a second lineage pull request from being
  labelled. The invariant `LaneInv` says why no pass is at fault: whoever is on
  the way and was not in the list as labelled was labelled by hand since (`late`)
  or held the baton of the very list the pass read, and nobody else of that list
  does (`OneBaton`); so a label about to be written finds nobody on the way but
  the late. For the cap, the timeline already holds the removal that started a
  run, and no read of it finds fewer timeouts than were there when the run's event
  was sent (`CountOK`), until one leaves the window: whoever goes on was started
  by one of the first.
- **UpkeepProofs**: `UpkeepTypes`, `MainOnlyGrows` and `BuildersPushesStay` (from
  the guards of the pushes and the types), `NobodyGivesWayToNobody` (`Coming`:
  the newest main was synced, or is asked for, or the run on it has not yet
  decided) and `RegenHidesLittle`. The last needs what a stale `main` may rest
  on (`Covered`): a run of the newest commit running, waiting or owed a retry.
  That is inductive only with the order in which retries are owed (`InOrder`),
  that nothing follows the second run of the newest commit (`LastComesLast`),
  and that a run about to push has news unless it was rebased (`News`).
- **AlgorithmsProofs**, on three of the small machines.
  *Netting*: `NothingOverpaid`, `NettingSavesWires`, `NettingBooks` and
  `NettingSettles`, for every list of ids and every portfolio. Every leg is paid for by a place passed in one of the two
  lists, and when both lists end, the last one by two (`PaidFor`). That everybody
  is settled in the end, though only one of the lists need run out, is a matter
  of sums (`Books`): what is owed less what the legs carry differs between the two
  sides by `Excess` after every match, and exceeds what the matching still has to
  send by what it let go, at most the tolerance for each place passed but the last
  (`LittleLost`). When one list is out, its side has no more unsent than that, and
  the other no more than that and the imbalance. In a `Closed` portfolio each
  position takes from one entry what it gives to another, and there is none.
  *Reservations*: `EveryReservationKept` and `AddsAreMechanical`. Both are
  the push's doing: an id at a time (`OneIdKept`, `OneIdResolves`), what the plan
  does not refuse is in the registry it leaves.
  *KernelVM*: `ReturnedRunsAreQuiet` and `ThrownRunsHadCause`: a call in
  flight is in `pending` or in the batch being awaited (`Tracked`), and there is
  a batch only while it is awaited (`Awaited`), so when the loop ends neither
  has one.
- **TlogProofs**: `MembershipIsDecided`: for a tree of any size, `verifyInclusion`
  accepts an included leaf with its audit path, and nothing else. The code climbs
  by halving an index and the index of the last leaf; RFC 6962 defines root and
  path by splitting a list at the largest power of two below its length. What ties
  the two together: after `j` halvings the walk stands at the node over the leaves
  from `Lo` to `Hi`, the `2^j` of them around the index, cut off at the tree's end
  (`NodeBounds`), and the recursion over that range splits where the two nodes one
  level down meet, or does not split on the right edge, where a node without a
  sibling is its own parent (`SameNode`). The invariant (`Reached`) is that an honest prover's hash
  and path so far are those of the range, and that whatever anybody sent, a hash
  that equals the range's came from the leaf and the path that do. At the top the
  range is the whole tree.
  `GrowthIsDecided`: `verifyConsistency` accepts the root of the smaller tree with
  the proof `buildConsistencyProof` makes, and nothing else. The walk is that of the
  old tree's last leaf. It first climbs as long as its node ends where the old tree
  does (`EndsAt`), so what it stops at is a node of both trees and its hash opens
  the proof (`GrowthAtSeed`). From there both hashes climb at once (`OldReached`):
  a sibling on the left is one of the old tree's too, one on the right is new and
  the old tree's node stays (`OldParent`), and the proof so far is what `subproof`
  makes for the node's range (`GrowthAt`), although that recursion counts old
  leaves from where the range begins and drops the known root on its first turn to
  the right. When the old tree's walk is at its end the two old hashes are
  compared, and the new one goes on to the root (`NewReached`); lists that begin
  alike have one root for what is alike (`SameRange`), so the old root compared is
  that of the tree the log had. Neither proof uses which hashes a list that is not
  the log's own is drawn from.
  `RootsFromTiles`: after any number of runs of the publisher, every size it
  published has its root in the files, whatever power of two the tile width is.
  The inductive invariant (`DInv`) is that every file on disk is one that the
  publisher writes for some log, and that none is missing of a published one. A
  file that is not full is then right for every log with as many cells at its
  level (`EdgeRead`), since the cells two logs both have are the same
  (`CellsStay`). Going up, the cells of a level and the one hash right of them have
  the root of the whole list (`RowIsWhole`, `RowUp`): a list hashed in chunks of a
  power of two, the last one cut short, has the root of the list of their hashes
  (`ChunkedRoot`). At level n there are no cells left and that one hash is the root.
  This is what the comment over `computeLevels` calls stable forever.
- **Recursion** has what both rest on. Induction over the naturals is had as a fact
  about sets (`SetInduction`, from the order's well-foundedness), since a theorem
  about an arbitrary predicate cannot be instantiated here; from it, that the
  recursive functions of Sums and Merkle exist and are what their definitions say
  (`Iterates`), and how sums over lists and over sets behave.

Assumptions are those of the modules: tile widths positive in LineageLog and powers
of two above one in TileTree (2^8 in the code), level-0 and bundle tiles with one
leaf a cell, bounds natural numbers, finite sets of pull requests,
entities, calls and tabs, ranks distinct, distinguished values outside their sets. TLC
evaluates each on a run that extends its module.

Only model-checked is every liveness property: fairness is out of the provers'
reach.

## 7. Where the code and its texts disagree

Four are runs that TLC must find violated; `PROJECT.json` quotes the text.

| run | what happens |
| --- | --- |
| `ledger_channel_notice` | a page reports its receipt recorded on an acknowledgement meant for another page |
| `ledger_tab_verdict` | a cached "verified" is shown beside an altered copy imported later |
| `ledger_tab_anchor` | sharing an anchor overwrites a closure attached meanwhile |
| `upkeep_text` | after a rebase conflict the regenerated tree is pushed without passing the gates |

The models have the following behaviours too. Each formula, added to the module
named, is violated on an instance as small as those of section 4.

LineageLog (texts in `scripts/gen-registry-lineage.mjs`):

```
\* 60-64: a path is "never overwritten with different bytes".  It is, when a run
\* died before its checkpoint and the record was corrected before the next one.
NeverOverwritten == [][\A f \in Files : disk[f] # NoFile => disk'[f] = disk[f]]_disk

\* 455-463: the log is reported "unchanged since last publish".  Only sizes are
\* compared: an edited record of a log of the same length is reported so too.
SkipMeansUnchanged ==
    (pc = "idle" /\ Readable /\ Covers("tile0", checkpoint)
        /\ Len(records) = Len(checkpoint)) => records = checkpoint

\* 455-463: "nothing to anchor".  A pending anchor is never registered by a run
\* that has the keys until a record is added.  (No run having died.)
SkipMeansAnchored ==
    (pc = "idle" /\ Readable /\ Covers("tile0", checkpoint) /\ crashes = 0
        /\ Len(records) = Len(checkpoint)) => FullyFormedAnchor
```

LedgerTab (texts in `ledger/index.html`; the first needs two hashes, the second
two bodies):

```
\* 2805: "Verifying artifact..."  An artifact that passes isArtifact (690-693) may
\* still hold what the verification or the rendering trips over: tool_id no string
\* (696-697), an anchor binding that is null (1309-1315), gates that are no list
\* (1415-1420), generated_at no string (3080).  The exception is not caught, and
\* the message stays.
EveryLoadingEnds ==
    \A c \in Copies : screen = Loading(c) ~> screen # Loading(c)

\* 1789-1791: an address "never serves different content under a matching-looking
\* address".  Of two navigations the slower one wins the screen.
AddressNamesScreen ==
    (\A i \in Ids : task[i] = Idle) /\ place.page = "view" /\ screen.shows = "record"
        => screen.hash = place.hash

\* 1789-1790, 3332-3333: what an address names hashes to it, "or it 404s".  A stored
\* copy that does not is rendered (with a failed verdict, unless one is cached).
ResolvesOrNotFound ==
    place.page = "view" /\ screen.shows = "record" /\ screen.hash = place.hash
        => screen.copy.body = Genuine

\* 3303-3305: a record view "is not yanked out from under" the user by a receipt.
\* The address is read before the rows are: the record may be opened in between.
RecordNotYanked ==
    [][\A i \in Ids : task[i].at = "reflect" /\ task'[i] # task[i]
            => ~(place.page = "view" /\ screen.shows = "record")]_vars

\* 1476: a closure attaches to "the matching open record".  A second closure
\* replaces the first.
ClosesOpenOnly ==
    [][\A i \in Ids : task[i].at = "attach" /\ task'[i] # task[i]
            => LET h == task[i].copy.hash IN h \in Stored => rows[h].closure = "none"]_vars

\* 813-816: a receipt that has a row is a duplicate, on "every ingress path".  File
\* and folder imports, and the saves after a question, put without asking.
IngressDeduplicates ==
    [][\A i \in Ids : task[i].at \in {"import", "scan", "keep", "receive"} /\ task'[i] # task[i]
            => LET h == task[i].copy.hash IN h \in Stored => rows'[h] = rows[h]]_vars
```

KernelVM (texts in `chaingraph/vm/kernel-vm.mjs`):

```
\* 36, 287-288: the budget "kills runaway loops".  A job interrupted in the
\* .finally of an answer (343) is ignored there and the run may still return:
\* whether it does depends on the order of the answers.
OverrunThrows == at = "returned" => ~overrun

\* 343: a failing drain is "drained by the loop below".  After a throw there is
\* no loop any more: an answer settles a promise of a disposed context (339-342).
NeverStray == ~stray
```

Landing (texts in `automerge-label.yml`, and for the first in `auto-arm.mjs`):

```
\* 17-18: a lineage-class pull request arms "only if no other lineage-class PR is
\* labelled or queued".  The labels are those of the pass's list: one that a session
\* labels by hand after it is not seen.
ArmsAlone ==
    [][\A p \in Open \cap Lineage :
          Armed /\ write.pr = p =>
             (Open \cap Lineage \cap (labelled \cup auto \cup queue)) \ {p} = {}]_vars

\* 24-25: "capped at 3 CI_TIMEOUT removals counted from the PR timeline".  Counted
\* are those among the last ten removals of any reason (266): a pull request with
\* as many timeouts, one of them older, is queued again.
CapCountsAll ==
    \A r \in Runs :
       job[r].at = "enable" /\ job[r].on = "timeout" /\ job[r].pr \in lost
          => Timeouts(timeline[job[r].pr]) + 1 < TimeoutCap

\* 25-26: at the cap a pull request is "left un-queued".  The scan (48: "arms any
\* that are mergeStateStatus CLEAN") queues it again.
CappedStaysOut ==
    [][\A p \in Open : Timeouts(timeline[p]) >= TimeoutCap /\ p \in queue' \cup auto'
                          => p \in queue \cup auto]_vars

\* 329-332: the hold is at the head that was ejected, "until a new head clears
\* it".  A hold decided before a push lands on the new head (339).
HoldIsOfItsHead ==
    [][\A p \in held' \ held : p \in green]_vars
```

Netting (texts in `art-259-compute-multilateral-netting.kernel.mjs`):

```
\* 8: "gross positions -> net positions -> settlement legs".  A position that names
\* an id the list lacks moves one side only (54-55), and one side stays unsettled.
EverybodySettled ==
    pc = "done" => \A e \in Entities :
       Absolute(net[e]) - Carried(e) \in 0..(IF Parties = 0 THEN 0 ELSE Dust * (Parties - 1))

\* An id listed twice (27) is a payer or receiver twice (60-61), and pays or is paid
\* its whole position once for each entry.
PaidOnce ==
    \A e, f \in Entities :
       e # f /\ ids[e] = ids[f] => Carried(e) + Carried(f) <= Absolute(net[e])
```

## 8. Not modelled

- In the Ledger: demo mode, escalation signing, the exceptions, mandates and
  obligations views, folder linking, export, the page's tools for agents, and
  the signature, proof, attestation and gate legs of a verdict (all read-only
  over the same artifact).
- In the bridge: share links, the session root and the message handshake.
- Signatures, note framing, base64 and HTTP: they are functions of their input
  and appear by their outcome. SHA-256 is taken not to collide.
- In landing: the opt-in parallel lineage slots (off in the workflow), the draft,
  fork and sensitive-workflow guards (pure functions of a pull request's files),
  the hour between two re-queues of a checkout failure, which the model
  leaves open, the comments the workflow posts, the page of thirty pull requests
  that the scan's `gh pr list` (482) returns at most, and pull requests whose
  class a push changes or whose listed files are cut off at a hundred. `recheck-parked-prs.mjs` only re-requests checks (`ChecksPass`);
  `reconcile-guard.mjs` is a local guard on the names of pushed branches.
- In upkeep: the mass-deletion and escape guards and the assembler's refusal
  (failing runs, as a `Fault` is) and commit statuses. The sync never merges into
  a pull request that is of a fork or another base (272-274), is a draft (275),
  has the label no-bot-sync (276), is in the merge queue (277), cannot be
  predicted (279), is armed and merges cleanly (284), is red with no file in
  common with `main` (287), or conflicts in files of its own (292-301): those stay
  behind, by design, and `PRs` are the others. Of these a run pushes to ten at
  most; there are no more (`SyncAssumption`), so that no row is deferred to a later
  run. The listener's report is one step with the end of its run.
- In the id registry: unreadable files, which refuse, and merges git makes
  without a conflict, for which the bot makes no plan.
- In the VM: the prelude's bans, memory and stack limits, the guard of a million
  rounds.
- Preflight cap: two statements of one process in one builder's worktree.
  Anchoring clients: command-line steps around HTTP and cryptography; Sigsum
  knows a leaf it has. Assembly: files in, a file out.
- Kernels: some hundreds of pure functions over decimals with their own vectors,
  and vendored cryptography; they are most of the repository's lines and have
  neither state nor, but for netting and the tlog verifier, a loop whose
  invariant could be stated. Pages and data: no state.

## 9. What is left to do

1. A register of receipts as an abstract specification of LedgerChannel.
2. The remaining views of the Ledger, escalation signing.
3. LineageLog's publish inside Regen, so that a death of the publisher and a
   refused push meet.
