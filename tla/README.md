# A TLA+ model of opencode-advisor

opencode-advisor is an OpenCode plugin.  It watches a primary session, lets
configured reviewers read what was added, stores their reports and shows each
finding as one card in the watched session, or hands it to the primary as
advice before its next request.  Everything runs on one JavaScript event loop
per server process, but several processes share one data directory (two SQLite
files and the reports), an OpenCode server and the model providers.  What is
hard is never one function: it is what happens between two awaits, after a
lost reply, after a crash, or when an answer comes after its deadline.

The modules below describe those parts as state machines whose steps run from
one await to the next.  TLC checks them on small instances; TLAPS proves the
results about the journal, the lane, the pass scheduler, the runtime and the watcher, card delivery, advice and
checkpoints, the note store, the permits, the usage ledger and the database client for
every value of their constants.
Two refinements are stated with `INSTANCE ... WITH`: the
journal implements one atomic record (`ReviewJournal`), and the lane works on
that record (`ReviewLane`).

## Inventory

| Component | State | Operations | Talks to | What makes it correct |
| --- | --- | --- | --- | --- |
| Review journal (`advisor/journal.ts`, `notes/journal-database.ts`) | one row per lane: owner, pending pass, progress; per lane object its copy and its `#owned` | load (read, claim, verify), begin, settle, close | database worker, other processes over the same file | one owner at a time, a live owner is never replaced, no save is lost, progress only from the pending pass |
| Review lane (`advisor/lane.ts`, `pass.ts`, `attempt.ts`, `recovery.ts`, `restart.ts`, `persistence.ts`, `commit-result.ts`) | cursor, running pass, pending review, active pass ID | run, retire, recover, late completions | journal, provider pool, OpenCode client, note store | requests of one reviewer never overlap, progress follows a saved report, a report is published once, an old answer moves nothing back |
| Provider admission (`advisor/admission.ts`) | per provider: active count, queue, last root; registrations; owners of the shared pool | acquire, abort, release, releaseAttempt, processAdmission | attempts, restart recovery, plugin instances | the limit holds, no permit leaks or is given back twice, no root starves another |
| Pass scheduler (`watcher/scheduler.ts`, used by `watcher.ts` and `advisor/scheduling.ts`) | per key: in flight, dirty, timer, cooldown, suppression | trigger, suppress, forget, timer, end of a pass | watcher, runtime | no trigger is lost, the cooldown holds, a forgotten session is quiet |
| Card delivery (`deliver/cards.ts`, `queue.ts`, `turns.ts`, `plugin/render.ts`) | queue, flush, turn state, receipts | deliver, append, flush, fail, forget | session events, note store, OpenCode client | cards only while idle, on the right message, once, for a finding that is still open |
| Advice injection (`deliver/transform.ts`, `cards.ts`) | pending blockers with the turns they were seen in, sessions being compacted | deliver, transform, compaction, clear | the primary's request, note store, checkpoint | a prompt carries only advice that is open and of the current task, for a bounded number of turns |
| Note store (`notes/store.ts`, `report-files.ts`, `catalog.ts`, `pending.ts`, `findings.ts`, `database.ts`) | report files, rows, receipts, pending pointers, dispositions | save, read, markDelivered, claim of pointers, dispositions | file system, database worker, command line | a report is stored once or not at all, receipts are authoritative, a pointer is claimed once |
| Database client and worker (`notes/database-client.ts`, `database-worker.ts`, `findings.ts`) | owners per directory, requests under way, worker | acquire, request, release, fail, replace | every store | no call waits for ever, and what its caller is told of it is true |
| Advisor runtime (`advisor/runtime.ts`, `lifetime.ts`, `resume.ts`, `plugin.ts`) | lanes and lifetimes per root, paused roots, epochs | notify, run, pause, resume, forget, dispose, emit | all of the above | nothing reaches a session after stop, forget or dispose; a resume hands over what a stop held back |
| Session history and deltas (`history/`, `delta.ts`) | cached messages, what is dirty, the load under way; cursors with fingerprints | read, observe, invalidate, trim, forget; slice | OpenCode client and its events | the cache is what the server has, a fresh read is fresh, a cursor covers only what was reviewed |
| Task contexts and checkpoint (`advisor/context.ts`, `policy.ts`, `checkpoint.ts`, `plugin/checkpoint.ts`) | task, revision, stop and next action in memory and on disk; findings, dispositions, proofs | capture, checkpoint, record dispositions, gates | primary's tool call, passes, store | the task only goes forward, memory and disk agree, the gates miss no open finding and trust no old proof |
| Watcher (`watcher.ts`, `cache.ts`) | roots, children, advised children, reviewers' sessions, lookups under way | events, registration, eviction, suppression, dispose | scheduler, runtime | a session is watched only while it is eligible, and one that is busy is not evicted |
| Reviewer's child session (`advisor/child.ts`, `carry.ts`) | session ID, budget | create, rotate | OpenCode client | one child at a time, rotated only between passes |
| Usage ledger (`usage/`) | attempts and message rows | begin, observe, finish, reconcile, recover, close | database, OpenCode client | usage is charged to the attempt that caused it, and only what is covered is called complete |
| Models, roster, configuration, prompts, parsing, log, command line, installer | none that a step changes, or output only | | | |

The hard behaviours, with the line where each one bites and the property that
would catch it going wrong, are the list `hazards` of `PROJECT.json`.

## Modules

    JournalData                     the journal's record and its edits
      |- JournalRegister            what a journal promises: one atomic record
      |- ReviewJournal              how it is done; refines JournalRegister
      |    `- ReviewJournalProofs   its theorems
      `- ReviewLane                 uses JournalRegister as its journal
           `- ReviewLaneProofs      its theorems
    PassScheduler                   when passes start
      `- Runtime                    what a session's passes, stops and resumes do
           `- Watcher               which sessions are watched; composes all three
                `- WatcherProofs    theorems about all three
    DeltaSlice                      what a cursor has not seen, as operators
      `- SessionHistory             the cached transcript and its readers
           `- SessionHistoryProofs  theorems about both
    Checkpoint                      the task, the findings and the gates
      `- AdviceInjection            what a prompt is given of them
           `- AdviceInjectionProofs theorems about both
    CardDelivery                    from a report to a card
      `- CardDeliveryProofs         its theorems
    NoteStore                       reports in two stores without a common commit
      `- NoteStoreProofs            its theorems
    DatabaseClient                  the shared SQLite worker
    ProviderAdmission               the shared pool of permits
    UsageLedger                     what the requests cost
      `- ProcessProofs              theorems about the three

A module whose name ends in `MC` gives a component small constants for TLC.
`ProcessMC` does so for `ProviderAdmission`, `DatabaseClient` and `UsageLedger`, which every
session of a process shares.  A definition commented as a mutant is a plausible
bug of the definition after it; no specification uses it.

### ReviewJournal

The row of one lane, and the lane objects of several processes that want it.
`owner` and `payload` are the row; an absent row is `owner = None` with the
empty payload, which every reader treats alike.  `loading`, `saving` and
`closing` say which database call a lane object is waiting for; `requests` is
its promise chain.  A call executes at one instant.  It may fail before that
instant or lose its reply after it, and the lane cannot tell which
(`LoadFails`, `ClaimReplyLost`, `SaveFails`, `SaveReplyLost`, `CloseFails`).
`Crash` ends a process with its memory and its pid; a pid used again by an
unrelated process is not modelled (the code would then wait, not overlap).
"progress" stands for the content hash and the message cursor together: they
are always recorded together.

`JournalRegister` is the abstract journal: acquire, edit and release are single
atomic steps of a record with one owner.  `ImplementsRegister` maps the row to
it.

### ReviewLane

Lane objects, their passes and the requests the provider has from them.
`stage[p]` follows `run()` from await to await; `review` is the phase of a
`PendingReview`, `report` and `commit` the two promises a result goes through,
`watching` the prompt that outlived its attempt, `probing` an abort that
waits for its reply.  `cursor` names the pass whose slice was reviewed last.
A `Handler` is a lane with a pass: its own one, or one it found in the journal.

* Loading, closing and retiring are atomic here: what happens between their
  database calls is `ReviewJournal`'s subject, and `JournalRegister` is what it
  implements.
* The bounded waits are choices: an answer before or after the deadline, an
  abort that is confirmed, confirmed late or never.  The back-off after a
  timeout only delays passes and is left out, and so is `reconcile`'s own
  bounded wait: its result may be accepted whenever it is durable.
* The child session's rotation is left out; what a request costs is
  `UsageLedger`'s subject.

### ProviderAdmission

The pools a process can have (`processAdmission` may drop one and make
another), their buckets, and the calls that ask, hold and release.  Between a
grant and the code after `acquire`'s await a call is "granted": the signal may
be aborted in that gap (`gaveUp`).  `attempts` is the registry restart recovery
releases by.

### PassScheduler

One session of one scheduler.  The class is used twice with different options,
and `options` is chosen from both.  `forget` replaces the state object while a
pass of the old one may be in flight, so `states` holds several objects and
`current` the one in the map.  Points in time are the time left until them.
`owed` and `early` are history: an accepted trigger nobody has run for yet, and
a pass that started inside the cooldown.  `Runtime` uses the module as the
scheduler of its passes; of the watcher's instance, whose pass is over within
one turn of the event loop, `Watcher` keeps a timer and the suppression.

### CardDelivery

One watched session.  The server owns the turn, the completed replies and the
cards; the plugin sees them through `events`, in order but late.  `stage`,
`epochOf`, `chain` follow `deliver` and `enqueue` per note; `flush` is the
running `flushOnIdle`, whose field `at` is the await it stands at, `detached` the
cards it holds after `forget` dropped them.  A note's finding is decided when
it is reported.

* A result has one note; several are several results.  `withdrawn` joins a
  closed finding and an expired note, which the code treats alike here.
* A write whose reply is lost was applied or not, and is not applied later.
* The shell fallback is left out: `plugin/client.ts` always supplies the native
  renderer.  So are eviction from the watcher and toasts; advice injection is
  `AdviceInjection`.
* Reviews, and so reports, begin after a completed message.  A task is replaced
  by a tool call within a turn, when earlier events have been handled.

### NoteStore

The reports of one directory and session.  `file` is `notes/<id>.json` (the time
it was written with, its delivery marker, whether it has expired); `source`,
`finding` and `receipt` are the SQLite rows; `pending` and `claimed` the pointers.
A `Writer` is one call that saves a report: `writeNote`, `recoverNote`, or the two
in turn (`writeSuccessfulNotes` with `verify` and `repair`, and restart recovery).
A `Reader` is one call of `readForDelivery` and what follows it: the card and its
acknowledgment, the claim of a pointer by `advisor`, or only a look by
`advisor --note <id>`.  `at` is the await a call stands at, and its other fields
are what it has read by then, which may be stale.

* A database request is one transaction.  `RecordRefused` is a request that
  certainly did not commit (refused, or never posted), `RecordLost` one of which
  the caller cannot know; only the former takes the file back.
* Any two savers of one report may overlap: `retire()` (`lane.ts:72`) does not wait
  for a save, so one that outlives its lane may meet the recovery of the same pass by
  the next lane.  `adopted` is history: the reports a call took over (`EEXIST`) while
  the call that had created them could still take them back.  `OnlyAdoptedIsLost`
  says that this is the only way to lose a recorded report; `RecordedHasReport`,
  without the exception, is what `NoteStore_overlap` refutes.
* `Stop` ends every call where it stands, as the README of the plugin asks before
  a rollback, and `repair-receipts` walks the receipts page by page.
* Reports keep one finding; dispositions only close and reopen it.  Timestamps
  of the same clock value are not told apart.
* Left out: reports without an idempotency key (none is shared by two calls),
  files that do not parse, the search of parent directories, legacy backfill.

### Runtime and Watcher

`Runtime` is one session in `AdvisorRuntime` with one reviewer.  `pass[o]` is the
pass that object `o` of the scheduler started; its stage is the await it stands
at: the task that `#run` reads for a session it has not reviewed, the lane's
recovery, the transcript, the review.  `resumes` are calls of `resume()`,
`report[o]` the report of a pass: saved, handed to the deliverer, dropped because
the session was paused, missed by a resume that failed, or past.

`Watcher` adds the events of OpenCode and the lookup of an unknown session, and
joins the two as `plugin.ts` does: the watcher's pass calls `notify`, and a
session it drops is forgotten by the runtime.  `nature` is what the session
really is, `known` what the watcher takes it for.  Its caches are full whenever
another session wants them to be (`Evict`, `Overflow`).

* `contexts` is what `TaskContexts` keeps of the session, as far as `stopped` goes.  A
  checkpoint call that changes the task takes two steps: `CheckpointWrites` posts the
  write, which is done or refused, and `CheckpointWritten` is its answer, which may say
  that it failed although it was done (`context.ts:112`).  Between the two every other
  step may fall.  `onTask` is called only after an answer that did not fail
  (`plugin/checkpoint.ts:75-76`), and returns at once if the session is not watched any
  more (`plugin.ts:156`), so the row and the runtime may then disagree.  A snapshot
  equal to the last one saved is not written (`CheckpointKept`).
* `contexts.told` is history: no write that stops, resumes or replaces the task went
  unanswered since the runtime was last told of one.  After such a write the row may
  say what the runtime does not know; `PausedMeansStopped`, `HeldBackIsShown` and
  `StopHolds` except exactly that, and the time an answer is on its way.  They do not
  except a stop or a resume that was answered, whatever came between.
* The worker answers in the order in which requests are posted, so a pass goes on
  from its `readTask` before a later write of the task returns to its checkpoint call.
  For the same reason a checkpoint call of a new scope waits for the write of a
  released one: posting it earlier changes the order of no two answers.
* `late` is history: a resume whose last line (`runtime.ts:101`) notified a
  session that had been forgotten.  `ForgottenIsReleased` and `StopHolds`, and with
  them `NothingIsCutShort`, except exactly that.
* One reviewer stands for all of them: reviewers share nothing but the session's
  transcript and task.  What the lane does inside a review is `ReviewLane`.

### DeltaSlice and SessionHistory

`DeltaSlice` holds `sliceDelta` and the fingerprints of a cursor as operators over
a transcript, a function from the ids of its messages (numbers in the order of
creation, which the code sorts by) to completion and parts.  The two bounds of the
code (2048 messages, 8192 parts) are `Window` and `PartLimit`.  Digests are taken to be
injective.

`SessionHistory` is the cache of one session.  The server's messages grow, are
completed, rewritten or removed; its events come later and in order, and a lost
connection loses them.  `load` is the read under way: not yet answered by the
server, answered with what it had then, or the point reads that are left.
`pass` is the reviewer's read, `checkpoint` the tool's fresh one.

* A reviewer's pass is accepted or not at the end; what its slice contained is
  in `reviewed`.  A pass may begin at any time or never: what begins one is
  `PassScheduler`'s subject.
* `PassSeesEverything` speaks of each pass that begins: once the events are in it is
  given everything that is not reviewed yet, whatever was lost on the way.  That
  everything is reviewed in the end is not claimed, because the code does not see to
  it: a pass begins only with a completed `message.updated` or an idle status
  (`watcher.ts:156-176`), which a lost connection loses too, a new connection only
  invalidates the cache (`history/session.ts:123`), a failed pass is not repeated without
  a trigger, and a lane may skip a slice without moving its cursor (`lane.ts:131,148`).
* A part is one unit of the bound on bytes, `MaxSize`.  `MaxCached` is the number of
  messages that may be cached; the code has 2048 in both `#load` and `#put`, the
  `Window` of the fingerprints, and `BoundsAssumption` says no more than that it is not
  greater.  This matters: with more messages cached than have fingerprints, a
  message whose event is overtaken by a later read could fall out of the window
  unreviewed, and the cursor would cover it.
* What other sessions do to the cache is `#trim`, which may drop the entry whenever
  it is not loading.

### Checkpoint

The task of a session in memory (`states`, `users`, `saved`) and on disk (`disk`), the
operations that wait for their turn (`queue`, `running`), and calls of the
checkpoint tool from await to await.  A scope that `forget` released goes on as an
`orphan`: its write still reaches the disk, and nothing of it comes back to
memory.  Findings carry a version, a state, a proof with the revision it is for,
and, as history, how often they were opened.

`Report` is `runCheckpoint` as one expression over what was listed; the page shown
is an operand of the mutant only, as it must be.

* A write is answered, refused, or answered with an error although it
  committed; `unsure` remembers that what is on disk is unknown to memory.
* Findings have one report each, which may be unreadable.

### AdviceInjection

The deliverer's two tracks towards a prompt: `deliver` reads a finding and its
receipts and adds it; the transform of a prompt reads the pending findings, and
injects the ones it assessed.  It extends `Checkpoint`, whose calls close findings
and replace the task between these reads.  Cards are external here.

### DatabaseClient

Stores, their handles, requests, and the workers of the process.  The main thread
and a worker exchange messages in order, so one step is one turn of either event
loop.  A worker that failed may go on for a while: requests it still executes are
told "unavailable", which `database-client.ts:5` says may have committed.

* A reply is matched with its request by number (`database-client.ts:28-35`), so the
  message that closes a handle names its store: of two stores that close handles of
  one worker, each waits for its own reply.
* Which of the opened databases a worker keeps is not observable and left out.
* A handle's own refusal after `close` is unreachable: the store refuses first.

### UsageLedger

The rows of one child session.  Two sources feed them that do not know of each
other: message events, each `Observing` for itself, and `finish`, which reads the
history and observes it again as authoritative.  A cost is the version of its
message, which is all that comparing, replacing and summing it depends on here.

* Requests of a session never overlap (`ReviewLane`), but the accounting of one may
  go on when the next has begun, and a closed window may be moved later.
* `close()` is the end of the process, after which the rows stay as they are until
  recovery.
* An attempt whose process died before its prompt stays `running`: the journal does
  not name it, so nobody recovers it, and the session's summary stays partial.

## Runs

All runs take two workers and finish within five minutes.

| Run | Bounds | What it shows |
| --- | --- | --- |
| `ReviewJournal_journal` | 2 lanes in 2 processes, 2 configurations, 1 pass, 2 queued saves, 1 fault | ownership, saves and progress under every interleaving of two claimants; refinement; `close()` returns; a dead owner is replaced |
| `ReviewJournal_leak` (violation) | same, 1 queued save | a claim that committed and lost its reply survives `close()` |
| `Process_services` | permits: limit 1, 2 plugin instances, 2 providers, 4 calls, 2 pools; worker: 2 stores, 2 directories, 2 requests, 2 workers, 1 failure; ledger: 2 attempts, 2 messages, history up to 3, 1 incident | permits add up and roots take turns; callers are told the truth about a lost worker; usage is attributed and settled |
| `ReviewLane_lane` | 1 lane, 2 passes, 2 messages, 2 attempts, 1 fault or retry | late answers move nothing back; the lane frees |
| `ReviewLane_restart` | 2 processes with a lane and a configuration each, 2 passes | no overlap after any crash or uncertainty; progress and reports |
| `ReviewLane_cursor` (violation) | 1 lane, 1 pass | the cursor in memory gets ahead of the journal |
| `Watcher_sessions` | 3 scheduler objects, 2 epochs, 1 resume, 1 lookup; four sets of events: two checkpoints with a loss of the session, two with a crash, three with a write that fails or loses its answer, sessions of every nature | triggers, cooldown, stops and resumes, what is watched and what is left of it |
| `CardDelivery_cards` | 2 notes, 2 findings; four sets: 3 turns and a replacement, an extra step, closed findings, 4 failures | cards only while idle, on the latest reply, never for the old task, one per finding; the queue drains |
| `NoteStore_reports` | 2 reports about one or two findings, 3 writers of one of them, overlapping freely, 1 or 2 readers, page of 1 receipt, clock up to 2, 1 fault, up to 2 dispositions | what was acknowledged stays quiet, pointers are claimed once, recorded reports keep their file unless they were adopted from a save under way, mirrors follow the receipts and are repaired |
| `NoteStore_overlap` (violation) | 1 report, 2 overlapping savers, 1 fault | the first saver's rollback removes what the second recorded |
| `SessionHistory_reads` | 2 messages, 2 parts, 3 changes, 1 fault, fingerprints of 1 message and 1 part, 1 message and 3 parts cached, 1 dirty message | the cache agrees with the server, fresh reads are fresh, a pass overlooks nothing |
| `Checkpoint_calls` | 2 findings (blocker and concern), 2 calls, page of 1, advice for 1 turn; three sets: tasks with faults and releases, findings and reports, prompts | the task goes forward, gates hold, injected advice is current |

Why these bounds are enough to be interesting: two lanes are the least that can
race for a row, and a third only repeats the second's choices; two passes are
the least with an old and a new one, and two messages let the new one see more
than the old one; two attempts have one request that failed and one that runs.
Three turns let one come and go during a flush and another be open; four
failures are one more than drop a batch (`MAX_ATTEMPTS` is 3) so that the next
card has one of its own.  `limit = 1` makes every second call wait, and four
calls over two roots let one root ask again while the other waits.  Three state
objects leave two forgotten passes in flight behind the current one.
Three writers of a report are the saver, its confirmation and a recovery by a
later process; two reports let one finding be acknowledged through the other
report, and a page of one makes the repair turn the page.  A window of one
message and one part puts every second message and part beyond the
fingerprints, and with one message cached the second one is only ever read in full.
Two calls overlap at each await, and a page of one hides the other finding.
A history of up to three messages is read twice, from a first limit of two.

Where a run has several sets of bounds (`Casts`, `Bounds`, `MCBounds`), a behaviour
chooses one of them at the start: each lets those events happen together that
matter to each other, and all at once would exceed the time of a run.
`Process_services` chooses the service in the same way: the three share no
state, so their states add up instead of multiplying.

The options of the scheduler are those of the reviewers (`cooldown_ms` one tick,
no debounce, idle cooldown respected); the proofs cover all others.  Deadlock is
not reported where the system may stop: all messages reviewed, all notes
delivered, all processes ended.  `CloseReturns`, `DatabaseSettles`, `UsageSettles`,
`QueueDrains` and `LaneFrees` say instead that nobody is left waiting.

## Fairness

* A database call is answered or fails, because the client fails every call of
  a worker that stops (`database-client.ts`), so the steps after a call are
  weakly fair.  Nobody has to ask for a save or close a lane.
  `DeadOwnerReplaced` assumes in addition that a live lane goes on calling
  `load()`, which every notification does.
* Timers fire and settled promises continue: `Tick`, `Fire`, `Resume`, the steps
  of `run()` and of a flush, the handling of published events.
* Two things are assumed of the outside where a property needs them: a provider
  ends every request (`WaiterServed`, `LaneFrees`) and a pass ends, which its
  deadline ensures (`TriggerServed`).  `LaneFrees` also assumes that recovery is
  asked for while a lane is blocked: three probes are automatic, further ones
  come with `recover: true`.
* Nobody has to send a message, report a note, close a finding, crash or
  replace a task.
* In `DatabaseClient` and `UsageLedger` every step that is assumed to go on is made a
  bounded number of times, so it is enough that some step is made as long as one is
  possible: one weak fairness condition each.  A read of the history need not
  return; the bounded wait for it ends.
* `Checkpoint` and `SessionHistory` have safety properties only.
* `NoteStore` has no liveness property and assumes no fairness: every actor may
  stop for good at any point.

## Proofs

`ReviewJournalProofs` proves, for any lanes, processes, passes, configurations
and bounds:

| Theorem | Statement |
| --- | --- |
| `TypeCorrect` | `Spec => []TypeOK` |
| `OwnershipIsRecorded` | `Spec => []OwnedIsRecorded` |
| `SavesLoseNothing` | `Spec => []NoLostUpdate` |
| `LiveOwnersKeepTheRow` | `Spec => NoTakeoverFromLive` |
| `ProgressFollowsPending` | `Spec => ProgressOnlyFromPending` |
| `ImplementsRegisterTheorem` | `Spec => ImplementsRegister` |

They rest on `JournalAssumption` alone.  The inductive invariant `IInv` adds to
`TypeOK`, `OwnedIsRecorded` and `NoLostUpdate`:

* `ClaimRestsOnDead`: the previous owner a claim under way will compare with is
  nobody, the lane itself or a lane of a dead process.  The claim compares only
  the owner's name; without this it could replace a live one.
* `OwnershipInMemory`: a lane that believes to own its row lives and is not
  loading, so nothing a load does can contradict the belief.
* `SavingHasOwner` and `ClosingIsClosed`: a save under way belongs to an owner
  that has a request queued, and a lane that closes refuses new work.

`StepInvariant` has one step per action; the two action properties and the
refinement follow from `IInv` step by step.

`ReviewLaneProofs` proves, for any lanes, processes, configurations, passes,
attempts, messages and faults:

| Theorem | Statement |
| --- | --- |
| `RequestsAreAlwaysAccountedFor` | `Spec => []RequestsAreAccountedFor`: what runs is on record and has a permit, so requests of a reviewer never overlap |
| `ProgressAndReportsAlwaysAgree` | `Spec => []ProgressAndReportsAgree`: what is recorded as reviewed has a saved report, and a report is published once |
| `CursorsGoForward` | `Spec => CursorNeverMovesBack` |

They rest on `LaneAssumption` alone.  None of the properties is inductive: each
depends on what a lane will still do with a result it got long before.  `IInv`
says, next to the properties' own parts (`RunningIsRecorded`,
`PermitCoversRequest`, `ProgressIsReported`, `ProgressHasItsConfiguration`,
`PublishedOk`):

* `LaneOk`: a loaded lane lives and owns the row, so there is one at a time, and
  what it runs is its own pass.
* `PassOk`, `RequestOk`: a pass has its permit and its record before it sends, and
  only the request of the current attempt may run.
* `HandlerOk`: a lane deals with a pass it ran and returned from, or with one whose
  own lane is gone; once there is a result nothing of the pass runs, and once the
  result is durable the pass is off the record.
* `PendingOk`: the pass on record is the one the owner runs or is blocked by.
* `WritesOf`: the queue of saves.  A `begin` that waits has sent nothing, and
  nothing of its pass is queued before it; saves that advance stand in the order of
  what they reach, and each has its saved report.  This is what keeps a late
  commit from passing a newer one.
* `CursorOk`: neither the cursor nor what is recorded is ahead of the pass a loaded
  lane works on.

The steps of `run()`, of recovery and of late completions share a few effects
(`Answering`, `Retrying`, `Leaving`, `Committing`, `Learning`, `Ending`, and the two
ends of a save).  One lemma per effect, or per action that is none of these, keeps
`IInv`; the lemmas before `NextKeeps` (`ReplyIs`, `ReconcileIs`, ...) say which effect
each action has.

`CardDeliveryProofs` proves, for any notes, findings and bounds:

| Theorem | Statement |
| --- | --- |
| `CardsAndReceiptsAgree` | `Spec => []CardsAgree` |
| `CardsAreSentByTheRules` | `Spec => SentByTheRules` |
| `NoCardIsLost` | `Spec => LeavesForAReason` |

They rest on `NoneAssumption` and `BoundsAssumption`.  A flush sends what it decided
several awaits before, so the invariant says which of what it read is still true:
`EventsAreOld` (the plugin's view of the turn lags behind the server's, and every
turn is announced before it starts), `FlushKnowsItsTurn` and `SnapshotIsTrue` (as long
as epoch and turn are the session's, the primary rests and the reply read is the
latest one), `WorkIsKnown` and `Counted` (a note that is being delivered is in the
queue, in the hands of a flush or accounted for), `CardsInHand`, `CardsAreRecorded`,
`ReceiptsAreShown` and `OneCardPerFinding` (cards, receipts and findings), `Tries` (the
failures counted).  `Without`, by which cards leave the queue, is a recursive function;
`KeptExists` shows that there is one, by the least index at which there would not be.

`NoteStoreProofs` proves, for any reports, findings, writers, readers, page sizes
and bounds:

| Theorem | Statement |
| --- | --- |
| `TypeCorrectness` | `Spec => []TypeOK` |
| `MarkersFollowReceipts` | `Spec => []MirrorFollowsReceipt` |
| `RecordedReportsStay` | `Spec => []OnlyAdoptedIsLost`: a recorded report loses its file only if it was adopted from a save under way |
| `ReportsAreShownOnce` | `Spec => []ShownOnce` |
| `ReportsKeepTheirTime` | `Spec => RetryKeepsReport` |
| `RepairRestoresMirrors` | `Spec => []MirrorsRepaired` |

They rest on the module's assumptions about its constants.  The invariant of the
first two says what a call holds between awaits:

* `ReadersHold`: on its way to expiry a reader holds a report without a marker,
  and on its way to the mirror it knows of a receipt no later than the marker it
  will write.  Receipts only become earlier (`ReceiptsOnlyEarlier`), so what it
  knew before an await is still true after it.
* `WritersHold`: a writer on its way to the database holds a report, and one that
  takes a file back has created it.

`RecordedReportsStay` adds `SInv`, which holds however savers overlap: two writers
never both believe to have created one report (`OneCreator`), because the link
succeeds only where no file is; and of a report that nobody adopted, nothing is
recorded while the writer that created it may still take it back, and one that
records what it met finds nobody left who would (`Saves`).  Whoever takes over a report
whose creator is not done enters it in `adopted` (`Adopt`).
`NoteStore_overlap` shows that the exception cannot be dropped.
`ReportsKeepTheirTime` adds that the report a reader holds has the time of the file
it may rewrite (`ReadersHoldTimes`), which only an adopted report that is taken back
and made again can break.

`ReportsAreShownOnce` adds `QInv`: what a reader has learnt of receipts and of the
time a finding was reopened is still true when it shows the report (`TablesKnow`,
`ReadersKnow`), and pointers are handed out no more often than they were put up
(`PointersCount`).  `RepairRestoresMirrors` rests on `RepairGoesOn`: up to the cursor
of `repair-receipts` every mirror is repaired, and a page skips nothing
(`PageComesNext`).

`WatcherProofs` proves, for any options, delays, objects, resume calls and bounds,
of the scheduler alone (`Spec`) and of watcher, runtime and scheduler together
(`WatcherSpec`):

| Theorem | Statement |
| --- | --- |
| `TypeCorrect` | `Spec => []TypeOK` |
| `TriggersAreNotLost`, `WatchedTriggersAreNotLost` | `Spec`, `WatcherSpec => []TriggersAreRemembered` |
| `PassesKeepTheCooldown`, `WatchedPassesKeepTheCooldown` | `Spec`, `WatcherSpec => []CooldownIsKept` |
| `ForgottenStartsNothing` | `Spec => ForgottenStaysQuiet` |
| `StopAndResumeHold` | `WatcherSpec => []StopAndResumeAgree`: paused only while stopped, nothing held back once the task goes on, except for answers on their way or lost |
| `WatchedIsReleased` | `WatcherSpec => []WatchedAndReleased`: only what is wanted is watched, what is dropped is released, one review per lane |
| `NothingIsEverCutShort` | `WatcherSpec => NothingIsCutShort`: nothing is handed over against a stop the runtime was told of, a deletion or disposal, and nothing busy is evicted |

They rest on `SchedulerAssumption`, `RuntimeAssumption` and `WatcherAssumption`, which
only say that delays and bounds are natural numbers.  None of the properties is
inductive.  That a pass starts outside the cooldown follows only from what its
timer was set to long before: `IInv` says of the current object (`Orderly`) that a
timer belongs to an object without a pass in flight and never ends before the
cooldown, that an accepted trigger rules out suppression, and that it is in the
timer or in the dirty flag of a pass; and of a forgotten object (`Left`) that it has
no timer, so nothing it still does can start a pass.

`RuntimeInv` adds what joins the row, `TaskContexts` and the runtime: memory agrees with
the row but for what is being written and for what an answer was lost of, and a
released scope keeps nothing (`ContextOk`); so the runtime knows of a stop (`Holds`) or
that the task goes on (`Goes`, `PausedOk`) as soon as it was told.  And it adds what joins
a pass, its lane and the session: an epoch has one lane or none and a stop that was
told leaves a lane only in a session that is paused (`LaneOk`), which is why a report that is ready after a stop finds the pause; a pass that was not
cancelled is of this epoch and works in its lane (`PassOk`), so that what `forget`
overtook cannot share one with a later pass; a saved report of this epoch was
written in the session's lane (`SavedOk`).  `WatcherInv` says what keeps an epoch
(`WatchOk`: the session is watched, or a resume brought the epoch back), that a resume
of this epoch is of a watched session that nobody stopped since (`ResumeOk`), that a
write whose scope is active is of a watched session (`AtWork`), so that its answer
reaches the runtime, and that while the task goes on a resume is on its way to whatever was held back
(`HeldBackOk`).

The first attempt to prove `NothingIsCutShort` showed it to be too strong: a session
that was evicted while a resume was under way gets its epoch back from the last
line of `resume()`, and its deletion, which `watcher.ts:224` tells the runtime of only
if the session is watched, then leaves it a live epoch in which a report is still
handed over.  It takes two losses (an eviction and a deletion), more than the bounds
of `Watcher_sessions` had together with a resume.  The property now excepts what
`late` marks, as `ForgottenIsReleased` did before.

`ProcessProofs` proves, for any plugin instances, providers, calls, pools and limit (a
limit of 0 is none), and for any attempts, messages, observers and length of history:

| Theorem | Statement |
| --- | --- |
| `PermitsAlwaysAddUp` | `Spec => []PermitsAddUp` |
| `PoolStaysWhileBusy` | `Spec => []OnePool` |
| `UsageIsAlwaysHonest` | `UsageSpec => []UsageIsHonest` |

The first two rest on `AdmissionAssumption` alone.  `AdmissionInv` says that a bucket's count and queue
are exactly the calls that hold or wait (`BucketOk`) and that nobody waits beside a
free permit (`Settled`); that all instances have the pool of the map and a pool with
permits out stays there (`OnePool`), which is why the limit holds for the process
and not only for a pool; and that a registration is of a permit that is out
(`RegistrationsHoldPermits`) and found under its own attempt (`OwnAttempt`), so that
restart recovery releases no other one.

`UsageIsAlwaysHonest` rests on `UsageAssumption` and on `ObserverAssumption` (the thread of
an event is not the one of a `finish()`).  Neither half of `UsageIsHonest` is inductive:
an event may be attributed long after it was sent, and a coverage is stored at the
end of many awaits.  `UsageInv` says

* `SessionOk`, `AttemptsOk`: what an attempt asked for was made between its own
  beginning and that of the next attempt, its prompt is a message of its own, and it
  is settled only once its request is over.  So whatever attempt answers a message or
  has it in its window now is its own (`FindIs`), also after later ones began.
* `RowsOk`, `JobsOk`: what is charged, and what an observation is about to charge, is
  the message's own.
* `FinisherOk`: a `finish()` whose coverage is complete has every reply to its attempt
  recorded as completed, in what it has left to apply, or in the observation it waits
  for (`ToCount`).  It begins with `CoveredIs`: a history that is shorter than was asked
  for, or that begins before the attempt, holds every reply to it.
* `CoverageOk`: coverage that is stored is true; a correction of a completed row never
  makes it incomplete (`UpsertIs`).

Of the SQLite worker it proves, for any stores, directories, requests, workers and
failures:

| Theorem | Statement |
| --- | --- |
| `CallersAreToldTheTruth` | `DatabaseSpec => []RequestsAreTold` |
| `NoRequestIsForgotten` | `DatabaseSpec => []PostedIsUnderWay` |

They rest on `DatabaseAssumption` alone.  Main thread and worker exchange messages in
order, so the invariant is about one line per worker: the replies not yet read, and
behind them what it has not run.  Every message stands in it once (`LineOk`), a
posted request stands in it (`RequestsOk`), and the last handle's close stands at its
end (`LastOk`).  `OwnersOk` counts the owners as the handles held, `HandlesOk` and
`WorkersOk` follow a handle and a worker through their lives, `EndsEmpty` and
`StaysForSomeone` say that without a failure a worker ends only when it is empty and
unowned, and that one nobody owns does end.

`SessionHistoryProofs` proves, for any window, number of fingerprints, bounds of the
cache, messages, parts, changes and faults:

| Theorem | Statement |
| --- | --- |
| `CacheAlwaysAgrees` | `Spec => []CacheAgrees`: what is served from the cache is current once the events are in, and the cursor covers only what was under review |
| `FreshReadsAreFresh` | `Spec => FreshReadIsFresh` |
| `PassesSeeEverything` | `Spec => PassSeesEverything`: what a pass is given leaves nothing out that is not reviewed |

They rest on `WindowAssumption`, `BoundsAssumption` and `NoneAssumption`.  `CacheAgrees`
speaks of the moment at which no event is under way; the invariant says what the
cache is worth at all others:

* `EventsHold`: every event under way tells the truth of the session, or a later one
  puts it right; `UpToDate`: a transcript, cached or just loaded, differs from the
  session's in nothing but its dirty messages and what the events under way will
  tell, or a reset is among them.  One lemma per kind of change (`MessageTells`,
  `PartTells`, `ResetTells`, `ReconnectTells`) shows that the event it sends keeps both;
  `MessageSeen` and `PartSeen` that taking the first event does; a load that an event
  reached says nothing any more (`TouchedHolds`), which is why it is not cached.
* `Skips` and `Whole`: between the messages under the prefix and the last one, every
  message of the session has its fingerprint in the cursor, because ids are not
  used twice and a transcript longer than the window is always the server's answer.
  `SliceCovers` needs it: `sliceDelta` takes a message without a fingerprint, not later
  than the last one seen, to be under the prefix.
* `ReaderOK`: a checkpoint that waits for a load waits for one that began after its
  call.

`PassesSeeEverything` joins them: what the pass reads is the session's (`UpToDate` with no
event left), a part it does not slice is covered by the cursor
(`SliceOverlooksNothing`), and what the cursor covers was reviewed
(`CursorCoversReviewed`).

The cap on cached messages came out of this proof: the model did not have it, TLC
found no use for it within the bounds of the run, and `SliceSkipsNothing` does not
hold without it.  The model now has it, as the code does.

`AdviceInjectionProofs` proves, for any findings, calls, requests, issues, page size,
`NoteTtlTurns` and bounds:

| Theorem | Statement |
| --- | --- |
| `ContextsAlwaysAgree` | `Spec => []ContextsAgree` |
| `StoredContextGoesForward` | `Spec => ContextGoesForward` |
| `GatesAlwaysHold` | `Spec => []GatesHold` |
| `InjectedForItsTurnsAlways` | `Spec => []InjectedForItsTurns` |
| `OnlyAssessedIsInjected` | `Spec => InjectedIsAssessed` |

They rest on `CheckpointAssumption` and `TtlAssumption`.  Three invariants carry them:

* `PromptInv`: the turns a finding was injected in are those its blocker has counted,
  and the one it has seen last (`Counted`); prompts have a user message (`Anchored`).
* `ContextInv`: the operations of a scope stand in the order in which they saw the
  session, and a tool call waits for one of them, so that no two of them answer it
  (`QueueOk`, `RunningOk`, `OrphanOk`, `Fits`, `InOrder`); what is on disk is no later
  than what memory has or what the first of them saw (`Ahead`, `DiskOk`), and a write
  that is answered has landed or was overwritten by a later one (`Stored`).  That is
  why a write of a released scope cannot take the task back, and why a call is told
  of a context no older than the session was when it was made (`CallOk`).
* `FindingsOk` and `GatesOk`: a proof is of the present opening of its finding; no
  finding is lost and a report that has expired stays so, so that an answer's gates
  keep to cover what they covered when they were computed.

A batch of updates is a recursive function over its updates; `TablesExist` shows that
there is one and `BatchKeeps` that it keeps what every single update keeps.

Types, `NoLostUpdate` of the journal, `OnePool` and `PostedIsUnderWay` are only
proved: no run repeats them.

Only model-checked: the liveness properties, which are out of the prover's reach under
fairness (and with them every use of ENABLED).  Every invariant and action property
of a passing run is a theorem too, those of `WatcherSpec` and `UsageSpec` under these
specifications.  RECURSIVE operators are avoided in all modules.

## Findings

* `ReviewJournal_leak`: `claimJournal` commits and its reply is lost, so `load()`
  rejects before `#owned` is set; `close()` then releases nothing and the row
  keeps naming a closed lane of a live process.
* `ReviewLane_cursor`: a timed-out pass was settled as cancelled, its answer
  still comes, and its commit advances `#cursor` although `settle` finds nothing
  pending; after a restart the slice is reviewed again.

* `NoteStore_overlap`: `writeNote` takes back the file it created when its record
  is refused (`store.ts:66`).  If its lane was retired meanwhile, the next owner's
  recovery may have adopted and recorded that file; the database then names a
  report that is gone, and every later card of it fails with "note unavailable".
  `OnlyAdoptedIsLost` shows that this is the only way.

## Observations

What the models show besides, and the properties except or include as it is:

* `resume()` ends with a notification (`runtime.ts:101`).  If its session was
  forgotten while it showed the reports it had held back, epoch, context and lane
  come back for a session nobody watches, until the next forget of it;
  `test/advisor.test.ts:646` asks that evicting a root releases them.  A deletion of
  such a session does not forget it (`watcher.ts:224`), so a report may still be
  handed to the deliverer after it.
* A stop that arrives while a pass reads the transcript does not stop the review
  of it: after the read only the lifetime is asked (`runtime.ts:164`).
  `README.md:55` says that a stop suppresses dispatch and delivery; the latter is
  checked.
* A resume that fails or loses its epoch leaves the reports it should have shown in
  the store, where the next resume finds them.
* The row and the runtime can disagree about a stop.  If the write of the task commits
  and its answer is lost, `onTask` is not called (`plugin/checkpoint.ts:75-76`): after a
  stop the runtime is not paused, and a pass that read the task before hands its
  report over; after a resume it stays paused.  A resume that is stored while its
  session is evicted never reaches `resume()` (`plugin.ts:156`), so what was held back
  waits for the next one.
* `resume` after a stop whose answer was lost may equal the last snapshot known to be
  saved; it is then not written (`context.ts:111`), so the runtime goes on while the row
  stays stopped until something else is saved.
* A write of the task whose reply is lost leaves `saved` at an older key; a later
  snapshot equal to that key is then not written (`context.ts:111`), and the row stays
  behind memory.  `ContextsAgree` excepts it (`unsure`).
* A later `message.updated` of a user message drops the `next_action` that the row
  still has (`context.ts:21`).
* Nothing but `session.compacted`, a forget or a replacement ends the mark of a
  compaction: after one that failed no advice is injected any more
  (`clearCompacting`, `cards.ts:131`, has no caller).  And `session.compacted` drops what
  is pending, while `README.md:21` says that injections last until delivery,
  disposition or `note_ttl_turns` turns.
* The finish of an uncertain cancellation may land after a confirmed one and open
  its row again: `finishUsage` protects completed rows only (`usage/database.ts:77`).

## Not modelled

* The child session's rotation and what is carried over (`child.ts`, `carry.ts`): it
  depends on the length of texts, and happens inside the one pass of a lane.
* Review triggers, model selection, failure classes, prompts, parsing of advice and
  notes, configuration, roster: text or maps in, a decision out.  The models leave
  the decision open.
* The back-off after a timeout, which only delays a pass, and the earlier failure of
  a prompt OpenCode keeps retrying (`upstream.ts`), which is a failed request.
* Backfill and listing of reports of earlier versions: a sequential migration.
* The abort of the primary (`abort_on_blocker`), old cards dropped from a prompt
  (`deliver/history.ts`), toasts, the shell fallback of the renderer.
* The status file, statistics and the log: output nobody reads back.
* Cursors of the format without fingerprints, reports without an idempotency key,
  corrupt files; several directories of one ledger.
* The command line, except for what it does to the store, which is in `NoteStore`.

What would come next are the parts listed here as sequential text or output, of which
the rotation of the child session is the one with the most states.
