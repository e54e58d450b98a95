----------------------------- MODULE Checkpoint -----------------------------
(***************************************************************************)
(* The checkpoint tool of one session (plugin/checkpoint.ts) and what it   *)
(* works on: the task context kept in memory and on disk                   *)
(* (advisor/context.ts), the findings and their dispositions               *)
(* (notes/database.ts, notes/queries.ts), and the decisions taken from     *)
(* both (policy.ts, checkpoint.ts, checkpoint/output.ts).                  *)
(*                                                                         *)
(* Tool calls and the passes of reviewers run beside each other.  Each     *)
(* await is a step boundary.  The database worker executes requests in     *)
(* the order in which they are posted, so a read or write has its effect   *)
(* when posted and its answer comes later.  The user, the transcript and   *)
(* the reviewers' reports are external.  A finding has one report here.    *)
(***************************************************************************)
EXTENDS Naturals, Sequences, FiniteSets, SequencesExt

CONSTANTS
  Finding, Call, None,
  IssueOf, SeverityOf,  \* of a finding
  Limit,     \* findings on a page
  Bounds     \* bounds Init chooses from: turns, captures, releases, findings, faults,
             \* and the requests the agent may make

VARIABLES
  bound,     \* the bounds of this behaviour, counted down
  log,       \* the session so far: [user, revision] after each change
  watched,
  disk,      \* the task_context row
  states, users, saved,  \* #states, #users, #saved of the session
  queue,     \* waiting in the scope's tail
  running,   \* the operation of the scope that is under way
  orphan,    \* an operation of a released scope that waits for its write
  unsure,    \* history: the outcome of the last write was not told
  rows,      \* the findings table with its verifications
  reports,   \* files of the findings' reports
  calls      \* [Call -> tool call]

session == <<bound, log, watched>>
memory == <<states, users, saved, queue, running, orphan>>
contexts == <<memory, disk, unsure>>
findings == <<rows, reports>>
checkpointVars == <<session, contexts, findings, calls>>

Task == {"continue", "replace", "stop", "resume"}
Action == STRING \cup {None}

Snapshot == [task : Nat, revision : Nat, stopped : BOOLEAN, user : Nat, action : Action]

(* The proof of a verified finding; opening is history: the opening of the *)
(* finding it was recorded in.                                             *)
Proof == [revision : Nat, in_scope : BOOLEAN, action : Action, opening : Nat]
Row == [task : Nat, revision : Nat, state : {"open", "resolved", "deferred"}, version : Nat,
        proof : Proof \cup {None}, opening : Nat]

Operation == [kind : {"capture", "checkpoint"}, by : Call \cup {None},
              seen : [user : Nat, revision : Nat], task : Task, action : Action,
              phase : {"waiting", "loading", "saving"}, value : Snapshot \cup {None}]

(* The arguments of the tool: evidence tells whether an update has any.    *)
Disposition == [id : Finding, state : {"open", "resolved", "deferred"}, evidence : BOOLEAN,
                verification : [in_scope : BOOLEAN, action : Action] \cup {None}]
Request == [task : Task, action : Action, updates : Seq(Disposition), offset : Nat]

Answer == [action_allowed : BOOLEAN, completion_allowed : BOOLEAN,
           paused : SUBSET Finding, shown : SUBSET Finding]

Pc == {"unused", "reading", "capturing", "captured", "checkpointing", "recording", "listing", "notes",
       "returned", "unavailable", "failed"}

Asked == [pc : Pc, request : Request \cup {None}, seen : [Finding -> Nat] \cup {None}, asked : Nat,
          context : Snapshot \cup {None}, all : [Finding -> Row \cup {None}] \cup {None},
          report : Answer \cup {None}]

(* The last four are of module AdviceInjection.                            *)
Bound == [requests : SUBSET Request, asks : Nat, turns : Nat, captures : Nat, releases : Nat,
          faults : Nat, findings : Nat, deliveries : Nat, cards : Nat, prompts : Nat,
          compactions : Nat]

ASSUME CheckpointAssumption ==
  /\ SeverityOf \in [Finding -> {"nit", "concern", "blocker"}]
  /\ DOMAIN IssueOf = Finding /\ IsFiniteSet(Finding)
  /\ Limit \in Nat \ {0}
  /\ None \notin Finding \cup Call \cup Snapshot \cup Operation \cup Row
  /\ Bounds \subseteq Bound

TypeOK ==
  /\ bound \in Bound
  /\ log \in Seq([user : Nat, revision : Nat]) /\ log # <<>>
  /\ watched \in BOOLEAN /\ unsure \in BOOLEAN
  /\ disk \in Snapshot \cup {None} /\ states \in Snapshot \cup {None} /\ saved \in Snapshot \cup {None}
  /\ users \in Nat
  /\ queue \in Seq(Operation)
  /\ running \in Operation \cup {None} /\ orphan \in Operation \cup {None}
  /\ rows \in [Finding -> Row \cup {None}]
  /\ reports \in [Finding -> {"none", "present", "expired", "lost"}]
  /\ calls \in [Call -> Asked]

NewCall == [pc |-> "unused", request |-> None, seen |-> None, asked |-> 0, context |-> None,
            all |-> None, report |-> None]

CheckpointInit ==
  /\ bound \in Bounds
  /\ log = <<[user |-> 1, revision |-> 1]>>
  /\ watched = TRUE
  /\ disk = None /\ states = None /\ users = 0 /\ saved = None
  /\ queue = <<>> /\ running = None /\ orphan = None /\ unsure = FALSE
  /\ rows = [f \in Finding |-> None]
  /\ reports = [f \in Finding |-> "none"]
  /\ calls = [c \in Call |-> NewCall]

Now == log[Len(log)]

Spend(what) == bound[what] > 0 /\ bound' = [bound EXCEPT ![what] = @ - 1]

----------------------------------------------------------------------------
(* policy.ts.                                                              *)

Active(row, ctx) ==
  row.state = "open" /\ ~ctx.stopped /\ row.task = ctx.task

Current(row, ctx) == row.proof # None /\ row.proof.revision = ctx.revision

ActionAtRisk(row, ctx) ==
  Current(row, ctx) /\ row.proof.in_scope /\ row.proof.action # None /\ row.proof.action = ctx.action

(* decideUnavailableAdvice *)
DecideUnavailable(row, ctx) == IF Active(row, ctx) /\ ActionAtRisk(row, ctx) THEN "pause" ELSE "defer"

(* decideAdvice, for a report that supports its observation.               *)
Decide(severity, status, row, ctx) ==
  IF status = "expired" \/ row.state # "open" THEN "ignore"
  ELSE IF ~Active(row, ctx) THEN "defer"
  ELSE IF Current(row, ctx) /\ row.proof.in_scope
       THEN IF severity = "blocker" /\ ActionAtRisk(row, ctx) THEN "pause" ELSE "fix"
  ELSE "defer"

NeedsDisposition(severity, row, ctx) ==
  /\ row.state = "open" /\ severity # "nit"
  /\ row.task = ctx.task
  /\ row.proof # None /\ row.proof.in_scope

----------------------------------------------------------------------------
(* recordDispositions: a batch is one transaction.                         *)

Valid(table, u, versions) ==
  /\ table[u.id] # None /\ table[u.id].version = versions[u.id]
  /\ (u.state = "resolved" \/ (u.state = "open" /\ table[u.id].state # "open")) => u.evidence
  /\ u.verification # None => u.evidence

\* Mutant: closing or reopening a finding keeps its verification.
DisposeKeepsProof(row, u, revision) ==
  LET opening == IF u.state = "open" /\ row.state # "open" THEN row.opening + 1 ELSE row.opening
  IN [row EXCEPT !.state = u.state, !.version = @ + 1, !.opening = opening,
        !.proof = IF u.verification # None
                  THEN [revision |-> revision, in_scope |-> u.verification.in_scope,
                        action |-> u.verification.action, opening |-> opening]
                  ELSE @]

Dispose(row, u, revision) ==
  LET opening == IF u.state = "open" /\ row.state # "open" THEN row.opening + 1 ELSE row.opening
  IN [row EXCEPT !.state = u.state, !.version = @ + 1, !.opening = opening,
        !.proof = IF u.verification # None /\ u.state = "open"
                  THEN [revision |-> revision, in_scope |-> u.verification.in_scope,
                        action |-> u.verification.action, opening |-> opening]
                  ELSE IF u.state # "open" \/ row.state # "open" THEN None ELSE @]

(* The table after a batch, None if it is refused.                         *)
Disposed(updates, versions, revision) ==
  LET after[i \in 0..Len(updates)] ==
        IF i = 0 THEN rows
        ELSE LET u == updates[i]
             IN IF after[i - 1] = None \/ ~Valid(after[i - 1], u, versions) THEN None
                ELSE [after[i - 1] EXCEPT ![u.id] = Dispose(@, u, revision)]
  IN after[Len(updates)]

(* readFindings and the filter of runCheckpoint: every finding of an issue *)
(* that has an active or updated one.                                      *)
Listed(table, ctx, updated) ==
  LET known  == {f \in Finding : table[f] # None}
      issues == {IssueOf[f] : f \in {g \in known : Active(table[g], ctx) \/ g \in updated}}
  IN {f \in known : IssueOf[f] \in issues}

Decision(f, row, ctx) ==
  IF reports[f] = "lost" THEN DecideUnavailable(row, ctx)
  ELSE Decide(SeverityOf[f], reports[f], row, ctx)

\* Mutant: the gates look at the page only.
ReportOfPage(table, ctx, request) ==
  LET listed == Listed(table, ctx, {request.updates[i].id : i \in DOMAIN request.updates})
      order  == SetToSeq(listed)
      shown  == {order[i] : i \in {j \in DOMAIN order : request.offset < j /\ j <= request.offset + Limit}}
      paused == {f \in shown : Decision(f, table[f], ctx) = "pause"}
      undone == {f \in shown : NeedsDisposition(SeverityOf[f], table[f], ctx)}
  IN [action_allowed |-> ~ctx.stopped /\ paused = {}, completion_allowed |-> undone = {},
      paused |-> paused, shown |-> shown]

(* runCheckpoint's gates over all listed findings; shown is the page of    *)
(* checkpointOutput, which has no part in them.                            *)
Report(table, ctx, request) ==
  LET listed == Listed(table, ctx, {request.updates[i].id : i \in DOMAIN request.updates})
      order  == SetToSeq(listed)
      paused == {f \in listed : Decision(f, table[f], ctx) = "pause"}
      undone == {f \in listed : IF reports[f] = "lost" THEN Active(table[f], ctx)
                                ELSE NeedsDisposition(SeverityOf[f], table[f], ctx)}
  IN [action_allowed |-> ~ctx.stopped /\ paused = {}, completion_allowed |-> undone = {}, paused |-> paused,
      shown |-> {order[i] : i \in {j \in DOMAIN order : request.offset < j /\ j <= request.offset + Limit}}]

----------------------------------------------------------------------------
(* TaskContexts.                                                           *)

Base(op, loaded) ==
  IF loaded # None THEN loaded
  ELSE [task |-> IF op.kind = "capture" THEN log[1].user ELSE users,
        revision |-> 0, stopped |-> FALSE, user |-> 0, action |-> None]

\* Mutant: every checkpoint decides whether the task is stopped.
NextSnapshotUnstopped(op, loaded) ==
  LET state == Base(op, loaded)
      user  == IF users # 0 THEN users ELSE IF op.kind = "capture" THEN op.seen.user ELSE state.user
  IN IF op.kind = "capture"
     THEN [state EXCEPT !.revision = op.seen.revision, !.user = user,
                        !.action = IF user = state.user THEN @ ELSE None]
     ELSE [task |-> IF op.task = "replace" THEN user ELSE state.task, revision |-> state.revision,
           stopped |-> op.task = "stop", user |-> user, action |-> op.action]

(* #capture and #checkpoint: the snapshot to save; users and user are 0    *)
(* when there is none.                                                     *)
NextSnapshot(op, loaded) ==
  LET state == Base(op, loaded)
      user  == IF users # 0 THEN users ELSE IF op.kind = "capture" THEN op.seen.user ELSE state.user
  IN IF op.kind = "capture"
     THEN [state EXCEPT !.revision = op.seen.revision, !.user = user,
                        !.action = IF user = state.user THEN @ ELSE None]
     ELSE [task |-> IF op.task = "replace" THEN user ELSE state.task, revision |-> state.revision,
           stopped |-> IF op.task = "continue" THEN state.stopped ELSE op.task = "stop",
           user |-> user, action |-> op.action]

(* An operation's caller goes on with its result, or fails.                *)
Settled(op, ok) ==
  IF op.by = None \/ calls[op.by].pc \notin {"capturing", "checkpointing"} THEN calls
  ELSE IF ~ok THEN [calls EXCEPT ![op.by].pc = "failed"]
  ELSE IF ~watched THEN [calls EXCEPT ![op.by].pc = "unavailable"]
  ELSE IF op.kind = "capture" THEN [calls EXCEPT ![op.by].pc = "captured"]
  ELSE [calls EXCEPT ![op.by].pc = "recording", ![op.by].context = op.value]

Ended(op, ok) == running' = None /\ calls' = Settled(op, ok)

Writable == {<<TRUE, TRUE>>} \cup IF bound.faults > 0 THEN {<<TRUE, FALSE>>, <<FALSE, FALSE>>} ELSE {}

(* #save() of an active scope.  The write is posted with an outcome that   *)
(* is told later: value of a failed one is None.                           *)
Save(op, loaded, memo) ==
  LET current == NextSnapshot(op, loaded)
  IN /\ states' = current
     /\ saved' = memo
     /\ IF current = memo
        THEN Ended([op EXCEPT !.value = current], TRUE) /\ UNCHANGED <<disk, unsure, bound>>
        ELSE \E w \in Writable :
               /\ disk' = IF w[1] THEN current ELSE disk
               /\ unsure' = ~w[2]
               /\ IF w[2] THEN UNCHANGED bound ELSE Spend("faults")
               /\ running' = [op EXCEPT !.phase = "saving", !.value = IF w[2] THEN current ELSE None]
               /\ UNCHANGED calls

(* The next operation of the scope begins; #load() reads what memory lacks. *)
Begin ==
  /\ running = None /\ queue # <<>>
  /\ queue' = Tail(queue)
  /\ IF states # None THEN Save(Head(queue), states, saved)
     ELSE /\ running' = [Head(queue) EXCEPT !.phase = "loading", !.value = disk]
          /\ UNCHANGED <<states, saved, disk, unsure, bound, calls>>
  /\ UNCHANGED <<log, watched, users, orphan, findings>>

Loaded ==
  /\ running # None /\ running.phase = "loading"
  /\ \/ Save(running, running.value, IF running.value # None THEN running.value ELSE saved)
     \/ Spend("faults") /\ Ended(running, FALSE) /\ UNCHANGED <<states, saved, disk, unsure>>
  /\ UNCHANGED <<log, watched, users, queue, orphan, findings>>

WriteReturns ==
  /\ running # None /\ running.phase = "saving"
  /\ saved' = IF running.value # None THEN running.value ELSE saved
  /\ Ended(running, running.value # None)
  /\ UNCHANGED <<session, states, users, queue, orphan, disk, unsure, findings>>

\* Mutant: the answer of a write does not ask whether its scope is active.
OrphanIsRemembered ==
  /\ orphan # None
  /\ orphan' = None
  /\ saved' = IF orphan.value # None THEN orphan.value ELSE saved
  /\ calls' = Settled(orphan, orphan.value # None)
  /\ UNCHANGED <<session, states, users, queue, running, disk, unsure, findings>>

(* A write of a released scope still answers its caller, and nothing else. *)
OrphanReturns ==
  /\ orphan # None
  /\ orphan' = None
  /\ calls' = Settled(orphan, orphan.value # None)
  /\ UNCHANGED <<session, states, users, saved, queue, running, disk, unsure, findings>>

(* user(): from the chat hook or from an event, maybe an old one.          *)
Told(u) ==
  IF u <= users THEN UNCHANGED <<users, states>>
  ELSE /\ users' = u
       /\ states' = IF states = None THEN None ELSE [states EXCEPT !.user = u, !.action = None]

(* forget(): the watcher no longer watches the session.  What waits in the *)
(* released scope fails when it would begin or save.                       *)
Forget ==
  /\ watched /\ watched' = FALSE
  /\ Spend("releases") /\ orphan = None
  /\ states' = None /\ users' = 0 /\ saved' = None /\ queue' = <<>> /\ running' = None
  /\ LET saving == running # None /\ running.phase = "saving"
         failing == {queue[i].by : i \in DOMAIN queue}
                      \cup (IF running # None /\ ~saving THEN {running.by} ELSE {})
     IN /\ orphan' = IF saving THEN running ELSE orphan
        /\ calls' = [c \in Call |-> IF c \in failing THEN [calls[c] EXCEPT !.pc = "failed"] ELSE calls[c]]
  /\ UNCHANGED <<log, disk, unsure, findings>>

Watch == ~watched /\ watched' = TRUE /\ UNCHANGED <<bound, log, contexts, findings, calls>>

----------------------------------------------------------------------------
(* The session and the reviewers.                                          *)

Turn(next) == Spend("turns") /\ log' = Append(log, next) /\ UNCHANGED <<watched, findings, calls>>

UserMessage ==
  /\ Turn([Now EXCEPT !.user = @ + 1])
  /\ Told(Now.user + 1)
  /\ UNCHANGED <<saved, queue, running, orphan, disk, unsure>>

Work == Turn([Now EXCEPT !.revision = @ + 1]) /\ UNCHANGED contexts

UserEvent(u) ==
  /\ watched /\ u <= Now.user /\ u > users
  /\ Told(u)
  /\ UNCHANGED <<session, saved, queue, running, orphan, disk, unsure, findings, calls>>

Capture(by) == [kind |-> "capture", by |-> by, seen |-> Now, task |-> "continue", action |-> None,
                phase |-> "waiting", value |-> None]

(* A pass of a reviewer has read the session and captures it.              *)
PassCaptures ==
  /\ watched /\ Spend("captures")
  /\ queue' = Append(queue, Capture(None))
  /\ UNCHANGED <<log, watched, states, users, saved, running, orphan, disk, unsure, findings, calls>>

(* Its report arrives, for the task and revision of its capture.           *)
RecordFinding(f) ==
  /\ rows[f] = None /\ states # None /\ Spend("findings")
  /\ rows' = [rows EXCEPT ![f] = [task |-> states.task, revision |-> states.revision, state |-> "open",
                                  version |-> 0, proof |-> None, opening |-> 1]]
  /\ reports' = [reports EXCEPT ![f] = "present"]
  /\ UNCHANGED <<log, watched, contexts, calls>>

(* The report's file expires, or can not be read.                          *)
LoseReport(f, how) ==
  /\ reports[f] = "present" /\ Spend("faults")
  /\ reports' = [reports EXCEPT ![f] = how]
  /\ UNCHANGED <<log, watched, contexts, rows, calls>>

----------------------------------------------------------------------------
(* The tool.                                                               *)

Goes(c, pc) == calls' = [calls EXCEPT ![c].pc = IF watched THEN pc ELSE "unavailable"]

Versions == [f \in Finding |-> IF rows[f] = None THEN 0 ELSE rows[f].version]

(* The versions the agent uses are of its last inspection, maybe old.      *)
Execute(c, request, seen) ==
  /\ calls[c].pc = "unused"
  /\ watched /\ Spend("asks")
  /\ calls' = [calls EXCEPT ![c].pc = "reading", ![c].request = request, ![c].seen = seen,
                            ![c].asked = Now.revision]
  /\ UNCHANGED <<log, watched, contexts, findings>>

(* A fresh history comes back and its capture queues up.                   *)
HistoryRead(c) ==
  /\ calls[c].pc = "reading"
  /\ Goes(c, "capturing")
  /\ queue' = IF watched THEN Append(queue, Capture(c)) ELSE queue
  /\ UNCHANGED <<session, states, users, saved, running, orphan, disk, unsure, findings>>

Captured(c) ==
  /\ calls[c].pc = "captured"
  /\ Goes(c, "checkpointing")
  /\ queue' = IF ~watched THEN queue
              ELSE Append(queue, [Capture(c) EXCEPT !.kind = "checkpoint",
                                  !.task = calls[c].request.task, !.action = calls[c].request.action])
  /\ UNCHANGED <<session, states, users, saved, running, orphan, disk, unsure, findings>>

(* onTask has run (module Runtime); the batch is recorded.                 *)
RecordUpdates(c) ==
  /\ calls[c].pc = "recording"
  /\ LET table == Disposed(calls[c].request.updates, calls[c].seen, calls[c].context.revision)
     IN \/ ~watched /\ Goes(c, "unavailable") /\ UNCHANGED <<bound, rows>>
        \/ watched /\ table = None /\ Goes(c, "failed") /\ UNCHANGED <<bound, rows>>
        \/ watched /\ table # None /\ Goes(c, "listing") /\ rows' = table /\ UNCHANGED bound
        \/ watched /\ Spend("faults") /\ Goes(c, "failed")
           /\ rows' \in {rows} \cup (IF table = None THEN {} ELSE {table})
  /\ UNCHANGED <<log, watched, contexts, reports>>

ListFindings(c) ==
  /\ calls[c].pc = "listing"
  /\ calls' = [calls EXCEPT ![c].pc = "notes", ![c].all = rows]
  /\ UNCHANGED <<session, contexts, findings>>

ReadNotes(c) ==
  /\ calls[c].pc = "notes"
  /\ calls' = [calls EXCEPT ![c].pc = IF watched THEN "returned" ELSE "unavailable",
                 ![c].report = Report(calls[c].all, calls[c].context, calls[c].request)]
  /\ UNCHANGED <<session, contexts, findings>>

ContextStep == Begin \/ Loaded \/ WriteReturns \/ OrphanReturns

CallStep(c) ==
  \/ HistoryRead(c) \/ Captured(c) \/ RecordUpdates(c) \/ ListFindings(c) \/ ReadNotes(c)
  \/ \E r \in bound.requests, seen \in {Versions, [f \in Finding |-> 0]} : Execute(c, r, seen)

WorldStep ==
  \/ Watch \/ UserMessage \/ Work \/ PassCaptures
  \/ \E u \in 1..Now.user : UserEvent(u)
  \/ \E f \in Finding : RecordFinding(f) \/ (\E how \in {"expired", "lost"} : LoseReport(f, how))

CheckpointNext == ContextStep \/ WorldStep \/ Forget \/ (\E c \in Call : CallStep(c))

CheckpointSpec == CheckpointInit /\ [][CheckpointNext]_checkpointVars

----------------------------------------------------------------------------
(* Properties.                                                             *)

(* Nothing of a session that is not watched stays in memory, whatever was  *)
(* loading, saving or queued when it was forgotten.                        *)
ForgottenLeavesNothing ==
  ~watched => states = None /\ saved = None /\ queue = <<>> /\ running = None

(* Captures and checkpoints overlap at their awaits and the session may be *)
(* forgotten in between, yet the stored context only goes forward: to a    *)
(* later revision, and out of "stopped" only by a resume or a replacement. *)
ContextGoesForward ==
  [][disk # None /\ disk' # disk =>
       /\ disk'.revision >= disk.revision
       /\ disk.stopped /\ ~disk'.stopped =>
            \E c \in Call : /\ calls[c].pc \notin {"unused", "reading", "capturing", "captured"}
                            /\ calls[c].request.task \in {"resume", "replace"}]_checkpointVars

(* At rest the row on disk is what memory has, so a restart goes on where  *)
(* the session was - unless a write failed without telling its outcome.    *)
RestartKeepsContext ==
  states # None /\ running = None /\ queue = <<>> /\ ~unsure =>
    /\ disk # None /\ disk.task = states.task /\ disk.revision = states.revision
    /\ disk.stopped = states.stopped
    /\ disk.user = states.user => states.action \in {disk.action, None}

(* A proof counts only for the opening of the finding it was checked in: a *)
(* finding that was closed and reopened starts without one.                *)
ProofIsOfThisOpening ==
  \A f \in Finding : rows[f] # None /\ rows[f].proof # None =>
    rows[f].state = "open" /\ rows[f].proof.opening = rows[f].opening

(* The gates of a report cover every finding that was open when the call   *)
(* listed them, on whatever page, with its report there or lost: no action *)
(* is allowed that a current proof puts at risk, and no completion while a *)
(* proven defect of the task is open, even one proven for older code.      *)
GatesAreCurrent ==
  \A c \in Call :
    calls[c].pc = "returned" =>
      LET ctx == calls[c].context
          report == calls[c].report
          open == {f \in Finding : LET row == calls[c].all[f]
                 IN row # None /\ row.state = "open" /\ row.task = ctx.task
                    /\ row.proof # None /\ row.proof.in_scope /\ SeverityOf[f] # "nit"}
          atRisk == {f \in open : LET proof == calls[c].all[f].proof
                     IN proof.revision = ctx.revision /\ proof.action = ctx.action /\ ctx.action # None
                        /\ SeverityOf[f] = "blocker" /\ reports[f] # "expired"}
      IN /\ report.action_allowed => ~ctx.stopped /\ atRisk = {}
         /\ report.completion_allowed => open = {} \/ ctx.stopped
         /\ ctx.revision >= calls[c].asked

(* What a checkpoint answers may be relied on.                             *)
GatesHold == ProofIsOfThisOpening /\ GatesAreCurrent
=============================================================================
