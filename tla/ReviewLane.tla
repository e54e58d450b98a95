----------------------------- MODULE ReviewLane -----------------------------
(***************************************************************************)
(* One reviewer of one watched session, over its whole life: the lane      *)
(* (advisor/lane.ts), the pass and its attempts (advisor/pass.ts,          *)
(* advisor/attempt.ts), saving the report (advisor/persistence.ts),        *)
(* committing a result (advisor/commit-result.ts), the pending review that *)
(* waits for evidence (advisor/recovery.ts) and the recovery of a pass     *)
(* another lane left behind (advisor/restart.ts).                          *)
(*                                                                         *)
(* A lane object lives in one process.  It is retired when its root is     *)
(* forgotten or its runtime disposed, and a new lane object may then be    *)
(* made, in the same process or after a crash in another one.  The old     *)
(* one's promises go on resolving.  The journal is the atomic register     *)
(* that ReviewJournal implements; provider and OpenCode are external.      *)
(***************************************************************************)
EXTENDS Naturals, Sequences, FiniteSets, JournalData

CONSTANTS
  Process, ProcessOf,
  MaxMessages,  \* bound: messages of the watched session
  MaxAttempts,  \* requests of one pass: fallbacks and refreshed sessions
  MaxFaults     \* bound: saves and report writes that fail, requests tried again

ASSUME LaneAssumption ==
  /\ ProcessOf \in [Lane -> Process]
  /\ None \notin Lane \cup PassID \cup Fingerprints
  /\ MaxMessages \in Nat
  /\ MaxAttempts \in Nat \ {0}
  /\ MaxFaults \in Nat

VARIABLES
  alive, owner, payload,  \* the journal row, as JournalRegister has it
  produced,    \* messages in the watched session
  requests,    \* [PassID \X attempt -> what the provider does with it]
  faults,
  life,        \* of a lane object
  compatible,  \* the row a lane loaded has its own configuration
  cursor,      \* #cursor, as the pass whose slice was reviewed last
  active,      \* #activePassID
  running,     \* the pass of #running, or None
  slot,        \* the pass of #pending, or None
  writes,      \* the journal saves queued by a lane
  stage,       \* how far run() is with a pass
  runner,      \* the lane whose run() made the pass
  next,        \* sliced.next: messages its slice reaches to
  attempt,     \* the pass's current attempt
  permit,      \* the pass holds a provider permit
  watching,    \* the prompt promise outlived the attempt and is watched
  report,      \* saving of the report
  commit,      \* a result in committedResults
  review,      \* #phase of a PendingReview
  probing,     \* a reconcile waits for the reply to its abort
  published    \* times the pass's report was given to the runtime

journal == <<alive, owner, payload>>
world == <<produced, requests, faults>>
memory == <<life, compatible, cursor, active, running, slot>>
pass == <<stage, runner, next, attempt, permit, watching>>
results == <<report, commit, review, probing, published>>
vars == <<journal, world, memory, writes, pass, results>>

(* The lanes work on the record ReviewJournal implements.                  *)
Journal == INSTANCE JournalRegister
  WITH alive <- alive, owner <- owner, payload <- payload,
       Process <- Process, ProcessOf <- ProcessOf, Lane <- Lane, PassID <- PassID

Attempt == 1..MaxAttempts

(* What one lane object does about one pass: its own or one it recovers. *)
Handler == Lane \X PassID

(* The two results a pass may commit: one that ends it without progress    *)
(* (timeout, cancellation, error, nothing sent), and its saved report.     *)
Outcome == {"end", "report"}

Write == [request : Request, outcome : Outcome \cup {None}]

(* "end" and "report" are run() waiting for that result's commit. *)
Stage == {"unused", "preparing", "beginning", "ready", "refused", "sent",
          "aborting", "saving", "end", "report", "returned"}

TypeOK ==
  /\ alive \in [Process -> BOOLEAN]
  /\ owner \in Lane \cup {None}
  /\ payload \in JournalRecord
  /\ produced \in 0..MaxMessages
  /\ requests \in [PassID \X Attempt -> {"none", "running", "answered", "failed", "aborted"}]
  /\ faults \in 0..MaxFaults
  /\ life \in [Lane -> {"unborn", "loaded", "retired"}]
  /\ compatible \in [Lane -> BOOLEAN]
  /\ \A memo \in {cursor, active, running, slot} : memo \in [Lane -> PassID \cup {None}]
  /\ writes \in [Lane -> Seq(Write)]
  /\ stage \in [PassID -> Stage]
  /\ runner \in [PassID -> Lane \cup {None}]
  /\ next \in [PassID -> 0..MaxMessages]
  /\ attempt \in [PassID -> Attempt]
  /\ \A flag \in {permit, watching} : flag \in [PassID -> BOOLEAN]
  /\ report \in [Handler -> {"none", "saving", "failed", "saved"}]
  /\ commit \in [Handler -> [Outcome -> {"none", "settling", "failed", "durable", "taken"}]]
  /\ review \in [Handler -> {"none", "blocked", "released", "settled"}]
  /\ probing \in [Handler -> BOOLEAN]
  /\ published \in [PassID -> Nat]

Init ==
  /\ Journal!Init
  /\ produced = 0
  /\ requests = [r \in PassID \X Attempt |-> "none"]
  /\ faults = 0
  /\ life = [l \in Lane |-> "unborn"]
  /\ compatible = [l \in Lane |-> FALSE]
  /\ cursor = [l \in Lane |-> None]
  /\ active = cursor /\ running = cursor /\ slot = cursor
  /\ writes = [l \in Lane |-> <<>>]
  /\ stage = [p \in PassID |-> "unused"]
  /\ runner = [p \in PassID |-> None]
  /\ next = [p \in PassID |-> 0]
  /\ attempt = [p \in PassID |-> 1]
  /\ permit = [p \in PassID |-> FALSE]
  /\ watching = permit
  /\ report = [h \in Handler |-> "none"]
  /\ commit = [h \in Handler |-> [k \in Outcome |-> "none"]]
  /\ review = [h \in Handler |-> "none"]
  /\ probing = [h \in Handler |-> FALSE]
  /\ published = [p \in PassID |-> 0]

----------------------------------------------------------------------------
(* Helpers.                                                                *)

Live(l) == alive[ProcessOf[l]]
Own(p) == <<runner[p], p>>
Foreground(p, where) == stage[p] = where /\ Live(runner[p])

(* The number of messages a cursor covers. *)
Reviewed(c) == IF c = None THEN 0 ELSE next[c]

Blocked(l) == slot[l] # None /\ review[<<l, slot[l]>>] = "blocked"

\* Mutant: only a running pass keeps a lane busy.
BusyOnlyRunning(l) == running[l] # None

(* #running or a blocked PendingReview.  The timeout backoff only delays   *)
(* a run, and a lane that could not load its journal is not "loaded".      *)
Busy(l) == running[l] # None \/ Blocked(l)

(* The request of a pass's current attempt. *)
Sent(p) == <<p, attempt[p]>>

(* Giving a permit back needs evidence that the request ended. *)
Released(p) == permit' = [permit EXCEPT ![p] = FALSE]

(* run() leaves: its finally block, and #pending if there is one to keep.  *)
Leave(p, phase) ==
  LET l == runner[p]
  IN /\ stage' = [stage EXCEPT ![p] = "returned"]
     /\ running' = [running EXCEPT ![l] = None]
     /\ slot' = [slot EXCEPT ![l] = IF phase = "none" THEN @ ELSE p]
     /\ review' = [review EXCEPT ![<<l, p>>] = IF phase = "none" THEN @ ELSE phase]

\* Mutant: a recovered pass advances whatever its configuration.
AdvancesAlways(h) == TRUE

(* A recovered pass advances only under the configuration that ran it. *)
Advances(h) == runner[h[2]] = h[1] \/ compatible[h[1]]

\* Mutant: a settled pass advances without a report.
SettleAdvancing(h, k) ==
  [request |-> [op |-> "settle", id |-> h[2], advance |-> Advances(h)], outcome |-> k]

(* The journal save that commits a result. *)
Settle(h, k) ==
  [request |-> [op |-> "settle", id |-> h[2], advance |-> k = "report" /\ Advances(h)],
   outcome |-> k]

\* Mutant: every pass may move the cursor.
CurrentAlways(h) == TRUE

(* The test of #activePassID at the head of both commit callbacks. *)
Current(h) == active[h[1]] = h[2]

(* committedResults: an old pass's result needs no journal save. *)
StartCommit(h, k) ==
  IF Current(h)
  THEN /\ commit' = [commit EXCEPT ![h][k] = "settling"]
       /\ writes' = [writes EXCEPT ![h[1]] = Append(@, Settle(h, k))]
  ELSE /\ commit' = [commit EXCEPT ![h][k] = "durable"]
       /\ UNCHANGED writes

\* Mutant: a retired lane publishes as well.
PublishRetired(h, k) ==
  published' = [published EXCEPT ![h[2]] = IF k = "report" THEN @ + 1 ELSE @]

(* Nothing reaches the runtime from a lane that was retired. *)
Publish(h, k) ==
  published' = [published EXCEPT ![h[2]] =
                  IF k = "report" /\ life[h[1]] # "retired" THEN @ + 1 ELSE @]

----------------------------------------------------------------------------
(* The lane object.                                                        *)

Produce ==
  /\ produced < MaxMessages
  /\ produced' = produced + 1
  /\ UNCHANGED <<journal, requests, faults, memory, writes, pass, results>>

(* #load: claim the row, restore its cursor, and block on a pending pass.  *)
(* The runtime makes a lane object for a root when it has none.            *)
Load(l) ==
  /\ life[l] = "unborn"
  /\ \A m \in Lane : ProcessOf[m] = ProcessOf[l] => life[m] # "loaded"
  /\ Journal!Acquire(l)
  /\ LET p == payload.pending
     IN /\ active' = [active EXCEPT ![l] = p]
        /\ slot' = [slot EXCEPT ![l] = p]
        /\ review' = [h \in Handler |-> IF h = <<l, p>> THEN "blocked" ELSE review[h]]
  /\ life' = [life EXCEPT ![l] = "loaded"]
  /\ compatible' = [compatible EXCEPT ![l] = Compatible(l, payload)]
  /\ cursor' = [cursor EXCEPT ![l] = Kept(l, payload)]
  /\ UNCHANGED <<world, running, writes, pass, report, commit, probing, published>>

(* run(): there is something new to review. *)
Start(l, p) ==
  /\ life[l] = "loaded" /\ Live(l)
  /\ ~Busy(l)
  /\ stage[p] = "unused"
  /\ produced > Reviewed(cursor[l])
  /\ running' = [running EXCEPT ![l] = p]
  /\ active' = [active EXCEPT ![l] = p]
  /\ stage' = [stage EXCEPT ![p] = "preparing"]
  /\ runner' = [runner EXCEPT ![p] = l]
  /\ next' = [next EXCEPT ![p] = produced]
  /\ UNCHANGED <<journal, world, life, compatible, cursor, slot, writes,
                 attempt, permit, watching, results>>

(* Unchanged content, no budget, no child session, or out of time, before  *)
(* the pass is executed.                                                   *)
Skip(p) ==
  /\ Foreground(p, "preparing") /\ attempt[p] = 1
  /\ Leave(p, "none")
  /\ UNCHANGED <<journal, world, life, compatible, cursor, active, writes,
                 runner, next, attempt, permit, watching, report, commit, probing, published>>

(* retire(), which also cancels the lifetimes of the root. *)
Retire(l) ==
  /\ life[l] = "loaded" /\ Live(l)
  /\ life' = [life EXCEPT ![l] = "retired"]
  /\ active' = [active EXCEPT ![l] = None]
  /\ UNCHANGED <<journal, world, compatible, cursor, running, slot, writes, pass, results>>

(* The journal lane closes once its queued saves are done. *)
Release(l) ==
  /\ life[l] = "retired"
  /\ writes[l] = <<>>
  /\ Journal!Release(l)
  /\ UNCHANGED <<world, memory, writes, pass, results>>

(* The process ends and its memory with it; a request at the provider may  *)
(* go on.                                                                  *)
Crash(q) ==
  LET Lost(l) == ProcessOf[l] = q
      Dropped(p) == stage[p] # "unused" /\ Lost(runner[p])
      Forget(memo) == [l \in Lane |-> IF Lost(l) THEN None ELSE memo[l]]
  IN /\ Journal!Crash(q)
     /\ life' = [l \in Lane |-> IF Lost(l) THEN "retired" ELSE life[l]]
     /\ cursor' = Forget(cursor) /\ active' = Forget(active)
     /\ running' = Forget(running) /\ slot' = Forget(slot)
     /\ writes' = [l \in Lane |-> IF Lost(l) THEN <<>> ELSE writes[l]]
     /\ stage' = [p \in PassID |-> IF Dropped(p) THEN "returned" ELSE stage[p]]
     /\ permit' = [p \in PassID |-> permit[p] /\ ~Dropped(p)]
     /\ watching' = [p \in PassID |-> watching[p] /\ ~Dropped(p)]
     /\ probing' = [h \in Handler |-> probing[h] /\ ~Lost(h[1])]
     /\ UNCHANGED <<world, compatible, runner, next, attempt, report, commit, review, published>>

----------------------------------------------------------------------------
(* The journal's saves, one after the other.                               *)

Pop(l) == writes' = [writes EXCEPT ![l] = Tail(@)]

SaveDone(l) ==
  /\ Live(l) /\ writes[l] # <<>> /\ life[l] = "loaded"
  /\ LET w == Head(writes[l])
         p == w.request.id
         h == <<l, p>>
     IN /\ Journal!Edit(l, w.request)
        /\ Pop(l)
        /\ IF w.request.op = "begin"
           THEN /\ stage' = [stage EXCEPT ![p] = IF @ = "beginning" THEN "ready" ELSE @]
                /\ UNCHANGED <<cursor, commit>>
           ELSE /\ commit' = [commit EXCEPT ![h][w.outcome] = "durable"]
                /\ cursor' = [cursor EXCEPT ![l] = IF w.request.advance THEN p ELSE @]
                /\ UNCHANGED stage
  /\ UNCHANGED <<world, life, compatible, active, running, slot,
                 runner, next, attempt, permit, watching,
                 report, review, probing, published>>

(* A save of a closed lane is refused.  Another one may fail, or succeed   *)
(* and lose its reply; the caller can not tell the difference.             *)
SaveFails(l) ==
  /\ Live(l) /\ writes[l] # <<>>
  /\ LET w == Head(writes[l])
         p == w.request.id
     IN /\ Pop(l)
        /\ IF life[l] = "retired"
           THEN UNCHANGED <<faults, journal>>
           ELSE /\ faults < MaxFaults
                /\ faults' = faults + 1
                /\ Journal!Edit(l, w.request) \/ UNCHANGED journal
        /\ IF w.request.op = "begin"
           THEN /\ stage' = [stage EXCEPT ![p] = IF @ = "beginning" THEN "refused" ELSE @]
                /\ UNCHANGED commit
           ELSE /\ commit' = [commit EXCEPT ![<<l, p>>][w.outcome] = "failed"]
                /\ UNCHANGED stage
  /\ UNCHANGED <<produced, requests, memory, runner, next, attempt, permit, watching,
                 report, review, probing, published>>
----------------------------------------------------------------------------
(* A pass in the foreground: run(), executeAdvisorPass(), attempt().       *)

(* A permit is granted and the pass recorded, before anything is sent.     *)
Begin(p) ==
  LET l == runner[p]
  IN /\ Foreground(p, "preparing")
     /\ permit' = [permit EXCEPT ![p] = TRUE]
     /\ stage' = [stage EXCEPT ![p] = "beginning"]
     /\ writes' = [writes EXCEPT ![l] =
          Append(@, [request |-> [op |-> "begin", id |-> p], outcome |-> None])]
     /\ UNCHANGED <<journal, world, memory, runner, next, attempt, watching, results>>

(* The pass ends with a result that commits no progress. *)
End(p) ==
  /\ stage' = [stage EXCEPT ![p] = "end"]
  /\ Released(p)
  /\ StartCommit(Own(p), "end")

(* Nothing was sent: out of time, cancelled, or not recorded.  A save that *)
(* is still queued comes before the one that settles the pass.             *)
GiveUp(p) ==
  /\ \/ \E where \in {"beginning", "ready", "refused"} : Foreground(p, where)
     \/ Foreground(p, "preparing") /\ attempt[p] > 1
  /\ End(p)
  /\ UNCHANGED <<journal, world, memory, runner, next, attempt, watching,
                 report, review, probing, published>>

\* Mutant: the prompt is sent before its pass is on record.
DispatchUnrecorded(p) ==
  /\ \E where \in {"beginning", "ready"} : Foreground(p, where)
  /\ life[runner[p]] = "loaded"
  /\ requests' = [requests EXCEPT ![Sent(p)] = "running"]
  /\ stage' = [stage EXCEPT ![p] = "sent"]
  /\ UNCHANGED <<journal, produced, faults, memory, writes, runner, next, attempt,
                 permit, watching, results>>

(* client.prompt, under a lifetime that is not cancelled. *)
Dispatch(p) ==
  /\ Foreground(p, "ready")
  /\ life[runner[p]] = "loaded"
  /\ requests' = [requests EXCEPT ![Sent(p)] = "running"]
  /\ stage' = [stage EXCEPT ![p] = "sent"]
  /\ UNCHANGED <<journal, produced, faults, memory, writes, runner, next, attempt,
                 permit, watching, results>>

(* The provider ends a request.  "failed" includes an abort that OpenCode  *)
(* makes for its own reasons.                                              *)
ProviderEnds(r) ==
  /\ requests[r] = "running"
  /\ \E how \in {"answered", "failed"} : requests' = [requests EXCEPT ![r] = how]
  /\ UNCHANGED <<journal, produced, faults, memory, writes, pass, results>>

(* Another attempt of the pass: a fallback model or a fresh session. *)
Retry(p) ==
  /\ attempt[p] < MaxAttempts
  /\ faults < MaxFaults /\ faults' = faults + 1
  /\ attempt' = [attempt EXCEPT ![p] = @ + 1]
  /\ stage' = [stage EXCEPT ![p] = "preparing"]
  /\ Released(p)
  /\ UNCHANGED <<writes, commit>>

(* The prompt answered: its permit is given back, its report is saved.     *)
Answered(p) ==
  /\ requests[Sent(p)] = "answered"
  /\ Released(p)
  /\ stage' = [stage EXCEPT ![p] = "saving"]
  /\ report' = [report EXCEPT ![Own(p)] = "saving"]
  /\ UNCHANGED <<faults, attempt, commit, writes>>

(* The prompt settles in time. *)
Reply(p) ==
  /\ Foreground(p, "sent")
  /\ \/ Answered(p)
     \/ /\ requests[Sent(p)] = "failed"
        /\ Retry(p)
        /\ UNCHANGED report
     \/ /\ requests[Sent(p)] \in {"failed", "aborted"}
        /\ End(p)
        /\ UNCHANGED <<faults, attempt, report>>
  /\ UNCHANGED <<journal, produced, requests, memory, runner, next, watching, review,
                 probing, published>>

(* The deadline, a cancellation, an upstream failure seen in the event     *)
(* stream, or a rejected prompt call: abort it and wait a bounded time.    *)
Expire(p) ==
  /\ Foreground(p, "sent")
  /\ stage' = [stage EXCEPT ![p] = "aborting"]
  /\ UNCHANGED <<journal, world, memory, writes, runner, next, attempt, permit, watching, results>>

(* Evidence that a request ended: it is not running from here on. *)
Aborted(r) ==
  requests' = [requests EXCEPT ![r] = IF @ = "running" THEN "aborted" ELSE @]

(* The abort is confirmed.  After a failure the pass may try another model *)
(* at once; after a timeout it ends and goes on watching the prompt.       *)
AbortConfirmed(p) ==
  /\ Foreground(p, "aborting")
  /\ Aborted(Sent(p))
  /\ \/ Retry(p) /\ UNCHANGED watching
     \/ /\ End(p)
        /\ \E watch \in BOOLEAN : watching' = [watching EXCEPT ![p] = watch]
        /\ UNCHANGED <<faults, attempt>>
  /\ UNCHANGED <<journal, produced, memory, runner, next,
                 report, review, probing, published>>

\* Mutant: an unconfirmed abort gives the permit back.
UncertainReleases(p) == Released(p)

(* The permit of a request that may still run is kept. *)
Uncertain(p) == UNCHANGED permit

(* No confirmation in time; the abort may still take effect.  The lane is  *)
(* blocked.                                                                *)
AbortUnconfirmed(p) ==
  /\ Foreground(p, "aborting")
  /\ Leave(p, "blocked")
  /\ watching' = [watching EXCEPT ![p] = TRUE]
  /\ Uncertain(p)
  /\ UNCHANGED <<journal, world, life, compatible, cursor, active, writes,
                 runner, next, attempt, report, commit, probing, published>>

(* saveResponse takes longer than the time left. *)
LeaveSaving(p) ==
  /\ Foreground(p, "saving")
  /\ Leave(p, "blocked")
  /\ UNCHANGED <<journal, world, life, compatible, cursor, active, writes,
                 runner, next, attempt, permit, watching, report, commit, probing, published>>

(* The commit takes longer than its grace period, or failed. *)
LeaveCommitting(p) ==
  /\ \E k \in Outcome :
       /\ Foreground(p, k)
       /\ commit[Own(p)][k] \in {"settling", "failed"}
  /\ Leave(p, "blocked")
  /\ UNCHANGED <<journal, world, life, compatible, cursor, active, writes,
                 runner, next, attempt, permit, watching, report, commit, probing, published>>

(* The committed result is returned, and the runtime emits it. *)
Return(p) ==
  \E k \in Outcome :
    /\ Foreground(p, k)
    /\ commit[Own(p)][k] = "durable"
    /\ Leave(p, IF watching[p] THEN "released" ELSE "none")
    /\ commit' = [commit EXCEPT ![Own(p)][k] = "taken"]
    /\ Publish(Own(p), k)
    /\ UNCHANGED <<journal, world, life, compatible, cursor, active, writes,
                   runner, next, attempt, permit, watching, report, probing>>

----------------------------------------------------------------------------
(* Saving the report, in the foreground or in the background.              *)

ReportSaved(h) ==
  LET p == h[2]
  IN /\ Live(h[1])
     /\ report[h] = "saving"
     /\ report' = [report EXCEPT ![h] = "saved"]
     /\ stage' = [stage EXCEPT ![p] = IF h = Own(p) /\ @ = "saving" THEN "report" ELSE @]
     /\ StartCommit(h, "report")
     /\ UNCHANGED <<journal, world, memory, runner, next, attempt, permit, watching,
                    review, probing, published>>

ReportFails(h) ==
  LET p == h[2]
  IN /\ Live(h[1])
     /\ report[h] = "saving"
     /\ faults < MaxFaults
     /\ faults' = faults + 1
     /\ report' = [report EXCEPT ![h] = "failed"]
     /\ IF h = Own(p) /\ stage[p] = "saving"
        THEN Leave(p, "blocked")
        ELSE UNCHANGED <<stage, running, slot, review>>
     /\ UNCHANGED <<journal, produced, requests, life, compatible, cursor, active, writes,
                    runner, next, attempt, permit, watching, commit, probing, published>>

----------------------------------------------------------------------------
(* PendingReview.                                                          *)

(* The watched prompt settles after run() left.  A retired lane drops the  *)
(* answer; a failed one ends the pass; an error without data says nothing. *)
LateReply(p) ==
  LET h == Own(p)
  IN /\ Foreground(p, "returned") /\ watching[p]
     /\ watching' = [watching EXCEPT ![p] = FALSE]
     /\ \/ /\ requests[Sent(p)] = "answered"
           /\ Released(p)
           /\ report' = [report EXCEPT ![h] =
                IF @ = "none" /\ life[h[1]] # "retired" THEN "saving" ELSE @]
           /\ UNCHANGED <<commit, writes>>
        \/ /\ requests[Sent(p)] \in {"failed", "aborted"}
           /\ Released(p)
           /\ IF commit[h]["end"] = "none" /\ life[h[1]] # "retired"
              THEN StartCommit(h, "end")
              ELSE UNCHANGED <<commit, writes>>
           /\ UNCHANGED report
        \/ /\ requests[Sent(p)] \in {"failed", "aborted"}
           /\ UNCHANGED <<permit, report, commit, writes>>
     /\ UNCHANGED <<journal, world, memory, stage, runner, next, attempt,
                    review, probing, published>>

(* The abort is confirmed after its bounded wait ended. *)
LateAbort(p) ==
  /\ Foreground(p, "returned") /\ permit[p]
  /\ Aborted(Sent(p))
  /\ Released(p)
  /\ UNCHANGED <<journal, produced, faults, memory, writes,
                 stage, runner, next, attempt, watching, results>>

(* A late result that can not be confirmed yet blocks the lane again. *)
Block(h) ==
  /\ Live(h[1])
  /\ review[h] = "released"
  /\ \/ report[h] \in {"saving", "failed"}
     \/ \E k \in Outcome : commit[h][k] \in {"settling", "failed"}
  /\ review' = [review EXCEPT ![h] = "blocked"]
  /\ UNCHANGED <<journal, world, memory, writes, pass, report, commit, probing, published>>

\* Mutant: only released reviews are tried again.
OnlyReleased(h) == review[h] = "released"

(* #accept ignores every result after the first confirmed one. *)
Unsettled(h) == review[h] \in {"blocked", "released"}

Accept(h, k) ==
  /\ Live(h[1])
  /\ stage[h[2]] = "returned" \/ h # Own(h[2])
  /\ commit[h][k] = "durable"
  /\ commit' = [commit EXCEPT ![h][k] = "taken"]
  /\ IF Unsettled(h)
     THEN review' = [review EXCEPT ![h] = "settled"] /\ Publish(h, k)
     ELSE UNCHANGED <<review, published>>
  /\ UNCHANGED <<journal, world, memory, writes, pass, report, probing>>

(* recover() reconciles the lane's pending review. *)
Reconciles(h) ==
  /\ Live(h[1]) /\ life[h[1]] = "loaded"
  /\ slot[h[1]] = h[2]
  /\ review[h] = "blocked"

(* The terminal message that was found is an answer, or says how the       *)
(* request failed.                                                         *)
AnswerFound(h) ==
  /\ requests[Sent(h[2])] = "answered"
  /\ report' = [report EXCEPT ![h] = "saving"]
  /\ UNCHANGED <<commit, writes>>

FailureFound(h) ==
  /\ requests[Sent(h[2])] \in {"failed", "aborted"}
  /\ commit[h]["end"] = "none"
  /\ StartCommit(h, "end")
  /\ UNCHANGED report

(* The session holds a terminal message of the request. *)
FindTerminal(h) ==
  /\ Reconciles(h)
  /\ report[h] = "none"
  /\ Released(h[2])
  /\ AnswerFound(h) \/ FailureFound(h)
  /\ UNCHANGED <<journal, world, memory, stage, runner, next, attempt, watching,
                 review, probing, published>>

(* No terminal message yet: abort again, and wait for its reply. *)
AbortAgain(h) ==
  /\ Reconciles(h)
  /\ report[h] = "none" /\ commit[h]["end"] = "none"
  /\ ~probing[h]
  /\ probing' = [probing EXCEPT ![h] = TRUE]
  /\ UNCHANGED <<journal, world, memory, writes, pass, report, commit, review, published>>

(* The reply confirms it, or does not come in time. *)
AbortAnswered(h) ==
  LET p == h[2]
  IN /\ Live(h[1]) /\ probing[h]
     /\ probing' = [probing EXCEPT ![h] = FALSE]
     /\ \/ /\ Aborted(Sent(p))
           /\ Released(p)
           /\ IF commit[h]["end"] = "none" THEN StartCommit(h, "end") ELSE UNCHANGED <<commit, writes>>
        \/ UNCHANGED <<requests, permit, commit, writes>>
     /\ UNCHANGED <<journal, produced, faults, memory, stage, runner, next, attempt, watching,
                    report, review, published>>

(* The report is verified and repaired, or a failed commit done again. *)
Repair(h) ==
  /\ Reconciles(h)
  /\ \/ /\ report[h] = "failed"
        /\ report' = [report EXCEPT ![h] = "saving"]
        /\ UNCHANGED <<commit, writes>>
     \/ /\ UNCHANGED report
        /\ \E k \in Outcome : commit[h][k] = "failed" /\ StartCommit(h, k)
  /\ UNCHANGED <<journal, world, memory, pass, review, probing, published>>

(* A probe: by itself up to three times, and whenever somebody asks.       *)
Reconcile(h) == FindTerminal(h) \/ AbortAgain(h) \/ AbortAnswered(h) \/ Repair(h)

(* What run() does with a pass until it returns. *)
ForegroundStep(p) ==
  \/ Skip(p) \/ Begin(p) \/ GiveUp(p) \/ Dispatch(p) \/ Reply(p) \/ Expire(p)
  \/ AbortConfirmed(p) \/ AbortUnconfirmed(p) \/ LeaveSaving(p) \/ LeaveCommitting(p)
  \/ Return(p)

Next ==
  \/ Produce
  \/ \E l \in Lane : Load(l) \/ Retire(l) \/ Release(l) \/ SaveDone(l) \/ SaveFails(l)
  \/ \E l \in Lane, p \in PassID : Start(l, p)
  \/ \E q \in Process : Crash(q)
  \/ \E r \in PassID \X Attempt : ProviderEnds(r)
  \/ \E p \in PassID : ForegroundStep(p) \/ LateReply(p) \/ LateAbort(p)
  \/ \E h \in Handler :
       \/ ReportSaved(h) \/ ReportFails(h) \/ Block(h) \/ Reconcile(h)
       \/ \E k \in Outcome : Accept(h, k)

Spec == Init /\ [][Next]_vars

(* Database replies, timers and settled promises always get their turn.    *)
(* Two things are not the code's to promise: that the provider ends every  *)
(* request, and that somebody calls recover() while the lane is blocked    *)
(* (three probes are automatic, more are asked for with recover=true).     *)
FairSpec ==
  /\ Spec
  /\ \A l \in Lane : WF_vars(SaveDone(l) \/ SaveFails(l))
  /\ \A r \in PassID \X Attempt : WF_vars(ProviderEnds(r))
  /\ \A p \in PassID : WF_vars(ForegroundStep(p))
  /\ \A h \in Handler :
       /\ WF_vars(ReportSaved(h) \/ ReportFails(h) \/ FindTerminal(h) \/ Repair(h))
       /\ WF_vars(\E k \in Outcome : Accept(h, k))

----------------------------------------------------------------------------
(* Properties.                                                             *)

(* No pass ever sends a request while another request of this reviewer may *)
(* still run: not after an uncertain cancellation, a crash or a restart    *)
(* (lane.ts:128, recovery.ts:16, restart.ts:9).                            *)
NoOverlappingRequests ==
  \A r, s \in PassID \X Attempt :
    requests[r] = "running" /\ requests[s] = "running" => r = s

(* A request that may still run is on record, so whoever owns the lane     *)
(* next knows it (lane.ts:201-206).                                        *)
RunningIsRecorded ==
  \A r \in PassID \X Attempt : requests[r] = "running" => payload.pending = r[1]

(* A running request of a living process holds its permit (attempt.ts:149).*)
PermitCoversRequest ==
  \A r \in PassID \X Attempt :
    requests[r] = "running" /\ Live(runner[r[1]]) => permit[r[1]]

(* Progress is recorded only past a slice whose report was saved.          *)
ProgressIsReported ==
  payload.progress # None => \E l \in Lane : report[<<l, payload.progress>>] = "saved"

(* One request at a time, on record and with its permit, whichever of the  *)
(* lanes, the crashes and the restarts come in between.                    *)
RequestsAreAccountedFor ==
  TypeOK /\ NoOverlappingRequests /\ RunningIsRecorded /\ PermitCoversRequest

(* A late result of an old pass never moves the cursor of a lane back      *)
(* (README.md: a stable pass ID prevents old completions from advancing    *)
(* newer progress).                                                        *)
CursorNeverMovesBack ==
  [][\A l \in Lane :
       life[l] = "loaded" /\ Live(l)' => Reviewed(cursor'[l]) >= Reviewed(cursor[l])]_vars

(* A report is given to the runtime at most once, whichever of the prompt, *)
(* the probes and the recovery after a restart come first, and only when   *)
(* the journal can no longer hand the pass to another lane.                *)
PublishedOnce ==
  \A p \in PassID : published[p] > 0 => published[p] = 1 /\ payload.pending # p

(* The cursor an owner finds belongs to the configuration it is recorded   *)
(* with: a pass recovered under another one does not advance it            *)
(* (lane.ts:99-108).                                                       *)
ProgressHasItsConfiguration ==
  payload.progress # None => FingerprintOf[runner[payload.progress]] = payload.fingerprint

(* Reports, progress and what the runtime hears of them agree.             *)
ProgressAndReportsAgree ==
  ProgressIsReported /\ PublishedOnce /\ ProgressHasItsConfiguration

(* A lane does not stay busy for ever: whatever was lost on the way, its   *)
(* run or its pending review comes to an end.                              *)
LaneFrees ==
  \A l \in Lane : Busy(l) ~> (~Busy(l) \/ life[l] = "retired")

(* commit-result.ts:5 "Persist progress before advancing a cursor": the    *)
(* cursor an owner works with is never ahead of the one in its journal.    *)
CursorIsPersisted ==
  \A l \in Lane :
    owner = l /\ life[l] = "loaded" => Reviewed(cursor[l]) <= Reviewed(payload.progress)
=============================================================================
