---------------------------- MODULE UsageLedger -----------------------------
(***************************************************************************)
(* What a reviewer's requests cost (usage/ledger.ts, usage/database.ts),   *)
(* as far as one child session goes: the attempts that run in it one after *)
(* the other, the messages they produce, and the rows that are kept.       *)
(*                                                                         *)
(* The rows come from two sources that know nothing of each other: message *)
(* events, each observed by a run of its own, late, repeated or never, and *)
(* finish(), which reads the session's history once the attempt is over    *)
(* and again if its end was uncertain.  A call to the database worker is   *)
(* one step; so is a read of the session.  Costs are message versions:     *)
(* 1 is incomplete, 2 completed, 3 completed and corrected afterwards.     *)
(***************************************************************************)
EXTENDS Naturals, FiniteSets, FiniteSetsExt

CONSTANTS
  Observer,       \* events that are being observed at a time
  MaxUsage,       \* bound: attempts in the session
  MaxTranscript,  \* bound: messages in the session
  MaxLimit,       \* reconcileMaxMessages: the longest history that is read
  MaxIncidents    \* bound: events observed, uncertain ends and crashes

ASSUME UsageAssumption ==
  /\ \A bound \in {MaxUsage, MaxTranscript, MaxIncidents} : bound \in Nat
  /\ MaxLimit \in Nat \ {0}

VARIABLES
  now,         \* the clock: it moves with every attempt and message
  request,     \* [attempt -> what became of its request]
  transcript,  \* [message -> the attempt and kind it is of, its version]
  usage,       \* [attempt -> row of usage_attempts]
  rows,        \* [message -> row of usage_messages]
  job,         \* [thread -> the observation it makes]
  finisher,    \* [attempt \X reason -> how far finish() is]
  incidents    \* see MaxIncidents; an event that is not observed is lost

session == <<now, request, transcript>>
usageVars == <<session, usage, rows, job, finisher, incidents>>

Billed == 1..MaxUsage
Entry == 1..MaxTranscript

(* finish() is called for an attempt whose abort was not confirmed, and    *)
(* once its end is certain.                                                *)
Finisher == Billed \X {"uncertain", "settled"}
Observing == Observer \cup Finisher

ASSUME ObserverAssumption == Observer \cap Finisher = {}

UsageState == {"none", "running", "completed", "not_sent", "cancelled_confirmed", "cancellation_uncertain"}

NoAttempt == [started |-> 0, settled |-> 0, prompt |-> 0, state |-> "none", coverage |-> "unknown"]
NoEntry == [role |-> "none", of |-> 0, parent |-> 0, created |-> 0, version |-> 0]
NoRow == [attempt |-> 0, version |-> 0]
NoJob == [at |-> "idle", message |-> 0, version |-> 0, authoritative |-> FALSE, attempt |-> 0, attributed |-> FALSE]
NotFinishing == [at |-> "none", state |-> "none", final |-> 0, limit |-> 0, todo |-> {}, coverage |-> "partial"]

UsageTypeOK ==
  /\ now \in Nat
  /\ request \in [Billed -> {"none", "prepared", "running", "ended", "orphaned"}]
  /\ transcript \in [Entry -> [role : {"none", "user", "assistant"}, of : Nat, parent : Nat,
                               created : Nat, version : 0..3]]
  /\ usage \in [Billed -> [started : Nat, settled : Nat, prompt : Nat, state : UsageState,
                           coverage : {"unknown", "partial", "complete"}]]
  /\ rows \in [Entry -> [attempt : 0..MaxUsage, version : 0..3]]
  /\ job \in [Observing -> [at : {"idle", "find", "prompt", "record", "reread"}, message : Nat,
                            version : 0..3, authoritative : BOOLEAN, attempt : 0..MaxUsage,
                            attributed : BOOLEAN]]
  /\ finisher \in [Finisher -> [at : {"none", "read", "apply", "write", "done"},
                                state : UsageState, final : 0..MaxTranscript, limit : Nat,
                                todo : SUBSET (Entry \X (1..3)), coverage : {"partial", "complete"}]]
  /\ incidents \in 0..MaxIncidents

UsageInit ==
  /\ now = 0
  /\ request = [a \in Billed |-> "none"]
  /\ transcript = [m \in Entry |-> NoEntry]
  /\ usage = [a \in Billed |-> NoAttempt]
  /\ rows = [m \in Entry |-> NoRow]
  /\ job = [t \in Observing |-> NoJob]
  /\ finisher = [f \in Finisher |-> NotFinishing]
  /\ incidents = 0

----------------------------------------------------------------------------
(* The attempt (advisor/attempt.ts) and the session it runs in.            *)

Incident == incidents < MaxIncidents /\ incidents' = incidents + 1

Written == {m \in Entry : transcript[m].role # "none"}
Of(a) == {m \in Written : transcript[m].of = a}

(* begin().  A lane never has two requests at a time (ReviewLane), but the *)
(* accounting of the last one may still be under way.                      *)
BeginUsage(a) ==
  /\ request[a] = "none"
  /\ \A b \in Billed : IF b < a THEN request[b] \in {"ended", "orphaned"} ELSE request[b] = "none"
  /\ now' = now + 1
  /\ request' = [request EXCEPT ![a] = "prepared"]
  /\ usage' = [usage EXCEPT ![a] = [NoAttempt EXCEPT !.started = now + 1, !.state = "running"]]
  /\ UNCHANGED <<transcript, rows, job, finisher, incidents>>

(* The next message of the session.  An assistant message answers the last *)
(* user message: the prompt, or one that a compaction wrote.               *)
Says(a, role) ==
  LET m == Cardinality(Written) + 1
      parent == IF role = "user" THEN 0 ELSE Max({n \in Of(a) : transcript[n].role = "user"})
  IN /\ m \in Entry
     /\ now' = now + 1
     /\ transcript' = [transcript EXCEPT ![m] =
          [role |-> role, of |-> a, parent |-> parent, created |-> now + 1, version |-> 1]]

Prompted(a) ==
  /\ request[a] = "prepared"
  /\ finisher[<<a, "settled">>].at = "none"
  /\ Says(a, "user")
  /\ request' = [request EXCEPT ![a] = "running"]
  /\ UNCHANGED <<usage, rows, job, finisher, incidents>>

Continues(a) ==
  /\ request[a] = "running"
  /\ \E role \in {"user", "assistant"} : Says(a, role)
  /\ UNCHANGED <<request, usage, rows, job, finisher, incidents>>

(* A message is completed, or its usage corrected after that: by the       *)
(* request it belongs to, so before that is over.                          *)
Revises(m, from) ==
  /\ m \in Written /\ request[transcript[m].of] = "running"
  /\ transcript[m].role = "assistant" /\ transcript[m].version = from
  /\ transcript' = [transcript EXCEPT ![m].version = @ + 1]
  /\ UNCHANGED <<now, request, usage, rows, job, finisher, incidents>>

RequestEnds(a) ==
  /\ request[a] = "running"
  /\ \A m \in Of(a) : transcript[m].role = "assistant" => transcript[m].version > 1
  /\ request' = [request EXCEPT ![a] = "ended"]
  /\ UNCHANGED <<now, transcript, usage, rows, job, finisher, incidents>>

----------------------------------------------------------------------------
(* The database.                                                           *)

InWindow(a, m) ==
  /\ transcript[m].created >= usage[a].started
  /\ usage[a].settled = 0 \/ transcript[m].created <= usage[a].settled

Answers(a, m) == transcript[m].parent # 0 /\ usage[a].prompt = transcript[m].parent

Rank(a, m) == IF Answers(a, m) THEN 0 ELSE IF InWindow(a, m) THEN 1 ELSE 2

\* Mutant: the oldest attempt whose window fits is charged.
FindOldest(m) ==
  LET best == {a \in Billed : usage[a].state # "none" /\ \A b \in Billed : usage[b].state # "none" => Rank(a, m) <= Rank(b, m)}
  IN IF best = {} THEN 0 ELSE Min(best)

(* find: the attempt that asked for the message, or else the latest one    *)
(* whose window it is in, or else the latest one.                          *)
FindUsage(m) ==
  LET begun == {a \in Billed : usage[a].state # "none"}
      best == {a \in begun : \A b \in begun : Rank(a, m) <= Rank(b, m)}
  IN IF best = {} THEN 0 ELSE Max(best)

(* A completed row is not changed by an event with another completed usage.*)
Conflicts(m, version) == rows[m].version > 1 /\ version > 1 /\ rows[m].version # version

(* The upsert: an attribution stays, and incomplete usage never replaces   *)
(* completed usage.                                                        *)
Upserted(m, a, version) ==
  IF rows[m].version > 1 /\ version = 1 THEN rows[m]
  ELSE [attempt |-> IF rows[m].attempt # 0 THEN rows[m].attempt ELSE a, version |-> version]

----------------------------------------------------------------------------
(* #observe: find the attempt, then write the row.                         *)

Job(m, version, authoritative) ==
  [NoJob EXCEPT !.at = "find", !.message = m, !.version = version, !.authoritative = authoritative]

(* A message event reaches the ledger.  However late that is, its version  *)
(* is that of the time it was sent: the thread may rest before it goes on. *)
EventArrives(o, m) ==
  /\ job[o].at = "idle"
  /\ Incident
  /\ m \in Written
  /\ job' = [job EXCEPT ![o] = Job(m, transcript[m].version, FALSE)]
  /\ UNCHANGED <<session, usage, rows, finisher>>

FindAttempt(t) ==
  LET m == job[t].message
      a == FindUsage(m)
      user == transcript[m].role = "user"
  IN /\ job[t].at = "find"
     /\ job' = [job EXCEPT ![t] =
          IF a = 0 \/ (user /\ ~(InWindow(a, m) /\ usage[a].prompt = 0)) THEN NoJob
          ELSE [@ EXCEPT !.at = IF user THEN "prompt" ELSE "record", !.attempt = a,
                         !.attributed = InWindow(a, m) \/ Answers(a, m)]]
     /\ UNCHANGED <<session, usage, rows, finisher, incidents>>

RecordPrompt(t) ==
  /\ job[t].at = "prompt"
  /\ usage' = [usage EXCEPT ![job[t].attempt].prompt = IF @ = 0 THEN job[t].message ELSE @]
  /\ job' = [job EXCEPT ![t] = NoJob]
  /\ UNCHANGED <<session, rows, finisher, incidents>>

(* recordUsage: a conflict marks the attempt, and the message is read.     *)
RecordUsage(t) ==
  LET m == job[t].message
      a == IF job[t].attributed THEN job[t].attempt ELSE 0
      owner == IF rows[m].attempt # 0 THEN rows[m].attempt ELSE a
  IN /\ job[t].at = "record"
     /\ IF ~job[t].authoritative /\ Conflicts(m, job[t].version)
        THEN /\ usage' = [b \in Billed |-> IF b = owner THEN [usage[b] EXCEPT !.coverage = "partial"] ELSE usage[b]]
             /\ job' = [job EXCEPT ![t].at = "reread"]
             /\ UNCHANGED rows
        ELSE /\ rows' = [rows EXCEPT ![m] = Upserted(m, a, job[t].version)]
             /\ job' = [job EXCEPT ![t] = NoJob]
             /\ UNCHANGED usage
     /\ UNCHANGED <<session, finisher, incidents>>

(* readMessage answers, or not in time. *)
Reread(t) ==
  /\ job[t].at = "reread"
  /\ \/ job' = [job EXCEPT ![t] = Job(job[t].message, transcript[job[t].message].version, TRUE)]
     \/ job' = [job EXCEPT ![t] = NoJob]
  /\ UNCHANGED <<session, usage, rows, finisher, incidents>>

----------------------------------------------------------------------------
(* finish(): account() of the attempt, or recoverPass() after a restart.   *)

Finishing(f, state, final) ==
  /\ finisher[f].at = "none"
  /\ finisher' = [finisher EXCEPT ![f] =
       [NotFinishing EXCEPT !.at = IF state = "not_sent" THEN "write" ELSE "read",
                            !.state = state, !.final = final, !.limit = Min({2, MaxLimit}),
                            !.coverage = IF state = "not_sent" THEN "complete" ELSE "partial"]]
  /\ job' = [job EXCEPT ![f] = IF final = 0 THEN NoJob ELSE Job(final, transcript[final].version, FALSE)]

(* attempt.ts:109: a timeout whose abort is not confirmed. *)
Uncertainly(a) ==
  /\ request[a] \in {"running", "ended"}
  /\ finisher[<<a, "settled">>].at = "none"
  /\ Incident
  /\ Finishing(<<a, "uncertain">>, "cancellation_uncertain", 0)
  /\ UNCHANGED <<session, usage, rows>>

(* The reply, an abort that is confirmed, or a terminal message of it.     *)
Certainly(a) ==
  /\ request[a] = "ended"
  /\ \/ \E final \in {0} \cup {m \in Of(a) : transcript[m].role = "assistant"} :
          /\ \A m \in Of(a) : m > final => final = 0 \/ transcript[m].role = "user"
          /\ Finishing(<<a, "settled">>, "completed", final)
     \/ Finishing(<<a, "settled">>, "cancelled_confirmed", 0)
  /\ UNCHANGED <<session, usage, rows, incidents>>

(* The attempt ended before its prompt was sent. *)
NeverSent(a) ==
  /\ request[a] = "prepared"
  /\ request' = [request EXCEPT ![a] = "ended"]
  /\ Finishing(<<a, "settled">>, "not_sent", 0)
  /\ UNCHANGED <<now, transcript, usage, rows, incidents>>

(* The attempt's part of the session is in the history that was read.      *)
Covered(f, history) ==
  /\ \/ Cardinality(history) < finisher[f].limit
     \/ \E m \in history : transcript[m].created < usage[f[1]].started
  /\ finisher[f].final # 0 => finisher[f].final \in history

(* #reconcile, once the final message is observed: the last messages of    *)
(* the session, twice as many if they do not reach back far enough.        *)
ReadHistory(f) ==
  LET asked == finisher[f].limit
      history == {m \in Written : m + asked > Cardinality(Written)}
      covered == Covered(f, history)
      ours == {m \in history : /\ transcript[m].created >= usage[f[1]].started
                               /\ transcript[m].role = "assistant" \/ covered}
  IN /\ finisher[f].at = "read" /\ job[f].at = "idle"
     /\ finisher' = [finisher EXCEPT ![f] =
          IF covered \/ asked = MaxLimit
          THEN [@ EXCEPT !.at = "apply", !.todo = {<<m, transcript[m].version>> : m \in ours},
                         !.coverage = IF covered THEN "complete" ELSE "partial"]
          ELSE [@ EXCEPT !.limit = Min({MaxLimit, 2 * asked})]]
     /\ UNCHANGED <<session, usage, rows, job, incidents>>

(* What was read is observed message by message, oldest first. *)
ApplyNext(f) ==
  /\ finisher[f].at = "apply" /\ job[f].at = "idle"
  /\ IF finisher[f].todo = {}
     THEN /\ finisher' = [finisher EXCEPT ![f].at = "write"]
          /\ UNCHANGED job
     ELSE LET next == CHOOSE e \in finisher[f].todo : \A d \in finisher[f].todo : e[1] <= d[1]
          IN /\ finisher' = [finisher EXCEPT ![f].todo = @ \ {next}]
             /\ job' = [job EXCEPT ![f] = Job(next[1], next[2], TRUE)]
  /\ UNCHANGED <<session, usage, rows, incidents>>

\* Mutant: the wait for the history is unbounded.
TimedOutNever(f) == FALSE

\* Mutant: a history that did not come counts as covered.
TimedOutAsCovered(f) ==
  /\ finisher[f].at = "apply" \/ (finisher[f].at = "read" /\ job[f].at = "idle")
  /\ finisher' = [finisher EXCEPT ![f].at = "write", ![f].todo = {}]
  /\ job' = [job EXCEPT ![f] = IF @.at = "find" THEN NoJob ELSE @]
  /\ UNCHANGED <<session, usage, rows, incidents>>

(* The bounded wait for #reconcile ends, or a read of it fails.  It writes *)
(* nothing more: the write that was posted is ahead of finishUsage.        *)
TimedOut(f) ==
  /\ finisher[f].at = "apply" \/ (finisher[f].at = "read" /\ job[f].at = "idle")
  /\ finisher' = [finisher EXCEPT ![f].at = "write", ![f].todo = {}, ![f].coverage = "partial"]
  /\ job' = [job EXCEPT ![f] = IF @.at = "find" THEN NoJob ELSE @]
  /\ UNCHANGED <<session, usage, rows, incidents>>

(* finishUsage: nothing but another completion changes a completed attempt,*)
(* coverage is not taken back, and an uncertain end leaves it open.        *)
FinishUsage(f) ==
  LET a == f[1]
      state == finisher[f].state
      coverage == IF state = "cancellation_uncertain" THEN "partial" ELSE finisher[f].coverage
  IN /\ finisher[f].at = "write" /\ job[f].at = "idle"
     /\ finisher' = [finisher EXCEPT ![f] = [NotFinishing EXCEPT !.at = "done"]]
     /\ usage' = IF usage[a].state = "completed" /\ state # "completed" THEN usage
                 ELSE [usage EXCEPT ![a].state = state,
                                    ![a].coverage = IF @ = "complete" THEN @ ELSE coverage,
                                    ![a].settled = IF state = "cancellation_uncertain" THEN 0 ELSE now]
     /\ UNCHANGED <<session, rows, job, incidents>>

(* The process ends.  An attempt whose prompt was not sent is not on       *)
(* record in the journal, so nobody recovers it.                           *)
CrashUsage ==
  /\ Incident
  /\ job' = [t \in Observing |-> NoJob]
  /\ finisher' = [f \in Finisher |-> NotFinishing]
  /\ request' = [a \in Billed |-> IF request[a] = "prepared" THEN "orphaned" ELSE request[a]]
  /\ UNCHANGED <<now, transcript, usage, rows>>

Finish(f) == ReadHistory(f) \/ ApplyNext(f) \/ FinishUsage(f)
ObserveStep(t) == FindAttempt(t) \/ RecordPrompt(t) \/ RecordUsage(t) \/ Reread(t)

UsageNext ==
  \/ \E a \in Billed :
       \/ BeginUsage(a) \/ Prompted(a) \/ Continues(a) \/ RequestEnds(a)
       \/ Uncertainly(a) \/ Certainly(a) \/ NeverSent(a)
  \/ \E m \in Entry : Revises(m, 1) \/ Revises(m, 2) \/ \E o \in Observer : EventArrives(o, m)
  \/ \E t \in Observing : ObserveStep(t)
  \/ \E f \in Finisher : Finish(f) \/ TimedOut(f)
  \/ CrashUsage

UsageSpec == UsageInit /\ [][UsageNext]_usageVars

(* The database answers and timers fire; replies are completed and requests*)
(* end; a read of the session may hang.  attempt.ts always accounts for    *)
(* what it sent or did not send, and a lane recovers the pass of a process *)
(* that ended once the request is over.  Every one of these steps is made  *)
(* a bounded number of times, so that it is enough that one is made.       *)
UsageProgress ==
  \/ \E t \in Observing : ObserveStep(t)
  \/ \E f \in Finisher : TimedOut(f) \/ FinishUsage(f)
  \/ \E m \in Entry : Revises(m, 1)
  \/ \E a \in Billed : RequestEnds(a) \/ Certainly(a) \/ NeverSent(a) \/ Prompted(a)

UsageFairness == WF_usageVars(UsageProgress)

----------------------------------------------------------------------------
(* Properties.                                                             *)

(* Coverage as the summary of the session tells it. *)
SummaryCoverage ==
  LET begun == {a \in Billed : usage[a].state # "none"}
  IN IF begun = {} THEN "unknown"
     ELSE IF \/ \E a \in begun : usage[a].coverage # "complete"
             \/ \E m \in Entry : rows[m].version > 0 /\ rows[m].attempt = 0
     THEN "partial" ELSE "complete"

(* "A bounded scan that could not cover the attempt cannot be presented as *)
(* measured" (README.md:191): when the summary says complete, every reply  *)
(* of a request that is over is counted, with its completed usage.         *)
CompleteIsCovered ==
  SummaryCoverage = "complete" =>
    \A m \in Written :
      transcript[m].role = "assistant" /\ request[transcript[m].of] = "ended" => rows[m].version > 1

(* Usage is charged to the attempt that caused it, however late its event  *)
(* is observed and whatever was begun in the session since.                *)
ChargedToItsAttempt ==
  \A m \in Entry : rows[m].attempt # 0 => rows[m].attempt = transcript[m].of

(* The ledger never shows more than it knows. *)
UsageIsHonest == UsageTypeOK /\ CompleteIsCovered /\ ChargedToItsAttempt

(* No attempt stays accounted as running, also when the history it is      *)
(* reconciled with never comes.                                            *)
UsageSettles ==
  <>[](\A a \in Billed : usage[a].state = "running" => request[a] = "orphaned")
=============================================================================
