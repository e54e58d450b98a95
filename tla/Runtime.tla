------------------------------ MODULE Runtime ------------------------------
(***************************************************************************)
(* One watched session in AdvisorRuntime (advisor/runtime.ts): its         *)
(* notifications, the passes ReviewScheduler starts for its reviewer, and  *)
(* what pause, resume, forget and dispose do to those that are on the way. *)
(* The scheduler of the passes is PassScheduler; what a review does inside *)
(* its lane is ReviewLane.  An epoch is the code's symbol: the session     *)
(* gets one when something notifies it and loses it when it is forgotten.  *)
(*                                                                         *)
(* Each step runs from one await to the next.  The worker of the database  *)
(* executes and answers requests in the order they are posted: the row of  *)
(* the task changes when its write is posted, and a readTask posted before *)
(* is answered before, as if the write had been posted after that answer.  *)
(* Of a TaskSnapshot stopped is modelled; module Checkpoint has the rest.  *)
(***************************************************************************)
EXTENDS PassScheduler

CONSTANTS
  Call,        \* the resume calls that may be on the way at once
  MaxEpochs    \* bound: epochs the session gets

ASSUME RuntimeAssumption == MaxEpochs \in Nat /\ None \notin BOOLEAN

VARIABLES
  stopped,   \* TaskSnapshot.stopped of the task_context row
  contexts,  \* what TaskContexts keeps of the session
  runtime,   \* what AdvisorRuntime keeps of the session
  pass,      \* [object of the scheduler -> its pass]
  resumes,   \* [Call -> a resume() that awaits]
  report     \* [object -> the report of its pass]: history

effects == <<vars, runtime, pass, resumes, report>>
runtimeVars == <<stopped, contexts, runtime, pass, resumes, report>>

Epoch == 0..MaxEpochs
Awaiting == {"task", "recover", "read", "review"}
Task == {"continue", "replace", "stop", "resume"}

NoRuntime == [disposed |-> FALSE, paused |-> FALSE, watched |-> FALSE,
              epoch |-> 0, made |-> 0, lane |-> 0]
NoPass == [stage |-> "none", epoch |-> 0, lane |-> 0, cancelled |-> FALSE, worked |-> FALSE]
NoResume == [stage |-> "none", epoch |-> 0, listed |-> {}]
NoReport == [state |-> "none", epoch |-> 0]

(* #states and #saved, None if the session is not in the map; the write of *)
(* the task that is under way, what it writes, whether its answer will say *)
(* that it was done, and whether its scope is active.  told is history: no *)
(* write that was to stop, resume or replace the task went unanswered, or  *)
(* the runtime heard of a later one.                                       *)
NoContext == [state |-> None, saved |-> None, writing |-> "none", value |-> FALSE,
              ok |-> TRUE, active |-> FALSE, told |-> TRUE]

(* A report is saved, then handed to the deliverer; or dropped because the *)
(* session was paused, and missed if the resume that should hand it fails  *)
(* or the session is forgotten before it; or past because the session was  *)
(* forgotten.                                                              *)
RuntimeTypeOK ==
  /\ stopped \in BOOLEAN
  /\ contexts \in [state : BOOLEAN \cup {None}, saved : BOOLEAN \cup {None},
                   writing : Task \cup {"none"}, value : BOOLEAN, ok : BOOLEAN,
                   active : BOOLEAN, told : BOOLEAN]
  /\ runtime \in [disposed : BOOLEAN, paused : BOOLEAN, watched : BOOLEAN,
                  epoch : Epoch, made : Epoch, lane : Epoch]
  /\ pass \in [Object -> [stage : Awaiting \cup {"none", "over"}, epoch : Epoch, lane : Epoch,
                          cancelled : BOOLEAN, worked : BOOLEAN]]
  /\ resumes \in [Call -> [stage : {"none", "listing", "listed", "giving"}, epoch : Epoch,
                           listed : SUBSET Object]]
  /\ report \in [Object -> [state : {"none", "saved", "dropped", "missed", "handed", "past"}, epoch : Epoch]]

RuntimeInit ==
  /\ Init
  /\ stopped \in BOOLEAN
  /\ contexts = NoContext
  /\ runtime = NoRuntime
  /\ pass = [o \in Object |-> NoPass]
  /\ resumes = [c \in Call |-> NoResume]
  /\ report = [o \in Object |-> NoReport]

----------------------------------------------------------------------------
(* What the methods do.                                                    *)

(* #scope(). *)
Scoped(r) ==
  IF r.epoch # 0 THEN r ELSE [r EXCEPT !.epoch = r.made + 1, !.made = @ + 1]

MayScope == runtime.epoch # 0 \/ runtime.made < MaxEpochs

(* runPass() up to its first await.  The lane of a session that has been   *)
(* read before exists: both are dropped together.                          *)
Launch(r) ==
  IF r.disposed \/ r.paused THEN [NoPass EXCEPT !.stage = "over"]
  ELSE [NoPass EXCEPT !.stage = IF r.watched THEN "recover" ELSE "task", !.epoch = r.epoch]

(* The passes, once the scheduler has done its part of the step. *)
Launched(before) ==
  pass' = [o \in Object |-> IF states'[o].passing # None /\ before[o].stage = "none"
                            THEN Launch(runtime') ELSE before[o]]

Over(worked) == [NoPass EXCEPT !.stage = "over", !.worked = worked]

(* ReviewScheduler.forget(): the request and the entry go. *)
ForgetRequests == IF current = 0 THEN UNCHANGED vars ELSE Forget

Cancelled(p) == IF p.stage \in Awaiting THEN [p EXCEPT !.cancelled = TRUE] ELSE p

(* The checks a pass repeats after an await. *)
Wanted(o) == ~runtime.disposed /\ ~runtime.paused /\ pass[o].epoch = runtime.epoch

IsPinnedByTheSchedule ==
  current # 0 /\ (states[current].passing # None \/ states[current].dirty
                  \/ states[current].timer # None)

(* isPinned(); lanes that are busy recovering pin as well. *)
IsPinned ==
  IsPinnedByTheSchedule \/ \E o \in Object : pass[o].stage \in Awaiting

Missed(reports) ==
  [o \in Object |-> IF reports[o].state = "dropped" THEN [reports[o] EXCEPT !.state = "missed"]
                    ELSE reports[o]]

(* A session that is forgotten while its task goes on has no resume ahead. *)
LeftBehind == IF stopped THEN report ELSE Missed(report)

----------------------------------------------------------------------------
(* What the plugin calls.                                                  *)

(* notify(). *)
Notify(reason) ==
  IF runtime.disposed THEN UNCHANGED <<vars, runtimeVars>>
  ELSE /\ MayScope
       /\ runtime' = Scoped(runtime)
       /\ IF runtime.paused THEN UNCHANGED vars ELSE Trigger(reason)
       /\ Launched(pass)
       /\ UNCHANGED <<stopped, contexts, resumes, report>>

(* pause(). *)
Paused ==
  IF runtime.disposed THEN UNCHANGED <<vars, runtime>>
  ELSE runtime' = [runtime EXCEPT !.paused = TRUE] /\ ForgetRequests

(* forget(). *)
Forgotten ==
  /\ runtime' = [NoRuntime EXCEPT !.disposed = runtime.disposed, !.made = runtime.made]
  /\ pass' = [o \in Object |-> Cancelled(pass[o])]
  /\ ForgetRequests
  /\ UNCHANGED resumes

(* What was held back is of the task that is replaced. *)
Replaced ==
  /\ Forgotten
  /\ report' = [o \in Object |-> IF report[o].state \in {"dropped", "missed"}
                                 THEN [report[o] EXCEPT !.state = "past"] ELSE report[o]]

(* resume(), up to the await on the store. *)
Resumed(c) ==
  /\ resumes[c].stage = "none" /\ MayScope
  /\ runtime' = Scoped([runtime EXCEPT !.paused = FALSE])
  /\ resumes' = [resumes EXCEPT ![c] =
       [NoResume EXCEPT !.stage = "listing", !.epoch = runtime'.epoch]]
  /\ UNCHANGED <<vars, pass, report>>

(* onTask() of a watched session: off tells whether the task is stopped. *)
OnTask(task, off) ==
  \/ task = "replace" /\ Replaced
  \/ task # "replace" /\ off /\ Paused /\ UNCHANGED <<pass, resumes, report>>
  \/ task = "resume" /\ ~off /\ \E c \in Call : Resumed(c)
  \/ task = "continue" /\ ~off /\ UNCHANGED effects

(* The plugin lets go of the session, then dispose(). *)
Dispose ==
  /\ ~runtime.disposed
  /\ runtime' = [NoRuntime EXCEPT !.disposed = TRUE, !.made = runtime.made]
  /\ pass' = [o \in Object |-> Cancelled(pass[o])]
  /\ ForgetRequests
  /\ UNCHANGED resumes

----------------------------------------------------------------------------
(* The awaits of a pass.                                                   *)

Steps(o, stage) == pass[o].stage = stage /\ ~pass[o].cancelled

\* Mutant: a pass does not ask whether the task is stopped.
TaskIgnored(o) ==
  /\ Steps(o, "task")
  /\ pass' = [pass EXCEPT ![o] = IF Wanted(o) THEN [@ EXCEPT !.stage = "recover"] ELSE Over(FALSE)]
  /\ runtime' = [runtime EXCEPT !.lane = IF Wanted(o) THEN runtime.epoch ELSE @]
  /\ UNCHANGED <<vars, stopped, contexts, resumes, report>>

(* readTask() answered. *)
TaskRead(o) ==
  /\ Steps(o, "task")
  /\ \/ /\ stopped
        /\ Paused
        /\ pass' = [pass EXCEPT ![o] = Over(FALSE)]
     \/ /\ ~stopped /\ ~Wanted(o)
        /\ pass' = [pass EXCEPT ![o] = Over(FALSE)]
        /\ UNCHANGED <<vars, runtime>>
     \/ /\ ~stopped /\ Wanted(o)
        /\ pass' = [pass EXCEPT ![o].stage = "recover"]
        /\ runtime' = [runtime EXCEPT !.lane = runtime.epoch]
        /\ UNCHANGED vars
  /\ UNCHANGED <<stopped, contexts, resumes, report>>

(* The lane has recovered; it may be busy. *)
Recovered(o) ==
  /\ Steps(o, "recover")
  /\ pass' \in {[pass EXCEPT ![o] = Over(FALSE)],
                [pass EXCEPT ![o] = IF Wanted(o) THEN [@ EXCEPT !.stage = "read"] ELSE Over(FALSE)]}
  /\ UNCHANGED <<vars, stopped, contexts, runtime, resumes, report>>

Reviewing(lane) == \E o \in Object : pass[o].stage = "review" /\ pass[o].lane = lane

(* The transcript is read; the lane runs unless it is busy or has nothing  *)
(* to review.                                                              *)
HistoryRead(o) ==
  /\ Steps(o, "read")
  /\ runtime' = [runtime EXCEPT !.watched = TRUE]
  /\ \/ ~Reviewing(runtime.lane)
        /\ pass' = [pass EXCEPT ![o].stage = "review", ![o].lane = runtime.lane]
     \/ pass' = [pass EXCEPT ![o] = Over(FALSE)]
  /\ UNCHANGED <<vars, stopped, contexts, resumes, report>>

ReadFails(o) ==
  /\ Steps(o, "read") \/ Steps(o, "task")
  /\ pass' = [pass EXCEPT ![o] = Over(@.stage = "task")]
  /\ UNCHANGED <<vars, stopped, contexts, runtime, resumes, report>>

(* The lane has saved a report; a retired lane saves none.                 *)
Save(o) ==
  /\ pass[o].stage = "review" /\ ~pass[o].cancelled /\ report[o].state = "none"
  /\ report' = [report EXCEPT ![o] = [state |-> "saved", epoch |-> pass[o].epoch]]
  /\ UNCHANGED <<vars, stopped, contexts, runtime, pass, resumes>>

(* #emit(): at the end of the review, or later, when the lane reconciles.  *)
Emit(o) ==
  /\ report[o].state = "saved"
  /\ report' = [report EXCEPT ![o].state =
       IF runtime.disposed \/ report[o].epoch # runtime.epoch THEN "past"
       ELSE IF runtime.paused THEN "dropped" ELSE "handed"]
  /\ UNCHANGED <<vars, stopped, contexts, runtime, pass, resumes>>

(* The review is over, or its lifetime. *)
ReviewEnds(o) ==
  /\ pass[o].stage \in Awaiting
  /\ pass' = [pass EXCEPT ![o] = Over(TRUE)]
  /\ UNCHANGED <<vars, stopped, contexts, runtime, resumes, report>>

(* The scheduler hears of it. *)
Settles(o) ==
  /\ pass[o].stage = "over"
  /\ PassEnds(o, pass[o].worked)
  /\ UNCHANGED runtime
  /\ Launched([pass EXCEPT ![o] = NoPass])
  /\ UNCHANGED <<stopped, contexts, resumes, report>>

(* The timer of a waiting pass. *)
TimerFires(o) ==
  /\ Fire(o)
  /\ UNCHANGED runtime
  /\ Launched(pass)
  /\ UNCHANGED <<stopped, contexts, resumes, report>>

PassStep(o) ==
  \/ TaskRead(o) \/ Recovered(o) \/ ReadFails(o)
  \/ Emit(o) \/ ReviewEnds(o) \/ Settles(o) \/ TimerFires(o)

----------------------------------------------------------------------------
(* The awaits of a resume.                                                 *)

\* Mutant: a resume hands over only what was held back since the last forget.
StoredInThisEpoch ==
  {o \in Object : report[o].state # "none" /\ report[o].epoch = runtime.epoch}

Stored == {o \in Object : report[o].state # "none"}

(* resumedNotes() has listed the open findings. *)
ResumeLists(c) ==
  /\ resumes[c].stage = "listing"
  /\ resumes' = [resumes EXCEPT ![c].stage = "listed", ![c].listed = Stored]
  /\ UNCHANGED <<vars, stopped, contexts, runtime, pass, report>>

ResumeFails(c) ==
  /\ resumes[c].stage \in {"listing", "listed"}
  /\ resumes' = [resumes EXCEPT ![c] = NoResume]
  /\ report' = Missed(report)
  /\ UNCHANGED <<vars, stopped, contexts, runtime, pass>>

(* Their reports are read: #emit() of the resume. *)
ResumeEmits(c) ==
  /\ resumes[c].stage = "listed"
  /\ IF runtime.disposed \/ resumes[c].epoch # runtime.epoch
     THEN resumes' = [resumes EXCEPT ![c] = NoResume] /\ report' = Missed(report)
     ELSE /\ resumes' = [resumes EXCEPT ![c].stage = "giving"]
          /\ report' = [o \in Object |->
               IF o \in resumes[c].listed /\ ~runtime.paused /\ report[o].state # "past"
               THEN [report[o] EXCEPT !.state = "handed"] ELSE report[o]]
  /\ UNCHANGED <<vars, stopped, contexts, runtime, pass>>

(* The cards are out: a notification, whatever happened meanwhile. *)
ResumeNotifies(c) ==
  /\ resumes[c].stage = "giving"
  /\ resumes' = [resumes EXCEPT ![c] = NoResume]
  /\ IF runtime.disposed THEN UNCHANGED <<vars, runtime, pass>>
     ELSE /\ MayScope
          /\ runtime' = Scoped(runtime)
          /\ IF runtime.paused THEN UNCHANGED vars ELSE Trigger("idle")
          /\ Launched(pass)
  /\ UNCHANGED <<stopped, contexts, report>>

ResumeStep(c) == ResumeLists(c) \/ ResumeFails(c) \/ ResumeEmits(c) \/ ResumeNotifies(c)
=============================================================================
