------------------------------ MODULE Watcher ------------------------------
(***************************************************************************)
(* Which sessions are watched (watcher.ts), for one session of OpenCode,   *)
(* joined to AdvisorRuntime as plugin.ts joins them: the watcher notifies  *)
(* the runtime of the session's steps, and has it forget the session when  *)
(* it is deleted or evicted.  Events come in the order OpenCode publishes  *)
(* them; the answer of session.get comes on its own.                       *)
(*                                                                         *)
(* The watcher's scheduler has no cooldown, and its pass is the call of    *)
(* notify(): it is over before the next event, so of its state a timer and *)
(* the suppression are left.  Other sessions are not modelled: they may    *)
(* fill a cache at any time, which then drops this one.                    *)
(***************************************************************************)
EXTENDS Runtime

CONSTANTS
  MaxGets,     \* bound: session.get calls
  MaxDispatch, \* pass_debounce_ms of the watcher
  Bounds       \* what the session may be and how often each kind of event may
               \* happen; a behaviour has one of them

ASSUME WatcherAssumption ==
  /\ MaxGets \in Nat /\ MaxDispatch \in Nat
  /\ \A b \in Bounds : b.events \in [DOMAIN b.events -> Nat]

VARIABLES
  nature,    \* "primary", "child", "advisor" or "advised", a child an advise_agents mode runs in
  known,     \* the sets of the watcher it is in
  there,     \* "live", then "deleted" in OpenCode, then "gone": the event was handled
  gets,      \* [session.get call -> how far it is]
  token,     \* pendingTokens: the call that may register the session, 0 if none
  dispatch,  \* the watcher's scheduler
  late,      \* history: a resume notified a session that was forgotten
  left       \* of its bound

watcherVars == <<nature, known, there, gets, token, dispatch, late, left>>
allVars == <<vars, runtimeVars, watcherVars>>

Get == 1..MaxGets
NoDispatch == [timer |-> None, suppress |-> 0]

(* Types. *)
TypesOK ==
  /\ TypeOK /\ RuntimeTypeOK
  /\ \E b \in Bounds : /\ nature \in b.natures
                        /\ left \in [DOMAIN b.events -> Nat]
                        /\ \A k \in DOMAIN b.events : left[k] <= b.events[k]
  /\ known \subseteq {"root", "child", "advised", "advisor"}
  /\ there \in {"live", "deleted", "gone"}
  /\ gets \in [Get -> {"none", "asked", "found", "missing"}]
  /\ token \in 0..MaxGets
  /\ dispatch \in [timer : 0..MaxDispatch \cup {None}, suppress : 0..MaxSuppress]
  /\ late \in BOOLEAN

WatcherInit ==
  /\ RuntimeInit
  /\ \E b \in Bounds : nature \in b.natures /\ left = b.events
  /\ known = {}
  /\ there = "live"
  /\ gets = [g \in Get |-> "none"]
  /\ token = 0
  /\ dispatch = NoDispatch
  /\ late = FALSE

----------------------------------------------------------------------------
(* Parts of the handlers.                                                  *)

IsWatched(sets) == ~runtime.disposed /\ "advisor" \notin sets /\ sets \cap {"root", "advised"} # {}

(* registerSession(); only a primary session has no parent. *)
Registered(sets) ==
  IF "advisor" \in sets THEN sets
  ELSE IF nature # "primary" THEN (sets \ {"root"}) \cup {"child"}
  ELSE (sets \ {"child", "advised"}) \cup {"root"}

(* TaskContexts.forget(): a write that is under way goes on. *)
Released == [contexts EXCEPT !.state = None, !.saved = None, !.active = FALSE, !.told = TRUE]

(* forgetSession(), with onForget: the runtime and TaskContexts forget     *)
(* what was watched.                                                       *)
ForgetSession(kept) ==
  /\ known' = kept
  /\ token' = 0
  /\ dispatch' = NoDispatch
  /\ IF known \cap {"root", "advised"} # {}
     THEN Forgotten /\ contexts' = Released /\ report' = LeftBehind /\ UNCHANGED stopped
     ELSE UNCHANGED <<vars, runtimeVars>>

(* The watcher's scheduler: trigger(), and the pass that notifies. *)
Dispatch(reason) ==
  IF dispatch.suppress > 0 THEN UNCHANGED <<vars, runtimeVars, dispatch>>
  ELSE IF reason = "idle" THEN Notify("idle") /\ dispatch' = [dispatch EXCEPT !.timer = None]
  ELSE /\ dispatch' = [dispatch EXCEPT !.timer = IF @ = None THEN MaxDispatch ELSE @]
       /\ UNCHANGED <<vars, runtimeVars>>

Spend(kind) == left[kind] > 0 /\ left' = [left EXCEPT ![kind] = @ - 1]

Quiet == UNCHANGED <<vars, runtimeVars>>
On == ~runtime.disposed /\ there # "gone"

----------------------------------------------------------------------------
(* Events.                                                                 *)

(* session.created and session.updated. *)
Updated ==
  /\ Spend("registers")
  /\ On
  /\ known' = Registered(known)
  /\ UNCHANGED <<nature, there, gets, token, dispatch, late>> /\ Quiet

(* message.updated of an assistant message; completed or not.  Only those  *)
(* of reviewers have their modes.                                          *)
Message(completed) ==
  /\ Spend("signals")
  /\ On /\ nature # "advisor" /\ "advisor" \notin known
  /\ known' = IF nature = "advised" /\ "child" \in known THEN known \cup {"advised"} ELSE known
  /\ IF completed /\ IsWatched(known') THEN Dispatch("step") ELSE Quiet /\ UNCHANGED dispatch
  /\ UNCHANGED <<nature, there, gets, token, late>>

(* session.status idle. *)
Idle ==
  /\ Spend("signals")
  /\ On /\ "advisor" \notin known
  /\ \/ /\ IsWatched(known)
        /\ Dispatch("idle")
        /\ UNCHANGED <<gets, token>>
     \/ /\ ~IsWatched(known) /\ "child" \notin known /\ token = 0
        /\ \E g \in Get :
             /\ gets[g] = "none" /\ \A h \in Get : h < g => gets[h] # "none"
             /\ gets' = [gets EXCEPT ![g] = "asked"]
             /\ token' = g
        /\ Quiet /\ UNCHANGED dispatch
  /\ UNCHANGED <<nature, known, there, late>>

(* OpenCode serves session.get, *)
Served(g) ==
  /\ gets[g] = "asked"
  /\ gets' = [gets EXCEPT ![g] = IF there = "live" THEN "found" ELSE "missing"]
  /\ UNCHANGED <<nature, known, there, token, dispatch, late, left>> /\ Quiet

\* Mutant: an answer counts although its call was given up.
FetchedLate(g) ==
  /\ gets[g] \in {"found", "missing"}
  /\ token' = IF token = g THEN 0 ELSE token
  /\ known' = IF gets[g] = "found" THEN Registered(known) ELSE known
  /\ IF gets[g] = "found" /\ IsWatched(known') THEN Dispatch("idle") ELSE Quiet /\ UNCHANGED dispatch
  /\ UNCHANGED <<nature, there, gets, late, left>>

(* and its answer registers the session, unless the call was given up. *)
Fetched(g) ==
  /\ gets[g] \in {"found", "missing"} /\ token = g
  /\ token' = 0
  /\ known' = IF gets[g] = "found" THEN Registered(known) ELSE known
  /\ IF gets[g] = "found" /\ IsWatched(known') THEN Dispatch("idle") ELSE Quiet /\ UNCHANGED dispatch
  /\ UNCHANGED <<nature, there, gets, late, left>>

Deleted ==
  /\ Spend("losses")
  /\ there = "live" /\ there' = "deleted"
  /\ UNCHANGED <<nature, known, gets, token, dispatch, late>> /\ Quiet

(* session.deleted: evictSession(). *)
DeletionHandled ==
  /\ On /\ there = "deleted" /\ there' = "gone"
  /\ ForgetSession({})
  /\ UNCHANGED <<nature, gets, late, left>>

(* markAdvisorSession(), when the create of the child has returned. *)
Mark ==
  /\ Spend("registers")
  /\ On /\ nature = "advisor" /\ "advisor" \notin known
  /\ ForgetSession({"advisor"})
  /\ UNCHANGED <<nature, there, gets, late>>

(* Another session enters the full map: touchRoot(), handleMessage(). *)
Evict ==
  /\ Spend("losses")
  /\ On /\ IsWatched(known)
  /\ ~IsPinned /\ dispatch.timer = None
  /\ ForgetSession({})
  /\ UNCHANGED <<nature, there, gets, late>>

(* Another identity enters the full set: remember(). *)
Overflow ==
  /\ Spend("registers")
  /\ On
  /\ \E s \in known \cap {"child", "advisor"} : known' = known \ {s}
  /\ UNCHANGED <<nature, there, gets, token, dispatch, late>> /\ Quiet

(* A card was delivered: suppress(). *)
Suppressed(ms) ==
  /\ Spend("suppressions")
  /\ IsWatched(known)
  /\ dispatch' = [dispatch EXCEPT !.suppress = Max({@, ms})]
  /\ UNCHANGED <<nature, known, there, gets, token, late>> /\ Quiet

(* The debounce is over. *)
DispatchFires ==
  /\ dispatch.timer = 0
  /\ dispatch' = [dispatch EXCEPT !.timer = None]
  /\ IF dispatch.suppress > 0 THEN Quiet ELSE Notify("step")
  /\ UNCHANGED <<nature, known, there, gets, token, late, left>>

(* #load(): what memory lacks is read.  Nothing writes the row meanwhile:  *)
(* an answer comes after those of the writes posted before it.             *)
Loaded ==
  IF contexts.state # None THEN contexts
  ELSE [contexts EXCEPT !.state = stopped, !.saved = stopped]

(* #checkpoint(): what it saves. *)
Saving(task) ==
  [Loaded EXCEPT !.state = IF task = "continue" THEN @ ELSE task = "stop"]

MayCheckpoint == IsWatched(known) /\ contexts.writing = "none"

(* A checkpoint call that saves nothing: the snapshot is that of #saved. *)
CheckpointKept(task) ==
  /\ Spend("tasks")
  /\ MayCheckpoint /\ Saving(task).state = Loaded.saved
  /\ contexts' = Saving(task)
  /\ OnTask(task, contexts'.state)
  /\ UNCHANGED <<stopped, nature, known, there, gets, token, dispatch, late>>

(* A checkpoint call writes the task, or fails to; its answer may be lost. *)
CheckpointWrites(task) ==
  /\ MayCheckpoint
  /\ \E done, ok \in BOOLEAN :
       /\ ok => done
       /\ left.tasks > 0 /\ (ok \/ left.faults > 0)
       /\ left' = [left EXCEPT !.tasks = @ - 1, !.faults = IF ok THEN @ ELSE @ - 1]
       /\ contexts' = [Saving(task) EXCEPT !.writing = task, !.value = Saving(task).state,
                                          !.ok = ok, !.active = TRUE]
       /\ stopped' = IF done THEN contexts'.value ELSE stopped
  /\ UNCHANGED <<effects, nature, known, there, gets, token, dispatch, late>>

(* Its answer: onTask() is called unless the write failed, and returns at  *)
(* once if the session was forgotten meanwhile.                            *)
CheckpointWritten ==
  /\ contexts.writing # "none"
  /\ contexts' =
       [NoContext EXCEPT !.state = contexts.state,
         !.saved = IF contexts.active /\ contexts.ok THEN contexts.value ELSE contexts.saved,
         !.told = IF contexts.ok
                  THEN contexts.told \/ (IsWatched(known) /\ (contexts.writing # "continue" \/ contexts.value))
                  ELSE contexts.told /\ (contexts.active => contexts.writing = "continue")]
  /\ IF contexts.ok /\ IsWatched(known) THEN OnTask(contexts.writing, contexts.value)
     ELSE UNCHANGED effects
  /\ UNCHANGED <<stopped, watcherVars>>

(* #capture(), by a review or ahead of a checkpoint: the task is written   *)
(* as it is in memory.  Only captures and checkpoints use #saved, one      *)
(* after the other, so the answer is part of the step.                     *)
Capture ==
  /\ contexts.writing = "none"
  /\ IsWatched(known) \/ \E o \in Object : pass[o].stage = "review"
  /\ \/ /\ stopped' = Loaded.state /\ contexts' = [Loaded EXCEPT !.saved = Loaded.state]
        /\ UNCHANGED left
     \/ /\ Spend("faults")
        /\ stopped' \in {stopped, Loaded.state} /\ contexts' = Loaded
     \/ /\ Loaded.saved = Loaded.state
        /\ contexts' = Loaded /\ UNCHANGED <<stopped, left>>
  /\ UNCHANGED <<effects, nature, known, there, gets, token, dispatch, late>>

(* server.instance.disposed. *)
Disposed ==
  /\ Spend("losses")
  /\ Dispose
  /\ contexts' = Released /\ report' = LeftBehind
  /\ known' = {} /\ token' = 0 /\ dispatch' = NoDispatch
  /\ UNCHANGED <<stopped, nature, there, gets, late>>

(* The process dies and starts again; what was held back stays stored, and *)
(* a write that was posted may have been done.                             *)
Crash ==
  /\ Spend("crashes")
  /\ runtime' = [NoRuntime EXCEPT !.made = runtime.made]
  /\ current' = 0 /\ states' = [o \in Object |-> NewState]
  /\ pass' = [o \in Object |-> NoPass]
  /\ resumes' = [c \in Call |-> NoResume]
  /\ contexts' = NoContext
  /\ report' = [o \in Object |-> IF report[o].state = "saved" THEN [report[o] EXCEPT !.state = "past"]
                                 ELSE LeftBehind[o]]
  /\ known' = {} /\ gets' = [g \in Get |-> IF gets[g] = "none" THEN "none" ELSE "missing"]
  /\ token' = 0 /\ dispatch' = NoDispatch /\ late' = FALSE
  /\ UNCHANGED <<options, made, stopped, nature, there>>

Clock ==
  /\ (\E o \in Object : Counting(states[o])) \/ dispatch.suppress > 0
     \/ dispatch.timer \notin {None, 0}
  /\ IF \E o \in Object : Counting(states[o]) THEN Tick ELSE UNCHANGED vars
  /\ dispatch' = [timer |-> Less(dispatch.timer), suppress |-> Less(dispatch.suppress)]
  /\ UNCHANGED <<runtimeVars, nature, known, there, gets, token, late, left>>

RuntimeSteps ==
  \/ /\ \E o \in Object : PassStep(o)
     /\ UNCHANGED watcherVars
  \/ /\ there # "gone"  \* OpenCode has no transcript of a deleted session
     /\ \E o \in Object : HistoryRead(o)
     /\ UNCHANGED watcherVars
  \/ /\ Spend("reports")
     /\ \E o \in Object : Save(o)
     /\ UNCHANGED <<nature, known, there, gets, token, dispatch, late>>
  \/ /\ \E c \in Call : ResumeStep(c)
     /\ late' = (late \/ (runtime.epoch = 0 /\ runtime'.epoch # 0))
     /\ UNCHANGED <<nature, known, there, gets, token, dispatch, left>>

WatcherNext ==
  \/ Updated \/ Idle \/ (\E completed \in BOOLEAN : Message(completed))
  \/ (\E g \in Get : Served(g) \/ Fetched(g))
  \/ Deleted \/ DeletionHandled \/ Mark \/ Evict \/ Overflow
  \/ (\E ms \in 1..MaxSuppress : Suppressed(ms)) \/ DispatchFires
  \/ (\E task \in Task : CheckpointKept(task) \/ CheckpointWrites(task))
  \/ CheckpointWritten \/ Capture \/ Disposed \/ Crash \/ Clock \/ RuntimeSteps

WatcherSpec == WatcherInit /\ [][WatcherNext]_allVars

(* Time goes on and timers fire, and every pass has a lifetime. *)
FairWatcherSpec ==
  /\ WatcherSpec
  /\ WF_allVars(Clock)
  /\ \A o \in Object : /\ WF_allVars(TimerFires(o) /\ UNCHANGED watcherVars)
                       /\ WF_allVars(ReviewEnds(o) /\ UNCHANGED watcherVars)
                       /\ WF_allVars(Settles(o) /\ UNCHANGED watcherVars)

----------------------------------------------------------------------------
(* Properties.                                                             *)

(* A session is paused only while its task is stopped: a pass that read    *)
(* the task before the user resumed it does not pause the session again.   *)
(* The pause outlives the stop by the way of the answer, and by more only  *)
(* if an answer was lost: then the runtime is not told (checkpoint.ts:76). *)
PausedMeansStopped ==
  runtime.paused /\ ~stopped /\ contexts.told => contexts.writing \in {"resume", "replace"}

(* What a pause held back is handed over by the resume that ends it: once  *)
(* the task goes on and no resume is on its way, no report is left behind, *)
(* whenever it was saved and however stops and resumes overlapped; unless  *)
(* the answer that would start the resume was lost, the session was        *)
(* forgotten before it (plugin.ts:156), or the resume failed.              *)
HeldBackIsShown ==
  /\ ~stopped /\ contexts.told
  /\ contexts.writing \notin {"resume", "replace"} /\ (\A c \in Call : resumes[c].stage = "none")
  => \A o \in Object : report[o].state # "dropped"

(* Stop and resume agree with the stored task, for the runtime and for the *)
(* reports it holds back.                                                  *)
StopAndResumeAgree == TypesOK /\ PausedMeansStopped /\ HeldBackIsShown

(* Reviewers and children nobody asked to advise are never watched, and a  *)
(* deleted session is not watched again by an answer that comes late.      *)
OnlyWantedIsWatched ==
  IsWatched(known) => nature \in {"primary", "advised"} /\ there # "gone"

(* The runtime keeps nothing of a session that is not watched, except what *)
(* the end of a resume brings back (runtime.ts:101).                       *)
ForgottenIsReleased == runtime.epoch # 0 \/ runtime.lane # 0 => IsWatched(known) \/ late

(* One lane reviews a session, and no two reviews share it: a pass that    *)
(* was overtaken by forget() neither reviews in the new lane nor makes one.*)
OneReviewPerLane ==
  /\ \A o \in Object : pass[o].stage = "review" /\ ~pass[o].cancelled =>
       pass[o].lane = runtime.lane /\ runtime.lane = runtime.epoch
  /\ \A o, p \in Object : o # p /\ pass[o].stage = "review" /\ pass[p].stage = "review" =>
       pass[o].lane # pass[p].lane

(* Sessions are watched, kept and reviewed only as long as they should be. *)
WatchedAndReleased == OnlyWantedIsWatched /\ ForgottenIsReleased /\ OneReviewPerLane

(* No report reaches the deliverer while the task is stopped, whatever     *)
(* pause the runtime lost with an eviction or a crash, unless the answer   *)
(* to the stop is still on its way or was lost; nor after the plugin was   *)
(* disposed; nor after the session was deleted, unless the end of a resume *)
(* had brought back a session that was not watched any more: the runtime   *)
(* is not told of the deletion of such a session (watcher.ts:224).         *)
StopHolds ==
  \A o \in Object : report'[o].state = "handed" /\ report[o].state # "handed" =>
    /\ stopped => ~contexts.told \/ (contexts.writing = "stop" /\ contexts.active)
    /\ ~runtime.disposed /\ (there = "gone" => late)

(* A full cache drops no session that a pass works for or that is owed one.*)
EvictedIsIdle ==
  Evict => \A o \in Object : pass[o].stage \notin Awaiting /\ (o = current => ~states[o].owed)

(* What a step may never do. *)
NothingIsCutShort == [][StopHolds /\ EvictedIsIdle]_allVars
=============================================================================
