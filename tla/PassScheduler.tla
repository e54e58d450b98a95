--------------------------- MODULE PassScheduler ---------------------------
(***************************************************************************)
(* When passes start (watcher/scheduler.ts).  The watcher schedules one    *)
(* notification per watched session with it, and ReviewScheduler           *)
(* (advisor/scheduling.ts) one pass per reviewer; they differ in their     *)
(* options.  Sessions do not touch each other's state, so the module has   *)
(* one session.  Its state object is replaced when the session is          *)
(* forgotten, while a pass of the old object may still be in flight.       *)
(*                                                                         *)
(* trigger(), suppress(), forget(), a timer callback and the code after    *)
(* the await on onPass are each one step.  The code compares points in     *)
(* time with the clock; here each of them is the time left until it, which *)
(* is all those comparisons use.  Timers may fire late.                    *)
(***************************************************************************)
EXTENDS Naturals, FiniteSetsExt

CONSTANTS
  Options,      \* the options the plugin gives its schedulers
  None,
  MaxObjects,   \* bound: state objects made for the session
  MaxSuppress   \* bound: how long suppress() asks for

ASSUME SchedulerAssumption ==
  /\ \A o \in Options : o.cooldown_ms \in Nat /\ o.pass_debounce_ms \in Nat
  /\ \A o \in Options : o.respectIdleCooldown \in BOOLEAN
  /\ MaxObjects \in Nat /\ MaxSuppress \in Nat
  /\ None \notin Nat \cup {"step", "idle"}

VARIABLES
  options,  \* of this scheduler
  current,  \* the object in the states map, 0 if there is none
  made,     \* state objects made so far
  states    \* [object -> SchedulerState]

vars == <<options, current, made, states>>

Object == 1..MaxObjects
PassReason == {"step", "idle"}

(* passing is the reason of the pass in flight, so inFlight is "not None". *)
(* The last two are history: early, that the pass started inside the       *)
(* cooldown; owed, that a trigger was accepted and nothing has started or  *)
(* been suppressed since.                                                  *)
SchedulerState ==
  [passing : PassReason \cup {None}, dirty : BOOLEAN, dirtyReason : PassReason,
   timer    : 0..Max({options.cooldown_ms, options.pass_debounce_ms}) \cup {None},
   cooldown : 0..options.cooldown_ms,
   suppress : 0..MaxSuppress,
   early : BOOLEAN, owed : BOOLEAN]

NewState ==
  [passing |-> None, dirty |-> FALSE, dirtyReason |-> "step", timer |-> None,
   cooldown |-> 0, suppress |-> 0, early |-> FALSE, owed |-> FALSE]

(* Types, and the bounds of what is counted down. *)
TypeOK ==
  /\ options \in Options
  /\ made \in 0..MaxObjects
  /\ current \in 0..made
  /\ states \in [Object -> SchedulerState]

Init ==
  /\ options \in Options
  /\ current = 0
  /\ made = 0
  /\ states = [o \in Object |-> NewState]

----------------------------------------------------------------------------
(* What the methods do to one state object.                                *)

MarkedDirty(x, reason) ==
  [x EXCEPT !.dirty = TRUE, !.dirtyReason = IF reason = "idle" THEN "idle" ELSE @]

(* run(), up to its await. *)
Ran(x, reason) ==
  IF x.suppress > 0 THEN x
  ELSE IF x.passing # None THEN MarkedDirty(x, reason)
  ELSE [x EXCEPT !.passing = reason, !.early = x.cooldown > 0, !.owed = FALSE]

DelayIgnoringCooldown(x, debounce) == IF debounce THEN options.pass_debounce_ms ELSE 0

Delay(x, debounce) == Max({IF debounce THEN options.pass_debounce_ms ELSE 0, x.cooldown})

(* queueStep(). *)
Queued(x, debounce) ==
  IF x.timer # None THEN x
  ELSE IF Delay(x, debounce) = 0 THEN Ran(x, "step")
  ELSE [x EXCEPT !.timer = Delay(x, debounce)]

(* An idle session needs no debounce; a reviewer still keeps its cooldown. *)
AtOnce(x, reason) == reason = "idle" /\ (~options.respectIdleCooldown \/ x.cooldown = 0)

TriggeredWithoutDirty(x, reason) ==
  IF x.passing # None THEN x
  ELSE IF AtOnce(x, reason) THEN Ran([x EXCEPT !.timer = None], "idle")
  ELSE Queued(x, reason # "idle")

(* trigger(), for an object that is not suppressed. *)
Triggered(x, reason) ==
  IF x.passing # None THEN MarkedDirty(x, reason)
  ELSE IF AtOnce(x, reason) THEN Ran([x EXCEPT !.timer = None], "idle")
  ELSE Queued(x, reason # "idle")

(* What came in while the pass was in flight follows up. *)
FollowedUp(x) ==
  LET y == [x EXCEPT !.dirty = FALSE, !.dirtyReason = "step"]
  IN IF ~x.dirty THEN x
     ELSE IF x.dirtyReason = "idle" /\ ~options.respectIdleCooldown THEN Ran(y, "idle")
     ELSE Queued(y, FALSE)

----------------------------------------------------------------------------
(* Steps.                                                                  *)

Counting(x) == x.cooldown > 0 \/ x.suppress > 0 \/ x.timer \notin {None, 0}

Less(t) == IF t \in {None, 0} THEN t ELSE t - 1

Tick ==
  /\ \E o \in Object : Counting(states[o])
  /\ states' = [o \in Object |->
       [states[o] EXCEPT !.cooldown = Less(@), !.suppress = Less(@), !.timer = Less(@)]]
  /\ UNCHANGED <<options, current, made>>

(* state(): the object in the map, or a new one. *)
State ==
  \/ current # 0 /\ UNCHANGED <<options, current, made>>
  \/ current = 0 /\ made < MaxObjects /\ made' = made + 1 /\ current' = made + 1
     /\ UNCHANGED options

Trigger(reason) ==
  /\ State
  /\ states' = [states EXCEPT ![current'] =
       IF @.suppress > 0 THEN @ ELSE Triggered([@ EXCEPT !.owed = TRUE], reason)]

(* What is waiting when a session is suppressed may be dropped. *)
Suppress(ms) ==
  /\ State
  /\ states' = [states EXCEPT ![current'].suppress = Max({@, ms}), ![current'].owed = FALSE]

(* The callback runs the session, whatever object it has by then. *)
Fire(o) ==
  /\ states[o].timer = 0
  /\ State
  /\ states' = [[states EXCEPT ![o].timer = None] EXCEPT ![current'] = Ran(@, "step")]

ForgetOnlyEntry == current # 0 /\ current' = 0 /\ UNCHANGED <<options, made, states>>

(* The object's timer is cleared; its pass goes on. *)
Forget ==
  /\ current # 0
  /\ states' = [states EXCEPT ![current].dirty = FALSE, ![current].timer = None]
  /\ current' = 0
  /\ UNCHANGED <<options, made>>

(* onPass settled; a pass that had nothing to do starts no cooldown. *)
PassEnds(o, worked) ==
  LET ended == [states[o] EXCEPT !.passing = None,
                                 !.cooldown = IF worked THEN options.cooldown_ms ELSE @]
  IN /\ states[o].passing # None
     /\ states' = [states EXCEPT ![o] = IF o = current THEN FollowedUp(ended) ELSE ended]
     /\ UNCHANGED <<options, current, made>>

Next ==
  \/ Tick
  \/ \E reason \in PassReason : Trigger(reason)
  \/ \E ms \in 1..MaxSuppress : Suppress(ms)
  \/ Forget
  \/ \E o \in Object : Fire(o) \/ (\E worked \in BOOLEAN : PassEnds(o, worked))

Spec == Init /\ [][Next]_vars

(* Time goes on, timers fire, and every pass has a deadline. *)
FairSpec ==
  /\ Spec
  /\ WF_vars(Tick)
  /\ \A o \in Object : WF_vars(Fire(o)) /\ WF_vars(PassEnds(o, TRUE) \/ PassEnds(o, FALSE))

----------------------------------------------------------------------------
(* Properties.                                                             *)

(* No accepted trigger is forgotten: until a pass starts, it is in a timer *)
(* or in the dirty flag of a pass in flight.                               *)
TriggersAreRemembered ==
  current # 0 /\ states[current].owed =>
    LET x == states[current]
    IN x.timer # None \/ (x.passing # None /\ x.dirty)

(* A pass that must keep the cooldown never starts before it is over,      *)
(* whatever started, ended or was cancelled since its timer was set.       *)
CooldownIsKept ==
  \A o \in Object :
    LET x == states[o]
    IN x.early => x.passing # "step" /\ ~options.respectIdleCooldown

(* Once a session is forgotten nothing but a new trigger starts a pass:    *)
(* not a timer, and not the end of the pass that was in flight.            *)
ForgottenStaysQuiet ==
  [][\A o \in Object :
       current # o /\ states'[o].passing \notin {states[o].passing, None} =>
         \E reason \in PassReason : Trigger(reason)]_vars

(* Every accepted trigger is followed by a pass, unless the session is     *)
(* suppressed or forgotten first.                                          *)
TriggerServed ==
  LET Owed == current # 0 /\ states[current].owed IN Owed ~> ~Owed
=============================================================================
