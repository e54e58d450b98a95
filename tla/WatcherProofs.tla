---------------------------- MODULE WatcherProofs ----------------------------
(***************************************************************************)
(* Theorems about the watched session: its scheduler (PassScheduler), the  *)
(* runtime around it (Runtime) and the watcher that feeds both (Watcher).  *)
(* They hold for any options, delays, bounds, number of state objects and  *)
(* resume calls.                                                           *)
(*                                                                         *)
(* Part 1 is about the scheduler alone, one state object at a time: what   *)
(* its timer and flags are worth, and what each method makes of them.      *)
(* Part 2 is the invariant of the runtime: an epoch has at most one lane,  *)
(* every pass that was not cancelled works in it, and a stop leaves a lane *)
(* only in a session that is paused.  Part 3 adds the watcher: what is     *)
(* watched, what a resume on its way stands for, and what keeps an epoch.  *)
(***************************************************************************)
EXTENDS Watcher, TLAPS

USE SchedulerAssumption

-----------------------------------------------------------------------------
\* Part 1: the scheduler.

\* The two bounds of a timer.
Longest == Max({options.cooldown_ms, options.pass_debounce_ms})

LEMMA MaxOfTwo ==
  ASSUME NEW a \in Nat, NEW b \in Nat
  PROVE  /\ Max({a, b}) \in {a, b}
         /\ Max({a, b}) \in Nat
         /\ Max({a, b}) >= a /\ Max({a, b}) >= b
<1>1. \E m \in {a, b} : \A y \in {a, b} : m >= y
  <2>1. CASE a >= b
    BY <2>1
  <2>2. CASE b >= a
    BY <2>2
  <2>3. QED
    BY <2>1, <2>2
<1>2. /\ Max({a, b}) \in {a, b}
      /\ \A y \in {a, b} : Max({a, b}) >= y
  BY <1>1 DEF Max
<1>3. QED
  BY <1>2

\* What holds of an object while a method works on it: a timer belongs to an
\* object without a pass in flight and never ends before the cooldown, an
\* object with an accepted trigger is not suppressed, and a pass inside the
\* cooldown was allowed to be there.
Sound(x) ==
  /\ x \in SchedulerState
  /\ x.timer # None => x.passing = None /\ x.timer >= x.cooldown
  /\ x.owed => x.suppress = 0
  /\ x.early => x.passing # "step" /\ ~options.respectIdleCooldown

\* Between two steps an accepted trigger is in the timer or the dirty flag.
Remembers(x) == x.owed => x.timer # None \/ (x.passing # None /\ x.dirty)

Orderly(x) == Sound(x) /\ Remembers(x)

\* The same of a forgotten object, which has neither a timer nor a follow-up.
Left(x) ==
  /\ x \in SchedulerState
  /\ x.timer = None
  /\ x.early => x.passing # "step" /\ ~options.respectIdleCooldown

IInv ==
  /\ options \in Options
  /\ made \in 0..MaxObjects
  /\ current \in 0..made
  /\ states \in [Object -> SchedulerState]
  /\ current # 0 => Orderly(states[current])
  /\ \A o \in Object : o # current => Left(states[o])
  /\ \A o \in Object : o > made => states[o] = NewState

LEMMA InvariantIsEnough ==
  IInv => TypeOK /\ TriggersAreRemembered /\ CooldownIsKept
BY DEF IInv, TypeOK, TriggersAreRemembered, CooldownIsKept, Orderly, Sound,
       Remembers, Left, Object

-----------------------------------------------------------------------------
\* What the methods make of one object.

\* A pass that starts now keeps what it must: only an idle session whose
\* options do not ask for the cooldown starts inside it.
LEMMA RanIsOrderly ==
  ASSUME options \in Options, NEW x, Sound(x), x.timer = None,
         NEW reason \in PassReason,
         x.passing = None =>
           x.cooldown = 0 \/ (reason = "idle" /\ ~options.respectIdleCooldown)
  PROVE  Orderly(Ran(x, reason))
<1>1. CASE x.suppress > 0
  <2>1. Ran(x, reason) = x /\ ~x.owed
    BY <1>1 DEF Ran, Sound
  <2>2. QED
    BY <2>1 DEF Orderly, Remembers
<1>2. CASE ~(x.suppress > 0) /\ x.passing # None
  <2> DEFINE y == MarkedDirty(x, reason)
  <2>1. Ran(x, reason) = y
    BY <1>2 DEF Ran
  <2>2. /\ y \in SchedulerState /\ y.dirty /\ y.timer = x.timer
        /\ y.passing = x.passing /\ y.owed = x.owed /\ y.early = x.early
        /\ y.suppress = x.suppress
    BY DEF MarkedDirty, Sound, SchedulerState, PassReason
  <2>3. QED
    BY <1>2, <2>1, <2>2 DEF Orderly, Sound, Remembers
<1>3. CASE ~(x.suppress > 0) /\ x.passing = None
  <2>1. x.cooldown \in Nat /\ x \in SchedulerState
    BY DEF Sound, SchedulerState
  <2>2. PICK early \in BOOLEAN : early = (x.cooldown > 0)
    <3>1. (x.cooldown > 0) \in BOOLEAN
      BY <2>1, SMT
    <3>2. QED
      BY <3>1, Zenon
  <2> DEFINE y == [x EXCEPT !.passing = reason, !.early = early,
                            !.owed = FALSE]
  <2>3. Ran(x, reason) = y
    BY <1>3, <2>2 DEF Ran
  <2>4. /\ y \in SchedulerState /\ y.timer = None /\ ~y.owed
        /\ y.passing = reason /\ y.early = early
    BY <2>1 DEF SchedulerState
  <2>5. ASSUME early PROVE x.cooldown # 0
    <3>1. x.cooldown > 0
      BY <2>2, <2>5, Zenon
    <3>2. QED
      BY <2>1, <3>1
  <2>6. early => reason # "step" /\ ~options.respectIdleCooldown
    BY <1>3, <2>5
  <2>7. QED
    BY <2>3, <2>4, <2>6 DEF Orderly, Sound, Remembers
<1>4. QED
  BY <1>1, <1>2, <1>3

\* queueStep: the trigger is in the timer, or the pass starts.
LEMMA QueuedIsOrderly ==
  ASSUME options \in Options, NEW x, Sound(x), x.passing = None,
         NEW debounce \in BOOLEAN
  PROVE  Orderly(Queued(x, debounce))
<1> DEFINE d == IF debounce THEN options.pass_debounce_ms ELSE 0
           delay == Delay(x, debounce)
<1>1. /\ x \in SchedulerState /\ x.cooldown \in Nat /\ d \in Nat
      /\ options.cooldown_ms \in Nat /\ options.pass_debounce_ms \in Nat
      /\ x.cooldown <= options.cooldown_ms /\ d <= options.pass_debounce_ms
  BY DEF Sound, SchedulerState
<1>2. delay = Max({d, x.cooldown})
  BY DEF Delay
<1>3. delay \in Nat /\ delay >= x.cooldown /\ delay \in {d, x.cooldown}
  BY <1>1, <1>2, MaxOfTwo
<1>4. delay <= Longest
  <2>1. /\ Longest \in Nat /\ Longest >= options.cooldown_ms
        /\ Longest >= options.pass_debounce_ms
    BY <1>1, MaxOfTwo DEF Longest
  <2>2. QED
    BY <1>1, <1>3, <2>1
<1> HIDE DEF d, delay
<1>5. CASE x.timer # None
  BY <1>5 DEF Queued, Orderly, Remembers
<1>6. CASE x.timer = None /\ delay = 0
  <2>1. Queued(x, debounce) = Ran(x, "step")
    BY <1>6 DEF Queued, delay
  <2>2. x.cooldown = 0
    BY <1>1, <1>3, <1>6
  <2>3. QED
    BY <1>6, <2>1, <2>2, RanIsOrderly DEF PassReason
<1>7. CASE x.timer = None /\ delay # 0
  <2> DEFINE y == [x EXCEPT !.timer = delay]
  <2>1. Queued(x, debounce) = y
    BY <1>7 DEF Queued, delay
  <2>2. delay \in 0..Longest
    <3>1. Longest \in Nat
      BY <1>1, MaxOfTwo DEF Longest
    <3>2. QED
      BY <1>3, <1>4, <3>1
  <2>3. y \in SchedulerState
    BY <1>1, <2>2 DEF SchedulerState, Longest
  <2>4. /\ y.timer = delay /\ y.passing = None /\ y.cooldown = x.cooldown
        /\ y.owed = x.owed /\ y.suppress = x.suppress /\ y.early = x.early
    BY <1>1 DEF SchedulerState
  <2>5. delay # None
    BY <1>3
  <2>6. QED
    BY <1>3, <2>1, <2>3, <2>4, <2>5 DEF Orderly, Sound, Remembers
<1>8. QED
  BY <1>5, <1>6, <1>7

\* trigger(): whatever it finds, the trigger is remembered or a pass starts.
LEMMA TriggeredIsOrderly ==
  ASSUME options \in Options, NEW x, Sound(x), NEW reason \in PassReason
  PROVE  Orderly(Triggered(x, reason))
<1>1. CASE x.passing # None
  <2> DEFINE y == MarkedDirty(x, reason)
  <2>1. Triggered(x, reason) = y
    BY <1>1 DEF Triggered
  <2>2. /\ y \in SchedulerState /\ y.dirty /\ y.timer = x.timer
        /\ y.passing = x.passing /\ y.owed = x.owed /\ y.early = x.early
        /\ y.suppress = x.suppress /\ y.cooldown = x.cooldown
    BY DEF MarkedDirty, Sound, SchedulerState, PassReason
  <2>3. QED
    BY <1>1, <2>1, <2>2 DEF Orderly, Sound, Remembers
<1>2. CASE x.passing = None /\ AtOnce(x, reason)
  <2> DEFINE y == [x EXCEPT !.timer = None]
  <2>1. Triggered(x, reason) = Ran(y, "idle")
    BY <1>2 DEF Triggered
  <2>2. y \in SchedulerState
    BY DEF Sound, SchedulerState
  <2>3. /\ y.timer = None /\ y.passing = x.passing /\ y.cooldown = x.cooldown
        /\ y.owed = x.owed /\ y.suppress = x.suppress /\ y.early = x.early
    BY DEF Sound, SchedulerState
  <2>4. Sound(y)
    BY <2>2, <2>3 DEF Sound
  <2>5. x.cooldown = 0 \/ ~options.respectIdleCooldown
    BY <1>2 DEF AtOnce
  <2> HIDE DEF y
  <2>6. QED
    BY <2>1, <2>3, <2>4, <2>5, RanIsOrderly DEF PassReason
<1>3. CASE x.passing = None /\ ~AtOnce(x, reason)
  BY <1>3, QueuedIsOrderly DEF Triggered
<1>4. QED
  BY <1>1, <1>2, <1>3

\* The end of a pass: what came in while it ran follows up.
LEMMA FollowedUpIsOrderly ==
  ASSUME options \in Options, NEW x, Sound(x), x.passing = None,
         x.timer = None, x.owed => x.dirty
  PROVE  Orderly(FollowedUp(x))
<1> DEFINE y == [x EXCEPT !.dirty = FALSE, !.dirtyReason = "step"]
<1>1. CASE ~x.dirty
  BY <1>1 DEF FollowedUp, Orderly, Remembers
<1>2. CASE x.dirty
  <2>1. y \in SchedulerState
    BY DEF Sound, SchedulerState, PassReason
  <2>2. /\ y.timer = None /\ y.passing = None /\ y.cooldown = x.cooldown
        /\ y.owed = x.owed /\ y.suppress = x.suppress /\ y.early = x.early
    BY DEF Sound, SchedulerState
  <2>3. Sound(y)
    BY <2>1, <2>2 DEF Sound
  <2>4. \/ FollowedUp(x) = Ran(y, "idle") /\ ~options.respectIdleCooldown
        \/ FollowedUp(x) = Queued(y, FALSE)
    BY <1>2 DEF FollowedUp
  <2> HIDE DEF y
  <2>5. QED
    BY <2>2, <2>3, <2>4, RanIsOrderly, QueuedIsOrderly DEF PassReason
<1>3. QED
  BY <1>1, <1>2

LEMMA NewIsOrderly ==
  ASSUME options \in Options
  PROVE  Orderly(NewState) /\ Left(NewState)
<1>1. NewState \in SchedulerState
  <2>1. options.cooldown_ms \in Nat /\ MaxSuppress \in Nat
    OBVIOUS
  <2>2. QED
    BY <2>1 DEF NewState, SchedulerState, PassReason
<1>2. QED
  BY <1>1 DEF NewState, Orderly, Sound, Remembers, Left

-----------------------------------------------------------------------------
\* What the steps keep.

LEMMA InitIInv == Init => IInv
<1> SUFFICES ASSUME Init PROVE IInv
  OBVIOUS
<1>1. options \in Options /\ current = 0 /\ made = 0
      /\ states = [o \in Object |-> NewState]
  BY DEF Init
<1>2. NewState \in SchedulerState /\ Left(NewState)
  BY <1>1, NewIsOrderly DEF Left
<1>3. QED
  BY <1>1, <1>2 DEF IInv

\* state() finds or makes an orderly object, and leaves the others behind.
LEMMA StateIsOrderly ==
  ASSUME IInv, State
  PROVE  /\ options' = options /\ made' \in 0..MaxObjects
         /\ current' \in 1..made' /\ current' \in Object
         /\ Orderly(states[current'])
         /\ \A o \in Object : o # current' => Left(states[o])
         /\ \A o \in Object : o > made' => states[o] = NewState
<1>1. MaxObjects \in Nat /\ made \in 0..MaxObjects /\ current \in 0..made
      /\ options \in Options
  BY DEF IInv
<1>2. CASE current # 0 /\ UNCHANGED <<options, current, made>>
  BY <1>1, <1>2 DEF IInv, Object
<1>3. CASE /\ current = 0 /\ made < MaxObjects
           /\ made' = made + 1 /\ current' = made + 1 /\ UNCHANGED options
  <2>1. current' \in Object /\ current' > made /\ made' \in 0..MaxObjects
        /\ current' \in 1..made'
    BY <1>1, <1>3 DEF Object
  <2>2. Orderly(states[current'])
    BY <1>1, <2>1, NewIsOrderly DEF IInv
  <2>3. \A o \in Object : Left(states[o])
    BY <1>3 DEF IInv, Object
  <2>4. \A o \in Object : o > made' => o > made
    BY <1>1, <1>3 DEF Object
  <2>5. QED
    BY <1>3, <2>1, <2>2, <2>3, <2>4 DEF IInv
<1>4. QED
  BY <1>2, <1>3 DEF State

\* A step that ends with an orderly object in the map and touches no other.
LEMMA OneObject ==
  ASSUME IInv, State, NEW x, Orderly(x),
         states' = [states EXCEPT ![current'] = x]
  PROVE  IInv'
<1>1. /\ options' = options /\ made' \in 0..MaxObjects
      /\ current' \in 1..made' /\ current' \in Object
      /\ \A o \in Object : o # current' => Left(states[o])
      /\ \A o \in Object : o > made' => states[o] = NewState
  BY StateIsOrderly
<1>2. x \in SchedulerState /\ options \in Options
      /\ states \in [Object -> SchedulerState]
  BY DEF Orderly, Sound, IInv
<1>3. states' \in [Object -> SchedulerState] /\ states'[current'] = x
      /\ \A o \in Object : o # current' => states'[o] = states[o]
  BY <1>1, <1>2
<1>4. SchedulerState' = SchedulerState
  BY <1>1 DEF SchedulerState
<1>5. Orderly(states[current])'
  BY <1>1, <1>3, <1>4 DEF Orderly, Sound, Remembers
<1>6. \A o \in Object : o # current' => Left(states[o])'
  BY <1>1, <1>3, <1>4 DEF Left
<1>7. \A o \in Object : o > made' => o # current'
  BY <1>1 DEF Object
<1>8. QED
  BY <1>1, <1>2, <1>3, <1>4, <1>5, <1>6, <1>7 DEF IInv

LEMMA TriggerKeeps ==
  ASSUME IInv, NEW reason \in PassReason, Trigger(reason)
  PROVE  IInv'
<1>1. State /\ options \in Options
  BY DEF Trigger, IInv
<1>2. Orderly(states[current']) /\ current' \in Object
  BY <1>1, StateIsOrderly
<1>3. PICK x : x = states[current']
  OBVIOUS
<1>4. PICK y : y = [x EXCEPT !.owed = TRUE]
  OBVIOUS
<1>5. states' = [states EXCEPT ![current'] =
                   IF x.suppress > 0 THEN x ELSE Triggered(y, reason)]
  BY <1>2, <1>3, <1>4 DEF Trigger, IInv
<1>6. CASE x.suppress > 0
  BY <1>1, <1>2, <1>3, <1>5, <1>6, OneObject
<1>7. CASE ~(x.suppress > 0)
  <2>1. x \in SchedulerState /\ x.suppress = 0
    BY <1>2, <1>3, <1>7 DEF Orderly, Sound, SchedulerState
  <2>2. /\ y \in SchedulerState /\ y.timer = x.timer /\ y.passing = x.passing
        /\ y.cooldown = x.cooldown /\ y.suppress = 0 /\ y.early = x.early
    BY <1>4, <2>1 DEF SchedulerState
  <2>3. Sound(y)
    BY <1>2, <1>3, <2>2 DEF Orderly, Sound
  <2>4. Orderly(Triggered(y, reason))
    BY <1>1, <2>3, TriggeredIsOrderly
  <2>5. QED
    BY <1>1, <1>5, <1>7, <2>4, OneObject
<1>8. QED
  BY <1>6, <1>7

LEMMA SuppressKeeps ==
  ASSUME IInv, NEW ms \in 1..MaxSuppress, Suppress(ms)
  PROVE  IInv'
<1>1. State /\ options \in Options
  BY DEF Suppress, IInv
<1>2. Orderly(states[current']) /\ current' \in Object
  BY <1>1, StateIsOrderly
<1>3. PICK x : x = states[current']
  OBVIOUS
<1>4. /\ x \in SchedulerState
      /\ x.suppress \in 0..MaxSuppress
      /\ MaxSuppress \in Nat
  BY <1>2, <1>3 DEF Orderly, Sound, SchedulerState
<1>5. Max({x.suppress, ms}) \in 0..MaxSuppress
  <2>1. Max({x.suppress, ms}) \in {x.suppress, ms}
    BY <1>4, MaxOfTwo
  <2>2. QED
    BY <1>4, <2>1
<1>6. PICK y : y = [x EXCEPT !.suppress = Max({x.suppress, ms}), !.owed = FALSE]
  OBVIOUS
<1>7. states' = [states EXCEPT ![current'] = y]
  <2>1. states \in [Object -> SchedulerState]
    BY DEF IInv
  <2> QED
    BY <1>2, <1>3, <1>4, <1>6, <2>1 DEF Suppress, SchedulerState
<1>8. /\ y \in SchedulerState /\ ~y.owed /\ y.timer = x.timer
      /\ y.passing = x.passing /\ y.cooldown = x.cooldown /\ y.early = x.early
  BY <1>4, <1>5, <1>6 DEF SchedulerState
<1>9. Orderly(y)
  BY <1>2, <1>3, <1>8 DEF Orderly, Sound, Remembers
<1>10. QED
  BY <1>1, <1>7, <1>9, OneObject

\* Only the object in the map has a timer, and it has no pass in flight.
LEMMA FireKeeps ==
  ASSUME IInv, NEW o \in Object, Fire(o)
  PROVE  IInv'
<1>1. State /\ options \in Options /\ states[o].timer = 0
  BY DEF Fire, IInv
<1>2. o = current /\ current' = current /\ current \in Object
  <2>1. o = current
    BY <1>1 DEF IInv, Left
  <2>2. QED
    BY <1>1, <2>1 DEF State, Object
<1>3. PICK x : x = states[current]
  OBVIOUS
<1>4. Orderly(x) /\ x.timer = 0
  BY <1>1, <1>2, <1>3 DEF IInv, Object
<1>5. PICK y : y = [x EXCEPT !.timer = None]
  OBVIOUS
<1>6. states' = [states EXCEPT ![current'] = Ran(y, "step")]
  <2>1. states \in [Object -> SchedulerState]
    BY DEF IInv
  <2>2. QED
    BY <1>2, <1>3, <1>5, <2>1 DEF Fire
<1>7. x \in SchedulerState /\ x.passing = None /\ x.cooldown = 0
  BY <1>4 DEF Orderly, Sound, SchedulerState
<1>8. /\ y \in SchedulerState /\ y.timer = None /\ y.passing = None
      /\ y.cooldown = 0 /\ y.owed = x.owed /\ y.suppress = x.suppress
      /\ y.early = x.early
  BY <1>5, <1>7 DEF SchedulerState
<1>9. Sound(y)
  BY <1>4, <1>8 DEF Orderly, Sound
<1>10. Orderly(Ran(y, "step"))
  BY <1>1, <1>8, <1>9, RanIsOrderly DEF PassReason
<1>11. QED
  BY <1>1, <1>6, <1>10, OneObject

LEMMA ForgetKeeps ==
  ASSUME IInv, Forget
  PROVE  IInv'
<1>1. /\ options \in Options /\ made \in 0..MaxObjects /\ current \in 1..made
      /\ current \in Object /\ MaxObjects \in Nat
      /\ states \in [Object -> SchedulerState] /\ Orderly(states[current])
  BY DEF Forget, IInv, Object
<1>2. PICK y : y = [states[current] EXCEPT !.dirty = FALSE, !.timer = None]
  OBVIOUS
<1>3. states' = [states EXCEPT ![current] = y]
  BY <1>1, <1>2 DEF Forget, SchedulerState
<1>4. y \in SchedulerState /\ y.timer = None /\ y.early = states[current].early
      /\ y.passing = states[current].passing
  BY <1>1, <1>2 DEF SchedulerState
<1>5. Left(y)
  BY <1>1, <1>4 DEF Orderly, Sound, Left
<1>6. SchedulerState' = SchedulerState /\ options' = options
      /\ made' = made /\ current' = 0
  BY DEF Forget, SchedulerState
<1>7. states' \in [Object -> SchedulerState]
      /\ \A o \in Object : states'[o] = IF o = current THEN y ELSE states[o]
  BY <1>1, <1>3, <1>4
<1>8. \A o \in Object : Left(states[o])'
  BY <1>5, <1>6, <1>7 DEF IInv, Left
<1>9. \A o \in Object : o > made => o # current
  BY <1>1 DEF Object
<1>10. QED
  BY <1>1, <1>6, <1>7, <1>8, <1>9 DEF IInv

LEMMA PassEndsKeeps ==
  ASSUME IInv, NEW o \in Object, NEW worked \in BOOLEAN, PassEnds(o, worked)
  PROVE  IInv'
<1>1. /\ options \in Options /\ made \in 0..MaxObjects /\ current \in 0..made
      /\ MaxObjects \in Nat /\ states \in [Object -> SchedulerState]
      /\ options.cooldown_ms \in Nat
  BY DEF IInv
<1>2. PICK x : x = states[o]
  OBVIOUS
<1>3. PICK e : e = [x EXCEPT !.passing = None,
                             !.cooldown = IF worked THEN options.cooldown_ms
                                                    ELSE @]
  OBVIOUS
<1>4. x \in SchedulerState /\ x.passing # None
  BY <1>1, <1>2 DEF PassEnds
<1>5. /\ e \in SchedulerState /\ e.passing = None /\ e.timer = x.timer
      /\ e.owed = x.owed /\ e.suppress = x.suppress /\ e.early = x.early
      /\ e.dirty = x.dirty
  <2>1. PICK c : c = IF worked THEN options.cooldown_ms ELSE x.cooldown
    OBVIOUS
  <2>2. x.cooldown \in 0..options.cooldown_ms
    BY <1>4 DEF SchedulerState
  <2>3. c \in 0..options.cooldown_ms
    <3>1. CASE worked
      BY <1>1, <2>1, <3>1
    <3>2. CASE ~worked
      BY <2>1, <2>2, <3>2
    <3>3. QED
      BY <3>1, <3>2
  <2>4. e = [x EXCEPT !.passing = None, !.cooldown = c]
    <3>1. CASE worked
      BY <1>3, <2>1, <3>1
    <3>2. CASE ~worked
      BY <1>3, <2>1, <3>2
    <3>3. QED
      BY <3>1, <3>2
  <2>5. QED
    BY <1>4, <2>3, <2>4 DEF SchedulerState
<1>6. UNCHANGED <<options, current, made>>
  BY DEF PassEnds
<1>7. CASE o = current
  <2>1. Orderly(x) /\ current # 0
    BY <1>2, <1>7 DEF IInv, Object
  <2>2. x.timer = None /\ (x.owed => x.dirty)
    BY <1>4, <2>1 DEF Orderly, Sound, Remembers
  <2>3. None # "step"
    OBVIOUS
  <2>4. Sound(e)
    BY <1>5, <2>1, <2>2, <2>3 DEF Orderly, Sound
  <2>5. Orderly(FollowedUp(e))
    BY <1>1, <1>5, <2>2, <2>4, FollowedUpIsOrderly
  <2>6. states' = [states EXCEPT ![current'] = FollowedUp(e)]
    BY <1>2, <1>3, <1>6, <1>7 DEF PassEnds
  <2>7. State
    BY <1>6, <2>1 DEF State
  <2>8. QED
    BY <2>5, <2>6, <2>7, OneObject
<1>8. CASE o # current
  <2>1. Left(x) /\ None # "step"
    BY <1>2, <1>8 DEF IInv
  <2>2. Left(e)
    BY <1>5, <2>1 DEF Left
  <2>3. states' = [states EXCEPT ![o] = e]
    BY <1>2, <1>3, <1>8 DEF PassEnds
  <2>4. states' \in [Object -> SchedulerState] /\ states'[o] = e
        /\ \A q \in Object : q # o => states'[q] = states[q]
    BY <1>1, <1>5, <2>3
  <2>5. SchedulerState' = SchedulerState
    BY <1>6 DEF SchedulerState
  <2>6. current' # 0 => Orderly(states[current])'
    <3>1. current # 0 => states'[current] = states[current]
      BY <1>1, <1>8, <2>4 DEF Object
    <3>2. QED
      BY <1>6, <2>5, <3>1 DEF IInv, Orderly, Sound, Remembers
  <2>7. \A q \in Object : q # current' => Left(states[q])'
    BY <1>6, <2>2, <2>4, <2>5 DEF IInv, Left
  <2>8. o <= made
    BY <1>1, <1>2, <1>4 DEF IInv, NewState, Object
  <2>9. \A q \in Object : q > made => states'[q] = NewState
    BY <1>1, <2>4, <2>8 DEF IInv, Object
  <2>10. QED
    BY <1>1, <1>6, <2>4, <2>5, <2>6, <2>7, <2>9 DEF IInv
<1>9. QED
  BY <1>7, <1>8

\* One unit of time for one object.
Older(x) ==
  [x EXCEPT !.cooldown = Less(@), !.suppress = Less(@), !.timer = Less(@)]

LEMMA OlderIsKept ==
  ASSUME options \in Options, NEW x \in SchedulerState
  PROVE  /\ Older(x) \in SchedulerState
         /\ Orderly(x) => Orderly(Older(x))
         /\ Left(x) => Left(Older(x))
<1>1. options.cooldown_ms \in Nat /\ options.pass_debounce_ms \in Nat
  OBVIOUS
<1>2. Longest \in Nat
  BY <1>1, MaxOfTwo DEF Longest
<1>3. /\ x.cooldown \in 0..options.cooldown_ms
      /\ x.suppress \in 0..MaxSuppress
      /\ x.timer \in 0..Longest \cup {None}
  BY DEF SchedulerState, Longest
<1>4. /\ Less(x.cooldown) \in 0..options.cooldown_ms
      /\ Less(x.suppress) \in 0..MaxSuppress
      /\ Less(x.timer) \in 0..Longest \cup {None}
      /\ (x.suppress = 0 => Less(x.suppress) = 0)
      /\ (x.timer = None <=> Less(x.timer) = None)
      /\ (x.timer # None /\ x.timer >= x.cooldown
            => Less(x.timer) >= Less(x.cooldown))
  BY <1>1, <1>2, <1>3 DEF Less
<1>5. PICK c, s, t : c = Less(x.cooldown) /\ s = Less(x.suppress)
                     /\ t = Less(x.timer)
  OBVIOUS
<1>6. PICK y : y = [x EXCEPT !.cooldown = c, !.suppress = s, !.timer = t]
  OBVIOUS
<1>7. Older(x) = y
  BY <1>5, <1>6 DEF Older, SchedulerState
<1>8. /\ y \in SchedulerState /\ y.cooldown = c /\ y.suppress = s
      /\ y.timer = t /\ y.passing = x.passing /\ y.dirty = x.dirty
      /\ y.owed = x.owed /\ y.early = x.early
  BY <1>4, <1>5, <1>6 DEF SchedulerState, Longest
<1>9. QED
  BY <1>4, <1>5, <1>7, <1>8 DEF Orderly, Sound, Remembers, Left

LEMMA TickKeeps ==
  ASSUME IInv, Tick
  PROVE  IInv'
<1>1. options \in Options /\ states \in [Object -> SchedulerState]
      /\ made \in 0..MaxObjects /\ current \in 0..made /\ MaxObjects \in Nat
  BY DEF IInv
<1>2. UNCHANGED <<options, current, made>> /\ SchedulerState' = SchedulerState
  BY DEF Tick, SchedulerState
<1>3. states' = [o \in Object |-> Older(states[o])]
  BY DEF Tick, Older
<1>4. states' \in [Object -> SchedulerState]
      /\ \A o \in Object : states'[o] = Older(states[o])
  BY <1>1, <1>3, OlderIsKept
<1>5. current' # 0 => Orderly(states[current])'
  <2>1. ASSUME current # 0
        PROVE  current \in Object /\ Orderly(Older(states[current]))
    BY <1>1, <2>1, OlderIsKept DEF IInv, Object
  <2>2. QED
    BY <1>2, <1>4, <2>1 DEF Orderly, Sound, Remembers
<1>6. \A o \in Object : o # current' => Left(states[o])'
  <2>1. \A o \in Object : o # current => Left(Older(states[o]))
    BY <1>1, OlderIsKept DEF IInv
  <2>2. QED
    BY <1>2, <1>4, <2>1 DEF Left
<1>7. Older(NewState) = NewState
  BY DEF Older, NewState, Less
<1>8. QED
  BY <1>1, <1>2, <1>4, <1>5, <1>6, <1>7 DEF IInv

LEMMA NextIInv == IInv /\ [Next]_vars => IInv'
<1> SUFFICES ASSUME IInv, [Next]_vars PROVE IInv'
  OBVIOUS
<1>1. CASE UNCHANGED vars
  <2>1. UNCHANGED <<options, current, made, states>>
        /\ SchedulerState' = SchedulerState
    BY <1>1 DEF vars, SchedulerState
  <2>2. QED
    BY <2>1 DEF IInv, Orderly, Sound, Remembers, Left
<1>2. CASE Next
  BY <1>2, TickKeeps, TriggerKeeps, SuppressKeeps, ForgetKeeps, FireKeeps,
     PassEndsKeeps DEF Next
<1>3. QED
  BY <1>1, <1>2

THEOREM Invariance == Spec => []IInv
BY InitIInv, NextIInv, PTL DEF Spec

\* Every variable keeps its type; no timer is longer than the options allow.
THEOREM TypeCorrect == Spec => []TypeOK
BY Invariance, InvariantIsEnough, PTL

\* An accepted trigger is in a timer or a dirty flag until a pass starts,
\* whatever options the scheduler has (scheduler.ts:42-64, 156-165).
THEOREM TriggersAreNotLost == Spec => []TriggersAreRemembered
BY Invariance, InvariantIsEnough, PTL

\* A pass that must keep the cooldown does not start inside it, because no
\* timer is ever shorter than the cooldown left (scheduler.ts:116).
THEOREM PassesKeepTheCooldown == Spec => []CooldownIsKept
BY Invariance, InvariantIsEnough, PTL

-----------------------------------------------------------------------------
\* A forgotten object starts nothing.

\* Which pass an object has in flight, for an object that is not the
\* session's: it stays, or it ends.
LEMMA OthersAreQuiet ==
  ASSUME IInv, NEW o \in Object, o # current,
         \/ Tick \/ Forget
         \/ \E ms \in 1..MaxSuppress : Suppress(ms)
         \/ \E p \in Object : \/ Fire(p)
                              \/ \E worked \in BOOLEAN : PassEnds(p, worked)
         \/ UNCHANGED vars
  PROVE  states'[o].passing \in {states[o].passing, None}
<1>1. /\ states \in [Object -> SchedulerState] /\ states[o] \in SchedulerState
      /\ current \in 0..MaxObjects
  BY DEF IInv, Object
<1>2. CASE Tick
  <2>1. states'[o] = [states[o] EXCEPT !.cooldown = Less(@),
                                       !.suppress = Less(@),
                                       !.timer = Less(@)]
    BY <1>2 DEF Tick
  <2>2. states'[o].passing = states[o].passing
    BY <1>1, <2>1 DEF SchedulerState
  <2>3. QED
    BY <2>2
<1>3. CASE Forget
  BY <1>1, <1>3 DEF Forget, Object
<1>4. ASSUME NEW ms \in 1..MaxSuppress, Suppress(ms)
      PROVE  states'[o].passing \in {states[o].passing, None}
  <2>1. PICK c : c = current'
    OBVIOUS
  <2>2. PICK f : f = [states EXCEPT ![c].suppress = Max({@, ms})]
    OBVIOUS
  <2>3. states' = [f EXCEPT ![c].owed = FALSE]
    BY <1>4, <2>1, <2>2 DEF Suppress
  <2>4. f[o] = IF o = c THEN [states[o] EXCEPT !.suppress = Max({@, ms})]
                        ELSE states[o]
    BY <1>1, <2>2
  <2>5. f[o].passing = states[o].passing /\ o \in DOMAIN f
    BY <1>1, <2>2, <2>4 DEF SchedulerState
  <2>6. states'[o].passing = states[o].passing
    BY <1>1, <2>2, <2>3, <2>4, <2>5 DEF SchedulerState
  <2>7. QED
    BY <2>6
<1>5. ASSUME NEW p \in Object, Fire(p)
      PROVE  states'[o].passing \in {states[o].passing, None}
  <2>1. p = current
    BY <1>5 DEF IInv, Left, Fire
  <2>2. current' = current
    BY <1>5, <2>1 DEF Fire, State, Object
  <2>3. states'[o] = states[o]
    BY <1>1, <1>5, <2>1, <2>2 DEF Fire
  <2>4. QED
    BY <2>3
<1>6. ASSUME NEW p \in Object, NEW worked \in BOOLEAN, PassEnds(p, worked)
      PROVE  states'[o].passing \in {states[o].passing, None}
  <2>1. CASE p = o
    <3> DEFINE ended == [states[o] EXCEPT
                           !.passing = None,
                           !.cooldown = IF worked THEN options.cooldown_ms
                                                  ELSE @]
    <3>1. states' = [states EXCEPT ![o] = ended]
      BY <1>6, <2>1 DEF PassEnds
    <3>2. ended.passing = None
      BY <1>1 DEF SchedulerState
    <3>3. QED
      BY <1>1, <3>1, <3>2
  <2>2. CASE p # o
    BY <1>1, <1>6, <2>2 DEF PassEnds
  <2>3. QED
    BY <2>1, <2>2
<1>7. CASE UNCHANGED vars
  BY <1>7 DEF vars
<1>8. QED
  BY <1>2, <1>3, <1>4, <1>5, <1>6, <1>7

\* Once a session is forgotten no timer and no end of a pass starts another:
\* a forgotten object has no timer, and a pass that ends follows up only in
\* the object of the session (scheduler.ts:72-79, 156).
THEOREM ForgottenStartsNothing == Spec => ForgottenStaysQuiet
<1>1. IInv /\ [Next]_vars =>
        [\A o \in Object :
           current # o /\ states'[o].passing \notin {states[o].passing, None} =>
             \E reason \in PassReason : Trigger(reason)]_vars
  BY OthersAreQuiet DEF Next
<1>2. QED
  BY Invariance, <1>1, PTL DEF Spec, ForgottenStaysQuiet

-----------------------------------------------------------------------------
\* Part 2: the runtime.

USE RuntimeAssumption, WatcherAssumption

\* The types of Runtime's records.
Context == [state : BOOLEAN \cup {None}, saved : BOOLEAN \cup {None},
            writing : Task \cup {"none"}, value : BOOLEAN, ok : BOOLEAN,
            active : BOOLEAN, told : BOOLEAN]
RuntimeState == [disposed : BOOLEAN, paused : BOOLEAN, watched : BOOLEAN,
                 epoch : Epoch, made : Epoch, lane : Epoch]
Pass == [stage : Awaiting \cup {"none", "over"}, epoch : Epoch, lane : Epoch,
         cancelled : BOOLEAN, worked : BOOLEAN]
Resume == [stage : {"none", "listing", "listed", "giving"}, epoch : Epoch, listed : SUBSET Object]
Report == [state : {"none", "saved", "dropped", "missed", "handed", "past"}, epoch : Epoch]

\* The write under way is to end the stop, and its answer will be heard.
Ending == contexts.writing \in {"resume", "replace"} /\ contexts.active

\* The runtime has heard that the task is stopped.
Holds == stopped /\ contexts.told /\ ~(contexts.writing = "stop" /\ contexts.active)

\* What TaskContexts keeps in memory agrees with the row, unless an answer was
\* lost, but for what is being written; and a scope that is given up keeps
\* nothing, so that the next one reads the row.
ContextOk(c, task) ==
  /\ c.active => c.writing # "none" /\ c.state = c.value
  /\ c.writing # "none" /\ c.ok => task = c.value
  /\ c.writing = "stop" => c.value
  /\ c.writing \in {"resume", "replace"} => ~c.value
  /\ c.state = None => c.saved = None
  /\ c.told /\ c.writing \in {"none", "continue"} => c.state \in {None, task} /\ c.saved \in {None, task}
  /\ c.writing # "none" /\ ~c.active => c.told /\ c.state = None

\* The runtime has heard that the task goes on.
Goes == ~stopped /\ contexts.told /\ ~Ending

PausedOk == Goes => ~runtime.paused

\* A session is reviewed in the lane of its epoch or in none; it is scheduled
\* and known to be read only in an epoch; and a stop it was told
\* of leaves a lane only in a session that is paused.
LaneOk(r, task, object) ==
  /\ r.epoch <= r.made
  /\ r.lane \in {0, r.epoch}
  /\ r.watched => r.epoch # 0 /\ r.lane = r.epoch
  /\ r.disposed => r.epoch = 0
  /\ object # 0 => r.epoch # 0
  /\ task /\ ~r.paused => r.lane = 0

\* A pass that nobody cancelled is of this epoch, and once it has asked for
\* its lane, that is the session's.
PassOk(p, r) ==
  p.stage \in Awaiting /\ ~p.cancelled =>
    /\ p.epoch = r.epoch /\ p.epoch # 0
    /\ p.stage # "task" => r.lane = r.epoch
    /\ p.stage = "review" => p.lane = r.lane

PassesOk == \A o \in Object : PassOk(pass[o], runtime)

\* The scheduler has a pass in flight exactly where the runtime has one.
InFlight == \A o \in Object : states[o].passing # None <=> pass[o].stage # "none"

Apart(passes) ==
  \A o, p \in Object : o # p /\ passes[o].stage = "review" /\ passes[p].stage = "review" =>
    passes[o].lane # passes[p].lane

\* A saved report of this epoch was written in the session's lane.
SavedOk(x, r) ==
  x.state = "saved" => /\ x.epoch # 0 /\ x.epoch <= r.made
                       /\ x.epoch = r.epoch => r.lane = r.epoch

ReportsOk == \A o \in Object : SavedOk(report[o], runtime)

\* The invariant of the runtime.
RuntimeInv ==
  /\ IInv
  /\ RuntimeTypeOK
  /\ ContextOk(contexts, stopped) /\ PausedOk
  /\ LaneOk(runtime, Holds, current)
  /\ PassesOk /\ InFlight /\ Apart(pass)
  /\ ReportsOk

LEMMA Types ==
  RuntimeTypeOK <=> /\ stopped \in BOOLEAN
                    /\ contexts \in Context
                    /\ runtime \in RuntimeState
                    /\ pass \in [Object -> Pass]
                    /\ resumes \in [Call -> Resume]
                    /\ report \in [Object -> Report]
BY DEF RuntimeTypeOK, Context, RuntimeState, Pass, Resume, Report

\* Where neither the row nor the memory changes, neither does what they say.
LEMMA TaskStays ==
  ASSUME UNCHANGED <<stopped, contexts>>
  PROVE  /\ Holds' = Holds /\ Goes' = Goes
         /\ stopped \in BOOLEAN /\ contexts \in Context => stopped' \in BOOLEAN /\ contexts' \in Context
         /\ ContextOk(contexts, stopped) => ContextOk(contexts', stopped')
         /\ PausedOk /\ runtime'.paused = runtime.paused => PausedOk'
BY DEF Holds, Ending, Goes, PausedOk

-----------------------------------------------------------------------------
\* What the scheduler's steps start.

LEMMA TriggerStarts ==
  ASSUME IInv, NEW reason \in PassReason, Trigger(reason)
  PROVE  /\ current' # 0
         /\ \A o \in Object : states[o].passing # None => states'[o].passing # None
         /\ UNCHANGED options
<1>1. State /\ current' \in Object /\ current' # 0 /\ UNCHANGED options
  BY StateIsOrderly DEF Trigger, Object
<1>2. PICK x : x = states[current']
  OBVIOUS
<1>3. PICK y : y = [x EXCEPT !.owed = TRUE]
  OBVIOUS
<1>4. states' = [states EXCEPT ![current'] = IF x.suppress > 0 THEN x ELSE Triggered(y, reason)]
  BY <1>1, <1>2, <1>3 DEF Trigger, IInv
<1>5. x \in SchedulerState /\ y \in SchedulerState /\ y.passing = x.passing
  BY <1>1, <1>2, <1>3 DEF IInv, SchedulerState
<1>6. x.passing # None => Triggered(y, reason).passing = x.passing
  BY <1>5 DEF Triggered, MarkedDirty, SchedulerState
<1>7. QED
  BY <1>1, <1>2, <1>4, <1>6 DEF IInv

LEMMA FireStarts ==
  ASSUME IInv, NEW o \in Object, Fire(o)
  PROVE  /\ current' # 0 /\ current' = current
         /\ \A p \in Object : states[p].passing # None => states'[p].passing = states[p].passing
         /\ UNCHANGED options
<1>1. o = current
  BY DEF IInv, Left, Fire
<1>2. current' = current /\ UNCHANGED options /\ current # 0
  BY <1>1 DEF Fire, State, Object
<1>3. states[o].timer # None
  BY DEF Fire
<1>4. states[o].passing = None
  BY <1>1, <1>2, <1>3 DEF IInv, Orderly, Sound
<1>5. \A p \in Object : p # o => states'[p] = states[p]
  BY <1>1, <1>2 DEF Fire, IInv
<1>6. QED
  BY <1>2, <1>4, <1>5

LEMMA EndStarts ==
  ASSUME IInv, NEW o \in Object, NEW worked \in BOOLEAN, PassEnds(o, worked)
  PROVE  /\ current' = current /\ UNCHANGED options
         /\ \A p \in Object : p # o => states'[p] = states[p]
         /\ o # current => states'[o].passing = None
<1> DEFINE ended == [states[o] EXCEPT !.passing = None,
                                      !.cooldown = IF worked THEN options.cooldown_ms ELSE @]
<1>1. current' = current /\ UNCHANGED options
      /\ states' = [states EXCEPT ![o] = IF o = current THEN FollowedUp(ended) ELSE ended]
  BY DEF PassEnds
<1>2. states \in [Object -> SchedulerState]
  BY DEF IInv
<1>3. ended.passing = None
  BY <1>2 DEF SchedulerState
<1>4. QED
  BY <1>1, <1>2, <1>3

\* forget() leaves no object in the map.
LEMMA Forgets ==
  ASSUME IInv, ForgetRequests
  PROVE  /\ IInv' /\ current' = 0 /\ UNCHANGED options
         /\ \A o \in Object : states'[o].passing = states[o].passing
<1>1. CASE current = 0
  <2>1. UNCHANGED vars
    BY <1>1 DEF ForgetRequests
  <2>2. QED
    BY <1>1, <2>1, NextIInv DEF vars
<1>2. CASE current # 0
  <2>1. Forget
    BY <1>2 DEF ForgetRequests
  <2>2. IInv'
    BY <2>1, ForgetKeeps
  <2>3. states \in [Object -> SchedulerState] /\ current \in Object
    BY <1>2 DEF IInv, Object
  <2>4. PICK f : f = [states EXCEPT ![current].dirty = FALSE]
    OBVIOUS
  <2>5. states' = [f EXCEPT ![current].timer = None]
    BY <2>1, <2>4 DEF Forget
  <2>6. ASSUME NEW o \in Object
        PROVE  states'[o].passing = states[o].passing
    <3>1. f[o] = IF o = current THEN [states[o] EXCEPT !.dirty = FALSE] ELSE states[o]
      BY <2>3, <2>4
    <3>2. states'[o] = IF o = current THEN [f[o] EXCEPT !.timer = None] ELSE f[o]
      BY <2>3, <2>4, <2>5
    <3>3. states[o] \in SchedulerState
      BY <2>3
    <3>4. QED
      BY <3>1, <3>2, <3>3 DEF SchedulerState
  <2>7. QED
    BY <2>1, <2>2, <2>6 DEF Forget
<1>3. QED
  BY <1>1, <1>2

-----------------------------------------------------------------------------
\* What the parts of the runtime's steps keep.

\* The passes that a step of the scheduler starts: in the session's epoch.
LEMMA LaunchedKeeps ==
  ASSUME NEW before \in [Object -> Pass], Launched(before), runtime' \in RuntimeState,
         \A o \in Object : PassOk(before[o], runtime'),
         Apart(before),
         \A o \in Object : before[o].stage # "none" => states'[o].passing # None,
         \A o \in Object : states'[o].passing # None /\ before[o].stage = "none" => runtime'.epoch # 0,
         runtime'.watched => runtime'.lane = runtime'.epoch
  PROVE  pass' \in [Object -> Pass] /\ PassesOk' /\ InFlight' /\ Apart(pass')
<1> DEFINE first == Launch(runtime')
<1>1. /\ first \in Pass /\ first.stage \in {"over", "recover", "task"}
      /\ runtime'.epoch # 0 => PassOk(first, runtime')
  <2>1. NoPass \in Pass /\ runtime'.epoch \in Epoch
    BY DEF NoPass, Pass, RuntimeState, Epoch
  <2>2. CASE runtime'.disposed \/ runtime'.paused
    <3>1. first = [NoPass EXCEPT !.stage = "over"]
      BY <2>2 DEF Launch
    <3>2. QED
      BY <2>1, <3>1 DEF Pass, PassOk, Awaiting
  <2>3. CASE ~(runtime'.disposed \/ runtime'.paused)
    <3> DEFINE stage == IF runtime'.watched THEN "recover" ELSE "task"
    <3>1. first = [[NoPass EXCEPT !.stage = stage] EXCEPT !.epoch = runtime'.epoch]
      BY <2>1, <2>3 DEF Launch, Pass
    <3>2. stage \in {"recover", "task"} /\ (stage = "recover" => runtime'.watched)
      OBVIOUS
    <3> HIDE DEF stage
    <3>3. first \in Pass /\ first.stage = stage /\ first.epoch = runtime'.epoch
      BY <2>1, <3>1, <3>2 DEF Pass, Awaiting
    <3>4. QED
      BY <3>2, <3>3 DEF PassOk
  <2>4. QED
    BY <2>2, <2>3
<1>2. pass' = [o \in Object |-> IF states'[o].passing # None /\ before[o].stage = "none"
                                THEN first ELSE before[o]]
  BY DEF Launched
<1> HIDE DEF first
<1>3. pass' \in [Object -> Pass]
  BY <1>1, <1>2
<1>4. PassesOk'
  BY <1>1, <1>2 DEF PassesOk
<1>5. InFlight'
  BY <1>1, <1>2 DEF InFlight
<1>6. Apart(pass')
  BY <1>1, <1>2 DEF Apart
<1>7. QED
  BY <1>3, <1>4, <1>5, <1>6

\* A session that has no epoch gets the next one.
LEMMA ScopedIsNew ==
  ASSUME NEW r \in RuntimeState, r.epoch # 0 \/ r.made < MaxEpochs,
         LaneOk(r, FALSE, 0)
  PROVE  /\ Scoped(r) \in RuntimeState
         /\ Scoped(r).epoch # 0
         /\ Scoped(r).paused = r.paused /\ Scoped(r).disposed = r.disposed
         /\ Scoped(r).watched = r.watched /\ Scoped(r).lane = r.lane
         /\ r.epoch # 0 => Scoped(r) = r
         /\ r.epoch = 0 => Scoped(r).epoch = r.made + 1 /\ Scoped(r).made = r.made + 1
         /\ \A p \in Pass : PassOk(p, r) => PassOk(p, Scoped(r))
         /\ \A x \in Report : SavedOk(x, r) => SavedOk(x, Scoped(r))
<1>1. CASE r.epoch # 0
  BY <1>1 DEF Scoped
<1>2. CASE r.epoch = 0
  <2> DEFINE s == Scoped(r)
  <2>1. s = [[r EXCEPT !.epoch = r.made + 1] EXCEPT !.made = r.made + 1]
    BY <1>2 DEF Scoped, RuntimeState
  <2>2. r.made \in 0..MaxEpochs /\ r.made + 1 \in 0..MaxEpochs
    BY <1>2 DEF RuntimeState, Epoch
  <2>3. /\ s \in RuntimeState /\ s.epoch = r.made + 1 /\ s.made = r.made + 1
        /\ s.paused = r.paused /\ s.disposed = r.disposed
        /\ s.watched = r.watched /\ s.lane = r.lane
    BY <2>1, <2>2 DEF RuntimeState, Epoch
  <2>4. ~r.watched
    BY <1>2 DEF LaneOk
  <2> HIDE DEF s
  <2>5. \A p \in Pass : PassOk(p, r) => PassOk(p, s)
    BY <1>2 DEF PassOk
  <2>6. \A x \in Report : SavedOk(x, r) => SavedOk(x, s)
    BY <2>2, <2>3 DEF SavedOk, Report, Epoch
  <2>7. QED
    BY <1>2, <2>2, <2>3, <2>5, <2>6 DEF s
<1>3. QED
  BY <1>1, <1>2

\* What was cancelled claims nothing.
LEMMA CancelledIsNot ==
  ASSUME pass \in [Object -> Pass], PassesOk, InFlight, Apart(pass),
         pass' = [o \in Object |-> Cancelled(pass[o])], NEW r,
         \A o \in Object : states'[o].passing = states[o].passing
  PROVE  /\ pass' \in [Object -> Pass]
         /\ \A o \in Object : PassOk(pass'[o], r)
         /\ InFlight' /\ Apart(pass')
<1>1. ASSUME NEW o \in Object
      PROVE  /\ pass'[o] \in Pass
             /\ pass'[o].stage = pass[o].stage /\ pass'[o].lane = pass[o].lane
             /\ pass'[o].stage \in Awaiting => pass'[o].cancelled
  BY DEF Cancelled, Pass
<1>2. pass' \in [Object -> Pass]
  BY <1>1
<1>3. \A o \in Object : PassOk(pass'[o], r)
  BY <1>1 DEF PassOk
<1>4. InFlight'
  BY <1>1 DEF InFlight
<1>5. Apart(pass')
  BY <1>1 DEF Apart
<1>6. QED
  BY <1>2, <1>3, <1>4, <1>5

\* One pass goes on, and the scheduler does nothing.
LEMMA PassMoves ==
  ASSUME RuntimeInv, NEW o \in Object, NEW p \in Pass, UNCHANGED <<vars, stopped, contexts, resumes, report>>,
         pass[o].stage # "none", p.stage # "none",
         pass' = [pass EXCEPT ![o] = p],
         runtime' \in RuntimeState, runtime'.paused = runtime.paused,
         runtime'.made = runtime.made, runtime'.epoch = runtime.epoch,
         LaneOk(runtime', Holds, current),
         \/ runtime'.lane = runtime.lane
         \/ runtime'.lane = runtime.epoch /\ runtime.lane = 0,
         PassOk(p, runtime'),
         p.stage = "review" => \A q \in Object : q # o /\ pass[q].stage = "review" => pass[q].lane # p.lane
  PROVE  RuntimeInv'
<1>1. /\ pass \in [Object -> Pass] /\ report \in [Object -> Report] /\ IInv
      /\ runtime \in RuntimeState
  BY Types DEF RuntimeInv
<1>2. IInv' /\ UNCHANGED <<states, current>>
  BY <1>1, NextIInv DEF vars
<1>3. RuntimeTypeOK'
  BY <1>1, <1>2, Types DEF RuntimeInv, RuntimeTypeOK, RuntimeState, Pass
<1>4. ContextOk(contexts', stopped') /\ PausedOk'
  BY TaskStays DEF RuntimeInv
<1>5. LaneOk(runtime', Holds', current')
  BY <1>2, TaskStays
<1>6. PassesOk'
  <2>1. \A q \in Pass : PassOk(q, runtime) => PassOk(q, runtime')
    BY <1>1 DEF PassOk, RuntimeState, Epoch, Awaiting, RuntimeInv, LaneOk
  <2>2. QED
    BY <1>1, <2>1 DEF RuntimeInv, PassesOk
<1>7. InFlight'
  BY <1>1, <1>2 DEF RuntimeInv, InFlight
<1>8. Apart(pass')
  BY <1>1 DEF RuntimeInv, Apart
<1>9. ReportsOk'
  BY <1>1 DEF RuntimeInv, ReportsOk, SavedOk, Report, RuntimeState, Epoch
<1>10. QED
  BY <1>2, <1>3, <1>4, <1>5, <1>6, <1>7, <1>8, <1>9 DEF RuntimeInv

\* What is left of a session that is let go.
Bare(off, n) == [NoRuntime EXCEPT !.disposed = off, !.made = n]

LEMMA Blank ==
  ASSUME NEW off \in BOOLEAN, NEW n \in Epoch
  PROVE  /\ Bare(off, n) \in RuntimeState
         /\ Bare(off, n).disposed = off /\ Bare(off, n).made = n
         /\ Bare(off, n).epoch = 0 /\ Bare(off, n).lane = 0
         /\ ~Bare(off, n).watched /\ ~Bare(off, n).paused
<1>1. 0 \in Epoch
  BY DEF Epoch
<1>2. QED
  BY <1>1 DEF Bare, NoRuntime, RuntimeState

\* The runtime lets go of the session: forget(), dispose().
LEMMA LetsGo ==
  ASSUME RuntimeInv, NEW off \in BOOLEAN, stopped' \in BOOLEAN,
         contexts' \in Context, ContextOk(contexts', stopped'),
         runtime' = Bare(off, runtime.made),
         pass' = [o \in Object |-> Cancelled(pass[o])],
         ForgetRequests, UNCHANGED resumes,
         report' \in [Object -> Report],
         \A o \in Object : report'[o].state = "saved" => report'[o] = report[o]
  PROVE  RuntimeInv'
<1>1. /\ pass \in [Object -> Pass] /\ report \in [Object -> Report] /\ IInv
      /\ runtime \in RuntimeState
  BY Types DEF RuntimeInv
<1>2. /\ runtime' \in RuntimeState
      /\ runtime'.epoch = 0 /\ runtime'.lane = 0 /\ ~runtime'.watched /\ ~runtime'.paused
      /\ runtime'.made = runtime.made
  <2>1. runtime.made \in Epoch
    BY <1>1 DEF RuntimeState
  <2>2. QED
    BY <2>1, Blank
<1>3. IInv' /\ current' = 0 /\ \A o \in Object : states'[o].passing = states[o].passing
  BY <1>1, Forgets
<1>4. /\ pass' \in [Object -> Pass]
      /\ \A o \in Object : PassOk(pass'[o], runtime')
      /\ InFlight' /\ Apart(pass')
  BY <1>1, <1>3, CancelledIsNot DEF RuntimeInv
<1>5. RuntimeTypeOK'
  BY <1>2, <1>4 DEF RuntimeInv, RuntimeTypeOK, Context, RuntimeState, Pass, Report
<1>6. PausedOk' /\ LaneOk(runtime', Holds', current')
  <2>1. runtime'.made \in Nat
    BY <1>1, <1>2 DEF RuntimeState, Epoch
  <2>2. LaneOk(runtime', Holds', current')
    BY <1>2, <1>3, <2>1 DEF LaneOk
  <2>3. QED
    BY <1>2, <2>2 DEF PausedOk
<1>7. PassesOk'
  BY <1>4 DEF PassesOk
<1>8. ReportsOk'
  <2>1. ASSUME NEW o \in Object
        PROVE  SavedOk(report'[o], runtime')
    BY <1>1, <1>2 DEF RuntimeInv, ReportsOk, SavedOk, Report
  <2>2. QED
    BY <2>1 DEF ReportsOk
<1>9. QED
  BY <1>3, <1>4, <1>5, <1>6, <1>7, <1>8 DEF RuntimeInv

-----------------------------------------------------------------------------
\* What the runtime's steps keep.

LEMMA InvTypes ==
  ASSUME RuntimeInv
  PROVE  /\ IInv /\ stopped \in BOOLEAN /\ runtime \in RuntimeState
         /\ contexts \in Context /\ ContextOk(contexts, stopped)
         /\ pass \in [Object -> Pass]
         /\ resumes \in [Call -> Resume] /\ report \in [Object -> Report]
         /\ runtime.epoch \in Nat /\ runtime.made \in Nat
         /\ LaneOk(runtime, Holds, current)
         /\ LaneOk(runtime, FALSE, 0)
<1>1. /\ IInv /\ stopped \in BOOLEAN /\ runtime \in RuntimeState
      /\ contexts \in Context /\ ContextOk(contexts, stopped)
      /\ pass \in [Object -> Pass]
      /\ resumes \in [Call -> Resume] /\ report \in [Object -> Report]
      /\ LaneOk(runtime, Holds, current)
  BY Types DEF RuntimeInv
<1>2. runtime.epoch \in Nat /\ runtime.made \in Nat
  BY <1>1 DEF RuntimeState, Epoch
<1>3. LaneOk(runtime, FALSE, 0)
  BY <1>1 DEF LaneOk
<1>4. QED
  BY <1>1, <1>2, <1>3

\* A step of the scheduler that may start a pass of the session as it is or
\* as it is from now on.
LEMMA SchedulesKeeps ==
  ASSUME RuntimeInv, NEW before \in [Object -> Pass], Launched(before),
         IInv', runtime' \in {runtime, Scoped(runtime)},
         runtime' = runtime \/ (MayScope /\ ~runtime.disposed),
         UNCHANGED <<stopped, contexts, report>>, resumes' \in [Call -> Resume],
         \A o \in Object : PassOk(before[o], runtime), Apart(before),
         \A o \in Object : before[o].stage # "none" => states'[o].passing # None,
         current' # 0 => runtime'.epoch # 0,
         \A o \in Object : states'[o].passing # None /\ before[o].stage = "none" => runtime'.epoch # 0
  PROVE  RuntimeInv'
<1>1. /\ runtime \in RuntimeState /\ LaneOk(runtime, Holds, current) /\ LaneOk(runtime, FALSE, 0)
      /\ report \in [Object -> Report]
      /\ runtime.epoch \in Nat /\ runtime.made \in Nat
  BY InvTypes
<1>2. /\ runtime' \in RuntimeState /\ LaneOk(runtime', Holds', current')
      /\ runtime'.paused = runtime.paused
      /\ \A p \in Pass : PassOk(p, runtime) => PassOk(p, runtime')
      /\ \A x \in Report : SavedOk(x, runtime) => SavedOk(x, runtime')
  <2>0. Holds' = Holds
    BY TaskStays
  <2>1. CASE runtime' = runtime
    BY <1>1, <2>0, <2>1 DEF LaneOk
  <2>2. CASE runtime' = Scoped(runtime) /\ MayScope /\ ~runtime.disposed /\ runtime' # runtime
    <3>1. runtime.epoch # 0 \/ runtime.made < MaxEpochs
      BY <2>2 DEF MayScope
    <3>2. /\ runtime' \in RuntimeState
          /\ runtime'.paused = runtime.paused /\ runtime'.disposed = runtime.disposed
          /\ runtime'.watched = runtime.watched /\ runtime'.lane = runtime.lane
          /\ runtime.epoch # 0 => runtime' = runtime
          /\ runtime.epoch = 0 => runtime'.epoch = runtime.made + 1 /\ runtime'.made = runtime.made + 1
          /\ \A p \in Pass : PassOk(p, runtime) => PassOk(p, runtime')
          /\ \A x \in Report : SavedOk(x, runtime) => SavedOk(x, runtime')
      BY <1>1, <2>2, <3>1, ScopedIsNew
    <3>3. runtime.epoch = 0
      BY <2>2, <3>2
    <3>4. QED
      BY <1>1, <2>0, <2>2, <3>2, <3>3 DEF LaneOk
  <2>3. QED
    BY <2>1, <2>2
<1>3. /\ pass' \in [Object -> Pass] /\ PassesOk' /\ InFlight' /\ Apart(pass')
  <2>1. \A o \in Object : PassOk(before[o], runtime')
    BY <1>2
  <2>2. runtime'.watched => runtime'.lane = runtime'.epoch
    BY <1>2 DEF LaneOk
  <2>3. QED
    BY <1>2, <2>1, <2>2, LaunchedKeeps
<1>4. RuntimeTypeOK'
  BY <1>2, <1>3 DEF RuntimeInv, RuntimeTypeOK, RuntimeState, Pass, Report, Resume
<1>5. ContextOk(contexts', stopped') /\ PausedOk'
  BY <1>2, TaskStays DEF RuntimeInv
<1>6. ReportsOk'
  BY <1>1, <1>2 DEF RuntimeInv, ReportsOk
<1>7. QED
  BY <1>2, <1>3, <1>4, <1>5, <1>6 DEF RuntimeInv

\* trigger() of a session that has an epoch.
LEMMA TriggerStep ==
  ASSUME RuntimeInv, NEW reason \in PassReason,
         \/ runtime.paused /\ UNCHANGED vars
         \/ ~runtime.paused /\ Trigger(reason),
         MayScope, ~runtime.disposed, runtime' = Scoped(runtime),
         Launched(pass), UNCHANGED <<stopped, contexts, report>>, resumes' \in [Call -> Resume]
  PROVE  RuntimeInv'
<1>1. /\ IInv /\ runtime \in RuntimeState /\ pass \in [Object -> Pass] /\ LaneOk(runtime, FALSE, 0)
      /\ PassesOk /\ InFlight /\ Apart(pass)
  BY InvTypes DEF RuntimeInv
<1>2. runtime'.epoch # 0
  BY <1>1, ScopedIsNew DEF MayScope
<1>3. /\ IInv' /\ \A o \in Object : states[o].passing # None => states'[o].passing # None
  <2>1. CASE UNCHANGED vars
    BY <1>1, <2>1, NextIInv DEF vars
  <2>2. CASE Trigger(reason)
    BY <1>1, <2>2, TriggerKeeps, TriggerStarts
  <2>3. QED
    BY <2>1, <2>2
<1>4. \A o \in Object : pass[o].stage # "none" => states'[o].passing # None
  BY <1>1, <1>3 DEF InFlight
<1>5. QED
  BY <1>1, <1>2, <1>3, <1>4, SchedulesKeeps DEF PassesOk

LEMMA NotifyStep ==
  ASSUME RuntimeInv, NEW reason \in PassReason, Notify(reason)
  PROVE  RuntimeInv'
<1>1. CASE UNCHANGED <<vars, runtimeVars>>
  <2>1. IInv'
    BY <1>1, NextIInv DEF RuntimeInv
  <2>2. QED
    BY <1>1, <2>1, TaskStays DEF vars, runtimeVars, RuntimeInv, RuntimeTypeOK, PassesOk,
                                 InFlight, ReportsOk
<1>2. CASE ~UNCHANGED <<vars, runtimeVars>>
  <2>1. /\ \/ runtime.paused /\ UNCHANGED vars
           \/ ~runtime.paused /\ Trigger(reason)
        /\ MayScope /\ ~runtime.disposed /\ runtime' = Scoped(runtime)
        /\ Launched(pass) /\ UNCHANGED <<stopped, contexts, report>> /\ resumes' = resumes
    BY <1>2 DEF Notify
  <2>2. resumes' \in [Call -> Resume]
    BY <2>1, InvTypes
  <2>3. QED
    BY <2>1, <2>2, TriggerStep
<1>3. QED
  BY <1>1, <1>2

LEMMA TimerStep ==
  ASSUME RuntimeInv, NEW o \in Object, TimerFires(o)
  PROVE  RuntimeInv'
<1>1. /\ IInv /\ runtime \in RuntimeState /\ pass \in [Object -> Pass]
      /\ PassesOk /\ InFlight /\ Apart(pass) /\ resumes \in [Call -> Resume]
      /\ LaneOk(runtime, Holds, current)
  BY InvTypes DEF RuntimeInv
<1>2. Fire(o) /\ runtime' = runtime /\ Launched(pass) /\ UNCHANGED <<stopped, contexts, resumes, report>>
  BY DEF TimerFires
<1>3. /\ IInv' /\ current' # 0 /\ current' = current
      /\ \A p \in Object : states[p].passing # None => states'[p].passing # None
  BY <1>1, <1>2, FireKeeps, FireStarts
<1>4. runtime'.epoch # 0
  BY <1>1, <1>2, <1>3 DEF LaneOk
<1>5. \A p \in Object : pass[p].stage # "none" => states'[p].passing # None
  BY <1>1, <1>3 DEF InFlight
<1>6. QED
  BY <1>1, <1>2, <1>3, <1>4, <1>5, SchedulesKeeps DEF PassesOk

LEMMA SettlesStep ==
  ASSUME RuntimeInv, NEW o \in Object, Settles(o)
  PROVE  RuntimeInv'
<1> DEFINE before == [pass EXCEPT ![o] = NoPass]
<1>1. /\ IInv /\ runtime \in RuntimeState /\ pass \in [Object -> Pass]
      /\ PassesOk /\ InFlight /\ Apart(pass) /\ resumes \in [Call -> Resume]
      /\ LaneOk(runtime, Holds, current)
  BY InvTypes DEF RuntimeInv
<1>2. /\ PassEnds(o, pass[o].worked) /\ runtime' = runtime /\ Launched(before)
      /\ UNCHANGED <<stopped, contexts, resumes, report>>
  BY DEF Settles
<1>3. pass[o].worked \in BOOLEAN
  BY <1>1 DEF Pass
<1>4. /\ IInv' /\ current' = current
      /\ \A p \in Object : p # o => states'[p] = states[p]
      /\ o # current => states'[o].passing = None
  BY <1>1, <1>2, <1>3, PassEndsKeeps, EndStarts
<1>5. /\ NoPass \in Pass /\ PassOk(NoPass, runtime) /\ NoPass.stage = "none"
  BY DEF NoPass, Pass, PassOk, Epoch, Awaiting
<1>6. /\ before \in [Object -> Pass] /\ before[o] = NoPass
      /\ \A p \in Object : p # o => before[p] = pass[p]
  BY <1>1, <1>5
<1> HIDE DEF before
<1>7. \A p \in Object : PassOk(before[p], runtime)
  BY <1>1, <1>5, <1>6 DEF PassesOk
<1>8. Apart(before)
  BY <1>1, <1>5, <1>6 DEF Apart
<1>9. \A p \in Object : before[p].stage # "none" => states'[p].passing # None
  BY <1>1, <1>4, <1>5, <1>6 DEF InFlight
<1>10. \A p \in Object : states'[p].passing # None /\ before[p].stage = "none" => runtime'.epoch # 0
  <2>1. ASSUME NEW p \in Object, states'[p].passing # None, before[p].stage = "none"
        PROVE  current # 0
    <3>1. p = o
      BY <1>1, <1>4, <1>6, <2>1 DEF InFlight
    <3>2. o = current
      BY <1>4, <2>1, <3>1
    <3>3. QED
      BY <3>2 DEF Object
  <2>2. QED
    BY <1>1, <1>2, <2>1 DEF LaneOk
<1>11. current' # 0 => runtime'.epoch # 0
  BY <1>1, <1>2, <1>4 DEF LaneOk
<1>12. QED
  BY <1>1, <1>2, <1>4, <1>6, <1>7, <1>8, <1>9, <1>10, <1>11, SchedulesKeeps

LEMMA OverIsOk ==
  ASSUME NEW worked \in BOOLEAN, NEW r
  PROVE  Over(worked) \in Pass /\ Over(worked).stage = "over" /\ PassOk(Over(worked), r)
<1>1. 0 \in Epoch
  BY DEF Epoch
<1>2. NoPass \in Pass
  BY <1>1 DEF NoPass, Pass
<1>3. Over(worked) \in Pass /\ Over(worked).stage = "over"
  <2>1. Over(worked) = [[NoPass EXCEPT !.stage = "over"] EXCEPT !.worked = worked]
    BY <1>2 DEF Over, Pass
  <2>2. QED
    BY <1>2, <2>1 DEF Pass
<1>4. PassOk(Over(worked), r)
  BY <1>3 DEF PassOk, Awaiting
<1>5. QED
  BY <1>3, <1>4

\* pause(), by a checkpoint that stops the task or by a pass that finds it
\* stopped and is over.
LEMMA PausedStep ==
  ASSUME RuntimeInv, Paused, UNCHANGED <<resumes, report>>,
         stopped' \in BOOLEAN, contexts' \in Context, ContextOk(contexts', stopped'),
         stopped' \/ ~contexts'.told,
         \/ UNCHANGED pass
         \/ \E o \in Object : pass[o].stage # "none" /\ pass' = [pass EXCEPT ![o] = Over(FALSE)]
  PROVE  RuntimeInv'
<1>1. /\ IInv /\ runtime \in RuntimeState /\ pass \in [Object -> Pass]
      /\ PassesOk /\ InFlight /\ Apart(pass) /\ ReportsOk
      /\ LaneOk(runtime, Holds, current)
  BY InvTypes DEF RuntimeInv
<1>2. /\ runtime' \in RuntimeState
      /\ runtime'.epoch = runtime.epoch /\ runtime'.made = runtime.made
      /\ runtime'.lane = runtime.lane /\ runtime'.watched = runtime.watched
      /\ runtime'.disposed = runtime.disposed
      /\ runtime'.paused \/ (runtime.disposed /\ runtime' = runtime)
  BY <1>1 DEF Paused, RuntimeState
<1>3. /\ IInv' /\ current' \in {current, 0}
      /\ \A o \in Object : states'[o].passing = states[o].passing
  <2>1. CASE ForgetRequests
    BY <1>1, <2>1, Forgets
  <2>2. CASE UNCHANGED vars
    BY <1>1, <2>2, NextIInv DEF vars
  <2>3. QED
    BY <2>1, <2>2 DEF Paused
<1>4. LaneOk(runtime', Holds', current')
  BY <1>1, <1>2, <1>3 DEF LaneOk, RuntimeState, Epoch
<1>5. Over(FALSE) \in Pass /\ Over(FALSE).stage = "over" /\ PassOk(Over(FALSE), runtime')
  BY OverIsOk
<1>6. /\ pass' \in [Object -> Pass]
      /\ \A o \in Object : \/ pass'[o] = pass[o]
                           \/ pass'[o] = Over(FALSE) /\ pass[o].stage # "none"
  BY <1>1, <1>5
<1>7. PassesOk'
  <2>1. \A p \in Pass : PassOk(p, runtime) => PassOk(p, runtime')
    BY <1>2 DEF PassOk
  <2>2. QED
    BY <1>1, <1>5, <1>6, <2>1 DEF PassesOk
<1>8. InFlight' /\ Apart(pass')
  <2>1. \A o \in Object : /\ pass'[o].stage # "none" <=> pass[o].stage # "none"
                          /\ pass'[o].stage = "review" => pass'[o] = pass[o]
    BY <1>5, <1>6
  <2>2. InFlight'
    BY <1>1, <1>3, <2>1 DEF InFlight
  <2>3. Apart(pass')
    BY <1>1, <2>1 DEF Apart
  <2>4. QED
    BY <2>2, <2>3
<1>9. ReportsOk'
  BY <1>1, <1>2 DEF ReportsOk, SavedOk
<1>10. RuntimeTypeOK' /\ PausedOk'
  BY <1>2, <1>6 DEF RuntimeInv, RuntimeTypeOK, Context, RuntimeState, Pass, PausedOk, Goes
<1>11. QED
  BY <1>3, <1>4, <1>7, <1>8, <1>9, <1>10 DEF RuntimeInv

LEMMA ReplaceStep ==
  ASSUME RuntimeInv, Replaced,
         stopped' \in BOOLEAN, contexts' \in Context, ContextOk(contexts', stopped')
  PROVE  RuntimeInv'
<1>1. /\ runtime.disposed \in BOOLEAN /\ report \in [Object -> Report]
  BY InvTypes DEF RuntimeState
<1>2. /\ UNCHANGED resumes /\ ForgetRequests
      /\ runtime' = Bare(runtime.disposed, runtime.made)
      /\ pass' = [o \in Object |-> Cancelled(pass[o])]
      /\ report' = [o \in Object |-> IF report[o].state \in {"dropped", "missed"}
                                     THEN [report[o] EXCEPT !.state = "past"] ELSE report[o]]
  BY DEF Replaced, Forgotten, Bare
<1>3. /\ report' \in [Object -> Report]
      /\ \A o \in Object : report'[o].state = "saved" => report'[o] = report[o]
  <2>1. ASSUME NEW o \in Object
        PROVE  report'[o] \in Report /\ (report'[o].state = "saved" => report'[o] = report[o])
    BY <1>1, <1>2 DEF Report
  <2>2. QED
    BY <1>2, <2>1
<1>4. QED
  BY <1>1, <1>2, <1>3, LetsGo

\* What the runtime leaves of the reports of a session that it lets go of.
LEMMA LeftBehindIsTyped ==
  ASSUME report \in [Object -> Report]
  PROVE  /\ LeftBehind \in [Object -> Report]
         /\ \A o \in Object :
              /\ LeftBehind[o].state \in {report[o].state, "missed"}
              /\ LeftBehind[o].state # "missed" => LeftBehind[o] = report[o]
              /\ ~stopped => LeftBehind[o].state # "dropped"
<1>1. ASSUME NEW o \in Object
      PROVE  /\ LeftBehind[o] \in Report
             /\ LeftBehind[o].state \in {report[o].state, "missed"}
             /\ LeftBehind[o].state # "missed" => LeftBehind[o] = report[o]
             /\ ~stopped => LeftBehind[o].state # "dropped"
  BY DEF LeftBehind, Missed, Report
<1>2. LeftBehind = [o \in Object |-> LeftBehind[o]]
  BY DEF LeftBehind, Missed
<1>3. QED
  BY <1>1, <1>2

\* TaskContexts.forget() leaves nothing in memory that could disagree.
LEMMA ReleasedIsOk ==
  ASSUME contexts \in Context, ContextOk(contexts, stopped)
  PROVE  /\ Released \in Context /\ ContextOk(Released, stopped)
         /\ Released.told /\ ~Released.active
<1>1. PICK x : x = [contexts EXCEPT !.state = None, !.saved = None]
  OBVIOUS
<1>2. /\ x \in Context /\ x.state = None /\ x.saved = None
      /\ x.writing = contexts.writing /\ x.value = contexts.value /\ x.ok = contexts.ok
  BY <1>1 DEF Context
<1>3. Released = [x EXCEPT !.active = FALSE, !.told = TRUE]
  BY <1>1 DEF Released, Context
<1>4. /\ Released \in Context /\ Released.state = None /\ Released.saved = None
      /\ Released.writing = contexts.writing /\ Released.value = contexts.value
      /\ Released.ok = contexts.ok /\ Released.told /\ ~Released.active
  BY <1>2, <1>3 DEF Context
<1>5. QED
  BY <1>4 DEF ContextOk

LEMMA ForgottenStep ==
  ASSUME RuntimeInv, Forgotten \/ Dispose, UNCHANGED stopped,
         contexts' = Released, report' = LeftBehind
  PROVE  RuntimeInv'
<1>1. /\ runtime.disposed \in BOOLEAN /\ report \in [Object -> Report] /\ stopped \in BOOLEAN
      /\ contexts \in Context /\ ContextOk(contexts, stopped)
  BY InvTypes DEF RuntimeState
<1>2. contexts' \in Context /\ ContextOk(contexts', stopped')
  BY <1>1, ReleasedIsOk
<1>3. /\ report' \in [Object -> Report]
      /\ \A o \in Object : report'[o].state = "saved" => report'[o] = report[o]
  BY <1>1, LeftBehindIsTyped
<1>4. PICK off \in BOOLEAN : runtime' = Bare(off, runtime.made)
  BY <1>1 DEF Forgotten, Dispose, Bare
<1>5. QED
  BY <1>1, <1>2, <1>3, <1>4, LetsGo DEF Forgotten, Dispose

LEMMA ResumedStep ==
  ASSUME RuntimeInv, NEW c \in Call, Resumed(c), ~runtime.disposed,
         stopped' \in BOOLEAN, contexts' \in Context, ContextOk(contexts', stopped'), ~Holds'
  PROVE  RuntimeInv'
<1> DEFINE r == [runtime EXCEPT !.paused = FALSE]
<1>1. /\ IInv /\ runtime \in RuntimeState /\ pass \in [Object -> Pass]
      /\ PassesOk /\ InFlight /\ Apart(pass) /\ ReportsOk
      /\ LaneOk(runtime, Holds, current) /\ resumes \in [Call -> Resume]
      /\ report \in [Object -> Report]
      /\ runtime.epoch \in Nat /\ runtime.made \in Nat
  BY InvTypes DEF RuntimeInv
<1>2. /\ r \in RuntimeState /\ ~r.paused
      /\ r.epoch = runtime.epoch /\ r.made = runtime.made /\ r.disposed = runtime.disposed
      /\ r.lane = runtime.lane /\ r.watched = runtime.watched
  BY <1>1 DEF RuntimeState
<1>3. /\ runtime' = Scoped(r) /\ MayScope
      /\ UNCHANGED <<vars, pass, report>>
      /\ resumes' = [resumes EXCEPT ![c] = [NoResume EXCEPT !.stage = "listing", !.epoch = runtime'.epoch]]
  BY DEF Resumed
<1> HIDE DEF r
<1>4. LaneOk(r, FALSE, 0)
  BY <1>1, <1>2 DEF LaneOk
<1>5. /\ runtime' \in RuntimeState /\ runtime'.epoch # 0
      /\ ~runtime'.paused /\ runtime'.disposed = runtime.disposed
      /\ runtime'.watched = runtime.watched /\ runtime'.lane = runtime.lane
      /\ runtime.epoch # 0 => runtime'.epoch = runtime.epoch /\ runtime'.made = runtime.made
      /\ runtime.epoch = 0 => runtime'.epoch = runtime.made + 1 /\ runtime'.made = runtime.made + 1
      /\ \A p \in Pass : PassOk(p, r) => PassOk(p, runtime')
      /\ \A x \in Report : SavedOk(x, r) => SavedOk(x, runtime')
  BY <1>2, <1>3, <1>4, ScopedIsNew DEF MayScope
<1>6. /\ \A p \in Pass : PassOk(p, runtime) => PassOk(p, r)
      /\ \A x \in Report : SavedOk(x, runtime) => SavedOk(x, r)
  BY <1>2 DEF PassOk, SavedOk
<1>7. IInv' /\ UNCHANGED <<states, current>>
  BY <1>1, <1>3, NextIInv DEF vars
<1>8. LaneOk(runtime', Holds', current')
  BY <1>1, <1>3, <1>5, <1>7 DEF LaneOk
<1>9. resumes' \in [Call -> Resume]
  <2>1. runtime'.epoch \in Epoch
    BY <1>5 DEF RuntimeState
  <2>2. [NoResume EXCEPT !.stage = "listing", !.epoch = runtime'.epoch] \in Resume
    BY <2>1 DEF NoResume, Resume
  <2>3. QED
    BY <1>1, <1>3, <2>2
<1>10. RuntimeTypeOK' /\ PausedOk'
  BY <1>1, <1>3, <1>5, <1>9 DEF RuntimeTypeOK, Context, RuntimeState, Pass, Resume, Report, PausedOk
<1>11. PassesOk' /\ ReportsOk'
  BY <1>1, <1>3, <1>5, <1>6 DEF PassesOk, ReportsOk
<1>12. InFlight' /\ Apart(pass')
  BY <1>1, <1>3, <1>7 DEF InFlight
<1>13. QED
  BY <1>7, <1>8, <1>10, <1>11, <1>12 DEF RuntimeInv

\* The steps that end a pass early.
LEMMA OverStep ==
  ASSUME RuntimeInv, NEW o \in Object, NEW worked \in BOOLEAN, pass[o].stage # "none",
         pass' = [pass EXCEPT ![o] = Over(worked)], UNCHANGED <<vars, stopped, contexts, runtime, resumes, report>>
  PROVE  RuntimeInv'
<1>1. Over(worked) \in Pass /\ Over(worked).stage = "over" /\ PassOk(Over(worked), runtime)
  BY OverIsOk
<1>2. runtime \in RuntimeState /\ LaneOk(runtime, Holds, current)
  BY InvTypes
<1>3. QED
  BY <1>1, <1>2, PassMoves

LEMMA TaskReadStep ==
  ASSUME RuntimeInv, NEW o \in Object, TaskRead(o)
  PROVE  RuntimeInv'
<1>1. pass[o].stage = "task" /\ ~pass[o].cancelled /\ UNCHANGED <<stopped, contexts, resumes, report>>
  BY DEF TaskRead, Steps
<1>2. CASE stopped /\ Paused /\ pass' = [pass EXCEPT ![o] = Over(FALSE)]
  <2>1. stopped' = TRUE /\ contexts' \in Context /\ ContextOk(contexts', stopped')
    BY <1>1, <1>2, InvTypes
  <2>2. QED
    BY <1>1, <1>2, <2>1, PausedStep
<1>3. CASE pass' = [pass EXCEPT ![o] = Over(FALSE)] /\ UNCHANGED <<vars, runtime>>
  BY <1>1, <1>3, OverStep
<1>4. CASE /\ ~stopped /\ Wanted(o) /\ UNCHANGED vars
           /\ pass' = [pass EXCEPT ![o].stage = "recover"]
           /\ runtime' = [runtime EXCEPT !.lane = runtime.epoch]
  <2>1. /\ runtime \in RuntimeState /\ pass \in [Object -> Pass] /\ PassesOk
        /\ LaneOk(runtime, Holds, current)
    BY InvTypes DEF RuntimeInv
  <2>2. /\ runtime' \in RuntimeState /\ runtime'.paused = runtime.paused
        /\ runtime'.made = runtime.made /\ runtime'.epoch = runtime.epoch
        /\ runtime'.lane = runtime.epoch /\ runtime'.watched = runtime.watched
        /\ runtime'.disposed = runtime.disposed
    BY <1>4, <2>1 DEF RuntimeState
  <2> DEFINE p == [pass[o] EXCEPT !.stage = "recover"]
  <2>3. /\ p \in Pass /\ p.stage = "recover" /\ p.cancelled = pass[o].cancelled
        /\ p.epoch = pass[o].epoch
    BY <2>1 DEF Pass, Awaiting
  <2>4. pass' = [pass EXCEPT ![o] = p]
    BY <1>4, <2>1
  <2> HIDE DEF p
  <2>5. PassOk(p, runtime')
    BY <1>1, <2>1, <2>2, <2>3 DEF PassesOk, PassOk, Awaiting
  <2>6. LaneOk(runtime', Holds, current) /\ (runtime.lane = runtime'.lane \/ runtime.lane = 0)
    BY <1>4, <2>1, <2>2 DEF LaneOk, Holds
  <2>7. QED
    BY <1>1, <1>4, <2>2, <2>3, <2>4, <2>5, <2>6, PassMoves
<1>5. QED
  BY <1>2, <1>3, <1>4 DEF TaskRead

LEMMA RecoveredStep ==
  ASSUME RuntimeInv, NEW o \in Object, Recovered(o)
  PROVE  RuntimeInv'
<1>1. pass[o].stage = "recover" /\ ~pass[o].cancelled /\ UNCHANGED <<vars, stopped, contexts, runtime, resumes, report>>
  BY DEF Recovered, Steps
<1>2. CASE pass' = [pass EXCEPT ![o] = Over(FALSE)]
  BY <1>1, <1>2, OverStep
<1>3. CASE pass' = [pass EXCEPT ![o] = [pass[o] EXCEPT !.stage = "read"]]
  <2>1. /\ runtime \in RuntimeState /\ pass \in [Object -> Pass] /\ PassesOk
        /\ LaneOk(runtime, Holds, current)
    BY InvTypes DEF RuntimeInv
  <2> DEFINE p == [pass[o] EXCEPT !.stage = "read"]
  <2>2. /\ p \in Pass /\ p.stage = "read" /\ p.cancelled = pass[o].cancelled
        /\ p.epoch = pass[o].epoch
    BY <2>1 DEF Pass, Awaiting
  <2>3. pass' = [pass EXCEPT ![o] = p]
    BY <1>3
  <2> HIDE DEF p
  <2>4. PassOk(p, runtime')
    BY <1>1, <2>1, <2>2 DEF PassesOk, PassOk, Awaiting
  <2>5. QED
    BY <1>1, <2>1, <2>2, <2>3, <2>4, PassMoves
<1>4. QED
  BY <1>2, <1>3 DEF Recovered

LEMMA HistoryReadStep ==
  ASSUME RuntimeInv, NEW o \in Object, HistoryRead(o)
  PROVE  RuntimeInv' /\ runtime'.epoch # 0 /\ runtime'.epoch = runtime.epoch
<1>1. /\ pass[o].stage = "read" /\ ~pass[o].cancelled /\ UNCHANGED <<vars, stopped, contexts, resumes, report>>
      /\ runtime' = [runtime EXCEPT !.watched = TRUE]
  BY DEF HistoryRead, Steps
<1>2. /\ runtime \in RuntimeState /\ pass \in [Object -> Pass] /\ PassesOk
      /\ LaneOk(runtime, Holds, current)
  BY InvTypes DEF RuntimeInv
<1>3. /\ runtime' \in RuntimeState /\ runtime'.paused = runtime.paused
      /\ runtime'.made = runtime.made /\ runtime'.epoch = runtime.epoch
      /\ runtime'.lane = runtime.lane /\ runtime'.disposed = runtime.disposed
  BY <1>1, <1>2 DEF RuntimeState
<1>4. /\ pass[o].epoch = runtime.epoch /\ runtime.epoch # 0 /\ runtime.lane = runtime.epoch
  BY <1>1, <1>2 DEF PassesOk, PassOk, Awaiting
<1>5. LaneOk(runtime', Holds, current)
  BY <1>2, <1>3, <1>4 DEF LaneOk
<1>6. CASE /\ ~Reviewing(runtime.lane)
           /\ pass' = [pass EXCEPT ![o].stage = "review", ![o].lane = runtime.lane]
  <2> DEFINE p == [[pass[o] EXCEPT !.stage = "review"] EXCEPT !.lane = runtime.lane]
  <2>1. /\ p \in Pass /\ p.stage = "review" /\ p.lane = runtime.lane /\ p.epoch = pass[o].epoch
    BY <1>2 DEF Pass, Awaiting, RuntimeState
  <2>2. pass' = [pass EXCEPT ![o] = p]
    BY <1>2, <1>6
  <2> HIDE DEF p
  <2>3. PassOk(p, runtime')
    BY <1>3, <1>4, <2>1 DEF PassOk
  <2>4. \A q \in Object : q # o /\ pass[q].stage = "review" => pass[q].lane # p.lane
    BY <1>6, <2>1 DEF Reviewing
  <2>5. QED
    BY <1>1, <1>3, <1>4, <1>5, <2>1, <2>2, <2>3, <2>4, PassMoves
<1>7. CASE pass' = [pass EXCEPT ![o] = Over(FALSE)]
  <2>1. Over(FALSE) \in Pass /\ Over(FALSE).stage = "over" /\ PassOk(Over(FALSE), runtime')
    BY OverIsOk
  <2>2. QED
    BY <1>1, <1>3, <1>4, <1>5, <1>7, <2>1, PassMoves
<1>8. QED
  BY <1>6, <1>7 DEF HistoryRead

LEMMA ReadFailsStep ==
  ASSUME RuntimeInv, NEW o \in Object, ReadFails(o)
  PROVE  RuntimeInv'
<1>1. pass[o].stage \in {"read", "task"} /\ UNCHANGED <<vars, stopped, contexts, runtime, resumes, report>>
  BY DEF ReadFails, Steps
<1>2. pass \in [Object -> Pass]
  BY InvTypes
<1>3. PICK worked \in BOOLEAN : worked = (pass[o].stage = "task")
  OBVIOUS
<1>4. pass' = [pass EXCEPT ![o] = Over(worked)]
  BY <1>2, <1>3 DEF ReadFails
<1>5. QED
  BY <1>1, <1>4, OverStep

LEMMA ReviewEndsStep ==
  ASSUME RuntimeInv, NEW o \in Object, ReviewEnds(o)
  PROVE  RuntimeInv'
BY OverStep DEF ReviewEnds, Awaiting

\* A step that changes the reports or the resumes only.
LEMMA ReportsChange ==
  ASSUME RuntimeInv, UNCHANGED <<vars, stopped, contexts, runtime, pass>>,
         resumes' \in [Call -> Resume], report' \in [Object -> Report],
         \A o \in Object : SavedOk(report'[o], runtime)
  PROVE  RuntimeInv'
<1>1. IInv' /\ UNCHANGED <<states, current>>
  BY NextIInv DEF vars, RuntimeInv
<1>2. RuntimeTypeOK'
  BY Types DEF RuntimeInv, RuntimeTypeOK, Resume, Report
<1>3. /\ ContextOk(contexts', stopped') /\ PausedOk' /\ LaneOk(runtime', Holds', current')
      /\ PassesOk' /\ InFlight' /\ Apart(pass')
  BY <1>1, TaskStays DEF RuntimeInv, PassesOk, InFlight
<1>4. ReportsOk'
  BY DEF ReportsOk
<1>5. QED
  BY <1>1, <1>2, <1>3, <1>4 DEF RuntimeInv

LEMMA SaveStep ==
  ASSUME RuntimeInv, NEW o \in Object, Save(o)
  PROVE  RuntimeInv'
<1>1. /\ UNCHANGED <<vars, stopped, contexts, runtime, resumes, pass>>
      /\ report' = [report EXCEPT ![o] = [state |-> "saved", epoch |-> pass[o].epoch]]
      /\ pass[o].stage = "review" /\ ~pass[o].cancelled
  BY DEF Save
<1>2. /\ pass \in [Object -> Pass] /\ report \in [Object -> Report] /\ resumes \in [Call -> Resume]
      /\ runtime.epoch \in Nat /\ runtime.made \in Nat /\ LaneOk(runtime, Holds, current)
      /\ PassesOk /\ ReportsOk
  BY InvTypes DEF RuntimeInv
<1>3. PICK x : x = [state |-> "saved", epoch |-> pass[o].epoch]
  OBVIOUS
<1>4. x \in Report /\ x.epoch = pass[o].epoch
  BY <1>2, <1>3 DEF Report, Pass
<1>5. SavedOk(x, runtime)
  BY <1>1, <1>2, <1>4 DEF PassesOk, PassOk, SavedOk, LaneOk, Awaiting
<1>6. report' \in [Object -> Report] /\ \A p \in Object : SavedOk(report'[p], runtime)
  BY <1>1, <1>2, <1>3, <1>4, <1>5 DEF ReportsOk
<1>7. QED
  BY <1>1, <1>2, <1>6, ReportsChange

LEMMA EmitStep ==
  ASSUME RuntimeInv, NEW o \in Object, Emit(o)
  PROVE  RuntimeInv'
<1>1. UNCHANGED <<vars, stopped, contexts, runtime, resumes, pass>>
  BY DEF Emit
<1>2. report \in [Object -> Report] /\ resumes \in [Call -> Resume] /\ ReportsOk
  BY InvTypes DEF RuntimeInv
<1>3. PICK to \in {"past", "dropped", "handed"} : report' = [report EXCEPT ![o].state = to]
  BY DEF Emit
<1>4. PICK x : x = [report[o] EXCEPT !.state = to]
  OBVIOUS
<1>5. x \in Report /\ x.state = to /\ report' = [report EXCEPT ![o] = x]
  BY <1>2, <1>3, <1>4 DEF Report
<1>6. SavedOk(x, runtime)
  BY <1>5 DEF SavedOk
<1>7. report' \in [Object -> Report] /\ \A p \in Object : SavedOk(report'[p], runtime)
  BY <1>2, <1>5, <1>6 DEF ReportsOk
<1>8. QED
  BY <1>1, <1>2, <1>7, ReportsChange

\* What a resume that fails makes of the reports.
LEMMA MissedIsTyped ==
  ASSUME report \in [Object -> Report], ReportsOk
  PROVE  /\ Missed(report) \in [Object -> Report]
         /\ \A o \in Object : /\ SavedOk(Missed(report)[o], runtime)
                              /\ Missed(report)[o].state # "dropped"
                              /\ Missed(report)[o].state \in {report[o].state, "missed"}
<1>1. ASSUME NEW o \in Object
      PROVE  /\ Missed(report)[o] \in Report
             /\ Missed(report)[o].state # "dropped"
             /\ Missed(report)[o].state \in {report[o].state, "missed"}
             /\ Missed(report)[o].state = "saved" => Missed(report)[o] = report[o]
  BY DEF Missed, Report
<1>2. Missed(report) = [o \in Object |-> Missed(report)[o]]
  BY DEF Missed
<1>3. QED
  BY <1>1, <1>2 DEF ReportsOk, SavedOk

LEMMA ResumeStays ==
  ASSUME RuntimeInv, NEW c \in Call, ResumeLists(c) \/ ResumeFails(c) \/ ResumeEmits(c)
  PROVE  RuntimeInv'
<1>1. UNCHANGED <<vars, stopped, contexts, runtime, pass>>
  BY DEF ResumeLists, ResumeFails, ResumeEmits
<1>2. /\ report \in [Object -> Report] /\ resumes \in [Call -> Resume] /\ ReportsOk
      /\ resumes[c] \in Resume
  BY InvTypes DEF RuntimeInv
<1>3. NoResume \in Resume
  BY DEF NoResume, Resume, Epoch
<1>4. /\ Missed(report) \in [Object -> Report]
      /\ \A o \in Object : SavedOk(Missed(report)[o], runtime)
  BY <1>2, MissedIsTyped
<1>5. CASE ResumeLists(c)
  <2>1. PICK q : q = [[resumes[c] EXCEPT !.stage = "listed"] EXCEPT !.listed = Stored]
    OBVIOUS
  <2>2. q \in Resume
    <3>1. Stored \in SUBSET Object
      BY DEF Stored
    <3>2. QED
      BY <1>2, <2>1, <3>1 DEF Resume
  <2>3. resumes' = [resumes EXCEPT ![c] = q] /\ report' = report
    BY <1>2, <1>5, <2>1 DEF ResumeLists
  <2>4. QED
    BY <1>1, <1>2, <2>2, <2>3, ReportsChange DEF ReportsOk
<1>6. CASE resumes' = [resumes EXCEPT ![c] = NoResume] /\ report' = Missed(report)
  BY <1>1, <1>2, <1>3, <1>4, <1>6, ReportsChange
<1>7. CASE /\ resumes' = [resumes EXCEPT ![c].stage = "giving"]
           /\ report' = [o \in Object |->
                IF o \in resumes[c].listed /\ ~runtime.paused /\ report[o].state # "past"
                THEN [report[o] EXCEPT !.state = "handed"] ELSE report[o]]
  <2>1. resumes' \in [Call -> Resume]
    <3>1. PICK q : q = [resumes[c] EXCEPT !.stage = "giving"]
      OBVIOUS
    <3>2. q \in Resume
      BY <1>2, <3>1 DEF Resume
    <3>3. QED
      BY <1>2, <1>7, <3>1, <3>2
  <2>2. ASSUME NEW o \in Object
        PROVE  report'[o] \in Report /\ SavedOk(report'[o], runtime)
    BY <1>2, <1>7 DEF Report, ReportsOk, SavedOk
  <2>3. report' \in [Object -> Report]
    BY <1>7, <2>2
  <2>4. QED
    BY <1>1, <2>1, <2>2, <2>3, ReportsChange
<1>8. QED
  BY <1>5, <1>6, <1>7 DEF ResumeFails, ResumeEmits

LEMMA ResumeNotifiesStep ==
  ASSUME RuntimeInv, NEW c \in Call, ResumeNotifies(c)
  PROVE  RuntimeInv'
<1>1. /\ report \in [Object -> Report] /\ resumes \in [Call -> Resume] /\ ReportsOk
  BY InvTypes DEF RuntimeInv
<1>2. NoResume \in Resume
  BY DEF NoResume, Resume, Epoch
<1>3. resumes' = [resumes EXCEPT ![c] = NoResume] /\ resumes' \in [Call -> Resume]
      /\ UNCHANGED <<stopped, contexts, report>>
  BY <1>1, <1>2 DEF ResumeNotifies
<1>4. CASE runtime.disposed
  <2>1. UNCHANGED <<vars, runtime, pass>>
    BY <1>4 DEF ResumeNotifies
  <2>2. QED
    BY <1>1, <1>3, <2>1, ReportsChange DEF ReportsOk
<1>5. CASE ~runtime.disposed
  <2>1. /\ MayScope /\ runtime' = Scoped(runtime) /\ Launched(pass)
        /\ \/ runtime.paused /\ UNCHANGED vars
           \/ ~runtime.paused /\ Trigger("idle")
    BY <1>5 DEF ResumeNotifies
  <2>2. "idle" \in PassReason
    BY DEF PassReason
  <2>3. QED
    BY <1>3, <1>5, <2>1, <2>2, TriggerStep
<1>6. QED
  BY <1>4, <1>5

\* Time goes on.
LEMMA ClockStep ==
  ASSUME RuntimeInv, Tick \/ UNCHANGED vars, UNCHANGED runtimeVars
  PROVE  RuntimeInv'
<1>1. IInv /\ UNCHANGED <<stopped, contexts, runtime, pass, resumes, report>>
  BY DEF RuntimeInv, runtimeVars
<1>2. /\ IInv' /\ current' = current
      /\ \A o \in Object : states'[o].passing = states[o].passing
  <2>1. CASE UNCHANGED vars
    BY <1>1, <2>1, NextIInv DEF vars
  <2>2. CASE Tick
    <3>1. ASSUME NEW o \in Object
          PROVE  states'[o].passing = states[o].passing
      <4>1. states[o] \in SchedulerState
        BY <1>1 DEF IInv
      <4>2. states'[o] = [states[o] EXCEPT !.cooldown = Less(@), !.suppress = Less(@), !.timer = Less(@)]
        BY <2>2 DEF Tick
      <4>3. QED
        BY <4>1, <4>2 DEF SchedulerState
    <3>2. QED
      BY <1>1, <2>2, <3>1, TickKeeps DEF Tick
  <2>3. QED
    BY <2>1, <2>2
<1>3. QED
  BY <1>1, <1>2, TaskStays DEF RuntimeInv, RuntimeTypeOK, PassesOk, InFlight, ReportsOk

\* A step of TaskContexts: the effects on the runtime are still to come.
LEMMA ContextStep ==
  ASSUME RuntimeInv, UNCHANGED effects, stopped' \in BOOLEAN, contexts' \in Context,
         ContextOk(contexts', stopped'), PausedOk', Holds' => Holds
  PROVE  RuntimeInv'
<1>1. UNCHANGED <<runtime, pass, resumes, report>> /\ UNCHANGED vars
  BY DEF effects
<1>2. IInv' /\ UNCHANGED <<states, current>>
  BY <1>1, NextIInv DEF vars, RuntimeInv
<1>3. LaneOk(runtime', Holds', current')
  BY <1>1, <1>2 DEF RuntimeInv, LaneOk
<1>4. RuntimeTypeOK'
  BY <1>1, Types DEF RuntimeInv, RuntimeTypeOK, Context
<1>5. QED
  BY <1>1, <1>2, <1>3, <1>4 DEF RuntimeInv, PassesOk, InFlight, ReportsOk

\* Nothing of the runtime is left: at the start, and after a crash.
Blanked ==
  /\ options \in Options /\ made \in 0..MaxObjects /\ current = 0
  /\ states = [o \in Object |-> NewState]
  /\ stopped \in BOOLEAN /\ contexts = NoContext
  /\ \E n \in Epoch : runtime = [NoRuntime EXCEPT !.made = n]
  /\ pass = [o \in Object |-> NoPass] /\ resumes = [c \in Call |-> NoResume]
  /\ report \in [Object -> Report] /\ \A o \in Object : report[o].state # "saved"

LEMMA BlankInv == Blanked => RuntimeInv
<1> SUFFICES ASSUME Blanked PROVE RuntimeInv
  OBVIOUS
<1> USE DEF Blanked
<1>0. PICK n \in Epoch : runtime = [NoRuntime EXCEPT !.made = n]
  OBVIOUS
<1>1. IInv
  <2>1. Left(NewState) /\ NewState \in SchedulerState
    BY NewIsOrderly DEF Left
  <2>2. QED
    BY <2>1 DEF IInv
<1>2. 0 \in Epoch
  BY DEF Epoch
<1>3. /\ runtime \in RuntimeState /\ ~runtime.disposed /\ ~runtime.paused /\ ~runtime.watched
      /\ runtime.epoch = 0 /\ runtime.lane = 0 /\ runtime.made = n
  BY <1>0, <1>2 DEF NoRuntime, RuntimeState
<1>4. NoPass \in Pass /\ PassOk(NoPass, runtime) /\ NoPass.stage = "none"
  BY <1>2 DEF NoPass, Pass, PassOk, Awaiting
<1>5. NoResume \in Resume
  BY <1>2 DEF NoResume, Resume
<1>6. RuntimeTypeOK
  <2>1. contexts \in Context
    BY DEF NoContext, Context
  <2>2. QED
    BY <1>3, <1>4, <1>5, <2>1, Types
<1>7. LaneOk(runtime, Holds, current) /\ PausedOk /\ ContextOk(contexts, stopped)
  BY <1>3 DEF LaneOk, Epoch, PausedOk, ContextOk, NoContext
<1>8. PassesOk /\ Apart(pass)
  BY <1>4 DEF PassesOk, Apart
<1>9. InFlight
  BY <1>4 DEF InFlight, NewState
<1>10. ReportsOk
  BY DEF ReportsOk, SavedOk
<1>11. QED
  BY <1>1, <1>6, <1>7, <1>8, <1>9, <1>10 DEF RuntimeInv

LEMMA CrashStep ==
  ASSUME RuntimeInv, Crash
  PROVE  RuntimeInv'
<1>1. /\ IInv /\ stopped \in BOOLEAN /\ runtime.made \in Epoch /\ report \in [Object -> Report]
      /\ ReportsOk
  BY InvTypes DEF RuntimeInv, RuntimeState
<1>2. report' \in [Object -> Report] /\ \A o \in Object : report'[o].state # "saved"
  <2>1. LeftBehind \in [Object -> Report]
        /\ \A o \in Object : LeftBehind[o].state \in {report[o].state, "missed"}
    BY <1>1, LeftBehindIsTyped
  <2>2. report' = [o \in Object |->
          IF report[o].state = "saved" THEN [report[o] EXCEPT !.state = "past"] ELSE LeftBehind[o]]
    BY DEF Crash
  <2>3. ASSUME NEW o \in Object
        PROVE  report'[o] \in Report /\ report'[o].state # "saved"
    BY <1>1, <2>1, <2>2 DEF Report
  <2>4. QED
    BY <2>2, <2>3
<1>3. Blanked'
  <2>1. /\ options' = options /\ made' = made /\ current' = 0
        /\ states' = [o \in Object |-> NewState]
        /\ stopped' = stopped /\ contexts' = NoContext /\ runtime' = [NoRuntime EXCEPT !.made = runtime.made]
        /\ pass' = [o \in Object |-> NoPass] /\ resumes' = [c \in Call |-> NoResume]
    BY DEF Crash
  <2>2. options' \in Options /\ made' \in 0..MaxObjects /\ stopped' \in BOOLEAN
    BY <1>1, <2>1 DEF IInv
  <2>3. QED
    BY <1>1, <1>2, <2>1, <2>2 DEF Blanked
<1>4. (Blanked => RuntimeInv)'
  BY BlankInv, PTL
<1>5. QED
  BY <1>3, <1>4

-----------------------------------------------------------------------------
\* Part 3: the watcher.

Watches(off, sets) == ~off /\ "advisor" \notin sets /\ sets \cap {"root", "advised"} # {}

\* What a session can be known as.
NameOk(n, sets) ==
  /\ sets \subseteq {"root", "child", "advised", "advisor"}
  /\ "root" \in sets => n = "primary"
  /\ "advised" \in sets => n = "advised"
  /\ "advisor" \in sets => n = "advisor"

\* A session that is gone is not known and nobody asks for it; what is
\* watched is there; and a timer and an epoch are of a watched session,
\* unless a resume brought the epoch back.
WatchOk(sets, whereabouts, asking, timer, r, brought) ==
  LET watched == Watches(r.disposed, sets)
  IN /\ whereabouts = "gone" => asking = 0 /\ ~watched
     /\ timer # None => watched
     /\ r.epoch # 0 => watched \/ brought

\* A resume of this epoch is of a watched session that nobody stopped since.
ResumeOk(q, r, sets, holds) ==
  q.stage # "none" =>
    /\ q.epoch # 0 /\ q.epoch <= r.made
    /\ q.epoch = r.epoch => Watches(r.disposed, sets) /\ (r.paused \/ ~holds)

ResumesOk == \A c \in Call : ResumeOk(resumes[c], runtime, known, Holds)

\* While the task goes on, a resume is on its way to what was held back.
Fetches(q, o) == q.stage = "listing" \/ (q.stage = "listed" /\ o \in q.listed)

HeldBackOk ==
  Goes => \A o \in Object : report[o].state = "dropped" => \E c \in Call : Fetches(resumes[c], o)

\* A write whose scope is active is of a session that is watched.
AtWork == contexts.active => Watches(runtime.disposed, known)

LeftOk(n, events) ==
  \E b \in Bounds : /\ n \in b.natures
                     /\ events \in [DOMAIN b.events -> Nat]
                     /\ \A k \in DOMAIN b.events : events[k] <= b.events[k]

Timers == [timer : 0..MaxDispatch \cup {None}, suppress : 0..MaxSuppress]

WatcherTypes ==
  /\ LeftOk(nature, left)
  /\ there \in {"live", "deleted", "gone"}
  /\ gets \in [Get -> {"none", "asked", "found", "missing"}]
  /\ token \in 0..MaxGets
  /\ dispatch \in Timers
  /\ late \in BOOLEAN

WatcherInv ==
  /\ RuntimeInv
  /\ WatcherTypes
  /\ NameOk(nature, known)
  /\ WatchOk(known, there, token, dispatch.timer, runtime, late)
  /\ ResumesOk /\ HeldBackOk /\ AtWork

LEMMA WatchedIs ==
  ASSUME NEW sets
  PROVE  IsWatched(sets) <=> Watches(runtime.disposed, sets)
BY DEF IsWatched, Watches

LEMMA SpendKeeps ==
  ASSUME LeftOk(nature, left), UNCHANGED nature,
         UNCHANGED left \/ \E kind : Spend(kind)
  PROVE  LeftOk(nature', left')
<1>1. CASE UNCHANGED left
  BY <1>1
<1>2. ASSUME NEW kind, Spend(kind)
      PROVE  LeftOk(nature', left')
  <2>1. PICK b \in Bounds : /\ nature \in b.natures
                            /\ left \in [DOMAIN b.events -> Nat]
                            /\ \A k \in DOMAIN b.events : left[k] <= b.events[k]
    BY DEF LeftOk
  <2>2. left[kind] > 0 /\ left' = [left EXCEPT ![kind] = left[kind] - 1]
    BY <1>2 DEF Spend
  <2>3. b.events \in [DOMAIN b.events -> Nat]
    BY <2>1
  <2>4. PICK D : D = DOMAIN b.events
    OBVIOUS
  <2>5. \A k \in D : /\ left'[k] \in Nat
                     /\ left'[k] <= left[k]
    BY <2>1, <2>2, <2>4
  <2>6. left' \in [D -> Nat]
    BY <2>1, <2>2, <2>4, <2>5
  <2>7. \A k \in D : left'[k] <= b.events[k]
    <3>1. ASSUME NEW k \in D
          PROVE  left'[k] <= b.events[k]
      <4>1. left[k] \in Nat /\ b.events[k] \in Nat /\ left[k] <= b.events[k]
        BY <2>1, <2>3, <2>4
      <4>2. QED
        BY <2>5, <4>1
    <3>2. QED
      BY <3>1
  <2>8. QED
    BY <2>1, <2>4, <2>6, <2>7 DEF LeftOk
<1>3. QED
  BY <1>1, <1>2

\* A write that fails spends two of the bounds.
LEMMA WriteSpends ==
  ASSUME LeftOk(nature, left), NEW ok \in BOOLEAN, left.tasks > 0, ok \/ left.faults > 0,
         left' = [left EXCEPT !.tasks = @ - 1, !.faults = IF ok THEN @ ELSE @ - 1]
  PROVE  LeftOk(nature, left')
<1>1. PICK b \in Bounds : /\ nature \in b.natures
                          /\ left \in [DOMAIN b.events -> Nat]
                          /\ \A k \in DOMAIN b.events : left[k] <= b.events[k]
  BY DEF LeftOk
<1>2. PICK D : D = DOMAIN b.events
  OBVIOUS
<1>3. b.events \in [D -> Nat]
  BY <1>1, <1>2
<1>4. \A k \in D : left[k] \in Nat /\ b.events[k] \in Nat /\ left[k] <= b.events[k]
  BY <1>1, <1>2, <1>3
<1>5. PICK less : less = [left EXCEPT !.tasks = left.tasks - 1]
  OBVIOUS
<1>6. less \in [D -> Nat] /\ \A k \in D : less[k] <= left[k]
  <2>1. \A k \in D : less[k] \in Nat /\ less[k] <= left[k]
    BY <1>1, <1>2, <1>4, <1>5
  <2>2. QED
    BY <1>1, <1>2, <1>5, <2>1
<1>7. "faults" \in D => less.faults = left.faults
  BY <1>1, <1>2, <1>5
<1>8. left' = [less EXCEPT !.faults = IF ok THEN less.faults ELSE less.faults - 1]
  BY <1>5
<1>9. \A k \in D : left'[k] \in Nat /\ left'[k] <= b.events[k]
  <2>1. ASSUME NEW k \in D
        PROVE  left'[k] \in Nat /\ left'[k] <= b.events[k]
    <3>1. less[k] \in Nat /\ less[k] <= left[k] /\ left[k] <= b.events[k] /\ left[k] \in Nat
          /\ b.events[k] \in Nat
      BY <1>4, <1>6
    <3>2. CASE k = "faults"
      BY <1>6, <1>7, <1>8, <3>1, <3>2
    <3>3. CASE k # "faults"
      BY <1>6, <1>8, <3>1, <3>3
    <3>4. QED
      BY <3>2, <3>3
  <2>2. QED
    BY <2>1
<1>10. left' \in [D -> Nat]
  BY <1>6, <1>8, <1>9
<1>11. QED
  BY <1>1, <1>2, <1>9, <1>10 DEF LeftOk

-----------------------------------------------------------------------------
\* What the parts of the watcher's steps keep.

SameEpoch == runtime'.epoch = runtime.epoch /\ runtime'.made = runtime.made
NewEpoch == /\ runtime.epoch = 0 /\ runtime'.epoch = runtime.made + 1
            /\ runtime'.made = runtime.made + 1

\* The step of the runtime, if any, leaves alone what was stopped, saved and
\* held back.
Carries ==
  /\ UNCHANGED <<stopped, contexts, resumes, report>>
  /\ runtime'.paused = runtime.paused /\ runtime'.disposed = runtime.disposed
  /\ SameEpoch \/ NewEpoch

LEMMA NotifyCarries ==
  ASSUME RuntimeInv, NEW reason \in PassReason, Notify(reason)
  PROVE  RuntimeInv' /\ Carries
<1>1. RuntimeInv'
  BY NotifyStep
<1>2. CASE UNCHANGED <<vars, runtimeVars>>
  BY <1>1, <1>2 DEF Carries, SameEpoch, runtimeVars
<1>3. CASE /\ MayScope /\ runtime' = Scoped(runtime)
           /\ UNCHANGED <<stopped, contexts, resumes, report>>
  <2>1. runtime \in RuntimeState /\ LaneOk(runtime, FALSE, 0)
    BY InvTypes
  <2>2. QED
    BY <1>1, <1>3, <2>1, ScopedIsNew DEF MayScope, Carries, SameEpoch, NewEpoch
<1>4. QED
  BY <1>2, <1>3 DEF Notify

LEMMA QuietCarries ==
  ASSUME RuntimeInv, Quiet
  PROVE  RuntimeInv' /\ Carries
<1>1. UNCHANGED vars /\ UNCHANGED runtimeVars
  BY DEF Quiet
<1>2. QED
  BY <1>1, ClockStep DEF Carries, SameEpoch, runtimeVars

LEMMA DispatchCarries ==
  ASSUME RuntimeInv, dispatch \in Timers, NEW reason \in PassReason, Dispatch(reason)
  PROVE  RuntimeInv' /\ Carries /\ dispatch' \in Timers
<1>1. CASE UNCHANGED <<vars, runtimeVars, dispatch>>
  BY <1>1, QuietCarries DEF Quiet
<1>2. CASE Notify("idle") /\ dispatch' = [dispatch EXCEPT !.timer = None]
  BY <1>2, NotifyCarries DEF PassReason, Timers
<1>3. CASE /\ dispatch' = [dispatch EXCEPT !.timer = IF @ = None THEN MaxDispatch ELSE @]
           /\ UNCHANGED <<vars, runtimeVars>>
  <2>1. dispatch' \in Timers
    BY <1>3 DEF Timers
  <2>2. QED
    BY <1>3, <2>1, QuietCarries DEF Quiet
<1>4. QED
  BY <1>1, <1>2, <1>3 DEF Dispatch

\* What was resumed and held back stays so when the runtime carries on and
\* the session stays watched.
LEMMA CarriesKeeps ==
  ASSUME WatcherInv, Carries, Watches(runtime.disposed, known) => Watches(runtime.disposed, known')
  PROVE  ResumesOk' /\ HeldBackOk' /\ AtWork'
<1>0. Holds' = Holds /\ Goes' = Goes
  BY TaskStays DEF Carries
<1>1. /\ resumes \in [Call -> Resume] /\ runtime.made \in Nat
  BY InvTypes DEF WatcherInv
<1>2. ASSUME NEW c \in Call
      PROVE  ResumeOk(resumes'[c], runtime', known', Holds')
  <2>1. resumes'[c] = resumes[c] /\ resumes[c].epoch \in Nat
    BY <1>1 DEF Carries, Resume, Epoch
  <2>2. ResumeOk(resumes[c], runtime, known, Holds)
    BY DEF WatcherInv, ResumesOk
  <2>3. QED
    BY <1>0, <1>1, <2>1, <2>2 DEF Carries, SameEpoch, NewEpoch, ResumeOk
<1>3. HeldBackOk' /\ AtWork'
  BY <1>0 DEF WatcherInv, HeldBackOk, AtWork, Carries
<1>4. QED
  BY <1>2, <1>3 DEF ResumesOk

\* The session is watched as it was, or is new.
LEMMA WatchStays ==
  ASSUME WatcherInv, Carries, NEW sets, NEW asking, NEW timer,
         there = "gone" => asking = 0 /\ ~Watches(runtime.disposed, sets),
         timer # None => Watches(runtime.disposed, sets),
         Watches(runtime.disposed, known) => Watches(runtime.disposed, sets),
         SameEpoch \/ Watches(runtime.disposed, sets) \/ late', late => late'
  PROVE  WatchOk(sets, there, asking, timer, runtime', late')
BY DEF WatcherInv, WatchOk, Carries, SameEpoch

LEMMA RegisteredIsWatched ==
  ASSUME NameOk(nature, known)
  PROVE  /\ NameOk(nature, Registered(known))
         /\ Watches(runtime.disposed, known) => Watches(runtime.disposed, Registered(known))
<1>1. CASE "advisor" \in known
  BY <1>1 DEF Registered
<1>2. CASE "advisor" \notin known /\ nature # "primary"
  <2>1. Registered(known) = (known \ {"root"}) \cup {"child"}
    BY <1>2 DEF Registered
  <2>2. QED
    BY <1>2, <2>1 DEF NameOk, Watches
<1>3. CASE "advisor" \notin known /\ nature = "primary"
  <2>1. Registered(known) = (known \ {"child", "advised"}) \cup {"root"}
    BY <1>3 DEF Registered
  <2>2. QED
    BY <1>3, <2>1 DEF NameOk, Watches
<1>4. QED
  BY <1>1, <1>2, <1>3

\* A step after which the session is watched if it was.
LEMMA WatcherMoves ==
  ASSUME WatcherInv, RuntimeInv', Carries, WatcherTypes', UNCHANGED <<nature, there>>,
         NameOk(nature, known'),
         there = "gone" => token' = 0 /\ ~Watches(runtime.disposed, known'),
         dispatch'.timer # None => Watches(runtime.disposed, known'),
         Watches(runtime.disposed, known) => Watches(runtime.disposed, known'),
         SameEpoch \/ Watches(runtime.disposed, known') \/ late', late => late'
  PROVE  WatcherInv'
<1>1. ResumesOk' /\ HeldBackOk' /\ AtWork'
  BY CarriesKeeps
<1>2. WatchOk(known', there', token', dispatch'.timer, runtime', late')
  BY WatchStays
<1>3. QED
  BY <1>1, <1>2 DEF WatcherInv

LEMMA WatcherFacts ==
  ASSUME WatcherInv
  PROVE  /\ RuntimeInv /\ WatcherTypes /\ NameOk(nature, known)
         /\ there = "gone" => token = 0 /\ ~Watches(runtime.disposed, known)
         /\ dispatch.timer # None => Watches(runtime.disposed, known)
         /\ runtime.epoch # 0 => Watches(runtime.disposed, known) \/ late
         /\ runtime \in RuntimeState /\ runtime.disposed \in BOOLEAN
BY InvTypes DEF WatcherInv, WatchOk, RuntimeState

LEMMA UpdatedStep ==
  ASSUME WatcherInv, Updated
  PROVE  WatcherInv'
<1>1. /\ known' = Registered(known) /\ there # "gone"
      /\ UNCHANGED <<nature, there, gets, token, dispatch, late>> /\ Quiet
      /\ \E kind : Spend(kind)
  BY DEF Updated, On
<1>2. RuntimeInv' /\ Carries /\ SameEpoch
  BY <1>1, WatcherFacts, QuietCarries DEF Quiet, runtimeVars, SameEpoch
<1>3. WatcherTypes'
  BY <1>1, WatcherFacts, SpendKeeps DEF WatcherTypes
<1>4. QED
  BY <1>1, <1>2, <1>3, WatcherFacts, RegisteredIsWatched, WatcherMoves

LEMMA MessageStep ==
  ASSUME WatcherInv, NEW completed \in BOOLEAN, Message(completed)
  PROVE  WatcherInv'
<1>1. /\ there # "gone" /\ "advisor" \notin known
      /\ known' = IF nature = "advised" /\ "child" \in known THEN known \cup {"advised"} ELSE known
      /\ UNCHANGED <<nature, there, gets, token, late>>
      /\ \E kind : Spend(kind)
  BY DEF Message, On
<1>2. /\ NameOk(nature, known')
      /\ Watches(runtime.disposed, known) => Watches(runtime.disposed, known')
  <2>1. NameOk(nature, known)
    BY WatcherFacts
  <2>2. CASE known' = known
    BY <2>1, <2>2
  <2>3. CASE nature = "advised" /\ known' = known \cup {"advised"}
    BY <1>1, <2>1, <2>3 DEF NameOk, Watches
  <2>4. QED
    BY <1>1, <2>2, <2>3
<1>3. RuntimeInv' /\ Carries /\ dispatch' \in Timers /\ (SameEpoch \/ Watches(runtime.disposed, known'))
      /\ (dispatch' = dispatch \/ Watches(runtime.disposed, known'))
  <2>1. CASE IsWatched(known') /\ Dispatch("step")
    BY <2>1, WatcherFacts, WatchedIs, DispatchCarries DEF PassReason, WatcherTypes
  <2>2. CASE Quiet /\ UNCHANGED dispatch
    BY <2>2, WatcherFacts, QuietCarries DEF Quiet, runtimeVars, SameEpoch, WatcherTypes
  <2>3. QED
    BY <2>1, <2>2 DEF Message
<1>4. WatcherTypes'
  BY <1>1, <1>3, WatcherFacts, SpendKeeps DEF WatcherTypes
<1>5. QED
  BY <1>1, <1>2, <1>3, <1>4, WatcherFacts, WatcherMoves

LEMMA IdleStep ==
  ASSUME WatcherInv, Idle
  PROVE  WatcherInv'
<1>1. /\ there # "gone" /\ UNCHANGED <<nature, known, there, late>> /\ \E kind : Spend(kind)
  BY DEF Idle, On
<1>2. CASE IsWatched(known) /\ Dispatch("idle") /\ UNCHANGED <<gets, token>>
  <2>1. RuntimeInv' /\ Carries /\ dispatch' \in Timers /\ Watches(runtime.disposed, known)
    BY <1>2, WatcherFacts, WatchedIs, DispatchCarries DEF PassReason, WatcherTypes
  <2>2. WatcherTypes'
    BY <1>1, <1>2, <2>1, WatcherFacts, SpendKeeps DEF WatcherTypes
  <2>3. QED
    BY <1>1, <2>1, <2>2, WatcherFacts, WatcherMoves
<1>3. ASSUME NEW g \in Get, gets' = [gets EXCEPT ![g] = "asked"], token' = g, Quiet, UNCHANGED dispatch
      PROVE  WatcherInv'
  <2>1. RuntimeInv' /\ Carries /\ SameEpoch
    BY <1>3, WatcherFacts, QuietCarries DEF Quiet, runtimeVars, SameEpoch
  <2>2. g \in 0..MaxGets
    BY DEF Get
  <2>3. WatcherTypes'
    BY <1>1, <1>3, <2>2, WatcherFacts, SpendKeeps DEF WatcherTypes
  <2>4. QED
    BY <1>1, <1>3, <2>1, <2>3, WatcherFacts, WatcherMoves
<1>4. QED
  BY <1>2, <1>3 DEF Idle

LEMMA ServedStep ==
  ASSUME WatcherInv, NEW g \in Get, Served(g)
  PROVE  WatcherInv'
<1>1. /\ gets' = [gets EXCEPT ![g] = IF there = "live" THEN "found" ELSE "missing"]
      /\ UNCHANGED <<nature, known, there, token, dispatch, late, left>> /\ Quiet
  BY DEF Served
<1>2. RuntimeInv' /\ Carries /\ SameEpoch
  BY <1>1, WatcherFacts, QuietCarries DEF Quiet, runtimeVars, SameEpoch
<1>3. WatcherTypes'
  BY <1>1, WatcherFacts, SpendKeeps DEF WatcherTypes
<1>4. QED
  BY <1>1, <1>2, <1>3, WatcherFacts, WatcherMoves

LEMMA FetchedStep ==
  ASSUME WatcherInv, NEW g \in Get, Fetched(g)
  PROVE  WatcherInv'
<1>1. /\ token = g /\ token' = 0
      /\ known' = IF gets[g] = "found" THEN Registered(known) ELSE known
      /\ UNCHANGED <<nature, there, gets, late, left>>
  BY DEF Fetched
<1>2. there # "gone"
  BY <1>1, WatcherFacts DEF Get
<1>3. /\ NameOk(nature, known')
      /\ Watches(runtime.disposed, known) => Watches(runtime.disposed, known')
  BY <1>1, WatcherFacts, RegisteredIsWatched
<1>4. RuntimeInv' /\ Carries /\ dispatch' \in Timers /\ (SameEpoch \/ Watches(runtime.disposed, known'))
      /\ (dispatch' = dispatch \/ Watches(runtime.disposed, known'))
  <2>1. CASE IsWatched(known') /\ Dispatch("idle")
    BY <2>1, WatcherFacts, WatchedIs, DispatchCarries DEF PassReason, WatcherTypes
  <2>2. CASE Quiet /\ UNCHANGED dispatch
    BY <2>2, WatcherFacts, QuietCarries DEF Quiet, runtimeVars, SameEpoch, WatcherTypes
  <2>3. QED
    BY <2>1, <2>2 DEF Fetched
<1>5. WatcherTypes'
  BY <1>1, <1>4, WatcherFacts, SpendKeeps DEF WatcherTypes
<1>6. QED
  BY <1>1, <1>2, <1>3, <1>4, <1>5, WatcherFacts, WatcherMoves

LEMMA OverflowStep ==
  ASSUME WatcherInv, Overflow
  PROVE  WatcherInv'
<1>1. /\ there # "gone" /\ \E kind : Spend(kind)
      /\ UNCHANGED <<nature, there, gets, token, dispatch, late>> /\ Quiet
  BY DEF Overflow, On
<1>2. PICK s \in {"child", "advisor"} : known' = known \ {s}
  BY DEF Overflow
<1>3. RuntimeInv' /\ Carries /\ SameEpoch
  BY <1>1, WatcherFacts, QuietCarries DEF Quiet, runtimeVars, SameEpoch
<1>4. WatcherTypes'
  BY <1>1, WatcherFacts, SpendKeeps DEF WatcherTypes
<1>5. /\ NameOk(nature, known')
      /\ Watches(runtime.disposed, known) => Watches(runtime.disposed, known')
  BY <1>2, WatcherFacts DEF NameOk, Watches
<1>6. QED
  BY <1>1, <1>3, <1>4, <1>5, WatcherFacts, WatcherMoves

LEMMA SuppressedStep ==
  ASSUME WatcherInv, NEW ms \in 1..MaxSuppress, Suppressed(ms)
  PROVE  WatcherInv'
<1>1. /\ IsWatched(known) /\ dispatch' = [dispatch EXCEPT !.suppress = Max({dispatch.suppress, ms})]
      /\ UNCHANGED <<nature, known, there, gets, token, late>> /\ Quiet /\ \E kind : Spend(kind)
  BY DEF Suppressed
<1>2. RuntimeInv' /\ Carries /\ SameEpoch
  BY <1>1, WatcherFacts, QuietCarries DEF Quiet, runtimeVars, SameEpoch
<1>3. dispatch' \in Timers
  <2>1. dispatch \in Timers /\ dispatch.suppress \in 0..MaxSuppress /\ MaxSuppress \in Nat
    BY WatcherFacts DEF WatcherTypes, Timers
  <2>2. Max({dispatch.suppress, ms}) \in {dispatch.suppress, ms}
    BY <2>1, MaxOfTwo
  <2>3. QED
    BY <1>1, <2>1, <2>2 DEF Timers
<1>4. WatcherTypes'
  BY <1>1, <1>3, WatcherFacts, SpendKeeps DEF WatcherTypes
<1>5. there # "gone" /\ Watches(runtime.disposed, known)
  BY <1>1, WatcherFacts, WatchedIs
<1>6. QED
  BY <1>1, <1>2, <1>4, <1>5, WatcherFacts, WatcherMoves

LEMMA DispatchFiresStep ==
  ASSUME WatcherInv, DispatchFires
  PROVE  WatcherInv'
<1>1. /\ dispatch.timer = 0 /\ dispatch' = [dispatch EXCEPT !.timer = None]
      /\ UNCHANGED <<nature, known, there, gets, token, late, left>>
      /\ Quiet \/ Notify("step")
  BY DEF DispatchFires
<1>2. Watches(runtime.disposed, known) /\ dispatch \in Timers
  BY <1>1, WatcherFacts DEF WatcherTypes
<1>3. RuntimeInv' /\ Carries
  BY <1>1, WatcherFacts, QuietCarries, NotifyCarries DEF PassReason
<1>4. dispatch' \in Timers
  BY <1>1, <1>2 DEF Timers
<1>5. WatcherTypes'
  BY <1>1, <1>4, WatcherFacts, SpendKeeps DEF WatcherTypes
<1>6. QED
  BY <1>1, <1>2, <1>3, <1>5, WatcherFacts, WatcherMoves

LEMMA DeletedStep ==
  ASSUME WatcherInv, Deleted
  PROVE  WatcherInv'
<1>1. /\ there = "live" /\ there' = "deleted" /\ \E kind : Spend(kind)
      /\ UNCHANGED <<nature, known, gets, token, dispatch, late>> /\ Quiet
  BY DEF Deleted
<1>2. RuntimeInv' /\ Carries /\ SameEpoch
  BY <1>1, WatcherFacts, QuietCarries DEF Quiet, runtimeVars, SameEpoch
<1>3. WatcherTypes'
  BY <1>1, WatcherFacts, SpendKeeps DEF WatcherTypes
<1>4. ResumesOk' /\ HeldBackOk' /\ AtWork'
  BY <1>1, <1>2, CarriesKeeps
<1>5. WatchOk(known', there', token', dispatch'.timer, runtime', late')
  BY <1>1, <1>2, WatcherFacts DEF WatchOk, Carries, SameEpoch
<1>6. QED
  BY <1>1, <1>2, <1>3, <1>4, <1>5, WatcherFacts DEF WatcherInv

\* forgetSession(): the watcher lets go of the session, and so does the
\* runtime if it was watched.
LEMMA ForgetSessionStep ==
  ASSUME WatcherInv, NEW kept, ForgetSession(kept), ~runtime.disposed,
         NameOk(nature, kept), ~Watches(FALSE, kept),
         UNCHANGED <<nature, gets, late>>, there' \in {"live", "deleted", "gone"},
         "advisor" \in known => ~Watches(FALSE, known),
         known \cap {"root", "advised"} # {} => "advisor" \notin known,
         UNCHANGED left \/ \E kind : Spend(kind)
  PROVE  WatcherInv'
<1>1. known' = kept /\ token' = 0 /\ dispatch' = NoDispatch
  BY DEF ForgetSession
<1>2. CASE known \cap {"root", "advised"} # {}
  <2>1. Forgotten /\ contexts' = Released /\ report' = LeftBehind /\ UNCHANGED <<stopped, resumes>>
    BY <1>2 DEF ForgetSession, Forgotten
  <2>2. RuntimeInv'
    BY <2>1, WatcherFacts, ForgottenStep
  <2>3. runtime'.epoch = 0 /\ runtime'.disposed = FALSE /\ runtime'.made = runtime.made
    <3>1. runtime' = Bare(runtime.disposed, runtime.made)
      BY <2>1 DEF Forgotten, Bare
    <3>2. runtime.made \in Epoch /\ runtime.disposed \in BOOLEAN
      BY WatcherFacts DEF RuntimeState
    <3>3. QED
      BY <3>1, <3>2, Blank
  <2>5. ResumesOk'
    <3>1. ASSUME NEW c \in Call
          PROVE  ResumeOk(resumes'[c], runtime', known', Holds')
      BY <2>1, <2>3 DEF WatcherInv, ResumesOk, ResumeOk
    <3>2. QED
      BY <3>1 DEF ResumesOk
  <2>6. HeldBackOk' /\ AtWork'
    BY <2>1, WatcherFacts, InvTypes, LeftBehindIsTyped, ReleasedIsOk DEF HeldBackOk, Goes, AtWork
  <2>7. WatchOk(known', there', token', dispatch'.timer, runtime', late')
    BY <1>1, <2>3 DEF WatchOk, NoDispatch, Watches
  <2>8. WatcherTypes'
    BY <1>1, WatcherFacts, SpendKeeps DEF WatcherTypes, NoDispatch, Timers
  <2>9. QED
    BY <1>1, <2>2, <2>5, <2>6, <2>7, <2>8 DEF WatcherInv
<1>3. CASE known \cap {"root", "advised"} = {}
  <2>1. Quiet
    BY <1>3 DEF ForgetSession, Quiet
  <2>2. RuntimeInv' /\ Carries /\ UNCHANGED runtime
    BY <2>1, WatcherFacts, QuietCarries DEF Quiet, runtimeVars
  <2>3. ~Watches(runtime.disposed, known)
    BY <1>3 DEF Watches
  <2>4. ResumesOk' /\ HeldBackOk' /\ AtWork'
    BY <2>2, <2>3, CarriesKeeps
  <2>5. WatchOk(known', there', token', dispatch'.timer, runtime', late')
    BY <1>1, <2>2, <2>3, WatcherFacts DEF WatchOk, NoDispatch, Watches
  <2>6. WatcherTypes'
    BY <1>1, WatcherFacts, SpendKeeps DEF WatcherTypes, NoDispatch, Timers
  <2>7. QED
    BY <1>1, <2>2, <2>4, <2>5, <2>6 DEF WatcherInv
<1>4. QED
  BY <1>2, <1>3

LEMMA LettingGoSteps ==
  ASSUME WatcherInv, DeletionHandled \/ Mark \/ Evict
  PROVE  WatcherInv'
<1>1. \E kept \in {{}, {"advisor"}} : ForgetSession(kept) /\ (kept = {"advisor"} => nature = "advisor")
  BY DEF DeletionHandled, Mark, Evict
<1>2. /\ ~runtime.disposed /\ UNCHANGED <<nature, gets, late>>
      /\ UNCHANGED left \/ \E kind : Spend(kind)
      /\ there' = "gone" \/ there' = there
  BY DEF DeletionHandled, Mark, Evict, On
<1>3. there' \in {"live", "deleted", "gone"} /\ NameOk(nature, known)
  BY <1>2, WatcherFacts DEF WatcherTypes
<1>4. /\ NameOk(nature, {}) /\ ~Watches(FALSE, {}) /\ ~Watches(FALSE, {"advisor"})
      /\ nature = "advisor" => NameOk(nature, {"advisor"})
  BY DEF NameOk, Watches
<1>5. /\ "advisor" \in known => ~Watches(FALSE, known)
      /\ known \cap {"root", "advised"} # {} => "advisor" \notin known
  BY <1>3 DEF NameOk, Watches
<1>6. QED
  BY <1>1, <1>2, <1>3, <1>4, <1>5, ForgetSessionStep

\* A step of TaskContexts that the runtime does not hear of.
LEMMA ContextMoves ==
  ASSUME WatcherInv, UNCHANGED <<effects, nature, known, there, gets, token, dispatch, late>>,
         LeftOk(nature, left'), stopped' \in BOOLEAN, contexts' \in Context,
         ContextOk(contexts', stopped'), Holds' => Holds, Goes' => Goes,
         contexts'.active => Watches(runtime.disposed, known)
  PROVE  WatcherInv'
<1>1. UNCHANGED <<runtime, pass, resumes, report>>
  BY DEF effects
<1>2. PausedOk'
  BY <1>1 DEF WatcherInv, RuntimeInv, PausedOk
<1>3. RuntimeInv'
  BY <1>2, WatcherFacts, ContextStep
<1>4. WatcherTypes' /\ NameOk(nature', known')
  BY WatcherFacts DEF WatcherTypes
<1>5. WatchOk(known', there', token', dispatch'.timer, runtime', late')
  BY <1>1 DEF WatcherInv
<1>6. ASSUME NEW c \in Call
      PROVE  ResumeOk(resumes'[c], runtime', known', Holds')
  BY <1>1 DEF WatcherInv, ResumesOk, ResumeOk
<1>7. HeldBackOk' /\ AtWork'
  BY <1>1 DEF WatcherInv, HeldBackOk, AtWork
<1>8. QED
  BY <1>3, <1>4, <1>5, <1>6, <1>7 DEF WatcherInv, ResumesOk

\* What a scope has in memory once it has loaded the row.
LEMMA LoadedIs ==
  ASSUME contexts \in Context, ContextOk(contexts, stopped), stopped \in BOOLEAN,
         contexts.writing = "none"
  PROVE  /\ Loaded \in Context /\ Loaded.state \in BOOLEAN
         /\ Loaded.writing = "none" /\ ~Loaded.active /\ Loaded.told = contexts.told
         /\ contexts.told => Loaded.state = stopped /\ Loaded.saved \in {None, stopped}
<1>1. CASE contexts.state # None
  <2>1. Loaded = contexts
    BY <1>1 DEF Loaded
  <2>2. QED
    BY <1>1, <2>1 DEF Context, ContextOk
<1>2. CASE contexts.state = None
  <2>1. PICK x : x = [contexts EXCEPT !.state = stopped]
    OBVIOUS
  <2>2. /\ x \in Context /\ x.state = stopped /\ x.writing = contexts.writing
        /\ x.active = contexts.active /\ x.told = contexts.told
    BY <2>1 DEF Context
  <2>3. Loaded = [x EXCEPT !.saved = stopped]
    BY <1>2, <2>1 DEF Loaded, Context
  <2>4. QED
    BY <2>2, <2>3 DEF Context, ContextOk
<1>3. QED
  BY <1>1, <1>2

LEMMA SavingIs ==
  ASSUME contexts \in Context, ContextOk(contexts, stopped), stopped \in BOOLEAN,
         contexts.writing = "none", NEW task \in Task
  PROVE  /\ Saving(task) \in Context /\ Saving(task).state \in BOOLEAN
         /\ Saving(task).writing = "none" /\ ~Saving(task).active
         /\ Saving(task).told = contexts.told /\ Saving(task).saved = Loaded.saved
         /\ task = "stop" => Saving(task).state
         /\ task \in {"resume", "replace"} => ~Saving(task).state
         /\ task = "continue" => Saving(task).state = Loaded.state
<1>1. PICK x \in Context : x = Loaded
  BY LoadedIs
<1>2. /\ x.state \in BOOLEAN /\ x.writing = "none" /\ ~x.active /\ x.told = contexts.told
  BY <1>1, LoadedIs
<1>3. PICK v \in BOOLEAN : v = (task = "stop")
  OBVIOUS
<1>4. PICK w \in BOOLEAN : w = IF task = "continue" THEN x.state ELSE v
  BY <1>2
<1>5. Saving(task) = [x EXCEPT !.state = w]
  BY <1>1, <1>3, <1>4 DEF Saving
<1>6. PICK y : y = [x EXCEPT !.state = w]
  OBVIOUS
<1>7. /\ y \in Context /\ y.state = w /\ y.writing = x.writing /\ y.active = x.active
      /\ y.told = x.told /\ y.saved = x.saved
  BY <1>6 DEF Context
<1>8. /\ task = "stop" => w
      /\ task \in {"resume", "replace"} => ~w
      /\ task = "continue" => w = x.state
  BY <1>3, <1>4
<1>9. QED
  BY <1>1, <1>2, <1>5, <1>6, <1>7, <1>8

\* onTask(), at once or when the write of the task is answered: the runtime
\* hears what the row says, or nobody promised that it did.
LEMMA OnTaskStep ==
  ASSUME WatcherInv, NEW task \in Task, NEW off \in BOOLEAN, OnTask(task, off),
         Watches(runtime.disposed, known),
         UNCHANGED <<stopped, nature, known, there, gets, token, dispatch, late>>,
         UNCHANGED left \/ \E kind : Spend(kind),
         contexts' \in Context, ContextOk(contexts', stopped), ~contexts'.active,
         contexts'.told => off = stopped,
         task = "continue" /\ ~off => /\ contexts'.told => contexts.told
                                      /\ contexts.writing \notin {"resume", "replace"}
  PROVE  WatcherInv'
<1>1. /\ RuntimeInv /\ resumes \in [Call -> Resume] /\ runtime.made \in Nat
      /\ runtime \in RuntimeState /\ report \in [Object -> Report]
      /\ runtime.epoch \in Nat /\ stopped \in BOOLEAN /\ LaneOk(runtime, FALSE, 0)
      /\ there # "gone" /\ ~runtime.disposed
  BY InvTypes, WatcherFacts DEF Watches
<1>2. /\ WatcherTypes' /\ NameOk(nature', known') /\ AtWork'
      /\ stopped' \in BOOLEAN /\ ContextOk(contexts', stopped')
  BY <1>1, WatcherFacts, SpendKeeps DEF WatcherTypes, AtWork
<1>3. CASE Replaced
  <2>1. /\ RuntimeInv' /\ UNCHANGED resumes
        /\ report' = [o \in Object |-> IF report[o].state \in {"dropped", "missed"}
                                       THEN [report[o] EXCEPT !.state = "past"] ELSE report[o]]
    BY <1>1, <1>2, <1>3, ReplaceStep DEF Replaced, Forgotten
  <2>2. runtime'.epoch = 0 /\ runtime'.made = runtime.made /\ runtime'.disposed = runtime.disposed
    <3>1. runtime' = Bare(runtime.disposed, runtime.made)
      BY <1>3 DEF Replaced, Forgotten, Bare
    <3>2. runtime.made \in Epoch /\ runtime.disposed \in BOOLEAN
      BY <1>1 DEF RuntimeState
    <3>3. QED
      BY <3>1, <3>2, Blank
  <2>3. ASSUME NEW c \in Call
        PROVE  ResumeOk(resumes'[c], runtime', known', Holds')
    BY <2>1, <2>2 DEF WatcherInv, ResumesOk, ResumeOk
  <2>4. \A o \in Object : report'[o].state # "dropped"
    BY <1>1, <2>1 DEF Report
  <2>5. ResumesOk' /\ HeldBackOk'
    BY <2>3, <2>4 DEF ResumesOk, HeldBackOk
  <2>6. WatchOk(known', there', token', dispatch'.timer, runtime', late')
    BY <1>1, <2>2 DEF WatchOk
  <2>7. QED
    BY <1>2, <2>1, <2>5, <2>6 DEF WatcherInv
<1>4. CASE off /\ Paused /\ UNCHANGED <<pass, resumes, report>>
  <2>1. stopped' \/ ~contexts'.told
    BY <1>4
  <2>2. RuntimeInv' /\ UNCHANGED resumes
    BY <1>1, <1>2, <1>4, <2>1, PausedStep
  <2>3. /\ runtime'.paused /\ runtime'.epoch = runtime.epoch /\ runtime'.made = runtime.made
        /\ runtime'.disposed = runtime.disposed
    BY <1>1, <1>4 DEF Paused, RuntimeState
  <2>4. ASSUME NEW c \in Call
        PROVE  ResumeOk(resumes'[c], runtime', known', Holds')
    BY <2>2, <2>3 DEF WatcherInv, ResumesOk, ResumeOk
  <2>5. ResumesOk' /\ HeldBackOk'
    BY <2>1, <2>4 DEF ResumesOk, HeldBackOk, Goes
  <2>6. WatchOk(known', there', token', dispatch'.timer, runtime', late')
    BY <1>1, <2>3 DEF WatchOk
  <2>7. QED
    BY <1>2, <2>2, <2>5, <2>6 DEF WatcherInv
<1>5. ASSUME NEW c \in Call, Resumed(c), ~off
      PROVE  WatcherInv'
  <2> DEFINE r == [runtime EXCEPT !.paused = FALSE]
  <2>0. ~Holds'
    BY <1>5 DEF Holds
  <2>1. RuntimeInv'
    BY <1>1, <1>2, <1>5, <2>0, ResumedStep
  <2>2. r \in RuntimeState /\ LaneOk(r, FALSE, 0) /\ r.epoch = runtime.epoch /\ r.made = runtime.made
        /\ r.disposed = runtime.disposed
    BY <1>1 DEF RuntimeState, LaneOk
  <2>3. /\ runtime' = Scoped(r) /\ MayScope /\ UNCHANGED report
        /\ resumes' = [resumes EXCEPT ![c] = [NoResume EXCEPT !.stage = "listing", !.epoch = runtime'.epoch]]
    BY <1>5 DEF Resumed
  <2> HIDE DEF r
  <2>4. /\ runtime' \in RuntimeState /\ runtime'.epoch # 0 /\ runtime'.disposed = runtime.disposed
        /\ runtime.epoch # 0 => runtime'.epoch = runtime.epoch /\ runtime'.made = runtime.made
        /\ runtime.epoch = 0 => runtime'.epoch = runtime.made + 1 /\ runtime'.made = runtime.made + 1
    BY <2>2, <2>3, ScopedIsNew DEF MayScope
  <2> DEFINE q == [NoResume EXCEPT !.stage = "listing", !.epoch = runtime'.epoch]
  <2>5. q.stage = "listing" /\ q.epoch = runtime'.epoch
    BY DEF NoResume
  <2>6. \A d \in Call : resumes'[d] = IF d = c THEN q ELSE resumes[d]
    BY <1>1, <2>3
  <2> HIDE DEF q
  <2>7. ASSUME NEW d \in Call
        PROVE  ResumeOk(resumes'[d], runtime', known', Holds')
    <3>1. CASE d = c
      <4>1. runtime'.epoch <= runtime'.made
        BY <1>1, <2>4 DEF LaneOk
      <4>2. QED
        BY <2>0, <2>4, <2>5, <2>6, <3>1, <4>1 DEF ResumeOk
    <3>2. CASE d # c
      <4>1. resumes'[d] = resumes[d] /\ resumes[d].epoch \in Nat
        BY <1>1, <2>6, <3>2 DEF Resume, Epoch
      <4>2. ResumeOk(resumes[d], runtime, known, Holds)
        BY DEF WatcherInv, ResumesOk
      <4>3. Watches(runtime'.disposed, known')
        BY <2>4
      <4>4. runtime.made <= runtime'.made
        BY <1>1, <2>4
      <4>5. runtime'.made \in Nat
        BY <1>1, <2>4
      <4>6. resumes[d].stage # "none" => resumes[d].epoch # 0 /\ resumes[d].epoch <= runtime'.made
        BY <1>1, <4>1, <4>2, <4>4, <4>5 DEF ResumeOk
      <4>7. QED
        BY <2>0, <4>1, <4>3, <4>6 DEF ResumeOk
    <3>3. QED
      BY <3>1, <3>2
  <2>8. HeldBackOk'
    <3>1. \A o \in Object : Fetches(resumes'[c], o)
      BY <2>5, <2>6 DEF Fetches
    <3>2. QED
      BY <3>1 DEF HeldBackOk
  <2>9. WatchOk(known', there', token', dispatch'.timer, runtime', late')
    BY <1>1, <2>4 DEF WatchOk
  <2>10. QED
    BY <1>2, <2>1, <2>7, <2>8, <2>9 DEF WatcherInv, ResumesOk
<1>6. CASE task = "continue" /\ ~off /\ UNCHANGED effects
  <2>1. ~Holds' /\ (Goes' => Goes)
    BY <1>6 DEF Holds, Goes, Ending
  <2>2. QED
    BY <1>2, <1>6, <2>1, ContextMoves DEF WatcherTypes
<1>7. QED
  BY <1>3, <1>4, <1>5, <1>6 DEF OnTask

\* A checkpoint that saves nothing: the task is what the row says.
LEMMA KeptStep ==
  ASSUME WatcherInv, NEW task \in Task, CheckpointKept(task)
  PROVE  WatcherInv'
<1>1. /\ Spend("tasks") /\ contexts.writing = "none" /\ Watches(runtime.disposed, known)
      /\ Saving(task).state = Loaded.saved /\ contexts' = Saving(task)
      /\ OnTask(task, contexts'.state)
      /\ UNCHANGED <<stopped, nature, known, there, gets, token, dispatch, late>>
  BY WatchedIs DEF CheckpointKept, MayCheckpoint
<1>2. contexts \in Context /\ ContextOk(contexts, stopped) /\ stopped \in BOOLEAN
  BY WatcherFacts, InvTypes
<1>3. /\ contexts' \in Context /\ contexts'.state \in BOOLEAN
      /\ contexts'.writing = "none" /\ ~contexts'.active
      /\ contexts'.told = contexts.told /\ contexts'.saved = contexts'.state
      /\ contexts.told => contexts'.saved \in {None, stopped}
  BY <1>1, <1>2, SavingIs, LoadedIs
<1>4. contexts'.told => contexts'.state = stopped
  BY <1>2, <1>3
<1>5. ContextOk(contexts', stopped)
  BY <1>3, <1>4 DEF ContextOk
<1>6. QED
  BY <1>1, <1>3, <1>4, <1>5, OnTaskStep

\* A checkpoint posts its write.
LEMMA WritesStep ==
  ASSUME WatcherInv, NEW task \in Task, CheckpointWrites(task)
  PROVE  WatcherInv'
<1>1. contexts.writing = "none" /\ Watches(runtime.disposed, known)
      /\ UNCHANGED <<effects, nature, known, there, gets, token, dispatch, late>>
  BY WatchedIs DEF CheckpointWrites, MayCheckpoint
<1>2. PICK done \in BOOLEAN, ok \in BOOLEAN :
        /\ ok => done
        /\ left.tasks > 0 /\ (ok \/ left.faults > 0)
        /\ left' = [left EXCEPT !.tasks = @ - 1, !.faults = IF ok THEN @ ELSE @ - 1]
        /\ contexts' = [Saving(task) EXCEPT !.writing = task, !.value = Saving(task).state,
                                           !.ok = ok, !.active = TRUE]
        /\ stopped' = IF done THEN contexts'.value ELSE stopped
  BY DEF CheckpointWrites
<1>3. LeftOk(nature, left')
  BY <1>2, WatcherFacts, WriteSpends DEF WatcherTypes
<1>4. contexts \in Context /\ ContextOk(contexts, stopped) /\ stopped \in BOOLEAN
  BY WatcherFacts, InvTypes
<1>5. PICK s \in Context : s = Saving(task)
  BY <1>1, <1>4, SavingIs
<1>6. /\ s.state \in BOOLEAN /\ s.told = contexts.told
      /\ task = "stop" => s.state
      /\ task \in {"resume", "replace"} => ~s.state
      /\ contexts.told => s.saved \in {None, stopped}
      /\ task = "continue" /\ contexts.told => s.state = stopped
  BY <1>1, <1>4, <1>5, SavingIs, LoadedIs
<1>7. /\ contexts' \in Context
      /\ contexts'.state = s.state /\ contexts'.saved = s.saved /\ contexts'.told = s.told
      /\ contexts'.writing = task /\ contexts'.value = s.state /\ contexts'.ok = ok /\ contexts'.active
  <2>1. PICK x : x = [s EXCEPT !.writing = task, !.value = s.state]
    OBVIOUS
  <2>2. /\ x \in Context /\ x.state = s.state /\ x.saved = s.saved /\ x.told = s.told
        /\ x.writing = task /\ x.value = s.state
    BY <1>6, <2>1 DEF Context
  <2>3. contexts' = [x EXCEPT !.ok = ok, !.active = TRUE]
    BY <1>2, <1>5, <2>1
  <2>4. QED
    BY <2>2, <2>3 DEF Context
<1>8. stopped' \in BOOLEAN /\ (ok => stopped' = s.state) /\ stopped' \in {stopped, s.state}
  BY <1>2, <1>4, <1>6, <1>7
<1>9. ContextOk(contexts', stopped')
  BY <1>6, <1>7, <1>8 DEF ContextOk, Task
<1>10. (Holds' => Holds) /\ (Goes' => Goes)
  BY <1>1, <1>4, <1>6, <1>7, <1>8 DEF Holds, Goes, Ending, Task
<1>11. QED
  BY <1>1, <1>3, <1>7, <1>8, <1>9, <1>10, ContextMoves

\* The write is answered, or its answer is lost.
LEMMA WrittenStep ==
  ASSUME WatcherInv, CheckpointWritten
  PROVE  WatcherInv'
<1>1. /\ contexts.writing # "none" /\ UNCHANGED <<stopped, watcherVars>>
      /\ IF contexts.ok /\ IsWatched(known) THEN OnTask(contexts.writing, contexts.value)
         ELSE UNCHANGED effects
  BY DEF CheckpointWritten
<1>2. /\ contexts \in Context /\ ContextOk(contexts, stopped) /\ stopped \in BOOLEAN
      /\ contexts.active => IsWatched(known)
  BY WatcherFacts, InvTypes, WatchedIs DEF WatcherInv, AtWork
<1>3. PICK saved \in BOOLEAN \cup {None} :
        saved = IF contexts.active /\ contexts.ok THEN contexts.value ELSE contexts.saved
  BY <1>2 DEF Context
<1>4. PICK told \in BOOLEAN :
        told = IF contexts.ok
               THEN contexts.told \/ (IsWatched(known) /\ (contexts.writing # "continue" \/ contexts.value))
               ELSE contexts.told /\ (contexts.active => contexts.writing = "continue")
  OBVIOUS
<1>5. contexts' = [NoContext EXCEPT !.state = contexts.state, !.saved = saved, !.told = told]
  BY <1>3, <1>4 DEF CheckpointWritten
<1>6. /\ contexts' \in Context
      /\ contexts'.state = contexts.state /\ contexts'.saved = saved /\ contexts'.told = told
      /\ contexts'.writing = "none" /\ ~contexts'.active
  BY <1>2, <1>5 DEF NoContext, Context
<1>7. ContextOk(contexts', stopped)
  <2>1. told => contexts.state \in {None, stopped} /\ saved \in {None, stopped}
    BY <1>1, <1>2, <1>3, <1>4 DEF ContextOk
  <2>2. contexts.state = None => saved = None
    BY <1>2, <1>3 DEF ContextOk, Context
  <2>3. QED
    BY <1>6, <2>1, <2>2 DEF ContextOk
<1>8. UNCHANGED <<stopped, nature, known, there, gets, token, dispatch, late, left>>
  BY <1>1 DEF watcherVars
<1>9. CASE contexts.ok /\ IsWatched(known)
  <2>1. contexts.value = stopped /\ contexts.writing \in Task /\ contexts.value \in BOOLEAN
    BY <1>1, <1>2, <1>9 DEF ContextOk, Context
  <2>2. contexts.writing = "continue" /\ ~contexts.value => (told => contexts.told)
    BY <1>4, <1>9
  <2>3. Watches(runtime.disposed, known)
    BY <1>9, WatchedIs
  <2>4. QED
    BY <1>1, <1>6, <1>7, <1>8, <1>9, <2>1, <2>2, <2>3, OnTaskStep
<1>10. CASE ~(contexts.ok /\ IsWatched(known))
  <2>1. told => contexts.told /\ (contexts.active => contexts.writing = "continue")
    BY <1>2, <1>4, <1>10
  <2>2. (Holds' => Holds) /\ (Goes' => Goes)
    BY <1>6, <1>8, <2>1 DEF Holds, Goes, Ending
  <2>3. LeftOk(nature, left')
    BY <1>8, WatcherFacts DEF WatcherTypes
  <2>4. QED
    BY <1>1, <1>2, <1>6, <1>7, <1>8, <1>10, <2>2, <2>3, ContextMoves
<1>11. QED
  BY <1>9, <1>10

\* A capture writes the task as it is in memory.
LEMMA CaptureStep ==
  ASSUME WatcherInv, Capture
  PROVE  WatcherInv'
<1>1. contexts.writing = "none"
      /\ UNCHANGED <<effects, nature, known, there, gets, token, dispatch, late>>
  BY DEF Capture
<1>2. contexts \in Context /\ ContextOk(contexts, stopped) /\ stopped \in BOOLEAN
  BY WatcherFacts, InvTypes
<1>3. PICK x \in Context : x = Loaded
  BY <1>1, <1>2, LoadedIs
<1>4. /\ x.state \in BOOLEAN /\ x.writing = "none" /\ ~x.active /\ x.told = contexts.told
      /\ contexts.told => x.state = stopped /\ x.saved \in {None, stopped}
  BY <1>1, <1>2, <1>3, LoadedIs
<1>5. LeftOk(nature, left')
  <2>1. (UNCHANGED left \/ \E kind : Spend(kind)) /\ UNCHANGED nature
    BY <1>1 DEF Capture
  <2>2. QED
    BY <2>1, WatcherFacts, SpendKeeps DEF WatcherTypes
<1>6. /\ contexts' = x \/ contexts' = [x EXCEPT !.saved = x.state]
      /\ stopped' \in {stopped, x.state}
      /\ contexts' # x => stopped' = x.state
  BY <1>3 DEF Capture
<1>7. /\ contexts' \in Context
      /\ contexts'.state = x.state /\ contexts'.told = x.told
      /\ contexts'.saved \in {x.saved, x.state}
      /\ contexts'.writing = "none" /\ ~contexts'.active
  BY <1>4, <1>6 DEF Context
<1>8. stopped' \in BOOLEAN /\ (contexts.told => stopped' = stopped)
  BY <1>2, <1>4, <1>6
<1>9. ContextOk(contexts', stopped')
  BY <1>4, <1>7, <1>8 DEF ContextOk
<1>10. (Holds' => Holds) /\ (Goes' => Goes)
  BY <1>1, <1>4, <1>7, <1>8 DEF Holds, Goes, Ending
<1>11. QED
  BY <1>1, <1>5, <1>7, <1>8, <1>9, <1>10, ContextMoves

LEMMA DisposedStep ==
  ASSUME WatcherInv, Disposed
  PROVE  WatcherInv'
<1>1. /\ Dispose /\ known' = {} /\ token' = 0 /\ dispatch' = NoDispatch
      /\ contexts' = Released /\ report' = LeftBehind
      /\ UNCHANGED <<stopped, nature, there, gets, late>> /\ \E kind : Spend(kind)
  BY DEF Disposed
<1>2. RuntimeInv' /\ UNCHANGED resumes
  BY <1>1, WatcherFacts, ForgottenStep DEF Dispose
<1>3. runtime'.epoch = 0 /\ runtime'.made = runtime.made
  <2>1. runtime' = Bare(TRUE, runtime.made)
    BY <1>1 DEF Dispose, Bare
  <2>2. runtime.made \in Epoch
    BY WatcherFacts DEF RuntimeState
  <2>3. QED
    BY <2>1, <2>2, Blank
<1>4. ASSUME NEW c \in Call
      PROVE  ResumeOk(resumes'[c], runtime', known', Holds')
  BY <1>2, <1>3 DEF WatcherInv, ResumesOk, ResumeOk
<1>5. ResumesOk' /\ HeldBackOk' /\ AtWork'
  <2>1. HeldBackOk' /\ AtWork'
    BY <1>1, WatcherFacts, InvTypes, LeftBehindIsTyped, ReleasedIsOk DEF HeldBackOk, Goes, AtWork
  <2>2. QED
    BY <1>4, <2>1 DEF ResumesOk
<1>6. WatchOk(known', there', token', dispatch'.timer, runtime', late')
  BY <1>1, <1>3 DEF WatchOk, NoDispatch, Watches
<1>7. WatcherTypes'
  BY <1>1, WatcherFacts, SpendKeeps DEF WatcherTypes, NoDispatch, Timers
<1>8. NameOk(nature', known')
  BY <1>1 DEF NameOk
<1>9. QED
  BY <1>2, <1>5, <1>6, <1>7, <1>8 DEF WatcherInv

LEMMA RestartStep ==
  ASSUME WatcherInv, Crash
  PROVE  WatcherInv'
<1>1. /\ known' = {} /\ token' = 0 /\ dispatch' = NoDispatch /\ late' = FALSE
      /\ gets' = [g \in Get |-> IF gets[g] = "none" THEN "none" ELSE "missing"]
      /\ UNCHANGED <<stopped, nature, there>> /\ \E kind : Spend(kind)
      /\ runtime' = [NoRuntime EXCEPT !.made = runtime.made]
      /\ resumes' = [c \in Call |-> NoResume]
      /\ contexts' = NoContext
      /\ report' = [o \in Object |->
           IF report[o].state = "saved" THEN [report[o] EXCEPT !.state = "past"] ELSE LeftBehind[o]]
  BY DEF Crash
<1>2. RuntimeInv' /\ RuntimeInv
  BY WatcherFacts, CrashStep
<1>3. runtime'.epoch = 0
  BY <1>1 DEF NoRuntime
<1>4. ResumesOk'
  BY <1>1 DEF ResumesOk, ResumeOk, NoResume
<1>5. HeldBackOk' /\ AtWork'
  <2>1. /\ report \in [Object -> Report]
        /\ \A o \in Object : ~stopped => LeftBehind[o].state # "dropped"
    BY <1>2, InvTypes, LeftBehindIsTyped
  <2>2. \A o \in Object : ~stopped => report'[o].state # "dropped"
    BY <1>1, <2>1 DEF Report
  <2>3. QED
    BY <1>1, <2>2 DEF HeldBackOk, Goes, AtWork, NoContext
<1>6. WatchOk(known', there', token', dispatch'.timer, runtime', late')
  BY <1>1, <1>3 DEF WatchOk, NoDispatch, Watches
<1>7. WatcherTypes'
  <2>1. gets' \in [Get -> {"none", "asked", "found", "missing"}]
    BY <1>1
  <2>2. LeftOk(nature', left')
    BY <1>1, WatcherFacts, SpendKeeps DEF WatcherTypes
  <2>3. dispatch' \in Timers /\ token' \in 0..MaxGets
    BY <1>1 DEF NoDispatch, Timers
  <2>4. QED
    BY <1>1, <2>1, <2>2, <2>3, WatcherFacts DEF WatcherTypes
<1>8. NameOk(nature', known')
  BY <1>1 DEF NameOk
<1>9. QED
  BY <1>2, <1>4, <1>5, <1>6, <1>7, <1>8 DEF WatcherInv

LEMMA TimePasses ==
  ASSUME WatcherInv, Clock
  PROVE  WatcherInv'
<1>1. /\ Tick \/ UNCHANGED vars
      /\ dispatch' = [timer |-> Less(dispatch.timer), suppress |-> Less(dispatch.suppress)]
      /\ UNCHANGED <<runtimeVars, nature, known, there, gets, token, late, left>>
  BY DEF Clock
<1>2. RuntimeInv' /\ Carries /\ SameEpoch
  BY <1>1, WatcherFacts, ClockStep DEF Carries, SameEpoch, runtimeVars
<1>3. dispatch' \in Timers /\ (dispatch'.timer # None => dispatch.timer # None)
  <2>1. dispatch.timer \in 0..MaxDispatch \cup {None} /\ dispatch.suppress \in 0..MaxSuppress
        /\ MaxSuppress \in Nat
    BY WatcherFacts DEF WatcherTypes, Timers
  <2>2. /\ Less(dispatch.timer) \in 0..MaxDispatch \cup {None}
        /\ Less(dispatch.timer) # None => dispatch.timer # None
    BY <2>1 DEF Less
  <2>3. Less(dispatch.suppress) \in 0..MaxSuppress
    BY <2>1 DEF Less
  <2>4. QED
    BY <1>1, <2>2, <2>3 DEF Timers
<1>4. WatcherTypes'
  BY <1>1, <1>3, WatcherFacts, SpendKeeps DEF WatcherTypes
<1>5. QED
  BY <1>1, <1>2, <1>3, <1>4, WatcherFacts, WatcherMoves

-----------------------------------------------------------------------------
\* The runtime's own steps.

\* A step of a pass: the session keeps its epoch, and a pause that it finds
\* is that of a task that is stopped.
LEMMA PassStepCarries ==
  ASSUME RuntimeInv, NEW o \in Object, PassStep(o) \/ HistoryRead(o) \/ Save(o)
  PROVE  /\ RuntimeInv' /\ SameEpoch /\ UNCHANGED <<stopped, contexts, resumes>>
         /\ runtime'.disposed = runtime.disposed
         /\ runtime'.paused = runtime.paused \/ runtime'.paused
         /\ Goes => \A p \in Object : report'[p].state = "dropped" => report[p].state = "dropped"
<1>0. /\ runtime \in RuntimeState /\ report \in [Object -> Report] /\ PausedOk
  BY InvTypes DEF RuntimeInv
<1>1. CASE TaskRead(o)
  <2>1. RuntimeInv' /\ UNCHANGED <<stopped, contexts, resumes, report>>
    BY <1>1, TaskReadStep DEF TaskRead
  <2>2. \/ UNCHANGED runtime
        \/ runtime' = [runtime EXCEPT !.paused = TRUE]
        \/ runtime' = [runtime EXCEPT !.lane = runtime.epoch]
    BY <1>1 DEF TaskRead, Paused
  <2>3. QED
    BY <1>0, <2>1, <2>2 DEF SameEpoch, RuntimeState
<1>2. CASE Recovered(o)
  BY <1>2, RecoveredStep DEF Recovered, SameEpoch
<1>3. CASE ReadFails(o)
  BY <1>3, ReadFailsStep DEF ReadFails, SameEpoch
<1>4. CASE ReviewEnds(o)
  BY <1>4, ReviewEndsStep DEF ReviewEnds, SameEpoch
<1>5. CASE Settles(o)
  BY <1>5, SettlesStep DEF Settles, SameEpoch
<1>6. CASE TimerFires(o)
  BY <1>6, TimerStep DEF TimerFires, SameEpoch
<1>7. CASE HistoryRead(o)
  <2>1. RuntimeInv' /\ UNCHANGED <<stopped, contexts, resumes, report>>
        /\ runtime' = [runtime EXCEPT !.watched = TRUE]
    BY <1>7, HistoryReadStep DEF HistoryRead
  <2>2. QED
    BY <1>0, <2>1 DEF SameEpoch, RuntimeState
<1>8. CASE Save(o)
  <2>1. RuntimeInv' /\ UNCHANGED <<stopped, contexts, resumes, runtime>>
        /\ report' = [report EXCEPT ![o] = [state |-> "saved", epoch |-> pass[o].epoch]]
    BY <1>8, SaveStep DEF Save
  <2>2. QED
    BY <1>0, <2>1 DEF SameEpoch
<1>9. CASE Emit(o)
  <2>1. RuntimeInv' /\ UNCHANGED <<stopped, contexts, resumes, runtime>>
    BY <1>9, EmitStep DEF Emit
  <2>2. PICK to \in {"past", "dropped", "handed"} :
          /\ report' = [report EXCEPT ![o].state = to]
          /\ to = "dropped" => runtime.paused
    BY <1>9 DEF Emit
  <2>3. Goes => to # "dropped"
    BY <1>0, <2>2 DEF PausedOk
  <2>4. \A p \in Object : report'[p].state = IF p = o THEN to ELSE report[p].state
    BY <1>0, <2>2 DEF Report
  <2>5. QED
    BY <2>1, <2>3, <2>4 DEF SameEpoch
<1>10. QED
  BY <1>1, <1>2, <1>3, <1>4, <1>5, <1>6, <1>7, <1>8, <1>9 DEF PassStep

LEMMA PassKeeps ==
  ASSUME WatcherInv, NEW o \in Object, PassStep(o) \/ HistoryRead(o) \/ Save(o),
         UNCHANGED <<nature, known, there, gets, token, dispatch, late>>,
         UNCHANGED left \/ \E kind : Spend(kind)
  PROVE  WatcherInv'
<1>1. /\ RuntimeInv' /\ SameEpoch /\ UNCHANGED <<stopped, contexts, resumes>>
      /\ runtime'.disposed = runtime.disposed
      /\ runtime'.paused = runtime.paused \/ runtime'.paused
      /\ Goes => \A p \in Object : report'[p].state = "dropped" => report[p].state = "dropped"
      /\ Goes' = Goes /\ Holds' = Holds
  BY WatcherFacts, PassStepCarries, TaskStays
<1>2. ASSUME NEW c \in Call
      PROVE  ResumeOk(resumes'[c], runtime', known', Holds')
  BY <1>1 DEF WatcherInv, ResumesOk, ResumeOk, SameEpoch
<1>3. HeldBackOk' /\ AtWork'
  BY <1>1 DEF WatcherInv, HeldBackOk, AtWork
<1>4. WatchOk(known', there', token', dispatch'.timer, runtime', late')
  BY <1>1 DEF WatcherInv, WatchOk, SameEpoch
<1>5. WatcherTypes'
  BY WatcherFacts, SpendKeeps DEF WatcherTypes
<1>6. QED
  BY <1>1, <1>2, <1>3, <1>4, <1>5 DEF WatcherInv, ResumesOk

\* The steps of a resume.
LEMMA ResumeKeeps ==
  ASSUME WatcherInv, NEW c \in Call, ResumeStep(c),
         late' = (late \/ (runtime.epoch = 0 /\ runtime'.epoch # 0)),
         UNCHANGED <<nature, known, there, gets, token, dispatch, left>>
  PROVE  WatcherInv'
<1>1. /\ RuntimeInv /\ resumes \in [Call -> Resume] /\ report \in [Object -> Report]
      /\ runtime \in RuntimeState /\ runtime.made \in Nat /\ ReportsOk /\ PausedOk
      /\ LaneOk(runtime, FALSE, 0)
  BY InvTypes, WatcherFacts DEF RuntimeInv
<1>2. WatcherTypes'
  <2>1. late' \in BOOLEAN
    OBVIOUS
  <2>2. QED
    BY <2>1, WatcherFacts, SpendKeeps DEF WatcherTypes
<1>3. /\ \A o \in Object : Missed(report)[o].state # "dropped"
  BY <1>1, MissedIsTyped
<1>4. CASE ResumeLists(c) \/ ResumeFails(c) \/ ResumeEmits(c)
  <2>1. /\ RuntimeInv' /\ UNCHANGED <<stopped, contexts, runtime>>
        /\ Holds' = Holds /\ Goes' = Goes /\ AtWork'
    BY <1>1, <1>4, ResumeStays, TaskStays DEF ResumeLists, ResumeFails, ResumeEmits, WatcherInv, AtWork
  <2>2. WatchOk(known', there', token', dispatch'.timer, runtime', late')
    BY <2>1 DEF WatcherInv, WatchOk
  <2>3. CASE ResumeLists(c)
    <3>1. /\ resumes[c].stage = "listing" /\ UNCHANGED report
          /\ resumes' = [resumes EXCEPT ![c].stage = "listed", ![c].listed = Stored]
      BY <2>3 DEF ResumeLists
    <3>2. PICK q : q = [[resumes[c] EXCEPT !.stage = "listed"] EXCEPT !.listed = Stored]
      OBVIOUS
    <3>3. resumes' = [resumes EXCEPT ![c] = q]
      BY <1>1, <3>1, <3>2
    <3>4. q.stage = "listed" /\ q.listed = Stored /\ q.epoch = resumes[c].epoch
      BY <1>1, <3>2 DEF Resume
    <3>5. ASSUME NEW d \in Call
          PROVE  ResumeOk(resumes'[d], runtime', known', Holds')
      <4>1. CASE d = c
        BY <1>1, <2>1, <3>1, <3>3, <3>4, <4>1 DEF WatcherInv, ResumesOk, ResumeOk
      <4>2. CASE d # c
        BY <1>1, <2>1, <3>3, <4>2 DEF WatcherInv, ResumesOk, ResumeOk
      <4>3. QED
        BY <4>1, <4>2
    <3>6. HeldBackOk'
      <4>1. ASSUME NEW o \in Object, Goes, report[o].state = "dropped"
            PROVE  Fetches(resumes'[c], o)
        BY <1>1, <3>3, <3>4, <4>1 DEF Fetches, Stored
      <4>2. QED
        BY <2>1, <3>1, <4>1 DEF HeldBackOk
    <3>7. QED
      BY <1>2, <2>1, <2>2, <3>5, <3>6, WatcherFacts DEF WatcherInv, ResumesOk
  <2>4. CASE resumes' = [resumes EXCEPT ![c] = NoResume] /\ report' = Missed(report)
    <3>1. ASSUME NEW d \in Call
          PROVE  ResumeOk(resumes'[d], runtime', known', Holds')
      <4>1. CASE d = c
        BY <1>1, <2>4, <4>1 DEF ResumeOk, NoResume
      <4>2. CASE d # c
        BY <1>1, <2>1, <2>4, <4>2 DEF WatcherInv, ResumesOk, ResumeOk
      <4>3. QED
        BY <4>1, <4>2
    <3>2. HeldBackOk'
      BY <1>3, <2>4 DEF HeldBackOk
    <3>3. QED
      BY <1>2, <2>1, <2>2, <3>1, <3>2, WatcherFacts DEF WatcherInv, ResumesOk
  <2>5. CASE /\ resumes[c].stage = "listed"
             /\ resumes' = [resumes EXCEPT ![c].stage = "giving"]
             /\ report' = [o \in Object |->
                  IF o \in resumes[c].listed /\ ~runtime.paused /\ report[o].state # "past"
                  THEN [report[o] EXCEPT !.state = "handed"] ELSE report[o]]
    <3>1. PICK q : q = [resumes[c] EXCEPT !.stage = "giving"]
      OBVIOUS
    <3>2. resumes' = [resumes EXCEPT ![c] = q] /\ q.stage = "giving" /\ q.epoch = resumes[c].epoch
      BY <1>1, <2>5, <3>1 DEF Resume
    <3>3. ASSUME NEW d \in Call
          PROVE  ResumeOk(resumes'[d], runtime', known', Holds')
      <4>1. CASE d = c
        BY <1>1, <2>1, <2>5, <3>2, <4>1 DEF WatcherInv, ResumesOk, ResumeOk
      <4>2. CASE d # c
        BY <1>1, <2>1, <3>2, <4>2 DEF WatcherInv, ResumesOk, ResumeOk
      <4>3. QED
        BY <4>1, <4>2
    <3>4. HeldBackOk'
      <4>1. ASSUME NEW o \in Object, Goes, report'[o].state = "dropped"
            PROVE  \E d \in Call : Fetches(resumes'[d], o)
        <5>1. ~runtime.paused
          BY <1>1, <4>1 DEF PausedOk
        <5>2. report[o].state = "dropped" /\ o \notin resumes[c].listed
          BY <1>1, <2>5, <4>1, <5>1 DEF Report
        <5>3. PICK d \in Call : Fetches(resumes[d], o)
          BY <4>1, <5>2 DEF WatcherInv, HeldBackOk
        <5>4. d # c
          BY <2>5, <5>2, <5>3 DEF Fetches
        <5>5. QED
          BY <1>1, <3>2, <5>3, <5>4
      <4>2. QED
        BY <2>1, <4>1 DEF HeldBackOk
    <3>5. QED
      BY <1>2, <2>1, <2>2, <3>3, <3>4, WatcherFacts DEF WatcherInv, ResumesOk
  <2>6. QED
    BY <1>4, <2>3, <2>4, <2>5 DEF ResumeFails, ResumeEmits
<1>5. CASE ResumeNotifies(c)
  <2>1. RuntimeInv' /\ UNCHANGED <<stopped, contexts, report>> /\ resumes[c].stage = "giving"
        /\ resumes' = [resumes EXCEPT ![c] = NoResume]
    BY <1>1, <1>5, ResumeNotifiesStep DEF ResumeNotifies
  <2>2. /\ runtime'.paused = runtime.paused /\ runtime'.disposed = runtime.disposed
        /\ SameEpoch \/ NewEpoch
    <3>1. CASE UNCHANGED runtime
      BY <3>1 DEF SameEpoch
    <3>2. CASE MayScope /\ runtime' = Scoped(runtime)
      BY <1>1, <3>2, ScopedIsNew DEF MayScope, SameEpoch, NewEpoch
    <3>3. QED
      BY <1>5, <3>1, <3>2 DEF ResumeNotifies
  <2>3. ASSUME NEW d \in Call
        PROVE  ResumeOk(resumes'[d], runtime', known', Holds')
    <3>1. CASE d = c
      BY <1>1, <2>1, <3>1 DEF ResumeOk, NoResume
    <3>2. CASE d # c
      <4>1. resumes'[d] = resumes[d] /\ resumes[d].epoch \in Nat
        BY <1>1, <2>1, <3>2 DEF Resume, Epoch
      <4>2. ResumeOk(resumes[d], runtime, known, Holds)
        BY DEF WatcherInv, ResumesOk
      <4>3. Holds' = Holds
        BY <2>1, TaskStays
      <4>4. QED
        BY <1>1, <2>1, <2>2, <4>1, <4>2, <4>3 DEF SameEpoch, NewEpoch, ResumeOk
    <3>3. QED
      BY <3>1, <3>2
  <2>4. HeldBackOk' /\ AtWork'
    <3>1. ASSUME NEW o \in Object, NEW d \in Call, Fetches(resumes[d], o)
          PROVE  Fetches(resumes'[d], o)
      <4>1. d # c
        BY <2>1, <3>1 DEF Fetches
      <4>2. QED
        BY <1>1, <2>1, <3>1, <4>1
    <3>2. Goes' = Goes
      BY <2>1, TaskStays
    <3>3. QED
      BY <2>1, <2>2, <3>1, <3>2 DEF WatcherInv, HeldBackOk, AtWork
  <2>5. WatchOk(known', there', token', dispatch'.timer, runtime', late')
    BY <2>2 DEF WatcherInv, WatchOk, SameEpoch, NewEpoch
  <2>6. QED
    BY <1>2, <2>1, <2>3, <2>4, <2>5, WatcherFacts DEF WatcherInv, ResumesOk
<1>6. QED
  BY <1>4, <1>5 DEF ResumeStep

LEMMA RuntimeStepsKeep ==
  ASSUME WatcherInv, RuntimeSteps
  PROVE  WatcherInv'
<1>1. CASE (\E o \in Object : PassStep(o)) /\ UNCHANGED watcherVars
  BY <1>1, PassKeeps DEF watcherVars
<1>2. CASE (\E o \in Object : HistoryRead(o)) /\ UNCHANGED watcherVars
  BY <1>2, PassKeeps DEF watcherVars
<1>3. CASE /\ Spend("reports") /\ \E o \in Object : Save(o)
           /\ UNCHANGED <<nature, known, there, gets, token, dispatch, late>>
  BY <1>3, PassKeeps
<1>4. CASE /\ \E c \in Call : ResumeStep(c)
           /\ late' = (late \/ (runtime.epoch = 0 /\ runtime'.epoch # 0))
           /\ UNCHANGED <<nature, known, there, gets, token, dispatch, left>>
  BY <1>4, ResumeKeeps
<1>5. QED
  BY <1>1, <1>2, <1>3, <1>4 DEF RuntimeSteps

-----------------------------------------------------------------------------
\* The invariant, and what it says.

LEMMA WatcherInitInv ==
  ASSUME WatcherInit
  PROVE  WatcherInv
<1>1. RuntimeInv
  <2>1. /\ Init /\ stopped \in BOOLEAN /\ contexts = NoContext /\ runtime = NoRuntime
        /\ pass = [o \in Object |-> NoPass] /\ resumes = [c \in Call |-> NoResume]
        /\ report = [o \in Object |-> NoReport]
    BY DEF WatcherInit, RuntimeInit
  <2>2. /\ options \in Options /\ made = 0 /\ current = 0 /\ states = [o \in Object |-> NewState]
    BY <2>1 DEF Init
  <2>3. \E n \in Epoch : runtime = [NoRuntime EXCEPT !.made = n]
    <3>1. 0 \in Epoch /\ NoRuntime = [NoRuntime EXCEPT !.made = 0]
      BY DEF Epoch, NoRuntime
    <3>2. QED
      BY <2>1, <3>1
  <2>4. report \in [Object -> Report] /\ \A o \in Object : report[o].state # "saved"
    BY <2>1 DEF NoReport, Report, Epoch
  <2>5. made \in 0..MaxObjects
    BY <2>2
  <2>6. Blanked
    BY <2>1, <2>2, <2>3, <2>4, <2>5 DEF Blanked
  <2>7. QED
    BY <2>6, BlankInv
<1>2. WatcherTypes
  <2>1. PICK b \in Bounds : nature \in b.natures /\ left = b.events
    BY DEF WatcherInit
  <2>2. b.events \in [DOMAIN b.events -> Nat]
    BY <2>1
  <2>3. LeftOk(nature, left)
    BY <2>1, <2>2 DEF LeftOk
  <2>4. gets \in [Get -> {"none", "asked", "found", "missing"}]
    BY DEF WatcherInit
  <2>5. dispatch \in Timers
    <3>1. 0 \in 0..MaxSuppress
      OBVIOUS
    <3>2. QED
      BY <3>1 DEF WatcherInit, NoDispatch, Timers
  <2>6. token \in 0..MaxGets /\ there = "live" /\ known = {} /\ late = FALSE
    BY DEF WatcherInit
  <2>7. QED
    BY <2>3, <2>4, <2>5, <2>6 DEF WatcherTypes
<1>3. NameOk(nature, known) /\ ResumesOk /\ HeldBackOk /\ AtWork
  BY DEF WatcherInit, RuntimeInit, NameOk, ResumesOk, ResumeOk, NoResume, HeldBackOk, NoReport,
         AtWork, NoContext
<1>4. WatchOk(known, there, token, dispatch.timer, runtime, late)
  BY DEF WatcherInit, RuntimeInit, WatchOk, NoRuntime, NoDispatch, Watches
<1>5. QED
  BY <1>1, <1>2, <1>3, <1>4 DEF WatcherInv

LEMMA WatcherNextInv == WatcherInv /\ [WatcherNext]_allVars => WatcherInv'
<1> SUFFICES ASSUME WatcherInv, [WatcherNext]_allVars PROVE WatcherInv'
  OBVIOUS
<1>1. CASE UNCHANGED allVars
  <2>1. Quiet /\ UNCHANGED <<nature, known, there, gets, token, dispatch, late, left>>
    BY <1>1 DEF allVars, watcherVars, Quiet
  <2>2. RuntimeInv' /\ Carries /\ SameEpoch
    BY <2>1, WatcherFacts, QuietCarries DEF Quiet, runtimeVars, SameEpoch
  <2>3. WatcherTypes'
    BY <2>1, WatcherFacts, SpendKeeps DEF WatcherTypes
  <2>4. QED
    BY <2>1, <2>2, <2>3, WatcherFacts, WatcherMoves
<1>2. CASE WatcherNext
  BY <1>2, UpdatedStep, IdleStep, MessageStep, ServedStep, FetchedStep, DeletedStep, LettingGoSteps,
     OverflowStep, SuppressedStep, DispatchFiresStep, KeptStep, WritesStep, WrittenStep, CaptureStep,
     DisposedStep, RestartStep, TimePasses, RuntimeStepsKeep DEF WatcherNext
<1>3. QED
  BY <1>1, <1>2

THEOREM WatcherInvariance == WatcherSpec => []WatcherInv
BY WatcherInitInv, WatcherNextInv, PTL DEF WatcherSpec

-----------------------------------------------------------------------------
\* What follows from the invariant.

LEMMA TypesFollow ==
  ASSUME WatcherInv
  PROVE  TypesOK
<1>1. /\ RuntimeInv /\ WatcherTypes /\ NameOk(nature, known)
  BY WatcherFacts
<1>2. TypeOK /\ RuntimeTypeOK
  BY <1>1, InvariantIsEnough DEF RuntimeInv
<1>3. known \subseteq {"root", "child", "advised", "advisor"}
  BY <1>1 DEF NameOk
<1>4. \E b \in Bounds : /\ nature \in b.natures
                         /\ left \in [DOMAIN b.events -> Nat]
                         /\ \A k \in DOMAIN b.events : left[k] <= b.events[k]
  BY <1>1 DEF WatcherTypes, LeftOk
<1>5. QED
  BY <1>1, <1>2, <1>3, <1>4 DEF TypesOK, WatcherTypes, Timers

LEMMA HeldBackFollows ==
  ASSUME WatcherInv
  PROVE  PausedMeansStopped /\ HeldBackIsShown
<1>1. PausedOk /\ HeldBackOk
  BY DEF WatcherInv, RuntimeInv
<1>2. ASSUME Goes, \A c \in Call : resumes[c].stage = "none"
      PROVE  \A o \in Object : report[o].state # "dropped"
  <2>1. ASSUME NEW o \in Object, report[o].state = "dropped"
        PROVE  FALSE
    <3>1. PICK c \in Call : Fetches(resumes[c], o)
      BY <1>1, <1>2, <2>1 DEF HeldBackOk
    <3>2. QED
      BY <1>2, <3>1 DEF Fetches
  <2>2. QED
    BY <2>1
<1>3. QED
  BY <1>1, <1>2 DEF HeldBackIsShown, PausedMeansStopped, PausedOk, Goes, Ending

LEMMA WatchedFollows ==
  ASSUME WatcherInv
  PROVE  WatchedAndReleased
<1>1. /\ RuntimeInv /\ NameOk(nature, known)
      /\ there = "gone" => ~Watches(runtime.disposed, known)
      /\ runtime.epoch # 0 => Watches(runtime.disposed, known) \/ late
  BY WatcherFacts
<1>2. LaneOk(runtime, Holds, current) /\ PassesOk /\ Apart(pass)
  BY <1>1 DEF RuntimeInv
<1>3. OnlyWantedIsWatched
  BY <1>1, WatchedIs DEF OnlyWantedIsWatched, NameOk, Watches
<1>4. ForgottenIsReleased
  BY <1>1, <1>2, WatchedIs DEF ForgottenIsReleased, LaneOk
<1>5. OneReviewPerLane
  <2>1. ASSUME NEW o \in Object, pass[o].stage = "review", ~pass[o].cancelled
        PROVE  pass[o].lane = runtime.lane /\ runtime.lane = runtime.epoch
    <3>1. PassOk(pass[o], runtime)
      BY <1>2 DEF PassesOk
    <3>2. QED
      BY <2>1, <3>1 DEF PassOk, Awaiting
  <2>2. QED
    BY <1>2, <2>1 DEF OneReviewPerLane, Apart
<1>6. QED
  BY <1>3, <1>4, <1>5 DEF WatchedAndReleased

\* In every state the program reaches, the session is paused only while its
\* task is stopped, and once the task goes on and no resume is on its way no
\* report is left held back (runtime.ts pause(), resume(), runPass()): while
\* the answer to a write that ends the stop is under way the pause lasts on,
\* and where such an answer was lost nobody told the runtime (checkpoint.ts:76).
THEOREM StopAndResumeHold == WatcherSpec => []StopAndResumeAgree
<1>1. WatcherInv => StopAndResumeAgree
  BY TypesFollow, HeldBackFollows DEF StopAndResumeAgree
<1>2. QED
  BY <1>1, WatcherInvariance, PTL

\* Only a session that is wanted and there is watched (watcher.ts), the
\* runtime keeps nothing of another one except what a resume brings back, and
\* one lane reviews a session, for one pass at a time (runtime.ts runPass()).
THEOREM WatchedIsReleased == WatcherSpec => []WatchedAndReleased
<1>1. WatcherInv => WatchedAndReleased
  BY WatchedFollows
<1>2. QED
  BY <1>1, WatcherInvariance, PTL

\* The scheduler keeps its promises as the runtime drives it, too: an
\* accepted trigger stays in the timer or the dirty flag of a pass.
THEOREM WatchedTriggersAreNotLost == WatcherSpec => []TriggersAreRemembered
<1>1. WatcherInv => TriggersAreRemembered
  BY InvariantIsEnough DEF WatcherInv, RuntimeInv
<1>2. QED
  BY <1>1, WatcherInvariance, PTL

\* And no pass that must keep the cooldown starts inside it.
THEOREM WatchedPassesKeepTheCooldown == WatcherSpec => []CooldownIsKept
<1>1. WatcherInv => CooldownIsKept
  BY InvariantIsEnough DEF WatcherInv, RuntimeInv
<1>2. QED
  BY <1>1, WatcherInvariance, PTL

-----------------------------------------------------------------------------
\* What is handed to the deliverer.

NoneHanded == \A o \in Object : report'[o].state = "handed" => report[o].state = "handed"

\* A pass hands over what was saved in the lane of its epoch.
LEMMA PassHands ==
  ASSUME WatcherInv, NEW o \in Object, PassStep(o) \/ HistoryRead(o) \/ Save(o)
  PROVE  StopHolds
<1>0. /\ runtime \in RuntimeState /\ report \in [Object -> Report]
      /\ LaneOk(runtime, Holds, current) /\ ReportsOk
      /\ there = "gone" => ~Watches(runtime.disposed, known)
      /\ runtime.epoch # 0 => Watches(runtime.disposed, known) \/ late
  BY WatcherFacts, InvTypes DEF RuntimeInv
<1>1. CASE UNCHANGED report
  BY <1>1 DEF StopHolds
<1>2. CASE Save(o)
  <2>1. report' = [report EXCEPT ![o] = [state |-> "saved", epoch |-> pass[o].epoch]]
    BY <1>2 DEF Save
  <2>2. \A p \in Object : report'[p].state = "handed" => report[p].state = "handed"
    BY <1>0, <2>1
  <2>3. QED
    BY <2>2 DEF StopHolds
<1>3. CASE Emit(o)
  <2>1. PICK to \in {"past", "dropped", "handed"} :
          /\ report' = [report EXCEPT ![o].state = to]
          /\ to = "handed" => /\ ~runtime.disposed /\ ~runtime.paused
                              /\ report[o].epoch = runtime.epoch
    BY <1>3 DEF Emit
  <2>2. \A p \in Object : report'[p].state = IF p = o THEN to ELSE report[p].state
    BY <1>0, <2>1 DEF Report
  <2>3. to = "handed" => ~Holds /\ ~runtime.disposed /\ (there = "gone" => late)
    <3>1. SavedOk(report[o], runtime) /\ report[o].state = "saved"
      BY <1>0, <1>3 DEF ReportsOk, Emit
    <3>2. to = "handed" => runtime.epoch # 0 /\ runtime.lane = runtime.epoch
      BY <2>1, <3>1 DEF SavedOk
    <3>3. QED
      BY <1>0, <2>1, <3>2 DEF LaneOk
  <2>4. QED
    BY <2>2, <2>3 DEF StopHolds, Holds
<1>4. QED
  BY <1>1, <1>2, <1>3
     DEF PassStep, TaskRead, Recovered, ReadFails, ReviewEnds, Settles, TimerFires, HistoryRead

\* A resume hands over what is listed, to a session that is watched.
LEMMA ResumeHands ==
  ASSUME WatcherInv, NEW c \in Call, ResumeStep(c)
  PROVE  StopHolds
<1>0. /\ report \in [Object -> Report] /\ ResumeOk(resumes[c], runtime, known, Holds)
      /\ there = "gone" => ~Watches(runtime.disposed, known)
  BY WatcherFacts, InvTypes DEF WatcherInv, ResumesOk
<1>1. CASE ResumeLists(c) \/ ResumeNotifies(c)
  BY <1>1 DEF ResumeLists, ResumeNotifies, StopHolds
<1>2. CASE report' = Missed(report)
  <2>1. \A o \in Object : report'[o].state = "handed" => report[o].state = "handed"
    <3>1. ASSUME NEW o \in Object, report'[o].state = "handed"
          PROVE  report[o].state = "handed"
      BY <1>0, <1>2, <3>1 DEF Missed, Report
    <3>2. QED
      BY <3>1
  <2>2. QED
    BY <2>1 DEF StopHolds
<1>3. CASE /\ resumes[c].stage = "listed"
           /\ ~(runtime.disposed \/ resumes[c].epoch # runtime.epoch)
           /\ report' = [o \in Object |->
                IF o \in resumes[c].listed /\ ~runtime.paused /\ report[o].state # "past"
                THEN [report[o] EXCEPT !.state = "handed"] ELSE report[o]]
  <2>1. Watches(runtime.disposed, known) /\ (runtime.paused \/ ~Holds)
    BY <1>0, <1>3 DEF ResumeOk
  <2>2. ASSUME NEW o \in Object, report'[o].state = "handed", report[o].state # "handed"
        PROVE  ~runtime.paused
    BY <1>3, <2>2
  <2>3. QED
    BY <1>0, <1>3, <2>1, <2>2 DEF StopHolds, Holds
<1>4. QED
  BY <1>1, <1>2, <1>3 DEF ResumeStep, ResumeFails, ResumeEmits

\* Every other step hands nothing over.
LEMMA DispatchHandsNothing ==
  ASSUME NEW reason, Dispatch(reason) \/ Notify(reason) \/ Quiet
  PROVE  NoneHanded
BY DEF Dispatch, Notify, Quiet, runtimeVars, NoneHanded

LEMMA LeftBehindIsNotHanded ==
  ASSUME WatcherInv, report' = LeftBehind
  PROVE  NoneHanded
<1>1. report \in [Object -> Report]
  BY WatcherFacts, InvTypes
<1>2. QED
  BY <1>1, LeftBehindIsTyped DEF NoneHanded

LEMMA ForgetHandsNothing ==
  ASSUME WatcherInv, NEW kept, ForgetSession(kept)
  PROVE  NoneHanded
BY LeftBehindIsNotHanded DEF ForgetSession, runtimeVars, NoneHanded

LEMMA OnTaskHandsNothing ==
  ASSUME WatcherInv, NEW task, NEW off, OnTask(task, off)
  PROVE  NoneHanded
<1>1. report \in [Object -> Report]
  BY WatcherFacts, InvTypes
<1>2. CASE UNCHANGED report
  BY <1>2 DEF NoneHanded
<1>3. CASE Replaced
  <2>1. ASSUME NEW o \in Object, report'[o].state = "handed"
        PROVE  report[o].state = "handed"
    BY <1>1, <1>3, <2>1 DEF Replaced, Report
  <2>2. QED
    BY <2>1 DEF NoneHanded
<1>4. QED
  BY <1>2, <1>3 DEF OnTask, Resumed, effects

LEMMA CrashHandsNothing ==
  ASSUME WatcherInv, Crash
  PROVE  NoneHanded
<1>1. report \in [Object -> Report]
  BY WatcherFacts, InvTypes
<1>2. report' = [o \in Object |->
        IF report[o].state = "saved" THEN [report[o] EXCEPT !.state = "past"] ELSE LeftBehind[o]]
  BY DEF Crash
<1>3. ASSUME NEW o \in Object, report'[o].state = "handed"
      PROVE  report[o].state = "handed"
  <2>1. LeftBehind[o].state = "handed" => report[o].state = "handed"
    BY <1>1, LeftBehindIsTyped
  <2>2. QED
    BY <1>1, <1>2, <1>3, <2>1 DEF Report
<1>4. QED
  BY <1>3 DEF NoneHanded

LEMMA HandsOver ==
  ASSUME WatcherInv, [WatcherNext]_allVars
  PROVE  StopHolds
<1>0. NoneHanded => StopHolds
  BY DEF NoneHanded, StopHolds
<1>1. CASE UNCHANGED allVars
  BY <1>0, <1>1 DEF allVars, runtimeVars, NoneHanded
<1>2. CASE \/ Updated \/ Idle \/ (\E completed \in BOOLEAN : Message(completed))
           \/ (\E g \in Get : Served(g) \/ Fetched(g)) \/ Deleted \/ Overflow
           \/ (\E ms \in 1..MaxSuppress : Suppressed(ms)) \/ DispatchFires
  <2>1. \E reason \in {"step", "idle"} : Dispatch(reason) \/ Notify(reason) \/ Quiet
    BY <1>2 DEF Updated, Idle, Message, Served, Fetched, Deleted, Overflow, Suppressed, DispatchFires
  <2>2. QED
    BY <1>0, <2>1, DispatchHandsNothing
<1>3. CASE DeletionHandled \/ Mark \/ Evict
  BY <1>0, <1>3, ForgetHandsNothing DEF DeletionHandled, Mark, Evict
<1>4. CASE (\E task \in Task : CheckpointKept(task) \/ CheckpointWrites(task)) \/ CheckpointWritten \/ Capture
  <2>1. UNCHANGED effects \/ \E task, off : OnTask(task, off)
    BY <1>4 DEF CheckpointKept, CheckpointWrites, CheckpointWritten, Capture
  <2>2. UNCHANGED effects => NoneHanded
    BY DEF effects, NoneHanded
  <2>3. QED
    BY <1>0, <2>1, <2>2, OnTaskHandsNothing
<1>5. CASE Disposed
  BY <1>0, <1>5, LeftBehindIsNotHanded DEF Disposed
<1>6. CASE Crash
  BY <1>0, <1>6, CrashHandsNothing
<1>7. CASE Clock
  BY <1>0, <1>7 DEF Clock, runtimeVars, NoneHanded
<1>8. CASE RuntimeSteps
  BY <1>8, PassHands, ResumeHands DEF RuntimeSteps
<1>9. QED
  BY <1>1, <1>2, <1>3, <1>4, <1>5, <1>6, <1>7, <1>8 DEF WatcherNext

\* A full cache may drop what has no pass, no timer and no follow-up: such a
\* session is owed nothing.
LEMMA EvictsTheIdle ==
  ASSUME WatcherInv
  PROVE  EvictedIsIdle
<1> SUFFICES ASSUME Evict, NEW o \in Object
             PROVE  pass[o].stage \notin Awaiting /\ (o = current => ~states[o].owed)
  BY DEF EvictedIsIdle
<1>1. ~IsPinned
  BY DEF Evict
<1>2. ASSUME o = current
      PROVE  ~states[o].owed
  <2>1. current # 0
    BY <1>2 DEF Object
  <2>2. Remembers(states[current])
    BY <2>1 DEF WatcherInv, RuntimeInv, IInv, Orderly
  <2>3. QED
    BY <1>1, <1>2, <2>1, <2>2 DEF IsPinned, IsPinnedByTheSchedule, Remembers
<1>3. QED
  BY <1>1, <1>2 DEF IsPinned

\* No step hands a report to the deliverer once the runtime was told that the
\* task is stopped (the answer to the stop that was written is neither under
\* way nor lost), after the plugin was disposed or after the deletion of the session was handled
\* (runtime.ts #emit()), and none evicts a session that a pass works for or
\* that is owed one (watcher.ts touchRoot(), runtime.ts isPinned()).
THEOREM NothingIsEverCutShort == WatcherSpec => NothingIsCutShort
<1>1. WatcherInv /\ [WatcherNext]_allVars => StopHolds /\ EvictedIsIdle
  BY HandsOver, EvictsTheIdle
<1>2. WatcherInv /\ [WatcherNext]_allVars => [StopHolds /\ EvictedIsIdle]_allVars
  BY <1>1
<1>3. QED
  BY <1>2, WatcherInvariance, PTL DEF WatcherSpec, NothingIsCutShort

=============================================================================
