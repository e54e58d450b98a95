---------------------------- MODULE CardDelivery ----------------------------
(***************************************************************************)
(* How a reviewer's notes become cards in one watched session:             *)
(*   Deliverer.deliver       deliver/cards.ts    assess and enqueue        *)
(*   CardQueue               deliver/queue.ts    append, flush, fail       *)
(*   DeliveryTurns           deliver/turns.ts    whose turn it is          *)
(*   createNativeRenderer    plugin/render.ts    write one card            *)
(* together with the session they watch, which the plugin sees only as a   *)
(* stream of events.  Every action runs from one await of the code to the  *)
(* next, so that user turns, new reports, dispositions and a task          *)
(* replacement fall between any two of them.                               *)
(***************************************************************************)
EXTENDS Naturals, Sequences, FiniteSets, SequencesExt

CONSTANTS
  Note,       \* the notes reviewers report in this session
  Finding,    \* the findings they are about
  None,       \* an absent Map entry or an undefined value
  Attempts,   \* failed flushes before the batch is given up (3, queue.ts:180)
  Bounds      \* what Init chooses the bounds of a behaviour from

ASSUME AttemptsAssumption == Attempts \in Nat \ {0}
ASSUME BoundsAssumption ==
  Bounds \subseteq [turns : Nat, steps : Nat, faults : Nat, forgets : Nat,
                    closes : SUBSET Note, about : [Note -> SUBSET Finding]]

VARIABLES
  bounds,     \* of this behaviour
  about,      \* about[n]: the findingKey (policy.ts:81) of a reported note
  \* the session, owned by the server
  turn,       \* the latest user message, numbered from 1
  working,    \* the primary has not finished answering it
  replies,    \* assistant messages completed so far
  steps,      \* of them, those completed before the end of a turn
  card,       \* card[n]: the reply the part of note n hangs on, or None
  events,     \* published events the plugin has not handled yet
  \* the store
  receipts,   \* notes acknowledged in findings.sqlite
  withdrawn,  \* notes whose finding was closed or that outlived the ttl
  \* the plugin
  turns,      \* DeliveryTurns' entry for the session
  stage,      \* stage[n]: how far deliver() has brought note n
  epochOf,    \* epochOf[n]: the epoch object its enqueue captured
  chain,      \* #enqueuing: appends waiting for their predecessor
  epoch,      \* #epochs: the identity of the session's epoch object, or None
  minted,     \* epoch objects made so far
  queue,      \* #queued: the session's cards, or None
  flush,      \* the running flushOnIdle
  detached,   \* the cards that flush still holds after forget dropped them
  faults,     \* failures so far
  forgets     \* times forgotten so far

session == <<turn, working, replies, steps, card>>
store == <<receipts, withdrawn>>
adding == <<about, stage, epochOf, chain, epoch, minted>>
flushing == <<queue, flush, detached>>
vars == <<session, events, store, turns, adding, flushing, faults, forgets, bounds>>

MaxTurns == bounds.turns  \* user turns
MaxSteps == bounds.steps  \* assistant messages completed before a turn's last one
Faults == bounds.faults   \* calls that fail or whose reply is lost
Forgets == bounds.forgets \* times the session is forgotten (task replaced)

Stage == {"new", "assess", "chained", "pointer", "pushed", "done"}
Event == [kind : {"user", "busy", "reply", "idle"}, turn : 1..MaxTurns]
Turn == [epoch : 0..MaxTurns, user : 0..MaxTurns, awaiting : BOOLEAN,
         status : {"idle", "busy", None}]
Cards == [notes : Seq(Note), attempts : 0..Attempts]
Snapshot == [cards : SUBSET Note, anchor : Nat]
ASSUME NoneAssumption ==
  None \notin Nat \union {"idle", "busy"} \union Cards \union Snapshot
Flush == [at : {"no", "next", "eligible", "read", "load", "render", "write",
                "record", "failed"},
          epoch : 0..MaxTurns, generation : 0..Forgets + 1,
          batch : SUBSET Note, snapshot : Snapshot \union {None},
          note : Note \union {None}]

\* turns.ts:22: the entry of a session nothing is known of.
NewTurn == [epoch |-> 0, user |-> 0, awaiting |-> FALSE, status |-> None]

NoFlush == [at |-> "no", epoch |-> 0, generation |-> 0, batch |-> {},
            snapshot |-> None, note |-> None]

Init ==
  /\ bounds \in Bounds
  /\ about = [n \in Note |-> None]
  /\ turn = 0
  /\ working = FALSE
  /\ replies = 0
  /\ steps = 0
  /\ card = [n \in Note |-> None]
  /\ events = <<>>
  /\ receipts = {}
  /\ withdrawn = {}
  /\ turns = NewTurn
  /\ stage = [n \in Note |-> "new"]
  /\ epochOf = [n \in Note |-> None]
  /\ chain = <<>>
  /\ epoch = None
  /\ minted = 0
  /\ queue = None
  /\ flush = NoFlush
  /\ detached = None
  /\ faults = 0
  /\ forgets = 0

-----------------------------------------------------------------------------
(* DeliveryTurns.                                                          *)

\* A user message seen before, or older than the latest one, is ignored.
OnUser(t, message) ==
  IF message <= t.user
    THEN t
    ELSE [epoch |-> t.epoch + 1, user |-> message, awaiting |-> TRUE,
          status |-> "busy"]

\* Mutant: a completed message ends the turn whichever message it answers.
OnAnyReply(t, message) == [t EXCEPT !.awaiting = FALSE]

\* A completed assistant message ends the wait of the turn it answers.
OnReply(t, message) ==
  IF message = t.user THEN [t EXCEPT !.awaiting = FALSE] ELSE t

OnEvent(t, e) ==
  CASE e.kind = "user"  -> OnUser(t, e.turn)
    [] e.kind = "reply" -> OnReply(t, e.turn)
    [] OTHER            -> [t EXCEPT !.status = e.kind]

\* Mutant: a turn that came and went is not noticed.
CanDeliverAnyEpoch(t, e) == t.status = "idle" /\ ~t.awaiting

CanDeliver(t, e) == t.epoch = e /\ t.status = "idle" /\ ~t.awaiting

-----------------------------------------------------------------------------
(* flushOnIdle: entering, leaving and the queue it works on.               *)

\* The value of flush after a call of flushOnIdle.
Flushed(t, q, f) ==
  IF q # None /\ f.at = "no" /\ CanDeliver(t, t.epoch)
    THEN [NoFlush EXCEPT !.at = "next", !.epoch = t.epoch,
                         !.generation = epoch,
                         !.batch = ToSet(q.notes)]
    ELSE f

\* Mutant: a flush does not notice that its session was forgotten.
StillSameTurn == CanDeliver(turns, flush.epoch)

\* canDeliver of a flush: its epoch object and its turn are still current.
StillCurrent == /\ epoch = flush.generation
                /\ CanDeliver(turns, flush.epoch)

\* The cards the running flush works on.
Held == IF detached = None THEN queue ELSE detached

Continue(held, f) ==
  /\ flush' = f
  /\ IF detached = None
       THEN queue' = held /\ UNCHANGED detached
       ELSE detached' = held /\ UNCHANGED queue

\* Mutant: finally only clears #flushing.
FinishedForNow(q) == NoFlush

\* finally: what arrived while the flush ran could not start one itself.
Finished(q) ==
  IF flush.epoch # turns.epoch \/ epoch # flush.generation
    THEN Flushed(turns, q, NoFlush)
    ELSE NoFlush

\* return, or the end of the loop, leaving held in the queue.
Stop(held) ==
  /\ queue' = IF detached = None THEN held ELSE queue
  /\ detached' = None
  /\ flush' = Finished(queue')

Shifted(held) == [held EXCEPT !.notes = Tail(@)]

\* Mutant: a write that was not acknowledged counts as shown.
FailedUnnoticed(held) ==
  Continue(Shifted(held), [flush EXCEPT !.at = "record"])

\* #deliveryFailed up to the cleanup: only the third failure drops cards.
Failed(held) ==
  LET counted == [held EXCEPT !.attempts = @ + 1]
  IN IF counted.attempts < Attempts
       THEN Stop(counted)
       ELSE Continue(counted, [flush EXCEPT !.at = "failed",
              !.batch = @ \intersect ToSet(held.notes),
              !.snapshot = None, !.note = None])

Fails == /\ faults < Faults
         /\ faults' = faults + 1

-----------------------------------------------------------------------------
(* The session.  chat.message reports a user message to the plugin before  *)
(* the turn starts; everything else reaches it as an event, in order.      *)

UserMessage ==
  /\ turn < MaxTurns
  /\ turn' = turn + 1
  /\ working' = TRUE
  /\ turns' = OnUser(turns, turn + 1)
  /\ events' = events \o <<[kind |-> "user", turn |-> turn + 1],
                           [kind |-> "busy", turn |-> turn + 1]>>
  /\ UNCHANGED <<replies, steps, card, store, adding, flushing, faults, forgets, bounds>>

\* A message that calls tools completes and the turn goes on; it may still
\* answer the message before the latest one.
StepCompletes ==
  /\ working
  /\ steps < MaxSteps
  /\ steps' = steps + 1
  /\ replies' = replies + 1
  /\ \E answered \in {turn - 1, turn} \ {0} :
       events' = Append(events, [kind |-> "reply", turn |-> answered])
  /\ UNCHANGED <<turn, working, card, store, turns, adding, flushing, faults,
                 forgets, bounds>>

\* The turn's last message; the idle status may be published before it.
TurnCompletes ==
  /\ working
  /\ working' = FALSE
  /\ replies' = replies + 1
  /\ LET reply == [kind |-> "reply", turn |-> turn]
         idle == [kind |-> "idle", turn |-> turn]
     IN \/ events' = events \o <<reply, idle>>
        \/ events' = events \o <<idle, reply>>
  /\ UNCHANGED <<turn, steps, card, store, turns, adding, flushing, faults,
                 forgets, bounds>>

\* Deliverer.onEvent: idle and completed replies also try to flush.
HandleEvent ==
  /\ events # <<>>
  /\ events' = Tail(events)
  /\ turns' = OnEvent(turns, Head(events))
  /\ flush' = IF Head(events).kind \in {"idle", "reply"}
                THEN Flushed(turns', queue, flush)
                ELSE flush
  /\ UNCHANGED <<session, store, adding, queue, detached, faults, forgets, bounds>>

\* A disposition closes a finding, or a note outlives pending_ttl_ms.
Withdraw(n) ==
  /\ n \in bounds.closes \ withdrawn
  /\ withdrawn' = withdrawn \union {n}
  /\ UNCHANGED <<session, events, receipts, turns, adding, flushing, faults,
                 forgets, bounds>>

\* The primary's checkpoint replaces the task (plugin.ts:157).  The call is
\* made within a turn, after a model round trip: what was published before
\* the turn has been handled by then.
Forget ==
  /\ forgets < Forgets
  /\ working
  /\ events = <<>>
  /\ forgets' = forgets + 1
  /\ turns' = NewTurn
  /\ epoch' = None
  /\ chain' = <<>>
  /\ queue' = None
  /\ detached' = IF flush.at = "no" THEN None ELSE Held
  /\ UNCHANGED <<session, events, store, about, stage, epochOf, minted, flush, faults, bounds>>

-----------------------------------------------------------------------------
(* deliver and enqueue.                                                    *)

\* A finding one of whose notes was acknowledged is delivered.
DeliveredFinding(n) ==
  \E m \in receipts : about[m] = about[n]

\* A reviewer's result arrives; reviews start from completed messages.
Report(n) ==
  /\ stage[n] = "new"
  /\ replies > 0
  /\ stage' = [stage EXCEPT ![n] = "assess"]
  /\ \E f \in bounds.about[n] : about' = [about EXCEPT ![n] = f]
  /\ UNCHANGED <<session, events, store, turns, epochOf, chain, epoch, minted,
                 flushing, faults, forgets, bounds>>

\* The store's answers are in: a withheld note ends here, an eligible one
\* captures the session's epoch object and joins the chain of appends.
Assess(n) ==
  /\ stage[n] = "assess"
  /\ IF n \in withdrawn \/ DeliveredFinding(n)
       THEN /\ stage' = [stage EXCEPT ![n] = "done"]
            /\ UNCHANGED <<epochOf, chain, epoch, minted>>
       ELSE /\ stage' = [stage EXCEPT ![n] = "chained"]
            /\ minted' = IF epoch = None THEN minted + 1 ELSE minted
            /\ epoch' = minted'
            /\ epochOf' = [epochOf EXCEPT ![n] = minted']
            /\ chain' = Append(chain, n)
  /\ UNCHANGED <<about, session, events, store, turns, flushing, faults, forgets, bounds>>

\* The finding is already in the queue.
Known(n) == /\ queue # None
            /\ \E m \in ToSet(queue.notes) : about[m] = about[n]

\* The epoch object the enqueue captured is still the session's.
Fresh(n) == epoch = epochOf[n]

\* The notes of s that are not in S, in their order.
Without(s, S) ==
  LET kept[i \in 0..Len(s)] ==
        IF i = 0 THEN <<>>
        ELSE IF s[i] \in S THEN kept[i - 1] ELSE Append(kept[i - 1], s[i])
  IN kept[Len(s)]

Unchained(n) == Without(chain, {n})

\* #append: the pointer for the command line is written before the card is
\* queued.
BeginAppend(n) ==
  /\ stage[n] = "chained"
  /\ n \in ToSet(chain) => n = Head(chain)
  /\ IF Fresh(n) /\ ~Known(n)
       THEN /\ stage' = [stage EXCEPT ![n] = "pointer"]
            /\ UNCHANGED chain
       ELSE /\ stage' = [stage EXCEPT ![n] = "pushed"]
            /\ chain' = Unchained(n)
  /\ UNCHANGED <<about, session, events, store, turns, epochOf, epoch, minted,
                 flushing, faults, forgets, bounds>>

Push(n) ==
  /\ stage[n] = "pointer"
  /\ stage' = [stage EXCEPT ![n] = "pushed"]
  /\ chain' = Unchained(n)
  /\ queue' = IF ~Fresh(n) THEN queue
              ELSE IF queue = None THEN [notes |-> <<n>>, attempts |-> 0]
              ELSE [queue EXCEPT !.notes = Append(@, n)]
  /\ UNCHANGED <<about, session, events, store, turns, epochOf, epoch, minted, flush,
                 detached, faults, forgets, bounds>>

\* The pointer could not be written: the enqueue rejects.
PointerFails(n) ==
  /\ stage[n] = "pointer"
  /\ Fails
  /\ stage' = [stage EXCEPT ![n] = "done"]
  /\ chain' = Unchained(n)
  /\ UNCHANGED <<about, session, events, store, turns, epochOf, epoch, minted,
                 flushing, forgets, bounds>>

\* enqueue's last line: flush now if the session is idle.
Offer(n) ==
  /\ stage[n] = "pushed"
  /\ stage' = [stage EXCEPT ![n] = "done"]
  /\ flush' = Flushed(turns, queue, flush)
  /\ UNCHANGED <<about, session, events, store, turns, epochOf, chain, epoch, minted,
                 queue, detached, faults, forgets, bounds>>

-----------------------------------------------------------------------------
(* One round of the loop of flushOnIdle.                                   *)

outside == <<session, events, store, turns, adding, forgets, bounds>>

NextCard ==
  /\ flush.at = "next"
  /\ IF Held.notes = <<>>
       THEN Stop(None)
       ELSE IF ~StillCurrent
              THEN Stop(Held)
              ELSE Continue(Held, [flush EXCEPT !.at = "eligible",
                                                !.note = Head(Held.notes)])
  /\ UNCHANGED <<outside, faults>>

\* eligible(current): the policy is asked again.
Revalidate ==
  /\ flush.at = "eligible"
  /\ IF flush.note \notin withdrawn
       THEN Continue(Held, [flush EXCEPT !.at = "read"])
       ELSE Continue(Shifted(Held), [flush EXCEPT !.at = "next"])
  /\ UNCHANGED <<outside, faults>>

\* Mutant: the receipts are not consulted again.
ReadyUnlessWithdrawn(n) == n \notin withdrawn

\* readForDelivery: not delivered, not a duplicate, not inactive or expired.
Ready(n) == n \notin withdrawn /\ ~DeliveredFinding(n)

ReadForDelivery ==
  /\ flush.at = "read"
  /\ IF ~Ready(flush.note)
       THEN Continue(Shifted(Held), [flush EXCEPT !.at = "next"])
       ELSE IF StillCurrent
              THEN Continue(Held, [flush EXCEPT !.at = "load"])
              ELSE Stop(Held)
  /\ UNCHANGED <<outside, faults>>

\* The destination is read once per flush.
LoadDestination ==
  /\ flush.at = "load"
  /\ LET loaded == IF flush.snapshot # None THEN flush.snapshot
                   ELSE [cards |-> {n \in Note : card[n] # None},
                         anchor |-> replies]
     IN Continue(Held, [flush EXCEPT !.at = "render", !.snapshot = loaded])
  /\ UNCHANGED <<outside, faults>>

LoadFails ==
  /\ flush.at = "load"
  /\ flush.snapshot = None
  /\ Fails
  /\ Failed(Held)
  /\ UNCHANGED outside

\* Mutant: the renderer does not look for the part it may have written.
NeverWritten(n) == FALSE

\* The destination already holds the part of this note.
Written(n) == n \in flush.snapshot.cards

Acknowledged ==
  Continue([Shifted(Held) EXCEPT !.attempts = 0],
           [flush EXCEPT !.at = "record",
                         !.snapshot.cards = @ \union {flush.note}])

\* canRender is asked right before the request is sent.
Render ==
  /\ flush.at = "render"
  /\ IF Written(flush.note)
       THEN Acknowledged
       ELSE IF flush.snapshot.anchor # 0 /\ StillCurrent
              THEN Continue(Held, [flush EXCEPT !.at = "write"])
              ELSE Stop(Held)
  /\ UNCHANGED <<outside, faults>>

\* part.update is applied and its answer echoes the part.
WriteSucceeds ==
  /\ flush.at = "write"
  /\ card' = [card EXCEPT ![flush.note] = flush.snapshot.anchor]
  /\ Acknowledged
  /\ UNCHANGED <<turn, working, replies, steps, events, store, turns, adding,
                 faults, forgets, bounds>>

\* part.update fails, before or after the server applied it.
WriteFails ==
  /\ flush.at = "write"
  /\ Fails
  /\ \/ UNCHANGED card
     \/ card' = [card EXCEPT ![flush.note] = flush.snapshot.anchor]
  /\ Failed(Held)
  /\ UNCHANGED <<turn, working, replies, steps, events, store, turns, adding,
                 forgets, bounds>>

\* #recordDelivered: the receipt is committed.
Record ==
  /\ flush.at = "record"
  /\ receipts' = receipts \union {flush.note}
  /\ Continue(Held, [flush EXCEPT !.at = "next", !.note = None])
  /\ UNCHANGED <<session, events, withdrawn, turns, adding, faults, forgets, bounds>>

\* Failed bookkeeping is only logged.
RecordFails ==
  /\ flush.at = "record"
  /\ Fails
  /\ Continue(Held, [flush EXCEPT !.at = "next", !.note = None])
  /\ UNCHANGED outside

\* Mutant: the third failure drops what was appended meanwhile, too.
SurvivorsOfAll == <<>>

\* The cards that were not part of the batch that failed.
Survivors == Without(Held.notes, flush.batch)

\* #deliveryFailed after the third failure: the pointers are removed, then
\* the cards of the batch.
GiveUp ==
  /\ flush.at = "failed"
  /\ Stop(IF Survivors = <<>> THEN None
          ELSE [notes |-> Survivors, attempts |-> 0])
  /\ UNCHANGED <<outside, faults>>

-----------------------------------------------------------------------------
FlushStep ==
  \/ NextCard \/ Revalidate \/ ReadForDelivery \/ LoadDestination \/ Render
  \/ WriteSucceeds \/ Record \/ GiveUp

AddStep(n) == Report(n) \/ Assess(n) \/ BeginAppend(n) \/ Push(n) \/ Offer(n)

Next ==
  \/ UserMessage \/ StepCompletes \/ TurnCompletes \/ HandleEvent \/ Forget
  \/ FlushStep \/ LoadFails \/ WriteFails \/ RecordFails
  \/ \E n \in Note : AddStep(n) \/ PointerFails(n) \/ Withdraw(n)

Spec == Init /\ [][Next]_vars

\* Calls return, published events are handled and a turn ends; nobody has to
\* write a message, report a note or close a finding.
FairSpec ==
  /\ Spec
  /\ WF_vars(FlushStep)
  /\ WF_vars(HandleEvent)
  /\ WF_vars(TurnCompletes)
  /\ \A n \in Note :
       WF_vars(Assess(n) \/ BeginAppend(n) \/ Push(n) \/ Offer(n))

-----------------------------------------------------------------------------
TypeOK ==
  /\ bounds \in Bounds
  /\ turn \in 0..MaxTurns
  /\ working \in BOOLEAN
  /\ replies \in 0..MaxTurns + MaxSteps
  /\ steps \in 0..MaxSteps
  /\ card \in [Note -> Nat \union {None}]
  /\ events \in Seq(Event)
  /\ receipts \subseteq Note
  /\ withdrawn \subseteq Note
  /\ turns \in Turn
  /\ about \in [Note -> Finding \union {None}]
  /\ stage \in [Note -> Stage]
  /\ epochOf \in [Note -> 1..Forgets + 1 \union {None}]
  /\ chain \in Seq(Note)
  /\ epoch \in 1..Forgets + 1 \union {None}
  /\ minted \in 0..Forgets + 1
  /\ queue \in Cards \union {None}
  /\ flush \in Flush
  /\ detached \in Cards \union {None}
  /\ flush.at = "no" => detached = None
  /\ faults \in 0..Faults
  /\ forgets \in 0..Forgets

Sends == flush.at = "render" /\ flush'.at = "write"

\* "Delivered only while the session is idle" (README.md:7): no card is sent
\* while the primary works, however its events are delayed and however many
\* turns came and went since the flush started.
SentWhileIdle == ~working

\* A card goes to the latest completed assistant message (README.md:7): the
\* destination that was read for the first card of a flush is still right for
\* its last one.
SentToLatestReply == flush.snapshot.anchor = replies

\* A flush that was under way when the task was replaced sends no card of the
\* old task, not even once the turn counter, which forget resets, is back at
\* the value the flush started with.
SentForThisTask == epochOf[flush.note] = epoch

\* A retry does not write a card the session already shows: the reply to the
\* first write may be lost, its part ID is stable (README.md:23).
WrittenOnce == card[flush.note] = None

\* Every write of a card obeys the four rules above at the moment it is sent.
SentByTheRules ==
  [][Sends => SentWhileIdle /\ SentToLatestReply /\ SentForThisTask /\ WrittenOnce]_vars

\* Receipts are authoritative (README.md:201): one is only committed for a
\* card the session shows.
ReceiptsAreShown == \A n \in receipts : card[n] # None

\* Redundant reports share their finding's card (README.md:27): while no call
\* fails, two notes of one finding never both become cards, even when the
\* second one arrives between the first one's card and its receipt.
OneCardPerFinding ==
  faults = 0 =>
    \A m, n \in Note :
      m # n /\ about[m] = about[n] => card[m] = None \/ card[n] = None

Waiting(n) == queue # None /\ n \in ToSet(queue.notes)

\* A queued note leaves the queue for a reason: it was shown, its finding was
\* delivered or closed, its task was replaced, or it was in the batch of a
\* flush with which its queue had failed Attempts times since a card was last
\* shown.  The failures are counted per queue: earlier ones may have been of
\* other cards, and what is appended during the last one stays.
LeavesForAReason ==
  [][\A n \in Note : Waiting(n) /\ ~Waiting(n)' =>
       \/ card'[n] # None
       \/ n \in withdrawn
       \/ DeliveredFinding(n)
       \/ forgets' # forgets
       \/ flush.at = "failed" /\ n \in flush.batch]_vars

\* Cards, receipts and findings agree: a receipt means a card that is shown,
\* and a finding has one card while no call fails.
CardsAgree == TypeOK /\ ReceiptsAreShown /\ OneCardPerFinding

\* While no call fails, every queued note is eventually shown or withheld, also
\* when the idle event that would have flushed it came during another flush.
QueueDrains == \A n \in Note : Waiting(n) ~> (~Waiting(n) \/ faults > 0)
=============================================================================
