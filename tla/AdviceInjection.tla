-------------------------- MODULE AdviceInjection --------------------------
(***************************************************************************)
(* Advice put into the primary's next prompt: the deliverer's path to it   *)
(* (deliver/cards.ts: deliver, messagesTransform, #decisions) and the      *)
(* pending blockers (deliver/transform.ts), beside the checkpoint calls    *)
(* that close findings and change the task (module Checkpoint).            *)
(*                                                                         *)
(* Cards and their receipts are external here (modules CardDelivery and    *)
(* NoteStore), and so is OpenCode, which asks for one prompt at a time.    *)
(***************************************************************************)
EXTENDS Checkpoint

CONSTANT NoteTtlTurns

ASSUME TtlAssumption == NoteTtlTurns \in Nat

VARIABLES
  delivering, \* [Finding -> the delivery of its note and its row as read there]
  carded,     \* [Finding -> the opening of it a card's receipt was for]
  blockers,   \* #transformer.pendingBlockers of the session
  compacting,
  transform,  \* the prompt that is being transformed, or None
  injected    \* history: [Finding -> turns it was injected in since it was added]

pending == <<blockers, compacting>>
injection == <<delivering, carded, pending, transform, injected>>
vars == <<checkpointVars, injection>>

Blocker == [turnsSeen : Nat, lastAnchorSeen : Nat]
Prompt == [assessed : SUBSET Finding, user : Nat, rows : [Finding -> Row \cup {None}]]

InjectionTypeOK ==
  /\ delivering \in [Finding -> [state : {"new", "reading", "done"}, row : Row \cup {None}]]
  /\ carded \in [Finding -> Nat]
  /\ blockers \in [Finding -> Blocker \cup {None}]
  /\ compacting \in BOOLEAN
  /\ transform \in Prompt \cup {None}
  /\ injected \in [Finding -> SUBSET Nat]

Init ==
  /\ CheckpointInit
  /\ delivering = [f \in Finding |-> [state |-> "new", row |-> None]]
  /\ carded = [f \in Finding |-> 0]
  /\ blockers = [f \in Finding |-> None]
  /\ compacting = FALSE
  /\ transform = None
  /\ injected = [f \in Finding |-> {}]

(* #decisions: decideAdvice draws attention to a finding whose row was     *)
(* read, and no receipt is of its opening.                                 *)
Eligible(f, row) ==
  /\ row # None /\ row.state = "open"
  /\ states # None => ~states.stopped /\ row.task = states.task
  /\ ~(row.proof # None /\ ~row.proof.in_scope
       /\ row.proof.revision = (IF states = None THEN row.revision ELSE states.revision))
  /\ carded[f] # row.opening

(* deliver() of the note of a finding: it reads the finding ...            *)
Deliver(f) ==
  /\ delivering[f].state = "new" /\ rows[f] # None /\ Spend("deliveries")
  /\ delivering' = [delivering EXCEPT ![f] = IF watched THEN [state |-> "reading", row |-> rows[f]]
                                             ELSE [state |-> "done", row |-> None]]
  /\ UNCHANGED <<log, watched, contexts, findings, calls, carded, pending, transform, injected>>

(* ... and, when its receipts have come, adds it; a prior entry stays.     *)
DeliverDecides(f) ==
  /\ delivering[f].state = "reading"
  /\ delivering' = [delivering EXCEPT ![f] = [state |-> "done", row |-> None]]
  /\ IF watched /\ Eligible(f, delivering[f].row)
     THEN /\ blockers' = [blockers EXCEPT ![f] = IF @ = None THEN [turnsSeen |-> 0, lastAnchorSeen |-> 0] ELSE @]
          /\ injected' = [injected EXCEPT ![f] = IF blockers[f] = None THEN {} ELSE @]
     ELSE UNCHANGED <<blockers, injected>>
  /\ UNCHANGED <<checkpointVars, carded, compacting, transform>>

CardShown(f) ==
  /\ rows[f] # None /\ carded[f] # rows[f].opening /\ Spend("cards")
  /\ carded' = [carded EXCEPT ![f] = rows[f].opening]
  /\ UNCHANGED <<log, watched, contexts, findings, calls, delivering, pending, transform, injected>>

(* messagesTransform of a watched session reads the pending findings.      *)
Transform ==
  /\ watched /\ transform = None /\ Spend("prompts")
  /\ LET assessed == {f \in Finding : blockers[f] # None}
     IN transform' = [assessed |-> assessed, user |-> Now.user,
                      rows |-> [f \in Finding |-> IF f \in assessed THEN rows[f] ELSE None]]
  /\ UNCHANGED <<log, watched, contexts, findings, calls, delivering, carded, pending, injected>>

\* Mutant: a turn of the user is not counted.
SeenAgain(blocker, user) == [turnsSeen |-> blocker.turnsSeen, lastAnchorSeen |-> user]

Seen(blocker, user) ==
  [turnsSeen |-> IF blocker.lastAnchorSeen \in {0, user} THEN blocker.turnsSeen ELSE blocker.turnsSeen + 1,
   lastAnchorSeen |-> user]

\* Mutant: all pending advice is injected, also what came during the reads.
InjectionsUnread(left) ==
  {f \in Finding : left[f] # None /\ Seen(left[f], transform.user).turnsSeen < NoteTtlTurns}

(* #transformer.messagesTransform, after removeDelivered: the assessed     *)
(* ones are injected, the ones that had their turns dropped, and what      *)
(* arrived since the read stays queued.                                    *)
Injections(left) ==
  {f \in transform.assessed : left[f] # None /\ Seen(left[f], transform.user).turnsSeen < NoteTtlTurns}

Inject ==
  LET withdrawn == {f \in transform.assessed : ~Eligible(f, transform.rows[f])}
      left == [f \in Finding |-> IF f \in withdrawn THEN None ELSE blockers[f]]
      now  == IF watched /\ ~compacting THEN Injections(left) ELSE {}
      kept == IF watched /\ ~compacting THEN now \cup (Finding \ transform.assessed) ELSE Finding
  IN /\ blockers' = [f \in Finding |->
                       IF f \notin kept \/ left[f] = None THEN None
                       ELSE IF f \in now THEN Seen(left[f], transform.user) ELSE left[f]]
     /\ injected' = [f \in Finding |-> IF f \in now THEN injected[f] \cup {transform.user} ELSE injected[f]]

Transformed ==
  /\ transform # None /\ transform' = None
  /\ Inject
  /\ UNCHANGED <<checkpointVars, delivering, carded, compacting>>

ClearSession == blockers' = [f \in Finding |-> None] /\ compacting' = FALSE

(* The hook before a compaction; nothing but session.compacted, a forget   *)
(* or a replacement takes the mark back.                                   *)
MarkCompacting ==
  /\ watched /\ ~compacting /\ Spend("compactions") /\ compacting' = TRUE
  /\ UNCHANGED <<log, watched, contexts, findings, calls, delivering, carded, blockers, transform, injected>>

Compacted ==
  /\ compacting
  /\ ClearSession
  /\ UNCHANGED <<checkpointVars, delivering, carded, transform, injected>>

(* A session that is forgotten, or whose task a call replaced before it    *)
(* records its updates (onTask), loses its blockers.                       *)
ForgetInjection == Forget /\ ClearSession /\ UNCHANGED <<delivering, carded, transform, injected>>

Cleared(c) == calls[c].pc = "recording" /\ calls[c].request.task = "replace" /\ watched

InjectionStep ==
  \/ Transform \/ Transformed \/ MarkCompacting \/ Compacted
  \/ \E f \in Finding : Deliver(f) \/ DeliverDecides(f) \/ CardShown(f)

Next ==
  \/ InjectionStep
  \/ ForgetInjection
  \/ ContextStep /\ UNCHANGED injection
  \/ WorldStep /\ UNCHANGED injection
  \/ \E c \in Call :
       /\ CallStep(c)
       /\ IF Cleared(c) THEN ClearSession ELSE UNCHANGED pending
       /\ UNCHANGED <<delivering, carded, transform, injected>>

Spec == Init /\ [][Next]_vars

----------------------------------------------------------------------------
(* Properties.                                                             *)

(* A session that is not watched has no advice waiting for its prompts,    *)
(* whatever was being delivered or transformed when it was forgotten.      *)
ForgottenInjectsNothing == ~watched => \A f \in Finding : blockers[f] = None

(* What memory keeps of a session agrees with whether it is watched, with  *)
(* the row on disk and with a restart, whatever was loading, saving,       *)
(* queued, delivered or transformed when it was forgotten.                 *)
ContextsAgree ==
  TypeOK /\ InjectionTypeOK /\ ForgottenLeavesNothing /\ ForgottenInjectsNothing /\ RestartKeepsContext

(* What a prompt carries was assessed for it: open and not yet shown as    *)
(* the transform read it, and of the task that is under way - not stopped  *)
(* nor replaced - when the prompt is finished, whatever arrived, closed or *)
(* changed during the transform's reads.                                   *)
InjectedIsAssessed ==
  [][\A f \in Finding : injected'[f] \ injected[f] # {} =>
       /\ transform.rows[f] # None /\ transform.rows[f].state = "open"
       /\ carded[f] # transform.rows[f].opening
       /\ states # None => ~states.stopped /\ transform.rows[f].task = states.task]_vars

(* A finding is injected for at most noteTtlTurns of the user's turns,     *)
(* however many prompts a turn has and however they overlap with its       *)
(* delivery.                                                               *)
InjectedForItsTurns == \A f \in Finding : Cardinality(injected[f]) <= NoteTtlTurns
=============================================================================
