--------------------------- MODULE ReviewJournal ---------------------------
(***************************************************************************)
(* Durable lane claims: the JournalLane objects of several processes over  *)
(* one row of the review_journal table (advisor/journal.ts, notes/         *)
(* journal-database.ts).                                                   *)
(*                                                                         *)
(* A process is one opencode server.  Its lanes run on one event loop, so  *)
(* the code between two awaits is one step; every await on the database    *)
(* worker is a point where another lane, another process, close() or a     *)
(* crash can come in between.  A database call executes atomically; it may *)
(* also fail before it executes, or execute and lose its reply             *)
(* (database-client.ts: DatabaseUnavailableError leaves the outcome open). *)
(***************************************************************************)
EXTENDS Naturals, Sequences, JournalData

CONSTANTS
  Process,      \* processes, each with a pid no other one reuses
  ProcessOf,    \* [Lane -> Process]
  MaxFaults,    \* bound: database calls that fail or lose their reply
  MaxRequests   \* bound: saves queued on one lane's #writing chain

ASSUME JournalAssumption ==
  /\ ProcessOf \in [Lane -> Process]
  /\ None \notin Lane \cup PassID \cup Fingerprints
  /\ MaxFaults \in Nat
  /\ MaxRequests \in Nat

VARIABLES
  alive,     \* process.kill(pid, 0) does not answer ESRCH
  owner,     \* the row's owner; None before the row exists and after release
  payload,   \* the row's payload; EMPTY_JOURNAL before the row exists
  closed,    \* #closed
  owned,     \* #owned
  data,      \* #data
  loading,   \* #loading: the database call load() is waiting for
  previous,  \* the owner load() read and will compare in its claim
  requests,  \* the saves queued on #writing, the running one first
  saving,    \* the running save has read the row and will write it
  closing,   \* #closing: "waiting" while close() runs, "done" once it resolved
  faults     \* database faults so far

row == <<alive, owner, payload>>
lane == <<closed, owned, data, loading, previous, requests, saving, closing>>
vars == <<row, lane, faults>>

Loading == {"idle", "read", "claim", "verify", "abandon"}

TypeOK ==
  /\ alive \in [Process -> BOOLEAN]
  /\ owner \in Lane \cup {None}
  /\ payload \in JournalRecord
  /\ closed \in [Lane -> BOOLEAN]
  /\ owned \in [Lane -> BOOLEAN]
  /\ data \in [Lane -> JournalRecord]
  /\ loading \in [Lane -> Loading]
  /\ previous \in [Lane -> Lane \cup {None}]
  /\ requests \in [Lane -> Seq(Request)]
  /\ saving \in [Lane -> BOOLEAN]
  /\ closing \in [Lane -> {"no", "waiting", "done"}]
  /\ faults \in 0..MaxFaults

Init ==
  /\ alive = [p \in Process |-> TRUE]
  /\ owner = None
  /\ payload = EMPTY_JOURNAL
  /\ closed = [l \in Lane |-> FALSE]
  /\ owned = [l \in Lane |-> FALSE]
  /\ data = [l \in Lane |-> EMPTY_JOURNAL]
  /\ loading = [l \in Lane |-> "idle"]
  /\ previous = [l \in Lane |-> None]
  /\ requests = [l \in Lane |-> <<>>]
  /\ saving = [l \in Lane |-> FALSE]
  /\ closing = [l \in Lane |-> "no"]
  /\ faults = 0

Live(l) == alive[ProcessOf[l]]

----------------------------------------------------------------------------
(* Loading: read the row, claim it, read it back.                          *)

Goto(l, step) == loading' = [loading EXCEPT ![l] = step]

(* load() on a lane that neither owns the row nor was closed; a load under *)
(* way is shared.                                                          *)
Load(l) ==
  /\ Live(l)
  /\ ~closed[l]
  /\ ~owned[l]
  /\ loading[l] = "idle"
  /\ Goto(l, "read")
  /\ UNCHANGED <<row, closed, owned, data, previous, requests, saving, closing, faults>>

\* Mutant: a dead owner holds its row as well.
HeldIgnoringLiveness(l) == owner \in Lane \ {l}

\* Mutant: no owner is respected.
HeldByNobody(l) == FALSE

HeldElsewhere(l) == owner \in Lane \ {l} /\ Live(owner)

ReadRow(l) ==
  /\ Live(l)
  /\ loading[l] = "read"
  /\ IF closed[l] \/ HeldElsewhere(l)
     THEN Goto(l, "idle") /\ UNCHANGED previous
     ELSE Goto(l, "claim") /\ previous' = [previous EXCEPT ![l] = owner]
  /\ UNCHANGED <<row, closed, owned, data, requests, saving, closing, faults>>

\* Mutant: the claim does not compare the owner it read.
ClaimUnconditionally(l) == TRUE

(* The upsert's WHERE owner IS previous. *)
ClaimApplies(l) == owner = previous[l]

(* The claim and the code after its reply; closed is tested there. *)
Claim(l) ==
  /\ Live(l)
  /\ loading[l] = "claim"
  /\ IF ClaimApplies(l)
     THEN owner' = l /\ Goto(l, IF closed[l] THEN "abandon" ELSE "verify")
     ELSE Goto(l, "idle") /\ UNCHANGED owner
  /\ previous' = [previous EXCEPT ![l] = None]
  /\ UNCHANGED <<alive, payload, closed, owned, data, requests, saving, closing, faults>>

(* Reading the claimed row back; a foreign owner would be an error. *)
Verify(l) ==
  /\ Live(l)
  /\ loading[l] = "verify"
  /\ IF owner = l
     THEN /\ data' = [data EXCEPT ![l] = payload]
          /\ owned' = [owned EXCEPT ![l] = TRUE]
          /\ Goto(l, "idle")
     ELSE Goto(l, "abandon") /\ UNCHANGED <<data, owned>>
  /\ UNCHANGED <<row, closed, previous, requests, saving, closing, faults>>

ReleasedOwner(l) == IF owner = l THEN None ELSE owner

(* Giving the claim back after close() or after a failed read-back. *)
Abandon(l) ==
  /\ Live(l)
  /\ loading[l] = "abandon"
  /\ owner' = ReleasedOwner(l)
  /\ Goto(l, "idle")
  /\ UNCHANGED <<alive, payload, closed, owned, data, previous, requests, saving, closing, faults>>

----------------------------------------------------------------------------
(* Saving: begin() and settle() queue on one promise chain.                *)

(* A review lane calls begin() and settle() once its load() succeeded. *)
Ask(l, request) ==
  /\ Live(l)
  /\ owned[l]
  /\ Len(requests[l]) < MaxRequests
  /\ requests' = [requests EXCEPT ![l] = Append(@, request)]
  /\ UNCHANGED <<row, closed, owned, data, loading, previous, saving, closing, faults>>

Finished(l) ==
  /\ requests' = [requests EXCEPT ![l] = Tail(@)]
  /\ saving' = [saving EXCEPT ![l] = FALSE]

Idle(l) == requests[l] # <<>> /\ ~saving[l]

(* The chain's next save is refused: "ownership was released" or changed. *)
RefuseSave(l) ==
  /\ Live(l)
  /\ Idle(l)
  /\ ~owned[l] \/ closed[l] \/ owner # l
  /\ Finished(l)
  /\ UNCHANGED <<row, closed, owned, data, loading, previous, closing, faults>>

(* A plausible bug: trust #data, which a lost reply may have left behind, *)
(* instead of reading the row before each save.                           *)
StartSaveFromMemory(l) ==
  /\ Live(l)
  /\ Idle(l)
  /\ owned[l] /\ ~closed[l] /\ owner = l
  /\ saving' = [saving EXCEPT ![l] = TRUE]
  /\ UNCHANGED <<row, requests, data, closed, owned, loading, previous, closing, faults>>

(* The next save re-reads the row, takes it as #data and computes its new  *)
(* value; it ends at once when the row holds that value already.           *)
StartSave(l) ==
  /\ Live(l)
  /\ Idle(l)
  /\ owned[l] /\ ~closed[l] /\ owner = l
  /\ data' = [data EXCEPT ![l] = payload]
  /\ IF Edited(l, Head(requests[l]), payload) = payload
     THEN Finished(l)
     ELSE /\ saving' = [saving EXCEPT ![l] = TRUE]
          /\ UNCHANGED requests
  /\ UNCHANGED <<row, closed, owned, loading, previous, closing, faults>>

Saved(l) == Edited(l, Head(requests[l]), data[l])

(* UPDATE ... WHERE owner = me, and #data follows when the reply arrives. *)
FinishSave(l) ==
  /\ Live(l)
  /\ saving[l]
  /\ IF owner = l
     THEN payload' = Saved(l) /\ data' = [data EXCEPT ![l] = Saved(l)]
     ELSE UNCHANGED <<payload, data>>
  /\ Finished(l)
  /\ UNCHANGED <<alive, owner, closed, owned, loading, previous, closing, faults>>

----------------------------------------------------------------------------
(* Closing: refuse new work, wait for the load and the save under way,     *)
(* then release the row.                                                   *)

(* close() on one lane, or again after it failed. *)
Close(l) ==
  /\ Live(l)
  /\ closing[l] = "no"
  /\ closed' = [closed EXCEPT ![l] = TRUE]
  /\ closing' = [closing EXCEPT ![l] = "waiting"]
  /\ UNCHANGED <<row, owned, data, loading, previous, requests, saving, faults>>

(* ReviewJournal.close(): every lane of the process that is not closing. *)
CloseAll(p) ==
  LET mine == {l \in Lane : ProcessOf[l] = p /\ closing[l] = "no"}
  IN /\ alive[p]
     /\ mine # {}
     /\ closed' = [l \in Lane |-> closed[l] \/ l \in mine]
     /\ closing' = [l \in Lane |-> IF l \in mine THEN "waiting" ELSE closing[l]]
     /\ UNCHANGED <<row, owned, data, loading, previous, requests, saving, faults>>

(* A plausible bug: only waiting when something is owned.                  *)
QuiescentIfOwned(l) == owned[l] /\ loading[l] = "idle" /\ ~saving[l]

(* What close() awaits; a queued save that did not start is refused.       *)
Quiescent(l) == loading[l] = "idle" /\ ~saving[l]

FinishClose(l) ==
  /\ Live(l)
  /\ closing[l] = "waiting"
  /\ Quiescent(l)
  /\ owner' = IF owned[l] THEN ReleasedOwner(l) ELSE owner
  /\ owned' = [owned EXCEPT ![l] = FALSE]
  /\ closing' = [closing EXCEPT ![l] = "done"]
  /\ UNCHANGED <<alive, payload, closed, data, loading, previous, requests, saving, faults>>

----------------------------------------------------------------------------
(* Faults.                                                                 *)

Fault == faults < MaxFaults /\ faults' = faults + 1

(* A call of load() that did not execute, or a read-back whose reply was   *)
(* lost or whose payload does not parse: only the read-back is caught, and *)
(* gives the claim back.                                                   *)
LoadFails(l) ==
  /\ Live(l)
  /\ Fault
  /\ loading[l] # "idle"
  /\ Goto(l, IF loading[l] = "verify" THEN "abandon" ELSE "idle")
  /\ previous' = [previous EXCEPT ![l] = None]
  /\ UNCHANGED <<row, closed, owned, data, requests, saving, closing>>

(* The claim was committed and its reply lost: load() rejects. *)
ClaimReplyLost(l) ==
  /\ Live(l)
  /\ Fault
  /\ loading[l] = "claim"
  /\ ClaimApplies(l)
  /\ owner' = l
  /\ previous' = [previous EXCEPT ![l] = None]
  /\ Goto(l, "idle")
  /\ UNCHANGED <<alive, payload, closed, owned, data, requests, saving, closing>>

(* The read or the write of the running save did not execute. *)
SaveFails(l) ==
  /\ Live(l)
  /\ Fault
  /\ requests[l] # <<>>
  /\ Finished(l)
  /\ UNCHANGED <<row, closed, owned, data, loading, previous, closing>>

(* The write was committed and its reply lost: #data is left behind. *)
SaveReplyLost(l) ==
  /\ Live(l)
  /\ Fault
  /\ saving[l]
  /\ payload' = IF owner = l THEN Saved(l) ELSE payload
  /\ Finished(l)
  /\ UNCHANGED <<alive, owner, closed, owned, data, loading, previous, closing>>

(* The release failed, before or after it executed; close() rejects, keeps *)
(* #owned and may be called again.                                         *)
CloseFails(l) ==
  /\ Live(l)
  /\ Fault
  /\ closing[l] = "waiting"
  /\ Quiescent(l)
  /\ owned[l]
  /\ owner' \in {owner, ReleasedOwner(l)}
  /\ closing' = [closing EXCEPT ![l] = "no"]
  /\ UNCHANGED <<alive, payload, closed, owned, data, loading, previous, requests, saving>>

(* The process dies with its memory and its pid; the row stays. *)
Crash(p) ==
  LET lost(f, initial) == [l \in Lane |-> IF ProcessOf[l] = p THEN initial ELSE f[l]]
  IN /\ alive[p]
     /\ alive' = [alive EXCEPT ![p] = FALSE]
     /\ closed' = lost(closed, FALSE)
     /\ owned' = lost(owned, FALSE)
     /\ data' = lost(data, EMPTY_JOURNAL)
     /\ loading' = lost(loading, "idle")
     /\ previous' = lost(previous, None)
     /\ requests' = lost(requests, <<>>)
     /\ saving' = lost(saving, FALSE)
     /\ closing' = lost(closing, "no")
     /\ UNCHANGED <<owner, payload, faults>>

----------------------------------------------------------------------------
(* The calls the database worker answers; its client fails every call of a *)
(* worker that stops (database-client.ts:41-51), so none waits for ever.   *)
LoadStep(l) == ReadRow(l) \/ Claim(l) \/ Verify(l) \/ Abandon(l)
SaveStep(l) == RefuseSave(l) \/ StartSave(l) \/ FinishSave(l)

DatabaseFault(l) ==
  \/ LoadFails(l)
  \/ ClaimReplyLost(l)
  \/ SaveFails(l)
  \/ SaveReplyLost(l)
  \/ CloseFails(l)

Next ==
  \/ \E l \in Lane :
       \/ Load(l)
       \/ LoadStep(l)
       \/ SaveStep(l)
       \/ Close(l)
       \/ FinishClose(l)
       \/ DatabaseFault(l)
       \/ \E request \in Request : Ask(l, request)
  \/ \E p \in Process : CloseAll(p) \/ Crash(p)

Spec == Init /\ [][Next]_vars

(* The load, the chain of saves and close() are promises of their own, and *)
(* the worker answers each: all three are weakly fair.  Load is weakly     *)
(* fair in RetrySpec only: every conversation event calls recover() on the *)
(* lanes of its root (runtime.ts), so a session in use keeps asking.       *)
FairSpec ==
  Spec /\ \A l \in Lane : /\ WF_vars(LoadStep(l))
                          /\ WF_vars(SaveStep(l))
                          /\ WF_vars(FinishClose(l))
RetrySpec == FairSpec /\ \A l \in Lane : WF_vars(Load(l))

----------------------------------------------------------------------------
(* Properties.                                                             *)

(* A lane that thinks it owns the row, and was not asked to close, does    *)
(* own it: no other process took it over (journal.ts:53-54).  So at most   *)
(* one lane writes at any time.                                            *)
OwnedIsRecorded == \A l \in Lane : owned[l] /\ ~closed[l] => owner = l

(* Between a save's read and its write nothing else changed the row, not   *)
(* even when an earlier save's reply was lost (journal.ts:84-91).          *)
NoLostUpdate == \A l \in Lane : saving[l] => owner = l /\ data[l] = payload

(* The row leaves a lane for another one only when the first lane's        *)
(* process is gone, however the two reads and the claim interleave: a      *)
(* claim never rests on a liveness check that went stale.                  *)
NoTakeoverFromLive ==
  [][\A l \in Lane : owner = l /\ owner' \in Lane \ {l} => ~Live(l)]_vars

(* Recorded progress moves only to the pass that was pending, or is        *)
(* dropped when the configuration changed: a late, repeated or foreign     *)
(* settle never moves it (journal.ts:72-79).                               *)
ProgressOnlyFromPending ==
  [][payload'.progress # payload.progress =>
       \/ payload'.progress = payload.pending
       \/ payload'.progress = None /\ payload'.fingerprint # payload.fingerprint]_vars

(* A lane whose close() resolved holds no claim (journal.ts:100-106; the   *)
(* README says the journal releases its claims before closing its handle). *)
NothingHeldAfterClose ==
  \A l \in Lane : Live(l) /\ closing[l] = "done" => owner # l

(* close() always returns, resolved or rejected. *)
CloseReturns ==
  \A l \in Lane : closing[l] = "waiting" ~> (closing[l] # "waiting" \/ ~Live(l))

(* The claim of a dead process never blocks the lane for good: while some  *)
(* live lane keeps loading, the row gets a live owner or none.             *)
DeadOwnerReplaced ==
  (owner \in Lane /\ ~Live(owner))
    ~> \/ owner = None
       \/ owner \in Lane /\ Live(owner)
       \/ \A l \in Lane : closed[l] \/ ~Live(l)

(* Seen as the record, the journal is its row; what the lanes keep in      *)
(* memory is hidden.                                                       *)
Register == INSTANCE JournalRegister
  WITH alive <- alive, owner <- owner, payload <- payload,
       Process <- Process, ProcessOf <- ProcessOf, Lane <- Lane, PassID <- PassID

(* The journal implements one atomic record with one owner.                *)
ImplementsRegister == Register!Spec
=============================================================================
