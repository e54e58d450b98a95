------------------------ MODULE ReviewJournalProofs ------------------------
(***************************************************************************)
(* Proofs about ReviewJournal for every set of processes and lanes and     *)
(* every bound.  The inductive invariant says three things: a liveness     *)
(* check a claim rests on can not go stale (a dead process stays dead),    *)
(* ownership in memory matches the row, and a save under way still holds   *)
(* the value it read.                                                      *)
(***************************************************************************)
EXTENDS ReviewJournal, SequenceTheorems, TLAPS

(* A claim under way compares the row with no owner, with the lane itself, *)
(* or with a lane whose process is gone.                                   *)
ClaimRestsOnDead ==
  \A l \in Lane : loading[l] = "claim" /\ previous[l] \in Lane \ {l} => ~Live(previous[l])

(* Memory of ownership: only in live processes, never during a load.       *)
OwnershipInMemory ==
  \A l \in Lane : owned[l] => Live(l) /\ loading[l] = "idle"

(* A save under way belongs to an owner and has a request. *)
SavingHasOwner == \A l \in Lane : saving[l] => owned[l] /\ requests[l] # <<>>

(* A lane that is closing, or did close, refuses new work. *)
ClosingIsClosed == \A l \in Lane : closing[l] # "no" => closed[l]

IInv ==
  /\ TypeOK
  /\ ClosingIsClosed
  /\ ClaimRestsOnDead
  /\ OwnershipInMemory
  /\ SavingHasOwner
  /\ OwnedIsRecorded
  /\ NoLostUpdate

(* The edits of a well-formed journal are well formed. *)
LEMMA EditedType ==
  ASSUME NEW l \in Lane, NEW request \in Request, NEW d \in JournalRecord
  PROVE  Edited(l, request, d) \in JournalRecord
<1>1. FingerprintOf[l] \in Fingerprints
  BY DEF Fingerprints
<1>2. CASE request.op = "begin"
  BY <1>1, <1>2 DEF Edited, Begun, Kept, Compatible, JournalRecord, Request
<1>3. CASE request.op # "begin"
  BY <1>1, <1>3 DEF Edited, Settled, Kept, Compatible, JournalRecord, Request
<1>4. QED
  BY <1>2, <1>3

(* An edit moves the recorded progress to the pending pass, or drops it    *)
(* under another configuration.                                            *)
LEMMA EditedProgress ==
  ASSUME NEW l \in Lane, NEW request \in Request, NEW d \in JournalRecord,
         Edited(l, request, d).progress # d.progress
  PROVE  LET e == Edited(l, request, d)
         IN \/ e.progress = d.pending
            \/ e.progress = None /\ e.fingerprint # d.fingerprint
<1>1. CASE request.op = "begin"
  BY <1>1 DEF Edited, Begun, Kept, Compatible, JournalRecord, Request
<1>2. CASE request.op # "begin"
  BY <1>2 DEF Edited, Settled, Kept, Compatible, JournalRecord, Request
<1>3. QED
  BY <1>1, <1>2

LEMMA AppendRequest ==
  ASSUME NEW s \in Seq(Request), NEW request \in Request
  PROVE  Append(s, request) \in Seq(Request) /\ Append(s, request) # <<>>
  BY AppendProperties

LEMMA InitInvariant == Init => IInv
  BY JournalAssumption DEF Init, IInv, TypeOK, ClaimRestsOnDead, OwnershipInMemory,
       SavingHasOwner, OwnedIsRecorded, NoLostUpdate, ClosingIsClosed, JournalRecord, EMPTY_JOURNAL, Loading

LEMMA StepInvariant == IInv /\ [Next]_vars => IInv'
<1> SUFFICES ASSUME IInv, [Next]_vars PROVE IInv'
  OBVIOUS
<1> USE JournalAssumption
<1> USE DEF IInv, TypeOK, ClaimRestsOnDead, OwnershipInMemory, SavingHasOwner,
        OwnedIsRecorded, NoLostUpdate, ClosingIsClosed, Live, Loading, row, Goto
<1>1. ASSUME NEW l \in Lane, Load(l) PROVE IInv'
  BY <1>1 DEF Load
<1>2. ASSUME NEW l \in Lane, ReadRow(l) PROVE IInv'
  <2>1. CASE closed[l] \/ HeldElsewhere(l)
    <3>1. /\ loading' = [loading EXCEPT ![l] = "idle"]
          /\ UNCHANGED <<alive, owner, payload, closed, owned, data, previous, requests,
                         saving, closing, faults>>
      BY <1>2, <2>1 DEF ReadRow
    <3>2. TypeOK'
      BY <3>1
    <3>3. QED
      BY <3>1, <3>2
  <2>2. CASE ~(closed[l] \/ HeldElsewhere(l))
    <3>1. owner \in Lane \ {l} => ~Live(owner)
      BY <2>2 DEF HeldElsewhere
    <3>2. /\ loading' = [loading EXCEPT ![l] = "claim"]
          /\ previous' = [previous EXCEPT ![l] = owner]
          /\ loading[l] = "read"
          /\ UNCHANGED <<row, closed, owned, data, requests, saving, closing, faults>>
      BY <1>2, <2>2 DEF ReadRow
    <3>3. TypeOK' /\ OwnershipInMemory' /\ SavingHasOwner' /\ ClosingIsClosed' /\ OwnedIsRecorded' /\ NoLostUpdate'
      BY <3>2
    <3>4. ClaimRestsOnDead'
      BY <3>1, <3>2
    <3>5. QED
      BY <3>3, <3>4
  <2>3. QED
    BY <2>1, <2>2
<1>3. ASSUME NEW l \in Lane, Claim(l) PROVE IInv'
  <2>1. CASE ClaimApplies(l)
    <3>1. /\ owner' = l
          /\ loading[l] = "claim"
          /\ loading' = [loading EXCEPT ![l] = IF closed[l] THEN "abandon" ELSE "verify"]
          /\ previous' = [previous EXCEPT ![l] = None]
          /\ UNCHANGED <<alive, payload, closed, owned, data, requests, saving, closing, faults>>
      BY <1>3, <2>1 DEF Claim
    <3>2. owner \in Lane \ {l} => ~Live(owner)
      BY <1>3, <2>1 DEF Claim, ClaimApplies
    <3>3. \A k \in Lane \ {l} : owned[k] => owner # k
      BY <3>2
    <3>4. ~owned[l]
      BY <3>1
    <3>5. TypeOK' /\ ClaimRestsOnDead' /\ OwnershipInMemory' /\ SavingHasOwner' /\ ClosingIsClosed'
      BY <3>1, <3>4
    <3>6. OwnedIsRecorded' /\ NoLostUpdate'
      BY <3>1, <3>3, <3>4
    <3>7. QED
      BY <3>5, <3>6
  <2>2. CASE ~ClaimApplies(l)
    <3>1. /\ loading' = [loading EXCEPT ![l] = "idle"]
          /\ previous' = [previous EXCEPT ![l] = None]
          /\ UNCHANGED <<alive, owner, payload, closed, owned, data, requests, saving, closing, faults>>
      BY <1>3, <2>2 DEF Claim
    <3>2. TypeOK'
      BY <3>1
    <3>3. QED
      BY <3>1, <3>2
  <2>3. QED
    BY <2>1, <2>2
<1>4. ASSUME NEW l \in Lane, Verify(l) PROVE IInv'
  <2>1. CASE owner = l
    <3>1. /\ data' = [data EXCEPT ![l] = payload]
          /\ owned' = [owned EXCEPT ![l] = TRUE]
          /\ loading' = [loading EXCEPT ![l] = "idle"]
          /\ loading[l] = "verify" /\ alive[ProcessOf[l]]
          /\ UNCHANGED <<alive, owner, payload, closed, previous, requests, saving, closing, faults>>
      BY <1>4, <2>1 DEF Verify
    <3>2. TypeOK'
      BY <3>1
    <3>3. ClaimRestsOnDead' /\ OwnershipInMemory' /\ SavingHasOwner' /\ ClosingIsClosed'
      BY <3>1
    <3>4. OwnedIsRecorded' /\ NoLostUpdate'
      BY <2>1, <3>1
    <3>5. QED
      BY <3>2, <3>3, <3>4
  <2>2. CASE owner # l
    <3>1. /\ loading' = [loading EXCEPT ![l] = "abandon"]
          /\ loading[l] = "verify"
          /\ UNCHANGED <<alive, owner, payload, closed, owned, data, previous, requests, saving, closing, faults>>
      BY <1>4, <2>2 DEF Verify
    <3>2. TypeOK'
      BY <3>1
    <3>3. QED
      BY <3>1, <3>2
  <2>3. QED
    BY <2>1, <2>2
<1>5. ASSUME NEW l \in Lane, Abandon(l) PROVE IInv'
  BY <1>5 DEF Abandon, ReleasedOwner
<1>6. ASSUME NEW l \in Lane, RefuseSave(l) PROVE IInv'
  BY <1>6 DEF RefuseSave, Finished, Idle
<1>7. ASSUME NEW l \in Lane, StartSave(l) PROVE IInv'
  <2>1. CASE Edited(l, Head(requests[l]), payload) = payload
    <3>1. /\ data' = [data EXCEPT ![l] = payload]
          /\ requests' = [requests EXCEPT ![l] = Tail(@)]
          /\ saving' = [saving EXCEPT ![l] = FALSE]
          /\ requests[l] # <<>> /\ ~saving[l]
          /\ UNCHANGED <<alive, owner, payload, closed, owned, loading, previous, closing, faults>>
      BY <1>7, <2>1 DEF StartSave, Finished, Idle
    <3>2. TypeOK'
      BY <3>1
    <3>3. QED
      BY <3>1, <3>2
  <2>2. CASE Edited(l, Head(requests[l]), payload) # payload
    <3>1. /\ data' = [data EXCEPT ![l] = payload]
          /\ saving' = [saving EXCEPT ![l] = TRUE]
          /\ requests[l] # <<>> /\ owned[l] /\ owner = l
          /\ UNCHANGED <<alive, owner, payload, closed, owned, loading, previous, requests,
                         closing, faults>>
      BY <1>7, <2>2 DEF StartSave, Idle
    <3>2. TypeOK'
      BY <3>1
    <3>3. QED
      BY <3>1, <3>2
  <2>3. QED
    BY <2>1, <2>2
<1>8. ASSUME NEW l \in Lane, FinishSave(l) PROVE IInv'
  <2>1. /\ owner = l
        /\ payload' = Saved(l)
        /\ data' = [data EXCEPT ![l] = Saved(l)]
        /\ saving' = [saving EXCEPT ![l] = FALSE]
        /\ requests' = [requests EXCEPT ![l] = Tail(@)]
        /\ requests[l] # <<>>
        /\ UNCHANGED <<alive, owner, closed, owned, loading, previous, closing, faults>>
    BY <1>8 DEF FinishSave, Finished
  <2>2. Saved(l) \in JournalRecord
    BY <2>1, EditedType DEF Saved
  <2>3. TypeOK'
    BY <2>1, <2>2
  <2>4. ClaimRestsOnDead' /\ OwnershipInMemory' /\ SavingHasOwner' /\ ClosingIsClosed' /\ OwnedIsRecorded'
    BY <2>1
  <2>5. NoLostUpdate'
    BY <2>1
  <2>6. QED
    BY <2>3, <2>4, <2>5
<1>9. ASSUME NEW l \in Lane, Close(l) PROVE IInv'
  BY <1>9 DEF Close
<1>10. ASSUME NEW l \in Lane, FinishClose(l) PROVE IInv'
  BY <1>10 DEF FinishClose, Quiescent, ReleasedOwner
<1>11. ASSUME NEW l \in Lane, LoadFails(l) PROVE IInv'
  BY <1>11 DEF LoadFails, Fault
<1>12. ASSUME NEW l \in Lane, ClaimReplyLost(l) PROVE IInv'
  BY <1>12 DEF ClaimReplyLost, ClaimApplies, Fault
<1>13. ASSUME NEW l \in Lane, SaveFails(l) PROVE IInv'
  BY <1>13 DEF SaveFails, Finished, Fault
<1>14. ASSUME NEW l \in Lane, SaveReplyLost(l) PROVE IInv'
  BY <1>14, EditedType DEF SaveReplyLost, Finished, Fault, Saved
<1>15. ASSUME NEW l \in Lane, CloseFails(l) PROVE IInv'
  <2>1. /\ closing[l] = "waiting" /\ saving[l] = FALSE /\ owned[l]
        /\ owner' \in {owner, ReleasedOwner(l)}
        /\ closing' = [closing EXCEPT ![l] = "no"]
        /\ faults < MaxFaults /\ faults' = faults + 1
        /\ UNCHANGED <<alive, payload, closed, owned, data, loading, previous, requests, saving>>
    BY <1>15 DEF CloseFails, Quiescent, Fault
  <2>2. (owner' = owner) \/ (owner = l /\ owner' = None)
    <3>1. CASE owner = l
      BY <2>1, <3>1, ReleasedOwner(l) = None DEF ReleasedOwner
    <3>2. CASE owner # l
      BY <2>1, <3>2, ReleasedOwner(l) = owner DEF ReleasedOwner
    <3>3. QED
      BY <3>1, <3>2
  <2>3. TypeOK' /\ ClaimRestsOnDead' /\ OwnershipInMemory' /\ SavingHasOwner' /\ ClosingIsClosed'
    BY <2>1, <2>2
  <2>4. OwnedIsRecorded' /\ NoLostUpdate'
    BY <2>1, <2>2
  <2>5. QED
    BY <2>3, <2>4
<1>16. ASSUME NEW l \in Lane, NEW request \in Request, Ask(l, request) PROVE IInv'
  <2>1. /\ requests' = [requests EXCEPT ![l] = Append(@, request)]
        /\ UNCHANGED <<alive, owner, payload, closed, owned, data, loading, previous,
                       saving, closing, faults>>
    BY <1>16 DEF Ask
  <2>2. Append(requests[l], request) \in Seq(Request) /\ Append(requests[l], request) # <<>>
    BY AppendRequest, requests[l] \in Seq(Request)
  <2>3. TypeOK'
    BY <2>1, <2>2
  <2>4. \A k \in Lane : requests'[k] = <<>> => requests[k] = <<>>
    BY <2>1, <2>2
  <2>5. QED
    BY <2>1, <2>3, <2>4
<1>17. ASSUME NEW p \in Process, CloseAll(p) PROVE IInv'
  BY <1>17 DEF CloseAll
<1>18. ASSUME NEW p \in Process, Crash(p) PROVE IInv'
  <2>1. EMPTY_JOURNAL \in JournalRecord
    BY DEF JournalRecord, EMPTY_JOURNAL
  <2>2. TypeOK'
    <3>1. /\ alive' \in [Process -> BOOLEAN]
          /\ owner' \in Lane \cup {None}
          /\ payload' \in JournalRecord
          /\ faults' \in 0..MaxFaults
      BY <1>18 DEF Crash
    <3>2. closed' \in [Lane -> BOOLEAN] /\ owned' \in [Lane -> BOOLEAN] /\ saving' \in [Lane -> BOOLEAN]
      BY <1>18 DEF Crash
    <3>3. data' \in [Lane -> JournalRecord]
      BY <1>18, <2>1 DEF Crash
    <3>4. loading' \in [Lane -> Loading] /\ closing' \in [Lane -> {"no", "waiting", "done"}]
      BY <1>18 DEF Crash
    <3>5. previous' \in [Lane -> Lane \cup {None}]
      BY <1>18 DEF Crash
    <3>6. requests' \in [Lane -> Seq(Request)]
      BY <1>18 DEF Crash
    <3>7. QED
      BY <3>1, <3>2, <3>3, <3>4, <3>5, <3>6
  <2>3. /\ alive' = [alive EXCEPT ![p] = FALSE]
        /\ \A l \in Lane :
             IF ProcessOf[l] = p
             THEN ~owned'[l] /\ ~saving'[l] /\ loading'[l] = "idle" /\ closing'[l] = "no"
             ELSE /\ owned'[l] = owned[l] /\ saving'[l] = saving[l]
                  /\ loading'[l] = loading[l] /\ previous'[l] = previous[l]
                  /\ requests'[l] = requests[l] /\ closed'[l] = closed[l]
                  /\ data'[l] = data[l] /\ closing'[l] = closing[l]
        /\ UNCHANGED <<owner, payload, faults>>
    BY <1>18 DEF Crash
  <2>4. ClaimRestsOnDead'
    BY <2>2, <2>3
  <2>5. OwnershipInMemory' /\ SavingHasOwner' /\ ClosingIsClosed'
    BY <2>2, <2>3
  <2>6. OwnedIsRecorded' /\ NoLostUpdate'
    BY <2>2, <2>3
  <2>7. QED
    BY <2>2, <2>4, <2>5, <2>6
<1>19. CASE UNCHANGED vars
  BY <1>19 DEF vars, lane
<1>20. QED
  BY <1>1, <1>2, <1>3, <1>4, <1>5, <1>6, <1>7, <1>8, <1>9, <1>10, <1>11, <1>12,
     <1>13, <1>14, <1>15, <1>16, <1>17, <1>18, <1>19
     DEF Next, LoadStep, SaveStep, DatabaseFault

LEMMA InvariantHolds == Spec => []IInv
<1>1. QED
  BY InitInvariant, StepInvariant, PTL DEF Spec

(* Type correctness of the lanes and of the row. *)
THEOREM TypeCorrect == Spec => []TypeOK
<1>1. IInv => TypeOK
  BY DEF IInv
<1>2. QED
  BY <1>1, InvariantHolds, PTL

(* A lane that believes it owns the row, and is not closing, owns it; two  *)
(* lanes never believe so together.                                        *)
THEOREM OwnershipIsRecorded == Spec => []OwnedIsRecorded
<1>1. IInv => OwnedIsRecorded
  BY DEF IInv
<1>2. QED
  BY <1>1, InvariantHolds, PTL

(* A save writes a value computed from what the row still holds: the read  *)
(* and the conditional write act as one step.                              *)
THEOREM SavesLoseNothing == Spec => []NoLostUpdate
<1>1. IInv => NoLostUpdate
  BY DEF IInv
<1>2. QED
  BY <1>1, InvariantHolds, PTL

----------------------------------------------------------------------------
(* Only a claim moves the row to another lane, and only a save changes the *)
(* payload.                                                                *)

LEMMA OwnerMovesByClaim ==
  ASSUME IInv, Next, NEW l \in Lane, owner = l, owner' \in Lane \ {l}
  PROVE  ~Live(l)
<1>1. PICK k \in Lane : loading[k] = "claim" /\ ClaimApplies(k) /\ owner' = k
  <2> USE DEF row, Fault
  <2>1. CASE \E k \in Lane : Claim(k)
    BY <2>1 DEF Claim
  <2>2. CASE \E k \in Lane : ClaimReplyLost(k)
    BY <2>2 DEF ClaimReplyLost
  <2>3. CASE \E k \in Lane : Abandon(k) \/ FinishClose(k) \/ CloseFails(k)
    <3>1. None \notin Lane
      BY JournalAssumption
    <3>2. owner' = None \/ owner' = owner
      BY <2>3 DEF Abandon, FinishClose, CloseFails, ReleasedOwner
    <3>3. QED
      BY <3>1, <3>2
  <2>4. CASE \E k \in Lane : Load(k) \/ ReadRow(k) \/ Verify(k) \/ SaveStep(k) \/ Close(k)
    BY <2>4 DEF Load, ReadRow, Verify, SaveStep, RefuseSave, StartSave, FinishSave, Close
  <2>5. CASE \E k \in Lane : LoadFails(k) \/ SaveFails(k) \/ SaveReplyLost(k)
    BY <2>5 DEF LoadFails, SaveFails, SaveReplyLost
  <2>6. CASE \E k \in Lane, request \in Request : Ask(k, request)
    BY <2>6 DEF Ask
  <2>7. CASE \E p \in Process : CloseAll(p) \/ Crash(p)
    BY <2>7 DEF CloseAll, Crash
  <2>8. QED
    BY <2>1, <2>2, <2>3, <2>4, <2>5, <2>6, <2>7 DEF Next, LoadStep, DatabaseFault
<1>2. k # l /\ previous[k] = l
  BY <1>1 DEF ClaimApplies
<1>3. QED
  BY <1>1, <1>2 DEF IInv, ClaimRestsOnDead

LEMMA PayloadMovesBySave ==
  ASSUME IInv, Next, payload' # payload
  PROVE  \E l \in Lane, request \in Request :
           /\ Live(l) /\ owner = l
           /\ payload' = Edited(l, request, payload)
           /\ UNCHANGED <<alive, owner>>
<1>1. PICK l \in Lane : FinishSave(l) \/ SaveReplyLost(l)
  BY DEF Next, LoadStep, SaveStep, DatabaseFault, Load, ReadRow, Claim, Verify, Abandon,
         RefuseSave, StartSave, Close, FinishClose, LoadFails, ClaimReplyLost, SaveFails,
         CloseFails, Ask, CloseAll, Crash, row
<1>2. /\ Live(l) /\ saving[l] /\ owner = l
      /\ payload' = Saved(l)
      /\ UNCHANGED <<alive, owner>>
  BY <1>1 DEF FinishSave, SaveReplyLost
<1>3. data[l] = payload /\ requests[l] \in Seq(Request) /\ requests[l] # <<>>
  BY <1>2 DEF IInv, TypeOK, NoLostUpdate, SavingHasOwner
<1>4. Head(requests[l]) \in Request
  BY <1>3
<1>5. QED
  BY <1>2, <1>3, <1>4 DEF Saved

(* However reads, claims, crashes and lost replies interleave, a live      *)
(* process never loses the row to another lane.                            *)
THEOREM LiveOwnersKeepTheRow == Spec => NoTakeoverFromLive
<1>1. IInv /\ [Next]_vars =>
        [\A l \in Lane : owner = l /\ owner' \in Lane \ {l} => ~Live(l)]_vars
  BY OwnerMovesByClaim
<1>2. QED
  BY <1>1, InvariantHolds, PTL DEF Spec, NoTakeoverFromLive

(* Recorded progress moves only to the pending pass.                       *)
THEOREM ProgressFollowsPending == Spec => ProgressOnlyFromPending
<1>1. ASSUME IInv, Next, payload'.progress # payload.progress
      PROVE  \/ payload'.progress = payload.pending
             \/ payload'.progress = None /\ payload'.fingerprint # payload.fingerprint
  <2>1. PICK l \in Lane, request \in Request : payload' = Edited(l, request, payload)
    BY <1>1, PayloadMovesBySave
  <2>2. payload \in JournalRecord
    BY <1>1 DEF IInv, TypeOK
  <2>3. QED
    BY <1>1, <2>1, <2>2, EditedProgress
<1>2. IInv /\ [Next]_vars =>
        [payload'.progress # payload.progress =>
           \/ payload'.progress = payload.pending
           \/ payload'.progress = None /\ payload'.fingerprint # payload.fingerprint]_vars
  BY <1>1
<1>3. QED
  BY <1>2, InvariantHolds, PTL DEF Spec, ProgressOnlyFromPending

----------------------------------------------------------------------------
(* The journal implements one atomic record with one owner at a time: each *)
(* of its steps is a step of JournalRegister or leaves the record alone.   *)
THEOREM ImplementsRegisterTheorem == Spec => ImplementsRegister
<1> USE DEF Register!Next, Register!vars, Register!Acquire, Register!Edit, Register!Release,
        Register!Crash, Register!Free, row, Live
<1>1. Init => Register!Init
  BY DEF Init, Register!Init, EMPTY_JOURNAL, Register!EMPTY_JOURNAL
<1>2. ASSUME IInv, Next PROVE [Register!Next]_(Register!vars)
  <2>1. CASE payload' # payload
    <3>1. PICK l \in Lane, request \in Request :
            /\ Live(l) /\ owner = l
            /\ payload' = Edited(l, request, payload)
            /\ UNCHANGED <<alive, owner>>
      BY <1>2, <2>1, PayloadMovesBySave
    <3>2. request \in Register!Request
      BY DEF Request, Register!Request
    <3>3. Register!Edited(l, request, payload) = Edited(l, request, payload)
      BY DEF Edited, Begun, Settled, Kept, Compatible, Register!Edited, Register!Begun,
             Register!Settled, Register!Kept, Register!Compatible
    <3>4. Register!Edit(l, request)
      BY <3>1, <3>3
    <3>5. QED
      BY <3>2, <3>4
  <2>2. CASE \E p \in Process : Crash(p)
    BY <2>2 DEF Crash
  <2>3. CASE \E l \in Lane : Claim(l) \/ ClaimReplyLost(l)
    <3>1. PICK l \in Lane : Claim(l) \/ ClaimReplyLost(l)
      BY <2>3
    <3>2. CASE owner' = owner
      BY <3>1, <3>2 DEF Claim, ClaimReplyLost
    <3>3. CASE owner' # owner
      <4>1. /\ Live(l) /\ loading[l] = "claim" /\ owner' = l
            /\ owner = previous[l] /\ UNCHANGED <<alive, payload>>
        BY <3>1, <3>3 DEF Claim, ClaimReplyLost, ClaimApplies
      <4>2. owner = None \/ owner \in Lane \ {l}
        BY <1>2, <3>3, <4>1 DEF IInv, TypeOK
      <4>3. owner \in Lane \ {l} => ~Live(owner)
        BY <1>2, <4>1 DEF IInv, ClaimRestsOnDead
      <4>4. Register!Acquire(l)
        BY <4>1, <4>2, <4>3
      <4>5. QED
        BY <4>4
    <3>4. QED
      BY <3>2, <3>3
  <2>4. CASE \E l \in Lane : Abandon(l) \/ FinishClose(l) \/ CloseFails(l)
    <3>1. PICK l \in Lane : Abandon(l) \/ FinishClose(l) \/ CloseFails(l)
      BY <2>4
    <3>2. Live(l) /\ UNCHANGED <<alive, payload>> /\ owner' \in {owner, ReleasedOwner(l)}
      BY <3>1 DEF Abandon, FinishClose, CloseFails
    <3>3. CASE owner = l
      BY <3>2, <3>3, ReleasedOwner(l) = None DEF ReleasedOwner
    <3>4. CASE owner # l
      BY <3>2, <3>4, ReleasedOwner(l) = owner DEF ReleasedOwner
    <3>5. QED
      BY <3>3, <3>4
  <2>5. CASE payload' = payload /\ \E l \in Lane : SaveStep(l) \/ SaveReplyLost(l)
    BY <2>5 DEF SaveStep, RefuseSave, StartSave, FinishSave, SaveReplyLost
  <2>6. CASE \E l \in Lane : Load(l) \/ ReadRow(l) \/ Verify(l) \/ Close(l)
                           \/ LoadFails(l) \/ SaveFails(l)
    BY <2>6 DEF Load, ReadRow, Verify, Close, LoadFails, SaveFails
  <2>7. CASE \E l \in Lane, request \in Request : Ask(l, request)
    BY <2>7 DEF Ask
  <2>8. CASE \E p \in Process : CloseAll(p)
    BY <2>8 DEF CloseAll
  <2>9. QED
    BY <1>2, <2>1, <2>2, <2>3, <2>4, <2>5, <2>6, <2>7, <2>8
       DEF Next, LoadStep, SaveStep, DatabaseFault
<1>3. IInv /\ [Next]_vars => [Register!Next]_(Register!vars)
  <2>1. ASSUME UNCHANGED vars PROVE UNCHANGED Register!vars
    BY <2>1 DEF vars
  <2>2. QED
    BY <1>2, <2>1
<1>4. QED
  BY <1>1, <1>3, InvariantHolds, PTL DEF Spec, ImplementsRegister, Register!Spec
=============================================================================
