-------------------------- MODULE JournalRegister --------------------------
(***************************************************************************)
(* What the journal promises its review lanes: one durable record with at  *)
(* most one owner, edited in single atomic steps by that owner alone, and  *)
(* handed over only when its owner gave it up or its process is gone.      *)
(*                                                                         *)
(* ReviewJournal, in which an edit is a read followed by a conditional     *)
(* write and any reply may be lost, is shown to implement this module.     *)
(***************************************************************************)
EXTENDS JournalData

CONSTANTS Process, ProcessOf

VARIABLES alive, owner, payload

vars == <<alive, owner, payload>>

Init ==
  /\ alive = [p \in Process |-> TRUE]
  /\ owner = None
  /\ payload = EMPTY_JOURNAL

Free ==
  \/ owner = None
  \/ owner \in Lane /\ ~alive[ProcessOf[owner]]

Acquire(l) ==
  /\ alive[ProcessOf[l]]
  /\ Free
  /\ owner' = l
  /\ UNCHANGED <<alive, payload>>

Edit(l, request) ==
  /\ alive[ProcessOf[l]]
  /\ owner = l
  /\ payload' = Edited(l, request, payload)
  /\ UNCHANGED <<alive, owner>>

Release(l) ==
  /\ alive[ProcessOf[l]]
  /\ owner = l
  /\ owner' = None
  /\ UNCHANGED <<alive, payload>>

Crash(p) ==
  /\ alive[p]
  /\ alive' = [alive EXCEPT ![p] = FALSE]
  /\ UNCHANGED <<owner, payload>>

Next ==
  \/ \E l \in Lane :
       \/ Acquire(l)
       \/ Release(l)
       \/ \E request \in Request : Edit(l, request)
  \/ \E p \in Process : Crash(p)

Spec == Init /\ [][Next]_vars
=============================================================================
