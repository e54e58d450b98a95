----------------------------- MODULE ProcessMC -----------------------------
(***************************************************************************)
(* Small instances, for TLC, of the three services that everything in the  *)
(* process shares: the admission of requests to providers, the SQLite      *)
(* worker and the usage ledger.  They share no state, so a behaviour runs  *)
(* one of them, and the others rest: the states that TLC visits are the    *)
(* sum and not the product of theirs.                                      *)
(***************************************************************************)
EXTENDS ProviderAdmission, DatabaseClient, UsageLedger, TLC

CONSTANTS r1, r2, v1, v2, c1, c2, c3, c4, A, B, p1, p2, s1, s2, d1, d2, o1

VARIABLE service

(* Two plugin instances, two task roots; c4 asks a second provider. *)
CallRuntime == c1 :> r1 @@ c2 :> r2 @@ c3 :> r1 @@ c4 :> r2
CallProvider == c1 :> v1 @@ c2 :> v1 @@ c3 :> v1 @@ c4 :> v2
CallRoot == c1 :> A @@ c2 :> B @@ c3 :> A @@ c4 :> B
CallAttempt == c1 :> 1 @@ c2 :> 2 @@ c3 :> 3 @@ c4 :> 4

ProcessInit ==
  /\ service \in {"admission", "database", "usage"}
  /\ Init /\ DatabaseInit /\ UsageInit
  /\ stores[s1].dir = d1
  /\ service # "database" => stores[s2].dir = d1

ProcessNext ==
  /\ UNCHANGED service
  /\ \/ service = "admission" /\ Next /\ UNCHANGED <<databaseVars, usageVars>>
     \/ service = "database" /\ DatabaseNext /\ UNCHANGED <<vars, usageVars>>
     \/ service = "usage" /\ UsageNext /\ UNCHANGED <<vars, databaseVars>>

ProcessSpec ==
  /\ ProcessInit /\ [][ProcessNext]_<<service, vars, databaseVars, usageVars>>
  /\ AdmissionFairness /\ DatabaseFairness /\ UsageFairness
=============================================================================
