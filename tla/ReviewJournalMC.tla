-------------------------- MODULE ReviewJournalMC --------------------------
(* A small instance of ReviewJournal. *)
EXTENDS ReviewJournal, TLC

CONSTANTS p1, p2, l1, l2, f1, f2

(* One lane in each of two processes, configured differently. *)
TwoLanes == (l1 :> p1) @@ (l2 :> p2)
TwoConfigurations == (l1 :> f1) @@ (l2 :> f2)
=============================================================================
