--------------------------- MODULE CardDeliveryMC ---------------------------
(* Small instances of CardDelivery: turns and a replaced task, then calls  *)
(* that fail.  The finding of n1 is called f1.                             *)
EXTENDS CardDelivery

CONSTANTS n1, f1

Abouts == [n \in Note |-> IF n = n1 THEN {f1} ELSE Finding]

TurnsThenFailures ==
  { [turns |-> 3, steps |-> 0, faults |-> 0, forgets |-> 1, closes |-> {}, about |-> Abouts],
    [turns |-> 2, steps |-> 1, faults |-> 0, forgets |-> 0, closes |-> {n1}, about |-> Abouts],
    [turns |-> 2, steps |-> 0, faults |-> 0, forgets |-> 1, closes |-> Note, about |-> Abouts],
    [turns |-> 2, steps |-> 0, faults |-> 4, forgets |-> 0, closes |-> Note, about |-> Abouts] }
=============================================================================
