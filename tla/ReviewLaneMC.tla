---------------------------- MODULE ReviewLaneMC ----------------------------
(* Small instances of ReviewLane for TLC. *)
EXTENDS ReviewLane, TLC

CONSTANTS q1, q2, l1, l2, a, b, f1, f2

(* The second lane object in the first one's process, or in another one. *)
SameProcess == [l \in Lane |-> q1]
OtherProcess == [l \in Lane |-> IF l = l1 THEN q1 ELSE q2]
SameConfiguration == [l \in Lane |-> f1]
OtherConfiguration == [l \in Lane |-> IF l = l1 THEN f1 ELSE f2]

Symmetry == Permutations(PassID)
=============================================================================
