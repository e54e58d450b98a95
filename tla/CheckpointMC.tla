---------------------------- MODULE CheckpointMC ----------------------------
(* Small instances of Checkpoint: findings f1, a blocker, and f2, a        *)
(* concern on another issue; a page shows one of them.                     *)
EXTENDS AdviceInjection, TLC

CONSTANTS f1, f2, page

Severity == f1 :> "blocker" @@ f2 :> "concern"
Issues == f1 :> 1 @@ f2 :> 2

Ask(task, action, updates) == [task |-> task, action |-> action, updates |-> updates, offset |-> page]
Update(f, state, evidence, verification) ==
  [id |-> f, state |-> state, evidence |-> evidence, verification |-> verification]
Proves(f, action) == Update(f, "open", TRUE, [in_scope |-> TRUE, action |-> action])

Tasks == {Ask(task, "ship", <<>>) : task \in {"continue", "stop", "resume", "replace"}}
Repairs ==
  { Ask("continue", "ship", <<>>), Ask("continue", "ship", <<Proves(f1, "ship")>>),
    Ask("continue", None, <<Update(f1, "resolved", TRUE, None), Update(f2, "deferred", FALSE, None)>>),
    Ask("stop", None, <<Update(f1, "open", TRUE, None)>>) }
Closing == {Ask("continue", None, <<Update(f1, "deferred", FALSE, None)>>), Ask("replace", None, <<>>)}

Symmetry == Permutations(Call)

\* The context under faults and releases; findings and their reports; prompts.
MCBounds ==
  { [requests |-> Tasks, asks |-> 2, turns |-> 1, captures |-> 1, releases |-> 1, faults |-> 1,
     findings |-> 0, deliveries |-> 0, cards |-> 0, prompts |-> 0, compactions |-> 0],
    [requests |-> Repairs, asks |-> 2, turns |-> 1, captures |-> 0, releases |-> 0, faults |-> 1,
     findings |-> 2, deliveries |-> 0, cards |-> 0, prompts |-> 0, compactions |-> 0],
    [requests |-> Closing, asks |-> 1, turns |-> 1, captures |-> 1, releases |-> 1, faults |-> 0,
     findings |-> 1, deliveries |-> 1, cards |-> 1, prompts |-> 2, compactions |-> 1] }
=============================================================================
