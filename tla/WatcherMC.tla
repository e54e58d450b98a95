----------------------------- MODULE WatcherMC -----------------------------
(* One reviewer and one session for TLC, with small times.  A behaviour    *)
(* has checkpoints and an end of the session, or a crash, or a write that  *)
(* fails; or the events that make a session watched.                       *)
EXTENDS Watcher

(* advisor/scheduling.ts:13. *)
Reviewers == [cooldown_ms |-> 1, pass_debounce_ms |-> 0, respectIdleCooldown |-> TRUE]

Instances == {Reviewers}

Ends == [natures |-> {"primary"}, events |->
  [signals |-> 2, registers |-> 1, tasks |-> 2, losses |-> 1, crashes |-> 0,
   suppressions |-> 0, reports |-> 1, faults |-> 0]]

Restarts == [natures |-> {"primary"}, events |->
  [signals |-> 2, registers |-> 1, tasks |-> 2, losses |-> 0, crashes |-> 1,
   suppressions |-> 0, reports |-> 1, faults |-> 0]]

Faults == [natures |-> {"primary"}, events |->
  [signals |-> 1, registers |-> 1, tasks |-> 3, losses |-> 0, crashes |-> 0,
   suppressions |-> 0, reports |-> 1, faults |-> 1]]

Sessions == [natures |-> {"primary", "child", "advised", "advisor"}, events |->
  [signals |-> 3, registers |-> 3, tasks |-> 0, losses |-> 2, crashes |-> 0,
   suppressions |-> 1, reports |-> 0, faults |-> 0]]

MCBounds == {Ends, Restarts, Faults, Sessions}
=============================================================================
