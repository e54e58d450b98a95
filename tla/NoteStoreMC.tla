----------------------------- MODULE NoteStoreMC -----------------------------
(* Two reports, 1 and 2.  In the first cast report 1 is saved, confirmed   *)
(* and recovered beside report 2 while one reader delivers either; in the  *)
(* second both are there and two readers deliver them while their finding  *)
(* is closed and reopened.                                                 *)
EXTENDS NoteStore, TLC

CONSTANTS Saver, Checker, Recoverer

NoteOf1 == [w \in Writer |-> 1]

SavesThenCards ==
  {[earlier |-> {2}, writers |-> Writer, readers |-> {r},
    queued |-> {1}, changes |-> 1, faults |-> 1, until |-> 1] : r \in Reader}
  \union {[earlier |-> {1, 2}, writers |-> {}, readers |-> Reader,
           queued |-> {1}, changes |-> 2, faults |-> 1, until |-> 2]}

\* The two savers of one report, with nobody reading.
SavesOnly == {[earlier |-> {}, writers |-> Repairs, readers |-> {},
               queued |-> {}, changes |-> 0, faults |-> 1, until |-> 1]}

Symmetry == Permutations(Finding) \union Permutations(Reader)
=============================================================================
