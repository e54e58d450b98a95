----------------------------- MODULE DeltaSlice -----------------------------
(***************************************************************************)
(* What a reviewer has not reviewed yet: sliceDelta (delta.ts) and the     *)
(* fingerprints of a cursor (history/cursor.ts), as operators.             *)
(*                                                                         *)
(* A transcript is a function from the ids of its messages, numbers in the *)
(* order of creation, to the messages; the parts of a message are a        *)
(* function from part ids to contents.  Digests are taken to be injective, *)
(* so a digest is what it was computed from.  Fingerprints are kept for    *)
(* the last Window messages and for PartLimit parts among them; one digest *)
(* covers all older ones.  Cursors of the format without fingerprints are  *)
(* left out.                                                               *)
(***************************************************************************)
EXTENDS Naturals, FiniteSets, FiniteSetsExt

CONSTANTS
  Window,     \* 2048 in the code
  PartLimit,  \* 8192 in the code
  None

ASSUME WindowAssumption == Window \in Nat \ {0} /\ PartLimit \in Nat

(* A card that was delivered into the session is not work to review.       *)
Reviewable(parts) == [p \in {q \in DOMAIN parts : parts[q] # "card"} |-> parts[p]]

Size(parts) == Cardinality(DOMAIN Reviewable(parts))

(* The last Window messages, which have fingerprints.                      *)
Recent(t) == {id \in DOMAIN t : Cardinality({later \in DOMAIN t : later > id}) < Window}

(* room[id]: fingerprints left once message id and all later ones have     *)
(* theirs.                                                                 *)
Room(t) ==
  LET room[id \in Nat] ==
        IF id > Max(DOMAIN t) THEN PartLimit
        ELSE IF id \in DOMAIN t /\ Size(t[id].parts) <= room[id + 1] THEN room[id + 1] - Size(t[id].parts)
        ELSE room[id + 1]
  IN room

(* kept: the parts have a fingerprint each, not only the message.          *)
Observation(parts, room) == [digest |-> Reviewable(parts), kept |-> Size(parts) <= room]

ObserveCursor(t) == [id \in Recent(t) |-> Observation(t[id].parts, Room(t)[id + 1])]

PrefixBefore(t, id) ==
  IF id \notin DOMAIN t THEN None
  ELSE [before |-> id, digest |-> [m \in {n \in DOMAIN t : n < id} |-> Reviewable(t[m].parts)]]

ObservePrefix(t) == IF Cardinality(DOMAIN t) <= Window THEN None ELSE PrefixBefore(t, Min(Recent(t)))

ChangedParts(before, after) ==
  IF before = None THEN DOMAIN after.digest
  ELSE IF before.digest = after.digest THEN {}
  ELSE IF ~before.kept \/ ~after.kept \/ DOMAIN before.digest \ DOMAIN after.digest # {}
       THEN DOMAIN after.digest
  ELSE {p \in DOMAIN after.digest : p \notin DOMAIN before.digest
                                    \/ before.digest[p] # after.digest[p]}

NoCursor == [last |-> None, observed |-> <<>>, prefix |-> None]

Lookup(observed, id) == IF id \in DOMAIN observed THEN observed[id] ELSE None

\* Mutant: what precedes the last fingerprint counts as seen.
NewPartsSinceLast(t, cursor, id) ==
  LET before == Lookup(cursor.observed, id)
      after  == Lookup(ObserveCursor(t), id)
  IN IF cursor.last \notin DOMAIN t \/ id > cursor.last THEN DOMAIN Reviewable(t[id].parts)
     ELSE IF before = None \/ after = None THEN {} ELSE ChangedParts(before, after)

PrefixChanged(t, cursor) ==
  /\ ObservePrefix(t) # None
  /\ cursor.prefix = None \/ PrefixBefore(t, cursor.prefix.before) # cursor.prefix

(* The parts of message id that are new to a cursor.                       *)
NewParts(t, cursor, id) ==
  LET before == Lookup(cursor.observed, id)
      after  == Lookup(ObserveCursor(t), id)
  IN IF cursor.last \notin DOMAIN t THEN DOMAIN Reviewable(t[id].parts)
     ELSE IF before = None /\ after = None
          THEN IF id > cursor.last \/ PrefixChanged(t, cursor) THEN DOMAIN Reviewable(t[id].parts) ELSE {}
     ELSE ChangedParts(before, IF after = None THEN Observation(t[id].parts, PartLimit) ELSE after)

(* sliceDelta: what to review, as <<message, part, content>>, and the      *)
(* cursor that covers it.                                                  *)
SliceDelta(t, cursor) ==
  [delta |-> UNION {{<<id, p, t[id].parts[p]>> : p \in NewParts(t, cursor, id)} : id \in DOMAIN t},
   next  |-> IF DOMAIN t = {} THEN cursor
             ELSE [last |-> Max(DOMAIN t), observed |-> ObserveCursor(t), prefix |-> ObservePrefix(t)]]
=============================================================================
