---------------------------- MODULE JournalData ----------------------------
(***************************************************************************)
(* The payload of one row of the review_journal table and the two edits    *)
(* the advisor makes to it (advisor/journal.ts, advisor/journal-data.ts).  *)
(*                                                                         *)
(* A pass is identified by its pass ID.  The cursor and the content hash   *)
(* always move together, so "progress" stands for both: it is the pass     *)
(* whose slice of the conversation was last recorded as reviewed, None for *)
(* the empty cursor.  The journal's "pending" carries the cursor the pass  *)
(* would advance to, so a pass ID stands for that cursor as well.          *)
(***************************************************************************)
CONSTANTS
  Lane,           \* JournalLane objects, each with its own random owner UUID
  PassID,         \* pass IDs
  FingerprintOf,  \* [Lane -> configuration digest] (journal.ts:20-21)
  None            \* null, undefined, the empty cursor, the empty fingerprint

Fingerprints == {FingerprintOf[l] : l \in Lane}

JournalRecord == [fingerprint : Fingerprints \cup {None},
                  progress    : PassID \cup {None},
                  pending     : PassID \cup {None}]

EMPTY_JOURNAL == [fingerprint |-> None, progress |-> None, pending |-> None]

(* A call the review lane makes: begin a pass, or settle it with or without *)
(* advancing the cursor.                                                    *)
Request == [op : {"begin"}, id : PassID]
             \cup [op : {"settle"}, id : PassID, advance : BOOLEAN]

Compatible(l, data) == data.fingerprint = FingerprintOf[l]

(* Progress made under another configuration is forgotten. *)
Kept(l, data) == IF Compatible(l, data) THEN data.progress ELSE None

Begun(l, id, data) ==
  [fingerprint |-> FingerprintOf[l], progress |-> Kept(l, data), pending |-> id]

(* A plausible bug: settling without comparing the pass ID. *)
SettledAnyPass(l, id, advance, data) ==
  [fingerprint |-> FingerprintOf[l],
   progress    |-> IF advance THEN id ELSE Kept(l, data),
   pending     |-> None]

Settled(l, id, advance, data) ==
  IF data.pending # id
  THEN data
  ELSE [fingerprint |-> FingerprintOf[l],
        progress    |-> IF advance THEN id ELSE Kept(l, data),
        pending     |-> None]

Edited(l, request, data) ==
  IF request.op = "begin"
  THEN Begun(l, request.id, data)
  ELSE Settled(l, request.id, request.advance, data)

=============================================================================
