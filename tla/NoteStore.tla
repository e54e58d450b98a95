------------------------------ MODULE NoteStore ------------------------------
(***************************************************************************)
(* The reports of one directory and session, kept in two stores that share *)
(* no commit:                                                              *)
(*   notes/<id>.json    one file per report        notes/report-files.ts   *)
(*   findings.sqlite    provenance and receipts    notes/database.ts,      *)
(*                                              notes/catalog-database.ts  *)
(*   pending/, claimed/ pointers to cards to come  notes/pending.ts        *)
(* A report is saved by writeNote, confirmed or repaired by recoverNote,   *)
(* put up by enqueuePending, read by readForDelivery (for a native card,   *)
(* for `advisor` and for `advisor --note <id>`), acknowledged by           *)
(* markDelivered, and before a rollback its mirror is repaired.  Every     *)
(* action runs from one await to the next.                                 *)
(*                                                                         *)
(* A database request is one transaction of the worker.  Only record       *)
(* and acknowledge write; theirs may be refused or lose their reply.  A    *)
(* process that dies leaves everything as it is: nothing here is fair, so  *)
(* any actor may stop for good; Crash only lets a recovery begin.          *)
(***************************************************************************)
EXTENDS Naturals, FiniteSets

CONSTANTS
  Note,       \* report identities (a hash of the pass and the proposal)
  Finding,    \* what reports are about
  None,       \* an absent row, field or file
  Writer,     \* calls that save one report
  NoteOf,     \* NoteOf[w]: the report writer w saves
  Verifies,   \* the writers that call recoverNote first
  Repairs,    \* the writers that may call writeNote
  Reader,     \* calls of readForDelivery
  Casts,      \* bound: who takes part, which reports were saved earlier, for
              \* which enqueuePending is called (up to Appends times), how
              \* many dispositions and failures there are (a failure is a call
              \* that throws or loses its reply) and until when the clock runs
  TTL,        \* pending_ttl_ms
  Page,       \* receipts per page of the repair (128, catalog.ts:97)
  MaxTime,    \* bound: the clock of every cast
  Appends     \* bound: calls of enqueuePending for one report

Time == 0..MaxTime
Report == [time : Time, delivered : Time \union {None}, expired : BOOLEAN]

ASSUME NoteAssumption == Note \subseteq Nat \ {0}
ASSUME NoneAssumption == None \notin Nat /\ None \notin Report
ASSUME CastsAssumption ==
  Casts \subseteq [earlier : SUBSET Note, writers : SUBSET Writer,
                   readers : SUBSET Reader, queued : SUBSET Note,
                   changes : Nat, faults : Nat, until : 0..MaxTime]
ASSUME WriterAssumption ==
  /\ NoteOf \in [Writer -> Note]
  /\ Writer = Verifies \union Repairs
ASSUME NumbersAssumption ==
  /\ Page \in Nat \ {0}
  /\ {TTL, MaxTime, Appends} \subseteq Nat

VARIABLES
  cast,       \* the member of Casts this behaviour plays
  clock,
  findingOf,  \* findingOf[n]: the finding_id of a report
  file,       \* file[n]: notes/<n>.json, or None
  source,     \* source[n]: the time in finding_sources, or None
  adopted,    \* history: reports adopted by a call while the one that had
              \* created them could still take them back
  finding,    \* finding[f]: whether it is open, and when it was reopened
  receipt,    \* receipt[n]: delivered_at in note_receipts, or None
  pending,    \* the reports with a pointer in pending/
  claimed,    \* claimed[n]: pointers moved to claimed/
  writer,     \* writer[w]: where it is, and the report it holds
  append,     \* append[n]: enqueuePending has read report n
  reader,     \* reader[r]: where it is, and what it has read
  repair,     \* repair-receipts: its cursor and the page in hand
  changes,    \* dispositions so far
  appends,    \* appends[n]: calls of enqueuePending for report n so far
  faults      \* failures so far

reports == <<cast, findingOf, file, source, adopted>>
queue == <<pending, claimed, append, appends>>
vars == <<clock, reports, finding, receipt, queue, writer, reader, repair,
          changes, faults>>

State == [open : BOOLEAN, reopened : Time \union {None}]

Writing == {"list", "link", "exists", "record", "rollback"}
WriterRecord == [at : {"new", "saved", "failed"} \union Writing,
                 time : Time, created : BOOLEAN, note : Report \union {None}]
ReaderRecord == [at : {"idle", "receipts", "finding", "delivered", "expire",
                       "drop", "ready", "ack", "reread", "mirror"},
                 by : {"card", "pointer", "id"}, id : Note \union {None},
                 note : Report \union {None},
                 reopened : Time \union {None}, began : SUBSET Note,
                 time : Time]
RepairRecord == [at : {"off", "page", "notes", "done"},
                 after : Note \union {0}, page : SUBSET Note]

Waiting == [at |-> "new", time |-> 0, created |-> FALSE, note |-> None]
Idle == [at |-> "idle", by |-> "card", id |-> None, note |-> None,
         reopened |-> None, began |-> {}, time |-> 0]

Init ==
  /\ cast \in Casts
  /\ clock = 0
  /\ findingOf \in [Note -> Finding]
  /\ file = [n \in Note |-> IF n \in cast.earlier
                            THEN [time |-> 0, delivered |-> None,
                                  expired |-> FALSE]
                            ELSE None]
  /\ source = [n \in Note |-> IF n \in cast.earlier THEN 0 ELSE None]
  /\ adopted = {}
  /\ finding = [f \in Finding |-> [open |-> TRUE, reopened |-> None]]
  /\ receipt = [n \in Note |-> None]
  /\ pending = {}
  /\ claimed = [n \in Note |-> 0]
  /\ writer = [w \in Writer |-> Waiting]
  /\ append = [n \in Note |-> FALSE]
  /\ reader = [r \in Reader |-> Idle]
  /\ repair = [at |-> "off", after |-> 0, page |-> {}]
  /\ changes = 0
  /\ appends = [n \in Note |-> 0]
  /\ faults = 0

-----------------------------------------------------------------------------
\* Helpers.

\* Nobody has stopped the program for a rollback.
Running == repair.at = "off"

Fails == faults < cast.faults /\ faults' = faults + 1

\* The reports whose save some caller has seen succeed.
Confirmed == cast.earlier \union {NoteOf[w] : w \in {v \in Writer :
                                                writer[v].at = "saved"}}

\* acknowledge (catalog-database.ts:63): the earliest receipt wins.
Acknowledged(n, t) ==
  [receipt EXCEPT ![n] = IF @ = None \/ t < @ THEN t ELSE @]

\* record: one transaction adds the provenance row once, and the receipt a
\* report already carries.  A finding that is there keeps its state.
Recorded(n, note) ==
  /\ source' = [source EXCEPT ![n] = IF @ = None THEN note.time ELSE @]
  /\ receipt' = IF note.delivered = None
                THEN receipt
                ELSE Acknowledged(n, note.delivered)

Sources(f) == {n \in Note : findingOf[n] = f /\ source[n] # None}

\* FindingDatabase.delivered: the finding has been shown since it was reopened.
Delivered(f, reopened) ==
  \E n \in Sources(f) :
    receipt[n] # None /\ (reopened = None \/ source[n] >= reopened)

\* Mutant: only the file is asked whether the report was shown.
FreshByFile(note, n) == ~note.expired

\* The report is eligible as far as its file and its receipt can tell.
Fresh(note, n) == receipt[n] = None /\ ~note.expired

WriterAt(w, at) == writer' = [writer EXCEPT ![w].at = at]

\* The call returns or throws, and what it held is gone.
Ends(w, result) ==
  writer' = [writer EXCEPT ![w] = [Waiting EXCEPT !.at = result]]

-----------------------------------------------------------------------------
\* Saving a report.

\* writeNote, or the end of a verification that may not write.
Write(w) ==
  IF w \in Repairs
  THEN writer' = [writer EXCEPT ![w].at = "link", ![w].time = clock]
  ELSE Ends(w, "failed")

\* writeNote, or recoverNote up to its read of the file.
Begin(w) ==
  /\ Running
  /\ w \in cast.writers /\ writer[w].at = "new"
  /\ IF w \in Verifies /\ file[NoteOf[w]] # None
     THEN WriterAt(w, "list")
     ELSE Write(w)
  /\ UNCHANGED <<clock, reports, finding, receipt, queue, reader, repair,
                 changes, faults>>

\* The rest of recoverNote: the database names the report as a source.
Verify(w) ==
  /\ Running
  /\ writer[w].at = "list"
  /\ IF source[NoteOf[w]] # None THEN Ends(w, "saved") ELSE Write(w)
  /\ UNCHANGED <<clock, reports, finding, receipt, queue, reader, repair,
                 changes, faults>>

\* Mutant: a retry writes the report anew.
LinkOver(w) ==
  LET note == [time |-> writer[w].time, delivered |-> None, expired |-> FALSE]
  IN
  /\ Running
  /\ writer[w].at = "link"
  /\ file' = [file EXCEPT ![NoteOf[w]] = note]
  /\ writer' = [writer EXCEPT ![w].at = "record", ![w].note = note,
                              ![w].created = TRUE]
  /\ UNCHANGED <<cast, clock, findingOf, adopted, source, finding, receipt,
                 queue, reader, repair, changes, faults>>

\* ReportFiles.create: the file appears complete, or it is there already.
Link(w) ==
  LET n == NoteOf[w]
      note == [time |-> writer[w].time, delivered |-> None, expired |-> FALSE]
  IN
  /\ Running
  /\ writer[w].at = "link"
  /\ IF file[n] = None
     THEN /\ file' = [file EXCEPT ![n] = note]
          /\ writer' = [writer EXCEPT ![w].at = "record", ![w].note = note,
                                      ![w].created = TRUE]
     ELSE /\ WriterAt(w, "exists")
          /\ UNCHANGED file
  /\ UNCHANGED <<cast, clock, findingOf, adopted, source, finding, receipt,
                 queue, reader, repair, changes, faults>>

\* A call that has created report n may still take it back: it is a save
\* that its lane, retired meanwhile, did not wait for.
CreatedBeforeUs(w, n) ==
  \E v \in Writer \ {w} : NoteOf[v] = n /\ writer[v].created

\* create after EEXIST: adopt the report that is there, if it still is.
Adopt(w) ==
  LET n == NoteOf[w] IN
  /\ Running
  /\ writer[w].at = "exists"
  /\ IF file[n] = None
     THEN Ends(w, "failed") /\ UNCHANGED adopted
     ELSE /\ writer' = [writer EXCEPT ![w].at = "record", ![w].note = file[n]]
          /\ adopted' = adopted \union IF CreatedBeforeUs(w, n) THEN {n} ELSE {}
  /\ UNCHANGED <<cast, clock, findingOf, file, source, finding, receipt, queue,
                 reader, repair, changes, faults>>

\* The transaction of record commits and the caller learns it.
Record(w) ==
  /\ Running
  /\ writer[w].at = "record"
  /\ Recorded(NoteOf[w], writer[w].note)
  /\ Ends(w, "saved")
  /\ UNCHANGED <<cast, clock, findingOf, adopted, file, finding, queue,
                 reader, repair, changes, faults>>

\* Mutant: a lost reply is taken for a refusal.
RecordLostUndone(w) ==
  /\ Running
  /\ writer[w].at = "record"
  /\ Fails
  /\ \/ Recorded(NoteOf[w], writer[w].note)
     \/ UNCHANGED <<source, receipt>>
  /\ IF writer[w].created THEN WriterAt(w, "rollback") ELSE Ends(w, "failed")
  /\ UNCHANGED <<cast, clock, findingOf, adopted, file, finding, queue,
                 reader, repair, changes>>

\* The worker is lost: DatabaseUnavailableError whether or not it committed,
\* so that the file stays.
RecordLost(w) ==
  /\ Running
  /\ writer[w].at = "record"
  /\ Fails
  /\ \/ Recorded(NoteOf[w], writer[w].note)
     \/ UNCHANGED <<source, receipt>>
  /\ Ends(w, "failed")
  /\ UNCHANGED <<cast, clock, findingOf, adopted, file, finding, queue,
                 reader, repair, changes>>

\* The worker refuses, or the request never left: nothing was committed, and
\* the writer that created the file takes it back.
RecordRefused(w) ==
  /\ Running
  /\ writer[w].at = "record"
  /\ Fails
  /\ IF writer[w].created THEN WriterAt(w, "rollback") ELSE Ends(w, "failed")
  /\ UNCHANGED <<clock, reports, finding, receipt, queue, reader, repair,
                 changes>>

Rollback(w) ==
  /\ Running
  /\ writer[w].at = "rollback"
  /\ file' = [file EXCEPT ![NoteOf[w]] = None]
  /\ Ends(w, "failed")
  /\ UNCHANGED <<cast, clock, findingOf, adopted, source, finding, receipt,
                 queue, reader, repair, changes, faults>>

\* A file operation or the database read of recoverNote throws.
WriterFails(w) ==
  /\ Running
  /\ writer[w].at \in {"list", "link", "exists"}
  /\ Fails
  /\ Ends(w, "failed")
  /\ UNCHANGED <<clock, reports, finding, receipt, queue, reader, repair,
                 changes>>

\* Its process dies.
Crash(w) ==
  /\ Running
  /\ writer[w].at \in Writing
  /\ Ends(w, "failed")
  /\ UNCHANGED <<clock, reports, finding, receipt, queue, reader, repair,
                 changes, faults>>

WriterStep ==
  \E w \in Writer :
    \/ Begin(w) \/ Verify(w) \/ Link(w) \/ Adopt(w)
    \/ Record(w) \/ RecordLost(w) \/ RecordRefused(w) \/ Rollback(w)
    \/ WriterFails(w) \/ Crash(w)

-----------------------------------------------------------------------------
\* Putting a card up: enqueuePending for one report.

ReadForPointer(n) ==
  /\ Running
  /\ n \in Confirmed \intersect cast.queued
  /\ ~append[n] /\ appends[n] < Appends
  /\ file[n] # None
  /\ append' = [append EXCEPT ![n] = TRUE]
  /\ appends' = [appends EXCEPT ![n] = @ + 1]
  /\ UNCHANGED <<clock, reports, finding, receipt, pending, claimed, writer,
                 reader, repair, changes, faults>>

WritePointer(n) ==
  /\ Running
  /\ append[n]
  /\ append' = [append EXCEPT ![n] = FALSE]
  /\ pending' = pending \union {n}
  /\ UNCHANGED <<clock, reports, finding, receipt, claimed, appends, writer,
                 reader, repair, changes, faults>>

\* The write throws and #append removes the pointer (deliver/queue.ts:50).
PointerFails(n) ==
  /\ Running
  /\ append[n]
  /\ Fails
  /\ append' = [append EXCEPT ![n] = FALSE]
  /\ pending' = pending \ {n}
  /\ UNCHANGED <<clock, reports, finding, receipt, claimed, appends, writer,
                 reader, repair, changes>>

PointerStep == \E n \in Note :
                 ReadForPointer(n) \/ WritePointer(n) \/ PointerFails(n)

-----------------------------------------------------------------------------
\* Reading a report for delivery, and what follows.

Outside == <<cast, clock, findingOf, adopted, source, finding, writer, repair,
             changes>>

ReaderIs(r, value) == reader' = [reader EXCEPT ![r] = value]

\* Not ready: the queue and `advisor` remove the pointer, --note only says so.
Refused(r, n, by) ==
  ReaderIs(r, IF by = "id" THEN Idle ELSE [Idle EXCEPT !.at = "drop", !.id = n])

\* readForDelivery reads the file.  A report without one stops a card
\* (deliver/queue.ts:89 throws) and costs a pointer.
Read(r, n, by) ==
  /\ Running
  /\ r \in cast.readers /\ reader[r].at = "idle"
  /\ IF by = "pointer" THEN n \in pending ELSE n \in Confirmed
  /\ IF file[n] = None
     THEN IF by = "pointer" THEN Refused(r, n, by) ELSE UNCHANGED reader
     ELSE IF file[n].delivered # None
     THEN Refused(r, n, by)
     ELSE ReaderIs(r, [Idle EXCEPT
            !.at = "receipts", !.by = by, !.id = n, !.note = file[n],
            !.began = {m \in Note : receipt[m] # None}])
  /\ UNCHANGED <<Outside, file, receipt, queue, faults>>

ReadReceipts(r) ==
  LET s == reader[r] IN
  /\ Running
  /\ s.at = "receipts"
  /\ IF Fresh(s.note, s.id)
     THEN ReaderIs(r, [s EXCEPT !.at = "finding"])
     ELSE Refused(r, s.id, s.by)
  /\ UNCHANGED <<Outside, file, receipt, queue, faults>>

\* listFindings and decideAdvice: a closed or unknown finding is inactive.
ReadFinding(r) ==
  LET s == reader[r]
      f == findingOf[s.id]
  IN
  /\ Running
  /\ s.at = "finding"
  /\ IF Sources(f) # {} /\ finding[f].open
     THEN ReaderIs(r, [s EXCEPT !.at = "delivered",
                                !.reopened = finding[f].reopened])
     ELSE Refused(r, s.id, s.by)
  /\ UNCHANGED <<Outside, file, receipt, queue, faults>>

\* deliveredFindingIDs with the finding as read before, then the age.
ReadDelivered(r) ==
  LET s == reader[r] IN
  /\ Running
  /\ s.at = "delivered"
  /\ IF Delivered(findingOf[s.id], s.reopened)
     THEN Refused(r, s.id, s.by)
     ELSE ReaderIs(r, [s EXCEPT
            !.at = IF clock - s.note.time > TTL THEN "expire" ELSE "ready"])
  /\ UNCHANGED <<Outside, file, receipt, queue, faults>>

\* The report it read, marked expired, replaces the file as it is by now.
Expire(r) ==
  LET s == reader[r] IN
  /\ Running
  /\ s.at = "expire"
  /\ \/ /\ file' = [file EXCEPT ![s.id] = [s.note EXCEPT !.expired = TRUE]]
        /\ ReaderIs(r, [Idle EXCEPT !.at = "drop", !.id = s.id])
        /\ UNCHANGED faults
     \/ /\ Fails
        /\ ReaderIs(r, Idle)
        /\ UNCHANGED file
  /\ UNCHANGED <<Outside, receipt, queue>>

\* removePending: by readForDelivery, markDelivered, the queue or a claim.
Drop(r) ==
  /\ Running
  /\ reader[r].at = "drop"
  /\ pending' = pending \ {reader[r].id}
  /\ ReaderIs(r, Idle)
  /\ UNCHANGED <<Outside, file, receipt, claimed, append, appends, faults>>

\* Mutant: a pointer that is gone is claimed all the same.
ClaimAnyway(r) ==
  LET n == reader[r].id IN
  /\ Running
  /\ reader[r].at = "ready" /\ reader[r].by = "pointer"
  /\ pending' = pending \ {n}
  /\ claimed' = [claimed EXCEPT ![n] = @ + 1]
  /\ ReaderIs(r, Idle)
  /\ UNCHANGED <<Outside, file, receipt, append, appends, faults>>

\* #claimKey: whoever renames the pointer has the report.
Claim(r) ==
  LET n == reader[r].id IN
  /\ Running
  /\ reader[r].at = "ready" /\ reader[r].by = "pointer"
  /\ IF n \in pending
     THEN /\ pending' = pending \ {n}
          /\ claimed' = [claimed EXCEPT ![n] = @ + 1]
     ELSE UNCHANGED <<pending, claimed>>
  /\ ReaderIs(r, Idle)
  /\ UNCHANGED <<Outside, file, receipt, append, appends, faults>>

\* --note prints what it read; a card is withheld when the turn has moved on.
LetGo(r) ==
  /\ Running
  /\ reader[r].at = "ready" /\ reader[r].by # "pointer"
  /\ ReaderIs(r, Idle)
  /\ UNCHANGED <<Outside, file, receipt, queue, faults>>

\* The card is on screen; markDelivered carries the time of now.
Show(r) ==
  LET s == reader[r] IN
  /\ Running
  /\ s.at = "ready" /\ s.by = "card"
  /\ ReaderIs(r, [Idle EXCEPT !.at = "ack", !.id = s.id, !.time = clock])
  /\ UNCHANGED <<Outside, file, receipt, queue, faults>>

\* Mutant: the mirror is written even if the receipt was not.
AcknowledgeAnyway(r) ==
  LET s == reader[r] IN
  /\ Running
  /\ s.at = "ack"
  /\ \/ /\ receipt' = Acknowledged(s.id, s.time)
        /\ UNCHANGED faults
     \/ /\ Fails
        /\ receipt' \in {receipt, Acknowledged(s.id, s.time)}
  /\ ReaderIs(r, [s EXCEPT !.at = "reread"])
  /\ UNCHANGED <<Outside, file, queue>>

\* The receipt is committed, or the request fails before or after it was
\* and the mirror is left alone.
Acknowledge(r) ==
  LET s == reader[r] IN
  /\ Running
  /\ s.at = "ack"
  /\ \/ /\ receipt' = Acknowledged(s.id, s.time)
        /\ ReaderIs(r, [s EXCEPT !.at = "reread"])
        /\ UNCHANGED faults
     \/ /\ Fails
        /\ receipt' \in {receipt, Acknowledged(s.id, s.time)}
        /\ ReaderIs(r, Idle)
  /\ UNCHANGED <<Outside, file, queue>>

\* acknowledge reads the report again; without one the pointer stays.
Reread(r) ==
  LET s == reader[r] IN
  /\ Running
  /\ s.at = "reread"
  /\ ReaderIs(r, IF file[s.id] = None
                 THEN Idle
                 ELSE [s EXCEPT !.at = "mirror", !.note = file[s.id]])
  /\ UNCHANGED <<Outside, file, receipt, queue, faults>>

\* The mirror is best effort; the pointer goes either way.
Mirror(r) ==
  LET s == reader[r] IN
  /\ Running
  /\ s.at = "mirror"
  /\ \/ /\ file' = [file EXCEPT ![s.id] = [s.note EXCEPT !.delivered = s.time]]
        /\ UNCHANGED faults
     \/ /\ Fails
        /\ UNCHANGED file
  /\ ReaderIs(r, [Idle EXCEPT !.at = "drop", !.id = s.id])
  /\ UNCHANGED <<Outside, receipt, queue>>

ReaderStep ==
  \E r \in Reader :
    \/ \E n \in Note, by \in {"card", "pointer", "id"} : Read(r, n, by)
    \/ ReadReceipts(r) \/ ReadFinding(r) \/ ReadDelivered(r)
    \/ Expire(r) \/ Drop(r) \/ Claim(r) \/ LetGo(r)
    \/ Show(r) \/ Acknowledge(r) \/ Reread(r) \/ Mirror(r)

-----------------------------------------------------------------------------
\* What happens around them.

Tick ==
  /\ Running
  /\ clock < cast.until
  /\ clock' = clock + 1
  /\ UNCHANGED <<reports, finding, receipt, queue, writer, reader, repair,
                 changes, faults>>

\* recordDispositions: a finding is closed or reopened, in one transaction
\* that refuses a change based on an older version of it.
Dispose(f) ==
  /\ Running
  /\ changes < cast.changes
  /\ Sources(f) # {}
  /\ changes' = changes + 1
  /\ finding' = [finding EXCEPT ![f] =
                   IF @.open THEN [@ EXCEPT !.open = FALSE]
                             ELSE [open |-> TRUE, reopened |-> clock]]
  /\ UNCHANGED <<clock, reports, receipt, queue, writer, reader, repair,
                 faults>>

-----------------------------------------------------------------------------
\* Before a rollback every writer is stopped, wherever it is, and
\* repair-receipts restores the mirrors from the receipts, page by page.

Stop ==
  /\ Running
  /\ repair' = [repair EXCEPT !.at = "page"]
  /\ writer' = [w \in Writer |-> Waiting]
  /\ reader' = [r \in Reader |-> Idle]
  /\ append' = [n \in Note |-> FALSE]
  /\ UNCHANGED <<clock, reports, finding, receipt, pending, claimed, appends,
                 changes, faults>>

\* receiptPage: the first receipts after the cursor.
PageAfter(id) ==
  LET rest == {n \in Note : receipt[n] # None /\ n > id}
  IN  {n \in rest : Cardinality({m \in rest : m < n}) < Page}

NextPage ==
  LET page == PageAfter(repair.after) IN
  /\ repair.at = "page"
  /\ repair' = [repair EXCEPT !.at = IF page = {} THEN "done" ELSE "notes",
                              !.page = page]
  /\ UNCHANGED <<clock, reports, finding, receipt, queue, writer, reader,
                 changes, faults>>

\* Mutant: a report that has any marker is left alone.
RepairUnmarked ==
  /\ repair.at = "notes"
  /\ \E n \in repair.page :
       /\ \A m \in repair.page : n <= m
       /\ file' = [file EXCEPT ![n] =
                     IF @ = None \/ @.delivered # None
                     THEN @ ELSE [@ EXCEPT !.delivered = receipt[n]]]
       /\ repair' = [at |-> IF repair.page = {n} THEN "page" ELSE "notes",
                     after |-> n, page |-> repair.page \ {n}]
  /\ UNCHANGED <<cast, clock, findingOf, adopted, source, finding, receipt,
                 queue, writer, reader, changes, faults>>

\* One receipt: a missing report is counted, any other gets the receipt's time.
RepairNote ==
  /\ repair.at = "notes"
  /\ \E n \in repair.page :
       /\ \A m \in repair.page : n <= m
       /\ file' = [file EXCEPT ![n] =
                     IF @ = None THEN None
                                 ELSE [@ EXCEPT !.delivered = receipt[n]]]
       /\ repair' = [at |-> IF repair.page = {n} THEN "page" ELSE "notes",
                     after |-> n, page |-> repair.page \ {n}]
  /\ UNCHANGED <<cast, clock, findingOf, adopted, source, finding, receipt,
                 queue, writer, reader, changes, faults>>

\* A write throws, and the command is given again.
RepairFails ==
  /\ repair.at = "notes"
  /\ Fails
  /\ repair' = [at |-> "page", after |-> 0, page |-> {}]
  /\ UNCHANGED <<clock, reports, finding, receipt, queue, writer, reader,
                 changes>>

RepairStep == Stop \/ NextPage \/ RepairNote \/ RepairFails

Next ==
  \/ WriterStep \/ PointerStep \/ ReaderStep
  \/ Tick \/ \E f \in Finding : Dispose(f)
  \/ RepairStep

Spec == Init /\ [][Next]_vars

-----------------------------------------------------------------------------
\* Properties.

\* Type correctness; only the writer that created a report takes it back.
TypeOK ==
  /\ cast \in Casts
  /\ clock \in Time
  /\ findingOf \in [Note -> Finding]
  /\ file \in [Note -> Report \union {None}]
  /\ source \in [Note -> Time \union {None}]
  /\ adopted \subseteq Note
  /\ finding \in [Finding -> State]
  /\ receipt \in [Note -> Time \union {None}]
  /\ pending \subseteq Note
  /\ claimed \in [Note -> Nat] /\ appends \in [Note -> 0..Appends]
  /\ writer \in [Writer -> WriterRecord]
  /\ \A w \in Writer : writer[w].at = "rollback" => writer[w].created
  /\ append \in [Note -> BOOLEAN]
  /\ reader \in [Reader -> ReaderRecord]
  /\ repair \in RepairRecord
  /\ changes \in 0..cast.changes /\ faults \in 0..cast.faults

\* Whatever happened to its mirror, a report acknowledged before a read for
\* delivery began is not found ready by it, and neither is another report of
\* the same finding unless the finding was reopened after the acknowledged
\* one was written (README.md:201, store.ts:133 and 138).
AcknowledgedStaysQuiet ==
  \A r \in Reader : reader[r].at = "ready" =>
    \A m \in reader[r].began :
      /\ m # reader[r].id
      /\ LET f == findingOf[m] IN
         f = findingOf[reader[r].id] =>
           /\ finding[f].reopened # None
           /\ source[m] < finding[f].reopened

\* A pointer is handed out once, however many commands read it at the same
\* time (pending.ts:69).
ClaimedOnce == \A n \in Note : claimed[n] <= appends[n]

\* A report reaches one command, and none once a receipt is there.
ShownOnce == AcknowledgedStaysQuiet /\ ClaimedOnce

\* The database never names a report whose file is gone: a save that fails
\* removes only what nothing refers to (store.ts:66, README.md:203).
RecordedHasReport == \A n \in Note : source[n] # None => file[n] # None

\* The database names a report whose file is gone only if a call adopted it
\* before the save that had created it was refused: no retry, lost reply,
\* failure or death and no other overlap of two saves costs a recorded
\* report its file (store.ts:62-71, report-files.ts:54).
OnlyAdoptedIsLost ==
  \A n \in Note \ adopted : source[n] # None => file[n] # None

\* A delivery marker in a file never runs ahead of the receipts: the receipt
\* is there, and no later (catalog.ts:78, README.md:249).
MirrorFollowsReceipt ==
  \A n \in Note : file[n] # None /\ file[n].delivered # None =>
    receipt[n] # None /\ receipt[n] <= file[n].delivered

\* A report keeps the time it was first written with as long as it exists,
\* through retries, overlapping saves, recoveries, mirrors and expiry
\* (report-files.ts:54).  One that was adopted, lost and saved once more may
\* get an older copy back from a reader.
RetryKeepsReport ==
  [][\A n \in Note \ adopted : file[n] # None /\ file'[n] # None =>
       file'[n].time = file[n].time]_vars

\* However the writers were stopped, after repair-receipts every report that
\* exists carries exactly its receipt (README.md:201, catalog.ts:92).
MirrorsRepaired ==
  repair.at = "done" =>
    \A n \in Note : file[n] # None => file[n].delivered = receipt[n]
=============================================================================
