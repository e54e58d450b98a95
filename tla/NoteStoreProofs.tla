--------------------------- MODULE NoteStoreProofs ---------------------------
(***************************************************************************)
(* What holds of NoteStore for any reports, writers, readers and bounds.   *)
(* The first part proves that markers in the files follow the receipts;    *)
(* its invariant says what readers and writers hold between two awaits.    *)
(* The second part proves that the database names a report whose file is   *)
(* gone only if a call adopted it from a save that was then refused: only  *)
(* the writer that created a file takes it back, and until one adopts it   *)
(* nothing is recorded of it.  The third part proves that what has been    *)
(* acknowledged is not shown again, the fourth that a report which was not *)
(* adopted so keeps its first time, and the last that the repair ends with *)
(* every mirror as its receipt.                                            *)
(***************************************************************************)
EXTENDS NoteStore, FiniteSetTheorems, WellFoundedInduction, TLAPS

USE NoteAssumption, NoneAssumption, CastsAssumption, WriterAssumption,
    NumbersAssumption
USE DEF Time, Report, State, WriterRecord, ReaderRecord, RepairRecord, Writing

-----------------------------------------------------------------------------
\* Markers follow receipts.

\* A reader under way names a report.  On its way to a card it holds one
\* without a marker; on its way to the mirror it knows of a receipt no later
\* than the marker it is about to write.
ReaderHolds(s) ==
  /\ s \in ReaderRecord
  /\ s.at # "idle" => s.id \in Note
  /\ s.at \in {"receipts", "finding", "delivered", "expire"} =>
       s.note \in Report /\ s.note.delivered = None
  /\ s.at = "mirror" => s.note \in Report
  /\ s.at \in {"reread", "mirror"} =>
       receipt[s.id] # None /\ receipt[s.id] <= s.time

\* A writer that goes to the database holds the report it is to record, and
\* one that takes a report back has created it.
WriterHolds(x) ==
  /\ x \in WriterRecord
  /\ x.at \in {"record", "rollback"} => x.note \in Report
  /\ x.at = "rollback" => x.created

ReadersHold ==
  /\ reader \in [Reader -> ReaderRecord]
  /\ \A r \in Reader : ReaderHolds(reader[r])

WritersHold ==
  /\ writer \in [Writer -> WriterRecord]
  /\ \A w \in Writer : WriterHolds(writer[w])

\* The types of what is neither a reader nor a writer.
StoreType ==
  /\ cast \in Casts /\ clock \in Time
  /\ findingOf \in [Note -> Finding]
  /\ file \in [Note -> Report \union {None}]
  /\ source \in [Note -> Time \union {None}]
  /\ adopted \subseteq Note
  /\ finding \in [Finding -> State]
  /\ receipt \in [Note -> Time \union {None}]
  /\ pending \subseteq Note
  /\ claimed \in [Note -> Nat] /\ appends \in [Note -> 0..Appends]
  /\ append \in [Note -> BOOLEAN]
  /\ repair \in RepairRecord
  /\ changes \in 0..cast.changes /\ faults \in 0..cast.faults

IInv == StoreType /\ WritersHold /\ ReadersHold /\ MirrorFollowsReceipt

LEMMA IInvIsTyped == IInv => TypeOK
BY DEF IInv, StoreType, WritersHold, WriterHolds, ReadersHold, TypeOK

\* A receipt once given stays, and becomes no later.
ReceiptsOnlyEarlier ==
  \A n \in Note : receipt[n] # None =>
    receipt'[n] # None /\ receipt'[n] <= receipt[n]

\* What acknowledge does to the receipts.
LEMMA AcknowledgedIsEarlier ==
  ASSUME receipt \in [Note -> Time \union {None}],
         NEW n \in Note, NEW t \in Time, receipt' = Acknowledged(n, t)
  PROVE  /\ receipt' \in [Note -> Time \union {None}]
         /\ receipt'[n] # None /\ receipt'[n] <= t
         /\ ReceiptsOnlyEarlier
BY DEF Acknowledged, ReceiptsOnlyEarlier

\* What record does to both tables.
LEMMA RecordedIsEarlier ==
  ASSUME receipt \in [Note -> Time \union {None}],
         source \in [Note -> Time \union {None}],
         NEW n \in Note, NEW note \in Report, Recorded(n, note)
  PROVE  /\ receipt' \in [Note -> Time \union {None}]
         /\ source' \in [Note -> Time \union {None}]
         /\ ReceiptsOnlyEarlier
<1>1. source' \in [Note -> Time \union {None}]
  BY DEF Recorded
<1>2. CASE note.delivered = None
  BY <1>1, <1>2 DEF Recorded, ReceiptsOnlyEarlier
<1>3. CASE note.delivered # None
  <2>1. note.delivered \in Time /\ receipt' = Acknowledged(n, note.delivered)
    BY <1>3 DEF Recorded
  <2>2. QED
    BY <1>1, <2>1, AcknowledgedIsEarlier
<1>4. QED
  BY <1>2, <1>3

\* The steps of one writer.
LEMMA WriterBecomes ==
  ASSUME WritersHold, NEW w \in Writer, NEW x, WriterHolds(x),
         writer' = [writer EXCEPT ![w] = x]
  PROVE  WritersHold'
BY DEF WritersHold, WriterHolds

LEMMA WriterMoves ==
  ASSUME WritersHold, NEW w \in Writer, NEW at \in {"list", "exists"},
         WriterAt(w, at)
  PROVE  WritersHold'
<1> DEFINE x == [writer[w] EXCEPT !.at = at]
<1>1. writer' = [writer EXCEPT ![w] = x]
  BY DEF WriterAt, WritersHold
<1>2. WriterHolds(x)
  BY DEF WritersHold, WriterHolds
<1>3. QED
  BY <1>1, <1>2, WriterBecomes

LEMMA WriterEnds ==
  ASSUME WritersHold, NEW w \in Writer, NEW result \in {"saved", "failed"},
         Ends(w, result)
  PROVE  WritersHold'
<1> DEFINE x == [Waiting EXCEPT !.at = result]
<1>1. Waiting \in WriterRecord
  BY DEF Waiting
<1>2. x \in WriterRecord /\ x.at = result
  BY <1>1
<1>3. writer' = [writer EXCEPT ![w] = x]
  BY DEF Ends
<1>4. QED
  BY <1>2, <1>3, WriterBecomes DEF WriterHolds

LEMMA WriterGoesToWrite ==
  ASSUME WritersHold, clock \in Time, NEW w \in Writer, Write(w)
  PROVE  WritersHold'
<1>1. CASE w \in Repairs
  <2> DEFINE x == [writer[w] EXCEPT !.at = "link", !.time = clock]
  <2>1. writer' = [writer EXCEPT ![w] = x]
    BY <1>1 DEF Write, WritersHold
  <2>2. WriterHolds(x)
    BY DEF WritersHold, WriterHolds
  <2>3. QED
    BY <2>1, <2>2, WriterBecomes
<1>2. CASE w \notin Repairs
  BY <1>2, WriterEnds DEF Write
<1>3. QED
  BY <1>1, <1>2

\* The steps of one reader, while the receipts stay.
LEMMA ReaderBecomes ==
  ASSUME ReadersHold, NEW r \in Reader, NEW s, ReaderHolds(s), ReaderIs(r, s),
         UNCHANGED receipt
  PROVE  ReadersHold'
BY DEF ReadersHold, ReaderHolds, ReaderIs

LEMMA IdleHolds == ReaderHolds(Idle)
BY DEF ReaderHolds, Idle

LEMMA DropHolds ==
  ASSUME NEW n \in Note
  PROVE  ReaderHolds([Idle EXCEPT !.at = "drop", !.id = n])
<1> DEFINE s == [Idle EXCEPT !.at = "drop", !.id = n]
<1>1. s \in ReaderRecord /\ s.at = "drop" /\ s.id = n
  <2>1. Idle \in ReaderRecord
    BY DEF Idle
  <2>2. QED
    BY <2>1
<1>2. QED
  BY <1>1 DEF ReaderHolds

LEMMA ReaderRefused ==
  ASSUME ReadersHold, NEW r \in Reader, NEW n \in Note, NEW by,
         Refused(r, n, by), UNCHANGED receipt
  PROVE  ReadersHold'
BY IdleHolds, DropHolds, ReaderBecomes DEF Refused

\* Readers and files left alone stay in order as receipts become earlier.
LEMMA ReadersStillHold ==
  ASSUME StoreType, ReadersHold, ReceiptsOnlyEarlier,
         receipt' \in [Note -> Time \union {None}], UNCHANGED reader
  PROVE  ReadersHold'
<1> SUFFICES ASSUME NEW r \in Reader PROVE ReaderHolds(reader[r])'
  BY DEF ReadersHold
<1> DEFINE s == reader[r]
<1>1. ReaderHolds(s) /\ reader'[r] = s
  BY DEF ReadersHold
<1>2. ASSUME s.at \in {"reread", "mirror"}
      PROVE  receipt'[s.id] # None /\ receipt'[s.id] <= s.time
  <2>1. /\ s.id \in Note /\ s.time \in Nat
        /\ receipt[s.id] # None /\ receipt[s.id] <= s.time
    BY <1>1, <1>2 DEF ReaderHolds
  <2>2. receipt[s.id] \in Nat
    <3>1. receipt[s.id] \in Time \union {None}
      BY <2>1 DEF StoreType
    <3>2. QED
      BY <2>1, <3>1
  <2>3. receipt'[s.id] # None /\ receipt'[s.id] <= receipt[s.id]
    BY <2>1 DEF ReceiptsOnlyEarlier
  <2>4. receipt'[s.id] \in Nat
    <3>1. receipt'[s.id] \in Time \union {None}
      BY <2>1
    <3>2. QED
      BY <2>3, <3>1
  <2>5. QED
    BY <2>1, <2>2, <2>3, <2>4
<1>3. QED
  BY <1>1, <1>2 DEF ReaderHolds

LEMMA MirrorsStillFollow ==
  ASSUME StoreType, MirrorFollowsReceipt, ReceiptsOnlyEarlier,
         receipt' \in [Note -> Time \union {None}], UNCHANGED file
  PROVE  MirrorFollowsReceipt'
BY DEF StoreType, MirrorFollowsReceipt, ReceiptsOnlyEarlier

LEMMA InitIInv == Init => IInv
<1> SUFFICES ASSUME Init PROVE IInv
  OBVIOUS
<1>1. StoreType
  BY DEF Init, StoreType
<1>2. WritersHold
  BY DEF Init, Waiting, WritersHold, WriterHolds
<1>3. ReadersHold
  BY IdleHolds DEF Init, ReadersHold, ReaderHolds
<1>4. MirrorFollowsReceipt
  BY DEF Init, MirrorFollowsReceipt
<1>5. QED
  BY <1>1, <1>2, <1>3, <1>4 DEF IInv

-----------------------------------------------------------------------------
\* One lemma for each group of actions: what the group keeps.

\* A step of a writer that leaves the files, the database and the readers alone
\* keeps the invariant if the writer still holds what it should.
LEMMA OnlyTheAdopter ==
  ASSUME IInv, WritersHold', adopted' \subseteq Note,
         UNCHANGED <<cast, clock, findingOf, file, source, finding, receipt,
                     queue, reader, repair, changes>>,
         faults' \in 0..cast.faults
  PROVE  IInv'
<1>1. StoreType'
  BY DEF IInv, StoreType, queue
<1>2. ReadersHold'
  BY DEF IInv, ReadersHold, ReaderHolds
<1>3. MirrorFollowsReceipt'
  BY DEF IInv, MirrorFollowsReceipt
<1>4. QED
  BY <1>1, <1>2, <1>3 DEF IInv

LEMMA OnlyTheWriter ==
  ASSUME IInv, WritersHold',
         UNCHANGED <<clock, reports, finding, receipt, queue, reader, repair,
                     changes>>,
         faults' \in 0..cast.faults
  PROVE  IInv'
<1>1. adopted' \subseteq Note
  BY DEF IInv, StoreType, reports
<1>2. UNCHANGED <<cast, clock, findingOf, file, source, finding, receipt,
                  queue, reader, repair, changes>>
  BY DEF reports
<1>3. QED
  BY <1>1, <1>2, OnlyTheAdopter

LEMMA FaultsInBound ==
  ASSUME IInv, UNCHANGED faults \/ Fails
  PROVE  faults' \in 0..cast.faults
BY DEF IInv, StoreType, Fails

LEMMA RecordKeeps ==
  ASSUME IInv, NEW w \in Writer, writer[w].at = "record",
         \/ Recorded(NoteOf[w], writer[w].note)
         \/ UNCHANGED <<source, receipt>>,
         WritersHold',
         UNCHANGED <<cast, clock, findingOf, adopted, file, finding, queue,
                     reader, repair, changes>>,
         faults' \in 0..cast.faults
  PROVE  IInv'
<1>1. StoreType /\ ReadersHold /\ MirrorFollowsReceipt
  BY DEF IInv
<1>2. /\ receipt' \in [Note -> Time \union {None}]
      /\ source' \in [Note -> Time \union {None}]
      /\ ReceiptsOnlyEarlier
  <2>1. CASE Recorded(NoteOf[w], writer[w].note)
    <3>1. NoteOf[w] \in Note /\ writer[w].note \in Report
      BY DEF IInv, WritersHold, WriterHolds
    <3>2. QED
      BY <1>1, <2>1, <3>1, RecordedIsEarlier DEF StoreType
  <2>2. CASE UNCHANGED <<source, receipt>>
    BY <1>1, <2>2 DEF StoreType, ReceiptsOnlyEarlier
  <2>3. QED
    BY <2>1, <2>2
<1>3. StoreType'
  BY <1>1, <1>2 DEF StoreType, queue
<1>4. ReadersHold' /\ MirrorFollowsReceipt'
  BY <1>1, <1>2, ReadersStillHold, MirrorsStillFollow
<1>5. QED
  BY <1>3, <1>4 DEF IInv

\* A file written by a link, an expiry or the mirror.
LEMMA FileWritten ==
  ASSUME StoreType, MirrorFollowsReceipt, NEW n \in Note,
         NEW note \in Report \union {None},
         note # None /\ note.delivered # None =>
           receipt[n] # None /\ receipt[n] <= note.delivered,
         file' = [file EXCEPT ![n] = note], UNCHANGED receipt
  PROVE  /\ file' \in [Note -> Report \union {None}]
         /\ MirrorFollowsReceipt'
BY DEF StoreType, MirrorFollowsReceipt

LEMMA LinkKeeps ==
  ASSUME IInv, NEW w \in Writer, Link(w)
  PROVE  IInv'
<1> DEFINE n == NoteOf[w]
           note == [time |-> writer[w].time, delivered |-> None,
                    expired |-> FALSE]
<1>1. StoreType /\ ReadersHold /\ MirrorFollowsReceipt /\ WritersHold
  BY DEF IInv
<1>2. CASE file[n] = None
  <2>1. n \in Note /\ note \in Report /\ writer[w] \in WriterRecord
    BY <1>1 DEF WritersHold
  <2>2. file' \in [Note -> Report \union {None}] /\ MirrorFollowsReceipt'
    BY <1>1, <1>2, <2>1, FileWritten DEF Link
  <2> DEFINE x == [writer[w] EXCEPT !.at = "record", !.note = note,
                                    !.created = TRUE]
  <2>3. writer' = [writer EXCEPT ![w] = x]
    BY <1>1, <1>2 DEF Link, WritersHold
  <2>4. WriterHolds(x)
    BY <2>1 DEF WriterHolds
  <2>5. WritersHold'
    BY <1>1, <2>3, <2>4, WriterBecomes
  <2>6. StoreType'
    BY <1>1, <2>2 DEF Link, StoreType, queue
  <2>7. ReadersHold'
    BY <1>1 DEF Link, ReadersHold, ReaderHolds
  <2>8. QED
    BY <2>2, <2>5, <2>6, <2>7 DEF IInv
<1>3. CASE file[n] # None
  BY <1>1, <1>3, WriterMoves, OnlyTheWriter, FaultsInBound DEF Link, reports
<1>4. QED
  BY <1>2, <1>3

LEMMA AdoptKeeps ==
  ASSUME IInv, NEW w \in Writer, Adopt(w)
  PROVE  IInv'
<1> DEFINE n == NoteOf[w]
<1>1. StoreType /\ WritersHold
  BY DEF IInv
<1>2. CASE file[n] = None
  BY <1>1, <1>2, WriterEnds, OnlyTheWriter, FaultsInBound DEF Adopt, reports
<1>3. CASE file[n] # None
  <2>1. file[n] \in Report /\ writer[w] \in WriterRecord
    BY <1>1, <1>3 DEF StoreType, WritersHold
  <2> DEFINE x == [writer[w] EXCEPT !.at = "record", !.note = file[n]]
  <2>2. writer' = [writer EXCEPT ![w] = x]
    BY <1>1, <1>3 DEF Adopt, WritersHold
  <2>3. WriterHolds(x)
    BY <2>1 DEF WriterHolds
  <2>4. WritersHold'
    BY <1>1, <2>2, <2>3, WriterBecomes
  <2>5. adopted' \subseteq Note
    BY <1>1, <1>3 DEF Adopt, StoreType
  <2>6. QED
    BY <2>4, <2>5, OnlyTheAdopter, FaultsInBound DEF Adopt
<1>4. QED
  BY <1>2, <1>3

LEMMA RollbackKeeps ==
  ASSUME IInv, NEW w \in Writer, Rollback(w)
  PROVE  IInv'
<1>1. StoreType /\ ReadersHold /\ MirrorFollowsReceipt /\ WritersHold
  BY DEF IInv
<1>2. file' \in [Note -> Report \union {None}] /\ MirrorFollowsReceipt'
  BY <1>1, FileWritten DEF Rollback
<1>3. WritersHold'
  BY <1>1, WriterEnds DEF Rollback
<1>4. StoreType'
  BY <1>1, <1>2 DEF Rollback, StoreType, queue
<1>5. ReadersHold'
  BY <1>1 DEF Rollback, ReadersHold, ReaderHolds
<1>6. QED
  BY <1>2, <1>3, <1>4, <1>5 DEF IInv

LEMMA RefusedKeeps ==
  ASSUME IInv, NEW w \in Writer, RecordRefused(w)
  PROVE  IInv'
<1>1. WritersHold
  BY DEF IInv
<1>2. CASE writer[w].created
  <2> DEFINE x == [writer[w] EXCEPT !.at = "rollback"]
  <2>1. writer' = [writer EXCEPT ![w] = x]
    BY <1>1, <1>2 DEF RecordRefused, WriterAt, WritersHold
  <2>2. WriterHolds(x)
    BY <1>1, <1>2 DEF RecordRefused, WritersHold, WriterHolds
  <2>3. QED
    BY <1>1, <2>1, <2>2, WriterBecomes, OnlyTheWriter, FaultsInBound
    DEF RecordRefused
<1>3. CASE ~writer[w].created
  BY <1>1, <1>3, WriterEnds, OnlyTheWriter, FaultsInBound DEF RecordRefused
<1>4. QED
  BY <1>2, <1>3

LEMMA WriterStepKeeps == IInv /\ WriterStep => IInv'
<1> SUFFICES ASSUME IInv, NEW w \in Writer,
                    \/ Begin(w) \/ Verify(w) \/ Link(w) \/ Adopt(w)
                    \/ Record(w) \/ RecordLost(w) \/ RecordRefused(w)
                    \/ Rollback(w) \/ WriterFails(w) \/ Crash(w)
             PROVE  IInv'
  BY DEF WriterStep
<1>1. WritersHold /\ clock \in Time
  BY DEF IInv, StoreType
<1>2. CASE Begin(w)
  <2>1. WritersHold'
    BY <1>1, <1>2, WriterMoves, WriterGoesToWrite DEF Begin
  <2>2. QED
    BY <1>2, <2>1, OnlyTheWriter, FaultsInBound DEF Begin
<1>3. CASE Verify(w)
  <2>1. WritersHold'
    BY <1>1, <1>3, WriterEnds, WriterGoesToWrite DEF Verify
  <2>2. QED
    BY <1>3, <2>1, OnlyTheWriter, FaultsInBound DEF Verify
<1>4. CASE Record(w)
  BY <1>1, <1>4, WriterEnds, RecordKeeps, FaultsInBound DEF Record
<1>5. CASE RecordLost(w)
  BY <1>1, <1>5, WriterEnds, RecordKeeps, FaultsInBound DEF RecordLost
<1>6. CASE WriterFails(w)
  BY <1>1, <1>6, WriterEnds, OnlyTheWriter, FaultsInBound DEF WriterFails
<1>7. CASE Crash(w)
  BY <1>1, <1>7, WriterEnds, OnlyTheWriter, FaultsInBound DEF Crash
<1>8. QED
  BY <1>2, <1>3, <1>4, <1>5, <1>6, <1>7, LinkKeeps, AdoptKeeps, RefusedKeeps,
     RollbackKeeps

\* A step that leaves readers, writers, the files and the receipts alone.
LEMMA OnlyTheRest ==
  ASSUME IInv, StoreType', UNCHANGED <<file, receipt, writer, reader>>
  PROVE  IInv'
BY DEF IInv, WritersHold, WriterHolds, ReadersHold, ReaderHolds,
       MirrorFollowsReceipt

LEMMA PointerStepKeeps == IInv /\ PointerStep => IInv'
<1> SUFFICES ASSUME IInv, NEW n \in Note,
                    ReadForPointer(n) \/ WritePointer(n) \/ PointerFails(n)
             PROVE  IInv'
  BY DEF PointerStep
<1>1. StoreType
  BY DEF IInv
<1>2. StoreType'
  <2>1. CASE ReadForPointer(n)
    BY <1>1, <2>1 DEF ReadForPointer, StoreType, reports
  <2>2. CASE WritePointer(n)
    BY <1>1, <2>2 DEF WritePointer, StoreType, reports
  <2>3. CASE PointerFails(n)
    BY <1>1, <2>3 DEF PointerFails, Fails, StoreType, reports
  <2>4. QED
    BY <2>1, <2>2, <2>3
<1>3. QED
  BY <1>2, OnlyTheRest DEF ReadForPointer, WritePointer, PointerFails, reports

\* A step of a reader that leaves the files and the receipts alone.
LEMMA OnlyTheReader ==
  ASSUME IInv, ReadersHold',
         UNCHANGED <<Outside, file, receipt, append, appends>>,
         pending' \subseteq Note, claimed' \in [Note -> Nat],
         faults' \in 0..cast.faults
  PROVE  IInv'
<1>1. StoreType'
  BY DEF IInv, StoreType, Outside
<1>2. WritersHold' /\ MirrorFollowsReceipt'
  BY DEF IInv, WritersHold, WriterHolds, MirrorFollowsReceipt, Outside
<1>3. QED
  BY <1>1, <1>2 DEF IInv

LEMMA ReadKeeps ==
  ASSUME IInv, NEW r \in Reader, NEW n \in Note,
         NEW by \in {"card", "pointer", "id"}, Read(r, n, by)
  PROVE  IInv'
<1>1. ReadersHold /\ StoreType
  BY DEF IInv
<1>2. ReadersHold'
  <2>1. CASE file[n] = None
    <3>1. CASE by = "pointer"
      BY <1>1, <2>1, <3>1, ReaderRefused DEF Read
    <3>2. CASE by # "pointer"
      BY <1>1, <2>1, <3>2 DEF Read, ReadersHold, ReaderHolds
    <3>3. QED
      BY <3>1, <3>2
  <2>2. CASE file[n] # None /\ file[n].delivered # None
    BY <1>1, <2>2, ReaderRefused DEF Read
  <2>3. CASE file[n] # None /\ file[n].delivered = None
    <3> DEFINE s == [Idle EXCEPT
                  !.at = "receipts", !.by = by, !.id = n, !.note = file[n],
                  !.began = {m \in Note : receipt[m] # None}]
    <3>1. Idle \in ReaderRecord /\ file[n] \in Report
      BY <1>1, <2>3 DEF Idle, StoreType
    <3>2. ReaderHolds(s)
      BY <2>3, <3>1 DEF ReaderHolds
    <3>3. ReaderIs(r, s) /\ UNCHANGED receipt
      BY <2>3 DEF Read
    <3>4. QED
      BY <1>1, <3>2, <3>3, ReaderBecomes
  <2>4. QED
    BY <2>1, <2>2, <2>3
<1>3. QED
  BY <1>1, <1>2, OnlyTheReader, FaultsInBound DEF Read, queue, StoreType

\* The reader goes on to another await of the same delivery.
LEMMA ReaderMoves ==
  ASSUME ReadersHold, NEW r \in Reader,
         reader[r].at \in {"receipts", "finding", "delivered"},
         NEW at \in {"finding", "delivered", "expire", "ready"},
         NEW reopened \in Time \union {None},
         ReaderIs(r, [reader[r] EXCEPT !.at = at, !.reopened = reopened]),
         UNCHANGED receipt
  PROVE  ReadersHold'
<1> DEFINE s == [reader[r] EXCEPT !.at = at, !.reopened = reopened]
<1>1. ReaderHolds(reader[r]) /\ reader[r] \in ReaderRecord
  BY DEF ReadersHold
<1>2. ReaderHolds(s)
  BY <1>1 DEF ReaderHolds
<1>3. QED
  BY <1>2, ReaderBecomes

LEMMA ReaderMovesOn ==
  ASSUME ReadersHold, NEW r \in Reader,
         reader[r].at \in {"receipts", "finding", "delivered"},
         NEW at \in {"finding", "delivered", "expire", "ready"},
         ReaderIs(r, [reader[r] EXCEPT !.at = at]),
         UNCHANGED receipt
  PROVE  ReadersHold'
<1> DEFINE s == [reader[r] EXCEPT !.at = at]
<1>1. ReaderHolds(reader[r]) /\ reader[r] \in ReaderRecord
  BY DEF ReadersHold
<1>2. ReaderHolds(s)
  BY <1>1 DEF ReaderHolds
<1>3. QED
  BY <1>2, ReaderBecomes

\* The checks of readForDelivery, and the steps after it that write no file
\* and no receipt.
LEMMA ReaderChecksKeep ==
  ASSUME IInv, NEW r \in Reader,
         \/ ReadReceipts(r) \/ ReadFinding(r) \/ ReadDelivered(r)
         \/ Drop(r) \/ Claim(r) \/ LetGo(r) \/ Show(r)
  PROVE  IInv'
<1>1. ReadersHold /\ StoreType
  BY DEF IInv
<1>2. reader[r].at # "idle" => reader[r].id \in Note
  BY <1>1 DEF ReadersHold, ReaderHolds
<1>3. CASE ReadReceipts(r)
  <2>1. ReadersHold'
    BY <1>1, <1>2, <1>3, ReaderMovesOn, ReaderRefused DEF ReadReceipts
  <2>2. QED
    BY <1>1, <1>3, <2>1, OnlyTheReader, FaultsInBound
    DEF ReadReceipts, queue, StoreType
<1>4. CASE ReadFinding(r)
  <2>1. finding[findingOf[reader[r].id]].reopened \in Time \union {None}
    BY <1>1, <1>2, <1>4 DEF ReadFinding, StoreType
  <2>2. ReadersHold'
    BY <1>1, <1>2, <1>4, <2>1, ReaderMoves, ReaderRefused DEF ReadFinding
  <2>3. QED
    BY <1>1, <1>4, <2>2, OnlyTheReader, FaultsInBound
    DEF ReadFinding, queue, StoreType
<1>5. CASE ReadDelivered(r)
  <2>1. ReadersHold'
    <3> DEFINE at == IF clock - reader[r].note.time > TTL THEN "expire"
                                                          ELSE "ready"
    <3>1. at \in {"finding", "delivered", "expire", "ready"}
      OBVIOUS
    <3>2. QED
      BY <1>1, <1>2, <1>5, <3>1, ReaderMovesOn, ReaderRefused DEF ReadDelivered
  <2>2. QED
    BY <1>1, <1>5, <2>1, OnlyTheReader, FaultsInBound
    DEF ReadDelivered, queue, StoreType
<1>6. CASE Drop(r)
  <2>1. ReadersHold'
    BY <1>1, <1>6, IdleHolds, ReaderBecomes DEF Drop
  <2>2. QED
    BY <1>1, <1>6, <2>1, OnlyTheReader, FaultsInBound DEF Drop, StoreType
<1>7. CASE Claim(r)
  <2>1. ReadersHold'
    BY <1>1, <1>7, IdleHolds, ReaderBecomes DEF Claim
  <2>2. pending' \subseteq Note /\ claimed' \in [Note -> Nat]
    <3>1. CASE reader[r].id \in pending
      <4>1. /\ pending \subseteq Note /\ claimed \in [Note -> Nat]
            /\ pending' = pending \ {reader[r].id}
            /\ claimed' = [claimed EXCEPT ![reader[r].id] = @ + 1]
        BY <1>1, <1>7, <3>1 DEF Claim, StoreType
      <4>2. PICK n \in Note : n = reader[r].id
        BY <3>1, <4>1
      <4>3. claimed[n] \in Nat
        BY <4>1
      <4>4. claimed[n] + 1 \in Nat
        BY <4>3
      <4>5. claimed' = [claimed EXCEPT ![n] = claimed[n] + 1]
        BY <4>1, <4>2
      <4>6. claimed' \in [Note -> Nat]
        BY <4>1, <4>4, <4>5
      <4>7. pending' \subseteq Note
        BY <4>1
      <4>8. QED
        BY <4>6, <4>7
    <3>2. CASE reader[r].id \notin pending
      BY <1>1, <1>7, <3>2 DEF Claim, StoreType
    <3>3. QED
      BY <3>1, <3>2
  <2>3. QED
    BY <1>7, <2>1, <2>2, OnlyTheReader, FaultsInBound DEF Claim
<1>8. CASE LetGo(r)
  <2>1. ReadersHold'
    BY <1>1, <1>8, IdleHolds, ReaderBecomes DEF LetGo
  <2>2. QED
    BY <1>1, <1>8, <2>1, OnlyTheReader, FaultsInBound
    DEF LetGo, queue, StoreType
<1>9. CASE Show(r)
  <2> DEFINE s == [Idle EXCEPT !.at = "ack", !.id = reader[r].id,
                               !.time = clock]
  <2>1. Idle \in ReaderRecord /\ reader[r].id \in Note /\ clock \in Time
    BY <1>1, <1>2, <1>9 DEF Show, Idle, StoreType
  <2>2. ReaderHolds(s)
    BY <2>1 DEF ReaderHolds
  <2>3. ReadersHold'
    BY <1>1, <1>9, <2>2, ReaderBecomes DEF Show
  <2>4. QED
    BY <1>1, <1>9, <2>3, OnlyTheReader, FaultsInBound
    DEF Show, queue, StoreType
<1>10. QED
  BY <1>3, <1>4, <1>5, <1>6, <1>7, <1>8, <1>9

\* A reader writes the report it holds, with a marker that follows a receipt
\* or without one, and goes on to remove the pointer; or it gives up.
LEMMA ReaderWrites ==
  ASSUME IInv, NEW r \in Reader, NEW n \in Note, NEW note \in Report,
         note.delivered # None =>
           receipt[n] # None /\ receipt[n] <= note.delivered,
         file' = [file EXCEPT ![n] = note] \/ UNCHANGED file,
         \/ ReaderIs(r, [Idle EXCEPT !.at = "drop", !.id = n])
         \/ ReaderIs(r, Idle),
         UNCHANGED <<Outside, receipt, queue>>,
         faults' \in 0..cast.faults
  PROVE  IInv'
<1>1. StoreType /\ ReadersHold /\ MirrorFollowsReceipt /\ WritersHold
  BY DEF IInv
<1>2. file' \in [Note -> Report \union {None}] /\ MirrorFollowsReceipt'
  <2>1. CASE file' = [file EXCEPT ![n] = note]
    BY <1>1, <2>1, FileWritten
  <2>2. CASE UNCHANGED file
    BY <1>1, <2>2 DEF StoreType, MirrorFollowsReceipt
  <2>3. QED
    BY <2>1, <2>2
<1>3. StoreType'
  BY <1>1, <1>2 DEF StoreType, Outside, queue
<1>4. ReadersHold'
  BY <1>1, IdleHolds, DropHolds, ReaderBecomes
<1>5. WritersHold'
  BY <1>1 DEF WritersHold, WriterHolds, Outside
<1>6. QED
  BY <1>2, <1>3, <1>4, <1>5 DEF IInv

LEMMA ExpireKeeps ==
  ASSUME IInv, NEW r \in Reader, Expire(r)
  PROVE  IInv'
<1> DEFINE s == reader[r]
           note == [s.note EXCEPT !.expired = TRUE]
<1>1. s.id \in Note /\ s.note \in Report /\ s.note.delivered = None
  BY DEF Expire, IInv, ReadersHold, ReaderHolds
<1>2. note \in Report /\ note.delivered = None
  BY <1>1
<1>3. faults' \in 0..cast.faults
  BY FaultsInBound DEF Expire
<1>4. QED
  BY <1>1, <1>2, <1>3, ReaderWrites DEF Expire

LEMMA MirrorKeeps ==
  ASSUME IInv, NEW r \in Reader, Mirror(r)
  PROVE  IInv'
<1> DEFINE s == reader[r]
           note == [s.note EXCEPT !.delivered = s.time]
<1>1. /\ s.id \in Note /\ s.note \in Report /\ s.time \in Time
      /\ receipt[s.id] # None /\ receipt[s.id] <= s.time
  BY DEF Mirror, IInv, ReadersHold, ReaderHolds
<1>2. note \in Report /\ note.delivered = s.time
  BY <1>1
<1>3. faults' \in 0..cast.faults
  BY FaultsInBound DEF Mirror
<1>4. QED
  BY <1>1, <1>2, <1>3, ReaderWrites DEF Mirror

LEMMA RereadKeeps ==
  ASSUME IInv, NEW r \in Reader, Reread(r)
  PROVE  IInv'
<1> DEFINE s == [reader[r] EXCEPT !.at = "mirror", !.note = file[reader[r].id]]
<1>1. ReadersHold /\ StoreType
  BY DEF IInv
<1>2. ReadersHold'
  <2>1. CASE file[reader[r].id] = None
    BY <1>1, <2>1, IdleHolds, ReaderBecomes DEF Reread
  <2>2. CASE file[reader[r].id] # None
    <3>1. ReaderHolds(reader[r]) /\ reader[r].id \in Note
      BY <1>1 DEF Reread, ReadersHold, ReaderHolds
    <3>2. file[reader[r].id] \in Report
      BY <1>1, <2>2, <3>1 DEF StoreType
    <3>3. ReaderHolds(s)
      BY <3>1, <3>2 DEF Reread, ReaderHolds
    <3>4. QED
      BY <1>1, <2>2, <3>3, ReaderBecomes DEF Reread
  <2>3. QED
    BY <2>1, <2>2
<1>3. QED
  BY <1>1, <1>2, OnlyTheReader, FaultsInBound DEF Reread, queue, StoreType

LEMMA AcknowledgeKeeps ==
  ASSUME IInv, NEW r \in Reader, Acknowledge(r)
  PROVE  IInv'
<1> DEFINE s == reader[r]
           acknowledged == [s EXCEPT !.at = "reread"]
<1>1. StoreType /\ ReadersHold /\ MirrorFollowsReceipt /\ WritersHold
  BY DEF IInv
<1>2. s \in ReaderRecord /\ s.id \in Note /\ s.time \in Time /\ s.at = "ack"
  BY <1>1 DEF Acknowledge, ReadersHold, ReaderHolds
<1>3. /\ receipt' \in [Note -> Time \union {None}]
      /\ ReceiptsOnlyEarlier
      /\ receipt' = Acknowledged(s.id, s.time) =>
           receipt'[s.id] # None /\ receipt'[s.id] <= s.time
  <2>1. CASE receipt' = Acknowledged(s.id, s.time)
    BY <1>1, <1>2, <2>1, AcknowledgedIsEarlier DEF StoreType
  <2>2. CASE receipt' = receipt
    <3>1. ReceiptsOnlyEarlier
      BY <1>1, <2>2 DEF ReceiptsOnlyEarlier, StoreType
    <3>2. receipt' # Acknowledged(s.id, s.time) \/
            (receipt'[s.id] # None /\ receipt'[s.id] <= s.time)
      BY <1>1, <1>2, AcknowledgedIsEarlier DEF StoreType
    <3>3. QED
      BY <1>1, <2>2, <3>1, <3>2 DEF StoreType
  <2>3. QED
    BY <2>1, <2>2 DEF Acknowledge
<1>4. MirrorFollowsReceipt'
  BY <1>1, <1>3, MirrorsStillFollow DEF Acknowledge
<1>5. StoreType'
  BY <1>1, <1>3, FaultsInBound DEF Acknowledge, StoreType, Outside, queue
<1>6. ReadersHold'
  <2> DEFINE now == reader'[r]
  <2>1. \A q \in Reader : q # r => ReaderHolds(reader[q])'
    <3> SUFFICES ASSUME NEW q \in Reader, q # r PROVE ReaderHolds(reader[q])'
      OBVIOUS
    <3>1. reader'[q] = reader[q] /\ ReaderHolds(reader[q])
      BY <1>1 DEF Acknowledge, ReaderIs, ReadersHold
    <3>2. ASSUME reader[q].at \in {"reread", "mirror"}
          PROVE  /\ receipt'[reader[q].id] # None
                 /\ receipt'[reader[q].id] <= reader[q].time
      <4>1. /\ reader[q].id \in Note /\ reader[q].time \in Time
            /\ receipt[reader[q].id] # None
            /\ receipt[reader[q].id] <= reader[q].time
        BY <3>1, <3>2 DEF ReaderHolds
      <4>2. /\ receipt'[reader[q].id] # None
            /\ receipt'[reader[q].id] <= receipt[reader[q].id]
        BY <1>3, <4>1 DEF ReceiptsOnlyEarlier
      <4>3. /\ receipt[reader[q].id] \in Time \union {None}
            /\ receipt'[reader[q].id] \in Time \union {None}
        BY <1>1, <1>3, <4>1 DEF StoreType
      <4>4. QED
        BY <4>1, <4>2, <4>3
    <3>3. QED
      BY <3>1, <3>2 DEF ReaderHolds
  <2>2. CASE ReaderIs(r, acknowledged) /\ receipt' = Acknowledged(s.id, s.time)
    <3>1. ReaderHolds(acknowledged)'
      <4>1. /\ acknowledged \in ReaderRecord /\ acknowledged.at = "reread"
            /\ acknowledged.id = s.id /\ acknowledged.time = s.time
        BY <1>2
      <4>2. reader'[r] = acknowledged
        BY <1>1, <2>2 DEF ReaderIs, ReadersHold
      <4>3. QED
        BY <1>2, <1>3, <2>2, <4>1, <4>2 DEF ReaderHolds
    <3>2. QED
      BY <1>1, <2>1, <2>2, <3>1 DEF ReaderIs, ReadersHold, ReaderHolds
  <2>3. CASE ReaderIs(r, Idle)
    <3>1. reader' \in [Reader -> ReaderRecord] /\ reader'[r] = Idle
      BY <1>1, <2>3, IdleHolds DEF ReaderIs, ReadersHold, ReaderHolds
    <3>2. ReaderHolds(reader[r])'
      BY <3>1 DEF ReaderHolds, Idle
    <3>3. QED
      BY <2>1, <3>1, <3>2 DEF ReadersHold
  <2>4. QED
    BY <2>2, <2>3 DEF Acknowledge
<1>7. WritersHold'
  BY <1>1 DEF Acknowledge, WritersHold, WriterHolds, Outside
<1>8. QED
  BY <1>4, <1>5, <1>6, <1>7 DEF IInv

LEMMA ReaderStepKeeps == IInv /\ ReaderStep => IInv'
BY ReadKeeps, ReaderChecksKeep, ExpireKeeps, MirrorKeeps, RereadKeeps,
   AcknowledgeKeeps DEF ReaderStep

LEMMA TickKeeps == IInv /\ Tick => IInv'
<1> SUFFICES ASSUME IInv, Tick PROVE IInv'
  OBVIOUS
<1>1. StoreType /\ cast.until \in 0..MaxTime
  BY DEF IInv, StoreType
<1>2. StoreType'
  BY <1>1 DEF Tick, StoreType, reports, queue
<1>3. QED
  BY <1>2, OnlyTheRest DEF Tick, reports

LEMMA DisposeKeeps ==
  ASSUME IInv, NEW f \in Finding, Dispose(f)
  PROVE  IInv'
<1>1. StoreType /\ cast.changes \in Nat
  BY DEF IInv, StoreType
<1>2. finding' \in [Finding -> State]
  <2> DEFINE new == IF finding[f].open
                    THEN [finding[f] EXCEPT !.open = FALSE]
                    ELSE [open |-> TRUE, reopened |-> clock]
  <2>1. finding[f] \in State /\ clock \in Time
    BY <1>1 DEF StoreType
  <2>2. new \in State
    BY <2>1
  <2>3. finding' = [finding EXCEPT ![f] = new]
    BY <1>1 DEF Dispose, StoreType
  <2>4. QED
    BY <1>1, <2>2, <2>3 DEF StoreType
<1>3. changes' \in 0..cast.changes
  BY <1>1 DEF Dispose, StoreType
<1>4. StoreType'
  BY <1>1, <1>2, <1>3 DEF Dispose, StoreType, reports, queue
<1>5. QED
  BY <1>4, OnlyTheRest DEF Dispose, reports

LEMMA RepairStepKeeps == IInv /\ RepairStep => IInv'
<1> SUFFICES ASSUME IInv, RepairStep PROVE IInv'
  OBVIOUS
<1>1. StoreType /\ WritersHold /\ ReadersHold /\ MirrorFollowsReceipt
  BY DEF IInv
<1>2. CASE Stop
  <2>1. StoreType'
    BY <1>1, <1>2 DEF Stop, StoreType, reports
  <2>2. WritersHold' /\ ReadersHold'
    BY <1>2, IdleHolds DEF Stop, WritersHold, WriterHolds, Waiting,
                           ReadersHold, ReaderHolds, Idle
  <2>3. MirrorFollowsReceipt'
    BY <1>1, <1>2 DEF Stop, MirrorFollowsReceipt, reports
  <2>4. QED
    BY <2>1, <2>2, <2>3 DEF IInv
<1>3. CASE NextPage
  <2>1. PageAfter(repair.after) \subseteq Note
    BY DEF PageAfter
  <2>2. StoreType'
    BY <1>1, <1>3, <2>1 DEF NextPage, StoreType, reports, queue
  <2>3. QED
    BY <1>3, <2>2, OnlyTheRest DEF NextPage, reports
<1>4. CASE RepairNote
  <2> PICK n \in repair.page :
        /\ file' = [file EXCEPT ![n] =
                      IF @ = None THEN None
                                  ELSE [@ EXCEPT !.delivered = receipt[n]]]
        /\ repair' = [at |-> IF repair.page = {n} THEN "page" ELSE "notes",
                      after |-> n, page |-> repair.page \ {n}]
    BY <1>4 DEF RepairNote
  <2> DEFINE note == IF file[n] = None
                     THEN None
                     ELSE [file[n] EXCEPT !.delivered = receipt[n]]
  <2>1. n \in Note /\ receipt[n] \in Time \union {None}
    BY <1>1 DEF StoreType
  <2>2. /\ note \in Report \union {None}
        /\ note # None => note.delivered = receipt[n]
    <3>1. file[n] \in Report \union {None}
      BY <1>1, <2>1 DEF StoreType
    <3>2. QED
      BY <2>1, <3>1
  <2>3. file' = [file EXCEPT ![n] = note]
    BY <1>1, <2>1 DEF StoreType
  <2>4. file' \in [Note -> Report \union {None}] /\ MirrorFollowsReceipt'
    <3>1. note # None /\ note.delivered # None =>
            receipt[n] # None /\ receipt[n] <= note.delivered
      <4>1. receipt[n] # None => receipt[n] \in Nat
        BY <2>1
      <4>2. QED
        BY <2>2, <4>1
    <3>2. UNCHANGED receipt
      BY <1>4 DEF RepairNote
    <3> HIDE DEF note
    <3>3. QED
      BY <1>1, <2>1, <2>2, <2>3, <3>1, <3>2, FileWritten
  <2>5. repair' \in RepairRecord
    BY <1>1, <2>1 DEF StoreType
  <2>6. StoreType'
    BY <1>1, <1>4, <2>4, <2>5 DEF RepairNote, StoreType, queue
  <2>7. WritersHold' /\ ReadersHold'
    BY <1>1, <1>4 DEF RepairNote, WritersHold, WriterHolds, ReadersHold,
                      ReaderHolds
  <2>8. QED
    BY <2>4, <2>6, <2>7 DEF IInv
<1>5. CASE RepairFails
  <2>1. StoreType'
    BY <1>1, <1>5 DEF RepairFails, Fails, StoreType, reports, queue
  <2>2. QED
    BY <1>5, <2>1, OnlyTheRest DEF RepairFails, reports
<1>6. QED
  BY <1>2, <1>3, <1>4, <1>5 DEF RepairStep

LEMMA NextIInv == IInv /\ [Next]_vars => IInv'
<1> SUFFICES ASSUME IInv, [Next]_vars PROVE IInv'
  OBVIOUS
<1>1. CASE Next
  BY <1>1, WriterStepKeeps, PointerStepKeeps, ReaderStepKeeps, TickKeeps,
     DisposeKeeps, RepairStepKeeps DEF Next
<1>2. CASE UNCHANGED vars
  <2>1. StoreType'
    BY <1>2 DEF IInv, StoreType, vars, reports, queue
  <2>2. QED
    BY <1>2, <2>1, OnlyTheRest DEF vars, reports
<1>3. QED
  BY <1>1, <1>2

THEOREM Invariance == Spec => []IInv
BY InitIInv, NextIInv, PTL DEF Spec

\* Every variable keeps its type, and only a writer that created a report
\* takes it back.
THEOREM TypeCorrectness == Spec => []TypeOK
BY Invariance, IInvIsTyped, PTL

\* No marker in a report's file runs ahead of the canonical receipts, however
\* cards, retries, expiry and the repair interleave, fail or stop.
THEOREM MarkersFollowReceipts == Spec => []MirrorFollowsReceipt
<1>1. IInv => MirrorFollowsReceipt
  BY DEF IInv
<1>2. QED
  BY <1>1, Invariance, PTL

-----------------------------------------------------------------------------
\* The database names a report whose file is gone only if it was adopted.

\* No two writers can take one report back.
OneCreator ==
  \A v, w \in Writer : NoteOf[v] = NoteOf[w] /\ writer[v].created /\ writer[w].created => v = w

NobodyCreated(n) == \A v \in Writer : NoteOf[v] = n => ~writer[v].created

\* A writer that may take a report back has its file there, and unless another
\* writer adopted it nothing has been recorded of it.  One that records a
\* report it met has its file there, and unless it was adopted nobody is going
\* to take it back.
Saves(x, w) ==
  /\ x.created => /\ x.at \in {"record", "rollback"}
                  /\ file[NoteOf[w]] # None
                  /\ NoteOf[w] \notin adopted => source[NoteOf[w]] = None
  /\ x.at = "record" /\ ~x.created /\ NoteOf[w] \notin adopted =>
       file[NoteOf[w]] # None /\ NobodyCreated(NoteOf[w])

SInv ==
  /\ OnlyAdoptedIsLost
  /\ OneCreator
  /\ \A w \in Writer : Saves(writer[w], w)

\* Whoever only rewrites files that are there disturbs no save.
LEMMA StoresKept ==
  ASSUME SInv, UNCHANGED <<source, writer, adopted>>,
         \A n \in Note : file[n] # None => file'[n] # None
  PROVE  SInv'
<1>1. OnlyAdoptedIsLost' /\ OneCreator'
  BY DEF SInv, OnlyAdoptedIsLost, OneCreator
<1>2. \A n : NobodyCreated(n) => NobodyCreated(n)'
  BY DEF NobodyCreated
<1>3. \A w \in Writer : Saves(writer[w], w)'
  BY <1>2 DEF SInv, Saves
<1>4. QED
  BY <1>1, <1>3 DEF SInv

\* A writer that creates nothing takes a step, and more may be adopted.
LEMMA SaverBecomes ==
  ASSUME IInv, SInv, NEW w \in Writer, NEW x,
         writer' = [writer EXCEPT ![w] = x], x.created => writer[w].created,
         Saves(x, w)', UNCHANGED <<file, source>>, adopted \subseteq adopted'
  PROVE  SInv'
<1>1. writer \in [Writer -> WriterRecord]
  BY DEF IInv, WritersHold
<1>2. writer'[w] = x /\ \A v \in Writer \ {w} : writer'[v] = writer[v]
  BY <1>1
<1>3. OnlyAdoptedIsLost'
  BY DEF SInv, OnlyAdoptedIsLost
<1>4. \A v \in Writer : writer'[v].created => writer[v].created
  BY <1>2
<1>5. OneCreator' /\ \A n : NobodyCreated(n) => NobodyCreated(n)'
  BY <1>4 DEF SInv, OneCreator, NobodyCreated
<1>6. ASSUME NEW v \in Writer \ {w}
      PROVE  Saves(writer[v], v)'
  BY <1>2, <1>5 DEF SInv, Saves
<1>7. QED
  BY <1>2, <1>3, <1>5, <1>6 DEF SInv

LEMMA SaverGivesUp ==
  ASSUME IInv, SInv, NEW w \in Writer, NEW result \in {"saved", "failed"},
         Ends(w, result), UNCHANGED <<file, source, adopted>>
  PROVE  SInv'
<1> DEFINE x == [Waiting EXCEPT !.at = result]
<1>1. writer' = [writer EXCEPT ![w] = x]
  BY DEF Ends
<1>2. x.at = result /\ x.created = FALSE
  BY DEF Waiting
<1> HIDE DEF x
<1>3. Saves(x, w)'
  BY <1>2 DEF Saves
<1>4. QED
  BY <1>1, <1>2, <1>3, SaverBecomes

\* A writer that has created nothing goes on to a step before the record.
LEMMA SaverGoesOn ==
  ASSUME IInv, SInv, NEW w \in Writer, NEW x,
         writer' = [writer EXCEPT ![w] = x], ~x.created, x.at # "record",
         UNCHANGED <<file, source, adopted>>
  PROVE  SInv'
<1>1. Saves(x, w)'
  BY DEF Saves
<1>2. QED
  BY <1>1, SaverBecomes

\* Only a writer that records or takes back has created its report.
LEMMA NothingCreatedYet ==
  ASSUME IInv, SInv, NEW w \in Writer,
         writer[w].at \notin {"record", "rollback"}
  PROVE  writer[w].created = FALSE
BY DEF IInv, WritersHold, SInv, Saves

LEMMA BeginSaves ==
  ASSUME IInv, SInv, NEW w \in Writer, Begin(w) \/ Verify(w)
  PROVE  SInv'
<1>1. writer[w] \in WriterRecord /\ writer \in [Writer -> WriterRecord]
  BY DEF IInv, WritersHold
<1>2. writer[w].created = FALSE
  BY NothingCreatedYet DEF Begin, Verify
<1>3. UNCHANGED <<file, source, adopted>>
  BY DEF Begin, Verify, reports
<1>4. CASE WriterAt(w, "list")
  <2>1. PICK x : x = [writer[w] EXCEPT !.at = "list"]
    OBVIOUS
  <2>2. writer' = [writer EXCEPT ![w] = x]
    BY <1>1, <1>4, <2>1 DEF WriterAt
  <2>3. x.at = "list" /\ ~x.created
    BY <1>1, <1>2, <2>1
  <2>4. QED
    BY <1>3, <2>2, <2>3, SaverGoesOn
<1>5. CASE Write(w) /\ w \in Repairs
  <2>1. PICK x : x = [writer[w] EXCEPT !.at = "link", !.time = clock]
    OBVIOUS
  <2>2. writer' = [writer EXCEPT ![w] = x]
    BY <1>1, <1>5, <2>1 DEF Write
  <2>3. x.at = "link" /\ ~x.created
    BY <1>1, <1>2, <2>1
  <2>4. QED
    BY <1>3, <2>2, <2>3, SaverGoesOn
<1>6. CASE Write(w) /\ w \notin Repairs
  BY <1>3, <1>6, SaverGivesUp DEF Write
<1>7. CASE Ends(w, "saved")
  BY <1>3, <1>7, SaverGivesUp
<1>8. QED
  BY <1>4, <1>5, <1>6, <1>7 DEF Begin, Verify

\* Where no file is, nobody is going to take one back.
LEMMA CreatorHasFile ==
  ASSUME SInv, NEW n \in Note, file[n] = None
  PROVE  /\ NobodyCreated(n)
         /\ n \notin adopted => source[n] = None
         /\ \A v \in Writer : NoteOf[v] = n /\ n \notin adopted =>
              writer[v].at # "record"
<1>1. NobodyCreated(n)
  BY DEF SInv, Saves, NobodyCreated
<1>2. \A v \in Writer : NoteOf[v] = n /\ n \notin adopted => writer[v].at # "record"
  BY <1>1 DEF SInv, Saves, NobodyCreated
<1>3. QED
  BY <1>1, <1>2 DEF SInv, OnlyAdoptedIsLost

LEMMA LinkSaves ==
  ASSUME IInv, SInv, NEW w \in Writer, Link(w)
  PROVE  SInv'
<1> DEFINE n == NoteOf[w]
           note == [time |-> writer[w].time, delivered |-> None,
                    expired |-> FALSE]
<1>1. /\ writer \in [Writer -> WriterRecord] /\ writer[w] \in WriterRecord
      /\ file \in [Note -> Report \union {None}] /\ n \in Note
  BY DEF IInv, StoreType, WritersHold
<1>2. CASE file[n] = None
  <2>1. note \in Report /\ note # None
    <3>1. note \in Report
      BY <1>1
    <3> HIDE DEF note
    <3>2. QED
      BY <3>1
  <2>2. file' = [file EXCEPT ![n] = note] /\ source' = source /\ adopted' = adopted
    BY <1>2 DEF Link
  <2>3. PICK x : x = [writer[w] EXCEPT !.at = "record", !.note = note,
                                       !.created = TRUE]
    OBVIOUS
  <2>4. writer' = [writer EXCEPT ![w] = x]
    BY <1>1, <1>2, <2>3 DEF Link
  <2>5. x.at = "record" /\ x.created
    BY <1>1, <2>3
  <2> HIDE DEF note
  <2>6. file'[n] # None /\ \A m \in Note \ {n} : file'[m] = file[m]
    BY <1>1, <2>1, <2>2
  <2>7. /\ NobodyCreated(n) /\ (n \notin adopted => source[n] = None)
        /\ \A v \in Writer : NoteOf[v] = n /\ n \notin adopted => writer[v].at # "record"
    BY <1>1, <1>2, CreatorHasFile
  <2>8. writer'[w] = x /\ \A v \in Writer \ {w} : writer'[v] = writer[v]
    BY <1>1, <2>4
  <2>9. OnlyAdoptedIsLost'
    BY <2>2, <2>6 DEF SInv, OnlyAdoptedIsLost
  <2>10. OneCreator'
    BY <2>7, <2>8 DEF SInv, OneCreator, NobodyCreated
  <2>11. Saves(writer[w], w)'
    BY <2>2, <2>5, <2>6, <2>7, <2>8 DEF Saves
  <2>12. ASSUME NEW v \in Writer \ {w}
         PROVE  Saves(writer[v], v)'
    <3>1. Saves(writer[v], v) /\ writer'[v] = writer[v] /\ NoteOf[v] \in Note
      BY <2>8 DEF SInv
    <3>2. CASE NoteOf[v] = n
      <4>1. ~writer[v].created /\ (n \notin adopted => writer[v].at # "record")
        BY <2>7, <3>2 DEF NobodyCreated
      <4>2. QED
        BY <2>2, <3>1, <3>2, <4>1 DEF Saves
    <3>3. CASE NoteOf[v] # n
      <4>1. NobodyCreated(NoteOf[v]) => NobodyCreated(NoteOf[v])'
        BY <2>8, <3>3 DEF NobodyCreated
      <4>2. file'[NoteOf[v]] = file[NoteOf[v]]
        BY <2>6, <3>1, <3>3
      <4>3. QED
        BY <2>2, <3>1, <4>1, <4>2 DEF Saves
    <3>4. QED
      BY <3>2, <3>3
  <2>13. QED
    BY <2>9, <2>10, <2>11, <2>12 DEF SInv
<1>3. CASE file[n] # None
  <2>1. PICK x : x = [writer[w] EXCEPT !.at = "exists"]
    OBVIOUS
  <2>2. writer' = [writer EXCEPT ![w] = x] /\ UNCHANGED <<file, source, adopted>>
    BY <1>1, <1>3, <2>1 DEF Link, WriterAt
  <2>3. x.at = "exists" /\ ~x.created
    BY <1>1, <2>1, NothingCreatedYet DEF Link
  <2>4. QED
    BY <2>2, <2>3, SaverGoesOn
<1>4. QED
  BY <1>2, <1>3

LEMMA AdoptSaves ==
  ASSUME IInv, SInv, NEW w \in Writer, Adopt(w)
  PROVE  SInv'
<1> DEFINE n == NoteOf[w]
<1>1. writer \in [Writer -> WriterRecord] /\ writer[w] \in WriterRecord
  BY DEF IInv, WritersHold
<1>2. writer[w].created = FALSE
  BY NothingCreatedYet DEF Adopt
<1>3. UNCHANGED <<file, source>>
  BY DEF Adopt
<1>4. CASE file[n] = None
  BY <1>3, <1>4, SaverGivesUp DEF Adopt
<1>5. CASE file[n] # None
  <2>1. PICK x : x = [writer[w] EXCEPT !.at = "record", !.note = file[n]]
    OBVIOUS
  <2>2. writer' = [writer EXCEPT ![w] = x]
    BY <1>1, <1>5, <2>1 DEF Adopt
  <2>3. x.at = "record" /\ ~x.created
    BY <1>1, <1>2, <2>1
  <2>4. adopted' = adopted \union IF CreatedBeforeUs(w, n) THEN {n} ELSE {}
    BY <1>5 DEF Adopt
  <2>5. n \notin adopted' => NobodyCreated(n)'
    <3>1. writer'[w] = x /\ \A v \in Writer \ {w} : writer'[v] = writer[v]
      BY <1>1, <2>2
    <3>2. QED
      BY <2>3, <2>4, <3>1 DEF CreatedBeforeUs, NobodyCreated
  <2>6. Saves(x, w)'
    BY <1>3, <1>5, <2>3, <2>5 DEF Saves
  <2>7. QED
    BY <1>3, <2>2, <2>3, <2>4, <2>6, SaverBecomes
<1>6. QED
  BY <1>4, <1>5

\* A writer ends, and with it what it had created: the report is recorded now
\* or it is gone, and no other writer is concerned unless it was adopted.
LEMMA SaverEnds ==
  ASSUME IInv, SInv, NEW w \in Writer, NEW result \in {"saved", "failed"},
         Ends(w, result), UNCHANGED adopted,
         \A m \in Note \ {NoteOf[w]} : UNCHANGED <<file[m], source[m]>>,
         NoteOf[w] \in adopted \/ source'[NoteOf[w]] = None \/ file'[NoteOf[w]] # None,
         \/ UNCHANGED file
         \/ writer[w].created,
         \/ UNCHANGED source
         \/ writer[w].at = "record"
  PROVE  SInv'
<1> DEFINE n == NoteOf[w]
<1>1. writer \in [Writer -> WriterRecord] /\ n \in Note
  BY DEF IInv, WritersHold
<1>2. PICK x : x = [Waiting EXCEPT !.at = result]
  OBVIOUS
<1>3. x.at = result /\ x.created = FALSE
  BY <1>2 DEF Waiting
<1>4. writer'[w] = x /\ \A v \in Writer \ {w} : writer'[v] = writer[v]
  BY <1>1, <1>2 DEF Ends
<1>5. OnlyAdoptedIsLost'
  BY <1>1 DEF SInv, OnlyAdoptedIsLost
<1>6. \A v \in Writer : writer'[v].created => writer[v].created /\ v # w
  BY <1>3, <1>4
<1>7. OneCreator' /\ \A m : NobodyCreated(m) => NobodyCreated(m)'
  BY <1>6 DEF SInv, OneCreator, NobodyCreated
<1>8. Saves(writer[w], w)'
  BY <1>3, <1>4 DEF Saves
<1>9. ASSUME NEW v \in Writer \ {w}
      PROVE  Saves(writer[v], v)'
  <2>1. Saves(writer[v], v) /\ writer'[v] = writer[v] /\ NoteOf[v] \in Note
    BY <1>4 DEF SInv
  <2>2. CASE NoteOf[v] # n
    BY <1>7, <2>1, <2>2 DEF Saves
  <2>3. CASE NoteOf[v] = n
    <3>1. CASE writer[v].created
      <4>1. ~writer[w].created
        BY <2>3, <3>1 DEF SInv, OneCreator
      <4>2. n \in adopted \/ UNCHANGED source
        BY <2>3, <3>1, <4>1 DEF SInv, Saves, NobodyCreated
      <4>3. QED
        BY <2>1, <2>3, <3>1, <4>1, <4>2 DEF Saves
    <3>2. CASE ~writer[v].created
      <4>1. n \in adopted \/ writer[v].at # "record" \/ ~writer[w].created
        BY <2>1, <2>3, <3>2 DEF Saves, NobodyCreated
      <4>2. QED
        BY <1>7, <2>1, <2>3, <3>2, <4>1 DEF Saves
    <3>3. QED
      BY <3>1, <3>2
  <2>4. QED
    BY <2>2, <2>3
<1>10. QED
  BY <1>5, <1>7, <1>8, <1>9 DEF SInv

LEMMA RecordSaves ==
  ASSUME IInv, SInv, NEW w \in Writer, Record(w) \/ RecordLost(w)
  PROVE  SInv'
<1>1. writer[w].at = "record" /\ NoteOf[w] \in Note /\ file' = file /\ adopted' = adopted
  BY DEF Record, RecordLost
<1>2. NoteOf[w] \in adopted \/ file[NoteOf[w]] # None
  BY <1>1 DEF SInv, Saves
<1>3. \A n \in Note \ {NoteOf[w]} : UNCHANGED source[n]
  <2>1. source \in [Note -> Time \union {None}]
    BY DEF IInv, StoreType
  <2>2. QED
    BY <2>1 DEF Record, RecordLost, Recorded
<1>4. Ends(w, "saved") \/ Ends(w, "failed")
  BY DEF Record, RecordLost
<1>5. QED
  BY <1>1, <1>2, <1>3, <1>4, SaverEnds

LEMMA RefusedSaves ==
  ASSUME IInv, SInv, NEW w \in Writer, RecordRefused(w)
  PROVE  SInv'
<1>1. writer \in [Writer -> WriterRecord] /\ writer[w] \in WriterRecord
  BY DEF IInv, WritersHold
<1>2. UNCHANGED <<file, source, adopted>>
  BY DEF RecordRefused, reports
<1>3. CASE writer[w].created
  <2>1. PICK x : x = [writer[w] EXCEPT !.at = "rollback"]
    OBVIOUS
  <2>2. writer' = [writer EXCEPT ![w] = x]
    BY <1>1, <1>3, <2>1 DEF RecordRefused, WriterAt
  <2>3. x.at = "rollback" /\ x.created
    BY <1>1, <1>3, <2>1
  <2>4. Saves(x, w)'
    BY <1>2, <1>3, <2>3 DEF SInv, Saves
  <2>5. QED
    BY <1>2, <1>3, <2>2, <2>4, SaverBecomes
<1>4. CASE ~writer[w].created
  BY <1>2, <1>4, SaverGivesUp DEF RecordRefused
<1>5. QED
  BY <1>3, <1>4

\* The report taken back is the writer's own, and nothing names it unless
\* another writer adopted it.
LEMMA RollbackSaves ==
  ASSUME IInv, SInv, NEW w \in Writer, Rollback(w)
  PROVE  SInv'
<1>1. writer[w].created /\ NoteOf[w] \in Note
  BY DEF Rollback, IInv, WritersHold, WriterHolds
<1>2. NoteOf[w] \in adopted \/ source[NoteOf[w]] = None
  BY <1>1 DEF SInv, Saves
<1>3. source' = source /\ adopted' = adopted
  BY DEF Rollback
<1>4. \A n \in Note \ {NoteOf[w]} : UNCHANGED <<file[n], source[n]>>
  BY <1>3 DEF IInv, StoreType, Rollback
<1>5. Ends(w, "failed")
  BY DEF Rollback
<1>6. QED
  BY <1>1, <1>2, <1>3, <1>4, <1>5, SaverEnds

LEMMA WriterStepSaves == IInv /\ SInv /\ WriterStep => SInv'
<1> SUFFICES ASSUME IInv, SInv, NEW w \in Writer,
                    \/ Begin(w) \/ Verify(w) \/ Link(w) \/ Adopt(w)
                    \/ Record(w) \/ RecordLost(w) \/ RecordRefused(w)
                    \/ Rollback(w) \/ WriterFails(w) \/ Crash(w)
             PROVE  SInv'
  BY DEF WriterStep
<1>1. CASE WriterFails(w) \/ Crash(w)
  BY <1>1, SaverGivesUp DEF WriterFails, Crash, reports
<1>2. QED
  BY <1>1, BeginSaves, LinkSaves, AdoptSaves, RecordSaves, RefusedSaves,
     RollbackSaves

\* A reader, a pointer, the clock or a disposition removes no report.
LEMMA OthersSave ==
  ASSUME IInv, SInv,
         PointerStep \/ ReaderStep \/ Tick \/ \E f \in Finding : Dispose(f)
  PROVE  SInv'
<1>1. file \in [Note -> Report \union {None}]
  BY DEF IInv, StoreType
<1>2. CASE file' = file /\ UNCHANGED <<source, writer, adopted>>
  BY <1>2, StoresKept
<1>3. ASSUME NEW r \in Reader, Expire(r) \/ Mirror(r)
      PROVE  SInv'
  <2> DEFINE s == reader[r]
  <2>1. s.note \in Report /\ s.time \in Time
    BY <1>3 DEF IInv, ReadersHold, ReaderHolds, Expire, Mirror
  <2>2. /\ [s.note EXCEPT !.expired = TRUE] \in Report
        /\ [s.note EXCEPT !.delivered = s.time] \in Report
    BY <2>1
  <2>3. \A n \in Note : file[n] # None => file'[n] # None
    BY <1>1, <1>3, <2>2 DEF Expire, Mirror
  <2>4. QED
    BY <1>3, <2>3, StoresKept DEF Expire, Mirror, Outside
<1>4. CASE ReaderStep
  BY <1>2, <1>3, <1>4 DEF ReaderStep, Read, ReadReceipts, ReadFinding,
     ReadDelivered, Drop, Claim, LetGo, Show, Acknowledge, Reread, Outside
<1>5. CASE PointerStep
  BY <1>2, <1>5 DEF PointerStep, ReadForPointer, WritePointer, PointerFails,
     reports
<1>6. CASE Tick \/ \E f \in Finding : Dispose(f)
  BY <1>2, <1>6 DEF Tick, Dispose, reports
<1>7. QED
  BY <1>4, <1>5, <1>6

LEMMA RepairStepSaves == IInv /\ SInv /\ RepairStep => SInv'
<1> SUFFICES ASSUME IInv, SInv, RepairStep PROVE SInv'
  OBVIOUS
<1>1. StoreType /\ OnlyAdoptedIsLost
  BY DEF IInv, SInv
<1>2. CASE Stop
  <2>1. \A w \in Writer : writer'[w] = Waiting
    BY <1>2 DEF Stop
  <2>2. OneCreator' /\ \A w \in Writer : Saves(writer[w], w)'
    BY <2>1 DEF OneCreator, Saves, Waiting
  <2>3. OnlyAdoptedIsLost'
    BY <1>1, <1>2 DEF Stop, reports, OnlyAdoptedIsLost
  <2>4. QED
    BY <2>2, <2>3 DEF SInv
<1>3. CASE NextPage \/ RepairFails
  BY <1>3, StoresKept DEF NextPage, RepairFails, reports
<1>4. CASE RepairNote
  <2>1. PICK n \in repair.page :
          file' = [file EXCEPT ![n] =
                     IF @ = None THEN None
                                 ELSE [@ EXCEPT !.delivered = receipt[n]]]
    BY <1>4 DEF RepairNote
  <2> DEFINE note == [file[n] EXCEPT !.delivered = receipt[n]]
  <2>2. n \in Note /\ receipt[n] \in Time \union {None}
    BY <1>1 DEF StoreType
  <2>3. file[n] # None => note \in Report
    BY <1>1, <2>2 DEF StoreType
  <2>4. file[n] # None => file'[n] = note
    BY <1>1, <2>1, <2>2 DEF StoreType
  <2>5. \A m \in Note \ {n} : file'[m] = file[m]
    BY <1>1, <2>1, <2>2 DEF StoreType
  <2>6. \A m \in Note : file[m] # None => file'[m] # None
    BY <2>2, <2>3, <2>4, <2>5
  <2>7. QED
    BY <1>4, <2>6, StoresKept DEF RepairNote
<1>5. QED
  BY <1>2, <1>3, <1>4 DEF RepairStep

LEMMA SaversInvariance == Spec => []SInv
<1>1. Init => SInv
  <2> SUFFICES ASSUME Init PROVE SInv
    OBVIOUS
  <2>1. OnlyAdoptedIsLost
    <3> SUFFICES ASSUME NEW n \in Note, source[n] # None
                 PROVE  file[n] # None
      BY DEF OnlyAdoptedIsLost
    <3> DEFINE note == [time |-> 0, delivered |-> None, expired |-> FALSE]
    <3>1. note \in Report
      OBVIOUS
    <3>2. file[n] = note
      BY DEF Init
    <3>3. QED
      BY <3>1, <3>2
  <2>2. \A w \in Writer : writer[w] = Waiting
    BY DEF Init
  <2>3. QED
    BY <2>1, <2>2 DEF SInv, OneCreator, Saves, Waiting
<1>2. IInv /\ SInv /\ [Next]_vars => SInv'
  <2>1. CASE UNCHANGED vars
    BY <2>1, StoresKept DEF vars, reports
  <2>2. QED
    BY <2>1, WriterStepSaves, OthersSave, RepairStepSaves DEF Next
<1>3. QED
  BY Invariance, <1>1, <1>2, PTL DEF Spec

\* However saves, recoveries and verifications of a report overlap, whatever
\* retries, lost replies, failures and deaths there are, the database names a
\* report whose file is gone only if a call adopted it before the save that
\* had created it was refused (store.ts:62-71).
THEOREM RecordedReportsStay == Spec => []OnlyAdoptedIsLost
<1>1. SInv => OnlyAdoptedIsLost
  BY DEF SInv
<1>2. QED
  BY <1>1, SaversInvariance, PTL

-----------------------------------------------------------------------------
\* What was acknowledged is not shown again.

\* Whatever a receipt, a pointer or a caller knows of has been recorded, and
\* no finding was reopened after now.
TablesKnow ==
  /\ \A n \in Note : receipt[n] # None => source[n] # None
  /\ \A n \in Confirmed : source[n] # None
  /\ \A n \in Note : append[n] \/ n \in pending => source[n] # None
  /\ \A f \in Finding :
       finding[f].reopened # None => finding[f].reopened <= clock

\* The finding was reopened at time t or later, if t is a time.
ReopenedSince(t, f) ==
  t # None => finding[f].reopened # None /\ t <= finding[f].reopened

\* What a reader under way has found out so far is not contradicted by the
\* tables, although they have changed since it read them.
ReaderKnows(s) ==
  /\ s.at \notin {"idle", "drop"} => source[s.id] # None
  /\ \A m \in s.began : receipt[m] # None
  /\ s.at \in {"finding", "delivered", "expire", "ready"} => s.id \notin s.began
  /\ s.at \in {"delivered", "expire", "ready"} =>
       ReopenedSince(s.reopened, findingOf[s.id])
  /\ s.at \in {"expire", "ready"} =>
       \A m \in s.began : findingOf[m] = findingOf[s.id] =>
         s.reopened # None /\ source[m] < s.reopened

ReadersKnow == \A r \in Reader : ReaderKnows(reader[r])

\* How the tables change: no source is replaced, no receipt goes and no
\* finding is reopened earlier than it was.
TablesGrow ==
  /\ findingOf' = findingOf
  /\ \A n \in Note : source[n] # None => source'[n] = source[n]
  /\ ReceiptsOnlyEarlier
  /\ \A f \in Finding : \A t \in Time :
       ReopenedSince(t, f) => ReopenedSince(t, f)'

LEMMA ReaderStillKnows ==
  ASSUME StoreType, TablesKnow, TablesGrow, NEW s \in ReaderRecord,
         s.at # "idle" => s.id \in Note, ReaderKnows(s)
  PROVE  ReaderKnows(s)'
<1>1. s.at \notin {"idle", "drop"} => source'[s.id] # None
  BY DEF ReaderKnows, TablesGrow
<1>2. ASSUME NEW m \in s.began
      PROVE  receipt'[m] # None /\ source[m] # None /\ source'[m] = source[m]
  BY DEF ReaderKnows, TablesKnow, TablesGrow, ReceiptsOnlyEarlier
<1>3. ASSUME s.at \in {"delivered", "expire", "ready"}
      PROVE  ReopenedSince(s.reopened, findingOf[s.id])'
  <2>1. /\ s.id \in Note /\ findingOf[s.id] \in Finding
        /\ ReopenedSince(s.reopened, findingOf[s.id])
    BY <1>3 DEF ReaderKnows, StoreType
  <2>2. CASE s.reopened = None
    BY <2>2 DEF ReopenedSince
  <2>3. CASE s.reopened # None
    <3>1. s.reopened \in Time
      BY <2>3
    <3>2. PICK f \in Finding : f = findingOf[s.id]
      BY <2>1
    <3>3. ReopenedSince(s.reopened, f)'
      BY <2>1, <3>1, <3>2 DEF TablesGrow
    <3>4. QED
      BY <3>2, <3>3 DEF TablesGrow
  <2>4. QED
    BY <2>2, <2>3
<1>4. findingOf' = findingOf
  BY DEF TablesGrow
<1>5. QED
  BY <1>1, <1>2, <1>3, <1>4 DEF ReaderKnows

\* A reader that knows what it says before a step does so after it, whatever
\* the step does to the tables.
LEMMA ReadersStillKnow ==
  ASSUME IInv, IInv', TablesKnow, TablesGrow, ReadersKnow,
         \A r \in Reader : reader'[r] = reader[r] \/ ReaderKnows(reader'[r])
  PROVE  ReadersKnow'
<1> SUFFICES ASSUME NEW r \in Reader PROVE ReaderKnows(reader[r])'
  BY DEF ReadersKnow
<1>1. PICK s : s = reader'[r]
  OBVIOUS
<1>2. StoreType /\ ReaderKnows(s)
  BY <1>1 DEF IInv, ReadersKnow
<1>3. s \in ReaderRecord /\ (s.at # "idle" => s.id \in Note)
  BY <1>1 DEF IInv, ReadersHold, ReaderHolds
<1>4. ReaderKnows(s)'
  BY <1>2, <1>3, ReaderStillKnows
<1>5. QED
  BY <1>1, <1>4 DEF ReaderKnows

\* The tables only grow.
LEMMA TablesStay ==
  ASSUME StoreType,
         UNCHANGED <<findingOf, source, receipt, finding>>
  PROVE  TablesGrow
BY DEF StoreType, TablesGrow, ReceiptsOnlyEarlier, ReopenedSince

LEMMA RecordGrows ==
  ASSUME IInv, TablesKnow, NEW w \in Writer, Record(w) \/ RecordLost(w)
  PROVE  TablesGrow
<1>1. /\ StoreType /\ NoteOf[w] \in Note /\ writer[w].note \in Report
      /\ UNCHANGED <<findingOf, finding>>
  BY DEF IInv, WritersHold, WriterHolds, Record, RecordLost
<1>2. CASE Recorded(NoteOf[w], writer[w].note)
  <2>1. ReceiptsOnlyEarlier
    BY <1>1, <1>2, RecordedIsEarlier DEF StoreType
  <2>2. \A n \in Note : source[n] # None => source'[n] = source[n]
    BY <1>1, <1>2 DEF StoreType, Recorded
  <2>3. QED
    BY <1>1, <2>1, <2>2 DEF TablesGrow, ReopenedSince
<1>3. CASE UNCHANGED <<source, receipt>>
  BY <1>1, <1>3, TablesStay
<1>4. QED
  BY <1>2, <1>3 DEF Record, RecordLost

LEMMA AcknowledgeGrows ==
  ASSUME IInv, NEW r \in Reader, Acknowledge(r)
  PROVE  TablesGrow
<1>1. /\ StoreType /\ reader[r].id \in Note /\ reader[r].time \in Time
      /\ UNCHANGED <<findingOf, finding, source>>
  BY DEF IInv, ReadersHold, ReaderHolds, Acknowledge, Outside
<1>2. CASE receipt' = Acknowledged(reader[r].id, reader[r].time)
  <2>1. ReceiptsOnlyEarlier
    BY <1>1, <1>2, AcknowledgedIsEarlier DEF StoreType
  <2>2. QED
    BY <1>1, <2>1 DEF TablesGrow, ReopenedSince
<1>3. CASE receipt' = receipt
  BY <1>1, <1>3, TablesStay
<1>4. QED
  BY <1>2, <1>3 DEF Acknowledge

LEMMA DisposeGrows ==
  ASSUME IInv, TablesKnow, NEW f \in Finding, Dispose(f)
  PROVE  TablesGrow
<1>1. /\ StoreType /\ finding \in [Finding -> State] /\ clock \in Nat
      /\ UNCHANGED <<findingOf, source, receipt>>
  BY DEF IInv, StoreType, Dispose, reports
<1>2. ReceiptsOnlyEarlier
  BY <1>1 DEF StoreType, ReceiptsOnlyEarlier
<1>3. ASSUME NEW g \in Finding, NEW t \in Time, ReopenedSince(t, g)
      PROVE  ReopenedSince(t, g)'
  <2>1. /\ finding[g].reopened \in Time /\ t <= finding[g].reopened
        /\ finding[g].reopened <= clock
    BY <1>1, <1>3 DEF ReopenedSince, TablesKnow
  <2>2. \/ finding'[g].reopened = finding[g].reopened
        \/ finding'[g].reopened = clock
    BY <1>1 DEF Dispose
  <2>3. QED
    BY <1>1, <2>1, <2>2 DEF ReopenedSince
<1>4. QED
  BY <1>1, <1>2, <1>3 DEF TablesGrow

LEMMA NextGrows ==
  ASSUME IInv, TablesKnow, [Next]_vars
  PROVE  TablesGrow
<1>1. StoreType
  BY DEF IInv
<1>2. CASE UNCHANGED <<findingOf, source, receipt, finding>>
  BY <1>1, <1>2, TablesStay
<1>3. CASE WriterStep
  BY <1>2, <1>3, RecordGrows DEF WriterStep, Begin, Verify, Link, Adopt,
     RecordRefused, Rollback, WriterFails, Crash, reports
<1>4. CASE ReaderStep
  BY <1>2, <1>4, AcknowledgeGrows DEF ReaderStep, Read, ReadReceipts,
     ReadFinding, ReadDelivered, Expire, Drop, Claim, LetGo, Show, Reread,
     Mirror, Outside
<1>5. CASE PointerStep
  BY <1>2, <1>5 DEF PointerStep, ReadForPointer, WritePointer, PointerFails,
     reports
<1>6. CASE Tick \/ RepairStep
  BY <1>2, <1>6 DEF Tick, RepairStep, Stop, NextPage, RepairNote, RepairFails,
     reports
<1>7. CASE UNCHANGED vars
  BY <1>2, <1>7 DEF vars, reports
<1>8. QED
  BY <1>3, <1>4, <1>5, <1>6, <1>7, DisposeGrows DEF Next

\* A step that names nothing new in receipts, pointers or to its callers
\* unless it is recorded.
LEMMA TablesStillKnow ==
  ASSUME TablesKnow, TablesGrow,
         \A n \in Note : receipt'[n] # None =>
                           receipt[n] # None \/ source'[n] # None,
         Confirmed \subseteq Note,
         \A n \in Confirmed' : n \in Confirmed \/ source'[n] # None,
         \A n \in Note : append'[n] \/ n \in pending' =>
                           append[n] \/ n \in pending \/ source'[n] # None,
         \A f \in Finding :
           finding'[f].reopened # None => finding'[f].reopened <= clock'
  PROVE  TablesKnow'
BY DEF TablesKnow, TablesGrow

\* A caller is told of one more save only if it is recorded.
LEMMA ConfirmedIsRecorded ==
  ASSUME IInv, TablesKnow, TablesGrow, UNCHANGED cast,
         \A w \in Writer : writer'[w].at = "saved" =>
           writer[w].at = "saved" \/ source'[NoteOf[w]] # None
  PROVE  \A n \in Confirmed' : n \in Confirmed \/ source'[n] # None
BY DEF Confirmed

LEMMA ConfirmedAreNotes == IInv => Confirmed \subseteq Note
BY DEF IInv, StoreType, Confirmed

LEMMA ReopenedByNow ==
  ASSUME IInv, TablesKnow, UNCHANGED finding, clock' \in Nat, clock <= clock'
  PROVE  \A f \in Finding :
           finding'[f].reopened # None => finding'[f].reopened <= clock'
<1> SUFFICES ASSUME NEW f \in Finding, finding[f].reopened # None
             PROVE  finding[f].reopened <= clock'
  OBVIOUS
<1>1. finding[f].reopened \in Nat /\ clock \in Nat
  BY DEF IInv, StoreType
<1>2. QED
  BY <1>1 DEF TablesKnow

\* A writer ends, or goes on.
LEMMA EndsAt ==
  ASSUME WritersHold, NEW w \in Writer, NEW result \in {"saved", "failed"},
         Ends(w, result)
  PROVE  \A v \in Writer : IF v = w THEN writer'[v].at = result
                                    ELSE writer'[v] = writer[v]
BY DEF Ends, Waiting, WritersHold

LEMMA WriterStepKnows ==
  ASSUME IInv, TablesKnow, TablesGrow, WriterStep
  PROVE  TablesKnow'
<1>1. PICK w \in Writer :
        \/ Begin(w) \/ Verify(w) \/ Link(w) \/ Adopt(w)
        \/ Record(w) \/ RecordLost(w) \/ RecordRefused(w) \/ Rollback(w)
        \/ WriterFails(w) \/ Crash(w)
  BY DEF WriterStep
<1>2. /\ StoreType /\ WritersHold /\ NoteOf[w] \in Note
      /\ writer \in [Writer -> WriterRecord]
  BY DEF IInv, WritersHold
<1>3. UNCHANGED <<cast, clock, finding, pending, append>>
  BY <1>1 DEF Begin, Verify, Link, Adopt, Record, RecordLost, RecordRefused,
     Rollback, WriterFails, Crash, reports, queue
<1>4. \A n \in Note : receipt'[n] # None =>
                        receipt[n] # None \/ source'[n] # None
  <2>1. CASE UNCHANGED receipt
    BY <2>1
  <2>2. CASE Recorded(NoteOf[w], writer[w].note) /\ writer[w].at = "record"
    <3>1. writer[w].note \in Report
      BY <1>2, <2>2 DEF WritersHold, WriterHolds
    <3>2. writer[w].note.time # None
      BY <3>1
    <3>3. source'[NoteOf[w]] # None
      BY <1>2, <2>2, <3>2 DEF Recorded, StoreType
    <3>4. \A n \in Note \ {NoteOf[w]} : receipt'[n] = receipt[n]
      BY <1>2, <2>2 DEF Recorded, Acknowledged, StoreType
    <3>5. QED
      BY <3>3, <3>4
  <2>3. QED
    BY <1>1, <2>1, <2>2 DEF Begin, Verify, Link, Adopt, Record, RecordLost,
       RecordRefused, Rollback, WriterFails, Crash
<1>5. \A v \in Writer : writer'[v].at = "saved" =>
        writer[v].at = "saved" \/ source'[NoteOf[v]] # None
  <2>1. ASSUME NEW at \in {"list", "exists", "rollback"}, WriterAt(w, at)
        PROVE  \A v \in Writer : writer'[v].at = "saved" =>
                                   writer[v].at = "saved"
    BY <1>2, <2>1 DEF WriterAt
  <2>2. ASSUME Ends(w, "failed")
        PROVE  \A v \in Writer : writer'[v].at = "saved" =>
                                   writer[v].at = "saved"
    BY <1>2, <2>2, EndsAt
  <2>3. ASSUME Write(w)
        PROVE  \A v \in Writer : writer'[v].at = "saved" =>
                                   writer[v].at = "saved"
    <3>1. CASE w \in Repairs
      BY <1>2, <2>3, <3>1 DEF Write
    <3>2. CASE w \notin Repairs
      BY <2>2, <2>3, <3>2 DEF Write
    <3>3. QED
      BY <3>1, <3>2
  <2>4. CASE Begin(w)
    BY <2>1, <2>3, <2>4 DEF Begin
  <2>5. CASE Verify(w)
    <3>1. CASE source[NoteOf[w]] # None
      <4>1. Ends(w, "saved") /\ source'[NoteOf[w]] # None
        BY <1>2, <2>5, <3>1 DEF Verify, TablesGrow
      <4>2. QED
        BY <1>2, <4>1, EndsAt
    <3>2. CASE source[NoteOf[w]] = None
      BY <2>3, <2>5, <3>2 DEF Verify
    <3>3. QED
      BY <3>1, <3>2
  <2>6. CASE Record(w)
    <3>1. writer[w].note.time # None
      BY <1>2, <2>6 DEF Record, WritersHold, WriterHolds
    <3>2. source'[NoteOf[w]] # None
      BY <1>2, <2>6, <3>1 DEF Record, Recorded, StoreType
    <3>3. QED
      BY <1>2, <2>6, <3>2, EndsAt DEF Record
  <2>7. CASE Link(w)
    <3>1. CASE file[NoteOf[w]] # None
      BY <2>1, <2>7, <3>1 DEF Link
    <3>2. CASE file[NoteOf[w]] = None
      BY <1>2, <2>7, <3>2 DEF Link
    <3>3. QED
      BY <3>1, <3>2
  <2>8. CASE Adopt(w)
    <3>1. CASE file[NoteOf[w]] # None
      BY <1>2, <2>8, <3>1 DEF Adopt
    <3>2. CASE file[NoteOf[w]] = None
      BY <2>2, <2>8, <3>2 DEF Adopt
    <3>3. QED
      BY <3>1, <3>2
  <2>9. CASE RecordLost(w) \/ RecordRefused(w) \/ Rollback(w)
             \/ WriterFails(w) \/ Crash(w)
    BY <2>1, <2>2, <2>9 DEF RecordLost, RecordRefused, Rollback, WriterFails,
       Crash
  <2>10. QED
    BY <1>1, <2>4, <2>5, <2>6, <2>7, <2>8, <2>9
<1>6. \A n \in Confirmed' : n \in Confirmed \/ source'[n] # None
  BY <1>3, <1>5, ConfirmedIsRecorded
<1>7. \A f \in Finding :
        finding'[f].reopened # None => finding'[f].reopened <= clock'
  BY <1>2, <1>3, ReopenedByNow DEF StoreType
<1>8. QED
  BY <1>3, <1>4, <1>6, <1>7, TablesStillKnow, ConfirmedAreNotes

LEMMA PointerStepKnows ==
  ASSUME IInv, TablesKnow, TablesGrow, PointerStep
  PROVE  TablesKnow'
<1>1. PICK n \in Note : \/ ReadForPointer(n) \/ WritePointer(n)
                        \/ PointerFails(n)
  BY DEF PointerStep
<1>2. /\ UNCHANGED <<cast, clock, source, finding, receipt, writer>>
      /\ StoreType
  BY <1>1 DEF ReadForPointer, WritePointer, PointerFails, reports, IInv
<1>3. \A m \in Note : append'[m] \/ m \in pending' =>
                        append[m] \/ m \in pending \/ source'[m] # None
  BY <1>1, <1>2 DEF ReadForPointer, WritePointer, PointerFails, StoreType,
     TablesKnow
<1>4. \A m \in Confirmed' : m \in Confirmed
  BY <1>2 DEF Confirmed
<1>5. \A f \in Finding :
        finding'[f].reopened # None => finding'[f].reopened <= clock'
  BY <1>2, ReopenedByNow DEF StoreType
<1>6. QED
  BY <1>2, <1>3, <1>4, <1>5, TablesStillKnow, ConfirmedAreNotes

LEMMA ReaderStepKnows ==
  ASSUME IInv, TablesKnow, TablesGrow, ReadersKnow, ReaderStep
  PROVE  TablesKnow'
<1>1. /\ UNCHANGED <<cast, clock, source, finding, writer, append>>
      /\ pending' \subseteq pending /\ StoreType
  BY DEF ReaderStep, Read, ReadReceipts, ReadFinding, ReadDelivered, Expire,
     Drop, Claim, LetGo, Show, Acknowledge, Reread, Mirror, Outside, queue,
     IInv
<1>2. \A n \in Note : receipt'[n] # None =>
                        receipt[n] # None \/ source'[n] # None
  <2>1. CASE receipt' = receipt
    BY <2>1
  <2>2. ASSUME NEW r \in Reader, reader[r].at = "ack",
               receipt' = Acknowledged(reader[r].id, reader[r].time)
        PROVE  \A n \in Note : receipt'[n] # None =>
                                 receipt[n] # None \/ source'[n] # None
    <3>1. reader[r].id \in Note /\ source[reader[r].id] # None
      BY <2>2 DEF IInv, ReadersHold, ReaderHolds, ReadersKnow, ReaderKnows
    <3>2. \A n \in Note \ {reader[r].id} : receipt'[n] = receipt[n]
      BY <1>1, <2>2 DEF Acknowledged, StoreType
    <3>3. QED
      BY <1>1, <3>1, <3>2
  <2>3. QED
    BY <2>1, <2>2 DEF ReaderStep, Read, ReadReceipts, ReadFinding,
       ReadDelivered, Expire, Drop, Claim, LetGo, Show, Acknowledge, Reread,
       Mirror
<1>3. \A n \in Confirmed' : n \in Confirmed
  BY <1>1 DEF Confirmed
<1>4. \A f \in Finding :
        finding'[f].reopened # None => finding'[f].reopened <= clock'
  BY <1>1, ReopenedByNow DEF StoreType
<1>5. QED
  BY <1>1, <1>2, <1>3, <1>4, TablesStillKnow, ConfirmedAreNotes

LEMMA OthersKnow ==
  ASSUME IInv, TablesKnow, TablesGrow,
         \/ Tick \/ \E f \in Finding : Dispose(f)
         \/ RepairStep \/ UNCHANGED vars
  PROVE  TablesKnow'
<1>1. StoreType /\ UNCHANGED <<cast, source, receipt, pending>>
  BY DEF IInv, Tick, Dispose, RepairStep, Stop, NextPage, RepairNote,
     RepairFails, vars, reports, queue
<1>2. \A n \in Note : append'[n] => append[n]
  BY DEF Tick, Dispose, RepairStep, Stop, NextPage, RepairNote, RepairFails,
     vars, queue
<1>3. \A n \in Confirmed' : n \in Confirmed
  <2>1. CASE Stop
    BY <2>1 DEF Stop, Confirmed, Waiting, reports
  <2>2. CASE UNCHANGED writer
    BY <1>1, <2>2 DEF Confirmed
  <2>3. QED
    BY <2>1, <2>2 DEF Tick, Dispose, RepairStep, NextPage, RepairNote,
       RepairFails, vars
<1>4. \A f \in Finding :
        finding'[f].reopened # None => finding'[f].reopened <= clock'
  <2>1. CASE UNCHANGED finding /\ (UNCHANGED clock \/ clock' = clock + 1)
    <3>1. clock \in Nat /\ clock' \in Nat /\ clock <= clock'
      BY <1>1, <2>1 DEF StoreType
    <3>2. QED
      BY <2>1, <3>1, ReopenedByNow
  <2>2. CASE \E f \in Finding : Dispose(f)
    <3>1. PICK f \in Finding : Dispose(f)
      BY <2>2
    <3>2. ASSUME NEW g \in Finding, finding'[g].reopened # None
          PROVE  finding'[g].reopened <= clock'
      <4>1. /\ finding \in [Finding -> State] /\ clock' = clock
            /\ clock \in Nat
        BY <1>1, <3>1 DEF StoreType, Dispose
      <4>2. \/ finding'[g].reopened = finding[g].reopened
            \/ finding'[g].reopened = clock
        BY <3>1, <4>1 DEF Dispose
      <4>3. QED
        BY <3>2, <4>1, <4>2 DEF TablesKnow
    <3>3. QED
      BY <3>2
  <2>3. QED
    BY <2>1, <2>2 DEF Tick, RepairStep, Stop, NextPage, RepairNote,
       RepairFails, vars
<1>5. QED
  BY <1>1, <1>2, <1>3, <1>4, TablesStillKnow, ConfirmedAreNotes

\* Readers other than r stay, and r knows what it says.
LEMMA OneReaderKnows ==
  ASSUME IInv, NEW r \in Reader, NEW s, ReaderIs(r, s), ReaderKnows(s)
  PROVE  \A q \in Reader : reader'[q] = reader[q] \/ ReaderKnows(reader'[q])
BY DEF IInv, ReadersHold, ReaderIs

LEMMA IdleKnows ==
  /\ ReaderKnows(Idle)
  /\ \A n \in Note : ReaderKnows([Idle EXCEPT !.at = "drop", !.id = n])
<1>1. Idle.at = "idle" /\ Idle.began = {}
  BY DEF Idle
<1>2. ReaderKnows(Idle)
  BY <1>1 DEF ReaderKnows
<1>3. ASSUME NEW n \in Note
      PROVE  ReaderKnows([Idle EXCEPT !.at = "drop", !.id = n])
  <2>1. PICK s : s = [Idle EXCEPT !.at = "drop", !.id = n]
    OBVIOUS
  <2>2. s.at = "drop" /\ s.began = {}
    BY <2>1 DEF Idle
  <2>3. ReaderKnows(s)
    BY <2>2 DEF ReaderKnows
  <2>4. QED
    BY <2>1, <2>3
<1>4. QED
  BY <1>2, <1>3

LEMMA RefusedKnows ==
  ASSUME IInv, NEW r \in Reader, NEW n \in Note, NEW by, Refused(r, n, by)
  PROVE  \A q \in Reader : reader'[q] = reader[q] \/ ReaderKnows(reader'[q])
BY IdleKnows, OneReaderKnows DEF Refused

LEMMA ReadKnows ==
  ASSUME IInv, TablesKnow, NEW r \in Reader, NEW n \in Note,
         NEW by \in {"card", "pointer", "id"}, Read(r, n, by)
  PROVE  \A q \in Reader : reader'[q] = reader[q] \/ ReaderKnows(reader'[q])
<1>1. source[n] # None
  BY DEF TablesKnow, Read
<1>2. CASE UNCHANGED reader
  BY <1>2
<1>3. CASE Refused(r, n, by)
  BY <1>3, RefusedKnows
<1>4. CASE ReaderIs(r, [Idle EXCEPT
              !.at = "receipts", !.by = by, !.id = n, !.note = file[n],
              !.began = {m \in Note : receipt[m] # None}])
  <2>1. PICK s : s = [Idle EXCEPT
                       !.at = "receipts", !.by = by, !.id = n,
                       !.note = file[n],
                       !.began = {m \in Note : receipt[m] # None}]
    OBVIOUS
  <2>2. /\ s.at = "receipts" /\ s.id = n
        /\ s.began = {m \in Note : receipt[m] # None}
    BY <2>1 DEF Idle
  <2>3. ReaderKnows(s)
    BY <1>1, <2>2 DEF ReaderKnows
  <2>4. QED
    BY <1>4, <2>1, <2>3, OneReaderKnows
<1>5. QED
  BY <1>2, <1>3, <1>4 DEF Read

\* A receipt that was there when the read began is there when it looks.
LEMMA ReadReceiptsKnows ==
  ASSUME IInv, ReadersKnow, NEW r \in Reader, ReadReceipts(r)
  PROVE  \A q \in Reader : reader'[q] = reader[q] \/ ReaderKnows(reader'[q])
<1>1. /\ reader[r] \in ReaderRecord /\ reader[r].at = "receipts"
      /\ reader[r].id \in Note /\ ReaderKnows(reader[r])
  BY DEF IInv, ReadersHold, ReaderHolds, ReadersKnow, ReadReceipts
<1>2. CASE Fresh(reader[r].note, reader[r].id)
  <2>1. PICK s : s = [reader[r] EXCEPT !.at = "finding"]
    OBVIOUS
  <2>2. /\ s.at = "finding" /\ s.id = reader[r].id
        /\ s.began = reader[r].began
    BY <1>1, <2>1
  <2>3. reader[r].id \notin reader[r].began
    BY <1>1, <1>2 DEF Fresh, ReaderKnows
  <2>4. ReaderKnows(s)
    BY <1>1, <2>2, <2>3 DEF ReaderKnows
  <2>5. QED
    BY <1>2, <2>1, <2>4, OneReaderKnows DEF ReadReceipts
<1>3. CASE ~Fresh(reader[r].note, reader[r].id)
  BY <1>1, <1>3, RefusedKnows DEF ReadReceipts
<1>4. QED
  BY <1>2, <1>3

LEMMA ReadFindingKnows ==
  ASSUME IInv, ReadersKnow, NEW r \in Reader, ReadFinding(r)
  PROVE  \A q \in Reader : reader'[q] = reader[q] \/ ReaderKnows(reader'[q])
<1> DEFINE f == findingOf[reader[r].id]
<1>1. /\ reader[r] \in ReaderRecord /\ reader[r].at = "finding"
      /\ reader[r].id \in Note /\ ReaderKnows(reader[r])
      /\ f \in Finding /\ finding[f] \in State
  BY DEF IInv, StoreType, ReadersHold, ReaderHolds, ReadersKnow, ReadFinding
<1>2. CASE Sources(f) # {} /\ finding[f].open
  <2>1. PICK s : s = [reader[r] EXCEPT !.at = "delivered",
                                       !.reopened = finding[f].reopened]
    OBVIOUS
  <2>2. /\ s.at = "delivered" /\ s.id = reader[r].id
        /\ s.began = reader[r].began /\ s.reopened = finding[f].reopened
    BY <1>1, <2>1
  <2>3. ReopenedSince(s.reopened, f)
    BY <1>1, <2>2 DEF ReopenedSince
  <2>4. ReaderKnows(s)
    BY <1>1, <2>2, <2>3 DEF ReaderKnows
  <2>5. QED
    BY <1>2, <2>1, <2>4, OneReaderKnows DEF ReadFinding
<1>3. CASE ~(Sources(f) # {} /\ finding[f].open)
  BY <1>1, <1>3, RefusedKnows DEF ReadFinding
<1>4. QED
  BY <1>2, <1>3

\* A report of the finding that was acknowledged when the read began was
\* written before the finding was reopened, as far as the reader knows.
LEMMA ReadDeliveredKnows ==
  ASSUME IInv, TablesKnow, ReadersKnow, NEW r \in Reader, ReadDelivered(r)
  PROVE  \A q \in Reader : reader'[q] = reader[q] \/ ReaderKnows(reader'[q])
<1> DEFINE f == findingOf[reader[r].id]
           at == IF clock - reader[r].note.time > TTL THEN "expire"
                                                      ELSE "ready"
<1>1. /\ reader[r] \in ReaderRecord /\ reader[r].at = "delivered"
      /\ reader[r].id \in Note /\ ReaderKnows(reader[r])
  BY DEF IInv, ReadersHold, ReaderHolds, ReadersKnow, ReadDelivered
<1>2. CASE ~Delivered(f, reader[r].reopened)
  <2>1. PICK s : s = [reader[r] EXCEPT !.at = at]
    OBVIOUS
  <2>2. /\ s.at \in {"expire", "ready"} /\ s.id = reader[r].id
        /\ s.began = reader[r].began /\ s.reopened = reader[r].reopened
    BY <1>1, <2>1
  <2>3. ASSUME NEW m \in s.began, findingOf[m] = f
        PROVE  s.reopened # None /\ source[m] < s.reopened
    <3>1. m \in Note /\ receipt[m] # None /\ source[m] # None
      BY <1>1, <2>2 DEF ReaderKnows, TablesKnow
    <3>2. m \in Sources(f)
      BY <2>3, <3>1 DEF Sources
    <3>3. ~(s.reopened = None \/ source[m] >= s.reopened)
      BY <1>2, <2>2, <3>1, <3>2 DEF Delivered
    <3>4. source[m] \in Nat /\ s.reopened \in Nat
      <4>1. /\ source[m] \in Time \union {None}
            /\ s.reopened \in Time \union {None}
        BY <1>1, <2>2, <3>1 DEF IInv, StoreType
      <4>2. QED
        BY <3>1, <3>3, <4>1
    <3>5. QED
      BY <3>3, <3>4
  <2>4. ReaderKnows(s)
    BY <1>1, <2>2, <2>3 DEF ReaderKnows
  <2>5. QED
    BY <1>2, <2>1, <2>4, OneReaderKnows DEF ReadDelivered
<1>3. CASE Delivered(f, reader[r].reopened)
  BY <1>1, <1>3, RefusedKnows DEF ReadDelivered
<1>4. QED
  BY <1>2, <1>3

\* On its way from the screen to the mirror it knows only that the report was
\* recorded.
LEMMA AfterwardsKnows ==
  ASSUME IInv, ReadersKnow, NEW r \in Reader,
         Show(r) \/ Acknowledge(r) \/ Reread(r)
  PROVE  \A q \in Reader : reader'[q] = reader[q] \/ ReaderKnows(reader'[q])
<1>1. /\ reader[r] \in ReaderRecord
      /\ reader[r].at \in {"ready", "ack", "reread"}
      /\ ReaderKnows(reader[r])
  BY DEF IInv, ReadersHold, ReadersKnow, Show, Acknowledge, Reread
<1>2. CASE ReaderIs(r, Idle)
  BY <1>2, IdleKnows, OneReaderKnows
<1>3. CASE Show(r)
  <2>1. PICK s : s = [Idle EXCEPT !.at = "ack", !.id = reader[r].id,
                                  !.time = clock]
    OBVIOUS
  <2>2. s.at = "ack" /\ s.id = reader[r].id /\ s.began = {}
    BY <2>1 DEF Idle
  <2>3. ReaderKnows(s)
    BY <1>1, <2>2 DEF ReaderKnows
  <2>4. QED
    BY <1>3, <2>1, <2>3, OneReaderKnows DEF Show
<1>4. CASE ReaderIs(r, [reader[r] EXCEPT !.at = "reread"])
           /\ reader[r].at = "ack"
  <2>1. PICK s : s = [reader[r] EXCEPT !.at = "reread"]
    OBVIOUS
  <2>2. /\ s.at = "reread" /\ s.id = reader[r].id
        /\ s.began = reader[r].began
    BY <1>1, <2>1
  <2>3. ReaderKnows(s)
    BY <1>1, <1>4, <2>2 DEF ReaderKnows
  <2>4. QED
    BY <1>4, <2>1, <2>3, OneReaderKnows
<1>5. CASE ReaderIs(r, [reader[r] EXCEPT !.at = "mirror",
                                         !.note = file[reader[r].id]])
           /\ reader[r].at = "reread"
  <2>1. PICK s : s = [reader[r] EXCEPT !.at = "mirror",
                                       !.note = file[reader[r].id]]
    OBVIOUS
  <2>2. /\ s.at = "mirror" /\ s.id = reader[r].id
        /\ s.began = reader[r].began
    BY <1>1, <2>1
  <2>3. ReaderKnows(s)
    BY <1>1, <1>5, <2>2 DEF ReaderKnows
  <2>4. QED
    BY <1>5, <2>1, <2>3, OneReaderKnows
<1>6. QED
  BY <1>2, <1>3, <1>4, <1>5 DEF Acknowledge, Reread

\* A step that forgets: the reader is done, or only the pointer is left.
LEMMA ForgetsKnows ==
  ASSUME IInv, NEW r \in Reader,
         Expire(r) \/ Drop(r) \/ Claim(r) \/ LetGo(r) \/ Mirror(r)
  PROVE  \A q \in Reader : reader'[q] = reader[q] \/ ReaderKnows(reader'[q])
<1>1. \/ ReaderIs(r, Idle)
      \/ ReaderIs(r, [Idle EXCEPT !.at = "drop", !.id = reader[r].id])
         /\ reader[r].id \in Note
  BY DEF Expire, Drop, Claim, LetGo, Mirror, IInv, ReadersHold, ReaderHolds
<1>2. QED
  BY <1>1, IdleKnows, OneReaderKnows

LEMMA NextReadersKnow ==
  ASSUME IInv, IInv', TablesKnow, TablesGrow, ReadersKnow, [Next]_vars
  PROVE  ReadersKnow'
<1>1. CASE ReaderStep
  <2>1. PICK r \in Reader :
          \/ \E n \in Note, by \in {"card", "pointer", "id"} : Read(r, n, by)
          \/ ReadReceipts(r) \/ ReadFinding(r) \/ ReadDelivered(r)
          \/ Expire(r) \/ Drop(r) \/ Claim(r) \/ LetGo(r)
          \/ Show(r) \/ Acknowledge(r) \/ Reread(r) \/ Mirror(r)
    BY <1>1 DEF ReaderStep
  <2>2. \A q \in Reader : reader'[q] = reader[q] \/ ReaderKnows(reader'[q])
    BY <2>1, ReadKnows, ReadReceiptsKnows, ReadFindingKnows,
       ReadDeliveredKnows, AfterwardsKnows, ForgetsKnows
  <2>3. QED
    BY <2>2, ReadersStillKnow
<1>2. CASE Stop
  <2>1. \A r \in Reader : ReaderKnows(reader'[r])
    BY <1>2, IdleKnows DEF Stop
  <2>2. QED
    BY <2>1, ReadersStillKnow
<1>3. CASE UNCHANGED reader
  BY <1>3, ReadersStillKnow
<1>4. QED
  BY <1>1, <1>2, <1>3 DEF Next, WriterStep, Begin, Verify, Link, Adopt, Record,
     RecordLost, RecordRefused, Rollback, WriterFails, Crash, PointerStep,
     ReadForPointer, WritePointer, PointerFails, Tick, Dispose, RepairStep,
     NextPage, RepairNote, RepairFails, vars

-----------------------------------------------------------------------------
\* Pointers are handed out no more often than they were put up.

One(b) == IF b THEN 1 ELSE 0

\* Every pointer handed out, up or about to be put up is a call of
\* enqueuePending of its own.
PointersCount ==
  \A n \in Note : claimed[n] + One(append[n]) + One(n \in pending) <= appends[n]

LEMMA PointersAreCounted ==
  IInv /\ PointersCount /\ [Next]_vars => PointersCount'
<1> SUFFICES ASSUME IInv, PointersCount, [Next]_vars, NEW n \in Note
             PROVE  (claimed[n] + One(append[n]) + One(n \in pending)
                       <= appends[n])'
  BY DEF PointersCount
<1>1. /\ claimed \in [Note -> Nat] /\ claimed[n] \in Nat
      /\ appends \in [Note -> 0..Appends] /\ appends[n] \in Nat
      /\ append \in [Note -> BOOLEAN] /\ append[n] \in BOOLEAN
      /\ claimed[n] + One(append[n]) + One(n \in pending) <= appends[n]
  BY DEF IInv, StoreType, PointersCount
<1>2. CASE UNCHANGED queue
  BY <1>1, <1>2 DEF queue
<1>3. CASE PointerStep
  <2>1. PICK m \in Note : ReadForPointer(m) \/ WritePointer(m)
                          \/ PointerFails(m)
    BY <1>3 DEF PointerStep
  <2>2. CASE ReadForPointer(m)
    BY <1>1, <2>2 DEF ReadForPointer, One
  <2>3. CASE WritePointer(m)
    BY <1>1, <2>3 DEF WritePointer, One
  <2>4. CASE PointerFails(m)
    BY <1>1, <2>4 DEF PointerFails, One
  <2>5. QED
    BY <2>1, <2>2, <2>3, <2>4
<1>4. ASSUME NEW r \in Reader, Drop(r)
      PROVE  (claimed[n] + One(append[n]) + One(n \in pending) <= appends[n])'
  BY <1>1, <1>4 DEF Drop, One
<1>5. ASSUME NEW r \in Reader, Claim(r)
      PROVE  (claimed[n] + One(append[n]) + One(n \in pending) <= appends[n])'
  <2>1. CASE n = reader[r].id /\ n \in pending
    BY <1>1, <1>5, <2>1 DEF Claim, One
  <2>2. CASE ~(n = reader[r].id /\ n \in pending)
    BY <1>1, <1>5, <2>2 DEF Claim, One
  <2>3. QED
    BY <2>1, <2>2
<1>6. CASE Stop
  BY <1>1, <1>6 DEF Stop, One
<1>7. CASE ReaderStep
  BY <1>2, <1>4, <1>5, <1>7 DEF ReaderStep, Read, ReadReceipts, ReadFinding,
     ReadDelivered, Expire, LetGo, Show, Acknowledge, Reread, Mirror, queue
<1>8. CASE WriterStep
  BY <1>2, <1>8 DEF WriterStep, Begin, Verify, Link, Adopt, Record,
     RecordLost, RecordRefused, Rollback, WriterFails, Crash
<1>9. QED
  BY <1>2, <1>3, <1>6, <1>7, <1>8 DEF Next, Tick, Dispose, RepairStep,
     NextPage, RepairNote, RepairFails, vars

QInv == TablesKnow /\ ReadersKnow /\ PointersCount

LEMMA QuietInvariance == Spec => []QInv
<1>1. Init => QInv
  <2> SUFFICES ASSUME Init PROVE QInv
    OBVIOUS
  <2>1. IInv
    BY InitIInv
  <2>2. \A n \in Note : source[n] # None <=> n \in cast.earlier
    BY DEF Init
  <2>3. Confirmed = cast.earlier
    BY DEF Init, Confirmed, Waiting
  <2>4. TablesKnow
    BY <2>2, <2>3 DEF Init, TablesKnow, IInv, StoreType
  <2>5. ReadersKnow
    BY IdleKnows DEF Init, ReadersKnow
  <2>6. PointersCount
    BY DEF Init, PointersCount, One
  <2>7. QED
    BY <2>4, <2>5, <2>6 DEF QInv
<1>2. IInv /\ IInv' /\ QInv /\ [Next]_vars => QInv'
  <2> SUFFICES ASSUME IInv, IInv', QInv, [Next]_vars PROVE QInv'
    OBVIOUS
  <2>1. TablesKnow /\ ReadersKnow /\ PointersCount /\ TablesGrow
    BY NextGrows DEF QInv
  <2>2. TablesKnow'
    BY <2>1, WriterStepKnows, PointerStepKnows, ReaderStepKnows, OthersKnow
    DEF Next
  <2>3. QED
    BY <2>1, <2>2, NextReadersKnow, PointersAreCounted DEF QInv
<1>3. QED
  BY Invariance, <1>1, <1>2, PTL DEF Spec

\* A report acknowledged before a read for delivery began is not found ready
\* by it, nor is another report of its finding unless the finding was reopened
\* since; and a pointer is handed out once.  Failures, deaths and dispositions
\* happen at any time, and the savers may overlap.
THEOREM ReportsAreShownOnce == Spec => []ShownOnce
<1>1. IInv /\ QInv => AcknowledgedStaysQuiet
  <2> SUFFICES ASSUME IInv, QInv, NEW r \in Reader, reader[r].at = "ready",
                      NEW m \in reader[r].began
               PROVE  /\ m # reader[r].id
                      /\ findingOf[m] = findingOf[reader[r].id] =>
                           /\ finding[findingOf[m]].reopened # None
                           /\ source[m] < finding[findingOf[m]].reopened
    BY DEF AcknowledgedStaysQuiet
  <2> DEFINE s == reader[r]
             f == findingOf[s.id]
  <2>1. /\ ReaderKnows(s) /\ s \in ReaderRecord /\ s.id \in Note
        /\ f \in Finding /\ finding[f] \in State
    BY DEF QInv, ReadersKnow, IInv, StoreType, ReadersHold, ReaderHolds
  <2>2. m \in Note /\ source[m] \in Time
    <3>1. m \in Note /\ receipt[m] # None
      BY <2>1 DEF ReaderKnows
    <3>2. source[m] # None /\ source[m] \in Time \union {None}
      BY <3>1 DEF QInv, TablesKnow, IInv, StoreType
    <3>3. QED
      BY <3>1, <3>2
  <2>3. m # s.id
    BY <2>1 DEF ReaderKnows
  <2>4. ASSUME findingOf[m] = f
        PROVE  finding[f].reopened # None /\ source[m] < finding[f].reopened
    <3>1. s.reopened # None /\ source[m] < s.reopened
      BY <2>1, <2>4 DEF ReaderKnows
    <3>2. finding[f].reopened # None /\ s.reopened <= finding[f].reopened
      BY <2>1, <3>1 DEF ReaderKnows, ReopenedSince
    <3>3. s.reopened \in Nat /\ finding[f].reopened \in Nat
      BY <2>1, <3>1, <3>2
    <3>4. QED
      BY <2>2, <3>1, <3>2, <3>3
  <2>5. QED
    BY <2>3, <2>4
<1>2. IInv /\ QInv => ClaimedOnce
  <2> SUFFICES ASSUME IInv, QInv, NEW n \in Note PROVE claimed[n] <= appends[n]
    BY DEF ClaimedOnce
  <2>1. claimed[n] \in Nat /\ appends[n] \in Nat
    BY DEF IInv, StoreType
  <2>2. claimed[n] + One(append[n]) + One(n \in pending) <= appends[n]
    BY DEF QInv, PointersCount
  <2>3. QED
    BY <2>1, <2>2 DEF One
<1>3. QED
  BY Invariance, QuietInvariance, <1>1, <1>2, PTL DEF ShownOnce

-----------------------------------------------------------------------------
\* A report keeps the time it was first written with.

\* The report a reader holds may be older than the file, but not of another
\* time unless it was adopted: what was recorded has not been taken back in
\* between.
HoldsItsTime(s) ==
  s.at \in {"receipts", "finding", "delivered", "expire", "mirror"}
  /\ s.id \notin adopted =>
    s.note.time = file[s.id].time

ReadersHoldTimes == \A r \in Reader : HoldsItsTime(reader[r])

FilesKeepTimes ==
  \A n \in Note \ adopted : file[n] # None /\ file'[n] # None =>
    file'[n].time = file[n].time

\* A file that one step rewrites.
LEMMA RewrittenKeepsTime ==
  ASSUME IInv, NEW n \in Note, NEW note \in Report \union {None},
         file' = [file EXCEPT ![n] = note],
         file[n] # None /\ note # None /\ n \notin adopted =>
           note.time = file[n].time
  PROVE  FilesKeepTimes
BY DEF IInv, StoreType, FilesKeepTimes

LEMMA NextKeepsTimes ==
  ASSUME IInv, ReadersHoldTimes, [Next]_vars
  PROVE  FilesKeepTimes
<1>1. StoreType
  BY DEF IInv
<1>2. CASE UNCHANGED file
  BY <1>2 DEF FilesKeepTimes
<1>3. ASSUME NEW w \in Writer, Link(w) \/ Rollback(w)
      PROVE  FilesKeepTimes
  <2>1. NoteOf[w] \in Note
    OBVIOUS
  <2>2. CASE Link(w) /\ file[NoteOf[w]] = None
    <3> DEFINE note == [time |-> writer[w].time, delivered |-> None,
                        expired |-> FALSE]
    <3>1. note \in Report
      BY DEF IInv, WritersHold
    <3>2. file' = [file EXCEPT ![NoteOf[w]] = note]
      BY <2>2 DEF Link
    <3> HIDE DEF note
    <3>3. QED
      BY <2>1, <2>2, <3>1, <3>2, RewrittenKeepsTime
  <2>3. CASE Link(w) /\ file[NoteOf[w]] # None
    BY <1>2, <2>3 DEF Link
  <2>4. CASE Rollback(w)
    BY <2>1, <2>4, RewrittenKeepsTime DEF Rollback
  <2>5. QED
    BY <1>3, <2>2, <2>3, <2>4
<1>4. ASSUME NEW r \in Reader, Expire(r) \/ Mirror(r)
      PROVE  FilesKeepTimes
  <2> DEFINE s == reader[r]
             expired == [s.note EXCEPT !.expired = TRUE]
             mirrored == [s.note EXCEPT !.delivered = s.time]
  <2>1. /\ s.id \in Note /\ s.note \in Report /\ s.time \in Time
        /\ s.id \notin adopted => s.note.time = file[s.id].time
    BY <1>4 DEF Expire, Mirror, IInv, ReadersHold, ReaderHolds,
       ReadersHoldTimes, HoldsItsTime
  <2>2. /\ expired \in Report /\ expired.time = s.note.time
        /\ mirrored \in Report /\ mirrored.time = s.note.time
    BY <2>1
  <2>3. \/ file' = [file EXCEPT ![s.id] = expired]
        \/ file' = [file EXCEPT ![s.id] = mirrored]
        \/ UNCHANGED file
    BY <1>4 DEF Expire, Mirror
  <2> HIDE DEF expired, mirrored
  <2>4. QED
    BY <1>2, <2>1, <2>2, <2>3, RewrittenKeepsTime
<1>5. CASE RepairNote
  <2>1. PICK n \in repair.page :
          file' = [file EXCEPT ![n] =
                     IF @ = None THEN None
                                 ELSE [@ EXCEPT !.delivered = receipt[n]]]
    BY <1>5 DEF RepairNote
  <2>2. /\ n \in Note /\ receipt[n] \in Time \union {None}
        /\ file[n] \in Report \union {None}
    BY <1>1 DEF StoreType
  <2>3. CASE file[n] = None
    BY <1>1, <2>1, <2>2, <2>3, RewrittenKeepsTime DEF StoreType
  <2>4. CASE file[n] # None
    <3> DEFINE note == [file[n] EXCEPT !.delivered = receipt[n]]
    <3>1. note \in Report /\ note.time = file[n].time
      BY <2>2, <2>4
    <3>2. file' = [file EXCEPT ![n] = note]
      BY <1>1, <2>1, <2>2, <2>4 DEF StoreType
    <3> HIDE DEF note
    <3>3. QED
      BY <2>2, <3>1, <3>2, RewrittenKeepsTime
  <2>5. QED
    BY <2>3, <2>4
<1>6. CASE WriterStep
  BY <1>2, <1>3, <1>6 DEF WriterStep, Begin, Verify, Adopt, Record,
     RecordLost, RecordRefused, WriterFails, Crash, reports
<1>7. CASE ReaderStep
  BY <1>2, <1>4, <1>7 DEF ReaderStep, Read, ReadReceipts, ReadFinding,
     ReadDelivered, Drop, Claim, LetGo, Show, Acknowledge, Reread
<1>8. CASE PointerStep
  BY <1>2, <1>8 DEF PointerStep, ReadForPointer, WritePointer, PointerFails,
     reports
<1>9. QED
  BY <1>2, <1>5, <1>6, <1>7, <1>8 DEF Next, Tick, Dispose, RepairStep, Stop,
     NextPage, RepairFails, vars, reports

\* What a reader goes on with is the report it held, or the one it just read.
LEMMA ReaderGoesOn ==
  ASSUME IInv, ReadersHoldTimes, ReaderStep, NEW r \in Reader
  PROVE  reader'[r] = reader[r] \/ HoldsItsTime(reader'[r])
<1>1. PICK q \in Reader :
        \/ \E n \in Note, by \in {"card", "pointer", "id"} : Read(q, n, by)
        \/ ReadReceipts(q) \/ ReadFinding(q) \/ ReadDelivered(q)
        \/ Expire(q) \/ Drop(q) \/ Claim(q) \/ LetGo(q)
        \/ Show(q) \/ Acknowledge(q) \/ Reread(q) \/ Mirror(q)
  BY DEF ReaderStep
<1>2. /\ reader \in [Reader -> ReaderRecord] /\ reader[q] \in ReaderRecord
      /\ HoldsItsTime(reader[q])
  BY DEF IInv, ReadersHold, ReadersHoldTimes
<1>3. CASE r # q
  BY <1>1, <1>2, <1>3 DEF Read, Refused, ReadReceipts, ReadFinding,
     ReadDelivered, Expire, Drop, Claim, LetGo, Show, Acknowledge, Reread,
     Mirror, ReaderIs
<1>4. ASSUME NEW s, ReaderIs(q, s), HoldsItsTime(s)
      PROVE  HoldsItsTime(reader'[q])
  BY <1>2, <1>4 DEF ReaderIs
<1>5. HoldsItsTime(Idle)
  BY DEF HoldsItsTime, Idle
<1>6. \A n : HoldsItsTime([Idle EXCEPT !.at = "drop", !.id = n])
  <2> TAKE n
  <2>1. PICK s : s = [Idle EXCEPT !.at = "drop", !.id = n]
    OBVIOUS
  <2>2. s.at = "drop"
    BY <2>1 DEF Idle
  <2>3. QED
    BY <2>1, <2>2 DEF HoldsItsTime
<1>7. \A n, by : Refused(q, n, by) => HoldsItsTime(reader'[q])
  BY <1>4, <1>5, <1>6 DEF Refused
<1>8. ASSUME NEW n \in Note, NEW by \in {"card", "pointer", "id"},
             Read(q, n, by)
      PROVE  reader'[q] = reader[q] \/ HoldsItsTime(reader'[q])
  <2>1. PICK s : s = [Idle EXCEPT
                       !.at = "receipts", !.by = by, !.id = n,
                       !.note = file[n],
                       !.began = {m \in Note : receipt[m] # None}]
    OBVIOUS
  <2>2. s.id = n /\ s.note = file[n]
    BY <2>1 DEF Idle
  <2>3. HoldsItsTime(s)
    BY <2>2 DEF HoldsItsTime
  <2>4. QED
    BY <1>4, <1>7, <1>8, <2>1, <2>3 DEF Read
<1>9. CASE ReadReceipts(q) \/ ReadDelivered(q)
  <2>1. ASSUME NEW at \in {"finding", "expire", "ready"},
               ReaderIs(q, [reader[q] EXCEPT !.at = at]),
               reader[q].at \in {"receipts", "delivered"}
        PROVE  HoldsItsTime(reader'[q])
    <3>1. PICK s : s = [reader[q] EXCEPT !.at = at]
      OBVIOUS
    <3>2. s.id = reader[q].id /\ s.note = reader[q].note
      BY <1>2, <3>1
    <3>3. HoldsItsTime(s)
      BY <1>2, <2>1, <3>2 DEF HoldsItsTime
    <3>4. QED
      BY <1>4, <2>1, <3>1, <3>3
  <2> DEFINE at == IF clock - reader[q].note.time > TTL THEN "expire"
                                                        ELSE "ready"
  <2>2. at \in {"finding", "expire", "ready"}
    OBVIOUS
  <2>3. \/ Refused(q, reader[q].id, reader[q].by)
        \/ ReaderIs(q, [reader[q] EXCEPT !.at = "finding"])
        \/ ReaderIs(q, [reader[q] EXCEPT !.at = at])
    BY <1>9 DEF ReadReceipts, ReadDelivered
  <2>4. reader[q].at \in {"receipts", "delivered"}
    BY <1>9 DEF ReadReceipts, ReadDelivered
  <2> HIDE DEF at
  <2>5. CASE Refused(q, reader[q].id, reader[q].by)
    BY <1>3, <1>7, <2>5
  <2>6. CASE ReaderIs(q, [reader[q] EXCEPT !.at = "finding"])
    BY <1>3, <2>1, <2>4, <2>6
  <2>7. CASE ReaderIs(q, [reader[q] EXCEPT !.at = at])
    BY <1>3, <2>1, <2>2, <2>4, <2>7
  <2>8. QED
    BY <2>3, <2>5, <2>6, <2>7
<1>10. CASE ReadFinding(q)
  <2>1. PICK s : s = [reader[q] EXCEPT !.at = "delivered",
                        !.reopened = finding[findingOf[reader[q].id]].reopened]
    OBVIOUS
  <2>2. s.id = reader[q].id /\ s.note = reader[q].note
    BY <1>2, <2>1
  <2>3. HoldsItsTime(s)
    BY <1>2, <1>10, <2>2 DEF ReadFinding, HoldsItsTime
  <2>4. QED
    BY <1>3, <1>4, <1>7, <1>10, <2>1, <2>3 DEF ReadFinding
<1>11. CASE Expire(q) \/ Drop(q) \/ Claim(q) \/ LetGo(q) \/ Mirror(q)
  <2>1. ReaderIs(q, Idle)
        \/ ReaderIs(q, [Idle EXCEPT !.at = "drop", !.id = reader[q].id])
    BY <1>11 DEF Expire, Drop, Claim, LetGo, Mirror
  <2>2. QED
    BY <1>3, <1>4, <1>5, <1>6, <2>1
<1>12. CASE Show(q)
  <2>1. PICK s : s = [Idle EXCEPT !.at = "ack", !.id = reader[q].id,
                                  !.time = clock]
    OBVIOUS
  <2>2. s.at = "ack"
    BY <2>1 DEF Idle
  <2>3. HoldsItsTime(s)
    BY <2>2 DEF HoldsItsTime
  <2>4. QED
    BY <1>3, <1>4, <1>12, <2>1, <2>3 DEF Show
<1>13. CASE Acknowledge(q)
  <2>1. PICK s : s = [reader[q] EXCEPT !.at = "reread"]
    OBVIOUS
  <2>2. s.at = "reread"
    BY <1>2, <2>1
  <2>3. HoldsItsTime(s)
    BY <2>2 DEF HoldsItsTime
  <2>4. QED
    BY <1>3, <1>4, <1>5, <1>13, <2>1, <2>3 DEF Acknowledge
<1>14. CASE Reread(q)
  <2>1. PICK s : s = [reader[q] EXCEPT !.at = "mirror",
                                       !.note = file[reader[q].id]]
    OBVIOUS
  <2>2. s.id = reader[q].id /\ s.note = file[reader[q].id]
    BY <1>2, <2>1
  <2>3. HoldsItsTime(s)
    BY <2>2 DEF HoldsItsTime
  <2>4. QED
    BY <1>3, <1>4, <1>5, <1>14, <2>1, <2>3 DEF Reread
<1>15. QED
  BY <1>1, <1>3, <1>8, <1>9, <1>10, <1>11, <1>12, <1>13, <1>14

LEMMA AdoptedStay ==
  ASSUME [Next]_vars
  PROVE  adopted \subseteq adopted'
<1>1. ASSUME NEW w \in Writer, Adopt(w)
      PROVE  adopted \subseteq adopted'
  BY <1>1 DEF Adopt
<1>2. QED
  BY <1>1 DEF Next, WriterStep, Begin, Verify, Link, Record, RecordLost,
     RecordRefused, Rollback, WriterFails, Crash, PointerStep, ReadForPointer,
     WritePointer, PointerFails, ReaderStep, Read, ReadReceipts, ReadFinding,
     ReadDelivered, Expire, Drop, Claim, LetGo, Show, Acknowledge, Reread,
     Mirror, Outside, Tick, Dispose, RepairStep, Stop, NextPage, RepairNote,
     RepairFails, vars, reports

LEMMA TimesStay ==
  ASSUME IInv, IInv', SInv, SInv', QInv, QInv', ReadersHoldTimes, [Next]_vars
  PROVE  ReadersHoldTimes'
<1> SUFFICES ASSUME NEW r \in Reader,
                    reader'[r].at \in {"receipts", "finding", "delivered",
                                       "expire", "mirror"},
                    reader'[r].id \notin adopted'
             PROVE  reader'[r].note.time = file'[reader'[r].id].time
  BY DEF ReadersHoldTimes, HoldsItsTime
<1>1. PICK s : s = reader'[r]
  OBVIOUS
<1>2. FilesKeepTimes /\ s.id \notin adopted
  BY <1>1, NextKeepsTimes, AdoptedStay
<1>3. s.id \in Note /\ source'[s.id] # None
  BY <1>1 DEF IInv, ReadersHold, ReaderHolds, QInv, ReadersKnow, ReaderKnows
<1>4. file'[s.id] # None
  BY <1>1, <1>3 DEF SInv, OnlyAdoptedIsLost
<1>5. HoldsItsTime(s) /\ file[s.id] # None
  <2>1. CASE reader'[r] = reader[r]
    <3>1. HoldsItsTime(s) /\ source[s.id] # None
      BY <1>1, <2>1 DEF ReadersHoldTimes, QInv, ReadersKnow, ReaderKnows
    <3>2. QED
      BY <1>2, <1>3, <3>1 DEF SInv, OnlyAdoptedIsLost
  <2>2. CASE reader'[r] # reader[r]
    <3>1. CASE ReaderStep
      <4>1. HoldsItsTime(s)
        BY <1>1, <2>2, <3>1, ReaderGoesOn
      <4>2. source'[s.id] = source[s.id]
        BY <1>3, <3>1 DEF ReaderStep, Read, ReadReceipts, ReadFinding,
           ReadDelivered, Expire, Drop, Claim, LetGo, Show, Acknowledge,
           Reread, Mirror, Outside
      <4>3. QED
        BY <1>2, <1>3, <4>1, <4>2 DEF SInv, OnlyAdoptedIsLost
    <3>2. CASE Stop
      BY <3>2 DEF Stop, Idle
    <3>3. QED
      BY <2>2, <3>1, <3>2 DEF Next, WriterStep, Begin, Verify, Link, Adopt,
         Record, RecordLost, RecordRefused, Rollback, WriterFails, Crash,
         PointerStep, ReadForPointer, WritePointer, PointerFails, Tick,
         Dispose, RepairStep, NextPage, RepairNote, RepairFails, vars
  <2>3. QED
    BY <2>1, <2>2
<1>6. s.note.time = file'[s.id].time
  BY <1>1, <1>2, <1>3, <1>4, <1>5 DEF FilesKeepTimes, HoldsItsTime
<1>7. QED
  BY <1>1, <1>6

\* Through retries, overlapping saves, recoveries, mirrors, expiry and the
\* repair a report keeps the time it was first written with, as long as it
\* exists, unless it was adopted from a save that could still take it back
\* (report-files.ts:54).
THEOREM ReportsKeepTheirTime == Spec => RetryKeepsReport
<1>1. Init => ReadersHoldTimes
  BY DEF Init, ReadersHoldTimes, HoldsItsTime, Idle
<1>2. /\ IInv /\ IInv' /\ SInv /\ SInv' /\ QInv /\ QInv'
      /\ ReadersHoldTimes /\ [Next]_vars
      => ReadersHoldTimes'
  BY TimesStay
<1>3. IInv /\ ReadersHoldTimes /\ [Next]_vars =>
        [\A n \in Note \ adopted : file[n] # None /\ file'[n] # None =>
           file'[n].time = file[n].time]_vars
  BY NextKeepsTimes DEF FilesKeepTimes
<1>4. QED
  BY Invariance, SaversInvariance, QuietInvariance, <1>1, <1>2, <1>3, PTL
  DEF Spec, RetryKeepsReport

-----------------------------------------------------------------------------
\* The repair of the mirrors before a rollback.

\* Among some numbers one is the least.
LEMMA LeastOf ==
  ASSUME NEW S \in SUBSET Nat, S # {}
  PROVE  \E n \in S : \A m \in S : n <= m
<1> DEFINE R == OpToRel(<, Nat)
<1>1. IsWellFoundedOn(R, Nat)
  BY NatLessThanWellFounded
<1>2. R = {p \in Nat \X Nat : p[1] < p[2]}
  BY DEF OpToRel
<1> HIDE DEF R
<1>3. PICK n \in S : \A m \in S : <<m, n>> \notin R
  BY <1>1, WFMin
<1>4. ASSUME NEW m \in S PROVE n <= m
  <2>1. m \in Nat /\ n \in Nat
    OBVIOUS
  <2>2. <<m, n>> \notin R
    BY <1>3
  <2>3. ~(m < n)
    BY <1>2, <2>1, <2>2
  <2>4. QED
    BY <2>1, <2>3
<1>5. QED
  BY <1>4

\* A page is what comes next: receipts after the cursor, all of them before
\* those left for later, and it is empty only when there are none.
LEMMA PageComesNext ==
  ASSUME NEW id \in Nat
  PROVE  /\ \A n \in PageAfter(id) : n \in Note /\ receipt[n] # None /\ n > id
         /\ \A n \in Note : \A m \in PageAfter(id) :
              receipt[n] # None /\ n > id /\ n \notin PageAfter(id) => m < n
         /\ PageAfter(id) = {} =>
              \A n \in Note : receipt[n] # None => n <= id
<1> DEFINE rest == {n \in Note : receipt[n] # None /\ n > id}
           Before(n) == {m \in rest : m < n}
<1>1. PageAfter(id) = {n \in rest : Cardinality(Before(n)) < Page}
  BY DEF PageAfter
<1>2. rest \subseteq Nat /\ Page \in Nat /\ Page > 0
  <2>1. Note \subseteq Nat
    OBVIOUS
  <2>2. Page \in Nat /\ Page # 0
    OBVIOUS
  <2>3. Page > 0
    BY <2>2
  <2>4. QED
    BY <2>1, <2>2, <2>3
<1>3. ASSUME NEW n \in rest
      PROVE  IsFiniteSet(Before(n)) /\ Cardinality(Before(n)) \in Nat
  <2>1. Before(n) \in SUBSET Nat /\ n \in Nat /\ \A m \in Before(n) : m <= n
    BY <1>2
  <2> HIDE DEF Before
  <2>2. IsFiniteSet(Before(n))
    BY <2>1, FS_BoundedSetOfNaturals
  <2>3. QED
    BY <2>2, FS_CardinalityType
<1>4. \A n \in PageAfter(id) : n \in Note /\ receipt[n] # None /\ n > id
  BY <1>1
<1>5. ASSUME NEW n \in rest, n \notin PageAfter(id), NEW m \in PageAfter(id)
      PROVE  m < n
  <2>1. m \in rest /\ Cardinality(Before(m)) < Page
    BY <1>1
  <2>2. ~(Cardinality(Before(n)) < Page)
    BY <1>1, <1>5
  <2>3. m # n
    BY <2>1, <2>2
  <2>4. CASE n < m
    <3>1. Before(n) \in SUBSET Before(m)
      BY <1>2, <2>1, <2>4
    <3> HIDE DEF Before
    <3>2. Cardinality(Before(n)) <= Cardinality(Before(m))
      BY <1>3, <2>1, <3>1, FS_Subset
    <3>3. QED
      BY <1>2, <1>3, <2>1, <2>2, <3>2
  <2>5. QED
    BY <1>2, <2>1, <2>3, <2>4
<1>6. ASSUME PageAfter(id) = {}, NEW n \in Note, receipt[n] # None
      PROVE  n <= id
  <2>1. SUFFICES ASSUME n \in rest PROVE FALSE
    <3>1. n \in Nat
      OBVIOUS
    <3>2. n \in rest \/ n <= id
      BY <1>6, <3>1
    <3>3. QED
      BY <3>2
  <2>2. PICK m \in rest : \A k \in rest : m <= k
    BY <1>2, <2>1, LeastOf
  <2>3. Before(m) = {}
    BY <1>2, <2>2
  <2>4. Cardinality(Before(m)) = 0
    BY <2>3, FS_EmptySet
  <2>5. m \in PageAfter(id)
    BY <1>1, <1>2, <2>2, <2>4
  <2>6. QED
    BY <1>6, <2>5
<1>7. QED
  BY <1>4, <1>5, <1>6

Repaired(n) == file[n] # None => file[n].delivered = receipt[n]

\* Up to the cursor everything is repaired; the page in hand is what comes
\* next, and nothing is left when the command ends.
RepairGoesOn ==
  /\ repair.at = "off" => repair.after = 0
  /\ repair.at # "notes" => repair.page = {}
  /\ repair.at # "off" =>
       \A n \in Note : receipt[n] # None /\ n <= repair.after => Repaired(n)
  /\ \A n \in repair.page : receipt[n] # None /\ n > repair.after
  /\ repair.at = "notes" =>
       \A n \in Note : \A m \in repair.page :
         receipt[n] # None /\ n > repair.after /\ n \notin repair.page => m < n
  /\ repair.at = "done" =>
       \A n \in Note : receipt[n] # None => n <= repair.after

\* One receipt of the page: the reports up to it are repaired with it.
LEMMA RepairNoteGoesOn ==
  ASSUME IInv, RepairGoesOn, RepairNote
  PROVE  RepairGoesOn'
<1>1. /\ StoreType /\ repair.at = "notes" /\ repair.page \subseteq Note
      /\ receipt' = receipt /\ repair.after \in Nat
  BY DEF IInv, StoreType, RepairNote
<1>2. PICK n \in repair.page :
        /\ \A m \in repair.page : n <= m
        /\ file' = [file EXCEPT ![n] =
                      IF @ = None THEN None
                                  ELSE [@ EXCEPT !.delivered = receipt[n]]]
        /\ repair' = [at |-> IF repair.page = {n} THEN "page" ELSE "notes",
                      after |-> n, page |-> repair.page \ {n}]
  BY DEF RepairNote
<1>3. /\ n \in Note /\ n \in Nat /\ receipt[n] # None /\ n > repair.after
      /\ repair'.at = (IF repair.page = {n} THEN "page" ELSE "notes")
      /\ repair'.after = n /\ repair'.page = repair.page \ {n}
  BY <1>1, <1>2 DEF RepairGoesOn
<1>4. ASSUME NEW m \in Note, receipt[m] # None, m <= n
      PROVE  Repaired(m)'
  <2>1. m \in Nat
    OBVIOUS
  <2>2. CASE m = n
    <3>1. file[n] \in Report \union {None} /\ receipt[n] \in Time \union {None}
      BY <1>1, <1>3 DEF StoreType
    <3>2. file'[n] = IF file[n] = None
                     THEN None ELSE [file[n] EXCEPT !.delivered = receipt[n]]
      BY <1>1, <1>2, <1>3 DEF StoreType
    <3>3. file'[n] # None => file'[n].delivered = receipt[n]
      BY <3>1, <3>2
    <3>4. QED
      BY <1>1, <2>2, <3>3 DEF Repaired
  <2>3. CASE m # n
    <3>1. m <= repair.after
      <4>1. m \notin repair.page
        BY <1>2, <1>3, <1>4, <2>1, <2>3
      <4>2. ~(n < m)
        BY <1>3, <1>4, <2>1
      <4>3. QED
        BY <1>1, <1>2, <1>4, <2>1, <4>1, <4>2 DEF RepairGoesOn
    <3>2. Repaired(m)
      BY <1>1, <1>4, <3>1 DEF RepairGoesOn
    <3>3. file'[m] = file[m]
      BY <1>1, <1>2, <1>3, <2>3 DEF StoreType
    <3>4. QED
      BY <1>1, <3>2, <3>3 DEF Repaired
  <2>4. QED
    BY <2>2, <2>3
<1>5. \A m \in repair'.page : receipt[m] # None /\ m > n
  BY <1>1, <1>2, <1>3 DEF RepairGoesOn
<1>6. ASSUME NEW k \in Note, NEW m \in repair'.page,
             receipt[k] # None, k > n, k \notin repair'.page
      PROVE  m < k
  <2>1. k \in Nat /\ k \notin repair.page /\ m \in repair.page
    BY <1>3, <1>6
  <2>2. k > repair.after
    BY <1>1, <1>3, <1>6, <2>1
  <2>3. QED
    BY <1>1, <1>6, <2>1, <2>2 DEF RepairGoesOn
<1>7. repair'.at # "notes" => repair'.page = {}
  BY <1>3
<1>8. repair'.at # "off" /\ repair'.at # "done"
  BY <1>3
<1>9. QED
  BY <1>1, <1>3, <1>4, <1>5, <1>6, <1>7, <1>8 DEF RepairGoesOn

LEMMA RepairInvariance == IInv /\ RepairGoesOn /\ [Next]_vars => RepairGoesOn'
<1> SUFFICES ASSUME IInv, RepairGoesOn, [Next]_vars PROVE RepairGoesOn'
  OBVIOUS
<1>1. StoreType /\ repair \in RepairRecord /\ repair.after \in Nat
  <2>1. StoreType /\ repair \in RepairRecord
    BY DEF IInv, StoreType
  <2>2. repair.after \in Note \union {0}
    BY <2>1
  <2>3. Note \union {0} \subseteq Nat
    OBVIOUS
  <2>4. repair.after \in Nat
    BY <2>2, <2>3
  <2>5. QED
    BY <2>1, <2>4
<1>2. CASE Stop
  <2>1. /\ repair'.at = "page" /\ repair'.after = 0 /\ repair'.page = {}
    BY <1>1, <1>2 DEF Stop, Running, RepairGoesOn
  <2>2. \A n \in Note : ~(n <= 0)
    OBVIOUS
  <2>3. QED
    BY <2>1, <2>2 DEF RepairGoesOn
<1>3. CASE NextPage
  <2> DEFINE page == PageAfter(repair.after)
  <2>1. /\ repair'.at = (IF page = {} THEN "done" ELSE "notes")
        /\ repair'.after = repair.after /\ repair'.page = page
        /\ UNCHANGED <<file, receipt>> /\ repair.at = "page"
    BY <1>1, <1>3 DEF NextPage, reports
  <2>2. /\ \A n \in page : receipt[n] # None /\ n > repair.after
        /\ \A n \in Note : \A m \in page :
             receipt[n] # None /\ n > repair.after /\ n \notin page => m < n
        /\ page = {} => \A n \in Note : receipt[n] # None => n <= repair.after
    BY <1>1, PageComesNext
  <2> HIDE DEF page
  <2>3. \A n \in Note : receipt[n] # None /\ n <= repair.after => Repaired(n)'
    BY <2>1 DEF RepairGoesOn, Repaired
  <2>4. QED
    BY <2>1, <2>2, <2>3 DEF RepairGoesOn
<1>4. CASE RepairFails
  <2>1. repair'.at = "page" /\ repair'.after = 0 /\ repair'.page = {}
    BY <1>4 DEF RepairFails
  <2>2. \A n \in Note : ~(n <= 0)
    OBVIOUS
  <2>3. QED
    BY <2>1, <2>2 DEF RepairGoesOn
<1>5. CASE UNCHANGED vars
  BY <1>5 DEF vars, reports, RepairGoesOn, Repaired
<1>6. CASE repair.at = "off" /\ UNCHANGED repair
  BY <1>6 DEF RepairGoesOn
<1>7. CASE WriterStep \/ PointerStep
  BY <1>6, <1>7 DEF WriterStep, Begin, Verify, Link, Adopt, Record, RecordLost,
     RecordRefused, Rollback, WriterFails, Crash, PointerStep, ReadForPointer,
     WritePointer, PointerFails, Running
<1>8. CASE ReaderStep
  BY <1>6, <1>8 DEF ReaderStep, Read, ReadReceipts, ReadFinding,
     ReadDelivered, Expire, Drop, Claim, LetGo, Show, Acknowledge, Reread,
     Mirror, Running, Outside
<1>9. CASE Tick \/ \E f \in Finding : Dispose(f)
  BY <1>6, <1>9 DEF Tick, Dispose, Running
<1>10. QED
  BY <1>2, <1>3, <1>4, <1>5, <1>7, <1>8, <1>9, RepairNoteGoesOn
  DEF Next, RepairStep

\* When repair-receipts has ended every report that exists carries exactly its
\* receipt, wherever the writers and readers were stopped, whatever the size
\* of a page and however often the command had to be given again.
THEOREM RepairRestoresMirrors == Spec => []MirrorsRepaired
<1>1. Init => RepairGoesOn
  <2> SUFFICES ASSUME Init PROVE RepairGoesOn
    OBVIOUS
  <2>1. repair.at = "off" /\ repair.after = 0 /\ repair.page = {}
    BY DEF Init
  <2>2. QED
    BY <2>1 DEF RepairGoesOn
<1>2. IInv /\ RepairGoesOn => MirrorsRepaired
  <2> SUFFICES ASSUME IInv, RepairGoesOn, repair.at = "done",
                      NEW n \in Note, file[n] # None
               PROVE  file[n].delivered = receipt[n]
    BY DEF MirrorsRepaired
  <2>1. CASE receipt[n] # None
    BY <2>1 DEF RepairGoesOn, Repaired
  <2>2. CASE receipt[n] = None
    BY <2>2 DEF IInv, MirrorFollowsReceipt
  <2>3. QED
    BY <2>1, <2>2
<1>3. QED
  BY Invariance, RepairInvariance, <1>1, <1>2, PTL DEF Spec
=============================================================================
