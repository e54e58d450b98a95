------------------------ MODULE SessionHistoryProofs ------------------------
(***************************************************************************)
(* Theorems about the cache of a session's messages (SessionHistory) and   *)
(* what is sliced from it for a reviewer (DeltaSlice).  They hold for any  *)
(* bounds, window and number of fingerprints.                              *)
(*                                                                         *)
(* Part 1 is about the data: transcripts, and the messages that have       *)
(* fingerprints.  Part 2 is about one slice: its cursor covers nothing     *)
(* that is not in the slice or under the cursor before.  Part 3 is about   *)
(* events: what the events under way make good.  Part 4 is the invariant.  *)
(***************************************************************************)
EXTENDS SessionHistory, FiniteSetTheorems, SequenceTheorems, NaturalsInduction, TLAPS

-----------------------------------------------------------------------------
\* The definitions of the invariant.

\* An event of message m, of its part p, or a reset is under way.
MessageComing(q, m) == \E k \in 1..Len(q) : q[k].kind = "message" /\ q[k].id = m
PartComing(q, m, p) == \E k \in 1..Len(q) : q[k].kind = "part" /\ q[k].id = m /\ q[k].part = p
ResetComing(q) == \E k \in 1..Len(q) : q[k].kind = "reset"

\* The k-th event still tells the truth of the session, or a later one
\* puts it right.
EventHolds(q, s, k) ==
  \/ \E j \in (k + 1)..Len(q) : q[j].kind = "reset"
  \/ q[k].kind = "reset"
  \/ /\ q[k].kind = "message" /\ q[k].id \in DOMAIN s
     /\ \/ s[q[k].id].done = q[k].done
        \/ \E j \in (k + 1)..Len(q) : q[j].kind = "message" /\ q[j].id = q[k].id
  \/ /\ q[k].kind = "part" /\ q[k].id \in DOMAIN s /\ q[k].part \in DOMAIN s[q[k].id].parts
     /\ \/ s[q[k].id].parts[q[k].part] = q[k].content
        \/ \E j \in (k + 1)..Len(q) : q[j].kind = "part" /\ q[j].id = q[k].id /\ q[j].part = q[k].part

EventsHold(q, s) == \A k \in 1..Len(q) : EventHolds(q, s, k)

\* The parts t has of message m, which it may not know.
Known(t, m) == IF m \in DOMAIN t THEN t[m].parts ELSE <<>>

Agree(known, parts, p) ==
  /\ p \in DOMAIN known <=> p \in DOMAIN parts
  /\ p \in DOMAIN parts => ProjectPart(known[p]) = ProjectPart(parts[p])

\* Transcript t is that of the session s, but for its dirty messages d and
\* for what the events q will tell.
UpToDate(t, d, q, s) ==
  \/ ResetComing(q)
  \/ /\ DOMAIN t \subseteq DOMAIN s
     /\ \A m \in DOMAIN s :
          /\ (m \in DOMAIN t /\ t[m].done = s[m].done) \/ MessageComing(q, m)
          /\ m \in d \/ (\A p \in PartID : Agree(Known(t, m), s[m].parts, p) \/ PartComing(q, m, p))

\* t shows reviewers no more than they may see.
Projected(t) == \A m \in DOMAIN t : \A p \in DOMAIN t[m].parts : t[m].parts[p] # "long"

EntryHolds(e, q, s) ==
  e # None /\ e.messages # None =>
    /\ UpToDate(e.messages, e.dirty, q, s)
    /\ Projected(e.messages)
    /\ e.dirty \subseteq DOMAIN e.messages
    /\ Cardinality(DOMAIN e.messages) <= Window

\* Messages that were in the session when t was taken are in t; later ones
\* have greater ids.
Whole(t, ids, n) ==
  /\ DOMAIN t \subseteq 1..n
  /\ \A m \in ids, last \in DOMAIN t : m <= last => m \in DOMAIN t

LoadHolds(l, q, s, n) ==
  /\ l # None /\ l.kind # "point" => l.left = {}
  /\ l # None /\ l.kind # "asked" =>
    /\ ~l.changed => UpToDate(l.messages, l.left, q, s)
    /\ l.left \subseteq DOMAIN l.messages
    /\ Cardinality(DOMAIN l.messages) <= Window \/ (l.kind = "answered" /\ Whole(l.messages, DOMAIN s, n))

\* No message between those the prefix covers and the last one lacks its
\* fingerprint.
Skips(c, ids) == \E m \in ids : c.prefix.before <= m /\ m <= c.last /\ m \notin DOMAIN c.observed

CursorHolds(c, l, s, n) ==
  c.prefix # None =>
    /\ c.last \in 1..n
    /\ ~Skips(c, DOMAIN s)
    /\ l # None /\ l.kind = "answered" /\ Cardinality(DOMAIN l.messages) > Window => ~Skips(c, DOMAIN l.messages)

WorldOK ==
  /\ server \in Transcript
  /\ made \in Seq(0..MaxParts)
  /\ changes \in 0..MaxChanges /\ faults \in 0..MaxFaults
  /\ events \in Seq(Event)
  /\ DOMAIN server \subseteq 1..Len(made)
  /\ EventsHold(events, server)

CacheOK ==
  /\ entry \in Entry \cup {None} /\ load \in Load \cup {None}
  /\ entry = None => load = None
  /\ EntryHolds(entry, events, server)
  /\ LoadHolds(load, events, server, Len(made))

\* Whoever waits for a fresh read waits for a load that began after its call.
ReaderOK ==
  /\ pass \in {"idle", "loading"}
  /\ checkpoint \in [state : {"idle", "waiting", "loading"}, since : 0..MaxChanges]
  /\ checkpoint.since <= changes
  /\ checkpoint.state = "loading" => load # None /\ load.asOf >= checkpoint.since

\* What is under review will cover no more than was reviewed with it.
ReviewOK ==
  /\ cursor \in Cursor
  /\ reviewed \in SUBSET (Message \X PartID \X Content)
  /\ CursorHolds(cursor, load, server, Len(made))
  /\ Covers(cursor, reviewed)
  /\ review \in Review \cup {None}
  /\ review # None => /\ CursorHolds(review.next, load, server, Len(made))
                      /\ Covers(review.next, reviewed \cup review.delta)

HistoryInv == WorldOK /\ CacheOK /\ ReaderOK /\ ReviewOK

-----------------------------------------------------------------------------
\* Part 1: the data.

LEMMA EmptyFunction ==
  ASSUME NEW S
  PROVE  <<>> \in [{} -> S] /\ DOMAIN <<>> = {}
<1>1. <<>> \in Seq(S) /\ Len(<<>>) = 0
  BY EmptySeq
<1>2. <<>> \in [1..0 -> S] /\ DOMAIN <<>> = 1..0
  BY <1>1, LenProperties
<1>3. 1..0 = {}
  OBVIOUS
<1>4. QED
  BY <1>2, <1>3

LEMMA PutIs ==
  ASSUME NEW f, NEW x, NEW v
  PROVE  /\ DOMAIN Put(f, x, v) = DOMAIN f \cup {x}
         /\ Put(f, x, v)[x] = v
         /\ \A y \in DOMAIN f \ {x} : Put(f, x, v)[y] = f[y]
         /\ \A y \in DOMAIN f \cup {x} : Put(f, x, v)[y] = IF y = x THEN v ELSE f[y]
BY DEF Put

LEMMA PartsIs ==
  ASSUME NEW ps \in Parts
  PROVE  /\ ps \in [DOMAIN ps -> Content]
         /\ DOMAIN ps \subseteq PartID
         /\ \A p \in DOMAIN ps : ps[p] \in Content
BY DEF Parts

LEMMA IsParts ==
  ASSUME NEW ids \in SUBSET PartID, NEW ps \in [ids -> Content]
  PROVE  ps \in Parts
BY DEF Parts

LEMMA NoParts == <<>> \in Parts /\ DOMAIN <<>> = {}
<1>1. <<>> \in [{} -> Content] /\ DOMAIN <<>> = {}
  BY EmptyFunction
<1>2. QED
  BY <1>1, IsParts

LEMMA PutParts ==
  ASSUME NEW ps \in Parts, NEW p \in PartID, NEW content \in Content
  PROVE  Put(ps, p, content) \in Parts
<1>1. DOMAIN ps \cup {p} \in SUBSET PartID
  BY PartsIs
<1>2. Put(ps, p, content) \in [DOMAIN ps \cup {p} -> Content]
  BY PartsIs DEF Put
<1>3. QED
  BY <1>1, <1>2, IsParts

LEMMA ReviewableParts ==
  ASSUME NEW ps \in Parts
  PROVE  /\ Reviewable(ps) \in Parts
         /\ DOMAIN Reviewable(ps) \subseteq DOMAIN ps
         /\ \A p \in DOMAIN Reviewable(ps) : Reviewable(ps)[p] = ps[p]
<1>1. {q \in DOMAIN ps : ps[q] # "card"} \in SUBSET PartID
  BY PartsIs
<1>2. Reviewable(ps) \in [{q \in DOMAIN ps : ps[q] # "card"} -> Content]
  BY PartsIs DEF Reviewable
<1>3. Reviewable(ps) \in Parts
  BY <1>1, <1>2, IsParts
<1>4. QED
  BY <1>3 DEF Reviewable

LEMMA TranscriptIs ==
  ASSUME NEW t \in Transcript
  PROVE  /\ t \in [DOMAIN t -> MessageValue]
         /\ DOMAIN t \subseteq Message
         /\ \A m \in DOMAIN t : /\ t[m] \in MessageValue
                                /\ t[m].done \in BOOLEAN /\ t[m].parts \in Parts
BY DEF Transcript, MessageValue

LEMMA IsTranscript ==
  ASSUME NEW ids \in SUBSET Message, NEW t \in [ids -> MessageValue]
  PROVE  t \in Transcript
BY DEF Transcript

LEMMA NoMessages == <<>> \in Transcript /\ DOMAIN <<>> = {}
<1>1. <<>> \in [{} -> MessageValue] /\ DOMAIN <<>> = {}
  BY EmptyFunction
<1>2. QED
  BY <1>1, IsTranscript

LEMMA PutTranscript ==
  ASSUME NEW t \in Transcript, NEW m \in Message, NEW v \in MessageValue
  PROVE  Put(t, m, v) \in Transcript
<1>1. DOMAIN t \cup {m} \in SUBSET Message
  BY TranscriptIs
<1>2. Put(t, m, v) \in [DOMAIN t \cup {m} -> MessageValue]
  BY TranscriptIs DEF Put
<1>3. QED
  BY <1>1, <1>2, IsTranscript

\* A transcript with other parts, or another completion, of one message.
LEMMA PartsChanged ==
  ASSUME NEW t \in Transcript, NEW m \in DOMAIN t, NEW ps \in Parts
  PROVE  /\ [t EXCEPT ![m].parts = ps] \in Transcript
         /\ [t EXCEPT ![m].parts = ps] = Put(t, m, [done |-> t[m].done, parts |-> ps])
<1>1. t[m] \in MessageValue /\ t[m].done \in BOOLEAN
  BY TranscriptIs
<1>2. [t[m] EXCEPT !.parts = ps] = [done |-> t[m].done, parts |-> ps]
  BY <1>1 DEF MessageValue
<1>3. [done |-> t[m].done, parts |-> ps] \in MessageValue
  BY <1>1 DEF MessageValue
<1>4. [t EXCEPT ![m].parts = ps] = [t EXCEPT ![m] = [t[m] EXCEPT !.parts = ps]]
  OBVIOUS
<1>5. t = [y \in DOMAIN t |-> t[y]]
  BY TranscriptIs
<1>6. DOMAIN t \cup {m} = DOMAIN t
  OBVIOUS
<1>7. [t EXCEPT ![m].parts = ps] = Put(t, m, [done |-> t[m].done, parts |-> ps])
  BY <1>2, <1>4, <1>5, <1>6 DEF Put
<1>8. m \in Message
  BY TranscriptIs
<1>9. QED
  BY <1>3, <1>7, <1>8, PutTranscript

LEMMA DoneChanged ==
  ASSUME NEW t \in Transcript, NEW m \in DOMAIN t
  PROVE  /\ [t EXCEPT ![m].done = TRUE] \in Transcript
         /\ [t EXCEPT ![m].done = TRUE] = Put(t, m, [done |-> TRUE, parts |-> t[m].parts])
<1> DEFINE b == TRUE
<1>0. b \in BOOLEAN
  OBVIOUS
<1> HIDE DEF b
<1>1. t[m] \in MessageValue /\ t[m].parts \in Parts
  BY TranscriptIs
<1>2. [t[m] EXCEPT !.done = b] = [done |-> b, parts |-> t[m].parts]
  BY <1>1 DEF MessageValue
<1>3. [done |-> b, parts |-> t[m].parts] \in MessageValue
  BY <1>0, <1>1 DEF MessageValue
<1>4. [t EXCEPT ![m].done = b] = [t EXCEPT ![m] = [t[m] EXCEPT !.done = b]]
  OBVIOUS
<1>5. t = [y \in DOMAIN t |-> t[y]]
  BY TranscriptIs
<1>6. DOMAIN t \cup {m} = DOMAIN t
  OBVIOUS
<1>7. [t EXCEPT ![m].done = b] = Put(t, m, [done |-> b, parts |-> t[m].parts])
  BY <1>2, <1>4, <1>5, <1>6 DEF Put
<1>8. m \in Message
  BY TranscriptIs
<1>9. [t EXCEPT ![m].done = b] \in Transcript
  BY <1>3, <1>7, <1>8, PutTranscript
<1>10. QED
  BY <1>7, <1>9 DEF b

LEMMA ProjectOnce ==
  ASSUME NEW content \in Content
  PROVE  /\ ProjectPart(content) \in Content
         /\ ProjectPart(content) # "long"
         /\ ProjectPart(ProjectPart(content)) = ProjectPart(content)
         /\ content # "long" => ProjectPart(content) = content
BY DEF ProjectPart, Content

\* What a view is.
LEMMA ViewIs ==
  ASSUME NEW t \in Transcript
  PROVE  /\ View(t) \in Transcript
         /\ DOMAIN View(t) = DOMAIN t
         /\ Projected(View(t))
         /\ \A m \in DOMAIN t :
              /\ View(t)[m] = [done |-> t[m].done, parts |-> [p \in DOMAIN t[m].parts |-> ProjectPart(t[m].parts[p])]]
              /\ View(t)[m].done = t[m].done
              /\ DOMAIN View(t)[m].parts = DOMAIN t[m].parts
              /\ \A p \in DOMAIN t[m].parts : View(t)[m].parts[p] = ProjectPart(t[m].parts[p])
<1>1. ASSUME NEW m \in DOMAIN t
      PROVE  /\ View(t)[m] \in MessageValue
             /\ View(t)[m] = [done |-> t[m].done, parts |-> [p \in DOMAIN t[m].parts |-> ProjectPart(t[m].parts[p])]]
             /\ View(t)[m].done = t[m].done
             /\ View(t)[m].parts = [p \in DOMAIN t[m].parts |-> ProjectPart(t[m].parts[p])]
  <2> DEFINE ps == [p \in DOMAIN t[m].parts |-> ProjectPart(t[m].parts[p])]
  <2>1. t[m] \in MessageValue /\ t[m].done \in BOOLEAN /\ t[m].parts \in Parts
    BY TranscriptIs
  <2>2. ps \in [DOMAIN t[m].parts -> Content] /\ DOMAIN t[m].parts \in SUBSET PartID
    BY <2>1, PartsIs, ProjectOnce
  <2>3. ps \in Parts
    BY <2>2, IsParts
  <2>4. View(t)[m] = [t[m] EXCEPT !.parts = ps]
    BY DEF View, ProjectMessage
  <2> HIDE DEF ps
  <2>5. View(t)[m] = [done |-> t[m].done, parts |-> ps]
    BY <2>1, <2>4 DEF MessageValue
  <2>6. View(t)[m] \in MessageValue
    BY <2>1, <2>3, <2>5 DEF MessageValue
  <2>7. QED
    BY <2>5, <2>6 DEF ps
<1>2. DOMAIN View(t) = DOMAIN t /\ View(t) \in [DOMAIN t -> MessageValue]
  BY <1>1 DEF View
<1>3. View(t) \in Transcript
  BY <1>2, TranscriptIs, IsTranscript
<1>4. Projected(View(t))
  <2> SUFFICES ASSUME NEW m \in DOMAIN View(t), NEW p \in DOMAIN View(t)[m].parts
               PROVE  View(t)[m].parts[p] # "long"
    BY DEF Projected
  <2>1. m \in DOMAIN t /\ t[m].parts \in Parts /\ p \in DOMAIN t[m].parts
    BY <1>1, <1>2, TranscriptIs
  <2>2. View(t)[m].parts[p] = ProjectPart(t[m].parts[p]) /\ t[m].parts[p] \in Content
    BY <1>1, <2>1, PartsIs
  <2>3. QED
    BY <2>2, ProjectOnce
<1>5. QED
  BY <1>1, <1>2, <1>3, <1>4

\* A set of messages has a first and a last one.
LEMMA FirstMessage ==
  ASSUME NEW S \in SUBSET Message, S # {}
  PROVE  Min(S) \in S /\ \A m \in S : Min(S) <= m
<1>1. Message \subseteq Nat
  BY DEF Message
<1>2. IsWellFoundedOn(OpToRel(<, Nat), Nat)
  BY NatLessThanWellFounded
<1>3. PICK x \in S : \A y \in S : <<y, x>> \notin OpToRel(<, Nat)
  BY <1>1, <1>2, WFMin
<1>4. \A y \in S : x \in Nat /\ y \in Nat /\ (<<y, x>> \in OpToRel(<, Nat) <=> y < x)
  BY <1>1 DEF OpToRel
<1>5. \A y \in S : x <= y
  <2> TAKE y \in S
  <2>1. x \in Nat /\ y \in Nat /\ ~(y < x)
    BY <1>3, <1>4
  <2>2. QED
    BY <2>1
<1>6. QED
  BY <1>5 DEF Min

LEMMA LastMessage ==
  ASSUME NEW S \in SUBSET Message, S # {}
  PROVE  Max(S) \in S /\ \A m \in S : Max(S) >= m
<1> DEFINE T == {MaxMessages - m + 1 : m \in S}
<1>1. Message \subseteq Nat /\ MaxMessages \in Nat /\ \A m \in Message : MaxMessages - m + 1 \in Message
  BY BoundsAssumption DEF Message
<1>2. T \in SUBSET Message /\ T # {}
  BY <1>1
<1> HIDE DEF T
<1>3. Min(T) \in T /\ \A y \in T : Min(T) <= y
  BY <1>2, FirstMessage
<1>4. PICK x \in S : Min(T) = MaxMessages - x + 1
  BY <1>3 DEF T
<1>5. \A m \in S : x >= m
  <2> TAKE m \in S
  <2>1. MaxMessages - m + 1 \in T
    BY DEF T
  <2>2. MaxMessages - x + 1 <= MaxMessages - m + 1
    BY <1>3, <1>4, <2>1
  <2>3. x \in Nat /\ m \in Nat
    BY <1>1
  <2>4. QED
    BY <1>1, <2>2, <2>3
<1>6. QED
  BY <1>5 DEF Max

LEMMA MessagesAreFinite ==
  ASSUME NEW S \in SUBSET Message
  PROVE  IsFiniteSet(S) /\ Cardinality(S) \in Nat
<1>1. IsFiniteSet(Message)
  <2>1. 1 \in Int /\ MaxMessages \in Int
    BY BoundsAssumption
  <2>2. IsFiniteSet(1..MaxMessages)
    BY <2>1, FS_Interval, Zenon
  <2>3. QED
    BY <2>2 DEF Message
<1>2. IsFiniteSet(S)
  BY <1>1, FS_Subset
<1>3. QED
  BY <1>2, FS_CardinalityType

\* The messages with fingerprints are the last ones.
LEMMA RecentIs ==
  ASSUME NEW t \in Transcript, DOMAIN t # {}
  PROVE  /\ Recent(t) \subseteq DOMAIN t
         /\ Max(DOMAIN t) \in Recent(t)
         /\ Min(Recent(t)) \in Recent(t)
         /\ \A m \in DOMAIN t : m \in Recent(t) <=> Min(Recent(t)) <= m
<1> DEFINE Later(id) == {later \in DOMAIN t : later > id}
<1>1. DOMAIN t \subseteq Message /\ Message \subseteq Nat
  BY TranscriptIs DEF Message
<1>2. /\ Recent(t) \subseteq DOMAIN t
      /\ \A m \in DOMAIN t : m \in Recent(t) <=> Cardinality(Later(m)) < Window
  BY DEF Recent
<1>3. Max(DOMAIN t) \in DOMAIN t /\ \A m \in DOMAIN t : Max(DOMAIN t) >= m
  BY <1>1, LastMessage
<1>4. Max(DOMAIN t) \in Recent(t)
  <2>1. Later(Max(DOMAIN t)) = {}
    <3> SUFFICES ASSUME NEW x \in DOMAIN t, x > Max(DOMAIN t) PROVE FALSE
      OBVIOUS
    <3>1. x \in Nat /\ Max(DOMAIN t) \in Nat /\ Max(DOMAIN t) >= x
      BY <1>1, <1>3
    <3>2. QED
      BY <3>1
  <2>2. Cardinality(Later(Max(DOMAIN t))) = 0
    BY <2>1, FS_EmptySet
  <2>3. QED
    BY <1>2, <1>3, <2>2, WindowAssumption
<1>5. Min(Recent(t)) \in Recent(t) /\ \A m \in Recent(t) : Min(Recent(t)) <= m
  BY <1>1, <1>2, <1>4, FirstMessage
<1>6. ASSUME NEW m \in DOMAIN t, Min(Recent(t)) <= m
      PROVE  m \in Recent(t)
  <2> DEFINE first == Min(Recent(t))
  <2>1. first \in DOMAIN t /\ first \in Nat /\ m \in Nat /\ Cardinality(Later(first)) < Window
    BY <1>1, <1>2, <1>5
  <2>2. Later(m) \subseteq Later(first)
    <3> SUFFICES ASSUME NEW x \in DOMAIN t, x > m PROVE x > first
      OBVIOUS
    <3>1. x \in Nat /\ m \in Nat /\ first \in Nat /\ first <= m
      BY <1>1, <1>6, <2>1
    <3> HIDE DEF first
    <3>2. QED
      BY <3>1
  <2>3. IsFiniteSet(Later(first)) /\ Cardinality(Later(first)) \in Nat
    BY <1>1, MessagesAreFinite
  <2>4. Cardinality(Later(m)) <= Cardinality(Later(first)) /\ Cardinality(Later(m)) \in Nat
    BY <1>1, <2>2, <2>3, FS_Subset, MessagesAreFinite
  <2> HIDE DEF Later
  <2>5. Cardinality(Later(m)) < Window
    BY <2>1, <2>3, <2>4, WindowAssumption
  <2>6. QED
    BY <1>2, <2>5
<1>7. QED
  BY <1>2, <1>4, <1>5, <1>6

\* When there are no more messages than fingerprints, all have one.
LEMMA FewAreRecent ==
  ASSUME NEW t \in Transcript, NEW m \in DOMAIN t, m \notin Recent(t)
  PROVE  Cardinality(DOMAIN t) > Window
<1> DEFINE later == {n \in DOMAIN t : n > m}
<1>1. DOMAIN t \in SUBSET Message /\ IsFiniteSet(DOMAIN t) /\ Cardinality(DOMAIN t) \in Nat
  BY TranscriptIs, MessagesAreFinite
<1>2. later \subseteq DOMAIN t /\ later # DOMAIN t
  BY <1>1 DEF Message
<1>3. Cardinality(later) \in Nat /\ Cardinality(later) < Cardinality(DOMAIN t)
  BY <1>1, <1>2, MessagesAreFinite, FS_Subset
<1>4. ~(Cardinality(later) < Window)
  BY DEF Recent
<1>5. QED
  BY <1>1, <1>3, <1>4, WindowAssumption

\* The fingerprints of a transcript.
LEMMA ObservationIs ==
  ASSUME NEW ps \in Parts, NEW room
  PROVE  /\ Observation(ps, room) \in Fingerprint
         /\ Observation(ps, room) # None
         /\ Observation(ps, room).digest = Reviewable(ps)
<1> DEFINE kept == Size(ps) <= room
<1>1. Observation(ps, room) = [digest |-> Reviewable(ps), kept |-> kept]
  BY DEF Observation
<1>2. kept \in BOOLEAN
  OBVIOUS
<1>3. Reviewable(ps) \in Parts
  BY ReviewableParts
<1> HIDE DEF kept
<1>4. Observation(ps, room) \in Fingerprint /\ Observation(ps, room).digest = Reviewable(ps)
  BY <1>1, <1>2, <1>3 DEF Fingerprint
<1>5. QED
  BY <1>4, NoneAssumption

LEMMA ObserveCursorIs ==
  ASSUME NEW t \in Transcript
  PROVE  /\ ObserveCursor(t) \in Observed
         /\ DOMAIN ObserveCursor(t) = Recent(t)
         /\ \A m \in Recent(t) : /\ ObserveCursor(t)[m] \in Fingerprint
                                 /\ ObserveCursor(t)[m] # None
                                 /\ ObserveCursor(t)[m].digest = Reviewable(t[m].parts)
<1>1. Recent(t) \in SUBSET Message /\ Recent(t) \subseteq DOMAIN t
  BY TranscriptIs DEF Recent
<1>2. ASSUME NEW m \in Recent(t)
      PROVE  /\ ObserveCursor(t)[m] \in Fingerprint
             /\ ObserveCursor(t)[m] # None
             /\ ObserveCursor(t)[m].digest = Reviewable(t[m].parts)
  <2>1. t[m].parts \in Parts
    BY <1>1, TranscriptIs
  <2>2. ObserveCursor(t)[m] = Observation(t[m].parts, Room(t)[m + 1])
    BY DEF ObserveCursor
  <2>3. QED
    BY <2>1, <2>2, ObservationIs
<1>3. ObserveCursor(t) \in [Recent(t) -> Fingerprint] /\ DOMAIN ObserveCursor(t) = Recent(t)
  BY <1>2 DEF ObserveCursor
<1>4. QED
  BY <1>1, <1>2, <1>3 DEF Observed

LEMMA PrefixBeforeIs ==
  ASSUME NEW t \in Transcript, NEW id \in DOMAIN t
  PROVE  /\ PrefixBefore(t, id) \in Prefix
         /\ PrefixBefore(t, id).before = id
         /\ DOMAIN PrefixBefore(t, id).digest = {m \in DOMAIN t : m < id}
         /\ \A m \in DOMAIN t : m < id => PrefixBefore(t, id).digest[m] = Reviewable(t[m].parts)
<1> DEFINE older == {m \in DOMAIN t : m < id}
           digest == [m \in older |-> Reviewable(t[m].parts)]
<1>1. PrefixBefore(t, id) = [before |-> id, digest |-> digest]
  BY DEF PrefixBefore
<1>2. older \in SUBSET Message /\ id \in Message
  BY TranscriptIs
<1>3. digest \in [older -> Parts]
  BY TranscriptIs, ReviewableParts
<1>4. PrefixBefore(t, id) \in Prefix
  BY <1>1, <1>2, <1>3 DEF Prefix
<1>5. QED
  BY <1>1, <1>4

-----------------------------------------------------------------------------
\* Part 2: one slice.

LEMMA CursorIs ==
  ASSUME NEW c \in Cursor
  PROVE  /\ DOMAIN c.observed \subseteq Message
         /\ \A m \in DOMAIN c.observed : c.observed[m] \in Fingerprint /\ c.observed[m] # None
         /\ c.prefix # None => c.prefix \in Prefix
         /\ c.last \in Message \cup {None} /\ c.observed \in Observed /\ c.prefix \in Prefix \cup {None}
<1>1. c.last \in Message \cup {None} /\ c.observed \in Observed /\ c.prefix \in Prefix \cup {None}
  BY DEF Cursor
<1>2. DOMAIN c.observed \subseteq Message /\ \A m \in DOMAIN c.observed : c.observed[m] \in Fingerprint
  BY <1>1 DEF Observed
<1>3. QED
  BY <1>1, <1>2, NoneAssumption

LEMMA NoCursorHolds ==
  /\ NoCursor \in Cursor
  /\ NoCursor.prefix = None
  /\ \A seen : Covers(NoCursor, seen)
<1>1. <<>> \in [{} -> Fingerprint] /\ DOMAIN <<>> = {}
  BY EmptyFunction
<1>2. <<>> \in Observed
  BY <1>1 DEF Observed
<1>3. NoCursor \in Cursor /\ NoCursor.prefix = None /\ NoCursor.observed = <<>>
  BY <1>2 DEF NoCursor, Cursor
<1>4. QED
  BY <1>1, <1>3 DEF Covers

\* The next cursor of a slice that has messages.
LEMMA NextIs ==
  ASSUME NEW t \in Transcript, NEW c, DOMAIN t # {}
  PROVE  /\ SliceDelta(t, c).next.last = Max(DOMAIN t)
         /\ SliceDelta(t, c).next.observed = ObserveCursor(t)
         /\ SliceDelta(t, c).next.prefix = ObservePrefix(t)
         /\ SliceDelta(t, c).next \in Cursor
<1>1. SliceDelta(t, c).next = [last |-> Max(DOMAIN t), observed |-> ObserveCursor(t), prefix |-> ObservePrefix(t)]
  BY DEF SliceDelta
<1>2. Max(DOMAIN t) \in Message
  BY TranscriptIs, LastMessage
<1>3. ObserveCursor(t) \in Observed
  BY ObserveCursorIs
<1>4. ObservePrefix(t) \in Prefix \cup {None}
  BY RecentIs, PrefixBeforeIs DEF ObservePrefix
<1>5. QED
  BY <1>1, <1>2, <1>3, <1>4 DEF Cursor

\* The new parts of a message are among its reviewable ones.
LEMMA NewPartsIs ==
  ASSUME NEW t \in Transcript, NEW c \in Cursor, NEW m \in DOMAIN t
  PROVE  NewParts(t, c, m) \subseteq DOMAIN Reviewable(t[m].parts)
<1> DEFINE before == Lookup(c.observed, m)
           after  == Lookup(ObserveCursor(t), m)
           now    == IF after = None THEN Observation(t[m].parts, PartLimit) ELSE after
<1>1. t[m].parts \in Parts
  BY TranscriptIs
<1>2. now.digest = Reviewable(t[m].parts)
  BY <1>1, ObservationIs, ObserveCursorIs DEF Lookup
<1>3. ChangedParts(before, now) \subseteq DOMAIN now.digest
  BY DEF ChangedParts
<1>4. \/ NewParts(t, c, m) \in {{}, DOMAIN Reviewable(t[m].parts)}
      \/ NewParts(t, c, m) = ChangedParts(before, now)
  BY DEF NewParts
<1>5. QED
  BY <1>2, <1>3, <1>4

LEMMA SliceIs ==
  ASSUME NEW t \in Transcript, NEW c \in Cursor
  PROVE  /\ SliceDelta(t, c) \in Review
         /\ \A m \in DOMAIN t, p \in PartID : p \in NewParts(t, c, m) => <<m, p, t[m].parts[p]>> \in SliceDelta(t, c).delta
<1> DEFINE delta == UNION {{<<m, p, t[m].parts[p]>> : p \in NewParts(t, c, m)} : m \in DOMAIN t}
<1>1. SliceDelta(t, c) = [delta |-> delta, next |-> SliceDelta(t, c).next]
  BY DEF SliceDelta
<1>2. SliceDelta(t, c).next \in Cursor
  <2>1. CASE DOMAIN t = {}
    BY <2>1 DEF SliceDelta
  <2>2. CASE DOMAIN t # {}
    BY <2>2, NextIs
  <2>3. QED
    BY <2>1, <2>2
<1>3. ASSUME NEW m \in DOMAIN t, NEW p \in NewParts(t, c, m)
      PROVE  <<m, p, t[m].parts[p]>> \in Message \X PartID \X Content
  <2>1. m \in Message /\ t[m].parts \in Parts
    BY TranscriptIs
  <2>2. p \in DOMAIN t[m].parts
    BY <2>1, NewPartsIs, ReviewableParts
  <2>3. QED
    BY <2>1, <2>2, PartsIs
<1>4. delta \in SUBSET (Message \X PartID \X Content)
  BY <1>3
<1>5. \A m \in DOMAIN t, p \in PartID : p \in NewParts(t, c, m) => <<m, p, t[m].parts[p]>> \in delta
  OBVIOUS
<1> HIDE DEF delta
<1>6. SliceDelta(t, c) \in Review
  BY <1>1, <1>2, <1>4 DEF Review
<1>7. QED
  BY <1>1, <1>5, <1>6

\* A part that is not new was seen under the fingerprint of its message.
LEMMA UnchangedParts ==
  ASSUME NEW c \in Cursor, NEW seen, Covers(c, seen),
         NEW m \in DOMAIN c.observed, NEW now \in Fingerprint,
         NEW p \in DOMAIN now.digest, p \notin ChangedParts(c.observed[m], now)
  PROVE  <<m, p, now.digest[p]>> \in seen
<1> DEFINE before == c.observed[m]
<1>1. before # None
  BY CursorIs
<1>2. \A q \in DOMAIN before.digest : <<m, q, before.digest[q]>> \in seen
  BY DEF Covers
<1> HIDE DEF before
<1>3. p \notin ChangedParts(before, now)
  BY DEF before
<1>4. \/ before.digest = now.digest
      \/ p \in DOMAIN before.digest /\ before.digest[p] = now.digest[p]
  BY <1>1, <1>3 DEF ChangedParts
<1>5. QED
  BY <1>2, <1>4

\* What reviewers may see of a transcript is seen already or in the slice: a
\* message between the prefix of the cursor and its last fingerprint would be
\* passed over if it had no fingerprint.
LEMMA SliceOverlooksNothing ==
  ASSUME NEW t \in Transcript, NEW c \in Cursor, NEW seen, Covers(c, seen),
         Cardinality(DOMAIN t) > Window /\ c.prefix # None => ~Skips(c, DOMAIN t),
         NEW m \in DOMAIN t, NEW p \in DOMAIN Reviewable(t[m].parts)
  PROVE  <<m, p, Reviewable(t[m].parts)[p]>> \in seen \cup SliceDelta(t, c).delta
<1> DEFINE all == seen \cup SliceDelta(t, c).delta
           before == Lookup(c.observed, m)
           after  == Lookup(ObserveCursor(t), m)
           now    == IF after = None THEN Observation(t[m].parts, PartLimit) ELSE after
           first  == Min(Recent(t))
<1>1. t[m].parts \in Parts /\ m \in Message /\ Message \subseteq Nat
  BY TranscriptIs DEF Message
<1>2. Reviewable(t[m].parts)[p] = t[m].parts[p] /\ p \in PartID
  BY <1>1, ReviewableParts, PartsIs
<1>3. CASE p \in NewParts(t, c, m)
  BY <1>2, <1>3, SliceIs
<1>4. CASE p \notin NewParts(t, c, m) /\ ~(before = None /\ after = None)
  <2>1. now \in Fingerprint /\ now.digest = Reviewable(t[m].parts)
    BY <1>1, ObservationIs, ObserveCursorIs DEF Lookup
  <2>2. p \notin ChangedParts(before, now)
    BY <1>4 DEF NewParts
  <2>3. CASE before = None
    BY <2>1, <2>2, <2>3 DEF ChangedParts
  <2>4. CASE before # None
    <3>1. m \in DOMAIN c.observed /\ before = c.observed[m]
      BY <2>4 DEF Lookup
    <3>2. <<m, p, now.digest[p]>> \in seen
      BY <2>1, <2>2, <3>1, UnchangedParts
    <3>3. QED
      BY <2>1, <3>2
  <2>5. QED
    BY <2>3, <2>4
<1>5. CASE p \notin NewParts(t, c, m) /\ before = None /\ after = None
  <2>1. c.last \in DOMAIN t /\ ~(m > c.last) /\ ~PrefixChanged(t, c)
    BY <1>5 DEF NewParts
  <2>2. m \notin Recent(t) /\ m \notin DOMAIN c.observed
    BY <1>5, ObserveCursorIs, CursorIs DEF Lookup
  <2>3. first \in DOMAIN t /\ m < first
    BY <1>1, <2>2, RecentIs, TranscriptIs
  <2>4. Cardinality(DOMAIN t) > Window
    BY <2>2, FewAreRecent
  <2>5. ObservePrefix(t) = PrefixBefore(t, first) /\ ObservePrefix(t) # None
    <3>1. Cardinality(DOMAIN t) \in Nat
      BY TranscriptIs, MessagesAreFinite
    <3>2. ObservePrefix(t) = PrefixBefore(t, first)
      BY <2>4, <3>1, WindowAssumption DEF ObservePrefix
    <3>3. PrefixBefore(t, first) \in Prefix
      BY <2>3, PrefixBeforeIs
    <3>4. QED
      BY <3>2, <3>3, NoneAssumption
  <2>6. c.prefix # None /\ PrefixBefore(t, c.prefix.before) = c.prefix
    BY <2>1, <2>5 DEF PrefixChanged
  <2>7. c.prefix.before \in DOMAIN t
    BY <2>6 DEF PrefixBefore
  <2>8. c.prefix.before \in Nat /\ m \in Nat /\ c.last \in Nat
    BY <1>1, <2>1, <2>7, TranscriptIs
  <2>9. m < c.prefix.before
    BY <2>1, <2>2, <2>4, <2>6, <2>8 DEF Skips
  <2>10. m \in DOMAIN c.prefix.digest /\ c.prefix.digest[m] = Reviewable(t[m].parts)
    BY <2>6, <2>7, <2>9, PrefixBeforeIs
  <2>11. <<m, p, c.prefix.digest[m][p]>> \in seen
    BY <2>6, <2>10 DEF Covers
  <2>12. QED
    BY <2>10, <2>11
<1>6. QED
  BY <1>3, <1>4, <1>5

\* Whatever the next cursor of a slice covers is in the slice, or the cursor
\* before covers it.
LEMMA SliceCovers ==
  ASSUME NEW t \in Transcript, NEW c \in Cursor, NEW seen, Covers(c, seen),
         Cardinality(DOMAIN t) > Window /\ c.prefix # None => ~Skips(c, DOMAIN t)
  PROVE  Covers(SliceDelta(t, c).next, seen \cup SliceDelta(t, c).delta)
<1> DEFINE next == SliceDelta(t, c).next
           all == seen \cup SliceDelta(t, c).delta
<1>1. CASE DOMAIN t = {}
  <2>1. next = c
    BY <1>1 DEF SliceDelta
  <2>2. QED
    BY <2>1 DEF Covers
<1>2. CASE DOMAIN t # {}
  <2>1. next.observed = ObserveCursor(t) /\ next.prefix = ObservePrefix(t)
    BY <1>2, NextIs
  <2>2. \A m \in DOMAIN t : \A p \in DOMAIN Reviewable(t[m].parts) :
          <<m, p, Reviewable(t[m].parts)[p]>> \in all
    BY SliceOverlooksNothing
  <2> HIDE DEF all, next
  <2>3. ASSUME NEW m \in Recent(t), NEW p \in DOMAIN ObserveCursor(t)[m].digest
        PROVE  <<m, p, ObserveCursor(t)[m].digest[p]>> \in all
    <3>1. m \in DOMAIN t /\ ObserveCursor(t)[m].digest = Reviewable(t[m].parts)
      BY ObserveCursorIs DEF Recent
    <3>2. QED
      BY <2>2, <3>1
  <2>4. ASSUME ObservePrefix(t) # None, NEW m \in DOMAIN ObservePrefix(t).digest,
               NEW p \in DOMAIN ObservePrefix(t).digest[m]
        PROVE  <<m, p, ObservePrefix(t).digest[m][p]>> \in all
    <3> DEFINE first == Min(Recent(t))
    <3>1. first \in DOMAIN t /\ ObservePrefix(t) = PrefixBefore(t, first)
      BY <1>2, <2>4, RecentIs DEF ObservePrefix
    <3>2. m \in DOMAIN t /\ ObservePrefix(t).digest[m] = Reviewable(t[m].parts)
      BY <2>4, <3>1, PrefixBeforeIs
    <3>3. QED
      BY <2>2, <2>4, <3>2
  <2>5. DOMAIN ObserveCursor(t) = Recent(t)
    BY ObserveCursorIs
  <2>6. Covers(next, all)
    BY <2>1, <2>3, <2>4, <2>5 DEF Covers
  <2>7. QED
    BY <2>6 DEF all, next
<1>3. QED
  BY <1>1, <1>2

\* The next cursor of a slice of a whole transcript passes over no message
\* of the session.
LEMMA SliceSkipsNothing ==
  ASSUME NEW t \in Transcript, NEW c \in Cursor, NEW ids, NEW n \in Nat,
         DOMAIN t # {},
         Cardinality(DOMAIN t) <= Window \/ Whole(t, ids, n),
         SliceDelta(t, c).next.prefix # None
  PROVE  SliceDelta(t, c).next.last \in 1..n /\ ~Skips(SliceDelta(t, c).next, ids)
<1> DEFINE next == SliceDelta(t, c).next
           first == Min(Recent(t))
<1>1. next.last = Max(DOMAIN t) /\ next.observed = ObserveCursor(t) /\ next.prefix = ObservePrefix(t)
  BY NextIs
<1>2. ObservePrefix(t) # None
  BY <1>1
<1>3. first \in Recent(t) /\ first \in DOMAIN t /\ \A m \in DOMAIN t : m \in Recent(t) <=> first <= m
  BY RecentIs
<1>4. next.prefix.before = first
  BY <1>1, <1>2, <1>3, PrefixBeforeIs DEF ObservePrefix
<1>5. Whole(t, ids, n)
  BY <1>2 DEF ObservePrefix
<1>6. Max(DOMAIN t) \in DOMAIN t
  BY TranscriptIs, LastMessage
<1>7. next.last \in 1..n
  BY <1>1, <1>5, <1>6 DEF Whole
<1> HIDE DEF next, first
<1>8. ASSUME NEW m \in ids, next.prefix.before <= m, m <= next.last
      PROVE  m \in DOMAIN next.observed
  <2>1. m \in DOMAIN t
    BY <1>1, <1>5, <1>6, <1>8 DEF Whole
  <2>2. m \in Recent(t)
    BY <1>3, <1>4, <1>8, <2>1
  <2>3. QED
    BY <1>1, <2>2, ObserveCursorIs
<1>9. ~Skips(next, ids)
  BY <1>8 DEF Skips
<1>10. QED
  BY <1>7, <1>9 DEF next

-----------------------------------------------------------------------------
\* Part 3: events.


LEMMA EventsAre ==
  /\ \A m \in Message, b \in BOOLEAN : MessageEvent(m, b) \in Event
  /\ \A m \in Message, p \in PartID, x \in Content : PartEvent(m, p, x) \in Event
  /\ Reset \in Event
BY DEF MessageEvent, PartEvent, Reset, Event

LEMMA AppendIs ==
  ASSUME NEW q \in Seq(Event), NEW e \in Event
  PROVE  /\ q \o <<e>> = Append(q, e)
         /\ Append(q, e) \in Seq(Event)
         /\ Len(q) \in Nat /\ Len(Append(q, e)) = Len(q) + 1
         /\ Append(q, e)[Len(q) + 1] = e
         /\ \A k \in 1..Len(q) : Append(q, e)[k] = q[k]
BY AppendProperties

\* What is under way stays so when an event is added.
LEMMA ComingAfterAppend ==
  ASSUME NEW q \in Seq(Event), NEW e \in Event
  PROVE  /\ ResetComing(q) \/ e.kind = "reset" => ResetComing(Append(q, e))
         /\ \A m : MessageComing(q, m) \/ (e.kind = "message" /\ e.id = m) => MessageComing(Append(q, e), m)
         /\ \A m, p : PartComing(q, m, p) \/ (e.kind = "part" /\ e.id = m /\ e.part = p) => PartComing(Append(q, e), m, p)
<1> DEFINE q2 == Append(q, e)
<1>1. /\ Len(q) \in Nat /\ Len(q2) = Len(q) + 1 /\ q2[Len(q) + 1] = e
      /\ \A k \in 1..Len(q) : q2[k] = q[k]
  BY AppendIs
<1> HIDE DEF q2
<1>2. Len(q) + 1 \in 1..Len(q2) /\ 1..Len(q) \subseteq 1..Len(q2)
  BY <1>1
<1>3. ResetComing(q) \/ e.kind = "reset" => ResetComing(q2)
  BY <1>1, <1>2 DEF ResetComing
<1>4. \A m : MessageComing(q, m) \/ (e.kind = "message" /\ e.id = m) => MessageComing(q2, m)
  BY <1>1, <1>2 DEF MessageComing
<1>5. \A m, p : PartComing(q, m, p) \/ (e.kind = "part" /\ e.id = m /\ e.part = p) => PartComing(q2, m, p)
  BY <1>1, <1>2 DEF PartComing
<1>6. QED
  BY <1>3, <1>4, <1>5 DEF q2

\* What the events q make good of the session s is made good of s2 by q2.
Tells(q, s, q2, s2) ==
  /\ EventsHold(q, s) => EventsHold(q2, s2)
  /\ \A t \in Transcript, d \in SUBSET Message : UpToDate(t, d, q, s) => UpToDate(t, d, q2, s2)

LEMMA MessageTells ==
  ASSUME NEW q \in Seq(Event), NEW s \in Transcript, NEW m \in Message, NEW b \in BOOLEAN,
         NEW s2, s2 = Put(s, m, [done |-> b, parts |-> Known(s, m)])
  PROVE  Tells(q, s, Append(q, MessageEvent(m, b)), s2)
<1> DEFINE e == MessageEvent(m, b)
           q2 == Append(q, e)
<1>1. e \in Event /\ e.kind = "message" /\ e.id = m /\ e.done = b
  BY EventsAre DEF MessageEvent
<1> HIDE DEF e
<1>2. /\ Len(q) \in Nat /\ Len(q2) = Len(q) + 1 /\ q2[Len(q) + 1] = e
      /\ \A k \in 1..Len(q) : q2[k] = q[k]
  BY <1>1, AppendIs
<1>3. /\ ResetComing(q) => ResetComing(q2)
      /\ \A n : MessageComing(q, n) \/ n = m => MessageComing(q2, n)
      /\ \A n, p : PartComing(q, n, p) => PartComing(q2, n, p)
  BY <1>1, ComingAfterAppend
<1> HIDE DEF q2
<1>4. /\ DOMAIN s2 = DOMAIN s \cup {m}
      /\ s2[m].done = b /\ s2[m].parts = Known(s, m)
      /\ \A n \in DOMAIN s : n # m => s2[n] = s[n]
  <2> DEFINE v == [done |-> b, parts |-> Known(s, m)]
  <2>1. v.done = b /\ v.parts = Known(s, m) /\ s2 = Put(s, m, v)
    OBVIOUS
  <2> HIDE DEF v
  <2>2. QED
    BY <2>1 DEF Put
<1>5. \A n \in DOMAIN s : s2[n].parts = s[n].parts
  BY <1>4 DEF Known
<1>6. ASSUME EventsHold(q, s)
      PROVE  EventsHold(q2, s2)
  <2>1. ASSUME NEW k \in 1..Len(q)
        PROVE  EventHolds(q2, s2, k)
    <3>1. EventHolds(q, s, k) /\ q2[k] = q[k] /\ (k + 1)..Len(q) \subseteq (k + 1)..Len(q2) /\ Len(q) + 1 \in (k + 1)..Len(q2)
      BY <1>2, <1>6 DEF EventsHold
    <3>2. \A j \in (k + 1)..Len(q) : q2[j] = q[j]
      BY <1>2
    <3>3. CASE \E j \in (k + 1)..Len(q) : q[j].kind = "reset"
      BY <3>1, <3>2, <3>3 DEF EventHolds
    <3>4. CASE q[k].kind = "reset"
      BY <3>1, <3>4 DEF EventHolds
    <3>5. CASE /\ q[k].kind = "message" /\ q[k].id \in DOMAIN s
               /\ \/ s[q[k].id].done = q[k].done
                  \/ \E j \in (k + 1)..Len(q) : q[j].kind = "message" /\ q[j].id = q[k].id
      <4>1. CASE q[k].id = m
        BY <1>1, <1>2, <1>4, <3>1, <3>5, <4>1 DEF EventHolds
      <4>2. CASE q[k].id # m
        <5> DEFINE id == q[k].id
                   done == q[k].done
        <5>1. id \in DOMAIN s2 /\ s2[id].done = s[id].done
          BY <1>4, <3>5, <4>2
        <5>2. q2[k].kind = "message" /\ q2[k].id = id /\ q2[k].done = done
          BY <3>1, <3>5
        <5>3. \/ s[id].done = done
              \/ \E j \in (k + 1)..Len(q2) : q2[j].kind = "message" /\ q2[j].id = id
          BY <3>1, <3>2, <3>5
        <5> HIDE DEF id, done
        <5>4. /\ q2[k].kind = "message" /\ q2[k].id \in DOMAIN s2
              /\ \/ s2[q2[k].id].done = q2[k].done
                 \/ \E j \in (k + 1)..Len(q2) : q2[j].kind = "message" /\ q2[j].id = q2[k].id
          BY <5>1, <5>2, <5>3
        <5>5. QED
          BY <5>4 DEF EventHolds
      <4>3. QED
        BY <4>1, <4>2
    <3>6. CASE /\ q[k].kind = "part" /\ q[k].id \in DOMAIN s /\ q[k].part \in DOMAIN s[q[k].id].parts
               /\ \/ s[q[k].id].parts[q[k].part] = q[k].content
                  \/ \E j \in (k + 1)..Len(q) : q[j].kind = "part" /\ q[j].id = q[k].id /\ q[j].part = q[k].part
      <4>1. /\ q2[k].kind = "part" /\ q2[k].id \in DOMAIN s2 /\ q2[k].part \in DOMAIN s2[q2[k].id].parts
            /\ \/ s2[q2[k].id].parts[q2[k].part] = q2[k].content
               \/ \E j \in (k + 1)..Len(q2) : q2[j].kind = "part" /\ q2[j].id = q2[k].id /\ q2[j].part = q2[k].part
        <5> DEFINE id == q[k].id
                   pt == q[k].part
                   content == q[k].content
        <5>1. id \in DOMAIN s2 /\ pt \in DOMAIN s2[id].parts /\ s2[id].parts[pt] = s[id].parts[pt]
          BY <1>4, <1>5, <3>6
        <5>2. q2[k].kind = "part" /\ q2[k].id = id /\ q2[k].part = pt /\ q2[k].content = content
          BY <3>1, <3>6
        <5>3. \/ s[id].parts[pt] = content
              \/ \E j \in (k + 1)..Len(q2) : q2[j].kind = "part" /\ q2[j].id = id /\ q2[j].part = pt
          BY <3>1, <3>2, <3>6
        <5> HIDE DEF id, pt, content
        <5>4. QED
          BY <5>1, <5>2, <5>3
      <4>2. QED
        BY <4>1 DEF EventHolds
    <3>7. QED
      BY <3>1, <3>3, <3>4, <3>5, <3>6 DEF EventHolds
  <2>2. EventHolds(q2, s2, Len(q) + 1)
    BY <1>1, <1>2, <1>4 DEF EventHolds
  <2>3. QED
    BY <1>2, <2>1, <2>2 DEF EventsHold
<1>7. ASSUME NEW t \in Transcript, NEW d \in SUBSET Message, UpToDate(t, d, q, s)
      PROVE  UpToDate(t, d, q2, s2)
  <2>1. CASE ResetComing(q)
    BY <1>3, <2>1 DEF UpToDate
  <2>2. CASE ~ResetComing(q)
    <3>1. /\ DOMAIN t \subseteq DOMAIN s
          /\ \A n \in DOMAIN s :
               /\ (n \in DOMAIN t /\ t[n].done = s[n].done) \/ MessageComing(q, n)
               /\ n \in d \/ (\A p \in PartID : Agree(Known(t, n), s[n].parts, p) \/ PartComing(q, n, p))
      BY <1>7, <2>2 DEF UpToDate
    <3>2. ASSUME NEW n \in DOMAIN s
          PROVE  /\ (n \in DOMAIN t /\ t[n].done = s2[n].done) \/ MessageComing(q2, n)
                 /\ n \in d \/ (\A p \in PartID : Agree(Known(t, n), s2[n].parts, p) \/ PartComing(q2, n, p))
      BY <1>3, <1>4, <1>5, <3>1
    <3>3. ASSUME m \notin DOMAIN s
          PROVE  \A p \in PartID : Agree(Known(t, m), s2[m].parts, p)
      <4>1. Known(t, m) = <<>> /\ s2[m].parts = <<>>
        BY <1>4, <3>1, <3>3 DEF Known
      <4>2. QED
        BY <4>1, NoParts DEF Agree
    <3>4. QED
      BY <1>3, <1>4, <3>1, <3>2, <3>3 DEF UpToDate
  <2>3. QED
    BY <2>1, <2>2
<1>8. QED
  BY <1>6, <1>7 DEF Tells, q2, e

LEMMA PartTells ==
  ASSUME NEW q \in Seq(Event), NEW s \in Transcript, NEW m \in DOMAIN s, NEW p \in PartID, NEW x \in Content,
         NEW s2, s2 = Put(s, m, [done |-> s[m].done, parts |-> Put(s[m].parts, p, x)])
  PROVE  Tells(q, s, Append(q, PartEvent(m, p, x)), s2)
<1> DEFINE e == PartEvent(m, p, x)
           q2 == Append(q, e)
<1>1. e \in Event /\ e.kind = "part" /\ e.id = m /\ e.part = p /\ e.content = x
  BY EventsAre, TranscriptIs DEF PartEvent
<1> HIDE DEF e
<1>2. /\ Len(q) \in Nat /\ Len(q2) = Len(q) + 1 /\ q2[Len(q) + 1] = e
      /\ \A k \in 1..Len(q) : q2[k] = q[k]
  BY <1>1, AppendIs
<1>3. /\ ResetComing(q) => ResetComing(q2)
      /\ \A n : MessageComing(q, n) => MessageComing(q2, n)
      /\ \A n, r : PartComing(q, n, r) \/ (n = m /\ r = p) => PartComing(q2, n, r)
  BY <1>1, ComingAfterAppend
<1> HIDE DEF q2
<1>4. /\ DOMAIN s2 = DOMAIN s
      /\ s2[m].done = s[m].done /\ s2[m].parts = Put(s[m].parts, p, x)
      /\ \A n \in DOMAIN s : n # m => s2[n] = s[n]
  <2> DEFINE v == [done |-> s[m].done, parts |-> Put(s[m].parts, p, x)]
  <2>1. v.done = s[m].done /\ v.parts = Put(s[m].parts, p, x) /\ s2 = Put(s, m, v)
    OBVIOUS
  <2> HIDE DEF v
  <2>2. DOMAIN s2 = DOMAIN s \cup {m} /\ s2[m] = v /\ \A n \in DOMAIN s : n # m => s2[n] = s[n]
    BY <2>1 DEF Put
  <2>3. QED
    BY <2>1, <2>2
<1>5. /\ \A n \in DOMAIN s : s2[n].done = s[n].done
      /\ p \in DOMAIN s2[m].parts /\ s2[m].parts[p] = x
      /\ \A n \in DOMAIN s : \A r : ~(n = m /\ r = p) =>
           /\ r \in DOMAIN s2[n].parts <=> r \in DOMAIN s[n].parts
           /\ r \in DOMAIN s[n].parts => s2[n].parts[r] = s[n].parts[r]
      /\ \A n \in DOMAIN s : DOMAIN s[n].parts \subseteq DOMAIN s2[n].parts
  <2>1. /\ p \in DOMAIN s2[m].parts /\ s2[m].parts[p] = x
        /\ DOMAIN s2[m].parts = DOMAIN s[m].parts \cup {p}
        /\ \A r \in DOMAIN s[m].parts \ {p} : s2[m].parts[r] = s[m].parts[r]
    BY <1>4 DEF Put
  <2>2. ASSUME NEW n \in DOMAIN s, NEW r, ~(n = m /\ r = p)
        PROVE  /\ r \in DOMAIN s2[n].parts <=> r \in DOMAIN s[n].parts
               /\ r \in DOMAIN s[n].parts => s2[n].parts[r] = s[n].parts[r]
    <3>1. CASE n = m
      BY <2>1, <2>2, <3>1
    <3>2. CASE n # m
      BY <1>4, <3>2
    <3>3. QED
      BY <3>1, <3>2
  <2>3. ASSUME NEW n \in DOMAIN s
        PROVE  s2[n].done = s[n].done /\ DOMAIN s[n].parts \subseteq DOMAIN s2[n].parts
    <3>1. CASE n = m
      BY <1>4, <2>1, <3>1
    <3>2. CASE n # m
      BY <1>4, <3>2
    <3>3. QED
      BY <3>1, <3>2
  <2>4. QED
    BY <2>1, <2>2, <2>3
<1>6. ASSUME EventsHold(q, s)
      PROVE  EventsHold(q2, s2)
  <2>1. ASSUME NEW k \in 1..Len(q)
        PROVE  EventHolds(q2, s2, k)
    <3>1. EventHolds(q, s, k) /\ q2[k] = q[k] /\ (k + 1)..Len(q) \subseteq (k + 1)..Len(q2) /\ Len(q) + 1 \in (k + 1)..Len(q2)
      BY <1>2, <1>6 DEF EventsHold
    <3>2. \A j \in (k + 1)..Len(q) : q2[j] = q[j]
      BY <1>2
    <3>3. CASE \E j \in (k + 1)..Len(q) : q[j].kind = "reset"
      BY <3>1, <3>2, <3>3 DEF EventHolds
    <3>4. CASE q[k].kind = "reset"
      BY <3>1, <3>4 DEF EventHolds
    <3>5. CASE /\ q[k].kind = "message" /\ q[k].id \in DOMAIN s
               /\ \/ s[q[k].id].done = q[k].done
                  \/ \E j \in (k + 1)..Len(q) : q[j].kind = "message" /\ q[j].id = q[k].id
      <4>1. /\ q2[k].kind = "message" /\ q2[k].id \in DOMAIN s2
            /\ \/ s2[q2[k].id].done = q2[k].done
               \/ \E j \in (k + 1)..Len(q2) : q2[j].kind = "message" /\ q2[j].id = q2[k].id
        <5> DEFINE id == q[k].id
                   done == q[k].done
        <5>1. id \in DOMAIN s2 /\ s2[id].done = s[id].done
          BY <1>4, <1>5, <3>5
        <5>2. q2[k].kind = "message" /\ q2[k].id = id /\ q2[k].done = done
          BY <3>1, <3>5
        <5>3. \/ s[id].done = done
              \/ \E j \in (k + 1)..Len(q2) : q2[j].kind = "message" /\ q2[j].id = id
          BY <3>1, <3>2, <3>5
        <5> HIDE DEF id, done
        <5>4. QED
          BY <5>1, <5>2, <5>3
      <4>2. QED
        BY <4>1 DEF EventHolds
    <3>6. CASE /\ q[k].kind = "part" /\ q[k].id \in DOMAIN s /\ q[k].part \in DOMAIN s[q[k].id].parts
               /\ \/ s[q[k].id].parts[q[k].part] = q[k].content
                  \/ \E j \in (k + 1)..Len(q) : q[j].kind = "part" /\ q[j].id = q[k].id /\ q[j].part = q[k].part
      <4>1. CASE q[k].id = m /\ q[k].part = p
        BY <1>1, <1>2, <1>4, <1>5, <3>1, <3>6, <4>1 DEF EventHolds
      <4>2. CASE ~(q[k].id = m /\ q[k].part = p)
        <5>1. /\ q2[k].kind = "part" /\ q2[k].id \in DOMAIN s2 /\ q2[k].part \in DOMAIN s2[q2[k].id].parts
              /\ \/ s2[q2[k].id].parts[q2[k].part] = q2[k].content
                 \/ \E j \in (k + 1)..Len(q2) : q2[j].kind = "part" /\ q2[j].id = q2[k].id /\ q2[j].part = q2[k].part
          <6> DEFINE id == q[k].id
                     pt == q[k].part
                     content == q[k].content
          <6>1. id \in DOMAIN s2 /\ pt \in DOMAIN s2[id].parts /\ s2[id].parts[pt] = s[id].parts[pt]
            BY <1>4, <1>5, <3>6, <4>2
          <6>2. q2[k].kind = "part" /\ q2[k].id = id /\ q2[k].part = pt /\ q2[k].content = content
            BY <3>1, <3>6
          <6>3. \/ s[id].parts[pt] = content
                \/ \E j \in (k + 1)..Len(q2) : q2[j].kind = "part" /\ q2[j].id = id /\ q2[j].part = pt
            BY <3>1, <3>2, <3>6
          <6> HIDE DEF id, pt, content
          <6>4. QED
            BY <6>1, <6>2, <6>3
        <5>2. QED
          BY <5>1 DEF EventHolds
      <4>3. QED
        BY <4>1, <4>2
    <3>7. QED
      BY <3>1, <3>3, <3>4, <3>5, <3>6 DEF EventHolds
  <2>2. EventHolds(q2, s2, Len(q) + 1)
    BY <1>1, <1>2, <1>4, <1>5 DEF EventHolds
  <2>3. QED
    BY <1>2, <2>1, <2>2 DEF EventsHold
<1>7. ASSUME NEW t \in Transcript, NEW d \in SUBSET Message, UpToDate(t, d, q, s)
      PROVE  UpToDate(t, d, q2, s2)
  <2>1. CASE ResetComing(q)
    BY <1>3, <2>1 DEF UpToDate
  <2>2. CASE ~ResetComing(q)
    <3>1. /\ DOMAIN t \subseteq DOMAIN s
          /\ \A n \in DOMAIN s :
               /\ (n \in DOMAIN t /\ t[n].done = s[n].done) \/ MessageComing(q, n)
               /\ n \in d \/ (\A r \in PartID : Agree(Known(t, n), s[n].parts, r) \/ PartComing(q, n, r))
      BY <1>7, <2>2 DEF UpToDate
    <3>2. ASSUME NEW n \in DOMAIN s, NEW r \in PartID, Agree(Known(t, n), s[n].parts, r), ~(n = m /\ r = p)
          PROVE  Agree(Known(t, n), s2[n].parts, r)
      BY <1>5, <3>2 DEF Agree
    <3>3. QED
      BY <1>3, <1>4, <1>5, <3>1, <3>2 DEF UpToDate
  <2>3. QED
    BY <2>1, <2>2
<1>8. QED
  BY <1>6, <1>7 DEF Tells, q2, e

LEMMA ResetTells ==
  ASSUME NEW q \in Seq(Event), NEW s, NEW s2
  PROVE  Tells(q, s, Append(q, Reset), s2)
<1> DEFINE q2 == Append(q, Reset)
<1>1. Reset \in Event /\ Reset.kind = "reset"
  BY EventsAre DEF Reset
<1>2. Len(q) \in Nat /\ Len(q2) = Len(q) + 1 /\ q2[Len(q) + 1].kind = "reset" /\ ResetComing(q2)
  BY <1>1, AppendIs, ComingAfterAppend
<1> HIDE DEF q2
<1>3. \A k \in 1..Len(q2) : EventHolds(q2, s2, k)
  <2> TAKE k \in 1..Len(q2)
  <2>1. k = Len(q) + 1 \/ Len(q) + 1 \in (k + 1)..Len(q2)
    BY <1>2
  <2>2. QED
    BY <1>2, <2>1 DEF EventHolds
<1>4. EventsHold(q2, s2) /\ \A t \in Transcript, d \in SUBSET Message : UpToDate(t, d, q2, s2)
  BY <1>2, <1>3 DEF EventsHold, UpToDate
<1>5. QED
  BY <1>4 DEF Tells, q2

\* A lost connection says nothing of what was under way, but resets.
LEMMA ReconnectTells ==
  ASSUME NEW q, NEW s
  PROVE  <<Reset>> \in Seq(Event) /\ Tells(q, s, <<Reset>>, s)
<1>1. Reset \in Event /\ Reset.kind = "reset"
  BY EventsAre DEF Reset
<1>2. <<Reset>> \in Seq(Event) /\ Len(<<Reset>>) = 1 /\ <<Reset>>[1].kind = "reset"
  BY <1>1
<1>3. EventHolds(<<Reset>>, s, 1) /\ ResetComing(<<Reset>>)
  BY <1>2 DEF EventHolds, ResetComing
<1>4. EventsHold(<<Reset>>, s) /\ \A t \in Transcript, d \in SUBSET Message : UpToDate(t, d, <<Reset>>, s)
  BY <1>2, <1>3 DEF EventsHold, UpToDate
<1>5. QED
  BY <1>2, <1>4 DEF Tells

LEMMA TailIs ==
  ASSUME NEW q \in Seq(Event), q # <<>>
  PROVE  /\ Tail(q) \in Seq(Event) /\ Head(q) = q[1] /\ q[1] \in Event
         /\ Len(q) \in Nat \ {0} /\ Len(Tail(q)) = Len(q) - 1
         /\ \A k \in 1..Len(Tail(q)) : Tail(q)[k] = q[k + 1]
<1>1. /\ Head(q) \in Event /\ Tail(q) \in Seq(Event) /\ Len(Tail(q)) = Len(q) - 1
      /\ Len(q) \in Nat \ {0}
  BY HeadTailProperties, EmptySeq
<1>2. Head(q) = q[1] /\ \A k \in 1..Len(Tail(q)) : Tail(q)[k] = q[k + 1]
  BY <1>1
<1>3. QED
  BY <1>1, <1>2

\* What was under way and is not the first event still is.
LEMMA ComingAfterTail ==
  ASSUME NEW q \in Seq(Event), q # <<>>
  PROVE  /\ ResetComing(q) => q[1].kind = "reset" \/ ResetComing(Tail(q))
         /\ \A m : MessageComing(q, m) => (q[1].kind = "message" /\ q[1].id = m) \/ MessageComing(Tail(q), m)
         /\ \A m, p : PartComing(q, m, p) =>
              (q[1].kind = "part" /\ q[1].id = m /\ q[1].part = p) \/ PartComing(Tail(q), m, p)
<1> DEFINE r == Tail(q)
<1>1. /\ Len(q) \in Nat \ {0} /\ Len(r) = Len(q) - 1
      /\ \A k \in 1..Len(r) : r[k] = q[k + 1]
  BY TailIs
<1> HIDE DEF r
<1>2. \A k \in 1..Len(q) : k = 1 \/ (k - 1 \in 1..Len(r) /\ r[k - 1] = q[k])
  <2> TAKE k \in 1..Len(q)
  <2>1. k = 1 \/ (k - 1 \in 1..Len(r) /\ (k - 1) + 1 = k)
    BY <1>1
  <2>2. QED
    BY <1>1, <2>1
<1>3. ResetComing(q) => q[1].kind = "reset" \/ ResetComing(r)
  BY <1>2 DEF ResetComing
<1>4. ASSUME NEW m, MessageComing(q, m)
      PROVE  (q[1].kind = "message" /\ q[1].id = m) \/ MessageComing(r, m)
  BY <1>2, <1>4 DEF MessageComing
<1>5. ASSUME NEW m, NEW p, PartComing(q, m, p)
      PROVE  (q[1].kind = "part" /\ q[1].id = m /\ q[1].part = p) \/ PartComing(r, m, p)
  BY <1>2, <1>5 DEF PartComing
<1>6. QED
  BY <1>3, <1>4, <1>5 DEF r

\* The first event tells the truth, or what is left puts it right.
LEMMA FirstHolds ==
  ASSUME NEW q \in Seq(Event), q # <<>>, NEW s, EventsHold(q, s)
  PROVE  \/ ResetComing(Tail(q))
         \/ q[1].kind = "reset"
         \/ /\ q[1].kind = "message" /\ q[1].id \in DOMAIN s
            /\ s[q[1].id].done = q[1].done \/ MessageComing(Tail(q), q[1].id)
         \/ /\ q[1].kind = "part" /\ q[1].id \in DOMAIN s /\ q[1].part \in DOMAIN s[q[1].id].parts
            /\ s[q[1].id].parts[q[1].part] = q[1].content \/ PartComing(Tail(q), q[1].id, q[1].part)
<1> DEFINE r == Tail(q)
<1>1. /\ Len(q) \in Nat \ {0} /\ Len(r) = Len(q) - 1
      /\ \A k \in 1..Len(r) : r[k] = q[k + 1]
  BY TailIs
<1> HIDE DEF r
<1>2. \A k \in (1 + 1)..Len(q) : k - 1 \in 1..Len(r) /\ r[k - 1] = q[k]
  <2> TAKE k \in (1 + 1)..Len(q)
  <2>1. k - 1 \in 1..Len(r) /\ (k - 1) + 1 = k
    BY <1>1
  <2>2. QED
    BY <1>1, <2>1
<1>3. EventHolds(q, s, 1)
  BY <1>1 DEF EventsHold
<1>4. (\E k \in (1 + 1)..Len(q) : q[k].kind = "reset") => ResetComing(r)
  BY <1>2 DEF ResetComing
<1>5. \A m : (\E k \in (1 + 1)..Len(q) : q[k].kind = "message" /\ q[k].id = m) => MessageComing(r, m)
  BY <1>2 DEF MessageComing
<1>6. \A m, p : (\E k \in (1 + 1)..Len(q) : q[k].kind = "part" /\ q[k].id = m /\ q[k].part = p) => PartComing(r, m, p)
  BY <1>2 DEF PartComing
<1>7. \/ ResetComing(r)
      \/ q[1].kind = "reset"
      \/ /\ q[1].kind = "message" /\ q[1].id \in DOMAIN s
         /\ s[q[1].id].done = q[1].done \/ MessageComing(r, q[1].id)
      \/ /\ q[1].kind = "part" /\ q[1].id \in DOMAIN s /\ q[1].part \in DOMAIN s[q[1].id].parts
         /\ s[q[1].id].parts[q[1].part] = q[1].content \/ PartComing(r, q[1].id, q[1].part)
  BY <1>3, <1>4, <1>5, <1>6 DEF EventHolds
<1>8. QED
  BY <1>7 DEF r

LEMMA TailHolds ==
  ASSUME NEW q \in Seq(Event), q # <<>>, NEW s, EventsHold(q, s)
  PROVE  EventsHold(Tail(q), s)
<1> DEFINE r == Tail(q)
<1>1. /\ Len(q) \in Nat \ {0} /\ Len(r) = Len(q) - 1
      /\ \A k \in 1..Len(r) : r[k] = q[k + 1]
  BY TailIs
<1> HIDE DEF r
<1>2. ASSUME NEW k \in 1..Len(r)
      PROVE  EventHolds(r, s, k)
  <2>1. EventHolds(q, s, k + 1) /\ r[k] = q[k + 1]
    BY <1>1 DEF EventsHold
  <2>2. \A j \in ((k + 1) + 1)..Len(q) : j - 1 \in (k + 1)..Len(r) /\ r[j - 1] = q[j]
    <3> TAKE j \in ((k + 1) + 1)..Len(q)
    <3>1. j - 1 \in (k + 1)..Len(r) /\ j - 1 \in 1..Len(r) /\ (j - 1) + 1 = j
      BY <1>1
    <3>2. QED
      BY <1>1, <3>1
  <2>3. (\E j \in ((k + 1) + 1)..Len(q) : q[j].kind = "reset") => \E j \in (k + 1)..Len(r) : r[j].kind = "reset"
    BY <2>2
  <2>4. \A m : (\E j \in ((k + 1) + 1)..Len(q) : q[j].kind = "message" /\ q[j].id = m) =>
                 \E j \in (k + 1)..Len(r) : r[j].kind = "message" /\ r[j].id = m
    BY <2>2
  <2>6. CASE \/ \E j \in ((k + 1) + 1)..Len(q) : q[j].kind = "reset"
             \/ q[k + 1].kind = "reset"
    BY <2>1, <2>3, <2>6 DEF EventHolds
  <2>7. CASE /\ q[k + 1].kind = "message" /\ q[k + 1].id \in DOMAIN s
             /\ \/ s[q[k + 1].id].done = q[k + 1].done
                \/ \E j \in ((k + 1) + 1)..Len(q) : q[j].kind = "message" /\ q[j].id = q[k + 1].id
    <3>1. /\ r[k].kind = "message" /\ r[k].id \in DOMAIN s
          /\ \/ s[r[k].id].done = r[k].done
             \/ \E j \in (k + 1)..Len(r) : r[j].kind = "message" /\ r[j].id = r[k].id
      BY <2>1, <2>4, <2>7
    <3>2. QED
      BY <3>1 DEF EventHolds
  <2>8. CASE /\ q[k + 1].kind = "part" /\ q[k + 1].id \in DOMAIN s /\ q[k + 1].part \in DOMAIN s[q[k + 1].id].parts
             /\ \/ s[q[k + 1].id].parts[q[k + 1].part] = q[k + 1].content
                \/ \E j \in ((k + 1) + 1)..Len(q) :
                     q[j].kind = "part" /\ q[j].id = q[k + 1].id /\ q[j].part = q[k + 1].part
    <3>1. /\ r[k].kind = "part" /\ r[k].id \in DOMAIN s /\ r[k].part \in DOMAIN s[r[k].id].parts
          /\ \/ s[r[k].id].parts[r[k].part] = r[k].content
             \/ \E j \in (k + 1)..Len(r) : r[j].kind = "part" /\ r[j].id = r[k].id /\ r[j].part = r[k].part
      <4> DEFINE e == q[k + 1]
      <4>1. r[k] = e
        BY <2>1
      <4>2. /\ e.kind = "part" /\ e.id \in DOMAIN s /\ e.part \in DOMAIN s[e.id].parts
            /\ \/ s[e.id].parts[e.part] = e.content
               \/ \E j \in (k + 1)..Len(r) : r[j].kind = "part" /\ r[j].id = e.id /\ r[j].part = e.part
        <5>1. (\E j \in ((k + 1) + 1)..Len(q) : q[j].kind = "part" /\ q[j].id = e.id /\ q[j].part = e.part) =>
                \E j \in (k + 1)..Len(r) : r[j].kind = "part" /\ r[j].id = e.id /\ r[j].part = e.part
          <6> SUFFICES ASSUME NEW j \in ((k + 1) + 1)..Len(q), q[j].kind = "part" /\ q[j].id = e.id /\ q[j].part = e.part
                       PROVE  \E i \in (k + 1)..Len(r) : r[i].kind = "part" /\ r[i].id = e.id /\ r[i].part = e.part
            OBVIOUS
          <6> HIDE DEF e
          <6>1. j - 1 \in (k + 1)..Len(r) /\ r[j - 1] = q[j]
            BY <2>2
          <6>2. QED
            BY <6>1
        <5>2. QED
          BY <2>8, <5>1, Zenon
      <4> HIDE DEF e
      <4>3. QED
        BY <4>1, <4>2
    <3>2. QED
      BY <3>1 DEF EventHolds
  <2>9. QED
    BY <2>1, <2>6, <2>7, <2>8 DEF EventHolds
<1>3. QED
  BY <1>2 DEF EventsHold, r

\* The first event, of a message, is put into a transcript.
LEMMA MessageSeen ==
  ASSUME NEW q \in Seq(Event), q # <<>>, NEW s \in Transcript, EventsHold(q, s),
         q[1].kind = "message",
         NEW t \in Transcript, NEW d \in SUBSET Message, NEW d2 \in SUBSET Message, d \subseteq d2,
         UpToDate(t, d, q, s),
         NEW t2, t2 = Put(t, q[1].id, [done |-> q[1].done, parts |-> Known(t, q[1].id)])
  PROVE  UpToDate(t2, d2, Tail(q), s)
<1> DEFINE r == Tail(q)
           m == q[1].id
<1>1. /\ ResetComing(q) => ResetComing(r)
      /\ \A n : MessageComing(q, n) => n = m \/ MessageComing(r, n)
      /\ \A n, p : PartComing(q, n, p) => PartComing(r, n, p)
  BY ComingAfterTail
<1>2. \/ ResetComing(r)
      \/ m \in DOMAIN s /\ (s[m].done = q[1].done \/ MessageComing(r, m))
  BY FirstHolds
<1> DEFINE v == [done |-> q[1].done, parts |-> Known(t, q[1].id)]
<1>3. v.done = q[1].done /\ v.parts = Known(t, m) /\ t2 = Put(t, m, v)
  OBVIOUS
<1> HIDE DEF v, r, m
<1>4. DOMAIN t2 = DOMAIN t \cup {m} /\ t2[m] = v /\ \A n \in DOMAIN t : n # m => t2[n] = t[n]
  BY <1>3 DEF Put
<1>5. \A n : Known(t2, n) = Known(t, n)
  <2> TAKE n
  <2>1. CASE n = m
    BY <1>3, <1>4, <2>1 DEF Known
  <2>2. CASE n # m
    BY <1>4, <2>2 DEF Known
  <2>3. QED
    BY <2>1, <2>2
<1>6. CASE ResetComing(r)
  BY <1>6 DEF UpToDate, r
<1>7. CASE ~ResetComing(r)
  <2>1. /\ DOMAIN t \subseteq DOMAIN s
        /\ \A n \in DOMAIN s :
             /\ (n \in DOMAIN t /\ t[n].done = s[n].done) \/ MessageComing(q, n)
             /\ n \in d \/ (\A p \in PartID : Agree(Known(t, n), s[n].parts, p) \/ PartComing(q, n, p))
    BY <1>1, <1>7 DEF UpToDate
  <2>2. m \in DOMAIN s /\ (s[m].done = t2[m].done \/ MessageComing(r, m))
    BY <1>2, <1>3, <1>4, <1>7
  <2>3. \A n \in DOMAIN s : (n \in DOMAIN t2 /\ t2[n].done = s[n].done) \/ MessageComing(r, n)
    BY <1>1, <1>4, <2>1, <2>2
  <2>4. \A n \in DOMAIN s : n \in d2 \/ (\A p \in PartID : Agree(Known(t2, n), s[n].parts, p) \/ PartComing(r, n, p))
    BY <1>1, <1>5, <2>1
  <2>5. DOMAIN t2 \subseteq DOMAIN s
    BY <1>4, <2>1, <2>2
  <2>6. QED
    BY <2>3, <2>4, <2>5 DEF UpToDate, r
<1>8. QED
  BY <1>6, <1>7

\* The first event, of a part of a known message, is put into a transcript.
LEMMA PartSeen ==
  ASSUME NEW q \in Seq(Event), q # <<>>, NEW s \in Transcript, EventsHold(q, s),
         q[1].kind = "part",
         NEW t \in Transcript, NEW d \in SUBSET Message, q[1].id \in DOMAIN t,
         UpToDate(t, d, q, s),
         NEW t2, t2 = Put(t, q[1].id, [done |-> t[q[1].id].done,
                                       parts |-> Put(t[q[1].id].parts, q[1].part, ProjectPart(q[1].content))])
  PROVE  UpToDate(t2, d, Tail(q), s)
<1> DEFINE r == Tail(q)
           m == q[1].id
           p == q[1].part
           x == q[1].content
<1>1. /\ ResetComing(q) => ResetComing(r)
      /\ \A n : MessageComing(q, n) => MessageComing(r, n)
      /\ \A n, o : PartComing(q, n, o) => (n = m /\ o = p) \/ PartComing(r, n, o)
  BY ComingAfterTail
<1>2. \/ ResetComing(r)
      \/ m \in DOMAIN s /\ p \in DOMAIN s[m].parts /\ (s[m].parts[p] = x \/ PartComing(r, m, p))
  BY FirstHolds
<1>3. x \in Content /\ m \in DOMAIN t
  BY TailIs DEF Event
<1> DEFINE v == [done |-> t[m].done, parts |-> Put(t[m].parts, p, ProjectPart(x))]
<1>4. v.done = t[m].done /\ v.parts = Put(t[m].parts, p, ProjectPart(x)) /\ t2 = Put(t, m, v)
  OBVIOUS
<1> HIDE DEF v, r, m, p, x
<1>5. DOMAIN t2 = DOMAIN t /\ t2[m] = v /\ \A n \in DOMAIN t : n # m => t2[n] = t[n]
  BY <1>3, <1>4 DEF Put
<1>6. \A n \in DOMAIN t : t2[n].done = t[n].done
  BY <1>4, <1>5
<1>7. /\ Known(t2, m) = Put(t[m].parts, p, ProjectPart(x)) /\ Known(t, m) = t[m].parts
      /\ \A n : n # m => Known(t2, n) = Known(t, n)
  BY <1>3, <1>4, <1>5 DEF Known
<1>8. /\ p \in DOMAIN Known(t2, m) /\ Known(t2, m)[p] = ProjectPart(x)
      /\ \A o : o # p => /\ o \in DOMAIN Known(t2, m) <=> o \in DOMAIN Known(t, m)
                         /\ o \in DOMAIN Known(t, m) => Known(t2, m)[o] = Known(t, m)[o]
  BY <1>7 DEF Put
<1>9. CASE ResetComing(r)
  BY <1>9 DEF UpToDate, r
<1>10. CASE ~ResetComing(r)
  <2>1. /\ DOMAIN t \subseteq DOMAIN s
        /\ \A n \in DOMAIN s :
             /\ (n \in DOMAIN t /\ t[n].done = s[n].done) \/ MessageComing(q, n)
             /\ n \in d \/ (\A o \in PartID : Agree(Known(t, n), s[n].parts, o) \/ PartComing(q, n, o))
    BY <1>1, <1>10 DEF UpToDate
  <2>2. p \in DOMAIN s[m].parts /\ (s[m].parts[p] = x \/ PartComing(r, m, p))
    BY <1>2, <1>10
  <2>3. Agree(Known(t2, m), s[m].parts, p) \/ PartComing(r, m, p)
    BY <1>3, <1>8, <2>2, ProjectOnce DEF Agree
  <2>4. ASSUME NEW n \in DOMAIN s, NEW o \in PartID, ~(n = m /\ o = p), Agree(Known(t, n), s[n].parts, o)
        PROVE  Agree(Known(t2, n), s[n].parts, o)
    <3>1. CASE n = m
      BY <1>8, <2>4, <3>1 DEF Agree
    <3>2. CASE n # m
      BY <1>7, <2>4, <3>2
    <3>3. QED
      BY <3>1, <3>2
  <2>5. \A n \in DOMAIN s : n \in d \/ (\A o \in PartID : Agree(Known(t2, n), s[n].parts, o) \/ PartComing(r, n, o))
    BY <1>1, <2>1, <2>3, <2>4
  <2>6. \A n \in DOMAIN s : (n \in DOMAIN t2 /\ t2[n].done = s[n].done) \/ MessageComing(r, n)
    BY <1>1, <1>5, <1>6, <2>1
  <2>7. QED
    BY <1>5, <2>1, <2>5, <2>6 DEF UpToDate, r
<1>11. QED
  BY <1>9, <1>10

\* The answer of the server, its view, and the answer for one message.
LEMMA AnswerIsUpToDate ==
  ASSUME NEW s \in Transcript, NEW d, NEW q
  PROVE  UpToDate(s, d, q, s)
BY DEF UpToDate, Agree, Known

LEMMA ViewIsUpToDate ==
  ASSUME NEW s \in Transcript, NEW t \in Transcript, NEW d, NEW q, UpToDate(t, d, q, s)
  PROVE  UpToDate(View(t), d, q, s)
<1>1. CASE ResetComing(q)
  BY <1>1 DEF UpToDate
<1>2. CASE ~ResetComing(q)
  <2>1. /\ DOMAIN t \subseteq DOMAIN s
        /\ \A n \in DOMAIN s :
             /\ (n \in DOMAIN t /\ t[n].done = s[n].done) \/ MessageComing(q, n)
             /\ n \in d \/ (\A p \in PartID : Agree(Known(t, n), s[n].parts, p) \/ PartComing(q, n, p))
    BY <1>2 DEF UpToDate
  <2>2. DOMAIN View(t) = DOMAIN t /\ \A n \in DOMAIN t : View(t)[n].done = t[n].done
    BY ViewIs
  <2>3. ASSUME NEW n \in DOMAIN s, NEW p \in PartID, Agree(Known(t, n), s[n].parts, p)
        PROVE  Agree(Known(View(t), n), s[n].parts, p)
    <3>1. CASE n \in DOMAIN t
      <4>1. /\ DOMAIN Known(View(t), n) = DOMAIN Known(t, n)
            /\ p \in DOMAIN Known(t, n) =>
                 Known(View(t), n)[p] = ProjectPart(Known(t, n)[p]) /\ Known(t, n)[p] \in Content
        BY <2>2, <3>1, ViewIs, TranscriptIs, PartsIs DEF Known
      <4>2. QED
        BY <2>3, <4>1, ProjectOnce DEF Agree
    <3>2. CASE n \notin DOMAIN t
      BY <2>2, <2>3, <3>2 DEF Known
    <3>3. QED
      BY <3>1, <3>2
  <2>4. QED
    BY <2>1, <2>2, <2>3 DEF UpToDate
<1>3. QED
  BY <1>1, <1>2

LEMMA PointReadIsUpToDate ==
  ASSUME NEW s \in Transcript, NEW t \in Transcript, NEW d, NEW q, NEW m \in DOMAIN s, UpToDate(t, d, q, s)
  PROVE  UpToDate(Put(t, m, s[m]), d \ {m}, q, s)
<1> DEFINE t2 == Put(t, m, s[m])
<1>1. CASE ResetComing(q)
  BY <1>1 DEF UpToDate
<1>2. CASE ~ResetComing(q)
  <2>1. /\ DOMAIN t \subseteq DOMAIN s
        /\ \A n \in DOMAIN s :
             /\ (n \in DOMAIN t /\ t[n].done = s[n].done) \/ MessageComing(q, n)
             /\ n \in d \/ (\A p \in PartID : Agree(Known(t, n), s[n].parts, p) \/ PartComing(q, n, p))
    BY <1>2 DEF UpToDate
  <2>2. DOMAIN t2 = DOMAIN t \cup {m} /\ t2[m] = s[m] /\ \A n \in DOMAIN t : n # m => t2[n] = t[n]
    BY DEF Put
  <2> HIDE DEF t2
  <2>3. Known(t2, m) = s[m].parts /\ \A n : n # m => Known(t2, n) = Known(t, n)
    BY <2>2 DEF Known
  <2>4. \A p : Agree(Known(t2, m), s[m].parts, p)
    BY <2>3 DEF Agree
  <2>5. \A n \in DOMAIN s : n \in d \ {m} \/ (\A p \in PartID : Agree(Known(t2, n), s[n].parts, p) \/ PartComing(q, n, p))
    BY <2>1, <2>3, <2>4
  <2>6. \A n \in DOMAIN s : (n \in DOMAIN t2 /\ t2[n].done = s[n].done) \/ MessageComing(q, n)
    BY <2>1, <2>2
  <2>7. QED
    BY <2>1, <2>2, <2>5, <2>6 DEF UpToDate, t2
<1>3. QED
  BY <1>1, <1>2

\* Once the events are in, an up-to-date transcript is the server's.
LEMMA UpToDateIsCurrent ==
  ASSUME NEW s \in Transcript, NEW t \in Transcript, UpToDate(t, {}, <<>>, s), Projected(t)
  PROVE  t = View(s)
<1>1. Len(<<>>) = 0 /\ 1..0 = {}
  BY EmptySeq
<1>2. ~ResetComing(<<>>) /\ (\A m : ~MessageComing(<<>>, m)) /\ (\A m, p : ~PartComing(<<>>, m, p))
  BY <1>1 DEF ResetComing, MessageComing, PartComing
<1>3. /\ DOMAIN t = DOMAIN s
      /\ \A m \in DOMAIN s : t[m].done = s[m].done /\ \A p \in PartID : Agree(t[m].parts, s[m].parts, p)
  BY <1>2 DEF UpToDate, Known
<1>4. ASSUME NEW m \in DOMAIN s
      PROVE  t[m] = View(s)[m]
  <2> DEFINE ps == [p \in DOMAIN s[m].parts |-> ProjectPart(s[m].parts[p])]
  <2>1. t[m] \in MessageValue /\ t[m].parts \in Parts /\ s[m].parts \in Parts
    BY <1>3, TranscriptIs
  <2>2. DOMAIN t[m].parts = DOMAIN s[m].parts
    BY <1>3, <2>1, PartsIs DEF Agree
  <2>3. ASSUME NEW p \in DOMAIN s[m].parts
        PROVE  t[m].parts[p] = ProjectPart(s[m].parts[p])
    <3>1. ProjectPart(t[m].parts[p]) = ProjectPart(s[m].parts[p])
      BY <1>3, <2>1, PartsIs DEF Agree
    <3>2. t[m].parts[p] \in Content /\ t[m].parts[p] # "long"
      BY <1>3, <2>1, <2>2, PartsIs DEF Projected
    <3>3. QED
      BY <3>1, <3>2, ProjectOnce
  <2>4. t[m].parts = ps
    BY <2>1, <2>2, <2>3, PartsIs
  <2>5. t[m] = [done |-> t[m].done, parts |-> t[m].parts]
    BY <2>1 DEF MessageValue
  <2>6. View(s)[m] = [done |-> s[m].done, parts |-> ps]
    BY ViewIs
  <2>7. QED
    BY <1>3, <2>4, <2>5, <2>6
<1>5. /\ t = [m \in DOMAIN t |-> t[m]]
      /\ View(s) = [m \in DOMAIN View(s) |-> View(s)[m]]
      /\ DOMAIN View(s) = DOMAIN s
  BY ViewIs, TranscriptIs
<1>6. QED
  BY <1>3, <1>4, <1>5

-----------------------------------------------------------------------------
\* Part 4: the invariant.

USE WindowAssumption, BoundsAssumption, NoneAssumption

LEMMA HistoryTypes ==
  ASSUME HistoryInv
  PROVE  TypeOK
BY DEF HistoryInv, WorldOK, CacheOK, ReaderOK, ReviewOK, TypeOK

LEMMA EntryIs ==
  ASSUME NEW e \in Entry
  PROVE  /\ e.messages \in Transcript \cup {None} /\ e.dirty \in SUBSET Message /\ e.old \in BOOLEAN
         /\ e # None
BY DEF Entry

LEMMA LoadIs ==
  ASSUME NEW l \in Load
  PROVE  /\ l.kind \in {"asked", "answered", "point"} /\ l.messages \in Transcript
         /\ l.left \in SUBSET Message /\ l.changed \in BOOLEAN /\ l.asOf \in 0..MaxChanges
         /\ l # None
         /\ l = [kind |-> l.kind, messages |-> l.messages, left |-> l.left, changed |-> l.changed, asOf |-> l.asOf]
BY DEF Load

LEMMA NewEntryIs ==
  /\ NewEntry \in Entry /\ NewEntry # None /\ NewEntry.messages = None /\ NewEntry.dirty = {}
  /\ \A q, s : EntryHolds(NewEntry, q, s)
<1>1. NewEntry \in Entry /\ NewEntry.messages = None /\ NewEntry.dirty = {}
  BY DEF NewEntry, Entry
<1>2. QED
  BY <1>1, EntryIs DEF EntryHolds

LEMMA KeptIs ==
  ASSUME NEW t \in Transcript, NEW d \in SUBSET Message, NEW old \in BOOLEAN
  PROVE  /\ Kept(t, d, old) \in Entry /\ Kept(t, d, old) # None
         /\ \A q, s : UpToDate(t, d, q, s) /\ Projected(t) /\ d \subseteq DOMAIN t =>
                        EntryHolds(Kept(t, d, old), q, s)
<1> DEFINE e == [messages |-> t, dirty |-> d, old |-> old]
<1>1. e \in Entry /\ e.messages = t /\ e.dirty = d
  BY DEF Entry
<1>2. Cardinality(DOMAIN t) \in Nat
  BY TranscriptIs, MessagesAreFinite
<1>3. Kept(t, d, old) = IF Total(t) > MaxSize \/ Cardinality(DOMAIN t) > MaxCached THEN NewEntry ELSE e
  BY DEF Kept
<1> HIDE DEF e
<1>4. CASE Kept(t, d, old) = NewEntry
  BY <1>4, NewEntryIs
<1>5. CASE Kept(t, d, old) # NewEntry
  <2>1. Kept(t, d, old) = e /\ ~(Cardinality(DOMAIN t) > MaxCached)
    BY <1>3, <1>5
  <2>2. Cardinality(DOMAIN t) <= Window
    BY <1>2, <2>1
  <2>3. QED
    BY <1>1, <2>1, <2>2, EntryIs DEF EntryHolds
<1>6. QED
  BY <1>4, <1>5

LEMMA FullLoadIs ==
  ASSUME changes \in 0..MaxChanges
  PROVE  /\ FullLoad \in Load /\ FullLoad # None /\ FullLoad.kind = "asked" /\ FullLoad.asOf = changes
         /\ \A q, s, n : LoadHolds(FullLoad, q, s, n)
<1>1. FullLoad.kind = "asked" /\ FullLoad.asOf = changes /\ FullLoad.left = {} /\ FullLoad \in Load
  BY NoMessages DEF FullLoad, Load
<1>2. QED
  BY <1>1, LoadIs DEF LoadHolds

LEMMA TouchedIs ==
  ASSUME load \in Load \cup {None}
  PROVE  /\ Touched \in Load \cup {None}
         /\ Touched = None <=> load = None
         /\ load # None => /\ Touched.kind = load.kind /\ Touched.messages = load.messages
                           /\ Touched.left = load.left /\ Touched.asOf = load.asOf /\ Touched.changed
<1> DEFINE b == TRUE
           l == [kind |-> load.kind, messages |-> load.messages, left |-> load.left, changed |-> b, asOf |-> load.asOf]
<1>1. CASE load = None
  BY <1>1 DEF Touched
<1>2. CASE load # None
  <2>1. load \in Load
    BY <1>2
  <2>2. Touched = [load EXCEPT !.changed = b]
    BY <1>2 DEF Touched
  <2>3. b \in BOOLEAN /\ (b <=> TRUE)
    OBVIOUS
  <2> HIDE DEF b
  <2>4. Touched = l
    BY <2>1, <2>2, LoadIs
  <2>5. l \in Load
    BY <2>1, <2>3, LoadIs DEF Load
  <2>6. Touched # None
    BY <2>4, <2>5
  <2>7. QED
    BY <1>2, <2>3, <2>4, <2>5, <2>6
<1>3. QED
  BY <1>1, <1>2

\* A load that was touched says nothing of the present.
LEMMA TouchedHolds ==
  ASSUME NEW q, NEW s, NEW n, NEW r, load \in Load \cup {None}, LoadHolds(load, q, s, n)
  PROVE  /\ LoadHolds(Touched, r, s, n)
         /\ \A c : CursorHolds(c, load, s, n) => CursorHolds(c, Touched, s, n)
BY TouchedIs DEF LoadHolds, CursorHolds

LEMMA WithoutLoad ==
  ASSUME NEW q, NEW s, NEW n
  PROVE  /\ LoadHolds(None, q, s, n)
         /\ \A c, l : CursorHolds(c, l, s, n) => CursorHolds(c, None, s, n)
         /\ EntryHolds(None, q, s)
BY DEF LoadHolds, CursorHolds, EntryHolds

\* The session changed, or the connection was lost, and events tell of it.
Grows ==
  /\ server' \in Transcript /\ made' \in Seq(0..MaxParts) /\ events' \in Seq(Event)
  /\ changes' \in 0..MaxChanges /\ changes <= changes'
  /\ Len(made) <= Len(made') /\ DOMAIN server' \subseteq 1..Len(made')
  /\ \A m \in DOMAIN server' : m \in DOMAIN server \/ m > Len(made)
  /\ Tells(events, server, events', server')
  /\ faults' \in 0..MaxFaults /\ UNCHANGED <<pass, checkpoint, reviewer>>

LEMMA EntryStays ==
  ASSUME NEW e \in Entry \cup {None}, NEW q, NEW s, NEW q2, NEW s2, Tells(q, s, q2, s2), EntryHolds(e, q, s)
  PROVE  EntryHolds(e, q2, s2)
BY EntryIs DEF EntryHolds, Tells

LEMMA LoadStays ==
  ASSUME NEW l \in Load \cup {None}, NEW q, NEW s \in Transcript, NEW n \in Nat,
         NEW q2, NEW s2 \in Transcript, NEW n2 \in Nat,
         l # None /\ ~l.changed => Tells(q, s, q2, s2),
         n <= n2, \A m \in DOMAIN s2 : m \in DOMAIN s \/ m > n,
         LoadHolds(l, q, s, n)
  PROVE  LoadHolds(l, q2, s2, n2)
<1> SUFFICES ASSUME l # None, l.kind # "asked"
             PROVE  LoadHolds(l, q2, s2, n2)
  BY DEF LoadHolds
<1>1. /\ ~l.changed => UpToDate(l.messages, l.left, q, s)
      /\ l.left \subseteq DOMAIN l.messages
      /\ l.kind # "point" => l.left = {}
      /\ Cardinality(DOMAIN l.messages) <= Window \/ (l.kind = "answered" /\ Whole(l.messages, DOMAIN s, n))
  BY DEF LoadHolds
<1>2. l.messages \in Transcript /\ l.left \in SUBSET Message
  BY LoadIs
<1>3. ~l.changed => UpToDate(l.messages, l.left, q2, s2)
  BY <1>1, <1>2 DEF Tells
<1>4. ASSUME Whole(l.messages, DOMAIN s, n)
      PROVE  Whole(l.messages, DOMAIN s2, n2)
  <2>1. DOMAIN l.messages \subseteq 1..n
    BY <1>4 DEF Whole
  <2>2. DOMAIN l.messages \subseteq 1..n2
    BY <2>1
  <2>3. ASSUME NEW m \in DOMAIN s2, NEW last \in DOMAIN l.messages, m <= last
        PROVE  m \in DOMAIN l.messages
    <3>1. last \in 1..n
      BY <2>1
    <3>2. CASE m \in DOMAIN s
      BY <1>4, <2>3, <3>2 DEF Whole
    <3>3. CASE m > n
      <4>1. m \in Nat
        BY TranscriptIs DEF Message
      <4>2. QED
        BY <2>3, <3>1, <3>3, <4>1
    <3>4. QED
      BY <3>2, <3>3
  <2>4. QED
    BY <2>2, <2>3 DEF Whole
<1>5. QED
  BY <1>1, <1>3, <1>4 DEF LoadHolds

LEMMA CursorStays ==
  ASSUME NEW c, NEW l, NEW s \in Transcript, NEW n \in Nat, NEW s2 \in Transcript, NEW n2 \in Nat,
         n <= n2, \A m \in DOMAIN s2 : m \in DOMAIN s \/ m > n,
         CursorHolds(c, l, s, n)
  PROVE  CursorHolds(c, l, s2, n2)
<1> SUFFICES ASSUME c.prefix # None
             PROVE  CursorHolds(c, l, s2, n2)
  BY DEF CursorHolds
<1>1. /\ c.last \in 1..n
      /\ ~Skips(c, DOMAIN s)
      /\ l # None /\ l.kind = "answered" /\ Cardinality(DOMAIN l.messages) > Window => ~Skips(c, DOMAIN l.messages)
  BY DEF CursorHolds
<1>2. c.last \in 1..n2
  BY <1>1
<1>3. \A m \in DOMAIN s2 : m \in Nat
  BY TranscriptIs DEF Message
<1>4. ~Skips(c, DOMAIN s2)
  BY <1>1, <1>3 DEF Skips
<1>5. QED
  BY <1>1, <1>2, <1>4 DEF CursorHolds

\* Steps of the session.

LEMMA MadeIs ==
  ASSUME WorldOK
  PROVE  Len(made) \in Nat /\ NextId = Len(made) + 1 /\ NextId \notin DOMAIN server
BY LenProperties DEF WorldOK, NextId

LEMMA TwoEvents ==
  ASSUME NEW q \in Seq(Event), NEW e \in Event, NEW f \in Event
  PROVE  q \o <<e, f>> = Append(Append(q, e), f)
<1>1. <<e, f>> \in Seq(Event) /\ Len(<<e, f>>) = 2 /\ <<e, f>>[1] = e /\ <<e, f>>[2] = f
  OBVIOUS
<1>2. /\ q \o <<e, f>> \in Seq(Event) /\ Len(q \o <<e, f>>) = Len(q) + 2
      /\ \A i \in 1..(Len(q) + 2) : (q \o <<e, f>>)[i] = IF i <= Len(q) THEN q[i] ELSE <<e, f>>[i - Len(q)]
  BY <1>1, ConcatProperties
<1> DEFINE r == Append(q, e)
<1>3. /\ r \in Seq(Event) /\ Len(q) \in Nat /\ Len(r) = Len(q) + 1
      /\ r[Len(q) + 1] = e /\ \A i \in 1..Len(q) : r[i] = q[i]
  BY AppendIs
<1> HIDE DEF r
<1>4. /\ Append(r, f) \in Seq(Event) /\ Len(Append(r, f)) = Len(q) + 2
      /\ Append(r, f)[Len(q) + 2] = f /\ \A i \in 1..Len(r) : Append(r, f)[i] = r[i]
  BY <1>3, AppendIs
<1>5. ASSUME NEW i \in 1..(Len(q) + 2)
      PROVE  (q \o <<e, f>>)[i] = Append(r, f)[i]
  <2>1. CASE i <= Len(q)
    BY <1>2, <1>3, <1>4, <2>1
  <2>2. CASE i = Len(q) + 1
    <3>1. ~(i <= Len(q)) /\ i - Len(q) = 1 /\ i \in 1..Len(r)
      BY <1>3, <2>2
    <3>2. (q \o <<e, f>>)[i] = <<e, f>>[1]
      BY <1>2, <3>1
    <3>3. QED
      BY <1>1, <1>3, <1>4, <2>2, <3>1, <3>2
  <2>3. CASE i = Len(q) + 2
    <3>1. ~(i <= Len(q)) /\ i - Len(q) = 2
      BY <1>3, <2>3
    <3>2. (q \o <<e, f>>)[i] = <<e, f>>[2]
      BY <1>2, <3>1
    <3>3. QED
      BY <1>1, <1>4, <2>3, <3>2
  <2>4. QED
    BY <1>3, <2>1, <2>2, <2>3
<1>6. QED
  BY <1>2, <1>4, <1>5, SeqEqual DEF r

\* What a change amounts to.
LEMMA ChangeGrows ==
  ASSUME WorldOK, NEW messages \in Transcript, NEW new, Change(messages, new),
         events \o new \in Seq(Event), Tells(events, server, events \o new, messages),
         made' \in Seq(0..MaxParts), Len(made) <= Len(made'),
         DOMAIN messages \subseteq 1..Len(made'),
         \A m \in DOMAIN messages : m \in DOMAIN server \/ m > Len(made)
  PROVE  Grows
BY DEF Change, WorldOK, Grows

LEMMA ServerStepGrows ==
  ASSUME WorldOK, ServerStep
  PROVE  Grows /\ (UNCHANGED cache \/ UserMessage)
<1>1. /\ server \in Transcript /\ made \in Seq(0..MaxParts) /\ events \in Seq(Event)
      /\ Len(made) \in Nat /\ DOMAIN server \subseteq 1..Len(made)
      /\ NextId = Len(made) + 1 /\ NextId \notin DOMAIN server
  BY MadeIs DEF WorldOK
<1>2. ASSUME NEW m \in DOMAIN server
      PROVE  m \in Message /\ server[m] \in MessageValue /\ server[m].parts \in Parts /\ server[m].done \in BOOLEAN
  BY <1>1, TranscriptIs
<1>3. CASE AssistantMessage
  <2> DEFINE b == FALSE
             messages == Put(server, NextId, [done |-> b, parts |-> <<>>])
  <2>1. NextId \in Message /\ b \in BOOLEAN /\ <<>> = Known(server, NextId)
    BY <1>1, <1>3 DEF AssistantMessage, Known
  <2>2. Change(messages, <<MessageEvent(NextId, b)>>) /\ UNCHANGED cache /\ made' = Append(made, 0)
    BY <1>3 DEF AssistantMessage
  <2> HIDE DEF b
  <2>3. [done |-> b, parts |-> <<>>] \in MessageValue
    BY <2>1, NoParts DEF MessageValue
  <2>4. messages \in Transcript /\ DOMAIN messages = DOMAIN server \cup {NextId}
    BY <1>1, <2>1, <2>3, PutTranscript, PutIs
  <2>5. events \o <<MessageEvent(NextId, b)>> = Append(events, MessageEvent(NextId, b))
        /\ Append(events, MessageEvent(NextId, b)) \in Seq(Event)
    BY <1>1, <2>1, EventsAre, AppendIs
  <2>6. Tells(events, server, Append(events, MessageEvent(NextId, b)), messages)
    BY <1>1, <2>1, MessageTells
  <2>7. made' \in Seq(0..MaxParts) /\ Len(made') = Len(made) + 1
    BY <1>1, <2>2, AppendProperties
  <2> HIDE DEF messages
  <2>8. /\ DOMAIN messages \subseteq 1..Len(made') /\ Len(made) <= Len(made')
        /\ \A m \in DOMAIN messages : m \in DOMAIN server \/ m > Len(made)
    BY <1>1, <2>4, <2>7
  <2>9. QED
    BY <2>2, <2>4, <2>5, <2>6, <2>7, <2>8, ChangeGrows
<1>4. CASE UserMessage
  <2> DEFINE b == TRUE
             text == [p \in {1} |-> "done"]
             begun == Put(server, NextId, [done |-> b, parts |-> <<>>])
             messages == Put(server, NextId, [done |-> b, parts |-> text])
             e1 == MessageEvent(NextId, b)
             e2 == PartEvent(NextId, 1, "done")
  <2>1. NextId \in Message /\ b \in BOOLEAN /\ <<>> = Known(server, NextId)
    BY <1>1, <1>4 DEF UserMessage, Known
  <2>2. Change(messages, <<e1, e2>>) /\ made' = Append(made, 1)
    BY <1>4 DEF UserMessage
  <2>3. 1 \in PartID /\ "done" \in Content
    BY DEF PartID, Content
  <2>4. text \in Parts /\ text = Put(<<>>, 1, "done")
    <3>1. text = Put(<<>>, 1, "done")
      BY NoParts DEF Put
    <3>2. QED
      BY <2>3, <3>1, NoParts, PutParts
  <2> HIDE DEF b, text
  <2>5. [done |-> b, parts |-> <<>>] \in MessageValue /\ [done |-> b, parts |-> text] \in MessageValue
    BY <2>1, <2>4, NoParts DEF MessageValue
  <2>6. /\ begun \in Transcript /\ messages \in Transcript
        /\ DOMAIN begun = DOMAIN server \cup {NextId} /\ DOMAIN messages = DOMAIN server \cup {NextId}
        /\ begun[NextId] = [done |-> b, parts |-> <<>>]
    <3>1. begun \in Transcript /\ messages \in Transcript
      BY <1>1, <2>1, <2>5, PutTranscript
    <3>2. QED
      BY <3>1 DEF Put
  <2>7. messages = Put(begun, NextId, [done |-> begun[NextId].done, parts |-> Put(begun[NextId].parts, 1, "done")])
    <3>1. begun[NextId].done = b /\ begun[NextId].parts = <<>>
      BY <2>6
    <3>2. [done |-> begun[NextId].done, parts |-> Put(begun[NextId].parts, 1, "done")] = [done |-> b, parts |-> text]
      BY <2>4, <3>1
    <3> DEFINE v == [done |-> b, parts |-> text]
    <3>3. Put(server, NextId, v) = Put(Put(server, NextId, [done |-> b, parts |-> <<>>]), NextId, v)
      BY DEF Put
    <3>4. QED
      BY <3>2, <3>3
  <2>8. e1 \in Event /\ e2 \in Event
    BY <2>1, <2>3, EventsAre
  <2>9. Tells(events, server, Append(events, e1), begun)
    BY <1>1, <2>1, MessageTells
  <2>10. Append(events, e1) \in Seq(Event) /\ Append(Append(events, e1), e2) \in Seq(Event)
    BY <1>1, <2>8, AppendIs
  <2>11. Tells(Append(events, e1), begun, Append(Append(events, e1), e2), messages)
    BY <2>3, <2>6, <2>7, <2>10, PartTells
  <2>12. Tells(events, server, Append(Append(events, e1), e2), messages)
    BY <2>9, <2>11 DEF Tells
  <2>13. events \o <<e1, e2>> = Append(Append(events, e1), e2)
    BY <1>1, <2>8, TwoEvents
  <2>14. made' \in Seq(0..MaxParts) /\ Len(made') = Len(made) + 1
    BY <1>1, <2>2, AppendProperties
  <2> HIDE DEF messages, begun, e1, e2
  <2>15. /\ DOMAIN messages \subseteq 1..Len(made') /\ Len(made) <= Len(made')
         /\ \A m \in DOMAIN messages : m \in DOMAIN server \/ m > Len(made)
    BY <1>1, <2>6, <2>14
  <2>16. QED
    BY <1>4, <2>2, <2>6, <2>10, <2>12, <2>13, <2>14, <2>15, ChangeGrows
<1>5. ASSUME NEW m \in DOMAIN server, Complete(m)
      PROVE  Grows /\ UNCHANGED cache
  <2> DEFINE b == TRUE
             messages == [server EXCEPT ![m].done = TRUE]
             e == MessageEvent(m, b)
  <2>1. Change(messages, <<e>>) /\ UNCHANGED cache /\ made' = made /\ b \in BOOLEAN
    BY <1>5 DEF Complete
  <2>2. messages \in Transcript /\ messages = Put(server, m, [done |-> b, parts |-> server[m].parts])
    BY <1>1, DoneChanged
  <2> HIDE DEF b, messages
  <2>3. DOMAIN messages = DOMAIN server
    BY <2>2 DEF Put
  <2>4. e \in Event /\ server[m].parts = Known(server, m)
    BY <1>2, <2>1, EventsAre DEF Known
  <2>5. events \o <<e>> = Append(events, e) /\ Append(events, e) \in Seq(Event)
    BY <1>1, <2>4, AppendIs
  <2>6. Tells(events, server, Append(events, e), messages)
    BY <1>1, <1>2, <2>1, <2>2, <2>4, MessageTells
  <2>7. /\ made' \in Seq(0..MaxParts) /\ Len(made) <= Len(made') /\ DOMAIN messages \subseteq 1..Len(made')
        /\ \A n \in DOMAIN messages : n \in DOMAIN server \/ n > Len(made)
    BY <1>1, <2>1, <2>3
  <2>8. QED
    BY <2>1, <2>2, <2>5, <2>6, <2>7, ChangeGrows
<1>6. ASSUME NEW m \in DOMAIN server, NEW p \in PartID, NEW x \in Content, Write(m, p, x),
             made' \in Seq(0..MaxParts), Len(made') = Len(made)
      PROVE  Grows /\ UNCHANGED cache
  <2> DEFINE messages == [server EXCEPT ![m].parts = Put(server[m].parts, p, x)]
             e == PartEvent(m, p, x)
  <2>1. Change(messages, <<e>>) /\ UNCHANGED cache
    BY <1>6 DEF Write
  <2>2. Put(server[m].parts, p, x) \in Parts
    BY <1>2, PutParts
  <2>3. messages \in Transcript /\ messages = Put(server, m, [done |-> server[m].done, parts |-> Put(server[m].parts, p, x)])
    BY <1>1, <2>2, PartsChanged
  <2> HIDE DEF messages
  <2>4. DOMAIN messages = DOMAIN server
    BY <2>3 DEF Put
  <2>5. e \in Event
    BY <1>2, EventsAre
  <2>6. events \o <<e>> = Append(events, e) /\ Append(events, e) \in Seq(Event)
    BY <1>1, <2>5, AppendIs
  <2>7. Tells(events, server, Append(events, e), messages)
    BY <1>1, <2>3, PartTells
  <2>8. /\ made' \in Seq(0..MaxParts) /\ Len(made) <= Len(made') /\ DOMAIN messages \subseteq 1..Len(made')
        /\ \A n \in DOMAIN messages : n \in DOMAIN server \/ n > Len(made)
    BY <1>1, <1>6, <2>4
  <2>9. QED
    BY <2>1, <2>3, <2>6, <2>7, <2>8, ChangeGrows
<1>7. ASSUME NEW m \in DOMAIN server, NEW x \in Content, AddPart(m, x)
      PROVE  Grows /\ UNCHANGED cache
  <2>1. m \in 1..Len(made)
    BY <1>1
  <2>2. made[m] \in 0..MaxParts /\ made[m] < MaxParts
    BY <1>1, <1>7, <2>1, ElementOfSeq DEF AddPart
  <2>3. made[m] + 1 \in PartID /\ made[m] + 1 \in 0..MaxParts
    BY <2>2 DEF PartID
  <2>4. made' = [made EXCEPT ![m] = made[m] + 1] /\ Write(m, made[m] + 1, x)
    BY <1>7 DEF AddPart
  <2>5. made' \in Seq(0..MaxParts) /\ Len(made') = Len(made)
    BY <1>1, <2>1, <2>3, <2>4, ExceptSeq
  <2>6. QED
    BY <1>6, <2>3, <2>4, <2>5
<1>8. ASSUME NEW m \in DOMAIN server, NEW p \in DOMAIN server[m].parts, NEW x \in Content, EditPart(m, p, x)
      PROVE  Grows /\ UNCHANGED cache
  <2>1. p \in PartID
    BY <1>2, PartsIs
  <2>2. made' = made /\ Write(m, p, x)
    BY <1>8 DEF EditPart
  <2>3. QED
    BY <1>1, <1>6, <2>1, <2>2
<1>9. ASSUME NEW messages \in Transcript, DOMAIN messages \subseteq DOMAIN server, Change(messages, <<Reset>>), made' = made
      PROVE  Grows
  <2>1. events \o <<Reset>> = Append(events, Reset) /\ Append(events, Reset) \in Seq(Event)
    BY <1>1, EventsAre, AppendIs
  <2>2. Tells(events, server, Append(events, Reset), messages)
    BY <1>1, ResetTells
  <2>3. /\ made' \in Seq(0..MaxParts) /\ Len(made) <= Len(made') /\ DOMAIN messages \subseteq 1..Len(made')
        /\ \A n \in DOMAIN messages : n \in DOMAIN server \/ n > Len(made)
    BY <1>1, <1>9
  <2>4. QED
    BY <1>9, <2>1, <2>2, <2>3, ChangeGrows
<1>10. ASSUME NEW m \in DOMAIN server, NEW p \in DOMAIN server[m].parts, RemovePart(m, p)
       PROVE  Grows /\ UNCHANGED cache
  <2> DEFINE ps == Restrict(server[m].parts, DOMAIN server[m].parts \ {p})
  <2>1. ps \in [DOMAIN server[m].parts \ {p} -> Content] /\ DOMAIN server[m].parts \ {p} \in SUBSET PartID
    BY <1>2, PartsIs DEF Restrict
  <2>2. ps \in Parts
    BY <2>1, IsParts
  <2>3. Change([server EXCEPT ![m].parts = ps], <<Reset>>) /\ UNCHANGED <<made, cache>>
    BY <1>10 DEF RemovePart
  <2> HIDE DEF ps
  <2>4. [server EXCEPT ![m].parts = ps] \in Transcript
    BY <1>1, <2>2, PartsChanged
  <2>5. DOMAIN [server EXCEPT ![m].parts = ps] = DOMAIN server
    OBVIOUS
  <2>6. QED
    BY <1>9, <2>3, <2>4, <2>5
<1>11. ASSUME NEW m \in DOMAIN server, RemoveMessage(m)
       PROVE  Grows /\ UNCHANGED cache
  <2> DEFINE messages == Restrict(server, DOMAIN server \ {m})
  <2>1. messages \in [DOMAIN server \ {m} -> MessageValue] /\ DOMAIN server \ {m} \in SUBSET Message
    BY <1>2 DEF Restrict
  <2>2. messages \in Transcript /\ DOMAIN messages \subseteq DOMAIN server
    BY <2>1, IsTranscript
  <2>3. Change(messages, <<Reset>>) /\ UNCHANGED <<made, cache>>
    BY <1>11 DEF RemoveMessage
  <2> HIDE DEF messages
  <2>4. QED
    BY <1>9, <2>2, <2>3
<1>12. QED
  BY <1>3, <1>4, <1>5, <1>7, <1>8, <1>10, <1>11 DEF ServerStep

\* A session that changed leaves what was right so.
LEMMA GrowsWorld ==
  ASSUME WorldOK, Grows
  PROVE  WorldOK'
<1>1. EventsHold(events', server')
  BY DEF WorldOK, Grows, Tells
<1>2. QED
  BY <1>1 DEF WorldOK, Grows

LEMMA GrowsReader ==
  ASSUME WorldOK, ReaderOK, Grows, load' = load \/ (load' = Touched /\ load \in Load \cup {None})
  PROVE  ReaderOK'
<1>1. load # None => load' # None /\ load'.asOf = load.asOf
  BY TouchedIs
<1>2. checkpoint' = checkpoint /\ pass' = pass /\ changes <= changes' /\ changes' \in Nat /\ changes \in Nat /\ checkpoint.since \in Nat
  BY DEF WorldOK, ReaderOK, Grows
<1>3. checkpoint'.since <= changes'
  BY <1>2 DEF ReaderOK
<1>4. QED
  BY <1>1, <1>2, <1>3 DEF ReaderOK

LEMMA GrowsReview ==
  ASSUME WorldOK, ReviewOK, CacheOK, Grows, load' = load \/ load' = Touched
  PROVE  ReviewOK'
<1>1. /\ server \in Transcript /\ server' \in Transcript /\ Len(made) \in Nat /\ Len(made') \in Nat
      /\ Len(made) <= Len(made') /\ \A m \in DOMAIN server' : m \in DOMAIN server \/ m > Len(made)
  BY LenProperties DEF WorldOK, Grows
<1>2. review' = review /\ cursor' = cursor /\ reviewed' = reviewed
  BY DEF Grows, reviewer
<1>3. ASSUME NEW c, CursorHolds(c, load, server, Len(made))
      PROVE  CursorHolds(c, load', server', Len(made'))
  <2>1. CursorHolds(c, load', server, Len(made))
    BY <1>3, TouchedHolds DEF CacheOK
  <2>2. QED
    BY <1>1, <2>1, CursorStays
<1>4. QED
  BY <1>2, <1>3 DEF ReviewOK

LEMMA GrowsCache ==
  ASSUME WorldOK, CacheOK, Grows, UNCHANGED cache
  PROVE  CacheOK'
<1>1. /\ server \in Transcript /\ server' \in Transcript /\ Len(made) \in Nat /\ Len(made') \in Nat
      /\ Len(made) <= Len(made') /\ \A m \in DOMAIN server' : m \in DOMAIN server \/ m > Len(made)
      /\ Tells(events, server, events', server')
  BY LenProperties DEF WorldOK, Grows
<1>2. entry' = entry /\ load' = load
  BY DEF cache
<1>3. EntryHolds(entry, events', server')
  BY <1>1, EntryStays DEF CacheOK
<1>4. LoadHolds(load, events', server', Len(made'))
  BY <1>1, LoadStays DEF CacheOK
<1>5. QED
  BY <1>2, <1>3, <1>4 DEF CacheOK


LEMMA MoreDirty ==
  ASSUME NEW t, NEW d, NEW d2, d \subseteq d2, NEW q, NEW s, UpToDate(t, d, q, s)
  PROVE  UpToDate(t, d2, q, s)
BY DEF UpToDate

LEMMA PutProjected ==
  ASSUME NEW t, Projected(t), NEW m, NEW v, \A p \in DOMAIN v.parts : v.parts[p] # "long"
  PROVE  Projected(Put(t, m, v))
BY DEF Projected, Put

\* An event during a load: what is loaded no longer counts.
LEMMA TouchedCache ==
  ASSUME WorldOK, CacheOK, Grows \/ UNCHANGED <<server, made>>, NEW q
  PROVE  /\ Touched \in Load \cup {None} /\ (Touched = None <=> load = None)
         /\ LoadHolds(Touched, q, server', Len(made'))
<1>1. /\ server \in Transcript /\ server' \in Transcript /\ Len(made) \in Nat /\ Len(made') \in Nat
      /\ Len(made) <= Len(made') /\ \A m \in DOMAIN server' : m \in DOMAIN server \/ m > Len(made)
  BY LenProperties DEF WorldOK, Grows
<1>2. Touched \in Load \cup {None} /\ (Touched = None <=> load = None) /\ (Touched # None => Touched.changed)
  BY TouchedIs DEF CacheOK
<1>3. LoadHolds(Touched, q, server, Len(made))
  BY TouchedHolds DEF CacheOK
<1> DEFINE l == Touched
<1>4. l \in Load \cup {None} /\ LoadHolds(l, q, server, Len(made))
      /\ (l # None /\ ~l.changed => Tells(q, server, q, server'))
  BY <1>2, <1>3
<1> HIDE DEF l
<1>5. LoadHolds(l, q, server', Len(made'))
  BY <1>1, <1>4, LoadStays
<1>6. QED
  BY <1>2, <1>5 DEF l

LEMMA UserMessageCache ==
  ASSUME WorldOK, CacheOK, Grows, UserMessage
  PROVE  CacheOK' /\ (load' = load \/ load' = Touched)
<1> DEFINE b == TRUE
           text == [p \in {1} |-> "done"]
           v == [done |-> b, parts |-> text]
<1>1. NextId \in Message /\ server' = Put(server, NextId, v) /\ ObserveMessage(NextId, b, text)
  BY DEF UserMessage, Change
<1>2. text \in Parts /\ \A p \in DOMAIN text : text[p] # "long"
  BY IsParts DEF PartID, Content
<1>3. b \in BOOLEAN
  OBVIOUS
<1> HIDE DEF b, text
<1>4. v \in MessageValue /\ v.parts = text
  BY <1>2, <1>3 DEF MessageValue
<1>5. NextId \in DOMAIN server' /\ server'[NextId] = v
  <2> HIDE DEF v
  <2>1. QED
    BY <1>1 DEF Put
<1>6. /\ server' \in Transcript /\ Tells(events, server, events', server')
      /\ entry \in Entry \cup {None} /\ load \in Load \cup {None} /\ EntryHolds(entry, events, server)
  BY DEF Grows, CacheOK
<1>7. CASE entry = None
  <2>1. UNCHANGED cache
    BY <1>1, <1>7 DEF ObserveMessage
  <2>2. QED
    BY <2>1, GrowsCache DEF cache
<1>8. CASE entry # None
  <2>1. load' = Touched /\ entry' = IF entry.messages = None THEN entry ELSE Updated(NextId, b, text)
    BY <1>1, <1>8 DEF ObserveMessage
  <2>2. load' \in Load \cup {None} /\ LoadHolds(load', events', server', Len(made'))
    BY <2>1, TouchedCache
  <2>3. CASE entry.messages = None
    <3>1. entry' = entry /\ EntryHolds(entry, events', server')
      BY <1>6, <2>1, <2>3, EntryStays
    <3>2. QED
      BY <1>6, <1>8, <2>1, <2>2, <3>1 DEF CacheOK
  <2>4. CASE entry.messages # None
    <3> DEFINE t == entry.messages
               d == entry.dirty
               t2 == Put(t, NextId, v)
    <3>1. entry \in Entry /\ t \in Transcript /\ d \in SUBSET Message /\ entry.old \in BOOLEAN
      BY <1>6, <1>8, <2>4, EntryIs
    <3>2. UpToDate(t, d, events, server) /\ Projected(t) /\ d \subseteq DOMAIN t
      BY <1>6, <1>8, <2>4 DEF EntryHolds
    <3>3. UpToDate(t, d, events', server')
      BY <1>6, <3>1, <3>2 DEF Tells
    <3>4. entry' = Kept(t2, d, entry.old)
      <4>1. text # None
        BY <1>2
      <4>2. Updated(NextId, b, text) = Kept(t2, d, entry.old)
        BY <4>1 DEF Updated
      <4>3. QED
        BY <2>1, <2>4, <4>2
    <3>5. UpToDate(t2, d, events', server')
      <4>1. UpToDate(Put(t, NextId, server'[NextId]), d \ {NextId}, events', server')
        BY <1>5, <1>6, <3>1, <3>3, PointReadIsUpToDate
      <4>2. QED
        BY <1>5, <4>1, MoreDirty
    <3>6. t2 \in Transcript /\ Projected(t2) /\ d \subseteq DOMAIN t2
      <4>1. t2 \in Transcript
        BY <1>1, <1>4, <3>1, PutTranscript
      <4>2. Projected(t2)
        BY <1>2, <1>4, <3>2, PutProjected
      <4> HIDE DEF v
      <4>3. d \subseteq DOMAIN t2
        BY <3>2 DEF Put
      <4>4. QED
        BY <4>1, <4>2, <4>3
    <3> DEFINE old == entry.old
    <3> HIDE DEF t2, d, t
    <3>7. entry' \in Entry /\ entry' # None /\ EntryHolds(entry', events', server')
      BY <3>1, <3>4, <3>5, <3>6, KeptIs
    <3>8. QED
      BY <2>1, <2>2, <3>7 DEF CacheOK
  <2>5. QED
    BY <2>3, <2>4
<1>9. QED
  BY <1>7, <1>8

LEMMA ServerStepHolds ==
  ASSUME HistoryInv, ServerStep
  PROVE  HistoryInv'
<1>1. Grows /\ (UNCHANGED cache \/ UserMessage) /\ WorldOK /\ CacheOK /\ ReaderOK /\ ReviewOK
  BY ServerStepGrows DEF HistoryInv
<1>2. CacheOK' /\ (load' = load \/ load' = Touched)
  <2>1. CASE UNCHANGED cache
    BY <1>1, <2>1, GrowsCache DEF cache
  <2>2. CASE UserMessage
    BY <1>1, <2>2, UserMessageCache
  <2>3. QED
    BY <1>1, <2>1, <2>2
<1>3. WorldOK' /\ ReviewOK'
  BY <1>1, <1>2, GrowsWorld, GrowsReview
<1>4. ReaderOK'
  BY <1>1, <1>2, GrowsReader DEF CacheOK
<1>5. QED
  BY <1>2, <1>3, <1>4 DEF HistoryInv

\* An event comes in.

LEMMA MessageObserved ==
  ASSUME WorldOK, CacheOK, events # <<>>, events' = Tail(events), UNCHANGED server,
         events[1].kind = "message",
         entry # None, entry.messages # None,
         entry' = Updated(events[1].id, events[1].done, None)
  PROVE  entry' \in Entry /\ entry' # None /\ EntryHolds(entry', events', server')
<1> DEFINE m == events[1].id
           done == events[1].done
           t == entry.messages
           v == [done |-> done, parts |-> Known(t, m)]
           t2 == Put(t, m, v)
           d2 == IF done THEN entry.dirty \cup {m} ELSE entry.dirty
<1>1. events \in Seq(Event) /\ events[1] \in Event /\ server \in Transcript /\ EventsHold(events, server)
  BY TailIs DEF WorldOK
<1>2. m \in Message /\ done \in BOOLEAN
  BY <1>1 DEF Event
<1>3. t \in Transcript /\ entry.dirty \in SUBSET Message /\ entry.old \in BOOLEAN
  BY EntryIs DEF CacheOK
<1>4. UpToDate(t, entry.dirty, events, server) /\ Projected(t) /\ entry.dirty \subseteq DOMAIN t
  BY DEF CacheOK, EntryHolds
<1>5. entry' = Kept(t2, d2, entry.old)
  <2>1. Known(t, m) = IF m \in DOMAIN t THEN t[m].parts ELSE <<>>
    BY DEF Known
  <2>2. Updated(m, done, None) = Kept(t2, d2, entry.old)
    BY <2>1 DEF Updated
  <2>3. QED
    BY <2>2
<1>6. Known(t, m) \in Parts /\ \A p \in DOMAIN Known(t, m) : Known(t, m)[p] # "long"
  BY <1>3, <1>4, TranscriptIs, NoParts DEF Known, Projected
<1>7. v \in MessageValue /\ v.parts = Known(t, m)
  BY <1>2, <1>6 DEF MessageValue
<1>8. t2 \in Transcript
  <2> HIDE DEF v, t, m
  <2>1. QED
    BY <1>2, <1>3, <1>7, PutTranscript
<1>9. Projected(t2)
  <2> HIDE DEF v, t, m
  <2>1. QED
    BY <1>4, <1>6, <1>7, PutProjected
<1>10. d2 \in SUBSET Message /\ entry.dirty \subseteq d2 /\ d2 \subseteq entry.dirty \cup {m}
  BY <1>2, <1>3
<1>11. DOMAIN t2 = DOMAIN t \cup {m}
  <2> HIDE DEF v, t, m
  <2>1. QED
    BY DEF Put
<1>12. d2 \subseteq DOMAIN t2
  BY <1>4, <1>10, <1>11
<1>13. UpToDate(t2, d2, Tail(events), server)
  <2> HIDE DEF d2, t
  <2>1. t2 = Put(t, events[1].id, [done |-> events[1].done, parts |-> Known(t, events[1].id)])
    OBVIOUS
  <2> HIDE DEF t2
  <2>2. QED
    BY <1>1, <1>3, <1>4, <1>10, <2>1, MessageSeen
<1> DEFINE new == Kept(t2, d2, entry.old)
<1> HIDE DEF t2, d2, t
<1>14. /\ new \in Entry /\ new # None
       /\ \A q, s : UpToDate(t2, d2, q, s) /\ Projected(t2) /\ d2 \subseteq DOMAIN t2 => EntryHolds(new, q, s)
  BY <1>3, <1>8, <1>10, KeptIs
<1> HIDE DEF new
<1>15. EntryHolds(new, Tail(events), server)
  BY <1>9, <1>12, <1>13, <1>14
<1>16. entry' = new
  BY <1>5 DEF new
<1>17. QED
  BY <1>14, <1>15, <1>16

LEMMA PartObserved ==
  ASSUME WorldOK, CacheOK, events # <<>>, events' = Tail(events), UNCHANGED server,
         events[1].kind = "part",
         entry # None, entry.messages # None, events[1].id \in DOMAIN entry.messages,
         NEW ps, ps = Put(entry.messages[events[1].id].parts, events[1].part, ProjectPart(events[1].content)),
         entry' = Kept([entry.messages EXCEPT ![events[1].id].parts = ps], entry.dirty, entry.old)
  PROVE  entry' \in Entry /\ entry' # None /\ EntryHolds(entry', events', server')
<1> DEFINE m == events[1].id
           t == entry.messages
           v == [done |-> t[m].done, parts |-> ps]
           t2 == [t EXCEPT ![m].parts = ps]
<1>1. events \in Seq(Event) /\ events[1] \in Event /\ server \in Transcript /\ EventsHold(events, server)
  BY TailIs DEF WorldOK
<1>2. m \in DOMAIN t /\ events[1].part \in PartID /\ events[1].content \in Content
  BY <1>1 DEF Event
<1>3. t \in Transcript /\ entry.dirty \in SUBSET Message /\ entry.old \in BOOLEAN
  BY EntryIs DEF CacheOK
<1>4. UpToDate(t, entry.dirty, events, server) /\ Projected(t) /\ entry.dirty \subseteq DOMAIN t
  BY DEF CacheOK, EntryHolds
<1>5. ProjectPart(events[1].content) \in Content /\ ProjectPart(events[1].content) # "long"
  BY <1>2, ProjectOnce
<1>6. ps \in Parts /\ \A p \in DOMAIN ps : ps[p] # "long"
  <2>1. t[m].parts \in Parts /\ \A p \in DOMAIN t[m].parts : t[m].parts[p] # "long"
    BY <1>2, <1>3, <1>4, TranscriptIs DEF Projected
  <2>2. ps \in Parts
    BY <1>2, <1>5, <2>1, PutParts
  <2>3. QED
    BY <1>5, <2>1, <2>2 DEF Put
<1>7. t2 \in Transcript /\ t2 = Put(t, m, v)
  BY <1>2, <1>3, <1>6, PartsChanged
<1>8. Projected(t2) /\ DOMAIN t2 = DOMAIN t
  <2>1. v.parts = ps
    OBVIOUS
  <2> HIDE DEF v, t, m
  <2>2. Projected(Put(t, m, v)) /\ DOMAIN Put(t, m, v) = DOMAIN t
    <3>1. Projected(Put(t, m, v))
      BY <1>4, <1>6, <2>1, PutProjected
    <3>2. QED
      BY <1>2, <3>1 DEF Put
  <2>3. QED
    BY <1>7, <2>2
<1> DEFINE d == entry.dirty
           old == entry.old
<1>9. entry' = Kept(t2, d, old)
  OBVIOUS
<1> HIDE DEF t2
<1>10. UpToDate(t2, entry.dirty, Tail(events), server)
  <2>1. t2 = Put(t, events[1].id, [done |-> t[events[1].id].done,
                                   parts |-> Put(t[events[1].id].parts, events[1].part, ProjectPart(events[1].content))])
    BY <1>7
  <2> HIDE DEF t
  <2>2. events[1].id \in DOMAIN t
    BY <1>2
  <2>3. QED
    BY <1>1, <1>3, <1>4, <2>1, <2>2, PartSeen
<1>11. d \in SUBSET Message /\ old \in BOOLEAN /\ d \subseteq DOMAIN t2 /\ UpToDate(t2, d, Tail(events), server)
  BY <1>3, <1>4, <1>8, <1>10
<1> HIDE DEF d, old, t, m, v
<1>12. QED
  BY <1>7, <1>8, <1>9, <1>11, KeptIs

LEMMA ObserveHolds ==
  ASSUME HistoryInv, Observe
  PROVE  HistoryInv'
<1>1. WorldOK /\ CacheOK /\ ReaderOK /\ ReviewOK
  BY DEF HistoryInv
<1>2. /\ events # <<>> /\ events' = Tail(events)
      /\ UNCHANGED <<server, made, changes, faults, pass, checkpoint, reviewer>>
  BY DEF Observe
<1>3. events \in Seq(Event) /\ Head(events) = events[1] /\ events[1] \in Event
  BY <1>1, <1>2, TailIs DEF WorldOK
<1>4. \/ events[1].kind = "message" /\ ObserveMessage(events[1].id, events[1].done, None)
      \/ events[1].kind = "part" /\ ObservePart(events[1].id, events[1].part, events[1].content)
      \/ events[1].kind = "reset" /\ Invalidate
  <2>1. events[1].kind \in {"message", "part", "reset"}
    BY <1>3 DEF Event
  <2>2. QED
    BY <1>3, <2>1 DEF Observe
<1>5. WorldOK'
  <2>1. Tail(events) \in Seq(Event) /\ EventsHold(Tail(events), server)
    BY <1>1, <1>2, TailIs, TailHolds DEF WorldOK
  <2>2. QED
    BY <1>1, <1>2, <2>1 DEF WorldOK
<1>6. /\ entry = None => UNCHANGED cache
      /\ entry # None => /\ load' = Touched
                         /\ entry' \in Entry /\ entry' # None /\ EntryHolds(entry', events', server')
  <2>1. entry \in Entry \cup {None}
    BY <1>1 DEF CacheOK
  <2>2. CASE entry = None
    BY <1>4, <2>2 DEF ObserveMessage, ObservePart, Invalidate
  <2>3. CASE entry # None
    <3>1. load' = Touched
      BY <1>4, <2>3 DEF ObserveMessage, ObservePart, Invalidate
    <3> SUFFICES entry' \in Entry /\ entry' # None /\ EntryHolds(entry', events', server')
      BY <2>3, <3>1
    <3>2. CASE entry' = NewEntry
      BY <3>2, NewEntryIs
    <3>3. CASE entry' = entry /\ entry.messages = None
      BY <2>1, <2>3, <3>3 DEF EntryHolds
    <3>4. CASE events[1].kind = "message" /\ entry.messages # None
      <4>1. entry' = Updated(events[1].id, events[1].done, None)
        BY <1>4, <2>3, <3>4 DEF ObserveMessage
      <4>2. QED
        BY <1>1, <1>2, <2>3, <3>4, <4>1, MessageObserved
    <3>5. CASE events[1].kind = "part" /\ entry.messages # None /\ events[1].id \in DOMAIN entry.messages
      <4> DEFINE ps == Put(entry.messages[events[1].id].parts, events[1].part, ProjectPart(events[1].content))
      <4>1. entry' = Kept([entry.messages EXCEPT ![events[1].id].parts = ps], entry.dirty, entry.old)
        BY <1>4, <2>3, <3>5 DEF ObservePart
      <4> HIDE DEF ps
      <4>2. ps = Put(entry.messages[events[1].id].parts, events[1].part, ProjectPart(events[1].content))
        BY DEF ps
      <4>3. QED
        BY <1>1, <1>2, <2>3, <3>5, <4>1, <4>2, PartObserved
    <3>6. QED
      BY <1>4, <2>3, <3>1, <3>2, <3>3, <3>4, <3>5 DEF ObserveMessage, ObservePart, Invalidate
  <2>4. QED
    BY <2>2, <2>3
<1>7. CacheOK'
  <2>1. CASE entry = None
    BY <1>1, <1>2, <1>6, <2>1, WithoutLoad DEF CacheOK, cache
  <2>2. CASE entry # None
    <3>1. load' \in Load \cup {None} /\ LoadHolds(load', events', server', Len(made'))
      BY <1>1, <1>2, <1>6, <2>2, TouchedCache
    <3>2. QED
      BY <1>6, <2>2, <3>1 DEF CacheOK
  <2>3. QED
    BY <2>1, <2>2
<1>8. ReaderOK'
  <2>1. load # None => load' # None /\ load'.asOf = load.asOf
    BY <1>1, <1>6, TouchedIs DEF CacheOK, cache
  <2>2. QED
    BY <1>1, <1>2, <2>1 DEF ReaderOK
<1>9. ReviewOK'
  <2>1. \A c : CursorHolds(c, load, server, Len(made)) => CursorHolds(c, load', server, Len(made))
    BY <1>1, <1>6, TouchedHolds DEF CacheOK, cache
  <2>2. QED
    BY <1>1, <1>2, <2>1 DEF ReviewOK, reviewer
<1>10. QED
  BY <1>5, <1>7, <1>8, <1>9 DEF HistoryInv

\* Steps of the cache and its readers.

LEMMA WorldStays ==
  ASSUME WorldOK, UNCHANGED <<server, made, changes, events>>, faults' \in 0..MaxFaults
  PROVE  WorldOK'
BY DEF WorldOK

LEMMA ReviewStays ==
  ASSUME ReviewOK, UNCHANGED reviewer, UNCHANGED <<server, made>>,
         \/ load' = load \/ load' = None \/ load'.kind # "answered"
         \/ ~(Cardinality(DOMAIN load'.messages) > Window)
         \/ load'.messages = server
  PROVE  ReviewOK'
<1>1. server' = server /\ made' = made /\ review' = review /\ cursor' = cursor /\ reviewed' = reviewed
  BY DEF reviewer
<1>2. ASSUME NEW c, CursorHolds(c, load, server, Len(made))
      PROVE  CursorHolds(c, load', server, Len(made))
  <2>1. CASE load'.messages = server
    BY <1>2, <2>1 DEF CursorHolds
  <2>2. CASE load' = load \/ load' = None \/ load'.kind # "answered"
    BY <1>2, <2>2 DEF CursorHolds
  <2>3. CASE ~(Cardinality(DOMAIN load'.messages) > Window)
    BY <1>2, <2>3 DEF CursorHolds
  <2>4. QED
    BY <2>1, <2>2, <2>3
<1>3. QED
  BY <1>1, <1>2 DEF ReviewOK

\* A slice is taken from a view that is whole, or small enough to have all
\* its fingerprints.
LEMMA SlicedHolds ==
  ASSUME WorldOK, ReviewOK, UNCHANGED <<server, made>>, load' = None,
         NEW view \in Transcript, Sliced(view),
         Cardinality(DOMAIN view) <= Window \/ Whole(view, DOMAIN server, Len(made)),
         Cardinality(DOMAIN view) > Window /\ cursor.prefix # None => ~Skips(cursor, DOMAIN view)
  PROVE  ReviewOK'
<1> DEFINE slice == SliceDelta(view, cursor)
<1>1. /\ cursor \in Cursor /\ Covers(cursor, reviewed) /\ reviewed \in SUBSET (Message \X PartID \X Content)
      /\ CursorHolds(cursor, None, server, Len(made))
      /\ Len(made) \in Nat
  BY WithoutLoad, LenProperties DEF ReviewOK, WorldOK
<1>2. review' \in {None, slice} /\ cursor' = cursor /\ reviewed' = reviewed
  BY DEF Sliced
<1>3. slice \in Review
  BY <1>1, SliceIs
<1>4. Covers(slice.next, reviewed \cup slice.delta)
  BY <1>1, SliceCovers
<1>5. CursorHolds(slice.next, None, server, Len(made))
  <2>1. CASE DOMAIN view = {}
    <3>1. slice.next = cursor
      BY <2>1 DEF SliceDelta
    <3>2. QED
      BY <1>1, <3>1
  <2>2. CASE DOMAIN view # {}
    <3>1. slice.next.prefix # None => slice.next.last \in 1..Len(made) /\ ~Skips(slice.next, DOMAIN server)
      BY <1>1, <2>2, SliceSkipsNothing
    <3> HIDE DEF slice
    <3>2. QED
      BY <3>1 DEF CursorHolds
  <2>3. QED
    BY <2>1, <2>2
<1> HIDE DEF slice
<1>6. QED
  BY <1>1, <1>2, <1>3, <1>4, <1>5 DEF ReviewOK

LEMMA StartLoadIs ==
  ASSUME NEW e \in Entry, EntryHolds(e, events, server), changes \in 0..MaxChanges
  PROVE  /\ StartLoad(e) \in Load /\ StartLoad(e) # None /\ StartLoad(e).kind # "answered"
         /\ StartLoad(e).asOf = changes
         /\ LoadHolds(StartLoad(e), events, server, Len(made))
<1>1. CASE StartLoad(e) = FullLoad
  BY <1>1, FullLoadIs
<1>2. CASE StartLoad(e) # FullLoad
  <2> DEFINE b == FALSE
             t == e.messages
             d == e.dirty
             l == [kind |-> "point", messages |-> t, left |-> d, changed |-> b, asOf |-> changes]
  <2>1. StartLoad(e) = [FullLoad EXCEPT !.kind = "point", !.messages = t, !.left = d] /\ t # None
    BY <1>2 DEF StartLoad
  <2>2. t \in Transcript /\ d \in SUBSET Message
    BY <2>1, EntryIs
  <2>3. /\ UpToDate(t, d, events, server) /\ d \subseteq DOMAIN t
        /\ Cardinality(DOMAIN t) <= Window
    BY <2>1, EntryIs DEF EntryHolds
  <2>4. StartLoad(e) = l
    BY <2>1 DEF FullLoad
  <2>5. b \in BOOLEAN
    OBVIOUS
  <2> HIDE DEF b, t, d
  <2>6. l \in Load
    BY <2>2, <2>5 DEF Load
  <2>7. LoadHolds(l, events, server, Len(made))
    BY <2>3 DEF LoadHolds
  <2>8. l # None
    BY <2>6, LoadIs
  <2>9. QED
    BY <2>4, <2>6, <2>7, <2>8
<1>3. QED
  BY <1>1, <1>2

LEMMA PassReadsHolds ==
  ASSUME HistoryInv, PassReads
  PROVE  HistoryInv'
<1>1. WorldOK /\ CacheOK /\ ReaderOK /\ ReviewOK /\ changes \in 0..MaxChanges
  BY DEF HistoryInv, WorldOK
<1>2. UNCHANGED <<server, made, changes, events>> /\ faults' \in 0..MaxFaults /\ checkpoint' = checkpoint
  BY <1>1 DEF PassReads, world, WorldOK
<1>3. WorldOK'
  BY <1>1, <1>2, WorldStays
<1> DEFINE expired == Present.messages # None /\ Present.old
           e == IF expired THEN NewEntry ELSE Present
<1>4. entry' = e
  BY DEF PassReads
<1>5. e \in Entry /\ e # None /\ EntryHolds(e, events, server)
  <2>1. Present \in Entry /\ Present # None /\ EntryHolds(Present, events, server)
    BY <1>1, NewEntryIs, EntryIs DEF Present, CacheOK
  <2>2. QED
    BY <2>1, NewEntryIs
<1>6. \/ /\ load # None /\ load' = IF expired THEN Touched ELSE load
         /\ pass' = "loading" /\ UNCHANGED reviewer
      \/ /\ load = None /\ e.messages # None /\ e.dirty = {}
         /\ Sliced(e.messages) /\ UNCHANGED <<load, pass>>
      \/ /\ load = None /\ load' = StartLoad(e)
         /\ pass' = "loading" /\ UNCHANGED reviewer
  BY DEF PassReads
<1> HIDE DEF e, expired
<1>7. CASE /\ load # None /\ load' = IF expired THEN Touched ELSE load
           /\ pass' = "loading" /\ UNCHANGED reviewer
  <2>1. load' = load \/ load' = Touched
    BY <1>7
  <2>2. load' \in Load \cup {None} /\ LoadHolds(load', events, server, Len(made)) /\ load' # None /\ load'.asOf = load.asOf
    BY <1>1, <1>7, <2>1, TouchedIs, TouchedHolds DEF CacheOK
  <2>3. CacheOK' /\ ReaderOK'
    BY <1>1, <1>2, <1>4, <1>5, <1>7, <2>2 DEF CacheOK, ReaderOK
  <2>4. \A c : CursorHolds(c, load, server, Len(made)) => CursorHolds(c, load', server, Len(made))
    BY <1>1, <2>1, TouchedHolds DEF CacheOK
  <2>5. ReviewOK'
    BY <1>1, <1>2, <1>7, <2>4 DEF ReviewOK, reviewer
  <2>6. QED
    BY <1>3, <2>3, <2>5 DEF HistoryInv
<1>8. CASE /\ load = None /\ e.messages # None /\ e.dirty = {}
           /\ Sliced(e.messages) /\ UNCHANGED <<load, pass>>
  <2>1. CacheOK' /\ ReaderOK'
    BY <1>1, <1>2, <1>4, <1>5, <1>8, WithoutLoad DEF CacheOK, ReaderOK
  <2>2. e.messages \in Transcript /\ Cardinality(DOMAIN e.messages) <= Window
    BY <1>5, <1>8, EntryIs DEF EntryHolds
  <2>3. ~(Cardinality(DOMAIN e.messages) > Window)
    BY <2>2, TranscriptIs, MessagesAreFinite
  <2>4. load' = None
    BY <1>8
  <2> DEFINE view == e.messages
  <2>5. /\ view \in Transcript /\ Sliced(view) /\ Cardinality(DOMAIN view) <= Window
        /\ ~(Cardinality(DOMAIN view) > Window)
    BY <1>8, <2>2, <2>3
  <2> HIDE DEF view
  <2>6. ReviewOK'
    BY <1>1, <1>2, <2>4, <2>5, SlicedHolds
  <2>7. QED
    BY <1>3, <2>1, <2>6 DEF HistoryInv
<1>9. CASE /\ load = None /\ load' = StartLoad(e)
           /\ pass' = "loading" /\ UNCHANGED reviewer
  <2>1. /\ load' \in Load /\ load' # None /\ load'.kind # "answered" /\ load'.asOf = changes
        /\ LoadHolds(load', events, server, Len(made))
    BY <1>1, <1>5, <1>9, StartLoadIs
  <2>2. CacheOK' /\ ReaderOK'
    BY <1>1, <1>2, <1>4, <1>5, <1>9, <2>1 DEF CacheOK, ReaderOK
  <2>3. ReviewOK'
    BY <1>1, <1>2, <1>9, <2>1, ReviewStays
  <2>4. QED
    BY <1>3, <2>2, <2>3 DEF HistoryInv
<1>10. QED
  BY <1>6, <1>7, <1>8, <1>9

LEMMA CheckpointReadsHolds ==
  ASSUME HistoryInv, CheckpointReads
  PROVE  HistoryInv'
<1>1. WorldOK /\ CacheOK /\ ReaderOK /\ ReviewOK /\ changes \in 0..MaxChanges
  BY DEF HistoryInv, WorldOK
<1>2. UNCHANGED <<server, made, changes, events>> /\ faults' \in 0..MaxFaults /\ pass' = pass /\ UNCHANGED reviewer
  BY <1>1 DEF CheckpointReads, world, WorldOK
<1>3. WorldOK'
  BY <1>1, <1>2, WorldStays
<1> DEFINE since == IF checkpoint.state = "idle" THEN changes ELSE checkpoint.since
<1>4. since \in 0..MaxChanges /\ since <= changes
  BY <1>1 DEF ReaderOK
<1>5. \/ load # None /\ checkpoint' = [state |-> "waiting", since |-> since] /\ UNCHANGED cache
      \/ load = None /\ checkpoint' = [state |-> "loading", since |-> since] /\ entry' = NewEntry /\ load' = FullLoad
  BY DEF CheckpointReads
<1> HIDE DEF since
<1>6. CASE load # None /\ checkpoint' = [state |-> "waiting", since |-> since] /\ UNCHANGED cache
  <2>1. CacheOK'
    BY <1>1, <1>2, <1>6 DEF CacheOK, cache
  <2>2. ReaderOK'
    BY <1>1, <1>2, <1>4, <1>6 DEF ReaderOK
  <2>3. ReviewOK'
    BY <1>1, <1>2, <1>6, ReviewStays DEF cache
  <2>4. QED
    BY <1>3, <2>1, <2>2, <2>3 DEF HistoryInv
<1>7. CASE load = None /\ checkpoint' = [state |-> "loading", since |-> since] /\ entry' = NewEntry /\ load' = FullLoad
  <2>1. /\ load' \in Load /\ load' # None /\ load'.kind # "answered" /\ load'.asOf = changes
        /\ LoadHolds(load', events, server, Len(made))
    BY <1>1, <1>7, FullLoadIs
  <2>2. CacheOK'
    BY <1>1, <1>2, <1>7, <2>1, NewEntryIs DEF CacheOK
  <2>3. ReaderOK'
    BY <1>1, <1>2, <1>4, <1>7, <2>1 DEF ReaderOK
  <2>4. ReviewOK'
    BY <1>1, <1>2, <2>1, ReviewStays
  <2>5. QED
    BY <1>3, <2>2, <2>3, <2>4 DEF HistoryInv
<1>8. QED
  BY <1>5, <1>6, <1>7

LEMMA ServerAnswersHolds ==
  ASSUME HistoryInv, ServerAnswers
  PROVE  HistoryInv'
<1>1. WorldOK /\ CacheOK /\ ReaderOK /\ ReviewOK /\ changes \in 0..MaxChanges /\ server \in Transcript
  BY DEF HistoryInv, WorldOK
<1>2. /\ UNCHANGED <<server, made, changes, events>> /\ faults' \in 0..MaxFaults
      /\ UNCHANGED <<entry, pass, checkpoint, reviewer>>
  BY <1>1 DEF ServerAnswers, world, WorldOK
<1>3. WorldOK'
  BY <1>1, <1>2, WorldStays
<1>4. load \in Load /\ load # None /\ load.kind = "asked"
      /\ load' = [load EXCEPT !.kind = "answered", !.messages = server, !.asOf = changes]
  BY <1>1 DEF ServerAnswers, CacheOK
<1> DEFINE l == [kind |-> "answered", messages |-> server, left |-> load.left, changed |-> load.changed, asOf |-> changes]
<1>5. load' = l
  <2>1. load = [kind |-> load.kind, messages |-> load.messages, left |-> load.left, changed |-> load.changed,
                asOf |-> load.asOf]
    BY <1>4, LoadIs
  <2>2. QED
    BY <1>4, <2>1
<1>6. l \in Load
  BY <1>1, <1>4, LoadIs DEF Load
<1>7. l # None /\ l.kind = "answered" /\ l.messages = server /\ l.left = load.left /\ l.asOf = changes
  BY <1>6
<1> HIDE DEF l
<1>8. \A d : UpToDate(server, d, events, server)
  BY <1>1, AnswerIsUpToDate
<1>9. Whole(server, DOMAIN server, Len(made))
  BY <1>1 DEF Whole, WorldOK
<1>10. l.left = {}
  BY <1>1, <1>4, <1>7 DEF CacheOK, LoadHolds
<1>11. LoadHolds(l, events, server, Len(made))
  BY <1>7, <1>8, <1>9, <1>10 DEF LoadHolds
<1>12. CacheOK' /\ ReaderOK'
  <2>1. load' \in Load /\ load' # None /\ load'.asOf = changes /\ LoadHolds(load', events, server, Len(made))
    BY <1>5, <1>6, <1>7, <1>11
  <2>2. CacheOK'
    BY <1>1, <1>2, <1>4, <2>1 DEF CacheOK
  <2>3. ReaderOK'
    <3>1. changes >= checkpoint.since
      BY <1>1 DEF ReaderOK
    <3>2. QED
      BY <1>1, <1>2, <2>1, <3>1 DEF ReaderOK
  <2>4. QED
    BY <2>2, <2>3
<1>13. ReviewOK'
  BY <1>1, <1>2, <1>5, <1>7, ReviewStays
<1>14. QED
  BY <1>3, <1>12, <1>13 DEF HistoryInv

LEMMA PointReadHolds ==
  ASSUME HistoryInv, NEW m \in Message, PointRead(m)
  PROVE  HistoryInv'
<1>1. WorldOK /\ CacheOK /\ ReaderOK /\ ReviewOK /\ server \in Transcript
  BY DEF HistoryInv, WorldOK
<1>2. /\ UNCHANGED <<server, made, changes, events>> /\ faults' \in 0..MaxFaults
      /\ UNCHANGED <<pass, checkpoint, reviewer>>
  BY <1>1 DEF PointRead, world, WorldOK
<1>3. WorldOK'
  BY <1>1, <1>2, WorldStays
<1>4. load \in Load /\ load # None /\ load.kind = "point" /\ m \in load.left
  BY <1>1 DEF PointRead, CacheOK
<1>5. load = [kind |-> load.kind, messages |-> load.messages, left |-> load.left, changed |-> load.changed,
              asOf |-> load.asOf]
  BY <1>4, LoadIs
<1>6. /\ ~load.changed => UpToDate(load.messages, load.left, events, server)
      /\ load.left \subseteq DOMAIN load.messages
      /\ Cardinality(DOMAIN load.messages) <= Window
  BY <1>1, <1>4 DEF CacheOK, LoadHolds
<1>7. ASSUME NEW l \in Load, load' = l, l.kind = "point", l.asOf = load.asOf,
             LoadHolds(l, events, server, Len(made)),
             entry' = entry \/ entry' = NewEntry
      PROVE  HistoryInv'
  <2>1. load' # None /\ load'.kind # "answered"
    BY <1>7, LoadIs
  <2>2. CacheOK'
    BY <1>1, <1>2, <1>4, <1>7, NewEntryIs DEF CacheOK
  <2>3. ReaderOK'
    BY <1>1, <1>2, <1>7, <2>1 DEF ReaderOK
  <2>4. ReviewOK'
    BY <1>1, <1>2, <2>1, ReviewStays
  <2>5. QED
    BY <1>3, <2>2, <2>3, <2>4 DEF HistoryInv
<1>8. CASE m \in DOMAIN server
  <2> DEFINE t == Put(load.messages, m, server[m])
             left == load.left \ {m}
             l == [kind |-> "point", messages |-> t, left |-> left, changed |-> load.changed, asOf |-> load.asOf]
  <2>1. load' = [load EXCEPT !.left = left, !.messages = t] /\ entry' = entry
    BY <1>8 DEF PointRead
  <2>2. t \in Transcript /\ left \in SUBSET Message
    BY <1>1, <1>4, <1>8, LoadIs, TranscriptIs, PutTranscript
  <2>3. DOMAIN t = DOMAIN load.messages
    BY <1>4, <1>6 DEF Put
  <2>4. ~load.changed => UpToDate(t, left, events, server)
    BY <1>1, <1>4, <1>6, <1>8, LoadIs, PointReadIsUpToDate
  <2>5. left \subseteq DOMAIN t
    BY <1>6, <2>3
  <2> HIDE DEF t, left
  <2>6. load' = l
    BY <1>4, <1>5, <2>1
  <2>7. l \in Load
    BY <1>4, <2>2, LoadIs DEF Load
  <2>8. l.kind = "point" /\ l.messages = t /\ l.left = left /\ l.changed = load.changed /\ l.asOf = load.asOf
    OBVIOUS
  <2> HIDE DEF l
  <2>9. LoadHolds(l, events, server, Len(made))
    BY <1>6, <2>3, <2>4, <2>5, <2>8 DEF LoadHolds
  <2>10. QED
    BY <1>7, <2>1, <2>6, <2>7, <2>8, <2>9
<1>9. CASE m \notin DOMAIN server
  <2> DEFINE b == TRUE
             l == [kind |-> "point", messages |-> load.messages, left |-> {}, changed |-> b, asOf |-> load.asOf]
  <2>1. load' = [load EXCEPT !.left = {}, !.changed = b] /\ entry' = NewEntry
    BY <1>9 DEF PointRead
  <2>2. b \in BOOLEAN /\ (b <=> TRUE)
    OBVIOUS
  <2> HIDE DEF b
  <2>3. load' = l
    BY <1>4, <1>5, <2>1
  <2>4. l \in Load
    BY <1>4, <2>2, LoadIs DEF Load
  <2>5. l.kind = "point" /\ l.messages = load.messages /\ l.left = {} /\ l.changed = b /\ l.asOf = load.asOf
    OBVIOUS
  <2> HIDE DEF l
  <2>6. LoadHolds(l, events, server, Len(made))
    BY <1>6, <2>2, <2>5 DEF LoadHolds
  <2>7. QED
    BY <1>7, <2>1, <2>3, <2>4, <2>5, <2>6
<1>10. QED
  BY <1>8, <1>9

LEMMA PointReadsDoneHolds ==
  ASSUME HistoryInv, PointReadsDone
  PROVE  HistoryInv'
<1>1. WorldOK /\ CacheOK /\ ReaderOK /\ ReviewOK /\ changes \in 0..MaxChanges
  BY DEF HistoryInv, WorldOK
<1>2. /\ UNCHANGED <<server, made, changes, events>> /\ faults' \in 0..MaxFaults
      /\ UNCHANGED <<entry, pass, checkpoint, reviewer>>
  BY <1>1 DEF PointReadsDone, world, WorldOK
<1>3. WorldOK'
  BY <1>1, <1>2, WorldStays
<1>4. load \in Load /\ load # None /\ load.kind = "point" /\ load.left = {}
  BY <1>1 DEF PointReadsDone, CacheOK
<1>5. load = [kind |-> load.kind, messages |-> load.messages, left |-> load.left, changed |-> load.changed,
              asOf |-> load.asOf]
  BY <1>4, LoadIs
<1>6. /\ ~load.changed => UpToDate(load.messages, load.left, events, server)
      /\ Cardinality(DOMAIN load.messages) <= Window
  BY <1>1, <1>4 DEF CacheOK, LoadHolds
<1>7. ASSUME NEW l \in Load, load' = l, l # None, l.asOf = changes \/ l.asOf = load.asOf,
             LoadHolds(l, events, server, Len(made)),
             l.kind # "answered" \/ ~(Cardinality(DOMAIN l.messages) > Window)
      PROVE  HistoryInv'
  <2>1. CacheOK'
    BY <1>1, <1>2, <1>4, <1>7 DEF CacheOK
  <2>3. ReaderOK'
    <3>1. checkpoint.state = "loading" => l.asOf >= checkpoint.since
      BY <1>1, <1>7 DEF ReaderOK
    <3>2. QED
      BY <1>1, <1>2, <1>7, <3>1 DEF ReaderOK
  <2>4. ReviewOK'
    BY <1>1, <1>2, <1>7, ReviewStays
  <2>5. QED
    BY <1>3, <2>1, <2>3, <2>4 DEF HistoryInv
<1>8. CASE load.changed
  <2>1. load' = FullLoad
    BY <1>8 DEF PointReadsDone
  <2>2. /\ FullLoad \in Load /\ FullLoad # None /\ FullLoad.kind # "answered" /\ FullLoad.asOf = changes
        /\ LoadHolds(FullLoad, events, server, Len(made))
    BY <1>1, FullLoadIs
  <2>3. QED
    BY <1>7, <2>1, <2>2
<1>9. CASE ~load.changed
  <2> DEFINE l == [kind |-> "answered", messages |-> load.messages, left |-> load.left, changed |-> load.changed,
                   asOf |-> load.asOf]
  <2>1. load' = [load EXCEPT !.kind = "answered"]
    BY <1>9 DEF PointReadsDone
  <2>2. load' = l
    BY <1>5, <2>1
  <2>3. l \in Load
    BY <1>4, LoadIs DEF Load
  <2>4. l.kind = "answered" /\ l.messages = load.messages /\ l.left = load.left /\ l.changed = load.changed /\ l.asOf = load.asOf
    OBVIOUS
  <2> HIDE DEF l
  <2>5. LoadHolds(l, events, server, Len(made))
    BY <1>4, <1>6, <2>4 DEF LoadHolds
  <2>6. l # None /\ ~(Cardinality(DOMAIN l.messages) > Window)
    BY <1>4, <1>6, <2>3, <2>4, LoadIs, TranscriptIs, MessagesAreFinite
  <2>7. QED
    BY <1>7, <2>2, <2>3, <2>4, <2>5, <2>6
<1>10. QED
  BY <1>8, <1>9

LEMMA LoadReturnsHolds ==
  ASSUME HistoryInv, LoadReturns
  PROVE  HistoryInv'
<1>1. WorldOK /\ CacheOK /\ ReaderOK /\ ReviewOK /\ changes \in 0..MaxChanges /\ server \in Transcript
  BY DEF HistoryInv, WorldOK
<1>2. UNCHANGED <<server, made, changes, events>> /\ faults' \in 0..MaxFaults /\ load' = None /\ pass' = "idle"
  BY <1>1 DEF LoadReturns, world, WorldOK
<1>3. WorldOK'
  BY <1>1, <1>2, WorldStays
<1>4. load \in Load /\ load # None /\ load.kind = "answered"
  BY <1>1 DEF LoadReturns, CacheOK
<1> DEFINE t == load.messages
           view == View(t)
<1>5. /\ ~load.changed => UpToDate(t, {}, events, server)
      /\ Cardinality(DOMAIN t) <= Window \/ Whole(t, DOMAIN server, Len(made))
  BY <1>1, <1>4 DEF CacheOK, LoadHolds
<1>6. t \in Transcript /\ view \in Transcript /\ DOMAIN view = DOMAIN t /\ Projected(view)
  BY <1>4, LoadIs, ViewIs
<1>7. ~load.changed => UpToDate(view, {}, events, server)
  BY <1>1, <1>5, <1>6, ViewIsUpToDate
<1>8. entry' \in Entry /\ entry' # None /\ EntryHolds(entry', events, server)
  <2>1. CASE load.changed
    BY <2>1, NewEntryIs DEF LoadReturns
  <2>2. CASE ~load.changed
    <3> DEFINE b == FALSE
    <3>1. entry' = Kept(view, {}, b)
      BY <2>2 DEF LoadReturns
    <3>2. b \in BOOLEAN /\ {} \in SUBSET Message /\ {} \subseteq DOMAIN view
      OBVIOUS
    <3> HIDE DEF b, view, t
    <3>3. QED
      BY <1>6, <1>7, <2>2, <3>1, <3>2, KeptIs
  <2>3. QED
    BY <2>1, <2>2
<1>9. CacheOK'
  BY <1>1, <1>2, <1>8, WithoutLoad DEF CacheOK
<1>10. ReaderOK'
  <2>1. checkpoint' = IF checkpoint.state = "loading" THEN Idle ELSE checkpoint
    BY DEF LoadReturns
  <2>2. CASE checkpoint.state = "loading"
    <3>1. checkpoint' = [state |-> "idle", since |-> 0]
      BY <2>1, <2>2 DEF Idle
    <3>2. QED
      BY <1>1, <1>2, <3>1 DEF ReaderOK
  <2>3. CASE checkpoint.state # "loading"
    BY <1>1, <1>2, <2>1, <2>3 DEF ReaderOK
  <2>4. QED
    BY <2>2, <2>3
<1>11. ReviewOK'
  <2>1. CASE pass = "loading"
    <3>1. Sliced(view)
      BY <2>1 DEF LoadReturns
    <3>2. Cardinality(DOMAIN t) > Window /\ cursor.prefix # None => ~Skips(cursor, DOMAIN t)
      BY <1>1, <1>4 DEF ReviewOK, CursorHolds
    <3>3. /\ Cardinality(DOMAIN view) <= Window \/ Whole(view, DOMAIN server, Len(made))
          /\ Cardinality(DOMAIN view) > Window /\ cursor.prefix # None => ~Skips(cursor, DOMAIN view)
      BY <1>5, <1>6, <3>2 DEF Whole
    <3> HIDE DEF view, t
    <3>4. QED
      BY <1>1, <1>2, <1>6, <3>1, <3>3, SlicedHolds
  <2>2. CASE pass # "loading"
    <3>1. UNCHANGED reviewer
      BY <2>2 DEF LoadReturns
    <3>2. QED
      BY <1>1, <1>2, <3>1, ReviewStays
  <2>3. QED
    BY <2>1, <2>2
<1>12. QED
  BY <1>3, <1>9, <1>10, <1>11 DEF HistoryInv

\* Steps of the reviewer, faults and time.

LEMMA AcceptHolds ==
  ASSUME HistoryInv, Accept \/ Reject
  PROVE  HistoryInv'
<1>1. WorldOK /\ CacheOK /\ ReaderOK /\ ReviewOK
  BY DEF HistoryInv
<1>2. UNCHANGED <<server, made, changes, faults, events, entry, load, pass, checkpoint>>
  BY DEF Accept, Reject, world, cache
<1>3. WorldOK' /\ CacheOK' /\ ReaderOK'
  BY <1>1, <1>2 DEF WorldOK, CacheOK, ReaderOK
<1>4. review' = None /\ review \in Review
  BY <1>1 DEF Accept, Reject, ReviewOK
<1>5. ReviewOK'
  <2>1. CASE Accept
    <3>1. cursor' = review.next /\ reviewed' = reviewed \cup review.delta /\ review # None
      BY <2>1 DEF Accept
    <3>2. review.next \in Cursor /\ review.delta \in SUBSET (Message \X PartID \X Content)
      BY <1>4 DEF Review
    <3>3. QED
      BY <1>1, <1>2, <1>4, <3>1, <3>2 DEF ReviewOK
  <2>2. CASE Reject
    BY <1>1, <1>2, <1>4, <2>2 DEF ReviewOK, Reject
  <2>3. QED
    BY <2>1, <2>2
<1>6. QED
  BY <1>3, <1>5 DEF HistoryInv

LEMMA FaultHolds ==
  ASSUME HistoryInv, ReadFails \/ Forget \/ Trim \/ Reconnect
  PROVE  HistoryInv'
<1>1. WorldOK /\ CacheOK /\ ReaderOK /\ ReviewOK /\ changes \in 0..MaxChanges
  BY DEF HistoryInv, WorldOK
<1>2. UNCHANGED <<server, made, changes, reviewer>> /\ faults' \in 0..MaxFaults
  BY <1>1 DEF ReadFails, Forget, Trim, Reconnect, Fault, WorldOK
<1>3. CASE ReadFails \/ Forget \/ Trim
  <2>1. /\ events' = events /\ load' = None /\ entry' \in {entry, None}
        /\ pass' \in {"idle", pass} /\ checkpoint' = [state |-> "idle", since |-> 0]
    BY <1>3 DEF ReadFails, Forget, Trim, Idle
  <2>2. WorldOK'
    BY <1>1, <1>2, <2>1, WorldStays
  <2>3. CacheOK'
    BY <1>1, <1>2, <2>1, WithoutLoad DEF CacheOK
  <2>4. ReaderOK'
    BY <1>1, <1>2, <2>1 DEF ReaderOK
  <2>5. ReviewOK'
    BY <1>1, <1>2, <2>1, ReviewStays
  <2>6. QED
    BY <2>2, <2>3, <2>4, <2>5 DEF HistoryInv
<1>4. CASE Reconnect
  <2>1. events' = <<Reset>> /\ UNCHANGED <<entry, load, pass, checkpoint>>
    BY <1>4 DEF Reconnect, cache
  <2>2. <<Reset>> \in Seq(Event) /\ Tells(events, server, <<Reset>>, server)
    BY ReconnectTells
  <2>3. Grows
    BY <1>1, <1>2, <2>1, <2>2, LenProperties DEF Grows, WorldOK
  <2>4. WorldOK' /\ CacheOK' /\ ReviewOK'
    BY <1>1, <2>1, <2>3, GrowsWorld, GrowsCache, GrowsReview DEF cache
  <2>5. ReaderOK'
    BY <1>1, <2>1, <2>3, GrowsReader
  <2>6. QED
    BY <2>4, <2>5 DEF HistoryInv
<1>5. QED
  BY <1>3, <1>4

LEMMA AgeHolds ==
  ASSUME HistoryInv, Age
  PROVE  HistoryInv'
<1>1. WorldOK /\ CacheOK /\ ReaderOK /\ ReviewOK
  BY DEF HistoryInv
<1>2. /\ UNCHANGED <<server, made, changes, events, faults, load, pass, checkpoint>> /\ UNCHANGED reviewer
      /\ entry # None
  BY DEF Age, world
<1> DEFINE b == TRUE
           e == [messages |-> entry.messages, dirty |-> entry.dirty, old |-> b]
<1>3. entry' = [entry EXCEPT !.old = b] /\ entry \in Entry /\ b \in BOOLEAN
  BY <1>1, <1>2 DEF Age, CacheOK
<1> HIDE DEF b
<1>4. entry' = e /\ e \in Entry
  BY <1>3 DEF Entry
<1>5. e.messages = entry.messages /\ e.dirty = entry.dirty /\ e # None
  BY <1>4, EntryIs
<1> HIDE DEF e
<1>6. EntryHolds(e, events, server)
  BY <1>1, <1>2, <1>5 DEF CacheOK, EntryHolds
<1>7. WorldOK' /\ CacheOK' /\ ReaderOK'
  BY <1>1, <1>2, <1>4, <1>5, <1>6 DEF WorldOK, CacheOK, ReaderOK
<1>8. ReviewOK'
  BY <1>1, <1>2, ReviewStays
<1>9. QED
  BY <1>7, <1>8 DEF HistoryInv

LEMMA HistoryInitHolds == Init => HistoryInv
<1> SUFFICES ASSUME Init
             PROVE  HistoryInv
  OBVIOUS
<1>1. /\ server = <<>> /\ made = <<>> /\ changes = 0 /\ faults = 0 /\ events = <<>>
      /\ entry = None /\ load = None /\ pass = "idle"
      /\ checkpoint = [state |-> "idle", since |-> 0]
      /\ review = None /\ cursor = NoCursor /\ reviewed = {}
  BY DEF Init
<1>2. /\ <<>> \in Seq(0..MaxParts) /\ <<>> \in Seq(Event) /\ Len(<<>>) = 0 /\ 1..0 = {}
      /\ <<>> \in Transcript /\ DOMAIN <<>> = {}
  BY EmptySeq, NoMessages
<1>3. WorldOK
  BY <1>1, <1>2 DEF WorldOK, EventsHold
<1>4. CacheOK
  BY <1>1, WithoutLoad DEF CacheOK
<1>5. ReaderOK
  BY <1>1 DEF ReaderOK
<1>6. ReviewOK
  BY <1>1, NoCursorHolds DEF ReviewOK, CursorHolds
<1>7. QED
  BY <1>3, <1>4, <1>5, <1>6 DEF HistoryInv

LEMMA HistoryStepHolds == HistoryInv /\ [Next]_vars => HistoryInv'
<1> SUFFICES ASSUME HistoryInv, [Next]_vars
             PROVE  HistoryInv'
  OBVIOUS
<1>1. CASE UNCHANGED vars
  BY <1>1 DEF HistoryInv, WorldOK, CacheOK, ReaderOK, ReviewOK, vars, world, cache, reviewer
<1>2. CASE ServerStep
  BY <1>2, ServerStepHolds
<1>3. CASE Observe
  BY <1>3, ObserveHolds
<1>4. CASE LoadStep
  BY <1>4, ServerAnswersHolds, PointReadHolds, PointReadsDoneHolds, LoadReturnsHolds DEF LoadStep
<1>5. CASE PassReads \/ CheckpointReads
  BY <1>5, PassReadsHolds, CheckpointReadsHolds
<1>6. CASE Accept \/ Reject
  BY <1>6, AcceptHolds
<1>7. CASE ReadFails \/ Forget \/ Trim \/ Reconnect
  BY <1>7, FaultHolds
<1>8. CASE Age
  BY <1>8, AgeHolds
<1>9. QED
  BY <1>1, <1>2, <1>3, <1>4, <1>5, <1>6, <1>7, <1>8 DEF Next

LEMMA HistoryAlways == Spec => []HistoryInv
BY HistoryInitHolds, HistoryStepHolds, PTL DEF Spec

\* The invariant says what it should.
LEMMA HistoryInvAgrees == HistoryInv => CacheAgrees
<1> SUFFICES ASSUME HistoryInv
             PROVE  CacheAgrees
  OBVIOUS
<1>1. TypeOK
  BY HistoryTypes
<1>2. CacheIsCurrent
  <2> SUFFICES ASSUME entry # None, entry.messages # None, entry.dirty = {}, events = <<>>
               PROVE  entry.messages = View(server)
    BY DEF CacheIsCurrent
  <2>1. server \in Transcript /\ entry \in Entry /\ EntryHolds(entry, events, server)
    BY DEF HistoryInv, WorldOK, CacheOK
  <2>2. entry.messages \in Transcript /\ UpToDate(entry.messages, {}, <<>>, server) /\ Projected(entry.messages)
    BY <2>1, EntryIs DEF EntryHolds
  <2>3. QED
    BY <2>1, <2>2, UpToDateIsCurrent
<1>3. CursorCoversReviewed
  BY DEF HistoryInv, ReviewOK, CursorCoversReviewed
<1>4. QED
  BY <1>1, <1>2, <1>3 DEF CacheAgrees

\* Once the events are in, what is served from the cache is what the server
\* would answer, whatever was pushed, read by the point, invalidated or
\* forgotten on the way; and a reviewer's cursor covers only what was under
\* review before it was accepted, for any window and number of fingerprints
\* (SessionHistoryStore in history/session.ts, sliceDelta in delta.ts).
THEOREM CacheAlwaysAgrees == Spec => []CacheAgrees
BY HistoryAlways, HistoryInvAgrees, PTL

\* A checkpoint's fresh read is answered by the server after its call: it
\* never joins a load that began before (read(root, true) in session.ts).
THEOREM FreshReadsAreFresh == Spec => FreshReadIsFresh
<1>1. HistoryInv /\ [Next]_vars =>
        [load # None /\ load.kind = "answered" /\ load' = None /\ checkpoint.state = "loading" /\ faults' = faults
           => load.asOf >= checkpoint.since]_vars
  BY DEF HistoryInv, ReaderOK
<1>2. QED
  BY <1>1, HistoryAlways, PTL DEF Spec, FreshReadIsFresh

\* A pass that slices what the server has overlooks nothing.
LEMMA SlicedSeesEverything ==
  ASSUME HistoryInv, Sliced(View(server)),
         Cardinality(DOMAIN server) > Window /\ cursor.prefix # None => ~Skips(cursor, DOMAIN server)
  PROVE  Contents(View(server)) \subseteq reviewed \cup (IF review' = None THEN {} ELSE review'.delta)
<1> DEFINE view == View(server)
           slice == SliceDelta(view, cursor)
<1>1. server \in Transcript /\ cursor \in Cursor /\ Covers(cursor, reviewed)
  BY DEF HistoryInv, WorldOK, ReviewOK
<1>2. view \in Transcript /\ DOMAIN view = DOMAIN server
  BY <1>1, ViewIs
<1> HIDE DEF view
<1>3. \A m \in DOMAIN view : \A p \in DOMAIN Reviewable(view[m].parts) :
        <<m, p, Reviewable(view[m].parts)[p]>> \in reviewed \cup slice.delta
  BY <1>1, <1>2, SliceOverlooksNothing
<1>4. \A m \in DOMAIN view : \A p \in DOMAIN Reviewable(view[m].parts) :
        Reviewable(view[m].parts)[p] = view[m].parts[p]
  BY <1>2, TranscriptIs, ReviewableParts
<1>5. Contents(view) \subseteq reviewed \cup slice.delta
  BY <1>3, <1>4 DEF Contents
<1>6. slice \in Review /\ slice # None
  BY <1>1, <1>2, SliceIs, NoneAssumption
<1>7. review' = IF slice.delta = {} THEN None ELSE slice
  BY DEF Sliced, view
<1> HIDE DEF slice
<1>8. QED
  BY <1>5, <1>6, <1>7 DEF view

LEMMA PassReadSeesEverything ==
  ASSUME HistoryInv, PassReads, load = None, pass' = "idle", events = <<>>
  PROVE  Contents(View(server)) \subseteq reviewed \cup (IF review' = None THEN {} ELSE review'.delta)
<1>1. server \in Transcript /\ EntryHolds(entry, events, server) /\ entry \in Entry \cup {None}
  BY DEF HistoryInv, WorldOK, CacheOK
<1> DEFINE e == IF Present.messages # None /\ Present.old THEN NewEntry ELSE Present
<1>2. e.messages # None /\ e.dirty = {} /\ Sliced(e.messages)
  BY DEF PassReads
<1>3. NewEntry.messages = None
  BY DEF NewEntry
<1>4. e = entry /\ entry # None
  BY <1>2, <1>3 DEF Present
<1> HIDE DEF e
<1>5. /\ entry.messages \in Transcript /\ UpToDate(entry.messages, {}, <<>>, server) /\ Projected(entry.messages)
      /\ Cardinality(DOMAIN entry.messages) <= Window
  BY <1>1, <1>2, <1>4, EntryIs DEF EntryHolds
<1>6. entry.messages = View(server)
  BY <1>1, <1>5, UpToDateIsCurrent
<1>7. ~(Cardinality(DOMAIN server) > Window)
  BY <1>1, <1>5, <1>6, ViewIs, TranscriptIs, MessagesAreFinite
<1>8. QED
  BY <1>2, <1>4, <1>6, <1>7, SlicedSeesEverything

LEMMA LoadReturnsSeesEverything ==
  ASSUME HistoryInv, LoadReturns, pass = "loading", events = <<>>, ~load.changed
  PROVE  Contents(View(server)) \subseteq reviewed \cup (IF review' = None THEN {} ELSE review'.delta)
<1> DEFINE view == View(load.messages)
<1>1. /\ server \in Transcript /\ load \in Load /\ load # None /\ load.kind = "answered"
      /\ LoadHolds(load, events, server, Len(made)) /\ CursorHolds(cursor, load, server, Len(made))
  BY DEF HistoryInv, WorldOK, CacheOK, ReviewOK, LoadReturns
<1>2. load.messages \in Transcript /\ UpToDate(load.messages, {}, <<>>, server)
  BY <1>1, LoadIs DEF LoadHolds
<1>3. view \in Transcript /\ DOMAIN view = DOMAIN load.messages /\ Projected(view) /\ UpToDate(view, {}, <<>>, server)
  BY <1>1, <1>2, ViewIs, ViewIsUpToDate
<1>4. Sliced(view)
  BY DEF LoadReturns
<1>5. Cardinality(DOMAIN view) > Window /\ cursor.prefix # None => ~Skips(cursor, DOMAIN view)
  BY <1>1, <1>3 DEF CursorHolds
<1> HIDE DEF view
<1>6. view = View(server)
  BY <1>1, <1>3, UpToDateIsCurrent
<1>7. DOMAIN view = DOMAIN server
  BY <1>1, <1>6, ViewIs
<1>8. QED
  BY <1>4, <1>5, <1>6, <1>7, SlicedSeesEverything

\* A pass overlooks nothing: once the events are in, what it is given to
\* review and what was reviewed before are together all that reviewers may
\* see of the session, for any window and number of fingerprints, whatever
\* was cached, read by the point, lost, forgotten or rejected before (read()
\* and #load() in history/session.ts, sliceDelta in delta.ts).
THEOREM PassesSeeEverything == Spec => PassSeesEverything
<1>1. HistoryInv /\ [Next]_vars =>
        [PassGetsView /\ events = <<>> /\ (load = None \/ ~load.changed) =>
           Contents(View(server)) \subseteq reviewed \cup (IF review' = None THEN {} ELSE review'.delta)]_vars
  <2>1. ASSUME HistoryInv, PassGetsView, events = <<>>, load = None \/ ~load.changed
        PROVE  Contents(View(server)) \subseteq reviewed \cup (IF review' = None THEN {} ELSE review'.delta)
    <3>1. CASE PassReads /\ load = None /\ pass' = "idle"
      BY <2>1, <3>1, PassReadSeesEverything
    <3>2. CASE LoadReturns /\ pass = "loading"
      <4>1. ~load.changed
        BY <2>1, <3>2 DEF LoadReturns
      <4>2. QED
        BY <2>1, <3>2, <4>1, LoadReturnsSeesEverything
    <3>3. QED
      BY <2>1, <3>1, <3>2 DEF PassGetsView
  <2>2. QED
    BY <2>1
<1>2. QED
  BY <1>1, HistoryAlways, PTL DEF Spec, PassSeesEverything
=============================================================================
