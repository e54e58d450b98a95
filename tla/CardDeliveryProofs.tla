------------------------- MODULE CardDeliveryProofs -------------------------
(***************************************************************************)
(* What holds of CardDelivery for any notes, findings and bounds: cards,   *)
(* receipts and findings agree, every card is sent by the rules of the     *)
(* README of the plugin, and no queued note is lost.  A flush decides on   *)
(* what it read several awaits ago; the invariant says which of that is    *)
(* still true as long as its epoch object and its turn are the session's:  *)
(* the primary rests, because every turn is announced before it starts,    *)
(* so that the reply it read is still the latest one.                      *)
(***************************************************************************)
EXTENDS CardDelivery, WellFoundedInduction, TLAPS

-----------------------------------------------------------------------------
(* Sequences.                                                              *)

\* A set of numbers that is not empty has a least one.
LEMMA LeastOf ==
  ASSUME NEW S \in SUBSET Nat, S # {}
  PROVE  \E n \in S : \A m \in S : n <= m
<1> DEFINE R == OpToRel(<, Nat)
<1>1. IsWellFoundedOn(R, Nat)
  BY NatLessThanWellFounded
<1>2. R = {p \in Nat \X Nat : p[1] < p[2]}
  BY DEF OpToRel
<1> HIDE DEF R
<1>3. PICK n \in S : \A m \in S : <<m, n>> \notin R
  BY <1>1, WFMin
<1>4. ASSUME NEW m \in S PROVE n <= m
  <2>1. m \in Nat /\ n \in Nat
    OBVIOUS
  <2>2. <<m, n>> \notin R
    BY <1>3
  <2>3. ~(m < n)
    BY <1>2, <2>1, <2>2
  <2>4. QED
    BY <2>1, <2>3
<1>5. QED
  BY <1>4

\* The function that Without computes with exists: a least index up to which
\* it did not could be added to the one before it.
LEMMA KeptExists ==
  ASSUME NEW s \in Seq(Note), NEW S
  PROVE  \E kept : kept = [i \in 0..Len(s) |->
            IF i = 0 THEN <<>>
            ELSE IF s[i] \in S THEN kept[i - 1] ELSE Append(kept[i - 1], s[i])]
<1> DEFINE Step(f, i) == IF s[i] \in S THEN f[i - 1] ELSE Append(f[i - 1], s[i])
           Upto(k) == \E f : f = [i \in 0..k |-> IF i = 0 THEN <<>> ELSE Step(f, i)]
           bad == {k \in 0..Len(s) : ~Upto(k)}
<1>1. Len(s) \in Nat
  OBVIOUS
<1>2. Upto(0)
  <2> DEFINE f == [i \in 0..0 |-> <<>>]
  <2>1. f = [i \in 0..0 |-> IF i = 0 THEN <<>> ELSE Step(f, i)]
    OBVIOUS
  <2>2. QED
    BY <2>1
<1>3. ASSUME NEW m \in 0..Len(s), m # 0, Upto(m - 1) PROVE Upto(m)
  <2>1. m \in Nat /\ m - 1 \in Nat
    BY <1>1, <1>3
  <2>2. PICK g : g = [i \in 0..(m - 1) |-> IF i = 0 THEN <<>> ELSE Step(g, i)]
    BY <1>3
  <2> DEFINE f == [i \in 0..m |-> IF i = m THEN Step(g, m) ELSE g[i]]
  <2>3. ASSUME NEW i \in 0..m PROVE f[i] = IF i = 0 THEN <<>> ELSE Step(f, i)
    <3>1. CASE i = 0
      <4>1. f[0] = g[0] /\ g[0] = <<>>
        BY <1>3, <2>1, <2>2, <3>1
      <4>2. QED
        BY <3>1, <4>1
    <3>2. CASE i # 0
      <4>1. i - 1 \in 0..(m - 1) /\ i - 1 # m /\ i - 1 \in 0..m
        BY <2>1, <3>2
      <4>2. f[i - 1] = g[i - 1]
        BY <4>1
      <4>3. f[i] = Step(g, i)
        <5>1. CASE i = m
          BY <5>1
        <5>2. CASE i # m
          <6>1. i \in 0..(m - 1)
            BY <2>1, <5>2
          <6>2. g[i] = Step(g, i)
            BY <2>2, <3>2, <6>1
          <6>3. QED
            BY <5>2, <6>2
        <5>3. QED
          BY <5>1, <5>2
      <4>4. QED
        BY <3>2, <4>2, <4>3
    <3>3. QED
      BY <3>1, <3>2
  <2>4. f = [i \in 0..m |-> IF i = 0 THEN <<>> ELSE Step(f, i)]
    <3>1. \A i \in 0..m : f[i] = IF i = 0 THEN <<>> ELSE Step(f, i)
      BY <2>3
    <3>2. f = [i \in 0..m |-> f[i]]
      OBVIOUS
    <3> HIDE DEF f
    <3>3. QED
      BY <3>1, <3>2
  <2>5. QED
    BY <2>4
<1> HIDE DEF Upto
<1>4. bad = {}
  <2>1. SUFFICES ASSUME bad # {} PROVE FALSE
    OBVIOUS
  <2>2. bad \in SUBSET Nat
    BY <1>1
  <2>3. PICK m \in bad : \A k \in bad : m <= k
    BY <2>1, <2>2, LeastOf
  <2>4. m \in 0..Len(s) /\ ~Upto(m)
    OBVIOUS
  <2>5. m # 0
    BY <1>2, <2>4
  <2>6. m - 1 \in 0..Len(s) /\ m - 1 < m
    BY <1>1, <2>4, <2>5
  <2>7. Upto(m - 1)
    <3>1. m - 1 \notin bad
      BY <1>1, <2>3, <2>4, <2>6
    <3>2. QED
      BY <2>6, <3>1
  <2>8. QED
    BY <1>3, <2>4, <2>5, <2>7
<1>5. Upto(Len(s))
  <2>1. Len(s) \in 0..Len(s)
    BY <1>1
  <2>2. QED
    BY <1>4, <2>1
<1>6. QED
  BY <1>5 DEF Upto

\* An element more.
LEMMA AppendAdds ==
  ASSUME NEW T, NEW t \in Seq(T), NEW e \in T
  PROVE  Append(t, e) \in Seq(T) /\ ToSet(Append(t, e)) = ToSet(t) \union {e}
<1>1. /\ Append(t, e) \in Seq(T) /\ Len(Append(t, e)) = Len(t) + 1
      /\ \A i \in 1..Len(t) : Append(t, e)[i] = t[i]
      /\ Append(t, e)[Len(t) + 1] = e
  OBVIOUS
<1>2. /\ DOMAIN t = 1..Len(t) /\ Len(t) \in Nat
      /\ DOMAIN Append(t, e) = 1..(Len(t) + 1)
  BY <1>1
<1>3. 1..(Len(t) + 1) = 1..Len(t) \union {Len(t) + 1}
  BY <1>2
<1> DEFINE u == Append(t, e)
<1>4. ToSet(u) = {u[i] : i \in 1..Len(t)} \union {u[Len(t) + 1]}
  BY <1>2, <1>3 DEF ToSet
<1>5. {u[i] : i \in 1..Len(t)} = ToSet(t)
  BY <1>1, <1>2 DEF ToSet
<1>6. QED
  BY <1>1, <1>4, <1>5

\* What Without leaves: the notes of the sequence that are not in the set.
LEMMA WithoutKeepsTheRest ==
  ASSUME NEW s \in Seq(Note), NEW S
  PROVE  /\ Without(s, S) \in Seq(Note)
         /\ \A n : n \in ToSet(Without(s, S)) <=> n \in ToSet(s) /\ n \notin S
<1> DEFINE Is(f) == f = [i \in 0..Len(s) |->
              IF i = 0 THEN <<>>
              ELSE IF s[i] \in S THEN f[i - 1] ELSE Append(f[i - 1], s[i])]
           kept == CHOOSE f : Is(f)
           Holds(k) == /\ kept[k] \in Seq(Note)
                       /\ ToSet(kept[k]) = {s[j] : j \in 1..k} \ S
           bad == {k \in 0..Len(s) : ~Holds(k)}
<1>1. Without(s, S) = kept[Len(s)]
  BY DEF Without
<1>2. Is(kept)
  <2>1. \E f : Is(f)
    BY KeptExists
  <2> HIDE DEF Is
  <2>2. QED
    BY <2>1
<1>3. Len(s) \in Nat /\ DOMAIN s = 1..Len(s)
  OBVIOUS
<1> HIDE DEF kept
<1>4. Holds(0)
  <2>1. kept[0] = <<>>
    BY <1>2, <1>3
  <2>2. 1..0 = {}
    OBVIOUS
  <2>3. ToSet(<<>>) = {}
    BY DEF ToSet
  <2>4. QED
    BY <2>1, <2>2, <2>3
<1>5. ASSUME NEW m \in 0..Len(s), m # 0, Holds(m - 1) PROVE Holds(m)
  <2>1. m \in 1..Len(s) /\ m - 1 \in 0..Len(s)
    BY <1>3, <1>5
  <2>2. 1..m = 1..(m - 1) \union {m}
    BY <2>1
  <2>3. s[m] \in Note
    BY <2>1
  <2>4. CASE s[m] \in S
    <3>1. kept[m] = kept[m - 1]
      BY <1>2, <1>5, <2>1, <2>4
    <3>2. {s[j] : j \in 1..m} \ S = {s[j] : j \in 1..(m - 1)} \ S
      BY <2>2, <2>4
    <3>3. QED
      BY <1>5, <3>1, <3>2
  <2>5. CASE s[m] \notin S
    <3>1. kept[m] = Append(kept[m - 1], s[m])
      BY <1>2, <1>5, <2>1, <2>5
    <3>2. {s[j] : j \in 1..m} \ S = ({s[j] : j \in 1..(m - 1)} \ S) \union {s[m]}
      BY <2>2, <2>5
    <3> DEFINE t == kept[m - 1]
    <3>3. t \in Seq(Note) /\ ToSet(t) = {s[j] : j \in 1..(m - 1)} \ S
      BY <1>5
    <3> HIDE DEF t
    <3>4. Append(t, s[m]) \in Seq(Note) /\ ToSet(Append(t, s[m])) = ToSet(t) \union {s[m]}
      BY <2>3, <3>3, AppendAdds
    <3>5. QED
      BY <3>1, <3>2, <3>3, <3>4 DEF t
  <2>6. QED
    BY <2>4, <2>5
<1> HIDE DEF Holds
<1>6. bad = {}
  <2>1. SUFFICES ASSUME bad # {} PROVE FALSE
    OBVIOUS
  <2>2. bad \in SUBSET Nat
    BY <1>3
  <2>3. PICK m \in bad : \A k \in bad : m <= k
    BY <2>1, <2>2, LeastOf
  <2>4. m \in 0..Len(s) /\ ~Holds(m)
    OBVIOUS
  <2>5. m # 0
    BY <1>4, <2>4
  <2>6. m - 1 \in 0..Len(s) /\ m - 1 < m
    BY <1>3, <2>4, <2>5
  <2>7. m - 1 \notin bad
    BY <1>3, <2>3, <2>4, <2>6
  <2>8. Holds(m - 1)
    BY <2>6, <2>7
  <2>9. QED
    BY <1>5, <2>4, <2>5, <2>8
<1>7. Holds(Len(s))
  <2>1. Len(s) \in 0..Len(s)
    BY <1>3
  <2>2. QED
    BY <1>6, <2>1
<1>8. {s[j] : j \in 1..Len(s)} = ToSet(s)
  BY <1>3 DEF ToSet
<1>9. QED
  BY <1>1, <1>7, <1>8 DEF Holds

LEMMA HeadAndTail ==
  ASSUME NEW s \in Seq(Note), s # <<>>
  PROVE  /\ Tail(s) \in Seq(Note) /\ Head(s) \in ToSet(s)
         /\ ToSet(s) = ToSet(Tail(s)) \union {Head(s)}
<1>1. /\ Len(s) \in Nat /\ Len(s) > 0 /\ DOMAIN s = 1..Len(s)
      /\ Tail(s) \in Seq(Note) /\ Len(Tail(s)) = Len(s) - 1
      /\ \A i \in 1..(Len(s) - 1) : Tail(s)[i] = s[i + 1]
      /\ Head(s) = s[1]
  OBVIOUS
<1>2. DOMAIN Tail(s) = 1..(Len(s) - 1)
  BY <1>1
<1>3. Head(s) \in ToSet(s)
  BY <1>1 DEF ToSet
<1>4. ASSUME NEW x \in ToSet(s) PROVE x = Head(s) \/ x \in ToSet(Tail(s))
  <2>1. PICK i \in 1..Len(s) : x = s[i]
    BY <1>1, <1>4 DEF ToSet
  <2>2. CASE i = 1
    BY <1>1, <2>1, <2>2
  <2>3. CASE i # 1
    <3>1. i - 1 \in 1..(Len(s) - 1) /\ (i - 1) + 1 = i
      BY <1>1, <2>3
    <3>2. Tail(s)[i - 1] = x
      BY <1>1, <2>1, <3>1
    <3>3. QED
      BY <1>2, <3>1, <3>2 DEF ToSet
  <2>4. QED
    BY <2>2, <2>3
<1>5. ASSUME NEW x \in ToSet(Tail(s)) PROVE x \in ToSet(s)
  <2>1. PICK i \in 1..(Len(s) - 1) : x = Tail(s)[i]
    BY <1>2, <1>5 DEF ToSet
  <2>2. x = s[i + 1] /\ i + 1 \in 1..Len(s)
    BY <1>1, <2>1
  <2>3. QED
    BY <1>1, <2>2 DEF ToSet
<1>6. QED
  BY <1>1, <1>3, <1>4, <1>5

-----------------------------------------------------------------------------
(* The inductive invariant.                                                *)

\* How far the counters of the session and of the epoch objects may go.
Counted ==
  /\ replies + (IF working THEN 1 ELSE 0) <= steps + turn
  /\ working => turn > 0
  /\ turns.epoch <= turns.user /\ turns.user <= turn
  /\ minted <= forgets + (IF epoch = None THEN 0 ELSE 1)
  /\ epoch # None => epoch = minted
  /\ queue # None => epoch # None

\* The busy event of the turn under way is still to come: the plugin waits
\* for a reply, which is published after it, and older idle events precede it.
Announced(b) ==
  /\ events[b].kind = "busy"
  /\ turns.user = turn
  /\ turns.awaiting
  /\ \A i \in DOMAIN events :
       /\ events[i].kind = "reply" /\ events[i].turn = turn => b < i
       /\ events[i].kind = "idle" => i < b

\* That event was handled, and no idle event follows.
Seen ==
  /\ turns.status # "idle"
  /\ \A i \in DOMAIN events : events[i].kind # "idle"

EventsAreOld ==
  \A i \in DOMAIN events :
    /\ events[i].turn <= turn
    /\ events[i].kind = "user" => events[i].turn <= turns.user

WorkIsKnown == working => Seen \/ \E b \in DOMAIN events : Announced(b)

\* The running flush works for the epoch object the session has.
Current == epoch = flush.generation

\* A running flush works on cards; as long as its epoch object and its turn
\* are the session's, the primary rests and its latest reply is the one read.
FlushKnowsItsTurn ==
  flush.at # "no" =>
    /\ Held # None
    /\ flush.generation > 0 /\ flush.generation <= minted
    /\ detached # None => ~Current
    /\ Current => flush.epoch <= turns.epoch
    /\ Current /\ flush.epoch = turns.epoch =>
         /\ ~working
         /\ flush.snapshot # None => flush.snapshot.anchor = replies

Tries ==
  /\ queue # None /\ (detached # None \/ flush.at # "failed") =>
       queue.attempts < Attempts
  /\ detached # None /\ flush.at # "failed" => detached.attempts < Attempts

\* Where a flush is about one card, the first of those it holds.
AtCard == {"eligible", "read", "load", "render", "write"}

Assessed(n) == n \in Note /\ stage[n] # "new" /\ stage[n] # "assess"

CardsInHand ==
  /\ flush.at \in AtCard => Held.notes # <<>> /\ Head(Held.notes) = flush.note
  /\ flush.at \in {"render", "write"} => flush.snapshot # None
  /\ flush.at = "record" => Assessed(flush.note)
  /\ queue # None =>
       \A n \in ToSet(queue.notes) : Assessed(n) /\ epochOf[n] = epoch
  /\ detached # None => \A n \in ToSet(detached.notes) : Assessed(n)
  /\ \A n \in Note : stage[n] \in {"chained", "pointer"} => epochOf[n] # None

\* What a flush read of the session is what the session shows.
SnapshotIsTrue ==
  /\ flush.snapshot # None =>
       flush.snapshot.cards = {n \in Note : card[n] # None}
  /\ flush.at = "record" => card[flush.note] # None
  /\ \A n \in Note : stage[n] = "new" => card[n] = None

\* While no call fails every card has its receipt, but for the one being
\* recorded, and the card being written is the first of its finding.
CardsAreRecorded ==
  faults = 0 =>
    /\ \A n \in Note : card[n] # None =>
         n \in receipts \/ (flush.at = "record" /\ flush.note = n)
    /\ flush.at \in {"load", "render", "write"} =>
         \A n \in Note : about[n] = about[flush.note] => card[n] = None

IInv ==
  /\ TypeOK /\ Counted /\ EventsAreOld /\ WorkIsKnown /\ FlushKnowsItsTurn
  /\ Tries /\ CardsInHand /\ SnapshotIsTrue /\ CardsAreRecorded
  /\ ReceiptsAreShown /\ OneCardPerFinding

-----------------------------------------------------------------------------
(* The steps of a flush.                                                   *)

LEMMA BoundsAreNumbers ==
  ASSUME TypeOK
  PROVE  /\ MaxTurns \in Nat /\ MaxSteps \in Nat /\ Faults \in Nat
         /\ Forgets \in Nat
BY BoundsAssumption DEF TypeOK, MaxTurns, MaxSteps, Faults, Forgets

\* The cards a running flush holds.
LEMMA CardsHeld ==
  ASSUME IInv, flush.at # "no"
  PROVE  /\ Held \in Cards /\ Held # None
         /\ Held.notes \in Seq(Note) /\ Held.attempts \in 0..Attempts
         /\ flush.at # "failed" => Held.attempts < Attempts
         /\ flush \in Flush /\ flush.batch \subseteq Note
         /\ flush.epoch \in 0..MaxTurns /\ flush.generation \in 0..Forgets + 1
         /\ flush.snapshot \in Snapshot \union {None}
         /\ \A n \in ToSet(Held.notes) : Assessed(n)
<1>1. Held \in Cards /\ Held # None
  BY DEF IInv, TypeOK, FlushKnowsItsTurn, Held
<1>2. Held.notes \in Seq(Note) /\ Held.attempts \in 0..Attempts
  BY <1>1 DEF Cards
<1>3. flush.at # "failed" => Held.attempts < Attempts
  BY <1>1 DEF IInv, Tries, Held
<1>4. /\ flush \in Flush /\ flush.batch \subseteq Note
      /\ flush.epoch \in 0..MaxTurns /\ flush.generation \in 0..Forgets + 1
      /\ flush.snapshot \in Snapshot \union {None}
  BY DEF IInv, TypeOK, Flush
<1>5. \A n \in ToSet(Held.notes) : Assessed(n)
  BY <1>1 DEF IInv, CardsInHand, Held
<1>6. QED
  BY <1>1, <1>2, <1>3, <1>4, <1>5

LEMMA HeldWithoutItsFirst ==
  ASSUME IInv, flush.at # "no", Held.notes # <<>>
  PROVE  /\ Shifted(Held) \in Cards
         /\ Shifted(Held).notes = Tail(Held.notes)
         /\ Shifted(Held).attempts = Held.attempts
         /\ ToSet(Held.notes) = ToSet(Shifted(Held).notes) \union {Head(Held.notes)}
         /\ Head(Held.notes) \in ToSet(Held.notes)
<1>1. /\ Held \in Cards /\ Held.notes \in Seq(Note)
      /\ Held.attempts \in 0..Attempts
  BY CardsHeld
<1>2. /\ Tail(Held.notes) \in Seq(Note) /\ Head(Held.notes) \in ToSet(Held.notes)
      /\ ToSet(Held.notes) = ToSet(Tail(Held.notes)) \union {Head(Held.notes)}
  BY <1>1, HeadAndTail
<1>3. /\ Shifted(Held) \in Cards
      /\ Shifted(Held).notes = Tail(Held.notes)
      /\ Shifted(Held).attempts = Held.attempts
  <2>1. PICK h \in Cards : h = Held
    BY <1>1
  <2>2. Tail(h.notes) \in Seq(Note)
    BY <1>2, <2>1
  <2>3. /\ Shifted(h) \in Cards
        /\ Shifted(h).notes = Tail(h.notes)
        /\ Shifted(h).attempts = h.attempts
    BY <2>2 DEF Shifted, Cards
  <2>4. QED
    BY <2>1, <2>3
<1>4. QED
  BY <1>2, <1>3

\* What no step of a flush touches.
Beside == <<turn, working, replies, steps, events, withdrawn, turns, about,
            stage, epochOf, chain, epoch, minted, forgets, bounds>>

\* What every step of a flush does to the cards shown and their receipts.
ShowsMore ==
  /\ faults' \in 0..Faults
  /\ faults' = 0 => faults = 0
  /\ card' \in [Note -> Nat \union {None}]
  /\ \A n \in Note : card[n] # None => card'[n] # None
  /\ \A n \in Note : card'[n] # None => stage[n] # "new"
  /\ receipts \subseteq receipts' /\ receipts' \subseteq Note
  /\ \A n \in receipts' : card'[n] # None
  /\ UNCHANGED Beside
  /\ OneCardPerFinding'

LEMMA RestOfTypeOK ==
  ASSUME IInv, ShowsMore, queue' \in Cards \union {None},
         detached' \in Cards \union {None}, flush' \in Flush,
         flush'.at = "no" => detached' = None
  PROVE  TypeOK'
BY DEF IInv, ShowsMore, Beside, TypeOK, MaxTurns, MaxSteps, Faults, Forgets,
       Event, Flush, Turn

LEMMA Undisturbed ==
  ASSUME IInv, UNCHANGED Beside, queue' # None => queue # None
  PROVE  Counted' /\ EventsAreOld' /\ WorkIsKnown'
<1>1. Counted'
  BY DEF IInv, Counted, Beside
<1>2. EventsAreOld'
  BY DEF IInv, EventsAreOld, Beside
<1>3. WorkIsKnown'
  BY DEF IInv, WorkIsKnown, Seen, Announced, Beside
<1>4. QED
  BY <1>1, <1>2, <1>3

\* The flush f that goes on with the cards h fits what is shown and recorded.
Fits(h, f) ==
  /\ f \in Flush /\ f.at # "no" /\ h \in Cards
  /\ f.epoch = flush.epoch /\ f.generation = flush.generation
  /\ ToSet(h.notes) \subseteq ToSet(Held.notes)
  /\ f.at # "failed" => h.attempts < Attempts
  /\ f.snapshot # None =>
       /\ f.snapshot.cards = {n \in Note : card'[n] # None}
       /\ f.snapshot.anchor = IF flush.snapshot = None THEN replies
                              ELSE flush.snapshot.anchor
  /\ f.at \in AtCard => h.notes # <<>> /\ Head(h.notes) = f.note
  /\ f.at \in {"render", "write"} => f.snapshot # None
  /\ f.at = "record" => Assessed(f.note) /\ card'[f.note] # None
  /\ faults' = 0 =>
       /\ \A n \in Note : card'[n] # None =>
            n \in receipts' \/ (f.at = "record" /\ f.note = n)
       /\ f.at \in {"load", "render", "write"} =>
            \A n \in Note : about[n] = about[f.note] => card'[n] = None

\* A step with which the flush goes on preserves the invariant.
LEMMA GoingOn ==
  ASSUME IInv, flush.at # "no", ShowsMore, NEW h, NEW f, Fits(h, f),
         Continue(h, f)
  PROVE  IInv'
<1>1. /\ Held \in Cards /\ Held # None /\ h # None /\ h \in Cards
  BY CardsHeld, NoneAssumption DEF Fits
<1>2. flush' = f /\ Held' = h
  BY <1>1 DEF Continue, Held
<1>3. CASE detached = None
  <2>1. queue' = h /\ detached' = None /\ Held = queue
    BY <1>3 DEF Continue, Held
  <2>2. TypeOK'
    BY <1>1, <1>2, <2>1, RestOfTypeOK DEF Fits
  <2>3. Counted' /\ EventsAreOld' /\ WorkIsKnown'
    BY <1>1, <2>1, Undisturbed DEF ShowsMore
  <2>4. FlushKnowsItsTurn'
    <3>1. /\ UNCHANGED <<epoch, minted, turns, working, replies>>
      BY DEF ShowsMore, Beside
    <3>2. QED
      BY <1>1, <1>2, <2>1, <3>1
         DEF IInv, FlushKnowsItsTurn, Fits, Current
  <2>5. Tries'
    BY <1>2, <2>1 DEF Tries, Fits
  <2>6. CardsInHand'
    <3>1. UNCHANGED <<stage, epochOf, epoch>>
      BY DEF ShowsMore, Beside
    <3>2. \A n \in ToSet(h.notes) : Assessed(n) /\ epochOf[n] = epoch
      BY <1>1, <2>1 DEF IInv, CardsInHand, Fits
    <3>3. QED
      BY <1>2, <2>1, <3>1, <3>2 DEF IInv, CardsInHand, Fits, Assessed
  <2>7. QED
    BY <1>2, <2>2, <2>3, <2>4, <2>5, <2>6
       DEF IInv, SnapshotIsTrue, CardsAreRecorded, ReceiptsAreShown, Fits,
           ShowsMore, Beside
<1>4. CASE detached # None
  <2>1. queue' = queue /\ detached' = h /\ Held = detached
    BY <1>4 DEF Continue, Held
  <2>2. TypeOK'
    BY <1>1, <1>2, <2>1, RestOfTypeOK DEF Fits, IInv, TypeOK
  <2>3. Counted' /\ EventsAreOld' /\ WorkIsKnown'
    BY <1>1, <2>1, Undisturbed DEF ShowsMore
  <2>4. FlushKnowsItsTurn'
    <3>1. /\ UNCHANGED <<epoch, minted, turns, working, replies>>
      BY DEF ShowsMore, Beside
    <3>2. QED
      BY <1>1, <1>2, <1>4, <2>1, <3>1
         DEF IInv, FlushKnowsItsTurn, Fits, Current
  <2>5. Tries'
    BY <1>2, <1>4, <2>1 DEF IInv, Tries, Fits
  <2>6. CardsInHand'
    <3>1. UNCHANGED <<stage, epochOf, epoch>>
      BY DEF ShowsMore, Beside
    <3>2. \A n \in ToSet(h.notes) : Assessed(n)
      BY <1>4, <2>1 DEF IInv, CardsInHand, Fits
    <3>3. QED
      BY <1>2, <2>1, <3>1, <3>2 DEF IInv, CardsInHand, Fits, Assessed
  <2>7. QED
    BY <1>2, <2>2, <2>3, <2>4, <2>5, <2>6
       DEF IInv, SnapshotIsTrue, CardsAreRecorded, ReceiptsAreShown, Fits,
           ShowsMore, Beside
<1>5. QED
  BY <1>3, <1>4

\* A flush f just started at the turn t, for the cards q, has read nothing yet.
Started(t, f, q) ==
  /\ f \in Flush /\ f.at = "next" /\ f.snapshot = None
  /\ q # None /\ CanDeliver(t, t.epoch)
  /\ f.epoch = t.epoch /\ f.generation = epoch

LEMMA FlushedStarts ==
  ASSUME TypeOK, NEW t \in Turn, NEW q \in Cards \union {None}, NEW f,
         q # None => epoch # None
  PROVE  \/ Flushed(t, q, f) = f
         \/ f.at = "no" /\ Started(t, Flushed(t, q, f), q)
<1>1. CASE q # None /\ f.at = "no" /\ CanDeliver(t, t.epoch)
  <2> DEFINE g == [at |-> "next", epoch |-> t.epoch, generation |-> epoch,
                   batch |-> ToSet(q.notes), snapshot |-> None, note |-> None]
  <2>1. Flushed(t, q, f) = g
    BY <1>1 DEF Flushed, NoFlush
  <2>2. q.notes \in Seq(Note)
    BY <1>1 DEF Cards
  <2>3. ToSet(q.notes) \subseteq Note
    BY <2>2 DEF ToSet
  <2>4. t.epoch \in 0..MaxTurns
    BY DEF Turn
  <2>5. epoch \in 0..Forgets + 1
    BY <1>1, BoundsAreNumbers DEF TypeOK
  <2>6. g \in Flush
    BY <2>3, <2>4, <2>5 DEF Flush
  <2>7. QED
    BY <1>1, <2>1, <2>6 DEF Started
<1>2. QED
  BY <1>1 DEF Flushed

LEMMA NoFlushIsAFlush ==
  ASSUME TypeOK
  PROVE  NoFlush \in Flush
BY BoundsAreNumbers DEF NoFlush, Flush

\* What Stop leaves: the cards, and no flush or one just started for them.
LEMMA StopEnds ==
  ASSUME IInv, flush.at # "no", UNCHANGED Beside,
         NEW held \in Cards \union {None}, Stop(held)
  PROVE  /\ detached' = None /\ queue' \in Cards \union {None}
         /\ queue' = IF detached = None THEN held ELSE queue
         /\ flush' = NoFlush \/ Started(turns, flush', queue')
<1>1. /\ detached' = None
      /\ queue' = IF detached = None THEN held ELSE queue
      /\ queue' \in Cards \union {None}
  BY DEF Stop, IInv, TypeOK
<1>2. queue' # None => epoch # None
  <2>1. CASE detached = None
    <3>1. queue # None
      BY <2>1, CardsHeld DEF Held
    <3>2. QED
      BY <3>1 DEF IInv, Counted
  <2>2. CASE detached # None
    BY <1>1, <2>2 DEF IInv, Counted
  <2>3. QED
    BY <2>1, <2>2
<1>3. Flushed(turns, queue', NoFlush) = NoFlush \/
        Started(turns, Flushed(turns, queue', NoFlush), queue')
  <2>1. PICK q \in Cards \union {None} : q = queue'
    BY <1>1
  <2>2. Flushed(turns, q, NoFlush) = NoFlush \/
          Started(turns, Flushed(turns, q, NoFlush), q)
    BY <1>2, <2>1, FlushedStarts DEF IInv, TypeOK
  <2>3. QED
    BY <2>1, <2>2
<1>4. flush' = NoFlush \/ flush' = Flushed(turns, queue', NoFlush)
  BY DEF Stop, Finished
<1>5. QED
  BY <1>1, <1>3, <1>4

\* A flush starts where the plugin knows that the session is idle.
LEMMA Starting ==
  ASSUME TypeOK', Counted', WorkIsKnown', epoch' = epoch, detached' = None,
         flush' = NoFlush \/ Started(turns', flush', queue')
  PROVE  FlushKnowsItsTurn'
<1>1. CASE flush' = NoFlush
  BY <1>1 DEF FlushKnowsItsTurn, NoFlush
<1>2. CASE Started(turns', flush', queue')
  <2>1. /\ flush'.at = "next" /\ flush'.snapshot = None /\ queue' # None
        /\ turns'.status = "idle" /\ ~turns'.awaiting
        /\ flush'.epoch = turns'.epoch /\ flush'.generation = epoch'
    BY <1>2 DEF Started, CanDeliver
  <2>2. MaxTurns' \in Nat /\ Forgets' \in Nat
    BY BoundsAssumption DEF TypeOK, MaxTurns, Forgets
  <2>3. epoch' \in Nat /\ epoch' > 0 /\ epoch' = minted'
    BY <2>1, <2>2, NoneAssumption DEF TypeOK, Counted
  <2>4. ~working'
    BY <2>1 DEF WorkIsKnown, Seen, Announced
  <2>5. Held' = queue'
    BY DEF Held
  <2>6. turns'.epoch \in Nat
    BY <2>2 DEF TypeOK, Turn
  <2>7. QED
    BY <2>1, <2>3, <2>4, <2>5, <2>6 DEF FlushKnowsItsTurn, Current
<1>3. QED
  BY <1>1, <1>2

\* The cards left in a queue whose flush ends.
Leaves(held) ==
  held # None =>
    /\ held \in Cards /\ held.attempts < Attempts
    /\ ToSet(held.notes) \subseteq ToSet(Held.notes)

\* A step with which the flush ends preserves the invariant.
LEMMA Ending ==
  ASSUME IInv, flush.at # "no", ShowsMore, NEW held, Leaves(held), Stop(held),
         faults' = 0 => card' = card /\ flush.at # "record"
  PROVE  IInv'
<1>1. held \in Cards \union {None}
  BY DEF Leaves
<1>2. /\ detached' = None /\ queue' \in Cards \union {None}
      /\ queue' = IF detached = None THEN held ELSE queue
      /\ flush' = NoFlush \/ Started(turns, flush', queue')
  BY <1>1, StopEnds DEF ShowsMore
<1>3. detached = None => queue # None /\ queue = Held
  BY CardsHeld DEF Held
<1>4. queue' # None => queue # None /\ epoch # None
  BY <1>2, <1>3 DEF IInv, Counted
<1>5. TypeOK'
  <2>1. flush' \in Flush
    BY <1>2, NoFlushIsAFlush DEF Started, IInv
  <2>2. QED
    BY <1>2, <2>1, RestOfTypeOK
<1>6. Counted' /\ EventsAreOld' /\ WorkIsKnown'
  BY <1>4, Undisturbed DEF ShowsMore
<1>7. FlushKnowsItsTurn'
  BY <1>2, <1>5, <1>6, Starting DEF ShowsMore, Beside
<1>8. flush'.at \in {"no", "next"} /\ flush'.snapshot = None
  BY <1>2 DEF NoFlush, Started
<1>9. Tries'
  BY <1>2, <1>3, <1>8 DEF Tries, Leaves, IInv
<1>10. CardsInHand'
  <2>1. UNCHANGED <<stage, epochOf, epoch>>
    BY DEF ShowsMore, Beside
  <2>2. queue' # None =>
          \A n \in ToSet(queue'.notes) : Assessed(n) /\ epochOf[n] = epoch
    BY <1>2, <1>3 DEF IInv, CardsInHand, Leaves
  <2>3. QED
    BY <1>2, <1>8, <2>1, <2>2 DEF IInv, CardsInHand, Assessed, AtCard
<1>11. SnapshotIsTrue'
  BY <1>8 DEF SnapshotIsTrue, ShowsMore, Beside
<1>12. CardsAreRecorded'
  BY <1>8 DEF CardsAreRecorded, IInv, ShowsMore
<1>13. ReceiptsAreShown' /\ OneCardPerFinding'
  BY DEF ReceiptsAreShown, ShowsMore
<1>14. QED
  BY <1>5, <1>6, <1>7, <1>9, <1>10, <1>11, <1>12, <1>13 DEF IInv

-----------------------------------------------------------------------------
(* Each step of a flush preserves the invariant.                           *)

\* A step of a flush that shows and records nothing.
LEMMA NothingShown ==
  ASSUME IInv, UNCHANGED Beside, UNCHANGED <<card, receipts>>,
         faults' \in 0..Faults, faults' = 0 => faults = 0
  PROVE  ShowsMore
<1>1. OneCardPerFinding'
  BY DEF IInv, OneCardPerFinding, Beside
<1>2. \A n \in Note : card'[n] # None => stage[n] # "new"
  BY DEF IInv, SnapshotIsTrue
<1>3. QED
  BY <1>1, <1>2 DEF IInv, TypeOK, ShowsMore, ReceiptsAreShown

LEMMA BesideStays ==
  ASSUME UNCHANGED outside
  PROVE  UNCHANGED <<Beside, card, receipts>>
BY DEF outside, Beside, session, store, adding

\* What is known of the cards while the flush stands where it stands.
LEMMA StillTrue ==
  ASSUME IInv, UNCHANGED <<card, receipts, faults>>
  PROVE  /\ flush.snapshot # None =>
              flush.snapshot.cards = {n \in Note : card'[n] # None}
         /\ faults' = 0 /\ flush.at # "record" =>
              \A n \in Note : card'[n] # None => n \in receipts'
         /\ faults' \in 0..Faults
BY DEF IInv, TypeOK, SnapshotIsTrue, CardsAreRecorded

LEMMA StopsAsItIs ==
  ASSUME IInv, flush.at # "no", flush.at # "failed", flush.at # "record",
         UNCHANGED <<outside, faults>>, NEW held, held = None \/ held = Held,
         Stop(held)
  PROVE  IInv'
<1>1. UNCHANGED <<Beside, card, receipts>>
  BY BesideStays
<1>2. ShowsMore
  BY <1>1, StillTrue, NothingShown
<1>3. Leaves(held)
  BY CardsHeld DEF Leaves
<1>4. QED
  BY <1>1, <1>2, <1>3, Ending

\* The flush goes on with the card it has.
LEMMA GoesOnAsItIs ==
  ASSUME IInv, flush.at \notin {"no", "failed", "record"},
         UNCHANGED <<outside, faults>>, Held.notes # <<>>,
         NEW f \in Flush, f.at \in AtCard, f.note = Head(Held.notes),
         f.epoch = flush.epoch, f.generation = flush.generation,
         f.snapshot = flush.snapshot \/
           (flush.snapshot = None /\
            f.snapshot = [cards |-> {n \in Note : card[n] # None}, anchor |-> replies]),
         f.at \in {"render", "write"} => f.snapshot # None,
         f.at \in {"load", "render", "write"} /\ faults = 0 =>
           \A n \in Note : about[n] = about[f.note] => card[n] = None,
         Continue(Held, f)
  PROVE  IInv'
<1>1. UNCHANGED <<Beside, card, receipts>>
  BY BesideStays
<1>2. ShowsMore
  BY <1>1, StillTrue, NothingShown
<1>3. Held \in Cards /\ Held.attempts < Attempts
  BY CardsHeld
<1>4. Fits(Held, f)
  <2>1. f.snapshot # None =>
         /\ f.snapshot.cards = {n \in Note : card'[n] # None}
         /\ f.snapshot.anchor = IF flush.snapshot = None THEN replies
                                ELSE flush.snapshot.anchor
    BY <1>1, StillTrue
  <2>2. faults' = 0 => \A n \in Note : card'[n] # None => n \in receipts'
    BY <1>1, StillTrue
  <2>3. QED
    BY <1>1, <1>3, <2>1, <2>2 DEF Fits, AtCard
<1>5. QED
  BY <1>2, <1>4, GoingOn

\* The flush goes on to the card after the one it has.
LEMMA GoesOnToTheNext ==
  ASSUME IInv, flush.at \in AtCard, UNCHANGED <<outside, faults>>,
         Continue(Shifted(Held), [flush EXCEPT !.at = "next"])
  PROVE  IInv'
<1> DEFINE f == [flush EXCEPT !.at = "next"]
<1>1. UNCHANGED <<Beside, card, receipts>>
  BY BesideStays
<1>2. ShowsMore
  BY <1>1, StillTrue, NothingShown
<1>3. /\ f \in Flush /\ f.at = "next" /\ f.epoch = flush.epoch
      /\ f.generation = flush.generation /\ f.snapshot = flush.snapshot
  BY CardsHeld DEF Flush, AtCard
<1>4. Held.notes # <<>>
  BY DEF IInv, CardsInHand
<1>5. /\ Shifted(Held) \in Cards /\ Shifted(Held).attempts < Attempts
      /\ ToSet(Shifted(Held).notes) \subseteq ToSet(Held.notes)
  BY <1>4, HeldWithoutItsFirst, CardsHeld DEF AtCard
<1> HIDE DEF f
<1>6. Fits(Shifted(Held), f)
  <2>1. f.snapshot # None => f.snapshot.cards = {n \in Note : card'[n] # None}
    BY <1>1, <1>3, StillTrue
  <2>2. faults' = 0 => \A n \in Note : card'[n] # None => n \in receipts'
    BY <1>1, StillTrue DEF AtCard
  <2>3. QED
    BY <1>3, <1>5, <2>1, <2>2 DEF Fits, AtCard
<1>7. Continue(Shifted(Held), f)
  BY DEF f
<1>8. QED
  BY <1>2, <1>6, <1>7, GoingOn DEF AtCard

LEMMA NextCardKeeps ==
  ASSUME IInv, NextCard
  PROVE  IInv'
<1>1. flush.at = "next" /\ UNCHANGED <<outside, faults>>
  BY DEF NextCard
<1>2. CASE Held.notes = <<>> \/ ~StillCurrent
  <2>1. Stop(None) \/ Stop(Held)
    BY <1>2 DEF NextCard
  <2>2. QED
    BY <1>1, <2>1, StopsAsItIs
<1>3. CASE Held.notes # <<>> /\ StillCurrent
  <2> DEFINE f == [flush EXCEPT !.at = "eligible", !.note = Head(Held.notes)]
  <2>1. Continue(Held, f)
    BY <1>3 DEF NextCard
  <2>2. Head(Held.notes) \in Note
    BY <1>1, <1>3, CardsHeld
  <2>3. /\ f \in Flush /\ f.at = "eligible" /\ f.epoch = flush.epoch
        /\ f.note = Head(Held.notes)
        /\ f.generation = flush.generation /\ f.snapshot = flush.snapshot
    BY <1>1, <2>2, CardsHeld DEF Flush
  <2> HIDE DEF f
  <2>4. QED
    BY <1>1, <1>3, <2>1, <2>3, GoesOnAsItIs DEF AtCard
<1>4. QED
  BY <1>2, <1>3

\* Where a flush is about a card, it is the first it holds.
LEMMA AboutItsFirst ==
  ASSUME IInv, flush.at \in AtCard
  PROVE  /\ Held.notes # <<>> /\ Head(Held.notes) = flush.note
         /\ flush.note \in Note /\ flush.note \in ToSet(Held.notes)
         /\ Assessed(flush.note)
<1>1. Held.notes # <<>> /\ Head(Held.notes) = flush.note
  BY DEF IInv, CardsInHand
<1>2. flush.at # "no"
  BY DEF AtCard
<1>3. flush.note \in ToSet(Held.notes)
  BY <1>1, <1>2, HeldWithoutItsFirst
<1>4. QED
  BY <1>1, <1>2, <1>3, CardsHeld DEF Assessed

LEMMA RevalidateKeeps ==
  ASSUME IInv, Revalidate
  PROVE  IInv'
<1>1. flush.at = "eligible" /\ UNCHANGED <<outside, faults>>
  BY DEF Revalidate
<1>2. CASE flush.note \in withdrawn
  BY <1>1, <1>2, GoesOnToTheNext DEF Revalidate, AtCard
<1>3. CASE flush.note \notin withdrawn
  <2> DEFINE f == [flush EXCEPT !.at = "read"]
  <2>1. Continue(Held, f)
    BY <1>3 DEF Revalidate
  <2>2. /\ f \in Flush /\ f.at = "read" /\ f.epoch = flush.epoch
        /\ f.note = flush.note
        /\ f.generation = flush.generation /\ f.snapshot = flush.snapshot
    BY <1>1, CardsHeld DEF Flush
  <2> HIDE DEF f
  <2>3. QED
    BY <1>1, <2>1, <2>2, AboutItsFirst, GoesOnAsItIs DEF AtCard
<1>4. QED
  BY <1>2, <1>3

LEMMA ReadForDeliveryKeeps ==
  ASSUME IInv, ReadForDelivery
  PROVE  IInv'
<1>1. flush.at = "read" /\ UNCHANGED <<outside, faults>>
  BY DEF ReadForDelivery
<1>2. CASE ~Ready(flush.note)
  BY <1>1, <1>2, GoesOnToTheNext DEF ReadForDelivery, AtCard
<1>3. CASE Ready(flush.note) /\ ~StillCurrent
  BY <1>1, <1>3, StopsAsItIs DEF ReadForDelivery
<1>4. CASE Ready(flush.note) /\ StillCurrent
  <2> DEFINE f == [flush EXCEPT !.at = "load"]
  <2>1. Continue(Held, f)
    BY <1>4 DEF ReadForDelivery
  <2>2. /\ f \in Flush /\ f.at = "load" /\ f.epoch = flush.epoch
        /\ f.note = flush.note
        /\ f.generation = flush.generation /\ f.snapshot = flush.snapshot
    BY <1>1, CardsHeld DEF Flush
  <2> HIDE DEF f
  <2>3. ASSUME faults = 0, NEW n \in Note, about[n] = about[flush.note]
        PROVE  card[n] = None
    <3>1. n \notin receipts
      BY <1>4, <2>3 DEF Ready, DeliveredFinding
    <3>2. QED
      BY <1>1, <2>3, <3>1 DEF IInv, CardsAreRecorded
  <2>4. QED
    BY <1>1, <2>1, <2>2, <2>3, AboutItsFirst, GoesOnAsItIs DEF AtCard
<1>5. QED
  BY <1>2, <1>3, <1>4

LEMMA LoadDestinationKeeps ==
  ASSUME IInv, LoadDestination
  PROVE  IInv'
<1>1. flush.at = "load" /\ UNCHANGED <<outside, faults>>
  BY DEF LoadDestination
<1> DEFINE loaded == IF flush.snapshot # None THEN flush.snapshot
                     ELSE [cards |-> {n \in Note : card[n] # None},
                           anchor |-> replies]
           f == [flush EXCEPT !.at = "render", !.snapshot = loaded]
<1>2. Continue(Held, f)
  BY DEF LoadDestination
<1>3. loaded \in Snapshot
  <2>1. replies \in Nat
    BY BoundsAreNumbers DEF IInv, TypeOK
  <2>2. [cards |-> {n \in Note : card[n] # None}, anchor |-> replies] \in Snapshot
    BY <2>1 DEF Snapshot
  <2>3. QED
    BY <1>1, <2>2, CardsHeld
<1>4. loaded # None
  BY <1>3, NoneAssumption
<1>5. loaded = flush.snapshot \/
        (flush.snapshot = None /\
         loaded = [cards |-> {n \in Note : card[n] # None}, anchor |-> replies])
  OBVIOUS
<1> HIDE DEF loaded
<1>6. /\ f \in Flush /\ f.at = "render" /\ f.epoch = flush.epoch
      /\ f.note = flush.note
      /\ f.generation = flush.generation /\ f.snapshot = loaded
  BY <1>1, <1>3, CardsHeld DEF Flush
<1> HIDE DEF f
<1>7. faults = 0 => \A n \in Note : about[n] = about[flush.note] => card[n] = None
  BY <1>1 DEF IInv, CardsAreRecorded
<1>8. QED
  BY <1>1, <1>2, <1>4, <1>5, <1>6, <1>7, AboutItsFirst, GoesOnAsItIs DEF AtCard

\* The card is shown, by this write or by an earlier one.
LEMMA AcknowledgedKeeps ==
  ASSUME IInv, flush.at \in {"render", "write"}, ShowsMore, Acknowledged,
         UNCHANGED <<receipts, faults>>, card'[flush.note] # None,
         \A n \in Note : n # flush.note => card'[n] = card[n]
  PROVE  IInv'
<1> DEFINE h == [Shifted(Held) EXCEPT !.attempts = 0]
           f == [flush EXCEPT !.at = "record",
                              !.snapshot.cards = @ \union {flush.note}]
<1>1. flush.at # "no" /\ flush.at \in AtCard
  BY DEF AtCard
<1>2. flush.note \in Note /\ Held.notes # <<>> /\ Assessed(flush.note)
  BY <1>1, AboutItsFirst
<1>3. /\ Shifted(Held) \in Cards
      /\ ToSet(Shifted(Held).notes) \subseteq ToSet(Held.notes)
  BY <1>1, <1>2, HeldWithoutItsFirst
<1>4. h \in Cards /\ h.notes = Shifted(Held).notes /\ h.attempts = 0
  <2>1. PICK t \in Cards : t = Shifted(Held)
    BY <1>3
  <2>2. /\ [t EXCEPT !.attempts = 0] \in Cards
        /\ [t EXCEPT !.attempts = 0].notes = t.notes
        /\ [t EXCEPT !.attempts = 0].attempts = 0
    BY AttemptsAssumption DEF Cards
  <2>3. QED
    BY <2>1, <2>2
<1>5. flush \in Flush /\ flush.snapshot \in Snapshot /\ flush.snapshot # None
  BY <1>1, CardsHeld DEF IInv, CardsInHand
<1>6. /\ f \in Flush /\ f.at = "record" /\ f.epoch = flush.epoch
      /\ f.generation = flush.generation /\ f.note = flush.note
      /\ f.snapshot.cards = flush.snapshot.cards \union {flush.note}
      /\ f.snapshot.anchor = flush.snapshot.anchor
  BY <1>2, <1>5 DEF Flush, Snapshot
<1>7. f.snapshot.cards = {n \in Note : card'[n] # None}
  <2>1. flush.snapshot.cards = {n \in Note : card[n] # None}
    BY <1>5 DEF IInv, SnapshotIsTrue
  <2>2. \A n \in Note : card'[n] # None <=> card[n] # None \/ n = flush.note
    BY DEF ShowsMore
  <2>3. {n \in Note : card'[n] # None} = {n \in Note : card[n] # None} \union {flush.note}
    BY <1>2, <2>2
  <2>4. QED
    BY <1>6, <2>1, <2>3
<1>8. faults' = 0 =>
        \A n \in Note : card'[n] # None => n \in receipts' \/ flush.note = n
  BY DEF IInv, CardsAreRecorded
<1>9. Continue(h, f)
  BY DEF Acknowledged
<1> HIDE DEF h, f
<1>10. Fits(h, f)
  BY <1>2, <1>3, <1>4, <1>5, <1>6, <1>7, <1>8, AttemptsAssumption DEF Fits, AtCard
<1>11. QED
  BY <1>1, <1>9, <1>10, GoingOn

LEMMA RenderKeeps ==
  ASSUME IInv, Render
  PROVE  IInv'
<1>1. flush.at = "render" /\ UNCHANGED <<outside, faults>>
  BY DEF Render
<1>2. UNCHANGED <<Beside, card, receipts>>
  BY <1>1, BesideStays
<1>3. /\ flush.note \in Note /\ Held.notes # <<>> /\ Head(Held.notes) = flush.note
  BY <1>1, AboutItsFirst DEF AtCard
<1>4. /\ flush.snapshot # None
      /\ flush.snapshot.cards = {n \in Note : card[n] # None}
  BY <1>1 DEF IInv, CardsInHand, SnapshotIsTrue
<1>5. CASE Written(flush.note)
  <2>1. card'[flush.note] # None
    BY <1>2, <1>4, <1>5 DEF Written
  <2>2. ShowsMore
    BY <1>1, <1>2, StillTrue, NothingShown
  <2>3. QED
    BY <1>1, <1>2, <1>5, <2>1, <2>2, AcknowledgedKeeps DEF Render
<1>6. CASE ~Written(flush.note) /\ flush.snapshot.anchor # 0 /\ StillCurrent
  <2> DEFINE f == [flush EXCEPT !.at = "write"]
  <2>1. Continue(Held, f)
    BY <1>6 DEF Render
  <2>2. /\ f \in Flush /\ f.at = "write" /\ f.epoch = flush.epoch
        /\ f.note = flush.note
        /\ f.generation = flush.generation /\ f.snapshot = flush.snapshot
    BY <1>1, CardsHeld DEF Flush
  <2> HIDE DEF f
  <2>3. faults = 0 => \A n \in Note : about[n] = about[flush.note] => card[n] = None
    BY <1>1 DEF IInv, CardsAreRecorded
  <2>4. QED
    BY <1>1, <1>3, <1>4, <2>1, <2>2, <2>3, GoesOnAsItIs DEF AtCard
<1>7. CASE ~Written(flush.note) /\ ~(flush.snapshot.anchor # 0 /\ StillCurrent)
  BY <1>1, <1>7, StopsAsItIs DEF Render
<1>8. QED
  BY <1>5, <1>6, <1>7

\* The card that is written is a number the session shows; nothing else is
\* shown by it.
LEMMA WritingShows ==
  ASSUME IInv, flush.at = "write",
         card' = [card EXCEPT ![flush.note] = flush.snapshot.anchor],
         UNCHANGED Beside, receipts' = receipts, faults' \in 0..Faults,
         faults' = 0 => faults = 0
  PROVE  /\ ShowsMore /\ card'[flush.note] # None
         /\ \A n \in Note : n # flush.note => card'[n] = card[n]
<1>1. flush.note \in Note /\ Assessed(flush.note)
  BY AboutItsFirst DEF AtCard
<1>2. flush.snapshot.anchor \in Nat
  BY CardsHeld DEF IInv, CardsInHand, Snapshot
<1>3. /\ card' \in [Note -> Nat \union {None}]
      /\ card'[flush.note] # None
      /\ \A n \in Note : n # flush.note => card'[n] = card[n]
  BY <1>1, <1>2, NoneAssumption DEF IInv, TypeOK
<1>4. OneCardPerFinding'
  <2>1. SUFFICES ASSUME faults' = 0, NEW m \in Note, NEW n \in Note, m # n,
                        about[m] = about[n], card'[m] # None, card'[n] # None
                 PROVE  FALSE
    BY DEF OneCardPerFinding, Beside
  <2>2. faults = 0
    BY <2>1
  <2>3. CASE m = flush.note \/ n = flush.note
    BY <1>3, <2>1, <2>2, <2>3 DEF IInv, CardsAreRecorded
  <2>4. CASE m # flush.note /\ n # flush.note
    BY <1>3, <2>1, <2>2, <2>4 DEF IInv, OneCardPerFinding
  <2>5. QED
    BY <2>3, <2>4
<1>5. \A n \in Note : card'[n] # None => stage[n] # "new"
  BY <1>1, <1>3 DEF IInv, SnapshotIsTrue, Assessed
<1>6. QED
  BY <1>3, <1>4, <1>5 DEF IInv, TypeOK, ShowsMore, ReceiptsAreShown

LEMMA WriteSucceedsKeeps ==
  ASSUME IInv, WriteSucceeds
  PROVE  IInv'
<1>1. /\ flush.at = "write" /\ UNCHANGED Beside /\ UNCHANGED <<receipts, faults>>
      /\ card' = [card EXCEPT ![flush.note] = flush.snapshot.anchor]
  BY DEF WriteSucceeds, Beside, store, adding
<1>2. /\ ShowsMore /\ card'[flush.note] # None
      /\ \A n \in Note : n # flush.note => card'[n] = card[n]
  BY <1>1, StillTrue, WritingShows DEF IInv, TypeOK
<1>3. QED
  BY <1>1, <1>2, AcknowledgedKeeps DEF WriteSucceeds

\* A failure ends the flush or, the Attempts-th time, goes on to give up.
LEMMA FailedKeeps ==
  ASSUME IInv, flush.at \in {"load", "write"}, ShowsMore, faults' # 0, Failed(Held)
  PROVE  IInv'
<1> DEFINE counted == [Held EXCEPT !.attempts = @ + 1]
           f == [flush EXCEPT !.at = "failed",
                   !.batch = @ \intersect ToSet(Held.notes),
                   !.snapshot = None, !.note = None]
<1>1. Held \in Cards /\ Held.attempts < Attempts /\ flush.at # "no"
  BY CardsHeld
<1>2. /\ counted \in Cards /\ counted.notes = Held.notes
      /\ counted.attempts = Held.attempts + 1
  <2>1. PICK h \in Cards : h = Held
    BY <1>1
  <2>2. h.attempts + 1 \in 0..Attempts
    BY <1>1, <2>1, AttemptsAssumption DEF Cards
  <2>3. /\ [h EXCEPT !.attempts = @ + 1] \in Cards
        /\ [h EXCEPT !.attempts = @ + 1].notes = h.notes
        /\ [h EXCEPT !.attempts = @ + 1].attempts = h.attempts + 1
    BY <2>2 DEF Cards
  <2>4. QED
    BY <2>1, <2>3
<1>3. /\ f \in Flush /\ f.at = "failed" /\ f.snapshot = None
      /\ f.epoch = flush.epoch /\ f.generation = flush.generation
  BY <1>1, CardsHeld DEF Flush
<1>4. IF counted.attempts < Attempts THEN Stop(counted) ELSE Continue(counted, f)
  BY DEF Failed
<1> HIDE DEF counted, f
<1>5. CASE counted.attempts < Attempts
  <2>1. Leaves(counted)
    BY <1>2, <1>5 DEF Leaves
  <2>2. QED
    BY <1>1, <1>4, <1>5, <2>1, Ending
<1>6. CASE ~(counted.attempts < Attempts)
  <2>1. Fits(counted, f)
    BY <1>2, <1>3 DEF Fits, AtCard
  <2>2. QED
    BY <1>1, <1>4, <1>6, <2>1, GoingOn
<1>7. QED
  BY <1>5, <1>6

LEMMA OneMoreFault ==
  ASSUME IInv, Fails
  PROVE  faults' \in 0..Faults /\ faults' # 0
BY BoundsAreNumbers DEF IInv, TypeOK, Fails

LEMMA LoadFailsKeeps ==
  ASSUME IInv, LoadFails
  PROVE  IInv'
<1>1. /\ flush.at = "load" /\ Failed(Held) /\ UNCHANGED <<Beside, card, receipts>>
      /\ faults' \in 0..Faults /\ faults' # 0
  BY BesideStays, OneMoreFault DEF LoadFails
<1>2. ShowsMore
  BY <1>1, NothingShown
<1>3. QED
  BY <1>1, <1>2, FailedKeeps

LEMMA WriteFailsKeeps ==
  ASSUME IInv, WriteFails
  PROVE  IInv'
<1>1. /\ flush.at = "write" /\ Failed(Held) /\ UNCHANGED <<Beside, receipts>>
      /\ faults' \in 0..Faults /\ faults' # 0
  BY OneMoreFault DEF WriteFails, Beside, store, adding
<1>2. ShowsMore
  <2>1. CASE card' = card
    BY <1>1, <2>1, NothingShown
  <2>2. CASE card' = [card EXCEPT ![flush.note] = flush.snapshot.anchor]
    BY <1>1, <2>2, WritingShows
  <2>3. QED
    BY <2>1, <2>2 DEF WriteFails
<1>3. QED
  BY <1>1, <1>2, FailedKeeps

\* After a card was shown the flush goes on, with or without its receipt.
LEMMA ShownGoesOn ==
  ASSUME IInv, flush.at = "record", ShowsMore, card' = card,
         faults' = 0 => flush.note \in receipts',
         Continue(Held, [flush EXCEPT !.at = "next", !.note = None])
  PROVE  IInv'
<1> DEFINE f == [flush EXCEPT !.at = "next", !.note = None]
<1>1. /\ f \in Flush /\ f.at = "next" /\ f.epoch = flush.epoch
      /\ f.generation = flush.generation /\ f.snapshot = flush.snapshot
  BY CardsHeld DEF Flush
<1>2. Continue(Held, f)
  OBVIOUS
<1> HIDE DEF f
<1>3. faults' = 0 => \A n \in Note : card'[n] # None => n \in receipts'
  BY DEF IInv, CardsAreRecorded, ShowsMore
<1>4. flush.snapshot # None =>
        flush.snapshot.cards = {n \in Note : card'[n] # None}
  BY DEF IInv, SnapshotIsTrue
<1>5. Fits(Held, f)
  BY <1>1, <1>3, <1>4, CardsHeld DEF Fits, AtCard
<1>6. QED
  BY <1>2, <1>5, GoingOn

LEMMA RecordKeeps ==
  ASSUME IInv, Record
  PROVE  IInv'
<1>1. /\ flush.at = "record" /\ UNCHANGED Beside /\ UNCHANGED <<card, faults>>
      /\ receipts' = receipts \union {flush.note}
  BY DEF Record, Beside, session, adding
<1>2. flush.note \in Note /\ card[flush.note] # None
  BY <1>1 DEF IInv, CardsInHand, SnapshotIsTrue, Assessed
<1>3. OneCardPerFinding'
  BY <1>1 DEF IInv, OneCardPerFinding, Beside
<1>4. ShowsMore
  BY <1>1, <1>2, <1>3, StillTrue
     DEF IInv, TypeOK, ShowsMore, ReceiptsAreShown, SnapshotIsTrue
<1>5. QED
  BY <1>1, <1>4, ShownGoesOn DEF Record

LEMMA RecordFailsKeeps ==
  ASSUME IInv, RecordFails
  PROVE  IInv'
<1>1. /\ flush.at = "record" /\ UNCHANGED <<Beside, card, receipts>>
      /\ faults' \in 0..Faults /\ faults' # 0
  BY BesideStays, OneMoreFault DEF RecordFails
<1>2. ShowsMore
  BY <1>1, NothingShown
<1>3. QED
  BY <1>1, <1>2, ShownGoesOn DEF RecordFails

\* The cards that outlive a batch that was given up.
LEMMA SurvivorsAreHeld ==
  ASSUME IInv, flush.at = "failed"
  PROVE  /\ Survivors \in Seq(Note)
         /\ \A n : n \in ToSet(Survivors) <=>
              n \in ToSet(Held.notes) /\ n \notin flush.batch
BY CardsHeld, WithoutKeepsTheRest DEF Survivors

LEMMA GiveUpKeeps ==
  ASSUME IInv, GiveUp
  PROVE  IInv'
<1>1. /\ flush.at = "failed" /\ UNCHANGED <<Beside, card, receipts>>
      /\ UNCHANGED faults
  BY BesideStays DEF GiveUp
<1>2. ShowsMore
  BY <1>1, StillTrue, NothingShown
<1> DEFINE held == IF Survivors = <<>> THEN None
                   ELSE [notes |-> Survivors, attempts |-> 0]
<1>3. Leaves(held)
  <2>1. [notes |-> Survivors, attempts |-> 0] \in Cards
    BY <1>1, SurvivorsAreHeld, AttemptsAssumption DEF Cards
  <2>2. QED
    BY <1>1, <2>1, SurvivorsAreHeld, AttemptsAssumption DEF Leaves
<1>4. Stop(held)
  BY DEF GiveUp
<1> HIDE DEF held
<1>5. QED
  BY <1>1, <1>2, <1>3, <1>4, Ending

-----------------------------------------------------------------------------
(* Each step of the session preserves the invariant.                       *)

\* The events of the session as the plugin will see them: those before, and
\* the ones published now.
LEMMA Published ==
  ASSUME NEW s \in Seq(Event), NEW a \in Event, NEW b \in Event
  PROVE  /\ s \o <<a, b>> \in Seq(Event)
         /\ DOMAIN s = 1..Len(s) /\ Len(s) \in Nat
         /\ DOMAIN (s \o <<a, b>>) = 1..(Len(s) + 2)
         /\ \A i \in 1..Len(s) : (s \o <<a, b>>)[i] = s[i]
         /\ (s \o <<a, b>>)[Len(s) + 1] = a
         /\ (s \o <<a, b>>)[Len(s) + 2] = b
<1>1. <<a, b>> \in Seq(Event) /\ Len(<<a, b>>) = 2
  OBVIOUS
<1>2. Len(s \o <<a, b>>) = Len(s) + 2 /\ Len(s) \in Nat
  BY <1>1
<1>3. QED
  BY <1>1, <1>2

LEMMA PublishedOne ==
  ASSUME NEW s \in Seq(Event), NEW a \in Event
  PROVE  /\ Append(s, a) \in Seq(Event)
         /\ DOMAIN s = 1..Len(s) /\ Len(s) \in Nat
         /\ DOMAIN Append(s, a) = 1..(Len(s) + 1)
         /\ \A i \in 1..Len(s) : Append(s, a)[i] = s[i]
         /\ Append(s, a)[Len(s) + 1] = a
OBVIOUS

\* Nothing but the session, the events and the plugin's turn changes.
Around == <<card, store, about, stage, epochOf, chain, minted, flush, faults, bounds>>

LEMMA AroundStays ==
  ASSUME IInv, UNCHANGED Around, UNCHANGED <<queue, detached, epoch>>
  PROVE  /\ Tries' /\ CardsInHand' /\ SnapshotIsTrue' /\ CardsAreRecorded'
         /\ ReceiptsAreShown' /\ OneCardPerFinding' /\ Held' = Held
<1>1. Held' = Held
  BY DEF Held, Around
<1>2. Tries' /\ CardsInHand'
  BY <1>1 DEF IInv, Tries, CardsInHand, Assessed, Around
<1>3. /\ SnapshotIsTrue' /\ CardsAreRecorded' /\ ReceiptsAreShown'
      /\ OneCardPerFinding'
  BY DEF IInv, SnapshotIsTrue, CardsAreRecorded, ReceiptsAreShown,
         OneCardPerFinding, Around, store
<1>4. QED
  BY <1>1, <1>2, <1>3

LEMMA TurnsAreNumbers ==
  ASSUME TypeOK
  PROVE  /\ MaxTurns \in Nat /\ MaxSteps \in Nat /\ Forgets \in Nat
         /\ turn \in Nat /\ steps \in Nat /\ replies \in Nat /\ minted \in Nat
         /\ forgets \in Nat
         /\ turns.epoch \in Nat /\ turns.user \in Nat /\ turns.awaiting \in BOOLEAN
         /\ turns.status \in {"idle", "busy", None}
         /\ \A i \in DOMAIN events : events[i] \in Event /\ events[i].turn \in Nat
<1>1. MaxTurns \in Nat /\ MaxSteps \in Nat /\ Forgets \in Nat
  BY BoundsAreNumbers
<1>2. /\ turn \in Nat /\ steps \in Nat /\ replies \in Nat /\ minted \in Nat
      /\ forgets \in Nat
      /\ turns.epoch \in Nat /\ turns.user \in Nat /\ turns.awaiting \in BOOLEAN
      /\ turns.status \in {"idle", "busy", None}
  BY <1>1 DEF TypeOK, Turn
<1>3. ASSUME NEW i \in DOMAIN events
      PROVE  events[i] \in Event /\ events[i].turn \in Nat
  <2>1. events[i] \in Event
    BY DEF TypeOK
  <2>2. QED
    BY <1>1, <2>1 DEF Event
<1>4. QED
  BY <1>1, <1>2, <1>3

LEMMA UserMessageKeeps ==
  ASSUME IInv, UserMessage
  PROVE  IInv'
<1> DEFINE a == [kind |-> "user", turn |-> turn + 1]
           b == [kind |-> "busy", turn |-> turn + 1]
           l == Len(events)
<1>1. /\ turn < MaxTurns /\ turn' = turn + 1 /\ working' = TRUE
      /\ turns' = OnUser(turns, turn + 1) /\ events' = events \o <<a, b>>
      /\ UNCHANGED Around /\ UNCHANGED <<queue, detached, epoch, replies, steps, forgets>>
  BY DEF UserMessage, Around, adding, flushing
<1>2. TypeOK
  BY DEF IInv
<1>3. turns' = [epoch |-> turns.epoch + 1, user |-> turn + 1, awaiting |-> TRUE,
                status |-> "busy"]
  <2>1. ~(turn + 1 <= turns.user)
    BY <1>2, TurnsAreNumbers DEF IInv, Counted
  <2>2. QED
    BY <1>1, <2>1 DEF OnUser
<1>4. a \in Event /\ b \in Event
  BY <1>1, <1>2, TurnsAreNumbers DEF Event
<1>5. /\ events' \in Seq(Event) /\ l \in Nat
      /\ DOMAIN events = 1..l /\ DOMAIN events' = 1..(l + 2)
      /\ \A i \in 1..l : events'[i] = events[i]
      /\ events'[l + 1] = a /\ events'[l + 2] = b
  BY <1>1, <1>2, <1>4, Published DEF TypeOK
<1> HIDE DEF l
<1>6. \A i \in 1..(l + 2) : i \in 1..l \/ i = l + 1 \/ i = l + 2
  BY <1>5
<1>7. TypeOK'
  <2>1. turns' \in Turn
    <3>1. turns.epoch + 1 \in 0..MaxTurns /\ turn + 1 \in 0..MaxTurns
      BY <1>1, <1>2, TurnsAreNumbers DEF IInv, Counted
    <3>2. turns' \in [epoch : 0..MaxTurns, user : 0..MaxTurns,
                      awaiting : BOOLEAN, status : {"idle", "busy", None}]
      BY <1>3, <3>1
    <3>3. QED
      BY <3>2 DEF Turn
  <2>2. turn' \in 0..MaxTurns
    BY <1>1, <1>2, TurnsAreNumbers
  <2>3. QED
    BY <1>1, <1>5, <2>1, <2>2
       DEF IInv, TypeOK, Around, store, MaxTurns, MaxSteps, Faults, Forgets,
           Event, Flush, Turn
<1>8. Counted'
  <2>1. turns'.epoch = turns.epoch + 1 /\ turns'.user = turn + 1
    BY <1>3
  <2>2. turns.epoch + 1 <= turn + 1 /\ replies + 1 <= steps + (turn + 1)
    BY <1>2, TurnsAreNumbers DEF IInv, Counted
  <2>3. turn + 1 > 0
    BY <1>2, TurnsAreNumbers
  <2>4. QED
    BY <1>1, <2>1, <2>2, <2>3 DEF IInv, Counted, Around
<1>9. EventsAreOld'
  <2>1. ASSUME NEW i \in DOMAIN events'
        PROVE  events'[i].turn <= turn + 1
    <3>1. CASE i \in 1..l
      BY <1>2, <1>5, <3>1, TurnsAreNumbers DEF IInv, EventsAreOld
    <3>2. CASE i = l + 1 \/ i = l + 2
      BY <1>2, <1>5, <3>2, TurnsAreNumbers
    <3>3. QED
      BY <1>5, <1>6, <3>1, <3>2
  <2>2. QED
    BY <1>1, <1>3, <2>1 DEF EventsAreOld
<1>10. WorkIsKnown'
  <2>1. ASSUME NEW i \in DOMAIN events', events'[i].kind = "reply",
               events'[i].turn = turn + 1
        PROVE  FALSE
    <3>1. i \in 1..l
      BY <1>5, <1>6, <2>1
    <3>2. events'[i].turn <= turn
      BY <1>5, <3>1 DEF IInv, EventsAreOld
    <3>3. QED
      BY <1>2, <2>1, <3>2, TurnsAreNumbers
  <2>2. ASSUME NEW i \in DOMAIN events', events'[i].kind = "idle"
        PROVE  i < l + 2
    BY <1>5, <1>6, <2>2
  <2>3. PICK k : k = l + 2
    OBVIOUS
  <2>4. k \in DOMAIN events'
    BY <1>5, <2>3
  <2>5. ASSUME NEW i \in DOMAIN events'
        PROVE  /\ events'[i].kind = "reply" /\ events'[i].turn = turn' => k < i
               /\ events'[i].kind = "idle" => i < k
    BY <1>1, <2>1, <2>2, <2>3
  <2>6. Announced(k)'
    BY <1>1, <1>3, <1>5, <2>3, <2>5 DEF Announced
  <2>7. QED
    BY <2>4, <2>6 DEF WorkIsKnown
<1>11. FlushKnowsItsTurn'
  <2>1. turns'.epoch = turns.epoch + 1
    BY <1>3
  <2>2. /\ Held' = Held
        /\ UNCHANGED <<flush, epoch, minted, detached>>
    BY <1>1, AroundStays DEF Around
  <2>3. SUFFICES ASSUME flush.at # "no" PROVE FlushKnowsItsTurn'
    BY <2>2 DEF FlushKnowsItsTurn
  <2>4. flush.epoch \in Nat /\ turns.epoch \in Nat
    BY <1>2, <2>3, CardsHeld, TurnsAreNumbers
  <2>5. Current => flush.epoch < turns'.epoch
    BY <2>1, <2>3, <2>4 DEF IInv, FlushKnowsItsTurn
  <2>6. QED
    BY <2>2, <2>3, <2>4, <2>5, <2>1 DEF IInv, FlushKnowsItsTurn, Current
<1>12. QED
  BY <1>1, <1>7, <1>8, <1>9, <1>10, <1>11, AroundStays DEF IInv

\* The flush is about nothing that changes: turns count no step and no end.
LEMMA FlushStaysAware ==
  ASSUME IInv, UNCHANGED <<queue, detached, flush, epoch, minted>>,
         turns'.epoch = turns.epoch,
         working' => working, ~working => replies' = replies
  PROVE  FlushKnowsItsTurn'
<1>1. Held' = Held
  BY DEF Held
<1>2. QED
  BY <1>1 DEF IInv, FlushKnowsItsTurn, Current

LEMMA StepCompletesKeeps ==
  ASSUME IInv, StepCompletes
  PROVE  IInv'
<1> DEFINE l == Len(events)
<1>1. /\ working /\ steps < MaxSteps /\ steps' = steps + 1 /\ replies' = replies + 1
      /\ UNCHANGED Around
      /\ UNCHANGED <<queue, detached, epoch, turn, working, turns, forgets>>
  BY DEF StepCompletes, Around, adding, flushing
<1>2. PICK answered \in {turn - 1, turn} \ {0} :
        events' = Append(events, [kind |-> "reply", turn |-> answered])
  BY DEF StepCompletes
<1> DEFINE a == [kind |-> "reply", turn |-> answered]
<1>3. TypeOK
  BY DEF IInv
<1>4. answered \in 1..MaxTurns /\ answered <= turn
  <2>1. turn \in 0..MaxTurns /\ turn > 0
    BY <1>1 DEF IInv, TypeOK, Counted
  <2>2. QED
    BY <1>2, <1>3, <2>1, TurnsAreNumbers
<1>5. a \in Event
  BY <1>4 DEF Event
<1>6. /\ events' \in Seq(Event) /\ l \in Nat
      /\ DOMAIN events = 1..l /\ DOMAIN events' = 1..(l + 1)
      /\ \A i \in 1..l : events'[i] = events[i]
      /\ events'[l + 1] = a
  BY <1>2, <1>3, <1>5, PublishedOne DEF TypeOK
<1> HIDE DEF l
<1>7. \A i \in 1..(l + 1) : i \in 1..l \/ i = l + 1
  BY <1>6
<1>8. Counted'
  BY <1>1, <1>3, TurnsAreNumbers DEF IInv, Counted, Around
<1>9. TypeOK'
  <2>1. steps' \in 0..MaxSteps
    BY <1>1, <1>3, TurnsAreNumbers
  <2>2. replies' \in 0..MaxTurns + MaxSteps
    <3>1. replies + 1 <= steps + turn /\ turn <= MaxTurns /\ steps <= MaxSteps
      BY <1>1, <1>3, TurnsAreNumbers DEF IInv, Counted, TypeOK
    <3>2. QED
      BY <1>1, <1>3, <3>1, TurnsAreNumbers
  <2>3. QED
    BY <1>1, <1>6, <2>1, <2>2
       DEF IInv, TypeOK, Around, store, MaxTurns, MaxSteps, Faults, Forgets,
           Event, Flush, Turn
<1>10. EventsAreOld'
  <2>1. ASSUME NEW i \in DOMAIN events'
        PROVE  /\ events'[i].turn <= turn
               /\ events'[i].kind = "user" => events'[i].turn <= turns.user
    <3>1. CASE i \in 1..l
      BY <1>6, <3>1 DEF IInv, EventsAreOld
    <3>2. CASE i = l + 1
      BY <1>4, <1>6, <3>2
    <3>3. QED
      BY <1>6, <1>7, <3>1, <3>2
  <2>2. QED
    BY <1>1, <2>1 DEF EventsAreOld
<1>11. WorkIsKnown'
  <2>1. ASSUME NEW i \in DOMAIN events'
        PROVE  \/ i \in DOMAIN events /\ events'[i] = events[i]
               \/ i = l + 1 /\ events'[i].kind = "reply"
    <3>1. i \in 1..l \/ i = l + 1
      BY <1>6, <1>7
    <3>2. QED
      BY <1>6, <3>1
  <2>2. CASE Seen
    BY <1>1, <2>1, <2>2 DEF Seen, WorkIsKnown
  <2>3. ASSUME NEW b \in DOMAIN events, Announced(b) PROVE WorkIsKnown'
    <3>1. b \in 1..l /\ b < l + 1
      BY <1>6
    <3>2. b \in DOMAIN events' /\ events'[b].kind = "busy"
      BY <1>6, <2>3, <3>1 DEF Announced
    <3>3. ASSUME NEW i \in DOMAIN events'
          PROVE  /\ events'[i].kind = "reply" /\ events'[i].turn = turn => b < i
                 /\ events'[i].kind = "idle" => i < b
      BY <2>1, <2>3, <3>1 DEF Announced
    <3>4. Announced(b)'
      BY <1>1, <2>3, <3>2, <3>3 DEF Announced
    <3>5. QED
      BY <3>2, <3>4 DEF WorkIsKnown
  <2>4. QED
    BY <1>1, <2>2, <2>3 DEF IInv, WorkIsKnown
<1>12. FlushKnowsItsTurn'
  BY <1>1, FlushStaysAware DEF Around
<1>13. QED
  BY <1>1, <1>8, <1>9, <1>10, <1>11, <1>12, AroundStays DEF IInv

LEMMA TurnCompletesKeeps ==
  ASSUME IInv, TurnCompletes
  PROVE  IInv'
<1> DEFINE l == Len(events)
           reply == [kind |-> "reply", turn |-> turn]
           idle == [kind |-> "idle", turn |-> turn]
<1>1. /\ working /\ working' = FALSE /\ replies' = replies + 1
      /\ UNCHANGED Around
      /\ UNCHANGED <<queue, detached, epoch, turn, steps, turns, forgets>>
  BY DEF TurnCompletes, Around, adding, flushing
<1>2. TypeOK
  BY DEF IInv
<1>3. turn \in 1..MaxTurns /\ reply \in Event /\ idle \in Event
  <2>1. turn \in 1..MaxTurns
    BY <1>1, <1>2, TurnsAreNumbers DEF IInv, TypeOK, Counted
  <2>2. QED
    BY <2>1 DEF Event
<1>4. PICK a \in {reply, idle}, b \in {reply, idle} : events' = events \o <<a, b>>
  BY DEF TurnCompletes
<1>5. a \in Event /\ b \in Event
  BY <1>3
<1>6. a.turn = turn /\ b.turn = turn /\ a.kind # "user" /\ b.kind # "user"
  OBVIOUS
<1>7. /\ events' \in Seq(Event) /\ l \in Nat
      /\ DOMAIN events = 1..l /\ DOMAIN events' = 1..(l + 2)
      /\ \A i \in 1..l : events'[i] = events[i]
      /\ events'[l + 1] = a /\ events'[l + 2] = b
  BY <1>2, <1>4, <1>5, Published DEF TypeOK
<1> HIDE DEF l, reply, idle
<1>8. \A i \in 1..(l + 2) : i \in 1..l \/ i = l + 1 \/ i = l + 2
  BY <1>7
<1>9. Counted'
  BY <1>1, <1>2, TurnsAreNumbers DEF IInv, Counted, Around
<1>10. TypeOK'
  <2>1. replies' \in 0..MaxTurns + MaxSteps
    <3>1. replies + 1 <= steps + turn /\ turn <= MaxTurns /\ steps <= MaxSteps
      BY <1>1, <1>2, TurnsAreNumbers DEF IInv, Counted, TypeOK
    <3>2. QED
      BY <1>1, <1>2, <3>1, TurnsAreNumbers
  <2>2. QED
    BY <1>1, <1>7, <2>1
       DEF IInv, TypeOK, Around, store, MaxTurns, MaxSteps, Faults, Forgets,
           Event, Flush, Turn
<1>11. EventsAreOld'
  <2>1. ASSUME NEW i \in DOMAIN events'
        PROVE  /\ events'[i].turn <= turn
               /\ events'[i].kind = "user" => events'[i].turn <= turns.user
    <3>1. CASE i \in 1..l
      BY <1>7, <3>1 DEF IInv, EventsAreOld
    <3>2. CASE i = l + 1 \/ i = l + 2
      BY <1>3, <1>6, <1>7, <3>2
    <3>3. QED
      BY <1>7, <1>8, <3>1, <3>2
  <2>2. QED
    BY <1>1, <2>1 DEF EventsAreOld
<1>12. WorkIsKnown'
  BY <1>1 DEF WorkIsKnown
<1>13. FlushKnowsItsTurn'
  BY <1>1, FlushStaysAware DEF Around
<1>14. QED
  BY <1>1, <1>9, <1>10, <1>11, <1>12, <1>13, AroundStays DEF IInv

\* A flush that starts finds the cards as they were.
LEMMA StartKeepsCards ==
  ASSUME IInv, UNCHANGED <<queue, detached, card, store, about, epochOf, epoch, faults>>,
         flush' = flush \/ (flush.at = "no" /\ Started(turns', flush', queue)),
         \A m \in Note : stage'[m] = stage[m] \/
                         (stage[m] = "pushed" /\ stage'[m] = "done")
  PROVE  /\ Tries' /\ CardsInHand' /\ SnapshotIsTrue' /\ CardsAreRecorded'
         /\ ReceiptsAreShown' /\ OneCardPerFinding'
<1>1. \A m : Assessed(m) => Assessed(m)'
  BY DEF Assessed
<1>2. Held' = Held
  BY DEF Held
<1>3. flush' = flush \/ (/\ flush'.at = "next" /\ flush'.snapshot = None
                         /\ flush.at = "no" /\ detached = None)
  BY DEF Started, IInv, TypeOK
<1>4. Tries'
  BY <1>3 DEF IInv, Tries
<1>5. CardsInHand'
  BY <1>1, <1>2, <1>3 DEF IInv, CardsInHand, AtCard
<1>6. SnapshotIsTrue'
  BY <1>3 DEF IInv, SnapshotIsTrue
<1>7. CardsAreRecorded'
  BY <1>3 DEF IInv, CardsAreRecorded, store
<1>8. ReceiptsAreShown' /\ OneCardPerFinding'
  BY DEF IInv, ReceiptsAreShown, OneCardPerFinding, store
<1>9. QED
  BY <1>4, <1>5, <1>6, <1>7, <1>8

\* Handling an event never counts a turn: user events are old.
LEMMA EventsCountNothing ==
  ASSUME IInv, events # <<>>
  PROVE  /\ Head(events) \in Event /\ OnEvent(turns, Head(events)) \in Turn
         /\ OnEvent(turns, Head(events)).epoch = turns.epoch
         /\ OnEvent(turns, Head(events)).user = turns.user
<1>0. PICK e : e = Head(events)
  OBVIOUS
<1>1. events \in Seq(Event) /\ 1 \in DOMAIN events /\ events[1] = e /\ e \in Event
  BY <1>0 DEF IInv, TypeOK
<1>2. turns \in Turn
  BY DEF IInv, TypeOK
<1>3. e.kind = "user" => e.turn <= turns.user
  BY <1>1 DEF IInv, EventsAreOld
<1>4. e.kind \in {"user", "busy", "reply", "idle"}
  BY <1>1 DEF Event
<1>5. CASE e.kind = "user"
  BY <1>0, <1>1, <1>2, <1>3, <1>5 DEF OnEvent, OnUser
<1>6. CASE e.kind = "reply"
  <2>1. [turns EXCEPT !.awaiting = FALSE] \in Turn
    BY <1>2 DEF Turn
  <2>2. /\ [turns EXCEPT !.awaiting = FALSE].epoch = turns.epoch
        /\ [turns EXCEPT !.awaiting = FALSE].user = turns.user
    BY <1>2 DEF Turn
  <2>3. QED
    BY <1>0, <1>1, <1>2, <1>6, <2>1, <2>2 DEF OnEvent, OnReply
<1>7. CASE e.kind = "busy" \/ e.kind = "idle"
  <2>1. [turns EXCEPT !.status = e.kind] \in Turn
    BY <1>2, <1>7 DEF Turn
  <2>2. /\ [turns EXCEPT !.status = e.kind].epoch = turns.epoch
        /\ [turns EXCEPT !.status = e.kind].user = turns.user
    BY <1>2 DEF Turn
  <2>3. OnEvent(turns, e) = [turns EXCEPT !.status = e.kind]
    BY <1>7 DEF OnEvent
  <2>4. QED
    BY <1>0, <1>1, <2>1, <2>2, <2>3
<1>8. QED
  BY <1>4, <1>5, <1>6, <1>7

LEMMA EventIsSeen ==
  ASSUME IInv, events # <<>>, events' = Tail(events),
         turns' = OnEvent(turns, Head(events)), UNCHANGED <<turn, working>>
  PROVE  /\ events' \in Seq(Event) /\ EventsAreOld' /\ WorkIsKnown'
<1> DEFINE l == Len(events)
<1>1. PICK e : e = Head(events)
  OBVIOUS
<1>2. /\ l \in Nat /\ l > 0 /\ DOMAIN events = 1..l /\ events[1] = e /\ e \in Event
      /\ events' \in Seq(Event) /\ DOMAIN events' = 1..(l - 1)
      /\ \A i \in 1..(l - 1) : events'[i] = events[i + 1]
  BY <1>1 DEF IInv, TypeOK
<1> HIDE DEF l
<1>3. turns'.epoch = turns.epoch /\ turns'.user = turns.user /\ turns \in Turn
  BY EventsCountNothing DEF IInv, TypeOK
<1>4. \A i \in 1..(l - 1) : i + 1 \in 1..l /\ i + 1 # 1 /\ (i + 1) - 1 = i
  BY <1>2
<1>5. EventsAreOld'
  <2>1. ASSUME NEW i \in DOMAIN events'
        PROVE  /\ events'[i].turn <= turn'
               /\ events'[i].kind = "user" => events'[i].turn <= turns'.user
    <3>1. i + 1 \in DOMAIN events /\ events'[i] = events[i + 1]
      BY <1>2, <1>4
    <3>2. QED
      BY <1>3, <3>1 DEF IInv, EventsAreOld
  <2>2. QED
    BY <2>1 DEF EventsAreOld
<1>6. turns' = OnEvent(turns, e)
  BY <1>1
<1>7. /\ e.kind = "user" => turns' = turns
      /\ e.kind = "reply" /\ e.turn # turns.user => turns' = turns
      /\ e.kind = "reply" => turns'.status = turns.status
      /\ e.kind \in {"busy", "idle"} =>
           turns'.status = e.kind /\ turns'.awaiting = turns.awaiting
  <2>1. CASE e.kind = "user"
    <3>1. e.turn <= turns.user
      BY <1>2, <2>1 DEF IInv, EventsAreOld
    <3>2. turns' = turns
      BY <1>6, <2>1, <3>1 DEF OnEvent, OnUser
    <3>3. QED
      BY <2>1, <3>2
  <2>2. CASE e.kind = "reply"
    BY <1>3, <1>6, <2>2 DEF OnEvent, OnReply, Turn
  <2>3. CASE e.kind = "busy" \/ e.kind = "idle"
    <3>1. turns' = [turns EXCEPT !.status = e.kind]
      BY <1>6, <2>3 DEF OnEvent
    <3>2. QED
      BY <1>3, <2>3, <3>1 DEF Turn
  <2>4. QED
    BY <1>2, <2>1, <2>2, <2>3 DEF Event
<1>8. WorkIsKnown'
  <2>1. SUFFICES ASSUME working PROVE WorkIsKnown'
    BY DEF WorkIsKnown
  <2>2. CASE Seen
    <3>1. e.kind # "idle"
      BY <1>2, <2>2 DEF Seen
    <3>2. turns'.status # "idle"
      BY <1>2, <1>7, <2>2, <3>1 DEF Seen, Event
    <3>3. \A i \in DOMAIN events' : events'[i].kind # "idle"
      BY <1>2, <1>4, <2>2 DEF Seen
    <3>4. QED
      BY <3>2, <3>3 DEF Seen, WorkIsKnown
  <2>3. ASSUME NEW b \in DOMAIN events, Announced(b), b = 1 PROVE WorkIsKnown'
    <3>1. e.kind = "busy"
      BY <1>2, <2>3 DEF Announced
    <3>2. ASSUME NEW i \in DOMAIN events' PROVE events'[i].kind # "idle"
      <4>1. events'[i] = events[i + 1] /\ i + 1 \in DOMAIN events /\ ~(i + 1 < 1)
        BY <1>2, <1>4
      <4>2. QED
        BY <2>3, <4>1 DEF Announced
    <3>3. turns'.status # "idle"
      BY <1>7, <3>1
    <3>4. QED
      BY <3>2, <3>3 DEF Seen, WorkIsKnown
  <2>4. ASSUME NEW b \in DOMAIN events, Announced(b), b # 1 PROVE WorkIsKnown'
    <3>1. PICK k : k = b - 1
      OBVIOUS
    <3>2. k \in 1..(l - 1) /\ k + 1 = b /\ b > 1
      BY <1>2, <2>4, <3>1
    <3>3. k \in DOMAIN events' /\ events'[k] = events[b]
      BY <1>2, <3>2
    <3>4. turns'.awaiting
      <4>1. ~(e.kind = "reply" /\ e.turn = turn)
        BY <1>2, <2>4, <3>2 DEF Announced
      <4>2. turns.user = turn /\ turns.awaiting
        BY <2>4 DEF Announced
      <4>3. QED
        BY <1>2, <1>7, <4>1, <4>2 DEF Event
    <3>5. ASSUME NEW i \in DOMAIN events'
          PROVE  /\ events'[i].kind = "reply" /\ events'[i].turn = turn' => k < i
                 /\ events'[i].kind = "idle" => i < k
      <4>1. events'[i] = events[i + 1] /\ i + 1 \in DOMAIN events /\ i \in Nat
        BY <1>2, <1>4
      <4>2. /\ events[i + 1].kind = "reply" /\ events[i + 1].turn = turn => b < i + 1
            /\ events[i + 1].kind = "idle" => i + 1 < b
        BY <2>4, <4>1 DEF Announced
      <4>3. QED
        BY <3>2, <4>1, <4>2
    <3>6. Announced(k)'
      BY <1>3, <2>4, <3>3, <3>4, <3>5 DEF Announced
    <3>7. QED
      BY <3>3, <3>6 DEF WorkIsKnown
  <2>5. QED
    BY <2>1, <2>2, <2>3, <2>4 DEF IInv, WorkIsKnown
<1>9. QED
  BY <1>2, <1>5, <1>8

LEMMA HandleEventKeeps ==
  ASSUME IInv, HandleEvent
  PROVE  IInv'
<1>1. /\ events # <<>> /\ events' = Tail(events)
      /\ turns' = OnEvent(turns, Head(events))
      /\ UNCHANGED <<session, store, adding, queue, detached, faults, forgets, bounds>>
      /\ flush' = flush \/ flush' = Flushed(turns', queue, flush)
  BY DEF HandleEvent
<1>2. /\ UNCHANGED <<turn, working, replies, steps, card, about, stage, epochOf,
                    chain, epoch, minted, receipts, withdrawn>>
  BY <1>1 DEF session, store, adding
<1>3. events' \in Seq(Event) /\ EventsAreOld' /\ WorkIsKnown'
  BY <1>1, <1>2, EventIsSeen
<1>4. turns' \in Turn /\ turns'.epoch = turns.epoch /\ turns'.user = turns.user
  BY <1>1, EventsCountNothing
<1>5. flush' = flush \/ (flush.at = "no" /\ Started(turns', flush', queue))
  <2>1. PICK t \in Turn : t = turns'
    BY <1>4
  <2>2. \/ Flushed(t, queue, flush) = flush
        \/ flush.at = "no" /\ Started(t, Flushed(t, queue, flush), queue)
    BY FlushedStarts DEF IInv, TypeOK, Counted
  <2>3. QED
    BY <1>1, <2>1, <2>2
<1>6. TypeOK'
  <2>1. flush' \in Flush
    BY <1>5 DEF Started, IInv, TypeOK
  <2>2. flush'.at = "no" => detached' = None
    BY <1>1, <1>5 DEF Started, IInv, TypeOK
  <2>3. QED
    BY <1>1, <1>2, <1>3, <1>4, <2>1, <2>2
       DEF IInv, TypeOK, MaxTurns, MaxSteps, Faults, Forgets, Event, Flush, Turn
<1>7. Counted'
  BY <1>1, <1>2, <1>4 DEF IInv, Counted
<1>8. FlushKnowsItsTurn'
  <2>1. CASE flush' = flush
    BY <1>1, <1>2, <1>4, <2>1, FlushStaysAware
  <2>2. CASE flush.at = "no" /\ Started(turns', flush', queue)
    <3>1. detached' = None /\ epoch' = epoch /\ queue' = queue
      BY <1>1, <1>2, <2>2 DEF IInv, TypeOK
    <3>2. QED
      BY <1>3, <1>6, <1>7, <2>2, <3>1, Starting
  <2>3. QED
    BY <1>5, <2>1, <2>2
<1>9. QED
  BY <1>1, <1>2, <1>3, <1>5, <1>6, <1>7, <1>8, StartKeepsCards DEF IInv

LEMMA WithdrawKeeps ==
  ASSUME IInv, NEW n \in Note, Withdraw(n)
  PROVE  IInv'
<1>1. /\ withdrawn' = withdrawn \union {n}
      /\ UNCHANGED <<turn, working, replies, steps, card, events, receipts, turns,
                    about, stage, epochOf, chain, epoch, minted, queue, flush,
                    detached, faults, forgets, bounds>>
  BY DEF Withdraw, session, adding, flushing
<1>2. TypeOK'
  BY <1>1 DEF IInv, TypeOK, MaxTurns, MaxSteps, Faults, Forgets, Event, Flush, Turn
<1>3. Held' = Held
  BY <1>1 DEF Held
<1>4. Counted' /\ EventsAreOld' /\ WorkIsKnown'
  BY <1>1 DEF IInv, Counted, EventsAreOld, WorkIsKnown, Seen, Announced
<1>5. FlushKnowsItsTurn'
  BY <1>1, FlushStaysAware
<1>6. Tries' /\ CardsInHand' /\ SnapshotIsTrue' /\ CardsAreRecorded'
  BY <1>1, <1>3 DEF IInv, Tries, CardsInHand, Assessed, SnapshotIsTrue,
                    CardsAreRecorded
<1>7. ReceiptsAreShown' /\ OneCardPerFinding'
  BY <1>1 DEF IInv, ReceiptsAreShown, OneCardPerFinding
<1>8. QED
  BY <1>2, <1>4, <1>5, <1>6, <1>7 DEF IInv

LEMMA ForgetKeeps ==
  ASSUME IInv, Forget
  PROVE  IInv'
<1>1. /\ forgets < Forgets /\ events = <<>> /\ forgets' = forgets + 1
      /\ turns' = NewTurn /\ epoch' = None /\ chain' = <<>> /\ queue' = None
      /\ detached' = IF flush.at = "no" THEN None ELSE Held
      /\ UNCHANGED <<turn, working, replies, steps, card, events, receipts,
                    withdrawn, about, stage, epochOf, minted, flush, faults, bounds>>
  BY DEF Forget, session, store
<1>2. TypeOK
  BY DEF IInv
<1>3. TypeOK'
  <2>1. turns' \in Turn
    BY <1>1, <1>2, TurnsAreNumbers DEF NewTurn, Turn, MaxTurns
  <2>2. detached' \in Cards \union {None}
    BY <1>1, CardsHeld
  <2>3. forgets' \in 0..Forgets
    BY <1>1, <1>2, TurnsAreNumbers
  <2>4. QED
    BY <1>1, <1>2, <2>1, <2>2, <2>3
       DEF TypeOK, MaxTurns, MaxSteps, Faults, Forgets, Event, Flush, Turn
<1>4. Counted'
  <2>1. turns'.epoch = 0 /\ turns'.user = 0
    BY <1>1 DEF NewTurn
  <2>2. minted <= forgets + 1
    BY <1>2, TurnsAreNumbers DEF IInv, Counted
  <2>3. QED
    BY <1>1, <1>2, <2>1, <2>2, TurnsAreNumbers DEF IInv, Counted
<1>5. EventsAreOld' /\ WorkIsKnown'
  <2>1. DOMAIN events' = {}
    BY <1>1
  <2>2. turns'.status # "idle"
    BY <1>1, NoneAssumption DEF NewTurn
  <2>3. QED
    BY <2>1, <2>2 DEF EventsAreOld, WorkIsKnown, Seen
<1>6. flush.at # "no" => Held' = Held /\ detached' = Held /\ Held # None
  BY <1>1, CardsHeld DEF Held
<1>7. FlushKnowsItsTurn'
  <2>1. flush.at # "no" => ~Current'
    <3>1. flush.at # "no" => flush.generation \in Nat
      BY <1>2, CardsHeld, TurnsAreNumbers
    <3>2. QED
      BY <1>1, <3>1, NoneAssumption DEF Current
  <2>2. QED
    BY <1>1, <1>6, <2>1 DEF IInv, FlushKnowsItsTurn
<1>8. Tries'
  BY <1>1, <1>6, CardsHeld DEF Tries
<1>9. CardsInHand'
  <2>1. \A n : Assessed(n) => Assessed(n)'
    BY <1>1 DEF Assessed
  <2>2. flush.at = "no" => detached' = None
    BY <1>1
  <2>3. flush.at # "no" => \A n \in ToSet(detached'.notes) : Assessed(n)'
    BY <1>6, <2>1, CardsHeld
  <2>4. flush.at \in AtCard => flush.at # "no"
    BY DEF AtCard
  <2>5. QED
    BY <1>1, <1>6, <2>1, <2>2, <2>3, <2>4 DEF IInv, CardsInHand
<1>10. SnapshotIsTrue' /\ CardsAreRecorded' /\ ReceiptsAreShown' /\ OneCardPerFinding'
  BY <1>1 DEF IInv, SnapshotIsTrue, CardsAreRecorded, ReceiptsAreShown,
              OneCardPerFinding
<1>11. QED
  BY <1>3, <1>4, <1>5, <1>7, <1>8, <1>9, <1>10 DEF IInv

-----------------------------------------------------------------------------
(* Each step of deliver and enqueue preserves the invariant.               *)

\* What no step of deliver and enqueue touches.
Outer == <<turn, working, replies, steps, card, events, receipts, withdrawn,
           turns, detached, forgets, bounds>>

LEMMA SessionIsKnown ==
  ASSUME IInv, UNCHANGED Outer
  PROVE  EventsAreOld' /\ WorkIsKnown' /\ ReceiptsAreShown'
<1>1. EventsAreOld'
  BY DEF IInv, EventsAreOld, Outer
<1>2. WorkIsKnown'
  BY DEF IInv, WorkIsKnown, Seen, Announced, Outer
<1>3. ReceiptsAreShown'
  BY DEF IInv, ReceiptsAreShown, Outer
<1>4. QED
  BY <1>1, <1>2, <1>3

LEMMA AddingKeepsTypes ==
  ASSUME IInv, UNCHANGED Outer, flush' = flush,
         about' \in [Note -> Finding \union {None}], stage' \in [Note -> Stage],
         epochOf' \in [Note -> 1..Forgets + 1 \union {None}],
         chain' \in Seq(Note), epoch' \in 1..Forgets + 1 \union {None},
         minted' \in 0..Forgets + 1, queue' \in Cards \union {None},
         faults' \in 0..Faults
  PROVE  TypeOK'
BY DEF IInv, TypeOK, Outer, MaxTurns, MaxSteps, Faults, Forgets, Event, Flush, Turn

LEMMA ReportKeeps ==
  ASSUME IInv, NEW n \in Note, Report(n)
  PROVE  IInv'
<1>1. PICK f \in bounds.about[n] : about' = [about EXCEPT ![n] = f]
  BY DEF Report
<1>2. /\ stage[n] = "new" /\ stage' = [stage EXCEPT ![n] = "assess"]
      /\ UNCHANGED Outer /\ UNCHANGED <<epochOf, chain, epoch, minted, queue, flush, faults>>
  BY DEF Report, Outer, session, store, flushing
<1>3. TypeOK /\ f \in Finding
  BY BoundsAssumption DEF IInv, TypeOK
<1>4. card[n] = None
  BY <1>2 DEF IInv, SnapshotIsTrue
<1>5. /\ about' \in [Note -> Finding \union {None}] /\ stage' \in [Note -> Stage]
      /\ \A m \in Note : m # n => about'[m] = about[m] /\ stage'[m] = stage[m]
      /\ stage'[n] = "assess"
  BY <1>1, <1>2, <1>3 DEF TypeOK, Stage
<1>6. TypeOK'
  BY <1>2, <1>3, <1>5, AddingKeepsTypes DEF TypeOK
<1>7. Counted'
  BY <1>2 DEF IInv, Counted, Outer
<1>8. FlushKnowsItsTurn'
  BY <1>2, FlushStaysAware DEF Outer
<1>9. Tries'
  BY <1>2 DEF IInv, Tries, Outer
<1>10. \A m : Assessed(m) => m # n /\ Assessed(m)'
  BY <1>2, <1>5 DEF Assessed
<1>11. CardsInHand'
  <2>1. Held' = Held
    BY <1>2 DEF Held, Outer
  <2>2. QED
    BY <1>2, <1>5, <1>10, <2>1 DEF IInv, CardsInHand, Outer
<1>12. SnapshotIsTrue'
  BY <1>2, <1>5 DEF IInv, SnapshotIsTrue, Outer
<1>13. CardsAreRecorded'
  <2>1. SUFFICES ASSUME faults = 0 PROVE CardsAreRecorded'
    BY <1>2 DEF CardsAreRecorded
  <2>2. ASSUME flush.at \in {"load", "render", "write"}, NEW m \in Note,
               about'[m] = about'[flush.note]
        PROVE  card[m] = None
    <3>1. flush.note \in Note /\ flush.note # n
      BY <1>10, <2>2, AboutItsFirst DEF AtCard
    <3>2. CASE m = n
      BY <1>4, <3>2
    <3>3. CASE m # n
      BY <1>5, <2>1, <2>2, <3>1, <3>3 DEF IInv, CardsAreRecorded
    <3>4. QED
      BY <3>2, <3>3
  <2>3. QED
    BY <1>2, <2>1, <2>2 DEF IInv, CardsAreRecorded, Outer
<1>14. OneCardPerFinding'
  BY <1>2, <1>4, <1>5 DEF IInv, OneCardPerFinding, Outer
<1>15. QED
  BY <1>2, <1>6, <1>7, <1>8, <1>9, <1>11, <1>12, <1>13, <1>14, SessionIsKnown DEF IInv

\* A step that only moves a reported note on keeps what cards are known by.
LEMMA MovedOn ==
  ASSUME IInv, UNCHANGED Outer, UNCHANGED <<about, flush>>, NEW n \in Note,
         stage[n] # "new", \A m \in Note : m # n => stage'[m] = stage[m],
         stage'[n] # "new", stage'[n] # "assess",
         faults' = faults \/ faults' # 0
  PROVE  /\ SnapshotIsTrue' /\ CardsAreRecorded' /\ OneCardPerFinding'
         /\ \A m : Assessed(m) => Assessed(m)'
         /\ Assessed(n)'
<1>1. SnapshotIsTrue'
  BY DEF IInv, SnapshotIsTrue, Outer
<1>2. CardsAreRecorded' /\ OneCardPerFinding'
  BY DEF IInv, CardsAreRecorded, OneCardPerFinding, Outer
<1>3. (\A m : Assessed(m) => Assessed(m)') /\ Assessed(n)'
  BY DEF Assessed
<1>4. QED
  BY <1>1, <1>2, <1>3

LEMMA AssessKeeps ==
  ASSUME IInv, NEW n \in Note, Assess(n)
  PROVE  IInv'
<1>1. /\ stage[n] = "assess" /\ UNCHANGED Outer
      /\ UNCHANGED <<about, queue, flush, faults>>
  BY DEF Assess, Outer, session, store, flushing
<1>2. TypeOK
  BY DEF IInv
<1>3. CASE n \in withdrawn \/ DeliveredFinding(n)
  <2>1. stage' = [stage EXCEPT ![n] = "done"] /\ UNCHANGED <<epochOf, chain, epoch, minted>>
    BY <1>3 DEF Assess
  <2>2. /\ stage' \in [Note -> Stage] /\ stage'[n] = "done"
        /\ \A m \in Note : m # n => stage'[m] = stage[m]
    BY <1>2, <2>1 DEF TypeOK, Stage
  <2>3. TypeOK'
    BY <1>1, <1>2, <2>1, <2>2, AddingKeepsTypes DEF TypeOK
  <2>4. Counted' /\ Tries'
    BY <1>1, <2>1 DEF IInv, Counted, Tries, Outer
  <2>5. FlushKnowsItsTurn'
    BY <1>1, <2>1, FlushStaysAware DEF Outer
  <2>6. /\ SnapshotIsTrue' /\ CardsAreRecorded' /\ OneCardPerFinding'
        /\ \A m : Assessed(m) => Assessed(m)'
    BY <1>1, <2>2, MovedOn
  <2>7. CardsInHand'
    <3>1. Held' = Held
      BY <1>1 DEF Held, Outer
    <3>2. QED
      BY <1>1, <2>1, <2>2, <2>6, <3>1 DEF IInv, CardsInHand, Outer
  <2>8. QED
    BY <1>1, <2>3, <2>4, <2>5, <2>6, <2>7, SessionIsKnown DEF IInv
<1>4. CASE ~(n \in withdrawn \/ DeliveredFinding(n))
  <2>1. /\ stage' = [stage EXCEPT ![n] = "chained"]
        /\ minted' = (IF epoch = None THEN minted + 1 ELSE minted) /\ epoch' = minted'
        /\ epochOf' = [epochOf EXCEPT ![n] = minted'] /\ chain' = Append(chain, n)
    BY <1>4 DEF Assess
  <2>2. /\ stage' \in [Note -> Stage] /\ stage'[n] = "chained"
        /\ \A m \in Note : m # n => stage'[m] = stage[m]
    BY <1>2, <2>1 DEF TypeOK, Stage
  <2>3. /\ minted' \in 1..Forgets + 1 /\ minted' <= forgets + 1
        /\ minted' # None
    <3>1. forgets \in 0..Forgets /\ Forgets \in Nat /\ minted \in Nat
      BY <1>2, TurnsAreNumbers DEF TypeOK
    <3>2. CASE epoch = None
      BY <2>1, <3>1, <3>2, NoneAssumption DEF IInv, Counted
    <3>3. CASE epoch # None
      <4>1. epoch \in 1..Forgets + 1 /\ epoch = minted /\ minted <= forgets + 1
        BY <1>2, <3>3 DEF TypeOK, IInv, Counted
      <4>2. QED
        BY <2>1, <3>1, <3>3, <4>1, NoneAssumption
    <3>4. QED
      BY <3>2, <3>3
  <2>4. /\ epochOf' \in [Note -> 1..Forgets + 1 \union {None}]
        /\ epochOf'[n] = minted' /\ \A m \in Note : m # n => epochOf'[m] = epochOf[m]
    BY <1>2, <2>1, <2>3 DEF TypeOK
  <2>5. TypeOK'
    <3>1. chain' \in Seq(Note)
      BY <1>2, <2>1 DEF TypeOK
    <3>2. minted' \in 0..Forgets + 1
      BY <1>2, <2>3, TurnsAreNumbers
    <3>3. QED
      BY <1>1, <1>2, <2>1, <2>2, <2>3, <2>4, <3>1, <3>2, AddingKeepsTypes DEF TypeOK
  <2>6. Counted'
    <3>1. minted' <= forgets + (IF epoch' = None THEN 0 ELSE 1)
      BY <2>1, <2>3
    <3>2. QED
      BY <1>1, <2>1, <2>3, <3>1 DEF IInv, Counted, Outer
  <2>7. Tries'
    BY <1>1 DEF IInv, Tries, Outer
  <2>8. epoch # None => epoch' = epoch
    BY <2>1 DEF IInv, Counted
  <2>9. FlushKnowsItsTurn'
    <3>1. SUFFICES ASSUME flush.at # "no" PROVE FlushKnowsItsTurn'
      BY <1>1 DEF FlushKnowsItsTurn
    <3>2. Held' = Held
      BY <1>1 DEF Held, Outer
    <3>3. minted \in Nat /\ minted <= minted' /\ Forgets \in Nat
      BY <1>2, <2>1, TurnsAreNumbers
    <3>4. flush.generation \in Nat /\ flush.generation <= minted
      BY <3>1, <3>3, CardsHeld DEF IInv, FlushKnowsItsTurn
    <3>5. Current' => Current
      <4>1. CASE epoch = None
        <5>1. epoch' = minted + 1
          BY <2>1, <4>1
        <5>2. QED
          BY <1>1, <3>3, <3>4, <5>1 DEF Current
      <4>2. CASE epoch # None
        BY <1>1, <2>8, <4>2 DEF Current
      <4>3. QED
        BY <4>1, <4>2
    <3>6. flush.generation <= minted'
      BY <2>1, <3>3, <3>4
    <3>7. QED
      BY <1>1, <3>1, <3>2, <3>5, <3>6 DEF IInv, FlushKnowsItsTurn, Outer
  <2>10. /\ SnapshotIsTrue' /\ CardsAreRecorded' /\ OneCardPerFinding'
         /\ \A m : Assessed(m) => Assessed(m)'
    BY <1>1, <2>2, MovedOn
  <2>11. CardsInHand'
    <3>1. Held' = Held
      BY <1>1 DEF Held, Outer
    <3>2. \A m : Assessed(m) => m # n /\ m \in Note
      BY <1>1 DEF Assessed
    <3>3. queue # None => epoch' = epoch
      BY <2>8 DEF IInv, Counted
    <3>4. queue' # None =>
            \A m \in ToSet(queue'.notes) : Assessed(m)' /\ epochOf'[m] = epoch'
      BY <1>1, <2>4, <2>10, <3>2, <3>3 DEF IInv, CardsInHand
    <3>5. \A m \in Note : stage'[m] \in {"chained", "pointer"} => epochOf'[m] # None
      BY <2>2, <2>3, <2>4 DEF IInv, CardsInHand
    <3>6. QED
      BY <1>1, <2>10, <3>1, <3>4, <3>5 DEF IInv, CardsInHand, Outer
  <2>12. QED
    BY <1>1, <2>5, <2>6, <2>7, <2>9, <2>10, <2>11, SessionIsKnown DEF IInv
<1>5. QED
  BY <1>3, <1>4

LEMMA ChainIsShorter ==
  ASSUME TypeOK, NEW n
  PROVE  Unchained(n) \in Seq(Note)
BY WithoutKeepsTheRest DEF TypeOK, Unchained

\* A step that moves a note on and leaves the queue and the epochs alone.
LEMMA MovingOnKeeps ==
  ASSUME IInv, UNCHANGED Outer, UNCHANGED <<about, flush, queue, epochOf, epoch, minted>>,
         NEW n \in Note, stage[n] \in {"chained", "pointer"},
         NEW s \in {"pointer", "pushed", "done"},
         stage' = [stage EXCEPT ![n] = s], chain' \in Seq(Note),
         faults' \in 0..Faults, faults' = faults \/ faults' # 0
  PROVE  IInv'
<1>1. TypeOK
  BY DEF IInv
<1>2. /\ stage' \in [Note -> Stage] /\ stage'[n] = s
      /\ \A m \in Note : m # n => stage'[m] = stage[m]
  BY <1>1 DEF TypeOK, Stage
<1>3. TypeOK'
  BY <1>1, <1>2, AddingKeepsTypes DEF TypeOK
<1>4. Counted' /\ Tries'
  BY DEF IInv, Counted, Tries, Outer
<1>5. FlushKnowsItsTurn'
  BY FlushStaysAware DEF Outer
<1>6. /\ SnapshotIsTrue' /\ CardsAreRecorded' /\ OneCardPerFinding'
      /\ \A m : Assessed(m) => Assessed(m)'
  BY <1>2, MovedOn
<1>7. CardsInHand'
  <2>1. Held' = Held
    BY DEF Held, Outer
  <2>2. \A m \in Note : stage'[m] \in {"chained", "pointer"} => epochOf'[m] # None
    BY <1>2 DEF IInv, CardsInHand
  <2>3. QED
    BY <1>6, <2>1, <2>2 DEF IInv, CardsInHand, Outer
<1>8. QED
  BY <1>3, <1>4, <1>5, <1>6, <1>7, SessionIsKnown DEF IInv

LEMMA BeginAppendKeeps ==
  ASSUME IInv, NEW n \in Note, BeginAppend(n)
  PROVE  IInv'
<1>1. /\ stage[n] = "chained" /\ UNCHANGED Outer
      /\ UNCHANGED <<about, flush, queue, epochOf, epoch, minted, faults>>
  BY DEF BeginAppend, Outer, session, store, flushing
<1>2. \E s \in {"pointer", "pushed"} :
        stage' = [stage EXCEPT ![n] = s] /\ (chain' = chain \/ chain' = Unchained(n))
  BY DEF BeginAppend
<1>3. chain' \in Seq(Note)
  BY <1>2, ChainIsShorter DEF IInv, TypeOK
<1>4. faults' \in 0..Faults
  BY <1>1 DEF IInv, TypeOK
<1>5. QED
  BY <1>1, <1>2, <1>3, <1>4, MovingOnKeeps

LEMMA PointerFailsKeeps ==
  ASSUME IInv, NEW n \in Note, PointerFails(n)
  PROVE  IInv'
<1>1. /\ stage[n] = "pointer" /\ UNCHANGED Outer
      /\ UNCHANGED <<about, flush, queue, epochOf, epoch, minted>>
      /\ stage' = [stage EXCEPT ![n] = "done"] /\ chain' = Unchained(n)
      /\ faults' \in 0..Faults /\ faults' # 0
  BY OneMoreFault DEF PointerFails, Outer, session, store, flushing
<1>2. chain' \in Seq(Note)
  BY <1>1, ChainIsShorter DEF IInv
<1>3. QED
  BY <1>1, <1>2, MovingOnKeeps

LEMMA PushKeeps ==
  ASSUME IInv, NEW n \in Note, Push(n)
  PROVE  IInv'
<1>1. /\ stage[n] = "pointer" /\ UNCHANGED Outer
      /\ UNCHANGED <<about, flush, epochOf, epoch, minted, faults>>
      /\ stage' = [stage EXCEPT ![n] = "pushed"] /\ chain' = Unchained(n)
      /\ queue' = (IF ~Fresh(n) THEN queue
                   ELSE IF queue = None THEN [notes |-> <<n>>, attempts |-> 0]
                   ELSE [queue EXCEPT !.notes = Append(@, n)])
  BY DEF Push, Outer, session, store
<1>2. TypeOK /\ chain' \in Seq(Note) /\ faults \in 0..Faults
  BY <1>1, ChainIsShorter DEF IInv, TypeOK
<1>3. CASE ~Fresh(n)
  BY <1>1, <1>2, <1>3, MovingOnKeeps
<1>4. CASE Fresh(n)
  <2>1. epoch = epochOf[n] /\ epoch # None
    BY <1>1, <1>4 DEF Fresh, IInv, CardsInHand
  <2>2. /\ stage' \in [Note -> Stage] /\ stage'[n] = "pushed"
        /\ \A m \in Note : m # n => stage'[m] = stage[m]
    BY <1>1, <1>2 DEF TypeOK, Stage
  <2>3. /\ SnapshotIsTrue' /\ CardsAreRecorded' /\ OneCardPerFinding'
        /\ \A m : Assessed(m) => Assessed(m)'
        /\ Assessed(n)'
    BY <1>1, <2>2, MovedOn
  <2>4. /\ queue' \in Cards
        /\ \A m \in ToSet(queue'.notes) :
             m = n \/ (queue # None /\ m \in ToSet(queue.notes))
        /\ queue'.attempts = IF queue = None THEN 0 ELSE queue.attempts
        /\ queue # None /\ queue.notes # <<>> =>
             queue'.notes # <<>> /\ Head(queue'.notes) = Head(queue.notes)
    <3>1. CASE queue = None
      <4>1. queue' = [notes |-> <<n>>, attempts |-> 0]
        BY <1>1, <1>4, <3>1
      <4>2. <<n>> \in Seq(Note) /\ ToSet(<<n>>) = {n}
        BY DEF ToSet
      <4>3. QED
        BY <3>1, <4>1, <4>2, AttemptsAssumption DEF Cards
    <3>2. CASE queue # None
      <4>1. PICK q \in Cards : q = queue
        BY <1>2, <3>2 DEF TypeOK
      <4>2. queue' = [q EXCEPT !.notes = Append(q.notes, n)]
        BY <1>1, <1>4, <3>2, <4>1
      <4>3. /\ q.notes \in Seq(Note) /\ Append(q.notes, n) \in Seq(Note)
            /\ ToSet(Append(q.notes, n)) = ToSet(q.notes) \union {n}
        BY AppendAdds DEF Cards
      <4>4. /\ queue' \in Cards /\ queue'.notes = Append(q.notes, n)
            /\ queue'.attempts = q.attempts
        BY <4>2, <4>3 DEF Cards
      <4>5. q.notes # <<>> =>
              Append(q.notes, n) # <<>> /\ Head(Append(q.notes, n)) = Head(q.notes)
        BY <4>3
      <4>6. QED
        BY <3>2, <4>1, <4>3, <4>4, <4>5
    <3>3. QED
      BY <3>1, <3>2
  <2>5. queue' # None
    BY <2>4, NoneAssumption
  <2>6. TypeOK'
    BY <1>1, <1>2, <2>2, <2>4, AddingKeepsTypes DEF TypeOK
  <2>7. Counted'
    BY <1>1, <2>1 DEF IInv, Counted, Outer
  <2>8. flush.at # "no" /\ detached = None =>
          queue # None /\ Held = queue /\ Held' = queue'
    BY <1>1, CardsHeld DEF Held, Outer
  <2>9. detached # None => Held' = Held
    BY <1>1 DEF Held, Outer
  <2>10. FlushKnowsItsTurn'
    BY <1>1, <2>5, <2>8, <2>9 DEF IInv, FlushKnowsItsTurn, Current, Outer
  <2>11. Tries'
    <3>1. detached # None \/ flush.at # "failed" => queue'.attempts < Attempts
      BY <2>4, AttemptsAssumption DEF IInv, Tries
    <3>2. QED
      BY <1>1, <3>1 DEF IInv, Tries, Outer
  <2>12. CardsInHand'
    <3>1. flush.at \in AtCard => Held'.notes # <<>> /\ Head(Held'.notes) = flush.note
      BY <2>4, <2>8, <2>9 DEF IInv, CardsInHand, AtCard
    <3>2. \A m \in ToSet(queue'.notes) : Assessed(m)' /\ epochOf[m] = epoch
      BY <2>1, <2>3, <2>4 DEF IInv, CardsInHand
    <3>3. \A m \in Note : stage'[m] \in {"chained", "pointer"} => epochOf[m] # None
      BY <2>2 DEF IInv, CardsInHand
    <3>4. QED
      BY <1>1, <2>3, <3>1, <3>2, <3>3 DEF IInv, CardsInHand, Outer
  <2>13. QED
    BY <1>1, <2>3, <2>6, <2>7, <2>10, <2>11, <2>12, SessionIsKnown DEF IInv
<1>5. QED
  BY <1>3, <1>4

LEMMA OfferKeeps ==
  ASSUME IInv, NEW n \in Note, Offer(n)
  PROVE  IInv'
<1>1. /\ stage[n] = "pushed" /\ UNCHANGED Outer
      /\ UNCHANGED <<about, queue, epochOf, chain, epoch, minted, faults>>
      /\ stage' = [stage EXCEPT ![n] = "done"]
      /\ flush' = Flushed(turns, queue, flush)
  BY DEF Offer, Outer, session, store
<1>2. TypeOK
  BY DEF IInv
<1>3. /\ stage' \in [Note -> Stage] /\ stage'[n] = "done"
      /\ \A m \in Note : m # n => stage'[m] = stage[m]
  BY <1>1, <1>2 DEF TypeOK, Stage
<1>4. flush' = flush \/ (flush.at = "no" /\ Started(turns, flush', queue))
  BY <1>1, FlushedStarts DEF IInv, TypeOK, Counted
<1>5. /\ Tries' /\ CardsInHand' /\ SnapshotIsTrue' /\ CardsAreRecorded'
      /\ ReceiptsAreShown' /\ OneCardPerFinding'
  BY <1>1, <1>3, <1>4, StartKeepsCards DEF Outer, store
<1>6. TypeOK'
  <2>1. flush' \in Flush
    BY <1>2, <1>4 DEF Started, TypeOK
  <2>2. flush'.at = "no" => detached' = None
    BY <1>1, <1>2, <1>4 DEF Started, TypeOK, Outer
  <2>3. QED
    BY <1>1, <1>2, <1>3, <2>1, <2>2
       DEF TypeOK, Outer, MaxTurns, MaxSteps, Faults, Forgets, Event, Flush, Turn
<1>7. Counted'
  BY <1>1 DEF IInv, Counted, Outer
<1>8. EventsAreOld' /\ WorkIsKnown'
  BY <1>1, SessionIsKnown
<1>9. FlushKnowsItsTurn'
  <2>1. CASE flush' = flush
    BY <1>1, <2>1, FlushStaysAware DEF Outer
  <2>2. CASE flush.at = "no" /\ Started(turns, flush', queue)
    <3>1. detached' = None /\ epoch' = epoch /\ queue' = queue /\ turns' = turns
      BY <1>1, <1>2, <2>2 DEF TypeOK, Outer
    <3>2. QED
      BY <1>6, <1>7, <1>8, <2>2, <3>1, Starting
  <2>3. QED
    BY <1>4, <2>1, <2>2
<1>10. QED
  BY <1>5, <1>6, <1>7, <1>8, <1>9 DEF IInv

-----------------------------------------------------------------------------
(* The invariant holds.                                                    *)

LEMMA InitSatisfiesIInv == Init => IInv
<1> SUFFICES ASSUME Init PROVE IInv
  OBVIOUS
<1>1. /\ bounds \in Bounds /\ turn = 0 /\ ~working /\ replies = 0 /\ steps = 0
      /\ card = [n \in Note |-> None] /\ events = <<>> /\ receipts = {}
      /\ withdrawn = {} /\ turns = NewTurn /\ about = [n \in Note |-> None]
      /\ stage = [n \in Note |-> "new"] /\ epochOf = [n \in Note |-> None]
      /\ chain = <<>> /\ epoch = None /\ minted = 0 /\ queue = None
      /\ flush = NoFlush /\ detached = None /\ faults = 0 /\ forgets = 0
  BY DEF Init
<1>2. /\ MaxTurns \in Nat /\ MaxSteps \in Nat /\ Faults \in Nat /\ Forgets \in Nat
  BY <1>1, BoundsAssumption DEF MaxTurns, MaxSteps, Faults, Forgets
<1>3. flush \in Flush /\ turns \in Turn
  BY <1>1, <1>2 DEF NoFlush, Flush, NewTurn, Turn
<1>4. flush.at = "no" /\ flush.snapshot = None
  BY <1>1 DEF NoFlush
<1>5. turns.epoch = 0 /\ turns.user = 0
  BY <1>1 DEF NewTurn
<1>6. DOMAIN events = {} /\ events \in Seq(Event)
  BY <1>1
<1>7. working \in BOOLEAN
  BY DEF Init
<1>8. TypeOK
  BY <1>1, <1>2, <1>3, <1>6, <1>7 DEF TypeOK, Stage
<1>9. Counted
  BY <1>1, <1>5 DEF Counted
<1>10. EventsAreOld /\ WorkIsKnown
  BY <1>1, <1>6 DEF EventsAreOld, WorkIsKnown
<1>11. FlushKnowsItsTurn /\ Tries /\ CardsInHand /\ SnapshotIsTrue
  BY <1>1, <1>4 DEF FlushKnowsItsTurn, Tries, CardsInHand, SnapshotIsTrue, AtCard
<1>12. CardsAreRecorded /\ ReceiptsAreShown /\ OneCardPerFinding
  BY <1>1, <1>4 DEF CardsAreRecorded, ReceiptsAreShown, OneCardPerFinding
<1>13. QED
  BY <1>8, <1>9, <1>10, <1>11, <1>12 DEF IInv

LEMMA NextPreservesIInv ==
  ASSUME IInv, Next
  PROVE  IInv'
<1>1. CASE UserMessage \/ StepCompletes \/ TurnCompletes \/ HandleEvent \/ Forget
  BY <1>1, UserMessageKeeps, StepCompletesKeeps, TurnCompletesKeeps,
     HandleEventKeeps, ForgetKeeps
<1>2. CASE FlushStep
  BY <1>2, NextCardKeeps, RevalidateKeeps, ReadForDeliveryKeeps,
     LoadDestinationKeeps, RenderKeeps, WriteSucceedsKeeps, RecordKeeps,
     GiveUpKeeps DEF FlushStep
<1>3. CASE LoadFails \/ WriteFails \/ RecordFails
  BY <1>3, LoadFailsKeeps, WriteFailsKeeps, RecordFailsKeeps
<1>4. ASSUME NEW n \in Note, AddStep(n) \/ PointerFails(n) \/ Withdraw(n)
      PROVE  IInv'
  BY <1>4, ReportKeeps, AssessKeeps, BeginAppendKeeps, PushKeeps, OfferKeeps,
     PointerFailsKeeps, WithdrawKeeps DEF AddStep
<1>5. QED
  BY <1>1, <1>2, <1>3, <1>4 DEF Next

LEMMA StutteringPreservesIInv ==
  ASSUME IInv, UNCHANGED vars
  PROVE  IInv'
<1>1. UNCHANGED <<turn, working, replies, steps, card, events, receipts, withdrawn,
                  turns, about, stage, epochOf, chain, epoch, minted, queue, flush,
                  detached, faults, forgets, bounds>>
  BY DEF vars, session, store, adding, flushing
<1>2. TypeOK'
  BY <1>1 DEF IInv, TypeOK, MaxTurns, MaxSteps, Faults, Forgets, Event, Flush, Turn
<1>3. Held' = Held
  BY <1>1 DEF Held
<1>4. Counted' /\ EventsAreOld' /\ WorkIsKnown'
  BY <1>1 DEF IInv, Counted, EventsAreOld, WorkIsKnown, Seen, Announced
<1>5. FlushKnowsItsTurn'
  BY <1>1, FlushStaysAware
<1>6. Tries' /\ CardsInHand' /\ SnapshotIsTrue' /\ CardsAreRecorded'
  BY <1>1, <1>3 DEF IInv, Tries, CardsInHand, Assessed, SnapshotIsTrue,
                    CardsAreRecorded
<1>7. ReceiptsAreShown' /\ OneCardPerFinding'
  BY <1>1 DEF IInv, ReceiptsAreShown, OneCardPerFinding
<1>8. QED
  BY <1>2, <1>4, <1>5, <1>6, <1>7 DEF IInv

LEMMA Invariance == Spec => []IInv
<1>1. Init => IInv
  BY InitSatisfiesIInv
<1>2. IInv /\ [Next]_vars => IInv'
  BY NextPreservesIInv, StutteringPreservesIInv
<1>3. QED
  BY <1>1, <1>2, PTL DEF Spec

\* Receipts, cards and findings agree, whatever the bounds of a behaviour: a
\* receipt is only committed for a card the session shows, and while no call
\* fails a finding reported twice has one card, also when the second report
\* arrives between the card of the first and its receipt (queue.ts:43,
\* queue.ts:86, queue.ts:114).
THEOREM CardsAndReceiptsAgree == Spec => []CardsAgree
<1>1. IInv => CardsAgree
  BY DEF IInv, CardsAgree
<1>2. QED
  BY <1>1, Invariance, PTL

-----------------------------------------------------------------------------
(* Every write of a card obeys the rules.                                  *)

\* A card is sent by Render, when the flush is still current and the session
\* does not show it.
LEMMA OnlyRenderSends ==
  ASSUME IInv, Next, Sends
  PROVE  Render /\ StillCurrent /\ ~Written(flush.note)
<1>1. flush.at = "render" /\ flush'.at = "write"
  BY DEF Sends
<1>2. flush' # flush
  BY <1>1
<1>3. ASSUME NEW t, NEW q PROVE Flushed(t, q, flush) = flush
  BY <1>1 DEF Flushed
<1>4. ~(UserMessage \/ StepCompletes \/ TurnCompletes \/ HandleEvent \/ Forget)
  BY <1>2, <1>3 DEF UserMessage, StepCompletes, TurnCompletes, HandleEvent, Forget,
                    flushing
<1>5. ASSUME NEW n \in Note, AddStep(n) \/ PointerFails(n) \/ Withdraw(n) PROVE FALSE
  BY <1>2, <1>3, <1>5 DEF AddStep, PointerFails, Withdraw, Report, Assess,
                          BeginAppend, Push, Offer, flushing
<1>6. Render
  BY <1>1, <1>4, <1>5 DEF Next, FlushStep, NextCard, Revalidate, ReadForDelivery,
       LoadDestination, WriteSucceeds, Record, GiveUp, LoadFails, WriteFails,
       RecordFails
<1>7. ~Written(flush.note)
  <2>1. SUFFICES ASSUME Written(flush.note) PROVE FALSE
    OBVIOUS
  <2>2. flush' = [flush EXCEPT !.at = "record",
                               !.snapshot.cards = @ \union {flush.note}]
    BY <1>6, <2>1 DEF Render, Acknowledged, Continue
  <2>3. flush \in Flush
    BY DEF IInv, TypeOK
  <2>4. flush'.at = "record"
    BY <2>2, <2>3 DEF Flush
  <2>5. QED
    BY <1>1, <2>4
<1>8. StillCurrent
  <2>1. SUFFICES ASSUME ~StillCurrent PROVE FALSE
    OBVIOUS
  <2>2. Stop(Held) /\ UNCHANGED outside
    BY <1>6, <1>7, <2>1 DEF Render
  <2>3. flush' = NoFlush \/ Started(turns, flush', queue')
    BY <1>1, <2>2, StopEnds, CardsHeld, BesideStays
  <2>4. QED
    BY <1>1, <2>3 DEF NoFlush, Started
<1>9. QED
  BY <1>6, <1>7, <1>8

LEMMA SendingObeysTheRules ==
  ASSUME IInv, Next, Sends
  PROVE  SentWhileIdle /\ SentToLatestReply /\ SentForThisTask /\ WrittenOnce
<1>1. /\ flush.at = "render" /\ StillCurrent /\ ~Written(flush.note)
  BY OnlyRenderSends DEF Sends
<1>2. Current /\ flush.epoch = turns.epoch
  BY <1>1 DEF StillCurrent, CanDeliver, Current
<1>3. flush.snapshot # None
  BY <1>1 DEF IInv, CardsInHand
<1>4. /\ ~working /\ flush.snapshot.anchor = replies /\ detached = None
  BY <1>1, <1>2, <1>3 DEF IInv, FlushKnowsItsTurn
<1>5. flush.note \in Note /\ flush.note \in ToSet(Held.notes)
  BY <1>1, AboutItsFirst DEF AtCard
<1>6. epochOf[flush.note] = epoch
  <2>1. Held = queue /\ queue # None
    BY <1>1, <1>4, CardsHeld DEF Held
  <2>2. QED
    BY <1>5, <2>1 DEF IInv, CardsInHand
<1>7. card[flush.note] = None
  BY <1>1, <1>3, <1>5 DEF IInv, SnapshotIsTrue, Written
<1>8. QED
  BY <1>4, <1>6, <1>7 DEF SentWhileIdle, SentToLatestReply, SentForThisTask, WrittenOnce

\* Every card is sent while the primary is idle, to the latest completed
\* reply, for the task the session has, and to a session that does not show
\* it yet: canRender is asked right before the request (queue.ts:71,
\* queue.ts:108), and its answer is right however events are delayed and
\* whatever was forgotten between the awaits of a flush.
THEOREM CardsAreSentByTheRules == Spec => SentByTheRules
<1>1. IInv /\ [Next]_vars =>
        [Sends => SentWhileIdle /\ SentToLatestReply /\ SentForThisTask /\ WrittenOnce]_vars
  <2>1. CASE Next
    BY <2>1, SendingObeysTheRules
  <2>2. CASE UNCHANGED vars
    BY <2>2
  <2>3. QED
    BY <2>1, <2>2
<1>2. QED
  BY <1>1, Invariance, PTL DEF Spec, SentByTheRules

-----------------------------------------------------------------------------
(* A queued note leaves for a reason.                                      *)

Reason(n) ==
  \/ card'[n] # None
  \/ n \in withdrawn
  \/ DeliveredFinding(n)
  \/ forgets' # forgets
  \/ flush.at = "failed" /\ n \in flush.batch

LEMMA WaitingStays ==
  ASSUME queue' = queue, NEW n, Waiting(n)
  PROVE  Waiting(n)'
BY DEF Waiting

\* The flush goes on: what it drops is the card it is about, if any.
LEMMA GoingOnDropsItsCard ==
  ASSUME IInv, flush.at # "no", NEW h \in Cards, NEW f, Continue(h, f),
         NEW n \in Note, Waiting(n), ~Waiting(n)'
  PROVE  detached = None /\ n \in ToSet(Held.notes) /\ n \notin ToSet(h.notes)
<1>1. detached = None
  BY WaitingStays DEF Continue
<1>2. queue' = h /\ Held = queue
  BY <1>1 DEF Continue, Held
<1>3. QED
  BY <1>1, <1>2, NoneAssumption DEF Waiting

LEMMA StopDropsNothingHeld ==
  ASSUME IInv, flush.at # "no", NEW held, Stop(held), NEW n \in Note,
         Waiting(n), ~Waiting(n)'
  PROVE  /\ detached = None /\ n \in ToSet(Held.notes)
         /\ held # None => n \notin ToSet(held.notes)
<1>1. detached = None
  BY WaitingStays DEF Stop
<1>2. queue' = held /\ Held = queue
  BY <1>1 DEF Stop, Held
<1>3. QED
  BY <1>1, <1>2 DEF Waiting

LEMMA ShiftingDropsTheFirst ==
  ASSUME IInv, flush.at \in AtCard, NEW n \in ToSet(Held.notes),
         NEW h \in Cards, h.notes = Shifted(Held).notes, n \notin ToSet(h.notes)
  PROVE  n = flush.note
<1>1. Held.notes # <<>> /\ Head(Held.notes) = flush.note /\ flush.at # "no"
  BY AboutItsFirst DEF AtCard
<1>2. QED
  BY <1>1, HeldWithoutItsFirst

LEMMA FailingDropsNothing ==
  ASSUME IInv, flush.at \in {"load", "write"}, Failed(Held), NEW n \in Note,
         Waiting(n)
  PROVE  Waiting(n)'
<1> DEFINE counted == [Held EXCEPT !.attempts = @ + 1]
<1>1. flush.at # "no" /\ Held \in Cards /\ Held.attempts < Attempts
  BY CardsHeld
<1>2. counted \in Cards /\ counted.notes = Held.notes
  <2>1. PICK h \in Cards : h = Held
    BY <1>1
  <2>2. h.attempts + 1 \in 0..Attempts
    BY <1>1, <2>1, AttemptsAssumption DEF Cards
  <2>3. /\ [h EXCEPT !.attempts = @ + 1] \in Cards
        /\ [h EXCEPT !.attempts = @ + 1].notes = h.notes
    BY <2>2 DEF Cards
  <2>4. QED
    BY <2>1, <2>3
<1>3. Stop(counted) \/ \E f : Continue(counted, f)
  BY DEF Failed
<1> HIDE DEF counted
<1>4. counted # None
  BY <1>2, NoneAssumption
<1>5. QED
  BY <1>1, <1>2, <1>3, <1>4, StopDropsNothingHeld, GoingOnDropsItsCard

LEMMA LeavingHasAReason ==
  ASSUME IInv, Next, NEW n \in Note, Waiting(n), ~Waiting(n)'
  PROVE  Reason(n)
<1>1. queue' # queue
  BY WaitingStays
<1>2. CASE Forget
  <2>1. forgets' = forgets + 1 /\ forgets \in Nat
    BY <1>2, TurnsAreNumbers DEF Forget, IInv
  <2>2. QED
    BY <2>1 DEF Reason
<1>3. ~(UserMessage \/ StepCompletes \/ TurnCompletes \/ HandleEvent)
  BY <1>1 DEF UserMessage, StepCompletes, TurnCompletes, HandleEvent, flushing
<1>4. ASSUME NEW m \in Note, AddStep(m) \/ PointerFails(m) \/ Withdraw(m) PROVE FALSE
  <2>1. Push(m)
    BY <1>1, <1>4 DEF AddStep, PointerFails, Withdraw, Report, Assess,
                      BeginAppend, Offer, flushing
  <2>2. queue \in Cards /\ queue # None
    BY DEF IInv, TypeOK, Waiting
  <2>3. queue' = [queue EXCEPT !.notes = Append(queue.notes, m)]
    BY <1>1, <2>1, <2>2 DEF Push
  <2>4. /\ queue' \in Cards /\ ToSet(queue'.notes) = ToSet(queue.notes) \union {m}
    <3>1. PICK q \in Cards : q = queue
      BY <2>2
    <3>2. /\ Append(q.notes, m) \in Seq(Note)
          /\ ToSet(Append(q.notes, m)) = ToSet(q.notes) \union {m}
      BY AppendAdds DEF Cards
    <3>3. /\ [q EXCEPT !.notes = Append(q.notes, m)] \in Cards
          /\ [q EXCEPT !.notes = Append(q.notes, m)].notes = Append(q.notes, m)
      BY <3>2 DEF Cards
    <3>4. QED
      BY <2>3, <3>1, <3>2, <3>3
  <2>5. QED
    BY <2>4, NoneAssumption DEF Waiting
<1>5. CASE NextCard
  <2>1. flush.at = "next"
    BY <1>5 DEF NextCard
  <2>2. CASE Held.notes = <<>>
    <3>1. ToSet(Held.notes) = {}
      BY <2>2 DEF ToSet
    <3>2. Stop(None)
      BY <1>5, <2>2 DEF NextCard
    <3>3. QED
      BY <2>1, <3>1, <3>2, StopDropsNothingHeld
  <2>3. CASE Held.notes # <<>>
    <3>1. Stop(Held) \/ \E f : Continue(Held, f)
      BY <1>5, <2>3 DEF NextCard
    <3>2. Held \in Cards /\ Held # None
      BY <2>1, CardsHeld
    <3>3. QED
      BY <2>1, <3>1, <3>2, StopDropsNothingHeld, GoingOnDropsItsCard
  <2>4. QED
    BY <2>2, <2>3
<1>6. CASE Revalidate \/ ReadForDelivery
  <2>1. flush.at \in {"eligible", "read"} /\ flush.at \in AtCard
    BY <1>6 DEF Revalidate, ReadForDelivery, AtCard
  <2>2. Held \in Cards /\ Held # None
    BY <2>1, CardsHeld
  <2>3. ~(Stop(Held) \/ \E f : Continue(Held, f))
    BY <2>1, <2>2, StopDropsNothingHeld, GoingOnDropsItsCard
  <2>4. \E f : Continue(Shifted(Held), f)
    BY <1>6, <2>3 DEF Revalidate, ReadForDelivery
  <2>5. flush.note \in withdrawn \/ ~Ready(flush.note)
    BY <1>6, <2>3 DEF Revalidate, ReadForDelivery
  <2>6. Shifted(Held) \in Cards
    BY <2>1, AboutItsFirst, HeldWithoutItsFirst
  <2>7. n = flush.note
    BY <2>1, <2>4, <2>6, GoingOnDropsItsCard, ShiftingDropsTheFirst
  <2>8. QED
    BY <2>5, <2>7 DEF Reason, Ready
<1>7. CASE LoadDestination \/ Record \/ RecordFails
  <2>1. flush.at # "no" /\ \E f : Continue(Held, f)
    BY <1>7 DEF LoadDestination, Record, RecordFails
  <2>2. QED
    BY <2>1, CardsHeld, GoingOnDropsItsCard
<1>8. CASE Render \/ WriteSucceeds
  <2>1. flush.at \in {"render", "write"} /\ flush.at \in AtCard
    BY <1>8 DEF Render, WriteSucceeds, AtCard
  <2>2. Held \in Cards /\ Held # None
    BY <2>1, CardsHeld
  <2>3. ~(Stop(Held) \/ \E f : Continue(Held, f))
    BY <2>1, <2>2, StopDropsNothingHeld, GoingOnDropsItsCard
  <2>4. Acknowledged /\ (WriteSucceeds \/ Written(flush.note))
    BY <1>8, <2>3 DEF Render, WriteSucceeds
  <2>5. PICK h \in Cards : h.notes = Shifted(Held).notes /\ \E f : Continue(h, f)
    <3>1. PICK t \in Cards : t = Shifted(Held)
      BY <2>1, AboutItsFirst, HeldWithoutItsFirst
    <3>2. /\ [t EXCEPT !.attempts = 0] \in Cards
          /\ [t EXCEPT !.attempts = 0].notes = t.notes
      BY AttemptsAssumption DEF Cards
    <3>3. QED
      BY <2>4, <3>1, <3>2 DEF Acknowledged
  <2>6. n = flush.note
    BY <2>1, <2>5, GoingOnDropsItsCard, ShiftingDropsTheFirst
  <2>7. card'[flush.note] # None
    <3>1. CASE WriteSucceeds
      <4>1. card' = [card EXCEPT ![flush.note] = flush.snapshot.anchor]
        BY <3>1 DEF WriteSucceeds
      <4>2. flush.snapshot.anchor \in Nat /\ flush.note \in Note
        BY <2>1, AboutItsFirst, CardsHeld DEF IInv, CardsInHand, Snapshot, WriteSucceeds
      <4>3. QED
        BY <4>1, <4>2, NoneAssumption DEF IInv, TypeOK
    <3>2. CASE Render /\ Written(flush.note)
      <4>1. flush.at = "render" /\ UNCHANGED outside
        BY <3>2 DEF Render
      <4>2. card[flush.note] # None
        BY <3>2, <4>1 DEF IInv, CardsInHand, SnapshotIsTrue, Written
      <4>3. QED
        BY <4>1, <4>2, BesideStays
    <3>3. QED
      BY <1>8, <2>4, <3>1, <3>2
  <2>8. QED
    BY <2>6, <2>7 DEF Reason
<1>9. ~(LoadFails \/ WriteFails)
  BY FailingDropsNothing DEF LoadFails, WriteFails
<1>10. CASE GiveUp
  <2>1. flush.at = "failed"
    BY <1>10 DEF GiveUp
  <2>2. Stop(IF Survivors = <<>> THEN None ELSE [notes |-> Survivors, attempts |-> 0])
    BY <1>10 DEF GiveUp
  <2>3. n \in ToSet(Held.notes)
    BY <2>1, <2>2, StopDropsNothingHeld
  <2>4. n \notin ToSet(Survivors)
    <3>1. CASE Survivors = <<>>
      BY <3>1 DEF ToSet
    <3>2. CASE Survivors # <<>>
      <4> DEFINE h == [notes |-> Survivors, attempts |-> 0]
      <4>1. h \in Cards /\ h.notes = Survivors
        BY <2>1, SurvivorsAreHeld, AttemptsAssumption DEF Cards
      <4>2. h # None
        BY <4>1, NoneAssumption
      <4>3. Stop(h)
        BY <2>2, <3>2
      <4> HIDE DEF h
      <4>4. QED
        BY <2>1, <4>1, <4>2, <4>3, StopDropsNothingHeld
    <3>3. QED
      BY <3>1, <3>2
  <2>5. n \in flush.batch
    BY <2>1, <2>3, <2>4, SurvivorsAreHeld
  <2>6. QED
    BY <2>1, <2>5 DEF Reason
<1>11. QED
  BY <1>2, <1>3, <1>4, <1>5, <1>6, <1>7, <1>8, <1>9, <1>10 DEF Next, FlushStep

\* No queued note is lost: it leaves the queue when it was shown, when its
\* finding was delivered or closed, when its task was replaced, or with the
\* batch of a flush with which its queue had failed Attempts times since a
\* card was last shown; a note appended while that batch was being given up
\* stays (queue.ts:181).
THEOREM NoCardIsLost == Spec => LeavesForAReason
<1>1. IInv /\ [Next]_vars =>
        [\A n \in Note : Waiting(n) /\ ~Waiting(n)' =>
           \/ card'[n] # None
           \/ n \in withdrawn
           \/ DeliveredFinding(n)
           \/ forgets' # forgets
           \/ flush.at = "failed" /\ n \in flush.batch]_vars
  <2>1. CASE Next
    BY <2>1, LeavingHasAReason DEF Reason
  <2>2. CASE UNCHANGED vars
    BY <2>2
  <2>3. QED
    BY <2>1, <2>2
<1>2. QED
  BY <1>1, Invariance, PTL DEF Spec, LeavesForAReason
=============================================================================
