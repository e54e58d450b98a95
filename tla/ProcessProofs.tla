---------------------------- MODULE ProcessProofs ----------------------------
(***************************************************************************)
(* What holds of the services that a process shares, for any number of     *)
(* their users and any bounds.                                             *)
(*                                                                         *)
(* Part 1, DatabaseClient: a caller is told the truth about its request,   *)
(* only a failure loses one, and a worker lives as long as its owners.     *)
(* Main thread and worker exchange messages in order, so the invariant is  *)
(* about the line of a worker: the replies not yet read, and behind them   *)
(* what it has not run.                                                    *)
(*                                                                         *)
(* Part 2, ProviderAdmission: every permit is counted once, in one bucket  *)
(* of the one pool that is in use, so that the limit is kept for the       *)
(* process; a call waits only in a full bucket; and a registration is of a *)
(* permit that is out.                                                     *)
(*                                                                         *)
(* Part 3, UsageLedger: a message lies between the beginning of its own    *)
(* attempt and that of the next one, so that an attribution by prompt or   *)
(* by time is right whenever it is made; and a finish() whose history      *)
(* covers its attempt sees to every reply that is not yet recorded.        *)
(***************************************************************************)
EXTENDS ProviderAdmission, DatabaseClient, UsageLedger, FiniteSetTheorems, SequenceTheorems, TLAPS

-----------------------------------------------------------------------------
\* Part 1: the SQLite worker.

USE DatabaseAssumption

Behind(w) == Len(workers[w].replies) + Len(workers[w].inbox)

\* Message i of the line of w.
Line(w, i) ==
  IF i <= Len(workers[w].replies)
  THEN workers[w].replies[i][1]
  ELSE workers[w].inbox[i - Len(workers[w].replies)]

Handle(s, w) == handles[<<s, w>>]

Holders(w, d) == {s \in Store : stores[s].handle = w /\ DirOf(s) = d}

\* A worker without a thread is as new.
Pristine(w) ==
  /\ ~workers[w].failed /\ ~workers[w].ending
  /\ workers[w].owners = NoOwners
  /\ workers[w].inbox = <<>> /\ workers[w].replies = <<>>
  /\ client # w
  /\ \A s \in Store : Handle(s, w) = [at |-> "none", last |-> FALSE]

WorkersOk ==
  /\ \A w \in Worker : workers[w].thread = "none" => Pristine(w)
  /\ \A w \in Worker : workers[w].thread = "down" => workers[w].failed
  /\ \A w \in Worker : workers[w].failed => workers[w].ending
  /\ client # 0 => workers[client].thread = "up" /\ ~workers[client].ending

OwnersOk ==
  \A w \in Worker, d \in Dir :
    /\ IsFiniteSet(Holders(w, d))
    /\ workers[w].owners[d] = Cardinality(Holders(w, d))

\* A handle is opened once, and released when its worker failed or its store
\* was closed.
HandlesOk ==
  \A s \in Store :
    /\ stores[s].closed => stores[s].handle = 0
    /\ \A w \in Worker :
         /\ Handle(s, w).at = "open" <=> stores[s].handle = w
         /\ Handle(s, w).at \in {"closing", "ending", "closed"} => workers[w].failed \/ stores[s].closed
         /\ Handle(s, w).at \in {"none", "open"} => ~Handle(s, w).last

\* The last handle of a worker leaves it without owners for good, and its
\* close is behind everything that was posted.
LastOk ==
  \A s \in Store, w \in Worker :
    Handle(s, w).last =>
      /\ workers[w].owners = NoOwners /\ client # w
      /\ Handle(s, w).at = "closing" /\ ~workers[w].failed =>
           Behind(w) > 0 /\ Line(w, Behind(w)) = <<"close", s>>

RequestsOk ==
  \A r \in Request :
    /\ requests[r].told \notin {"no", "refused"} => requests[r].store \in Store /\ requests[r].worker \in Worker
    /\ requests[r].told \in {"unavailable", "notSent"} => workers[requests[r].worker].failed
    /\ requests[r].told = "posted" =>
         /\ ~workers[requests[r].worker].failed
         /\ \E i \in 1..Behind(requests[r].worker) : Line(requests[r].worker, i) = <<"ask", r>>

\* Every message stands in one line, once.
LineOk ==
  \A w \in Worker :
    /\ \A i, j \in 1..Behind(w) : Line(w, i) = Line(w, j) => i = j
    /\ \A i \in 1..Behind(w), r \in Request : Line(w, i) = <<"ask", r>> =>
         requests[r].worker = w /\ requests[r].told \in {"posted", "unavailable"}
    /\ \A i \in 1..Behind(w), s \in Store : Line(w, i) = <<"close", s>> =>
         Handle(s, w).at \in {"closing", "ending", "closed"}

\* What was run, where the request stands.
ExecutedOk ==
  /\ ToldTheTruth
  /\ \A w \in Worker :
       /\ \A i \in DOMAIN workers[w].inbox, r \in Request :
            workers[w].inbox[i] = <<"ask", r>> => executed[r] = 0
       /\ \A i \in DOMAIN workers[w].replies, r \in Request :
            workers[w].replies[i][1] = <<"ask", r>> =>
              executed[r] = IF workers[w].replies[i][2] THEN 1 ELSE 0

\* While nothing failed, a worker ends only when it is empty and unowned.
EndsEmpty ==
  /\ failures = 0 => \A w \in Worker : workers[w].ending =>
       /\ workers[w].owners = NoOwners
       /\ \A r \in Request : requests[r].told = "posted" => requests[r].worker # w
  /\ OnlyFailuresLose

\* A worker that goes on has an owner, or one that has its close on the way.
StaysForSomeone ==
  \A w \in Worker :
    workers[w].thread = "up" /\ ~workers[w].ending =>
      \/ workers[w].owners # NoOwners
      \/ \E s \in Store : Handle(s, w).at = "closing" /\ Handle(s, w).last

DatabaseInv ==
  /\ DatabaseTypeOK
  /\ WorkersOk /\ OwnersOk /\ HandlesOk /\ LastOk
  /\ RequestsOk /\ LineOk /\ ExecutedOk
  /\ EndsEmpty /\ StaysForSomeone

----------------------------------------------------------------------------
(* The line of a worker under each thing that can happen to it.            *)

LEMMA WorkerFacts ==
  ASSUME DatabaseTypeOK, NEW w \in Worker
  PROVE  /\ workers[w] \in Thread
         /\ workers[w].inbox \in Seq(Message)
         /\ workers[w].replies \in Seq(Message \X BOOLEAN)
         /\ workers[w].owners \in [Dir -> Nat]
         /\ workers[w].failed \in BOOLEAN /\ workers[w].ending \in BOOLEAN
         /\ workers[w].thread \in {"none", "up", "down"}
         /\ Len(workers[w].inbox) \in Nat /\ Len(workers[w].replies) \in Nat
         /\ Behind(w) \in Nat
         /\ \A i \in 1..Behind(w) : Line(w, i) \in Message
<1>1. /\ workers[w] \in Thread
      /\ workers[w].inbox \in Seq(Message)
      /\ workers[w].replies \in Seq(Message \X BOOLEAN)
      /\ workers[w].owners \in [Dir -> Nat]
      /\ workers[w].failed \in BOOLEAN /\ workers[w].ending \in BOOLEAN
      /\ workers[w].thread \in {"none", "up", "down"}
  BY DEF DatabaseTypeOK, Thread
<1> DEFINE inbox == workers[w].inbox
           replies == workers[w].replies
<1>2. /\ Len(inbox) \in Nat /\ Len(replies) \in Nat
      /\ \A i \in 1..Len(inbox) : inbox[i] \in Message
      /\ \A i \in 1..Len(replies) : replies[i] \in Message \X BOOLEAN
  BY <1>1, LenProperties, ElementOfSeq
<1> HIDE DEF inbox, replies
<1>3. ASSUME NEW i \in 1..(Len(replies) + Len(inbox))
      PROVE  (IF i <= Len(replies) THEN replies[i][1] ELSE inbox[i - Len(replies)]) \in Message
  <2>1. CASE i <= Len(replies)
    BY <1>2, <2>1
  <2>2. CASE i > Len(replies)
    <3>1. i - Len(replies) \in 1..Len(inbox)
      BY <1>2, <2>2
    <3>2. QED
      BY <1>2, <2>2, <3>1
  <2>3. QED
    BY <1>2, <2>1, <2>2
<1>4. Behind(w) = Len(replies) + Len(inbox) /\ Behind(w) \in Nat
  <2>1. Behind(w) = Len(replies) + Len(inbox)
    BY DEF Behind, inbox, replies
  <2>2. QED
    BY <1>2, <2>1
<1>5. \A i \in 1..Behind(w) : Line(w, i) \in Message
  <2>1. \A i : Line(w, i) = IF i <= Len(replies) THEN replies[i][1] ELSE inbox[i - Len(replies)]
    BY DEF Line, inbox, replies
  <2>2. QED
    BY <1>3, <1>4, <2>1
<1>6. QED
  BY <1>1, <1>2, <1>4, <1>5 DEF inbox, replies

LEMMA LineStays ==
  ASSUME NEW w, workers'[w].inbox = workers[w].inbox, workers'[w].replies = workers[w].replies
  PROVE  Behind(w)' = Behind(w) /\ \A i : Line(w, i)' = Line(w, i)
BY DEF Behind, Line

LEMMA LinePosted ==
  ASSUME DatabaseTypeOK, NEW w \in Worker, NEW m \in Message,
         workers'[w].inbox = Append(workers[w].inbox, m), workers'[w].replies = workers[w].replies
  PROVE  /\ Behind(w)' = Behind(w) + 1
         /\ \A i \in 1..Behind(w) : Line(w, i)' = Line(w, i)
         /\ \A i : i = Behind(w) + 1 => Line(w, i)' = m
<1> DEFINE inbox == workers[w].inbox
           inboxP == workers'[w].inbox
           n == Len(workers[w].replies)
<1>1. inbox \in Seq(Message) /\ Len(inbox) \in Nat /\ n \in Nat
  BY WorkerFacts
<1>2. inboxP = Append(inbox, m) /\ Len(workers'[w].replies) = n
  OBVIOUS
<1>3. /\ Len(inboxP) = Len(inbox) + 1
      /\ \A i \in 1..Len(inbox) : inboxP[i] = inbox[i]
      /\ inboxP[Len(inbox) + 1] = m
  BY <1>1, <1>2, AppendProperties
<1> HIDE DEF inbox, inboxP, n
<1>4. /\ Behind(w) = n + Len(inbox) /\ Behind(w)' = n + Len(inboxP)
      /\ \A i : Line(w, i) = IF i <= n THEN workers[w].replies[i][1] ELSE inbox[i - n]
      /\ \A i : Line(w, i)' = IF i <= n THEN workers[w].replies[i][1] ELSE inboxP[i - n]
  BY <1>2 DEF Behind, Line, inbox, inboxP, n
<1>5. ASSUME NEW i \in 1..Behind(w)
      PROVE  Line(w, i)' = Line(w, i)
  <2>1. i > n => i - n \in 1..Len(inbox)
    BY <1>1, <1>4
  <2>2. QED
    BY <1>1, <1>3, <1>4, <2>1
<1>6. ASSUME NEW i, i = Behind(w) + 1
      PROVE  Line(w, i)' = m
  <2>1. ~(i <= n) /\ i - n = Len(inbox) + 1
    BY <1>1, <1>4, <1>6
  <2>2. QED
    BY <1>3, <1>4, <2>1
<1>7. QED
  BY <1>1, <1>3, <1>4, <1>5, <1>6

LEMMA LineRead ==
  ASSUME DatabaseTypeOK, NEW w \in Worker, workers[w].replies # <<>>,
         workers'[w].inbox = workers[w].inbox, workers'[w].replies = Tail(workers[w].replies)
  PROVE  /\ Behind(w) > 0 /\ Behind(w)' = Behind(w) - 1
         /\ \A i \in 1..(Behind(w) - 1) : Line(w, i)' = Line(w, i + 1)
         /\ Line(w, 1) = Head(workers[w].replies)[1]
<1> DEFINE inbox == workers[w].inbox
           replies == workers[w].replies
           rest == workers'[w].replies
<1>1. /\ inbox \in Seq(Message) /\ Len(inbox) \in Nat
      /\ replies \in Seq(Message \X BOOLEAN) /\ replies # <<>> /\ rest = Tail(replies)
  BY WorkerFacts
<1>2. /\ Len(replies) \in Nat \ {0} /\ Len(rest) = Len(replies) - 1
      /\ \A i \in 1..Len(rest) : rest[i] = replies[i + 1]
      /\ Head(replies) = replies[1]
  <2>1. Len(replies) \in Nat \ {0}
    BY <1>1, EmptySeq
  <2>2. /\ Len(rest) = Len(replies) - 1
        /\ \A i \in 1..Len(rest) : rest[i] = replies[i + 1]
    BY <1>1, HeadTailProperties
  <2>3. QED
    BY <1>1, <2>1, <2>2
<1>3. /\ Behind(w) = Len(replies) + Len(inbox) /\ Behind(w)' = Len(rest) + Len(inbox)
      /\ \A i : Line(w, i) = IF i <= Len(replies) THEN replies[i][1] ELSE inbox[i - Len(replies)]
      /\ \A i : Line(w, i)' = IF i <= Len(rest) THEN rest[i][1] ELSE inbox[i - Len(rest)]
  BY DEF Behind, Line
<1> HIDE DEF inbox, replies, rest
<1>4. ASSUME NEW i \in 1..(Behind(w) - 1)
      PROVE  Line(w, i)' = Line(w, i + 1)
  <2>1. i <= Len(rest) <=> i + 1 <= Len(replies)
    BY <1>1, <1>2, <1>3
  <2>2. i - Len(rest) = i + 1 - Len(replies)
    BY <1>1, <1>2, <1>3
  <2>3. i <= Len(rest) => i \in 1..Len(rest)
    BY <1>1, <1>2, <1>3
  <2>4. QED
    BY <1>2, <1>3, <2>1, <2>2, <2>3
<1>5. Line(w, 1) = replies[1][1]
  BY <1>2, <1>3
<1>6. Head(workers[w].replies) = replies[1]
  BY <1>2 DEF replies
<1>7. QED
  BY <1>1, <1>2, <1>3, <1>4, <1>5, <1>6

LEMMA LineRun ==
  ASSUME DatabaseTypeOK, NEW w \in Worker, workers[w].inbox # <<>>, NEW ok \in BOOLEAN,
         workers'[w].inbox = Tail(workers[w].inbox),
         workers'[w].replies = Append(workers[w].replies, <<Head(workers[w].inbox), ok>>)
  PROVE  /\ Behind(w)' = Behind(w)
         /\ \A i \in 1..Behind(w) : Line(w, i)' = Line(w, i)
         /\ Line(w, Len(workers[w].replies) + 1) = Head(workers[w].inbox)
         /\ Len(workers[w].replies) + 1 \in 1..Behind(w)
<1> DEFINE inbox == workers[w].inbox
           rest == workers'[w].inbox
           replies == workers[w].replies
           more == workers'[w].replies
           n == Len(replies)
<1>1. /\ inbox \in Seq(Message) /\ inbox # <<>> /\ rest = Tail(inbox)
      /\ replies \in Seq(Message \X BOOLEAN) /\ n \in Nat
      /\ more = Append(replies, <<Head(inbox), ok>>)
  BY WorkerFacts
<1>2. /\ Len(inbox) \in Nat \ {0} /\ Len(rest) = Len(inbox) - 1
      /\ \A i \in 1..Len(rest) : rest[i] = inbox[i + 1]
      /\ Head(inbox) = inbox[1] /\ Head(inbox) \in Message
  <2>1. Len(inbox) \in Nat \ {0}
    BY <1>1, EmptySeq
  <2>2. /\ Len(rest) = Len(inbox) - 1
        /\ \A i \in 1..Len(rest) : rest[i] = inbox[i + 1]
        /\ Head(inbox) \in Message
    BY <1>1, HeadTailProperties
  <2>3. QED
    BY <1>1, <2>1, <2>2
<1>3. /\ Len(more) = n + 1
      /\ \A i \in 1..n : more[i] = replies[i]
      /\ more[n + 1] = <<Head(inbox), ok>>
  <2>1. <<Head(inbox), ok>> \in Message \X BOOLEAN
    BY <1>2
  <2>2. QED
    BY <1>1, <2>1, AppendProperties
<1>4. /\ Behind(w) = n + Len(inbox) /\ Behind(w)' = Len(more) + Len(rest)
      /\ \A i : Line(w, i) = IF i <= n THEN replies[i][1] ELSE inbox[i - n]
      /\ \A i : Line(w, i)' = IF i <= Len(more) THEN more[i][1] ELSE rest[i - Len(more)]
  BY DEF Behind, Line
<1> HIDE DEF inbox, rest, replies, more, n
<1>5. Line(w, n + 1) = Head(inbox) /\ n + 1 \in 1..Behind(w)
  <2>1. ~(n + 1 <= n) /\ n + 1 - n = 1
    BY <1>1
  <2>2. n + 1 \in 1..(n + Len(inbox))
    BY <1>1, <1>2
  <2>3. ASSUME NEW i, i = n + 1
        PROVE  Line(w, i) = inbox[1]
    BY <1>1, <1>4, <2>3
  <2>4. QED
    BY <1>2, <1>4, <2>2, <2>3
<1>6. ASSUME NEW i \in 1..Behind(w)
      PROVE  Line(w, i)' = Line(w, i)
  <2>1. CASE i <= n
    <3>1. i \in 1..n /\ i <= Len(more)
      BY <1>1, <1>3, <2>1, <1>4, <1>2
    <3>2. QED
      BY <1>3, <1>4, <2>1, <3>1
  <2>2. CASE i = n + 1
    <3>1. ~(i <= n) /\ i <= Len(more) /\ i - n = 1
      BY <1>1, <1>3, <2>2
    <3>2. Line(w, i)' = Head(inbox)
      BY <1>3, <1>4, <2>2, <3>1
    <3>3. Line(w, i) = inbox[1]
      BY <1>4, <3>1
    <3>4. QED
      BY <1>2, <3>2, <3>3
  <2>3. CASE i > n + 1
    <3>1. /\ ~(i <= n) /\ ~(i <= Len(more)) /\ i - Len(more) \in 1..Len(rest)
          /\ i - Len(more) + 1 = i - n
      <4>1. i \in Int /\ i <= n + Len(inbox) /\ n \in Nat /\ Len(inbox) \in Nat
        BY <1>1, <1>2, <1>4
      <4>2. Len(more) = n + 1 /\ Len(rest) = Len(inbox) - 1
        BY <1>2, <1>3
      <4>3. QED
        BY <2>3, <4>1, <4>2
    <3>2. QED
      BY <1>2, <1>4, <3>1
  <2>4. i <= n \/ i = n + 1 \/ i > n + 1
    BY <1>1, <1>2, <1>4
  <2>5. QED
    BY <2>1, <2>2, <2>3, <2>4
<1>7. Behind(w)' = Behind(w)
  BY <1>1, <1>2, <1>3, <1>4
<1>8. QED
  BY <1>5, <1>6, <1>7 DEF inbox, replies, n

LEMMA LineCut ==
  ASSUME DatabaseTypeOK, NEW w \in Worker,
         workers'[w].inbox = <<>>, workers'[w].replies = workers[w].replies
  PROVE  /\ Behind(w)' \in 0..Behind(w)
         /\ \A i \in 1..Behind(w)' : Line(w, i)' = Line(w, i)
<1>1. Len(workers[w].inbox) \in Nat /\ Len(workers[w].replies) \in Nat
  BY WorkerFacts
<1>2. Len(<<>>) = 0
  OBVIOUS
<1>3. Behind(w)' = Len(workers[w].replies)
  BY <1>1, <1>2 DEF Behind
<1>4. Behind(w)' \in 0..Behind(w)
  <2>1. Behind(w) = Len(workers[w].replies) + Len(workers[w].inbox)
    BY DEF Behind
  <2> DEFINE a == Len(workers[w].replies)
             b == Len(workers[w].inbox)
  <2>2. a \in Nat /\ b \in Nat /\ Behind(w) = a + b /\ Behind(w)' = a
    BY <1>1, <1>3, <2>1
  <2> HIDE DEF a, b
  <2>3. Behind(w)' \in Nat /\ Behind(w) \in Nat /\ Behind(w)' <= Behind(w)
    BY <2>2
  <2>4. QED
    BY <2>3
<1>5. \A i \in 1..Len(workers[w].replies) : Line(w, i)' = Line(w, i)
  BY <1>1 DEF Line
<1>6. QED
  BY <1>3, <1>4, <1>5

----------------------------------------------------------------------------
(* What the parts of the invariant say together.                           *)

\* A store with a handle is an owner of its worker.
LEMMA HolderOwns ==
  ASSUME DatabaseInv, NEW s \in Store, NEW w \in Worker, stores[s].handle = w
  PROVE  /\ DirOf(s) \in Dir
         /\ workers[w].owners[DirOf(s)] \in Nat \ {0}
         /\ workers[w].owners # NoOwners
         /\ \A q \in Store : ~Handle(q, w).last
         /\ workers[w].thread # "none"
         /\ failures = 0 => ~workers[w].ending /\ ~workers[w].failed
<1>1. DirOf(s) \in Dir
  BY DEF DatabaseInv, DatabaseTypeOK, DirOf
<1>2. workers[w].owners[DirOf(s)] \in Nat \ {0}
  <2>1. s \in Holders(w, DirOf(s))
    BY DEF Holders
  <2>2. /\ IsFiniteSet(Holders(w, DirOf(s)))
        /\ workers[w].owners[DirOf(s)] = Cardinality(Holders(w, DirOf(s)))
    BY <1>1 DEF DatabaseInv, OwnersOk
  <2>3. Cardinality(Holders(w, DirOf(s))) \in Nat /\ Cardinality(Holders(w, DirOf(s))) # 0
    BY <2>1, <2>2, FS_EmptySet, FS_CardinalityType
  <2>4. QED
    BY <2>2, <2>3
<1>3. workers[w].owners # NoOwners
  BY <1>1, <1>2 DEF NoOwners
<1>4. \A q \in Store : ~Handle(q, w).last
  BY <1>3 DEF DatabaseInv, LastOk
<1>5. workers[w].thread # "none"
  BY <1>3 DEF DatabaseInv, WorkersOk, Pristine
<1>6. failures = 0 => ~workers[w].ending /\ ~workers[w].failed
  BY <1>3 DEF DatabaseInv, EndsEmpty, WorkersOk
<1>7. QED
  BY <1>1, <1>2, <1>3, <1>4, <1>5, <1>6

\* The worker that acquireDatabase() gives is a working one that s has no
\* handle of.
LEMMA ClientWorks ==
  ASSUME DatabaseInv, NEW s \in Store, NEW w \in Worker, ClientOf(w),
         ~stores[s].closed, stores[s].handle = 0
  PROVE  /\ ~workers[w].failed /\ ~workers[w].ending
         /\ workers[w].thread \in {"none", "up"}
         /\ Handle(s, w).at = "none"
         /\ \A q \in Store : ~Handle(q, w).last
<1>1. CASE client # 0
  <2>1. client = w /\ workers[w].thread = "up" /\ ~workers[w].ending
    BY <1>1 DEF ClientOf, DatabaseInv, WorkersOk
  <2>2. ~workers[w].failed /\ \A q \in Store : ~Handle(q, w).last
    BY <2>1 DEF DatabaseInv, WorkersOk, LastOk
  <2>3. Handle(s, w).at \in {"none", "open", "closing", "ending", "closed"}
    BY DEF DatabaseInv, DatabaseTypeOK, Handle
  <2>4. w # 0
    BY DEF Worker
  <2>5. Handle(s, w).at = "none"
    BY <2>2, <2>3, <2>4 DEF DatabaseInv, HandlesOk
  <2>6. QED
    BY <2>1, <2>2, <2>5
<1>2. CASE client = 0
  <2>1. workers[w].thread = "none" /\ Pristine(w)
    BY <1>2 DEF ClientOf, DatabaseInv, WorkersOk
  <2>2. QED
    BY <2>1 DEF Pristine
<1>3. QED
  BY <1>1, <1>2

LEMMA AcquiredFacts ==
  ASSUME DatabaseTypeOK, NEW s \in Store, NEW w \in Worker, NEW having, having = Acquired(s, w)
  PROVE  /\ having \in [Worker -> Thread]
         /\ \A v \in Worker : v # w => having[v] = workers[v]
         /\ having[w].thread = IF workers[w].thread = "none" THEN "up" ELSE workers[w].thread
         /\ having[w].owners = [workers[w].owners EXCEPT ![DirOf(s)] = @ + 1]
         /\ having[w].failed = workers[w].failed /\ having[w].ending = workers[w].ending
         /\ having[w].inbox = workers[w].inbox /\ having[w].replies = workers[w].replies
<1> DEFINE t == IF workers[w].thread = "none" THEN "up" ELSE workers[w].thread
           o == [workers[w].owners EXCEPT ![DirOf(s)] = @ + 1]
           worker == [workers[w] EXCEPT !.thread = t, !.owners = o]
<1>1. DirOf(s) \in Dir /\ workers \in [Worker -> Thread]
  BY DEF DatabaseTypeOK, DirOf
<1>2. t \in {"up", "down"} /\ o \in [Dir -> Nat]
  BY <1>1, WorkerFacts
<1>3. having = [workers EXCEPT ![w] = worker]
  BY <1>1 DEF Acquired, Thread
<1> HIDE DEF t, o
<1>4. /\ worker \in Thread /\ worker.thread = t /\ worker.owners = o
      /\ worker.failed = workers[w].failed /\ worker.ending = workers[w].ending
      /\ worker.inbox = workers[w].inbox /\ worker.replies = workers[w].replies
  BY <1>1, <1>2 DEF Thread
<1> HIDE DEF worker
<1>5. /\ having \in [Worker -> Thread] /\ having[w] = worker
      /\ \A v \in Worker : v # w => having[v] = workers[v]
  BY <1>1, <1>3, <1>4
<1>6. QED
  BY <1>4, <1>5 DEF t, o

\* Posting a message changes the inbox of the worker and nothing else.
WithPosted(having, w, m) == [having EXCEPT ![w].inbox = Append(@, m)]

LEMMA PostedFacts ==
  ASSUME NEW having \in [Worker -> Thread], NEW w \in Worker, NEW m \in Message,
         NEW after, after = WithPosted(having, w, m)
  PROVE  /\ after \in [Worker -> Thread]
         /\ \A v \in Worker : v # w => after[v] = having[v]
         /\ after[w].thread = having[w].thread /\ after[w].owners = having[w].owners
         /\ after[w].failed = having[w].failed /\ after[w].ending = having[w].ending
         /\ after[w].inbox = Append(having[w].inbox, m) /\ after[w].replies = having[w].replies
<1> DEFINE q == Append(having[w].inbox, m)
           worker == [having[w] EXCEPT !.inbox = q]
<1>1. having[w] \in Thread /\ having[w].inbox \in Seq(Message)
  BY DEF Thread
<1>2. q \in Seq(Message)
  BY <1>1, AppendProperties
<1>3. after = [having EXCEPT ![w] = worker]
  BY DEF WithPosted
<1> HIDE DEF q
<1>4. /\ worker \in Thread /\ worker.inbox = q
      /\ worker.thread = having[w].thread /\ worker.owners = having[w].owners
      /\ worker.failed = having[w].failed /\ worker.ending = having[w].ending
      /\ worker.replies = having[w].replies
  BY <1>1, <1>2 DEF Thread
<1> HIDE DEF worker
<1>5. /\ after \in [Worker -> Thread] /\ after[w] = worker
      /\ \A v \in Worker : v # w => after[v] = having[v]
  BY <1>3, <1>4
<1>6. QED
  BY <1>4, <1>5 DEF q

LEMMA AskStep ==
  ASSUME DatabaseInv, NEW s \in Store, NEW r \in Request, Ask(s, r)
  PROVE  DatabaseInv'
<1> DEFINE held == stores[s].handle # 0
<1>1. PICK w \in Worker :
        LET having == IF held THEN workers ELSE Acquired(s, w)
        IN /\ IF held THEN w = stores[s].handle ELSE ClientOf(w)
           /\ client' = IF held THEN client ELSE w
           /\ stores' = [stores EXCEPT ![s].handle = w]
           /\ handles' = [handles EXCEPT ![<<s, w>>].at = "open"]
           /\ requests' = [requests EXCEPT ![r] =
                [told |-> IF workers[w].failed THEN "notSent" ELSE "posted",
                 store |-> s, worker |-> w, caught |-> FALSE]]
           /\ workers' = IF workers[w].failed THEN having
                         ELSE [having EXCEPT ![w].inbox = Append(@, <<"ask", r>>)]
  BY DEF Ask
<1>2. /\ requests[r].told = "no" /\ ~stores[s].closed
      /\ UNCHANGED <<executed, failures>>
  BY DEF Ask, NextRequest, Made
<1>3. /\ client \in Worker \cup {0}
      /\ workers \in [Worker -> Thread]
      /\ stores \in [Store -> [dir : Dir, handle : Worker \cup {0}, closed : BOOLEAN]]
      /\ handles \in [Store \X Worker -> [at : {"none", "open", "closing", "ending", "closed"}, last : BOOLEAN]]
      /\ requests \in [Request -> [told : Told, store : Store \cup {0}, worker : Worker \cup {0}, caught : BOOLEAN]]
      /\ executed \in [Request -> Nat]
      /\ failures \in 0..MaxFailures
  BY DEF DatabaseInv, DatabaseTypeOK
<1>4. /\ workers[w].inbox \in Seq(Message)
      /\ workers[w].replies \in Seq(Message \X BOOLEAN)
      /\ workers[w].owners \in [Dir -> Nat]
      /\ workers[w].failed \in BOOLEAN /\ workers[w].ending \in BOOLEAN
      /\ workers[w].thread \in {"none", "up", "down"}
      /\ Behind(w) \in Nat
  BY WorkerFacts DEF DatabaseInv
<1>5. w # 0 /\ DirOf(s) \in Dir /\ <<"ask", r>> \in Message
  BY <1>3 DEF Worker, DirOf, Message
<1>6. /\ \A q \in Store : ~Handle(q, w).last
      /\ Handle(s, w).at \in {"none", "open"}
      /\ held => workers[w].thread # "none"
      /\ ~held => ~workers[w].failed /\ ~workers[w].ending /\ workers[w].thread \in {"none", "up"}
      /\ failures = 0 => ~workers[w].ending /\ ~workers[w].failed
  <2>1. CASE held
    <3>1. stores[s].handle = w
      BY <1>1, <2>1
    <3>2. Handle(s, w).at = "open"
      BY <3>1 DEF DatabaseInv, HandlesOk
    <3>3. QED
      BY <2>1, <3>1, <3>2, HolderOwns
  <2>2. CASE ~held
    <3>1. stores[s].handle = 0 /\ ClientOf(w)
      BY <1>1, <2>2
    <3>2. QED
      BY <1>2, <2>2, <3>1, ClientWorks
  <2>3. QED
    BY <2>1, <2>2
<1> DEFINE posted == ~workers[w].failed
           inboxP == IF posted THEN Append(workers[w].inbox, <<"ask", r>>) ELSE workers[w].inbox
           ownersP == IF held THEN workers[w].owners
                      ELSE [workers[w].owners EXCEPT ![DirOf(s)] = @ + 1]
           threadP == IF ~held /\ workers[w].thread = "none" THEN "up" ELSE workers[w].thread
<1>7. inboxP \in Seq(Message) /\ ownersP \in [Dir -> Nat] /\ threadP \in {"up", "down"}
  BY <1>4, <1>5, <1>6, AppendProperties
<1> DEFINE having == IF held THEN workers ELSE Acquired(s, w)
<1>8. /\ having \in [Worker -> Thread]
      /\ \A v \in Worker : v # w => having[v] = workers[v]
      /\ having[w].thread = threadP /\ having[w].owners = ownersP
      /\ having[w].failed = workers[w].failed /\ having[w].ending = workers[w].ending
      /\ having[w].inbox = workers[w].inbox /\ having[w].replies = workers[w].replies
  <2>1. CASE held
    BY <1>3, <2>1
  <2>2. CASE ~held
    BY <2>2, AcquiredFacts DEF DatabaseInv
  <2>3. QED
    BY <2>1, <2>2
<1>9. /\ workers' \in [Worker -> Thread]
      /\ \A v \in Worker : v # w => workers'[v] = workers[v]
      /\ workers'[w].thread = threadP /\ workers'[w].owners = ownersP /\ workers'[w].inbox = inboxP
      /\ workers'[w].failed = workers[w].failed /\ workers'[w].ending = workers[w].ending
      /\ workers'[w].replies = workers[w].replies
  <2>2. workers' = IF posted THEN [having EXCEPT ![w].inbox = Append(@, <<"ask", r>>)] ELSE having
    BY <1>1
  <2> HIDE DEF having, threadP, ownersP

  <2>3. CASE posted
    <3>1. workers' = [having EXCEPT ![w].inbox = Append(@, <<"ask", r>>)]
      BY <2>2, <2>3
    <3>2. /\ workers' \in [Worker -> Thread]
          /\ \A v \in Worker : v # w => workers'[v] = having[v]
          /\ workers'[w].thread = having[w].thread /\ workers'[w].owners = having[w].owners
          /\ workers'[w].failed = having[w].failed /\ workers'[w].ending = having[w].ending
          /\ workers'[w].inbox = Append(having[w].inbox, <<"ask", r>>)
          /\ workers'[w].replies = having[w].replies
      <4> DEFINE m == <<"ask", r>>
                 after == workers'
      <4>1. having \in [Worker -> Thread] /\ m \in Message /\ after = WithPosted(having, w, m)
        BY <1>5, <1>8, <3>1 DEF WithPosted
      <4> HIDE DEF m, after
      <4>2. /\ after \in [Worker -> Thread]
            /\ \A v \in Worker : v # w => after[v] = having[v]
            /\ after[w].thread = having[w].thread /\ after[w].owners = having[w].owners
            /\ after[w].failed = having[w].failed /\ after[w].ending = having[w].ending
            /\ after[w].inbox = Append(having[w].inbox, m) /\ after[w].replies = having[w].replies
        BY <4>1, PostedFacts
      <4>3. QED
        BY <4>2 DEF m, after
    <3>3. QED
      BY <1>8, <2>3, <3>2
  <2>4. CASE ~posted
    BY <1>8, <2>2, <2>4
  <2>5. QED
    BY <2>3, <2>4
<1> HIDE DEF inboxP, ownersP, threadP, having
<1>10. /\ stores' \in [Store -> [dir : Dir, handle : Worker \cup {0}, closed : BOOLEAN]]
       /\ stores'[s].handle = w
       /\ \A q \in Store : stores'[q].dir = stores[q].dir /\ stores'[q].closed = stores[q].closed
       /\ \A q \in Store : q # s => stores'[q].handle = stores[q].handle
  BY <1>1, <1>3
<1>11. /\ handles' \in [Store \X Worker -> [at : {"none", "open", "closing", "ending", "closed"}, last : BOOLEAN]]
       /\ Handle(s, w)'.at = "open" /\ ~Handle(s, w)'.last
       /\ \A q \in Store, v \in Worker : <<q, v>> # <<s, w>> => Handle(q, v)' = Handle(q, v)
  BY <1>1, <1>3, <1>6 DEF Handle
<1>12. /\ requests' \in [Request -> [told : Told, store : Store \cup {0}, worker : Worker \cup {0}, caught : BOOLEAN]]
       /\ requests'[r].told = IF posted THEN "posted" ELSE "notSent"
       /\ requests'[r].store = s /\ requests'[r].worker = w
       /\ \A q \in Request : q # r => requests'[q] = requests[q]
  BY <1>1, <1>3 DEF Told
<1>13. client' \in {client, w} /\ (held => client' = client) /\ (~held => client' = w)
  BY <1>1
<1>14. DatabaseTypeOK'
  BY <1>2, <1>3, <1>9, <1>10, <1>11, <1>12, <1>13 DEF DatabaseTypeOK
<1>15. WorkersOk'
  <2>1. ASSUME NEW v \in Worker, workers'[v].thread = "none"
        PROVE  Pristine(v)'
    <3>1. v # w
      BY <1>7, <1>9, <2>1
    <3>2. Pristine(v)
      BY <1>9, <2>1, <3>1 DEF DatabaseInv, WorkersOk
    <3>3. client' # v
      BY <1>13, <3>1, <3>2 DEF Pristine
    <3>4. QED
      BY <1>9, <1>11, <3>1, <3>2, <3>3 DEF Pristine
  <2>2. \A v \in Worker : workers'[v].thread = "down" => workers'[v].failed
    BY <1>9 DEF DatabaseInv, WorkersOk, threadP
  <2>3. \A v \in Worker : workers'[v].failed => workers'[v].ending
    BY <1>9 DEF DatabaseInv, WorkersOk
  <2>4. client' # 0 => workers'[client'].thread = "up" /\ ~workers'[client'].ending
    BY <1>3, <1>6, <1>9, <1>13 DEF DatabaseInv, WorkersOk, threadP
  <2>5. QED
    BY <2>1, <2>2, <2>3, <2>4 DEF WorkersOk
<1>16. OwnersOk'
  <2> SUFFICES ASSUME NEW v \in Worker, NEW d \in Dir
               PROVE  IsFiniteSet(Holders(v, d)') /\ workers'[v].owners[d] = Cardinality(Holders(v, d)')
    BY DEF OwnersOk
  <2>1. IsFiniteSet(Holders(v, d)) /\ workers[v].owners[d] = Cardinality(Holders(v, d))
    BY DEF DatabaseInv, OwnersOk
  <2>2. CASE held \/ v # w \/ d # DirOf(s)
    <3>1. \A q \in Store : q \in Holders(v, d)' <=> q \in Holders(v, d)
      <4> TAKE q \in Store
      <4>1. DirOf(q)' = DirOf(q)
        BY <1>10 DEF DirOf
      <4>2. CASE q # s
        BY <1>10, <4>1, <4>2 DEF Holders
      <4>3. CASE q = s
        <5>1. v # 0
          BY DEF Worker
        <5>2. QED
          BY <1>1, <1>10, <2>2, <4>1, <4>3, <5>1 DEF Holders
      <4>4. QED
        BY <4>2, <4>3
    <3>4. Holders(v, d)' = Holders(v, d)
      BY <3>1 DEF Holders
    <3>2. workers'[v].owners[d] = workers[v].owners[d]
      BY <1>4, <1>5, <1>9, <2>2 DEF ownersP
    <3>3. QED
      BY <2>1, <3>2, <3>4
  <2>3. CASE ~held /\ v = w /\ d = DirOf(s)
    <3>1. Holders(v, d)' = Holders(v, d) \cup {s} /\ s \notin Holders(v, d)
      <4>1. \A q \in Store : DirOf(q)' = DirOf(q)
        BY <1>10 DEF DirOf
      <4>2. s \in Holders(v, d)' /\ s \notin Holders(v, d)
        BY <1>5, <1>10, <2>3, <4>1 DEF Holders
      <4>3. \A q \in Store : q # s => (q \in Holders(v, d)' <=> q \in Holders(v, d))
        BY <1>10, <4>1 DEF Holders
      <4>4. Holders(v, d)' \subseteq Store /\ Holders(v, d) \subseteq Store
        BY DEF Holders
      <4>5. QED
        BY <4>2, <4>3, <4>4
    <3>2. workers'[v].owners[d] = workers[v].owners[d] + 1
      BY <1>4, <1>5, <1>9, <2>3 DEF ownersP
    <3>3. QED
      BY <2>1, <3>1, <3>2, FS_AddElement
  <2>4. QED
    BY <2>2, <2>3
<1>17. HandlesOk'
  <2> SUFFICES ASSUME NEW q \in Store
               PROVE  /\ stores'[q].closed => stores'[q].handle = 0
                      /\ \A v \in Worker :
                           /\ Handle(q, v)'.at = "open" <=> stores'[q].handle = v
                           /\ Handle(q, v)'.at \in {"closing", "ending", "closed"} => workers'[v].failed \/ stores'[q].closed
                           /\ Handle(q, v)'.at \in {"none", "open"} => ~Handle(q, v)'.last
    BY DEF HandlesOk
  <2>1. stores'[q].closed => stores'[q].handle = 0
    BY <1>2, <1>10 DEF DatabaseInv, HandlesOk
  <2>2. ASSUME NEW v \in Worker
        PROVE  /\ Handle(q, v)'.at = "open" <=> stores'[q].handle = v
               /\ Handle(q, v)'.at \in {"closing", "ending", "closed"} => workers'[v].failed \/ stores'[q].closed
               /\ Handle(q, v)'.at \in {"none", "open"} => ~Handle(q, v)'.last
    <3>1. /\ Handle(q, v).at = "open" <=> stores[q].handle = v
          /\ Handle(q, v).at \in {"closing", "ending", "closed"} => workers[v].failed \/ stores[q].closed
          /\ Handle(q, v).at \in {"none", "open"} => ~Handle(q, v).last
      BY DEF DatabaseInv, HandlesOk
    <3>2. workers'[v].failed = workers[v].failed /\ stores'[q].closed = stores[q].closed
      BY <1>9, <1>10
    <3>3. CASE q = s /\ v = w
      BY <1>10, <1>11, <3>3
    <3>4. CASE q = s /\ v # w
      <4>1. Handle(q, v)' = Handle(q, v) /\ stores'[q].handle = w
        BY <1>10, <1>11, <3>4
      <4>2. stores[q].handle # v
        BY <1>1, <1>5, <3>4 DEF Worker
      <4>3. QED
        BY <3>1, <3>2, <3>4, <4>1, <4>2
    <3>5. CASE q # s
      <4>1. Handle(q, v)' = Handle(q, v) /\ stores'[q].handle = stores[q].handle
        BY <1>10, <1>11, <3>5
      <4>2. QED
        BY <3>1, <3>2, <4>1
    <3>6. QED
      BY <3>3, <3>4, <3>5
  <2>3. QED
    BY <2>1, <2>2
<1>18. \A v \in Worker : v # w => Behind(v)' = Behind(v) /\ \A i : Line(v, i)' = Line(v, i)
  BY <1>9, LineStays
<1>19. /\ Behind(w)' = IF posted THEN Behind(w) + 1 ELSE Behind(w)
       /\ \A i \in 1..Behind(w) : Line(w, i)' = Line(w, i)
       /\ posted => \A i : i = Behind(w) + 1 => Line(w, i)' = <<"ask", r>>
  <2>1. CASE posted
    <3>1. workers'[w].inbox = Append(workers[w].inbox, <<"ask", r>>)
      BY <1>9, <2>1 DEF inboxP
    <3>2. QED
      BY <1>5, <1>9, <2>1, <3>1, LinePosted DEF DatabaseInv
  <2>2. CASE ~posted
    <3>1. workers'[w].inbox = workers[w].inbox
      BY <1>9, <2>2 DEF inboxP
    <3>2. QED
      BY <1>9, <2>2, <3>1, LineStays
  <2>3. QED
    BY <2>1, <2>2
<1>20. LastOk'
  <2> SUFFICES ASSUME NEW q \in Store, NEW v \in Worker, Handle(q, v)'.last
               PROVE  /\ workers'[v].owners = NoOwners /\ client' # v
                      /\ Handle(q, v)'.at = "closing" /\ ~workers'[v].failed =>
                           /\ Behind(v)' > 0
                           /\ \A i : i = Behind(v)' => Line(v, i)' = <<"close", q>>
    BY DEF LastOk, NoOwners
  <2>1. v # w
    BY <1>6, <1>11
  <2>2. QED
    BY <1>9, <1>11, <1>13, <1>18, <2>1 DEF DatabaseInv, LastOk
<1>21. \A v \in Worker : \A i \in 1..Behind(v) : Line(v, i) # <<"ask", r>>
  BY <1>2 DEF DatabaseInv, LineOk
<1>22. RequestsOk'
  <2> SUFFICES ASSUME NEW q \in Request
               PROVE  /\ requests'[q].told \notin {"no", "refused"} =>
                           requests'[q].store \in Store /\ requests'[q].worker \in Worker
                      /\ requests'[q].told \in {"unavailable", "notSent"} => workers'[requests'[q].worker].failed
                      /\ requests'[q].told = "posted" =>
                           /\ ~workers'[requests'[q].worker].failed
                           /\ \E i \in 1..Behind(requests[q].worker)' : Line(requests[q].worker, i)' = <<"ask", q>>
    BY DEF RequestsOk
  <2>1. CASE q = r
    <3>1. posted => Behind(w) + 1 \in 1..Behind(w)'
      BY <1>4, <1>19
    <3>2. QED
      BY <1>9, <1>12, <1>19, <2>1, <3>1
  <2>2. CASE q # r
    <3>1. requests'[q] = requests[q]
      BY <1>12, <2>2
    <3>2. /\ requests[q].told \notin {"no", "refused"} =>
               requests[q].store \in Store /\ requests[q].worker \in Worker
          /\ requests[q].told \in {"unavailable", "notSent"} => workers[requests[q].worker].failed
          /\ requests[q].told = "posted" =>
               /\ ~workers[requests[q].worker].failed
               /\ \E i \in 1..Behind(requests[q].worker) : Line(requests[q].worker, i) = <<"ask", q>>
      BY DEF DatabaseInv, RequestsOk
    <3>3. \A v \in Worker : workers'[v].failed = workers[v].failed
      BY <1>9
    <3>4. \A v \in Worker : \A i \in 1..Behind(v) : i \in 1..Behind(v)' /\ Line(v, i)' = Line(v, i)
      BY <1>4, <1>18, <1>19
    <3>5. QED
      BY <3>1, <3>2, <3>3, <3>4
  <2>3. QED
    BY <2>1, <2>2
<1>23. LineOk'
  <2> SUFFICES ASSUME NEW v \in Worker
               PROVE  /\ \A i, j \in 1..Behind(v)' : Line(v, i)' = Line(v, j)' => i = j
                      /\ \A i \in 1..Behind(v)', q \in Request : Line(v, i)' = <<"ask", q>> =>
                           requests'[q].worker = v /\ requests'[q].told \in {"posted", "unavailable"}
                      /\ \A i \in 1..Behind(v)', q \in Store : Line(v, i)' = <<"close", q>> =>
                           Handle(q, v)'.at \in {"closing", "ending", "closed"}
    BY DEF LineOk
  <2>1. /\ \A i, j \in 1..Behind(v) : Line(v, i) = Line(v, j) => i = j
        /\ \A i \in 1..Behind(v), q \in Request : Line(v, i) = <<"ask", q>> =>
             requests[q].worker = v /\ requests[q].told \in {"posted", "unavailable"}
        /\ \A i \in 1..Behind(v), q \in Store : Line(v, i) = <<"close", q>> =>
             Handle(q, v).at \in {"closing", "ending", "closed"}
        /\ Behind(v) \in Nat
    BY WorkerFacts DEF DatabaseInv, LineOk
  <2>2. \A i \in 1..Behind(v)' : \/ i \in 1..Behind(v) /\ Line(v, i)' = Line(v, i)
                                \/ /\ v = w /\ posted /\ i = Behind(v) + 1
                                   /\ Line(v, i)' = <<"ask", r>>
    BY <1>18, <1>19, <2>1
  <2>3. \A i, j \in 1..Behind(v)' : Line(v, i)' = Line(v, j)' => i = j
    BY <1>21, <2>1, <2>2
  <2>4. ASSUME NEW i \in 1..Behind(v)', NEW q \in Request, Line(v, i)' = <<"ask", q>>
        PROVE  requests'[q].worker = v /\ requests'[q].told \in {"posted", "unavailable"}
    <3>1. CASE q = r
      BY <1>12, <1>21, <2>2, <2>4, <3>1
    <3>2. CASE q # r
      BY <1>12, <2>1, <2>2, <2>4, <3>2
    <3>3. QED
      BY <3>1, <3>2
  <2>5. ASSUME NEW i \in 1..Behind(v)', NEW q \in Store, Line(v, i)' = <<"close", q>>
        PROVE  Handle(q, v)'.at \in {"closing", "ending", "closed"}
    <3>1. Handle(q, v).at \in {"closing", "ending", "closed"}
      BY <2>1, <2>2, <2>5
    <3>2. <<q, v>> # <<s, w>>
      BY <1>6, <3>1
    <3>3. QED
      BY <1>11, <3>1, <3>2
  <2>6. QED
    BY <2>3, <2>4, <2>5
<1>24. ExecutedOk'
  <2>1. executed[r] = 0
    BY <1>2 DEF DatabaseInv, ExecutedOk, ToldTheTruth
  <2>2. ToldTheTruth'
    BY <1>2, <1>12, <2>1 DEF DatabaseInv, ExecutedOk, ToldTheTruth
  <2>3. ASSUME NEW v \in Worker, NEW i \in DOMAIN workers'[v].inbox, NEW q \in Request,
               workers'[v].inbox[i] = <<"ask", q>>
        PROVE  executed'[q] = 0
    <3>1. CASE q = r
      BY <1>2, <2>1, <3>1
    <3>2. CASE q # r
      <4>1. i \in DOMAIN workers[v].inbox /\ workers[v].inbox[i] = <<"ask", q>>
        <5>1. CASE v = w /\ posted
          <6>1. workers'[w].inbox = Append(workers[w].inbox, <<"ask", r>>)
            BY <1>9, <5>1 DEF inboxP
          <6>2. \/ i \in DOMAIN workers[w].inbox /\ workers'[w].inbox[i] = workers[w].inbox[i]
                \/ workers'[w].inbox[i] = <<"ask", r>>
            BY <1>4, <1>5, <2>3, <5>1, <6>1, AppendProperties, LenProperties
          <6>3. QED
            BY <2>3, <3>2, <5>1, <6>2
        <5>2. CASE ~(v = w /\ posted)
          BY <1>9, <2>3, <5>2 DEF inboxP
        <5>3. QED
          BY <5>1, <5>2
      <4>2. QED
        BY <1>2, <4>1 DEF DatabaseInv, ExecutedOk
    <3>3. QED
      BY <3>1, <3>2
  <2>4. \A v \in Worker : workers'[v].replies = workers[v].replies
    BY <1>9
  <2>5. QED
    BY <1>2, <2>2, <2>3, <2>4 DEF DatabaseInv, ExecutedOk
<1>25. EndsEmpty'
  <2>1. OnlyFailuresLose'
    BY <1>2, <1>6, <1>12 DEF DatabaseInv, EndsEmpty, OnlyFailuresLose
  <2>2. ASSUME failures' = 0, NEW v \in Worker, workers'[v].ending
        PROVE  /\ workers'[v].owners = NoOwners
               /\ \A q \in Request : requests'[q].told = "posted" => requests'[q].worker # v
    <3>1. v # w
      BY <1>2, <1>6, <1>9, <2>2
    <3>2. QED
      BY <1>2, <1>9, <1>12, <2>2, <3>1 DEF DatabaseInv, EndsEmpty
  <2>3. QED
    BY <2>1, <2>2 DEF EndsEmpty, NoOwners
<1>26. StaysForSomeone'
  <2> SUFFICES ASSUME NEW v \in Worker, workers'[v].thread = "up", ~workers'[v].ending
               PROVE  \/ workers'[v].owners # NoOwners
                      \/ \E q \in Store : Handle(q, v)'.at = "closing" /\ Handle(q, v)'.last
    BY DEF StaysForSomeone, NoOwners
  <2>1. CASE v = w
    <3>1. workers'[w].owners[DirOf(s)] # 0
      <4>1. CASE held
        <5>1. stores[s].handle = w
          BY <1>1, <4>1
        <5>2. QED
          BY <1>9, <4>1, <5>1, HolderOwns DEF ownersP
      <4>2. CASE ~held
        BY <1>4, <1>5, <1>9, <4>2 DEF ownersP
      <4>3. QED
        BY <4>1, <4>2
    <3>2. QED
      BY <1>5, <2>1, <3>1 DEF NoOwners
  <2>2. CASE v # w
    BY <1>9, <1>11, <2>2 DEF DatabaseInv, StaysForSomeone
  <2>3. QED
    BY <2>1, <2>2
<1>27. QED
  BY <1>14, <1>15, <1>16, <1>17, <1>20, <1>22, <1>23, <1>24, <1>25, <1>26 DEF DatabaseInv

LEMMA AskTooLateStep ==
  ASSUME DatabaseInv, NEW s \in Store, NEW r \in Request, AskTooLate(s, r)
  PROVE  DatabaseInv'
<1>1. /\ requests[r].told = "no" /\ requests' = [requests EXCEPT ![r].told = "refused", ![r].store = s]
      /\ UNCHANGED <<client, workers, stores, handles, executed, failures>>
  BY DEF AskTooLate, NextRequest, Made
<1>2. requests \in [Request -> [told : Told, store : Store \cup {0}, worker : Worker \cup {0}, caught : BOOLEAN]]
  BY DEF DatabaseInv, DatabaseTypeOK
<1>3. /\ requests' \in [Request -> [told : Told, store : Store \cup {0}, worker : Worker \cup {0}, caught : BOOLEAN]]
      /\ requests'[r].told = "refused"
      /\ \A q \in Request : q # r => requests'[q] = requests[q]
  BY <1>1, <1>2 DEF Told
<1>4. \A w \in Worker : Behind(w)' = Behind(w) /\ \A i : Line(w, i)' = Line(w, i)
  BY <1>1, LineStays
<1>5. DatabaseTypeOK'
  BY <1>1, <1>3 DEF DatabaseInv, DatabaseTypeOK, Worker, Request, Thread, Message
<1>6. \A s_1 \in Store, w \in Worker : Handle(s_1, w)' = Handle(s_1, w)
  BY <1>1 DEF Handle
<1>7. WorkersOk'
  BY <1>1, <1>6 DEF DatabaseInv, WorkersOk, Pristine, NoOwners
<1>8. OwnersOk'
  BY <1>1 DEF DatabaseInv, OwnersOk, Holders, DirOf
<1>9. HandlesOk'
  BY <1>1, <1>6 DEF DatabaseInv, HandlesOk
<1>10. LastOk'
  <2> SUFFICES ASSUME NEW q \in Store, NEW v \in Worker, Handle(q, v)'.last
               PROVE  /\ workers'[v].owners = NoOwners /\ client' # v
                      /\ Handle(q, v)'.at = "closing" /\ ~workers'[v].failed =>
                           /\ Behind(v)' > 0
                           /\ \A i : i = Behind(v)' => Line(v, i)' = <<"close", q>>
    BY DEF LastOk, NoOwners
  <2>1. QED
    BY <1>1, <1>4, <1>6 DEF DatabaseInv, LastOk
<1>11. RequestsOk'
  <2> SUFFICES ASSUME NEW q \in Request
               PROVE  /\ requests'[q].told \notin {"no", "refused"} =>
                           requests'[q].store \in Store /\ requests'[q].worker \in Worker
                      /\ requests'[q].told \in {"unavailable", "notSent"} => workers'[requests'[q].worker].failed
                      /\ requests'[q].told = "posted" =>
                           /\ ~workers'[requests'[q].worker].failed
                           /\ \E i \in 1..Behind(requests[q].worker)' : Line(requests[q].worker, i)' = <<"ask", q>>
    BY DEF RequestsOk
  <2>1. CASE q = r
    BY <1>3, <2>1
  <2>2. CASE q # r
    <3>1. /\ requests[q].told \notin {"no", "refused"} =>
               requests[q].store \in Store /\ requests[q].worker \in Worker
          /\ requests[q].told \in {"unavailable", "notSent"} => workers[requests[q].worker].failed
          /\ requests[q].told = "posted" =>
               /\ ~workers[requests[q].worker].failed
               /\ \E i \in 1..Behind(requests[q].worker) : Line(requests[q].worker, i) = <<"ask", q>>
      BY DEF DatabaseInv, RequestsOk
    <3>2. QED
      BY <1>1, <1>3, <1>4, <2>2, <3>1
  <2>3. QED
    BY <2>1, <2>2
<1>12. LineOk'
  <2> SUFFICES ASSUME NEW v \in Worker
               PROVE  /\ \A i, j \in 1..Behind(v)' : Line(v, i)' = Line(v, j)' => i = j
                      /\ \A i \in 1..Behind(v)', q \in Request : Line(v, i)' = <<"ask", q>> =>
                           requests'[q].worker = v /\ requests'[q].told \in {"posted", "unavailable"}
                      /\ \A i \in 1..Behind(v)', q \in Store : Line(v, i)' = <<"close", q>> =>
                           Handle(q, v)'.at \in {"closing", "ending", "closed"}
    BY DEF LineOk
  <2>1. \A i \in 1..Behind(v), q \in Request : Line(v, i) = <<"ask", q>> => q # r
    BY <1>1 DEF DatabaseInv, LineOk
  <2>2. QED
    BY <1>3, <1>4, <1>6, <2>1 DEF DatabaseInv, LineOk
<1>13. ExecutedOk'
  BY <1>1, <1>3 DEF DatabaseInv, ExecutedOk, ToldTheTruth
<1>14. EndsEmpty'
  BY <1>1, <1>3 DEF DatabaseInv, EndsEmpty, OnlyFailuresLose, NoOwners
<1>15. StaysForSomeone'
  BY <1>1, <1>6 DEF DatabaseInv, StaysForSomeone, NoOwners
<1>16. QED
  BY <1>5, <1>7, <1>8, <1>9, <1>10, <1>11, <1>12, <1>13, <1>14, <1>15 DEF DatabaseInv

\* What a step does beside releasing the handle of s: the store lets go of
\* it, because its worker failed or because it closes.
LetsGo(s, w) ==
  /\ stores' \in [Store -> [dir : Dir, handle : Worker \cup {0}, closed : BOOLEAN]]
  /\ \A q \in Store : stores'[q].dir = stores[q].dir
  /\ \A q \in Store : q # s => stores'[q].handle = stores[q].handle
  /\ stores'[s].handle = 0
  /\ \A q \in Store : stores[q].closed => stores'[q].closed
  /\ \A q \in Store : q # s => stores'[q].closed = stores[q].closed
  /\ workers[w].failed \/ stores'[s].closed
  /\ requests' \in [Request -> [told : Told, store : Store \cup {0}, worker : Worker \cup {0}, caught : BOOLEAN]]
  /\ \A r \in Request : /\ requests'[r].told = requests[r].told
                        /\ requests'[r].store = requests[r].store
                        /\ requests'[r].worker = requests[r].worker
  /\ UNCHANGED <<executed, failures>>

LEMMA ReleaseFacts ==
  ASSUME DatabaseTypeOK, NEW s \in Store, NEW w \in Worker, ReleaseHandle(s, w),
         workers[w].failed => workers[w].ending, workers[w].owners[DirOf(s)] \in Nat \ {0}
  PROVE  /\ workers' \in [Worker -> Thread]
         /\ \A v \in Worker : v # w => workers'[v] = workers[v]
         /\ workers'[w].thread = workers[w].thread
         /\ workers'[w].failed = workers[w].failed /\ workers'[w].ending = workers[w].ending
         /\ workers'[w].replies = workers[w].replies
         /\ workers'[w].owners = [workers[w].owners EXCEPT ![DirOf(s)] = @ - 1]
         /\ workers'[w].inbox = IF workers[w].owners[DirOf(s)] = 1 /\ ~workers[w].failed
                                THEN Append(workers[w].inbox, <<"close", s>>) ELSE workers[w].inbox
<1> DEFINE worker == workers[w]
           d == DirOf(s)
           shared == worker.owners[d] > 1
           lost == worker.failed
           o == [worker.owners EXCEPT ![d] = @ - 1]
           q == Append(worker.inbox, <<"close", s>>)
           left == [worker EXCEPT !.owners = o]
           last == LastOwner(s, w)
           after == IF shared THEN left
                    ELSE IF ~lost THEN [left EXCEPT !.inbox = q]
                    ELSE [left EXCEPT !.ending = @ \/ last]
<1>1. d \in Dir /\ worker \in Thread /\ <<"close", s>> \in Message /\ workers \in [Worker -> Thread]
  BY DEF DatabaseTypeOK, DirOf, Message
<1>2. o \in [Dir -> Nat] /\ q \in Seq(Message)
  <2>1. worker.owners \in [Dir -> Nat] /\ worker.inbox \in Seq(Message)
    BY <1>1 DEF Thread
  <2>2. o \in [Dir -> Nat]
    BY <1>1, <2>1
  <2>3. QED
    BY <1>1, <2>1, <2>2, AppendProperties
<1>3. workers' = [workers EXCEPT ![w] = after]
  BY <1>1 DEF ReleaseHandle, Thread
<1>4. last \in BOOLEAN
  BY DEF LastOwner
<1>5. lost \in BOOLEAN /\ (lost => worker.ending) /\ (shared <=> worker.owners[d] # 1)
  BY <1>1 DEF Thread
<1> HIDE DEF o, q, last
<1>6. /\ after \in Thread /\ after.thread = worker.thread /\ after.failed = worker.failed
      /\ after.ending = worker.ending /\ after.replies = worker.replies /\ after.owners = o
      /\ after.inbox = IF worker.owners[d] = 1 /\ ~lost THEN q ELSE worker.inbox
  <2>1. /\ left \in Thread /\ left.thread = worker.thread /\ left.failed = lost
        /\ left.ending = worker.ending /\ left.replies = worker.replies /\ left.owners = o
        /\ left.inbox = worker.inbox
    BY <1>1, <1>2 DEF Thread
  <2> HIDE DEF worker, left, d
  <2>2. CASE shared
    BY <1>5, <2>1, <2>2
  <2>3. CASE ~shared /\ ~lost
    BY <1>2, <1>5, <2>1, <2>3 DEF Thread
  <2>4. CASE ~shared /\ lost
    BY <1>4, <1>5, <2>1, <2>4 DEF Thread
  <2>5. QED
    BY <2>2, <2>3, <2>4
<1> HIDE DEF after
<1>7. /\ workers' \in [Worker -> Thread] /\ workers'[w] = after
      /\ \A v \in Worker : v # w => workers'[v] = workers[v]
  BY <1>1, <1>3, <1>6
<1>8. QED
  BY <1>6, <1>7 DEF o, q

LEMMA Released ==
  ASSUME DatabaseInv, NEW s \in Store, NEW w \in Worker, stores[s].handle = w,
         ReleaseHandle(s, w), LetsGo(s, w)
  PROVE  DatabaseInv'
<1> DEFINE d == DirOf(s)
           only == workers[w].owners[d] = 1
           posted == only /\ ~workers[w].failed
           last == LastOwner(s, w)
<1>1. /\ d \in Dir /\ workers[w].owners[d] \in Nat \ {0} /\ workers[w].owners \in [Dir -> Nat]
      /\ \A q \in Store : ~Handle(q, w).last
      /\ workers[w].thread # "none"
      /\ failures = 0 => ~workers[w].ending /\ ~workers[w].failed
      /\ w # 0 /\ Behind(w) \in Nat /\ workers[w].inbox \in Seq(Message)
      /\ workers[w].failed \in BOOLEAN /\ (workers[w].failed => workers[w].ending)
  BY HolderOwns, WorkerFacts DEF DatabaseInv, WorkersOk, Worker
<1>2. /\ workers' \in [Worker -> Thread]
      /\ \A v \in Worker : v # w => workers'[v] = workers[v]
      /\ workers'[w].thread = workers[w].thread
      /\ workers'[w].failed = workers[w].failed /\ workers'[w].ending = workers[w].ending
      /\ workers'[w].replies = workers[w].replies
      /\ workers'[w].owners = [workers[w].owners EXCEPT ![d] = @ - 1]
      /\ workers'[w].inbox = IF posted THEN Append(workers[w].inbox, <<"close", s>>) ELSE workers[w].inbox
  BY <1>1, ReleaseFacts DEF DatabaseInv
<1>3. client' \in {0, client} /\ (last => client' # w)
  BY <1>1 DEF ReleaseHandle
<1>4. /\ last \in BOOLEAN /\ (last => only)
      /\ last <=> workers'[w].owners = NoOwners
  <2>1. last <=> workers[w].owners = [NoOwners EXCEPT ![d] = 1]
    BY DEF LastOwner
  <2>2. NoOwners \in [Dir -> Nat] /\ \A e \in Dir : NoOwners[e] = 0
    BY DEF NoOwners
  <2>3. last => only
    BY <1>1, <2>1, <2>2
  <2>4. ASSUME last
        PROVE  workers'[w].owners = NoOwners
    <3>1. \A e \in Dir : workers'[w].owners[e] = NoOwners[e]
      BY <1>1, <1>2, <2>1, <2>2, <2>4
    <3>2. QED
      BY <1>1, <1>2, <2>2, <3>1
  <2>5. ASSUME workers'[w].owners = NoOwners
        PROVE  last
    <3>1. \A e \in Dir : workers[w].owners[e] = [NoOwners EXCEPT ![d] = 1][e]
      BY <1>1, <1>2, <2>2, <2>5
    <3>2. workers[w].owners = [NoOwners EXCEPT ![d] = 1]
      BY <1>1, <2>2, <3>1
    <3>3. QED
      BY <2>1, <3>2
  <2>6. last \in BOOLEAN
    BY DEF LastOwner
  <2> HIDE DEF last
  <2>7. QED
    BY <2>3, <2>4, <2>5, <2>6
<1>5. /\ handles' \in [Store \X Worker -> [at : {"none", "open", "closing", "ending", "closed"}, last : BOOLEAN]]
      /\ Handle(s, w)'.last = last
      /\ Handle(s, w)'.at \in {"closing", "ending", "closed"}
      /\ Handle(s, w)'.at = "closing" <=> posted
      /\ \A q \in Store, v \in Worker : <<q, v>> # <<s, w>> => Handle(q, v)' = Handle(q, v)
  <2>1. handles \in [Store \X Worker -> [at : {"none", "open", "closing", "ending", "closed"}, last : BOOLEAN]]
    BY DEF DatabaseInv, DatabaseTypeOK
  <2> DEFINE at == IF ~(workers[w].owners[d] > 1) /\ ~workers[w].failed THEN "closing"
                   ELSE IF workers[w].failed /\ (workers[w].owners[d] > 1 \/ last) /\ workers[w].thread = "up"
                        THEN "ending" ELSE "closed"
  <2>2. handles' = [handles EXCEPT ![<<s, w>>] = [at |-> at, last |-> last]]
    BY DEF ReleaseHandle
  <2>3. at \in {"closing", "ending", "closed"} /\ (at = "closing" <=> posted)
    BY <1>1
  <2> HIDE DEF at, last, posted
  <2>4. QED
    BY <1>4, <2>1, <2>2, <2>3 DEF Handle
<1>6. \A q \in Store : Handle(s, w).at = "open" /\ ~Handle(q, w).last
  BY <1>1 DEF DatabaseInv, HandlesOk
<1>7. /\ stores' \in [Store -> [dir : Dir, handle : Worker \cup {0}, closed : BOOLEAN]]
      /\ \A q \in Store : stores'[q].dir = stores[q].dir
      /\ \A q \in Store : q # s => stores'[q].handle = stores[q].handle
      /\ stores'[s].handle = 0
      /\ \A q \in Store : stores[q].closed => stores'[q].closed
      /\ \A q \in Store : q # s => stores'[q].closed = stores[q].closed
      /\ workers[w].failed \/ stores'[s].closed
  BY DEF LetsGo
<1>8. /\ requests' \in [Request -> [told : Told, store : Store \cup {0}, worker : Worker \cup {0}, caught : BOOLEAN]]
      /\ \A r \in Request : requests'[r].told = requests[r].told
      /\ \A r \in Request : requests'[r].store = requests[r].store
      /\ \A r \in Request : requests'[r].worker = requests[r].worker
      /\ UNCHANGED <<executed, failures>>
  BY DEF LetsGo
<1>9. <<"close", s>> \in Message
  BY DEF Message
<1>10. /\ client \in Worker \cup {0} /\ executed \in [Request -> Nat] /\ failures \in 0..MaxFailures
  BY DEF DatabaseInv, DatabaseTypeOK
<1> HIDE DEF last
<1>11. DatabaseTypeOK'
  BY <1>2, <1>3, <1>5, <1>7, <1>8, <1>10 DEF DatabaseTypeOK
<1>12. WorkersOk'
  <2>1. ASSUME NEW v \in Worker, workers'[v].thread = "none"
        PROVE  Pristine(v)'
    <3>1. v # w
      BY <1>1, <1>2, <2>1
    <3>2. Pristine(v) /\ v # 0
      BY <1>2, <2>1, <3>1 DEF DatabaseInv, WorkersOk, Worker
    <3>3. client' # v
      BY <1>3, <3>2 DEF Pristine
    <3>4. QED
      BY <1>2, <1>5, <3>1, <3>2, <3>3 DEF Pristine
  <2>2. \A v \in Worker : workers'[v].thread = "down" => workers'[v].failed
    BY <1>2 DEF DatabaseInv, WorkersOk
  <2>3. \A v \in Worker : workers'[v].failed => workers'[v].ending
    BY <1>2 DEF DatabaseInv, WorkersOk
  <2>4. client' # 0 => workers'[client'].thread = "up" /\ ~workers'[client'].ending
    BY <1>2, <1>3, <1>10 DEF DatabaseInv, WorkersOk
  <2>5. QED
    BY <2>1, <2>2, <2>3, <2>4 DEF WorkersOk
<1>13. OwnersOk'
  <2> SUFFICES ASSUME NEW v \in Worker, NEW e \in Dir
               PROVE  IsFiniteSet(Holders(v, e)') /\ workers'[v].owners[e] = Cardinality(Holders(v, e)')
    BY DEF OwnersOk
  <2>1. IsFiniteSet(Holders(v, e)) /\ workers[v].owners[e] = Cardinality(Holders(v, e))
    BY DEF DatabaseInv, OwnersOk
  <2>2. \A q \in Store : DirOf(q)' = DirOf(q)
    BY <1>7 DEF DirOf
  <2>3. v # 0
    BY DEF Worker
  <2>4. CASE v # w \/ e # d
    <3>1. s \notin Holders(v, e) /\ s \notin Holders(v, e)'
      BY <1>7, <2>2, <2>3, <2>4 DEF Holders
    <3>2. \A q \in Store : q # s => (q \in Holders(v, e)' <=> q \in Holders(v, e))
      BY <1>7, <2>2 DEF Holders
    <3>3. Holders(v, e)' \subseteq Store /\ Holders(v, e) \subseteq Store
      BY DEF Holders
    <3>4. Holders(v, e)' = Holders(v, e)
      BY <3>1, <3>2, <3>3
    <3>5. workers'[v].owners[e] = workers[v].owners[e]
      BY <1>1, <1>2, <2>4
    <3>6. QED
      BY <2>1, <3>4, <3>5
  <2>5. CASE v = w /\ e = d
    <3>1. s \in Holders(v, e) /\ s \notin Holders(v, e)'
      BY <1>7, <2>2, <2>3, <2>5 DEF Holders
    <3>2. \A q \in Store : q # s => (q \in Holders(v, e)' <=> q \in Holders(v, e))
      BY <1>7, <2>2 DEF Holders
    <3>3. Holders(v, e)' \subseteq Store /\ Holders(v, e) \subseteq Store
      BY DEF Holders
    <3>4. Holders(v, e)' = Holders(v, e) \ {s}
      BY <3>1, <3>2, <3>3
    <3>5. workers'[v].owners[e] = workers[v].owners[e] - 1
      BY <1>1, <1>2, <2>5
    <3>6. QED
      BY <2>1, <3>1, <3>4, <3>5, FS_RemoveElement
  <2>6. QED
    BY <2>4, <2>5
<1>14. HandlesOk'
  <2> SUFFICES ASSUME NEW q \in Store
               PROVE  /\ stores'[q].closed => stores'[q].handle = 0
                      /\ \A v \in Worker :
                           /\ Handle(q, v)'.at = "open" <=> stores'[q].handle = v
                           /\ Handle(q, v)'.at \in {"closing", "ending", "closed"} => workers'[v].failed \/ stores'[q].closed
                           /\ Handle(q, v)'.at \in {"none", "open"} => ~Handle(q, v)'.last
    BY DEF HandlesOk
  <2>1. stores'[q].closed => stores'[q].handle = 0
    BY <1>7 DEF DatabaseInv, HandlesOk
  <2>2. ASSUME NEW v \in Worker
        PROVE  /\ Handle(q, v)'.at = "open" <=> stores'[q].handle = v
               /\ Handle(q, v)'.at \in {"closing", "ending", "closed"} => workers'[v].failed \/ stores'[q].closed
               /\ Handle(q, v)'.at \in {"none", "open"} => ~Handle(q, v)'.last
    <3>1. /\ Handle(q, v).at = "open" <=> stores[q].handle = v
          /\ Handle(q, v).at \in {"closing", "ending", "closed"} => workers[v].failed \/ stores[q].closed
          /\ Handle(q, v).at \in {"none", "open"} => ~Handle(q, v).last
      BY DEF DatabaseInv, HandlesOk
    <3>2. workers'[v].failed = workers[v].failed /\ (stores[q].closed => stores'[q].closed)
      BY <1>2, <1>7
    <3>3. v # 0
      BY DEF Worker
    <3>4. CASE q = s /\ v = w
      BY <1>2, <1>5, <1>7, <3>3, <3>4
    <3>5. CASE q = s /\ v # w
      <4>1. Handle(q, v)' = Handle(q, v) /\ stores'[q].handle = 0 /\ stores[q].handle # v
        BY <1>5, <1>7, <3>5
      <4>2. QED
        BY <3>1, <3>2, <3>3, <4>1
    <3>6. CASE q # s
      <4>1. Handle(q, v)' = Handle(q, v) /\ stores'[q].handle = stores[q].handle
        BY <1>5, <1>7, <3>6
      <4>2. QED
        BY <3>1, <3>2, <4>1
    <3>7. QED
      BY <3>4, <3>5, <3>6
  <2>3. QED
    BY <2>1, <2>2
<1>15. \A v \in Worker : v # w => Behind(v)' = Behind(v) /\ \A i : Line(v, i)' = Line(v, i)
  BY <1>2, LineStays
<1>16. /\ Behind(w)' = IF posted THEN Behind(w) + 1 ELSE Behind(w)
       /\ \A i \in 1..Behind(w) : Line(w, i)' = Line(w, i)
       /\ posted => \A i : i = Behind(w) + 1 => Line(w, i)' = <<"close", s>>
  <2>1. CASE posted
    <3>1. workers'[w].inbox = Append(workers[w].inbox, <<"close", s>>)
      BY <1>2, <2>1
    <3> HIDE DEF posted
    <3>2. QED
      BY <1>2, <1>9, <2>1, <3>1, LinePosted DEF DatabaseInv
  <2>2. CASE ~posted
    <3>1. workers'[w].inbox = workers[w].inbox
      BY <1>2, <2>2
    <3> HIDE DEF posted
    <3>2. QED
      BY <1>2, <2>2, <3>1, LineStays
  <2>3. QED
    BY <2>1, <2>2
<1>17. LastOk'
  <2> SUFFICES ASSUME NEW q \in Store, NEW v \in Worker, Handle(q, v)'.last
               PROVE  /\ workers'[v].owners = NoOwners /\ client' # v
                      /\ Handle(q, v)'.at = "closing" /\ ~workers'[v].failed =>
                           /\ Behind(v)' > 0
                           /\ \A i : i = Behind(v)' => Line(v, i)' = <<"close", q>>
    BY DEF LastOk, NoOwners
  <2>1. CASE q = s /\ v = w
    <3>1. last
      BY <1>5, <2>1
    <3>2. QED
      BY <1>1, <1>3, <1>4, <1>5, <1>16, <2>1, <3>1
  <2>2. CASE ~(q = s /\ v = w)
    <3>1. Handle(q, v)' = Handle(q, v) /\ v # w /\ v # 0
      BY <1>5, <1>6, <2>2 DEF Worker
    <3>2. QED
      BY <1>2, <1>3, <1>15, <3>1 DEF DatabaseInv, LastOk
  <2>3. QED
    BY <2>1, <2>2
<1>18. \A i \in 1..Behind(w) : Line(w, i) # <<"close", s>>
  BY <1>6 DEF DatabaseInv, LineOk
<1>19. RequestsOk'
  <2> SUFFICES ASSUME NEW q \in Request
               PROVE  /\ requests'[q].told \notin {"no", "refused"} =>
                           requests'[q].store \in Store /\ requests'[q].worker \in Worker
                      /\ requests'[q].told \in {"unavailable", "notSent"} => workers'[requests'[q].worker].failed
                      /\ requests'[q].told = "posted" =>
                           /\ ~workers'[requests'[q].worker].failed
                           /\ \E i \in 1..Behind(requests[q].worker)' : Line(requests[q].worker, i)' = <<"ask", q>>
    BY <1>8 DEF RequestsOk
  <2>1. /\ requests[q].told \notin {"no", "refused"} =>
             requests[q].store \in Store /\ requests[q].worker \in Worker
        /\ requests[q].told \in {"unavailable", "notSent"} => workers[requests[q].worker].failed
        /\ requests[q].told = "posted" =>
             /\ ~workers[requests[q].worker].failed
             /\ \E i \in 1..Behind(requests[q].worker) : Line(requests[q].worker, i) = <<"ask", q>>
    BY DEF DatabaseInv, RequestsOk
  <2>2. \A v \in Worker : workers'[v].failed = workers[v].failed
    BY <1>2
  <2>3. \A v \in Worker : \A i \in 1..Behind(v) : i \in 1..Behind(v)' /\ Line(v, i)' = Line(v, i)
    BY <1>1, <1>15, <1>16
  <2>4. QED
    BY <1>8, <2>1, <2>2, <2>3
<1>20. LineOk'
  <2> SUFFICES ASSUME NEW v \in Worker
               PROVE  /\ \A i, j \in 1..Behind(v)' : Line(v, i)' = Line(v, j)' => i = j
                      /\ \A i \in 1..Behind(v)', q \in Request : Line(v, i)' = <<"ask", q>> =>
                           requests'[q].worker = v /\ requests'[q].told \in {"posted", "unavailable"}
                      /\ \A i \in 1..Behind(v)', q \in Store : Line(v, i)' = <<"close", q>> =>
                           Handle(q, v)'.at \in {"closing", "ending", "closed"}
    BY DEF LineOk
  <2>1. /\ \A i, j \in 1..Behind(v) : Line(v, i) = Line(v, j) => i = j
        /\ \A i \in 1..Behind(v), q \in Request : Line(v, i) = <<"ask", q>> =>
             requests[q].worker = v /\ requests[q].told \in {"posted", "unavailable"}
        /\ \A i \in 1..Behind(v), q \in Store : Line(v, i) = <<"close", q>> =>
             Handle(q, v).at \in {"closing", "ending", "closed"}
        /\ Behind(v) \in Nat
    BY WorkerFacts DEF DatabaseInv, LineOk
  <2> HIDE DEF posted
  <2>2. \A i \in 1..Behind(v)' : \/ i \in 1..Behind(v) /\ Line(v, i)' = Line(v, i)
                                \/ /\ v = w /\ posted /\ i = Behind(v) + 1
                                   /\ Line(v, i)' = <<"close", s>>
    BY <1>15, <1>16, <2>1
  <2>3. \A i, j \in 1..Behind(v)' : Line(v, i)' = Line(v, j)' => i = j
    BY <1>18, <2>1, <2>2
  <2>4. \A i \in 1..Behind(v)', q \in Request : Line(v, i)' = <<"ask", q>> =>
          requests'[q].worker = v /\ requests'[q].told \in {"posted", "unavailable"}
    BY <1>8, <2>1, <2>2
  <2>5. ASSUME NEW i \in 1..Behind(v)', NEW q \in Store, Line(v, i)' = <<"close", q>>
        PROVE  Handle(q, v)'.at \in {"closing", "ending", "closed"}
    <3>1. CASE q = s /\ v = w
      BY <1>5, <3>1
    <3>2. CASE ~(q = s /\ v = w)
      <4>1. Handle(q, v).at \in {"closing", "ending", "closed"}
        BY <2>1, <2>2, <2>5, <3>2
      <4>2. QED
        BY <1>5, <3>2, <4>1
    <3>3. QED
      BY <3>1, <3>2
  <2>6. QED
    BY <2>3, <2>4, <2>5
<1>21. ExecutedOk'
  <2>1. ToldTheTruth'
    BY <1>8 DEF DatabaseInv, ExecutedOk, ToldTheTruth
  <2>2. ASSUME NEW v \in Worker, NEW i \in DOMAIN workers'[v].inbox, NEW q \in Request,
               workers'[v].inbox[i] = <<"ask", q>>
        PROVE  executed'[q] = 0
    <3>1. i \in DOMAIN workers[v].inbox /\ workers[v].inbox[i] = <<"ask", q>>
      <4>1. CASE v = w /\ posted
        <5>1. workers'[w].inbox = Append(workers[w].inbox, <<"close", s>>)
          BY <1>2, <4>1
        <5>2. \/ i \in DOMAIN workers[w].inbox /\ workers'[w].inbox[i] = workers[w].inbox[i]
              \/ workers'[w].inbox[i] = <<"close", s>>
          BY <1>1, <1>9, <2>2, <4>1, <5>1, AppendProperties, LenProperties
        <5>3. QED
          BY <2>2, <4>1, <5>2
      <4>2. CASE ~(v = w /\ posted)
        <5>1. workers'[v].inbox = workers[v].inbox
          BY <1>2, <4>2
        <5>2. QED
          BY <2>2, <5>1
      <4>3. QED
        BY <4>1, <4>2
    <3>2. QED
      BY <1>8, <3>1 DEF DatabaseInv, ExecutedOk
  <2>3. \A v \in Worker : workers'[v].replies = workers[v].replies
    BY <1>2
  <2>4. QED
    BY <1>8, <2>1, <2>2, <2>3 DEF DatabaseInv, ExecutedOk
<1>22. EndsEmpty'
  <2>1. OnlyFailuresLose'
    BY <1>8 DEF DatabaseInv, EndsEmpty, OnlyFailuresLose
  <2>2. ASSUME failures' = 0, NEW v \in Worker, workers'[v].ending
        PROVE  /\ workers'[v].owners = NoOwners
               /\ \A q \in Request : requests'[q].told = "posted" => requests'[q].worker # v
    <3>1. v # w
      BY <1>1, <1>2, <1>8, <2>2
    <3>2. QED
      BY <1>2, <1>8, <2>2, <3>1 DEF DatabaseInv, EndsEmpty
  <2>3. QED
    BY <2>1, <2>2 DEF EndsEmpty, NoOwners
<1>23. StaysForSomeone'
  <2> SUFFICES ASSUME NEW v \in Worker, workers'[v].thread = "up", ~workers'[v].ending
               PROVE  \/ workers'[v].owners # NoOwners
                      \/ \E q \in Store : Handle(q, v)'.at = "closing" /\ Handle(q, v)'.last
    BY DEF StaysForSomeone, NoOwners
  <2>1. CASE v = w
    BY <1>1, <1>2, <1>4, <1>5, <2>1
  <2>2. CASE v # w
    BY <1>2, <1>5, <2>2 DEF DatabaseInv, StaysForSomeone
  <2>3. QED
    BY <2>1, <2>2
<1>24. QED
  BY <1>11, <1>12, <1>13, <1>14, <1>17, <1>19, <1>20, <1>21, <1>22, <1>23 DEF DatabaseInv

\* A step beside the workers: stores that have no handle close, and errors
\* are caught.
Aside ==
  /\ stores' \in [Store -> [dir : Dir, handle : Worker \cup {0}, closed : BOOLEAN]]
  /\ \A q \in Store : stores'[q].dir = stores[q].dir
  /\ \A q \in Store : stores'[q].handle = stores[q].handle
  /\ \A q \in Store : stores[q].closed => stores'[q].closed
  /\ \A q \in Store : stores'[q].closed => stores[q].handle = 0
  /\ requests' \in [Request -> [told : Told, store : Store \cup {0}, worker : Worker \cup {0}, caught : BOOLEAN]]
  /\ \A r \in Request : /\ requests'[r].told = requests[r].told
                        /\ requests'[r].store = requests[r].store
                        /\ requests'[r].worker = requests[r].worker
  /\ UNCHANGED <<client, workers, handles, executed, failures>>

LEMMA AsideStep ==
  ASSUME DatabaseInv, Aside
  PROVE  DatabaseInv'
<1>1. /\ stores' \in [Store -> [dir : Dir, handle : Worker \cup {0}, closed : BOOLEAN]]
      /\ \A q \in Store : stores'[q].dir = stores[q].dir
      /\ \A q \in Store : stores'[q].handle = stores[q].handle
      /\ \A q \in Store : stores[q].closed => stores'[q].closed
      /\ \A q \in Store : stores'[q].closed => stores[q].handle = 0
      /\ requests' \in [Request -> [told : Told, store : Store \cup {0}, worker : Worker \cup {0}, caught : BOOLEAN]]
      /\ \A r \in Request : requests'[r].told = requests[r].told
      /\ \A r \in Request : requests'[r].store = requests[r].store
      /\ \A r \in Request : requests'[r].worker = requests[r].worker
      /\ client' = client /\ workers' = workers /\ handles' = handles
      /\ executed' = executed /\ failures' = failures
  BY DEF Aside
<1>2. \A w \in Worker : Behind(w)' = Behind(w) /\ \A i : Line(w, i)' = Line(w, i)
  BY <1>1, LineStays
<1>3. DatabaseTypeOK'
  BY <1>1 DEF DatabaseInv, DatabaseTypeOK, Worker, Request, Thread, Message
<1>4. \A q \in Store, w \in Worker : Handle(q, w)' = Handle(q, w)
  BY <1>1 DEF Handle
<1>5. WorkersOk'
  BY <1>1, <1>4 DEF DatabaseInv, WorkersOk, Pristine, NoOwners
<1>6. OwnersOk'
  <2>1. \A w \in Worker, d \in Dir : Holders(w, d)' = Holders(w, d)
    BY <1>1 DEF Holders, DirOf
  <2>2. QED
    BY <1>1, <2>1 DEF DatabaseInv, OwnersOk
<1>7. HandlesOk'
  BY <1>1, <1>4 DEF DatabaseInv, HandlesOk
<1>8. LastOk'
  <2> SUFFICES ASSUME NEW q \in Store, NEW v \in Worker, Handle(q, v)'.last
               PROVE  /\ workers'[v].owners = NoOwners /\ client' # v
                      /\ Handle(q, v)'.at = "closing" /\ ~workers'[v].failed =>
                           /\ Behind(v)' > 0
                           /\ \A i : i = Behind(v)' => Line(v, i)' = <<"close", q>>
    BY DEF LastOk, NoOwners
  <2>1. QED
    BY <1>1, <1>2, <1>4 DEF DatabaseInv, LastOk
<1>9. RequestsOk'
  <2> SUFFICES ASSUME NEW q \in Request
               PROVE  /\ requests'[q].told \notin {"no", "refused"} =>
                           requests'[q].store \in Store /\ requests'[q].worker \in Worker
                      /\ requests'[q].told \in {"unavailable", "notSent"} => workers'[requests'[q].worker].failed
                      /\ requests'[q].told = "posted" =>
                           /\ ~workers'[requests'[q].worker].failed
                           /\ \E i \in 1..Behind(requests[q].worker)' : Line(requests[q].worker, i)' = <<"ask", q>>
    BY <1>1 DEF RequestsOk
  <2>1. QED
    BY <1>1, <1>2 DEF DatabaseInv, RequestsOk
<1>10. LineOk'
  <2> SUFFICES ASSUME NEW v \in Worker
               PROVE  /\ \A i, j \in 1..Behind(v)' : Line(v, i)' = Line(v, j)' => i = j
                      /\ \A i \in 1..Behind(v)', q \in Request : Line(v, i)' = <<"ask", q>> =>
                           requests'[q].worker = v /\ requests'[q].told \in {"posted", "unavailable"}
                      /\ \A i \in 1..Behind(v)', q \in Store : Line(v, i)' = <<"close", q>> =>
                           Handle(q, v)'.at \in {"closing", "ending", "closed"}
    BY DEF LineOk
  <2>1. QED
    BY <1>1, <1>2, <1>4 DEF DatabaseInv, LineOk
<1>11. ExecutedOk'
  BY <1>1 DEF DatabaseInv, ExecutedOk, ToldTheTruth
<1>12. EndsEmpty'
  BY <1>1 DEF DatabaseInv, EndsEmpty, OnlyFailuresLose, NoOwners
<1>13. StaysForSomeone'
  BY <1>1, <1>4 DEF DatabaseInv, StaysForSomeone, NoOwners
<1>14. QED
  BY <1>3, <1>5, <1>6, <1>7, <1>8, <1>9, <1>10, <1>11, <1>12, <1>13 DEF DatabaseInv

LEMMA CloseStoreStep ==
  ASSUME DatabaseInv, NEW s \in Store, CloseStore(s)
  PROVE  DatabaseInv'
<1>1. /\ stores' = [stores EXCEPT ![s].handle = 0, ![s].closed = TRUE]
      /\ UNCHANGED <<requests, executed, failures>>
  BY DEF CloseStore
<1>2. /\ stores \in [Store -> [dir : Dir, handle : Worker \cup {0}, closed : BOOLEAN]]
      /\ requests \in [Request -> [told : Told, store : Store \cup {0}, worker : Worker \cup {0}, caught : BOOLEAN]]
  BY DEF DatabaseInv, DatabaseTypeOK
<1>3. /\ stores' \in [Store -> [dir : Dir, handle : Worker \cup {0}, closed : BOOLEAN]]
      /\ stores'[s].dir = stores[s].dir /\ stores'[s].handle = 0 /\ stores'[s].closed
      /\ \A q \in Store : q # s => stores'[q] = stores[q]
  BY <1>1, <1>2
<1>4. CASE stores[s].handle # 0
  <2>1. stores[s].handle \in Worker /\ ReleaseHandle(s, stores[s].handle)
    BY <1>2, <1>4 DEF CloseStore
  <2>2. LetsGo(s, stores[s].handle)
    BY <1>1, <1>2, <1>3 DEF LetsGo
  <2>3. QED
    BY <2>1, <2>2, Released
<1>5. CASE stores[s].handle = 0
  <2>1. UNCHANGED <<client, workers, handles>>
    BY <1>5 DEF CloseStore
  <2>2. \A q \in Store : stores[q].closed => stores[q].handle = 0
    BY DEF DatabaseInv, HandlesOk
  <2>3. Aside
    BY <1>1, <1>2, <1>3, <1>5, <2>1, <2>2 DEF Aside
  <2>4. QED
    BY <2>3, AsideStep
<1>6. QED
  BY <1>4, <1>5

LEMMA CatchStep ==
  ASSUME DatabaseInv, NEW r \in Request, Catch(r)
  PROVE  DatabaseInv'
<1> DEFINE s == requests[r].store
           w == requests[r].worker
<1>1. /\ requests[r].told \in {"unavailable", "notSent"}
      /\ requests' = [requests EXCEPT ![r].caught = TRUE]
      /\ IF stores[s].handle = w
         THEN stores' = [stores EXCEPT ![s].handle = 0] /\ ReleaseHandle(s, w)
         ELSE UNCHANGED <<client, workers, stores, handles>>
      /\ UNCHANGED <<executed, failures>>
  BY DEF Catch
<1>2. s \in Store /\ w \in Worker /\ workers[w].failed
  BY <1>1 DEF DatabaseInv, RequestsOk
<1>3. /\ stores \in [Store -> [dir : Dir, handle : Worker \cup {0}, closed : BOOLEAN]]
      /\ requests \in [Request -> [told : Told, store : Store \cup {0}, worker : Worker \cup {0}, caught : BOOLEAN]]
  BY DEF DatabaseInv, DatabaseTypeOK
<1>4. /\ requests' \in [Request -> [told : Told, store : Store \cup {0}, worker : Worker \cup {0}, caught : BOOLEAN]]
      /\ \A q \in Request : /\ requests'[q].told = requests[q].told
                            /\ requests'[q].store = requests[q].store
                            /\ requests'[q].worker = requests[q].worker
  BY <1>1, <1>3
<1> HIDE DEF s, w
<1>5. CASE stores[s].handle = w
  <2>1. stores' = [stores EXCEPT ![s].handle = 0] /\ ReleaseHandle(s, w)
    BY <1>1, <1>5
  <2>2. LetsGo(s, w)
    BY <1>1, <1>2, <1>3, <1>4, <2>1 DEF LetsGo
  <2>3. QED
    BY <1>2, <1>5, <2>1, <2>2, Released
<1>6. CASE stores[s].handle # w
  <2>1. UNCHANGED <<client, workers, stores, handles>>
    BY <1>1, <1>6
  <2>2. \A q \in Store : stores[q].closed => stores[q].handle = 0
    BY DEF DatabaseInv, HandlesOk
  <2>3. Aside
    BY <1>1, <1>3, <1>4, <2>1, <2>2 DEF Aside
  <2>4. QED
    BY <2>3, AsideStep
<1>7. QED
  BY <1>5, <1>6

LEMMA RunFacts ==
  ASSUME DatabaseTypeOK, NEW w \in Worker, NEW ok \in BOOLEAN, workers[w].inbox # <<>>,
         workers' = [workers EXCEPT ![w].inbox = Tail(@),
                                    ![w].replies = Append(@, <<Head(workers[w].inbox), ok>>)]
  PROVE  /\ workers' \in [Worker -> Thread]
         /\ \A v \in Worker : v # w => workers'[v] = workers[v]
         /\ workers'[w].thread = workers[w].thread /\ workers'[w].owners = workers[w].owners
         /\ workers'[w].failed = workers[w].failed /\ workers'[w].ending = workers[w].ending
         /\ workers'[w].inbox = Tail(workers[w].inbox)
         /\ workers'[w].replies = Append(workers[w].replies, <<Head(workers[w].inbox), ok>>)
         /\ Head(workers[w].inbox) \in Message
<1> DEFINE i == Tail(workers[w].inbox)
           a == Append(workers[w].replies, <<Head(workers[w].inbox), ok>>)
           worker == [workers[w] EXCEPT !.inbox = i, !.replies = a]
<1>1. workers \in [Worker -> Thread] /\ workers[w] \in Thread
  BY DEF DatabaseTypeOK
<1>2. i \in Seq(Message) /\ a \in Seq(Message \X BOOLEAN) /\ Head(workers[w].inbox) \in Message
  <2>1. workers[w].inbox \in Seq(Message) /\ workers[w].replies \in Seq(Message \X BOOLEAN)
    BY WorkerFacts
  <2>2. i \in Seq(Message) /\ Head(workers[w].inbox) \in Message
    BY <2>1, HeadTailProperties
  <2>3. <<Head(workers[w].inbox), ok>> \in Message \X BOOLEAN
    BY <2>2
  <2>4. QED
    BY <2>1, <2>2, <2>3, AppendProperties
<1>3. workers' = [workers EXCEPT ![w] = worker]
  BY <1>1 DEF Thread
<1> HIDE DEF i, a
<1>4. /\ worker \in Thread /\ worker.inbox = i /\ worker.replies = a
      /\ worker.thread = workers[w].thread /\ worker.owners = workers[w].owners
      /\ worker.failed = workers[w].failed /\ worker.ending = workers[w].ending
  BY <1>1, <1>2 DEF Thread
<1> HIDE DEF worker
<1>5. /\ workers' \in [Worker -> Thread] /\ workers'[w] = worker
      /\ \A v \in Worker : v # w => workers'[v] = workers[v]
  BY <1>1, <1>3, <1>4
<1>6. QED
  BY <1>2, <1>4, <1>5 DEF i, a

LEMMA RunStep ==
  ASSUME DatabaseInv, NEW w \in Worker, Run(w)
  PROVE  DatabaseInv'
<1> DEFINE m == Head(workers[w].inbox)
           n == Len(workers[w].replies)
<1>1. /\ workers[w].thread = "up" /\ workers[w].inbox # <<>>
      /\ client' = client /\ stores' = stores /\ handles' = handles
      /\ requests' = requests /\ failures' = failures
  BY DEF Run
<1>2. PICK ok \in BOOLEAN :
        /\ workers' = [workers EXCEPT ![w].inbox = Tail(@), ![w].replies = Append(@, <<Head(workers[w].inbox), ok>>)]
        /\ executed' = IF ok /\ m[1] = "ask" THEN [executed EXCEPT ![m[2]] = @ + 1] ELSE executed
  BY DEF Run
<1>3. /\ workers' \in [Worker -> Thread]
      /\ \A v \in Worker : v # w => workers'[v] = workers[v]
      /\ workers'[w].thread = workers[w].thread /\ workers'[w].owners = workers[w].owners
      /\ workers'[w].failed = workers[w].failed /\ workers'[w].ending = workers[w].ending
      /\ workers'[w].inbox = Tail(workers[w].inbox)
      /\ workers'[w].replies = Append(workers[w].replies, <<m, ok>>)
      /\ m \in Message
  BY <1>1, <1>2, RunFacts DEF DatabaseInv
<1>4. \A v \in Worker : /\ workers'[v].thread = workers[v].thread /\ workers'[v].owners = workers[v].owners
                        /\ workers'[v].failed = workers[v].failed /\ workers'[v].ending = workers[v].ending
  BY <1>3
<1>5. \A v \in Worker : v # w => Behind(v)' = Behind(v) /\ \A i : Line(v, i)' = Line(v, i)
  BY <1>3, LineStays
<1>6. /\ Behind(w)' = Behind(w)
      /\ \A i \in 1..Behind(w) : Line(w, i)' = Line(w, i)
      /\ Line(w, n + 1) = m /\ n + 1 \in 1..Behind(w)
  BY <1>1, <1>3, LineRun DEF DatabaseInv
<1>7. \A v \in Worker : Behind(v)' = Behind(v)
  BY <1>5, <1>6
<1>8. \A v \in Worker : \A i \in 1..Behind(v) : Line(v, i)' = Line(v, i)
  BY <1>5, <1>6
<1>9. \A q \in Store, v \in Worker : Handle(q, v)' = Handle(q, v)
  BY <1>1 DEF Handle
<1>10. /\ workers[w].inbox \in Seq(Message) /\ n \in Nat /\ workers[w].replies \in Seq(Message \X BOOLEAN)
       /\ executed \in [Request -> Nat]
  BY WorkerFacts DEF DatabaseInv, DatabaseTypeOK
<1>11. /\ Len(workers[w].inbox) \in Nat \ {0} /\ m = workers[w].inbox[1]
       /\ Len(workers'[w].inbox) = Len(workers[w].inbox) - 1 /\ workers'[w].inbox \in Seq(Message)
       /\ \A i \in 1..Len(workers'[w].inbox) : workers'[w].inbox[i] = workers[w].inbox[i + 1]
  <2>1. Len(workers[w].inbox) \in Nat \ {0}
    BY <1>1, <1>10, EmptySeq
  <2>2. QED
    BY <1>1, <1>3, <1>10, <2>1, HeadTailProperties
<1>12. \A q \in Request : m = <<"ask", q>> =>
         /\ requests[q].worker = w /\ requests[q].told \in {"posted", "unavailable"}
         /\ executed[q] = 0
         /\ executed' = IF ok THEN [executed EXCEPT ![q] = 1] ELSE executed
  <2> SUFFICES ASSUME NEW q \in Request, m = <<"ask", q>>
               PROVE  /\ requests[q].worker = w /\ requests[q].told \in {"posted", "unavailable"}
                      /\ executed[q] = 0
                      /\ executed' = IF ok THEN [executed EXCEPT ![q] = 1] ELSE executed
    OBVIOUS
  <2> HIDE DEF m, n
  <2>1. requests[q].worker = w /\ requests[q].told \in {"posted", "unavailable"}
    <3>1. PICK i \in 1..Behind(w) : Line(w, i) = <<"ask", q>>
      BY <1>6
    <3>2. QED
      BY <3>1 DEF DatabaseInv, LineOk
  <2>2. executed[q] = 0
    <3>1. 1 \in DOMAIN workers[w].inbox
      BY <1>10, <1>11
    <3>2. QED
      BY <1>11, <3>1 DEF DatabaseInv, ExecutedOk
  <2>3. m[1] = "ask" /\ m[2] = q
    OBVIOUS
  <2>4. executed' = IF ok THEN [executed EXCEPT ![q] = 1] ELSE executed
    <3>1. executed' = IF ok THEN [executed EXCEPT ![q] = @ + 1] ELSE executed
      BY <1>2, <2>3
    <3>2. executed[q] + 1 = 1
      BY <2>2
    <3>3. QED
      BY <1>10, <3>1, <3>2
  <2>5. QED
    BY <2>1, <2>2, <2>4
<1>13. (\A q \in Request : m # <<"ask", q>>) => executed' = executed
  <2>1. m \in {"ask"} \X Request \/ m \in {"close"} \X Store
    BY <1>3 DEF Message
  <2>2. m \in {"ask"} \X Request => \E q \in Request : m = <<"ask", q>>
    OBVIOUS
  <2>3. m \in {"close"} \X Store => m[1] # "ask"
    OBVIOUS
  <2>4. QED
    BY <1>2, <2>1, <2>2, <2>3
<1>14. executed' \in [Request -> Nat] /\ \A q \in Request : m # <<"ask", q>> => executed'[q] = executed[q]
  <2>1. CASE \A q \in Request : m # <<"ask", q>>
    BY <1>10, <1>13, <2>1
  <2>2. ASSUME NEW p \in Request, m = <<"ask", p>>
        PROVE  executed' \in [Request -> Nat] /\ \A q \in Request : m # <<"ask", q>> => executed'[q] = executed[q]
    BY <1>10, <1>12, <2>2
  <2>3. QED
    BY <2>1, <2>2
<1>15. \A q \in Request : m = <<"ask", q>> => executed'[q] = IF ok THEN 1 ELSE 0
  BY <1>10, <1>12
<1> HIDE DEF m, n
<1>16. DatabaseTypeOK'
  BY <1>1, <1>3, <1>14 DEF DatabaseInv, DatabaseTypeOK
<1>17. WorkersOk'
  <2>1. ASSUME NEW v \in Worker, workers'[v].thread = "none"
        PROVE  Pristine(v)'
    <3>1. v # w /\ workers'[v] = workers[v]
      BY <1>1, <1>3, <2>1
    <3>2. Pristine(v)
      BY <2>1, <3>1 DEF DatabaseInv, WorkersOk
    <3>3. QED
      BY <1>1, <1>9, <3>1, <3>2 DEF Pristine
  <2>2. client # 0 => client \in Worker
    BY DEF DatabaseInv, DatabaseTypeOK
  <2>3. QED
    BY <1>1, <1>4, <2>1, <2>2 DEF DatabaseInv, WorkersOk
<1>18. OwnersOk'
  <2>1. \A v \in Worker, d \in Dir : Holders(v, d)' = Holders(v, d)
    BY <1>1 DEF Holders, DirOf
  <2>2. QED
    BY <1>4, <2>1 DEF DatabaseInv, OwnersOk
<1>19. HandlesOk'
  BY <1>1, <1>4, <1>9 DEF DatabaseInv, HandlesOk
<1>20. LastOk'
  <2> SUFFICES ASSUME NEW q \in Store, NEW v \in Worker, Handle(q, v)'.last
               PROVE  /\ workers'[v].owners = NoOwners /\ client' # v
                      /\ Handle(q, v)'.at = "closing" /\ ~workers'[v].failed =>
                           /\ Behind(v)' > 0
                           /\ \A i : i = Behind(v)' => Line(v, i)' = <<"close", q>>
    BY DEF LastOk, NoOwners
  <2>1. Behind(v) \in Nat /\ (Behind(v) > 0 => Behind(v) \in 1..Behind(v))
    BY WorkerFacts DEF DatabaseInv
  <2>2. /\ workers[v].owners = NoOwners /\ client # v
        /\ Handle(q, v).at = "closing" /\ ~workers[v].failed =>
             Behind(v) > 0 /\ Line(v, Behind(v)) = <<"close", q>>
    BY <1>9 DEF DatabaseInv, LastOk
  <2>3. QED
    BY <1>1, <1>4, <1>7, <1>8, <1>9, <2>1, <2>2
<1>21. RequestsOk'
  <2> SUFFICES ASSUME NEW q \in Request
               PROVE  /\ requests'[q].told \notin {"no", "refused"} =>
                           requests'[q].store \in Store /\ requests'[q].worker \in Worker
                      /\ requests'[q].told \in {"unavailable", "notSent"} => workers'[requests'[q].worker].failed
                      /\ requests'[q].told = "posted" =>
                           /\ ~workers'[requests'[q].worker].failed
                           /\ \E i \in 1..Behind(requests[q].worker)' : Line(requests[q].worker, i)' = <<"ask", q>>
    BY <1>1 DEF RequestsOk
  <2>1. /\ requests[q].told \notin {"no", "refused"} =>
             requests[q].store \in Store /\ requests[q].worker \in Worker
        /\ requests[q].told \in {"unavailable", "notSent"} => workers[requests[q].worker].failed
        /\ requests[q].told = "posted" =>
             /\ ~workers[requests[q].worker].failed
             /\ \E i \in 1..Behind(requests[q].worker) : Line(requests[q].worker, i) = <<"ask", q>>
    BY DEF DatabaseInv, RequestsOk
  <2>2. QED
    BY <1>1, <1>4, <1>7, <1>8, <2>1
<1>22. LineOk'
  <2> SUFFICES ASSUME NEW v \in Worker
               PROVE  /\ \A i, j \in 1..Behind(v)' : Line(v, i)' = Line(v, j)' => i = j
                      /\ \A i \in 1..Behind(v)', q \in Request : Line(v, i)' = <<"ask", q>> =>
                           requests'[q].worker = v /\ requests'[q].told \in {"posted", "unavailable"}
                      /\ \A i \in 1..Behind(v)', q \in Store : Line(v, i)' = <<"close", q>> =>
                           Handle(q, v)'.at \in {"closing", "ending", "closed"}
    BY DEF LineOk
  <2>1. QED
    BY <1>1, <1>7, <1>8, <1>9 DEF DatabaseInv, LineOk
<1>23. ToldTheTruth'
  <2> SUFFICES ASSUME NEW q \in Request
               PROVE  /\ executed'[q] <= 1
                      /\ requests'[q].told = "done" => executed'[q] = 1
                      /\ requests'[q].told \in {"no", "failed", "refused", "notSent"} => executed'[q] = 0
    BY DEF ToldTheTruth
  <2>1. CASE m = <<"ask", q>>
    BY <1>1, <1>12, <1>15, <2>1
  <2>2. CASE m # <<"ask", q>>
    BY <1>1, <1>14, <2>2 DEF DatabaseInv, ExecutedOk, ToldTheTruth
  <2>3. QED
    BY <2>1, <2>2
<1>24. ASSUME NEW v \in Worker, NEW i \in DOMAIN workers'[v].inbox, NEW q \in Request,
              workers'[v].inbox[i] = <<"ask", q>>
       PROVE  executed'[q] = 0
  <2>1. CASE v # w
    <3>1. i \in DOMAIN workers[v].inbox /\ workers[v].inbox[i] = <<"ask", q>> /\ workers[v].inbox \in Seq(Message)
      BY <1>3, <1>24, <2>1, WorkerFacts DEF DatabaseInv
    <3>2. executed[q] = 0
      BY <3>1 DEF DatabaseInv, ExecutedOk
    <3>3. requests[q].worker = v
      <4> DEFINE j == Len(workers[v].replies) + i
                 a == Len(workers[v].replies)
                 b == Len(workers[v].inbox)
      <4>1. i \in 1..b /\ a \in Nat /\ b \in Nat /\ Behind(v) = a + b
        BY <3>1, WorkerFacts DEF DatabaseInv, Behind
      <4>2. Line(v, j) = IF j <= a THEN workers[v].replies[j][1] ELSE workers[v].inbox[j - a]
        BY DEF Line
      <4> HIDE DEF a, b
      <4>3. j = a + i
        BY DEF a
      <4> HIDE DEF j
      <4>4. j \in 1..Behind(v) /\ ~(j <= a) /\ j - a = i
        BY <4>1, <4>3
      <4>5. Line(v, j) = <<"ask", q>>
        BY <3>1, <4>2, <4>4
      <4>6. QED
        BY <4>4, <4>5 DEF DatabaseInv, LineOk
    <3>4. m # <<"ask", q>>
      BY <1>12, <2>1, <3>3
    <3>5. QED
      BY <1>14, <3>2, <3>4
  <2>2. CASE v = w
    <3>1. /\ i \in 1..Len(workers'[w].inbox) /\ i + 1 \in DOMAIN workers[w].inbox
          /\ workers[w].inbox[i + 1] = <<"ask", q>>
      <4> DEFINE a == Len(workers[w].inbox)
                 b == Len(workers'[w].inbox)
      <4>1. DOMAIN workers[w].inbox = 1..a /\ DOMAIN workers'[w].inbox = 1..b /\ a \in Nat /\ b = a - 1
        BY <1>10, <1>11, LenProperties
      <4>2. workers'[w].inbox[i] = <<"ask", q>> /\ i \in DOMAIN workers'[w].inbox
        BY <1>24, <2>2
      <4>3. \A j \in 1..b : workers'[w].inbox[j] = workers[w].inbox[j + 1]
        BY <1>11
      <4>4. i \in 1..b
        BY <4>1, <4>2
      <4> HIDE DEF a, b
      <4>5. i + 1 \in 1..a
        BY <4>1, <4>4
      <4>6. i + 1 \in DOMAIN workers[w].inbox
        BY <4>1, <4>5
      <4>7. QED
        BY <4>2, <4>3, <4>4, <4>6 DEF b
    <3>2. executed[q] = 0
      BY <3>1 DEF DatabaseInv, ExecutedOk
    <3>3. m # <<"ask", q>>
      <4> DEFINE b == Len(workers[w].inbox)
                 j == n + 1 + i
      <4>1. i + 1 \in 1..b /\ b \in Nat /\ n \in Nat /\ Behind(w) = n + b /\ i \in Nat \ {0}
        BY <1>10, <1>11, <3>1 DEF Behind, n
      <4>2. Line(w, j) = IF j <= n THEN workers[w].replies[j][1] ELSE workers[w].inbox[j - n]
        BY DEF Line, n
      <4> HIDE DEF b
      <4>3. j \in 1..Behind(w) /\ ~(j <= n) /\ j - n = i + 1 /\ j # n + 1
        BY <4>1
      <4> HIDE DEF j
      <4>4. Line(w, j) = <<"ask", q>>
        BY <3>1, <4>2, <4>3
      <4>5. QED
        BY <1>6, <4>3, <4>4 DEF DatabaseInv, LineOk
    <3>4. QED
      BY <1>14, <3>2, <3>3
  <2>3. QED
    BY <2>1, <2>2
<1>25. ASSUME NEW v \in Worker, NEW i \in DOMAIN workers'[v].replies, NEW q \in Request,
              workers'[v].replies[i][1] = <<"ask", q>>
       PROVE  executed'[q] = IF workers'[v].replies[i][2] THEN 1 ELSE 0
  <2>1. CASE v = w /\ i = n + 1
    <3>1. workers'[w].replies[i] = <<m, ok>>
      BY <1>3, <1>10, <2>1, AppendProperties DEF n
    <3>2. QED
      BY <1>15, <1>25, <2>1, <3>1
  <2>2. CASE ~(v = w /\ i = n + 1)
    <3>1. /\ i \in DOMAIN workers[v].replies /\ workers'[v].replies[i] = workers[v].replies[i]
          /\ workers[v].replies \in Seq(Message \X BOOLEAN)
      <4>1. CASE v = w
        <5>1. <<m, ok>> \in Message \X BOOLEAN
          BY <1>3
        <5>2. /\ DOMAIN workers[w].replies = 1..n /\ DOMAIN workers'[w].replies = 1..(n + 1)
              /\ \A j \in 1..n : workers'[w].replies[j] = workers[w].replies[j]
          BY <1>3, <1>10, <5>1, AppendProperties, LenProperties DEF n
        <5>3. i \in 1..n
          BY <1>10, <1>25, <2>2, <4>1, <5>2
        <5>4. QED
          BY <1>10, <4>1, <5>2, <5>3
      <4>2. CASE v # w
        BY <1>3, <4>2, WorkerFacts DEF DatabaseInv
      <4>3. QED
        BY <4>1, <4>2
    <3>2. executed[q] = IF workers[v].replies[i][2] THEN 1 ELSE 0
      BY <1>25, <3>1 DEF DatabaseInv, ExecutedOk
    <3>3. Line(v, i) = <<"ask", q>> /\ i \in 1..Behind(v) /\ i <= Len(workers[v].replies)
      <4>1. /\ i \in 1..Len(workers[v].replies) /\ Len(workers[v].replies) \in Nat
            /\ Len(workers[v].inbox) \in Nat
        BY <3>1, WorkerFacts DEF DatabaseInv
      <4> DEFINE a == Len(workers[v].replies)
                 b == Len(workers[v].inbox)
      <4>4. i \in 1..a /\ a \in Nat /\ b \in Nat /\ Behind(v) = a + b
        BY <4>1 DEF Behind
      <4> HIDE DEF a, b
      <4>5. i \in 1..Behind(v) /\ i <= a
        BY <4>4
      <4>2. i \in 1..Behind(v) /\ i <= Len(workers[v].replies)
        BY <4>5 DEF a
      <4>3. QED
        BY <1>25, <3>1, <4>2 DEF Line
    <3>4. m # <<"ask", q>>
      <4>1. CASE v # w
        BY <1>12, <3>3, <4>1 DEF DatabaseInv, LineOk
      <4>2. CASE v = w
        <5>1. i # n + 1
          BY <2>2, <4>2
        <5>2. QED
          BY <1>6, <3>3, <4>2, <5>1 DEF DatabaseInv, LineOk
      <4>3. QED
        BY <4>1, <4>2
    <3>5. QED
      BY <1>14, <3>1, <3>2, <3>4
  <2>3. QED
    BY <2>1, <2>2
<1>26. ExecutedOk'
  BY <1>23, <1>24, <1>25 DEF ExecutedOk
<1>27. EndsEmpty'
  BY <1>1, <1>4 DEF DatabaseInv, EndsEmpty, OnlyFailuresLose, NoOwners
<1>28. StaysForSomeone'
  BY <1>4, <1>9 DEF DatabaseInv, StaysForSomeone, NoOwners
<1>29. QED
  BY <1>16, <1>17, <1>18, <1>19, <1>20, <1>21, <1>22, <1>26, <1>27, <1>28 DEF DatabaseInv

LEMMA ReadFacts ==
  ASSUME DatabaseTypeOK, NEW w \in Worker, NEW ends \in BOOLEAN, workers[w].replies # <<>>,
         workers' = [workers EXCEPT ![w].replies = Tail(@), ![w].ending = @ \/ ends]
  PROVE  /\ workers' \in [Worker -> Thread]
         /\ \A v \in Worker : v # w => workers'[v] = workers[v]
         /\ workers'[w].thread = workers[w].thread /\ workers'[w].owners = workers[w].owners
         /\ workers'[w].failed = workers[w].failed
         /\ workers'[w].ending = (workers[w].ending \/ ends)
         /\ workers'[w].inbox = workers[w].inbox
         /\ workers'[w].replies = Tail(workers[w].replies)
<1> DEFINE a == Tail(workers[w].replies)
           e == workers[w].ending \/ ends
           worker == [workers[w] EXCEPT !.replies = a, !.ending = e]
<1>1. workers \in [Worker -> Thread] /\ workers[w] \in Thread
  BY DEF DatabaseTypeOK
<1>2. a \in Seq(Message \X BOOLEAN) /\ e \in BOOLEAN
  BY WorkerFacts, HeadTailProperties
<1>3. workers' = [workers EXCEPT ![w] = worker]
  BY <1>1 DEF Thread
<1> HIDE DEF a, e
<1>4. /\ worker \in Thread /\ worker.replies = a /\ worker.ending = e
      /\ worker.thread = workers[w].thread /\ worker.owners = workers[w].owners
      /\ worker.failed = workers[w].failed /\ worker.inbox = workers[w].inbox
  BY <1>1, <1>2 DEF Thread
<1> HIDE DEF worker
<1>5. /\ workers' \in [Worker -> Thread] /\ workers'[w] = worker
      /\ \A v \in Worker : v # w => workers'[v] = workers[v]
  BY <1>1, <1>3, <1>4
<1>6. QED
  BY <1>4, <1>5 DEF a, e

\* What reading a reply does to the worker and its line; m is the message
\* that was answered.
ReadOne(w, m, ends) ==
  /\ workers' \in [Worker -> Thread]
  /\ \A v \in Worker : v # w => workers'[v] = workers[v]
  /\ workers[w].thread # "none" /\ ~workers[w].failed
  /\ workers'[w].thread = workers[w].thread /\ workers'[w].owners = workers[w].owners
  /\ workers'[w].failed = workers[w].failed
  /\ workers'[w].ending = (workers[w].ending \/ ends)
  /\ workers'[w].inbox = workers[w].inbox
  /\ \A i \in DOMAIN workers'[w].replies :
       i + 1 \in DOMAIN workers[w].replies /\ workers'[w].replies[i] = workers[w].replies[i + 1]
  /\ \A v \in Worker : v # w => Behind(v)' = Behind(v) /\ \A i : Line(v, i)' = Line(v, i)
  /\ Behind(w) \in Nat \ {0} /\ Behind(w)' = Behind(w) - 1
  /\ \A i \in 1..(Behind(w) - 1) : Line(w, i)' = Line(w, i + 1)
  /\ Line(w, 1) = m /\ 1 \in DOMAIN workers[w].replies /\ workers[w].replies[1][1] = m
  /\ UNCHANGED <<client, stores, executed, failures>>

LEMMA ReadStep ==
  ASSUME DatabaseInv, NEW w \in Worker, NEW ends \in BOOLEAN, NEW m,
         workers[w].replies # <<>>, ~workers[w].failed, m = Head(workers[w].replies)[1],
         workers' = [workers EXCEPT ![w].replies = Tail(@), ![w].ending = @ \/ ends],
         UNCHANGED <<client, stores, executed, failures>>
  PROVE  ReadOne(w, m, ends)
<1>1. /\ workers' \in [Worker -> Thread]
      /\ \A v \in Worker : v # w => workers'[v] = workers[v]
      /\ workers'[w].thread = workers[w].thread /\ workers'[w].owners = workers[w].owners
      /\ workers'[w].failed = workers[w].failed
      /\ workers'[w].ending = (workers[w].ending \/ ends)
      /\ workers'[w].inbox = workers[w].inbox
      /\ workers'[w].replies = Tail(workers[w].replies)
  BY ReadFacts DEF DatabaseInv
<1>2. workers[w].thread # "none"
  BY DEF DatabaseInv, WorkersOk, Pristine
<1>3. \A v \in Worker : v # w => Behind(v)' = Behind(v) /\ \A i : Line(v, i)' = Line(v, i)
  BY <1>1, LineStays
<1>4. /\ Behind(w) > 0 /\ Behind(w)' = Behind(w) - 1
      /\ \A i \in 1..(Behind(w) - 1) : Line(w, i)' = Line(w, i + 1)
      /\ Line(w, 1) = m
  BY <1>1, LineRead DEF DatabaseInv
<1>5. Behind(w) \in Nat /\ workers[w].replies \in Seq(Message \X BOOLEAN)
  BY WorkerFacts DEF DatabaseInv
<1> DEFINE replies == workers[w].replies
           rest == workers'[w].replies
           a == Len(replies)
           b == Len(rest)
<1>6. /\ a \in Nat \ {0} /\ b = a - 1 /\ DOMAIN replies = 1..a /\ DOMAIN rest = 1..b
      /\ \A i \in 1..b : rest[i] = replies[i + 1]
      /\ Head(replies) = replies[1]
  <2>1. a \in Nat \ {0}
    BY <1>5, EmptySeq
  <2>2. /\ b = a - 1 /\ rest \in Seq(Message \X BOOLEAN)
        /\ \A i \in 1..b : rest[i] = replies[i + 1]
    BY <1>1, <1>5, HeadTailProperties
  <2>3. Head(replies) = replies[1]
    BY <1>5, <2>1
  <2>4. DOMAIN replies = 1..a /\ DOMAIN rest = 1..b
    BY <1>5, <2>2, LenProperties
  <2> HIDE DEF replies, rest, a, b
  <2>5. QED
    BY <2>1, <2>2, <2>3, <2>4
<1> HIDE DEF replies, rest, a, b
<1>7. \A i \in DOMAIN rest : i + 1 \in DOMAIN replies /\ rest[i] = replies[i + 1]
  BY <1>6
<1>8. 1 \in DOMAIN replies /\ replies[1][1] = m
  BY <1>6 DEF replies
<1>9. QED
  BY <1>1, <1>2, <1>3, <1>4, <1>5, <1>7, <1>8 DEF ReadOne, replies, rest

\* Two messages of one line are the same only in the same place, and a
\* request stands in one line.
LEMMA Once ==
  ASSUME DatabaseInv, NEW w \in Worker, NEW i \in 1..Behind(w)
  PROVE  /\ \A j \in 1..Behind(w) : Line(w, i) = Line(w, j) => i = j
         /\ \A r \in Request : Line(w, i) = <<"ask", r>> =>
              requests[r].worker = w /\ requests[r].told \in {"posted", "unavailable"}
         /\ \A s \in Store : Line(w, i) = <<"close", s>> =>
              Handle(s, w).at \in {"closing", "ending", "closed"}
BY DEF DatabaseInv, LineOk

LEMMA RepliesInLine ==
  ASSUME DatabaseInv, NEW w \in Worker, NEW i \in DOMAIN workers[w].replies
  PROVE  i \in 1..Behind(w) /\ Line(w, i) = workers[w].replies[i][1]
<1> DEFINE a == Len(workers[w].replies)
           b == Len(workers[w].inbox)
<1>1. a \in Nat /\ b \in Nat /\ Behind(w) = a + b
  BY WorkerFacts DEF DatabaseInv, Behind
<1>2. i \in 1..a
  BY WorkerFacts, LenProperties DEF DatabaseInv
<1>3. \A j : Line(w, j) = IF j <= a THEN workers[w].replies[j][1] ELSE workers[w].inbox[j - a]
  BY DEF Line
<1> HIDE DEF a, b
<1>4. QED
  BY <1>1, <1>2, <1>3

\* A line keeps everything but the message that was answered.
LEMMA ReadLine ==
  ASSUME DatabaseInv, NEW w \in Worker, NEW m, NEW ends \in BOOLEAN, ReadOne(w, m, ends), NEW v \in Worker
  PROVE  /\ \A i \in 1..Behind(v)' : \E j \in 1..Behind(v) :
              /\ j = (IF v = w THEN i + 1 ELSE i) /\ Line(v, i)' = Line(v, j)
         /\ \A j \in 1..Behind(v) : v # w \/ j # 1 =>
              \E i \in 1..Behind(v)' : Line(v, i)' = Line(v, j)
         /\ \A i \in DOMAIN workers'[v].replies : \E j \in DOMAIN workers[v].replies :
              /\ j = (IF v = w THEN i + 1 ELSE i) /\ workers'[v].replies[i] = workers[v].replies[j]
<1>1. CASE v # w
  BY <1>1 DEF ReadOne
<1>2. CASE v = w
  <2>1. /\ Behind(w) \in Nat \ {0} /\ Behind(w)' = Behind(w) - 1
        /\ \A i \in 1..(Behind(w) - 1) : Line(w, i)' = Line(w, i + 1)
        /\ \A i \in DOMAIN workers'[w].replies :
             i + 1 \in DOMAIN workers[w].replies /\ workers'[w].replies[i] = workers[w].replies[i + 1]
    BY DEF ReadOne
  <2>2. ASSUME NEW i \in 1..Behind(w)'
        PROVE  i + 1 \in 1..Behind(w) /\ Line(w, i)' = Line(w, i + 1)
    BY <2>1
  <2>3. ASSUME NEW j \in 1..Behind(w), j # 1
        PROVE  \E i \in 1..Behind(w)' : Line(w, i)' = Line(w, j)
    <3>1. j - 1 \in 1..Behind(w)' /\ j - 1 + 1 = j
      BY <2>1, <2>3
    <3>2. Line(w, j - 1)' = Line(w, j)
      BY <2>2, <3>1
    <3>3. QED
      BY <3>1, <3>2
  <2>4. QED
    BY <1>2, <2>1, <2>2, <2>3
<1>3. QED
  BY <1>1, <1>2

LEMMA ReadDistinct ==
  ASSUME DatabaseInv, NEW w \in Worker, NEW m, NEW ends \in BOOLEAN, ReadOne(w, m, ends), NEW v \in Worker
  PROVE  \A i, j \in 1..Behind(v)' : Line(v, i)' = Line(v, j)' => i = j
<1> TAKE i, j \in 1..Behind(v)'
<1> HAVE Line(v, i)' = Line(v, j)'
<1>1. PICK a \in 1..Behind(v) : a = (IF v = w THEN i + 1 ELSE i) /\ Line(v, i)' = Line(v, a)
  BY ReadLine
<1>2. PICK b \in 1..Behind(v) : b = (IF v = w THEN j + 1 ELSE j) /\ Line(v, j)' = Line(v, b)
  BY ReadLine
<1>3. a = b
  <2>1. Line(v, a) = Line(v, b)
    BY <1>1, <1>2
  <2>2. QED
    BY <2>1, Once
<1>4. QED
  BY <1>1, <1>2, <1>3

\* The close of the last handle stays the end of the line, unless it was the
\* message that was answered.
LEMMA ReadLast ==
  ASSUME DatabaseInv, NEW w \in Worker, NEW m, NEW ends \in BOOLEAN, ReadOne(w, m, ends),
         NEW q \in Store, NEW v \in Worker, Handle(q, v).last, Handle(q, v).at = "closing",
         ~workers[v].failed, v # w \/ m # <<"close", q>>
  PROVE  /\ Behind(v)' > 0
         /\ \A i : i = Behind(v)' => Line(v, i)' = <<"close", q>>
<1>1. Behind(v) > 0 /\ Line(v, Behind(v)) = <<"close", q>>
  BY DEF DatabaseInv, LastOk
<1>2. CASE v # w
  BY <1>1, <1>2 DEF ReadOne
<1>3. CASE v = w
  <2>1. /\ Behind(w) \in Nat \ {0} /\ Behind(w)' = Behind(w) - 1 /\ Line(w, 1) = m
        /\ \A i \in 1..(Behind(w) - 1) : Line(w, i)' = Line(w, i + 1)
    BY DEF ReadOne
  <2>2. Behind(w) # 1
    BY <1>1, <1>3, <2>1
  <2>3. Behind(w)' \in 1..(Behind(w) - 1) /\ Behind(w)' + 1 = Behind(w)
    BY <2>1, <2>2
  <2>4. QED
    BY <1>1, <1>3, <2>1, <2>3
<1>4. QED
  BY <1>2, <1>3

LEMMA ReadAskStep ==
  ASSUME DatabaseInv, NEW w \in Worker, NEW r \in Request, NEW ok \in BOOLEAN,
         ReadOne(w, <<"ask", r>>, FALSE), workers[w].replies[1][2] = ok,
         requests' = [requests EXCEPT ![r].told = IF ok THEN "done" ELSE "failed"],
         handles' = handles
  PROVE  DatabaseInv'
<1> DEFINE m == <<"ask", r>>
<1>1. /\ workers' \in [Worker -> Thread]
      /\ \A v \in Worker : /\ workers'[v].thread = workers[v].thread /\ workers'[v].owners = workers[v].owners
                           /\ workers'[v].failed = workers[v].failed /\ workers'[v].ending = workers[v].ending
                           /\ workers'[v].inbox = workers[v].inbox
      /\ \A v \in Worker : v # w => workers'[v] = workers[v]
      /\ workers[w].thread # "none" /\ ~workers[w].failed
      /\ client' = client /\ stores' = stores /\ executed' = executed /\ failures' = failures
      /\ 1 \in DOMAIN workers[w].replies /\ workers[w].replies[1][1] = m
      /\ Line(w, 1) = m /\ 1 \in 1..Behind(w)
  <2>1. workers[w].ending \in BOOLEAN
    BY WorkerFacts DEF DatabaseInv
  <2>2. 1 \in 1..Behind(w)
    BY DEF ReadOne
  <2>3. QED
    BY <2>1, <2>2 DEF ReadOne
<1>2. \A v \in Worker : \A i \in 1..Behind(v)' : \E j \in 1..Behind(v) :
        j = (IF v = w THEN i + 1 ELSE i) /\ Line(v, i)' = Line(v, j)
  BY ReadLine
<1>3. \A v \in Worker : \A j \in 1..Behind(v) : v # w \/ j # 1 =>
        \E i \in 1..Behind(v)' : Line(v, i)' = Line(v, j)
  BY ReadLine
<1>4. requests[r].worker = w /\ requests[r].told = "posted" /\ executed[r] = IF ok THEN 1 ELSE 0
  <2>1. requests[r].worker = w /\ requests[r].told \in {"posted", "unavailable"}
    BY <1>1, Once
  <2>2. requests[r].told # "unavailable"
    BY <1>1, <2>1 DEF DatabaseInv, RequestsOk
  <2>3. executed[r] = IF ok THEN 1 ELSE 0
    BY <1>1 DEF DatabaseInv, ExecutedOk
  <2>4. QED
    BY <2>1, <2>2, <2>3
<1>5. requests \in [Request -> [told : Told, store : Store \cup {0}, worker : Worker \cup {0}, caught : BOOLEAN]]
  BY DEF DatabaseInv, DatabaseTypeOK
<1>6. /\ requests' \in [Request -> [told : Told, store : Store \cup {0}, worker : Worker \cup {0}, caught : BOOLEAN]]
      /\ requests'[r].told = IF ok THEN "done" ELSE "failed"
      /\ requests'[r].store = requests[r].store /\ requests'[r].worker = requests[r].worker
      /\ \A q \in Request : q # r => requests'[q] = requests[q]
  BY <1>5 DEF Told
<1>7. \A q \in Store, v \in Worker : Handle(q, v)' = Handle(q, v)
  BY DEF Handle
<1>8. ASSUME NEW v \in Worker, NEW i \in 1..Behind(v)'
      PROVE  Line(v, i)' # m
  <2>1. PICK j \in 1..Behind(v) : j = (IF v = w THEN i + 1 ELSE i) /\ Line(v, i)' = Line(v, j)
    BY <1>2
  <2>2. CASE v # w
    BY <1>4, <2>1, <2>2, Once
  <2>3. CASE v = w
    <3>1. j # 1
      BY <1>8, <2>1, <2>3
    <3>2. Line(w, j) # Line(w, 1)
      BY <1>1, <2>3, <3>1, Once
    <3>3. QED
      BY <1>1, <2>1, <2>3, <3>2
  <2>4. QED
    BY <2>2, <2>3
<1>9. DatabaseTypeOK'
  BY <1>1, <1>6 DEF DatabaseInv, DatabaseTypeOK
<1>10. WorkersOk'
  <2>1. ASSUME NEW v \in Worker, workers'[v].thread = "none"
        PROVE  Pristine(v)'
    <3>1. v # w /\ workers'[v] = workers[v]
      BY <1>1, <2>1
    <3>2. Pristine(v)
      BY <2>1, <3>1 DEF DatabaseInv, WorkersOk
    <3>3. QED
      BY <1>1, <1>7, <3>1, <3>2 DEF Pristine
  <2>2. client # 0 => client \in Worker
    BY DEF DatabaseInv, DatabaseTypeOK
  <2>3. QED
    BY <1>1, <2>1, <2>2 DEF DatabaseInv, WorkersOk
<1>11. OwnersOk'
  <2>1. \A v \in Worker, d \in Dir : Holders(v, d)' = Holders(v, d)
    BY <1>1 DEF Holders, DirOf
  <2>2. QED
    BY <1>1, <2>1 DEF DatabaseInv, OwnersOk
<1>12. HandlesOk'
  BY <1>1, <1>7 DEF DatabaseInv, HandlesOk
<1>13. LastOk'
  <2> SUFFICES ASSUME NEW q \in Store, NEW v \in Worker, Handle(q, v)'.last
               PROVE  /\ workers'[v].owners = NoOwners /\ client' # v
                      /\ Handle(q, v)'.at = "closing" /\ ~workers'[v].failed =>
                           /\ Behind(v)' > 0
                           /\ \A i : i = Behind(v)' => Line(v, i)' = <<"close", q>>
    BY DEF LastOk, NoOwners
  <2>1. /\ workers[v].owners = NoOwners /\ client # v
        /\ Handle(q, v).at = "closing" /\ ~workers[v].failed =>
             Behind(v) > 0 /\ Line(v, Behind(v)) = <<"close", q>>
    BY <1>7 DEF DatabaseInv, LastOk
  <2>2. ASSUME Handle(q, v).at = "closing", ~workers[v].failed
        PROVE  /\ Behind(v)' > 0
               /\ \A i : i = Behind(v)' => Line(v, i)' = <<"close", q>>
    <3>1. Handle(q, v).last /\ m # <<"close", q>>
      BY <1>7
    <3>2. QED
      BY <2>2, <3>1, ReadLast
  <2>3. QED
    BY <1>1, <1>7, <2>1, <2>2
<1>14. RequestsOk'
  <2> SUFFICES ASSUME NEW q \in Request
               PROVE  /\ requests'[q].told \notin {"no", "refused"} =>
                           requests'[q].store \in Store /\ requests'[q].worker \in Worker
                      /\ requests'[q].told \in {"unavailable", "notSent"} => workers'[requests'[q].worker].failed
                      /\ requests'[q].told = "posted" =>
                           /\ ~workers'[requests'[q].worker].failed
                           /\ \E i \in 1..Behind(requests[q].worker)' : Line(requests[q].worker, i)' = <<"ask", q>>
    BY <1>6 DEF RequestsOk
  <2>1. /\ requests[q].told \notin {"no", "refused"} =>
             requests[q].store \in Store /\ requests[q].worker \in Worker
        /\ requests[q].told \in {"unavailable", "notSent"} => workers[requests[q].worker].failed
        /\ requests[q].told = "posted" =>
             /\ ~workers[requests[q].worker].failed
             /\ \E i \in 1..Behind(requests[q].worker) : Line(requests[q].worker, i) = <<"ask", q>>
    BY DEF DatabaseInv, RequestsOk
  <2>2. CASE q = r
    BY <1>4, <1>6, <2>1, <2>2
  <2>3. CASE q # r
    <3>1. requests'[q] = requests[q]
      BY <1>6, <2>3
    <3>2. ASSUME requests[q].told = "posted"
          PROVE  \E i \in 1..Behind(requests[q].worker)' : Line(requests[q].worker, i)' = <<"ask", q>>
      <4>1. requests[q].worker \in Worker
        BY <2>1, <3>2
      <4>2. PICK j \in 1..Behind(requests[q].worker) : Line(requests[q].worker, j) = <<"ask", q>>
        BY <2>1, <3>2
      <4>3. requests[q].worker # w \/ j # 1
        BY <1>1, <2>3, <4>2
      <4>4. QED
        BY <1>3, <4>1, <4>2, <4>3
    <3>3. QED
      BY <1>1, <2>1, <3>1, <3>2
  <2>4. QED
    BY <2>2, <2>3
<1>15. LineOk'
  <2> SUFFICES ASSUME NEW v \in Worker
               PROVE  /\ \A i, j \in 1..Behind(v)' : Line(v, i)' = Line(v, j)' => i = j
                      /\ \A i \in 1..Behind(v)', q \in Request : Line(v, i)' = <<"ask", q>> =>
                           requests'[q].worker = v /\ requests'[q].told \in {"posted", "unavailable"}
                      /\ \A i \in 1..Behind(v)', q \in Store : Line(v, i)' = <<"close", q>> =>
                           Handle(q, v)'.at \in {"closing", "ending", "closed"}
    BY DEF LineOk
  <2>1. \A i, j \in 1..Behind(v)' : Line(v, i)' = Line(v, j)' => i = j
    BY ReadDistinct
  <2>2. \A i \in 1..Behind(v)', q \in Request : Line(v, i)' = <<"ask", q>> =>
          requests'[q].worker = v /\ requests'[q].told \in {"posted", "unavailable"}
    BY <1>2, <1>6, <1>8 DEF DatabaseInv, LineOk
  <2>3. \A i \in 1..Behind(v)', q \in Store : Line(v, i)' = <<"close", q>> =>
          Handle(q, v)'.at \in {"closing", "ending", "closed"}
    BY <1>2, <1>7 DEF DatabaseInv, LineOk
  <2>4. QED
    BY <2>1, <2>2, <2>3
<1>16. ExecutedOk'
  <2>1. ToldTheTruth'
    <3> SUFFICES ASSUME NEW q \in Request
                 PROVE  /\ executed'[q] <= 1
                        /\ requests'[q].told = "done" => executed'[q] = 1
                        /\ requests'[q].told \in {"no", "failed", "refused", "notSent"} => executed'[q] = 0
      BY DEF ToldTheTruth
    <3>1. CASE q = r
      BY <1>1, <1>4, <1>6, <3>1
    <3>2. CASE q # r
      BY <1>1, <1>6, <3>2 DEF DatabaseInv, ExecutedOk, ToldTheTruth
    <3>3. QED
      BY <3>1, <3>2
  <2>2. \A v \in Worker : \A i \in DOMAIN workers'[v].inbox : \A q \in Request :
          workers'[v].inbox[i] = <<"ask", q>> => executed'[q] = 0
    BY <1>1 DEF DatabaseInv, ExecutedOk
  <2>3. ASSUME NEW v \in Worker, NEW i \in DOMAIN workers'[v].replies, NEW q \in Request,
               workers'[v].replies[i][1] = <<"ask", q>>
        PROVE  executed'[q] = IF workers'[v].replies[i][2] THEN 1 ELSE 0
    <3>1. PICK j \in DOMAIN workers[v].replies : workers'[v].replies[i] = workers[v].replies[j]
      BY ReadLine
    <3>2. QED
      BY <1>1, <2>3, <3>1 DEF DatabaseInv, ExecutedOk
  <2>4. QED
    BY <2>1, <2>2, <2>3 DEF ExecutedOk
<1>17. EndsEmpty'
  BY <1>1, <1>6 DEF DatabaseInv, EndsEmpty, OnlyFailuresLose, NoOwners
<1>18. StaysForSomeone'
  BY <1>1, <1>7 DEF DatabaseInv, StaysForSomeone, NoOwners
<1>19. QED
  BY <1>9, <1>10, <1>11, <1>12, <1>13, <1>14, <1>15, <1>16, <1>17, <1>18 DEF DatabaseInv

LEMMA ReadCloseStep ==
  ASSUME DatabaseInv, NEW w \in Worker, NEW s \in Store, ReadOne(w, <<"close", s>>, Ends(s, w)),
         requests' = requests, handles' = ReleasedHandles(s, w)
  PROVE  DatabaseInv'
<1> DEFINE m == <<"close", s>>
           ends == Ends(s, w)
<1>1. /\ workers' \in [Worker -> Thread]
      /\ \A v \in Worker : /\ workers'[v].thread = workers[v].thread /\ workers'[v].owners = workers[v].owners
                           /\ workers'[v].failed = workers[v].failed /\ workers'[v].inbox = workers[v].inbox
      /\ \A v \in Worker : v # w => workers'[v] = workers[v]
      /\ workers'[w].ending = (workers[w].ending \/ ends)
      /\ workers[w].thread # "none" /\ ~workers[w].failed
      /\ client' = client /\ stores' = stores /\ executed' = executed /\ failures' = failures
      /\ Line(w, 1) = m /\ 1 \in 1..Behind(w)
  <2>1. 1 \in 1..Behind(w)
    BY DEF ReadOne
  <2>2. QED
    BY <2>1 DEF ReadOne
<1>2. ends \in BOOLEAN /\ (ends <=> Handle(s, w).at = "closing" /\ Handle(s, w).last)
  <2>1. Handle(s, w).last \in BOOLEAN
    BY DEF DatabaseInv, DatabaseTypeOK, Handle
  <2>2. QED
    BY <2>1 DEF Ends, Handle
<1>3. \A v \in Worker : \A i \in 1..Behind(v)' : \E j \in 1..Behind(v) :
        j = (IF v = w THEN i + 1 ELSE i) /\ Line(v, i)' = Line(v, j)
  BY <1>2, ReadLine
<1>4. \A v \in Worker : \A j \in 1..Behind(v) : v # w \/ j # 1 =>
        \E i \in 1..Behind(v)' : Line(v, i)' = Line(v, j)
  BY <1>2, ReadLine
\* Every handle of the worker was released: nobody asks it anything more.
<1>5. ends => /\ workers[w].owners = NoOwners /\ client # w
              /\ \A i \in 1..Behind(w) : i = 1
  <2> SUFFICES ASSUME ends, NEW i \in 1..Behind(w)
               PROVE  workers[w].owners = NoOwners /\ client # w /\ i = 1
    BY <1>1
  <2>1. workers[w].owners = NoOwners /\ client # w /\ Behind(w) > 0 /\ Line(w, Behind(w)) = m
    BY <1>1, <1>2 DEF DatabaseInv, LastOk
  <2>2. Behind(w) \in 1..Behind(w)
    BY <2>1, WorkerFacts DEF DatabaseInv
  <2>3. Behind(w) = 1
    BY <1>1, <2>1, <2>2, Once
  <2>4. QED
    BY <2>1, <2>3
<1> HIDE DEF ends
<1>6. /\ handles' \in [Store \X Worker -> [at : {"none", "open", "closing", "ending", "closed"}, last : BOOLEAN]]
      /\ \A q \in Store, v \in Worker : <<q, v>> # <<s, w>> => Handle(q, v)' = Handle(q, v)
      /\ Handle(s, w)'.last = Handle(s, w).last
      /\ Handle(s, w)'.at # "closing"
      /\ Handle(s, w).at # "closing" => Handle(s, w)'.at = Handle(s, w).at
      /\ Handle(s, w).at = "closing" => Handle(s, w)'.at \in {"ending", "closed"}
  <2>1. handles \in [Store \X Worker -> [at : {"none", "open", "closing", "ending", "closed"}, last : BOOLEAN]]
    BY DEF DatabaseInv, DatabaseTypeOK
  <2> DEFINE at == IF handles[<<s, w>>].at # "closing" THEN handles[<<s, w>>].at
                   ELSE IF ends THEN "ending" ELSE "closed"
  <2>2. handles' = [handles EXCEPT ![<<s, w>>].at = at]
    BY <2>1 DEF ReleasedHandles, ends
  <2>3. at \in {"none", "open", "ending", "closed"}
    BY <2>1
  <2>4. /\ handles[<<s, w>>].at # "closing" => at = handles[<<s, w>>].at
        /\ handles[<<s, w>>].at = "closing" => at \in {"ending", "closed"}
    OBVIOUS
  <2> HIDE DEF at
  <2>5. /\ handles' \in [Store \X Worker -> [at : {"none", "open", "closing", "ending", "closed"}, last : BOOLEAN]]
        /\ handles'[<<s, w>>].last = handles[<<s, w>>].last /\ handles'[<<s, w>>].at = at
        /\ \A h \in Store \X Worker : h # <<s, w>> => handles'[h] = handles[h]
    BY <2>1, <2>2, <2>3
  <2>6. QED
    BY <2>3, <2>4, <2>5 DEF Handle
<1>7. \A q \in Store, v \in Worker : Handle(q, v).at \in {"closing", "ending", "closed"} =>
        Handle(q, v)'.at \in {"closing", "ending", "closed"}
  BY <1>6
<1>8. DatabaseTypeOK'
  BY <1>1, <1>6 DEF DatabaseInv, DatabaseTypeOK
<1>9. WorkersOk'
  <2>1. ASSUME NEW v \in Worker, workers'[v].thread = "none"
        PROVE  Pristine(v)'
    <3>1. v # w /\ workers'[v] = workers[v]
      BY <1>1, <2>1
    <3>2. Pristine(v)
      BY <2>1, <3>1 DEF DatabaseInv, WorkersOk
    <3>3. QED
      BY <1>1, <1>6, <3>1, <3>2 DEF Pristine
  <2>2. client # 0 => client \in Worker
    BY DEF DatabaseInv, DatabaseTypeOK
  <2>3. \A v \in Worker : workers'[v].failed => workers'[v].ending
    BY <1>1 DEF DatabaseInv, WorkersOk
  <2>4. client' # 0 => workers'[client'].thread = "up" /\ ~workers'[client'].ending
    BY <1>1, <1>5, <2>2 DEF DatabaseInv, WorkersOk
  <2>5. \A v \in Worker : workers'[v].thread = "down" => workers'[v].failed
    BY <1>1 DEF DatabaseInv, WorkersOk
  <2>6. QED
    BY <2>1, <2>3, <2>4, <2>5 DEF WorkersOk
<1>10. OwnersOk'
  <2>1. \A v \in Worker, d \in Dir : Holders(v, d)' = Holders(v, d)
    BY <1>1 DEF Holders, DirOf
  <2>2. QED
    BY <1>1, <2>1 DEF DatabaseInv, OwnersOk
<1>11. HandlesOk'
  <2>1. \A q \in Store, v \in Worker :
          /\ Handle(q, v)'.at = "open" <=> Handle(q, v).at = "open"
          /\ Handle(q, v)'.at \in {"closing", "ending", "closed"} <=> Handle(q, v).at \in {"closing", "ending", "closed"}
          /\ Handle(q, v)'.at \in {"none", "open"} <=> Handle(q, v).at \in {"none", "open"}
          /\ Handle(q, v)'.last = Handle(q, v).last
    BY <1>6
  <2>2. QED
    BY <1>1, <2>1 DEF DatabaseInv, HandlesOk
<1>12. LastOk'
  <2> SUFFICES ASSUME NEW q \in Store, NEW v \in Worker, Handle(q, v)'.last
               PROVE  /\ workers'[v].owners = NoOwners /\ client' # v
                      /\ Handle(q, v)'.at = "closing" /\ ~workers'[v].failed =>
                           /\ Behind(v)' > 0
                           /\ \A i : i = Behind(v)' => Line(v, i)' = <<"close", q>>
    BY DEF LastOk, NoOwners
  <2>1. Handle(q, v).last
    BY <1>6
  <2>2. workers'[v].owners = NoOwners /\ client' # v
    BY <1>1, <2>1 DEF DatabaseInv, LastOk
  <2>3. ASSUME Handle(q, v)'.at = "closing", ~workers'[v].failed
        PROVE  /\ Behind(v)' > 0
               /\ \A i : i = Behind(v)' => Line(v, i)' = <<"close", q>>
    <3>1. Handle(q, v).at = "closing" /\ ~workers[v].failed /\ (v # w \/ m # <<"close", q>>)
      BY <1>1, <1>6, <2>3
    <3>2. QED
      BY <1>2, <2>1, <3>1, ReadLast DEF ends
  <2>4. QED
    BY <2>2, <2>3
<1>13. RequestsOk'
  <2> SUFFICES ASSUME NEW q \in Request
               PROVE  /\ requests'[q].told \notin {"no", "refused"} =>
                           requests'[q].store \in Store /\ requests'[q].worker \in Worker
                      /\ requests'[q].told \in {"unavailable", "notSent"} => workers'[requests'[q].worker].failed
                      /\ requests'[q].told = "posted" =>
                           /\ ~workers'[requests'[q].worker].failed
                           /\ \E i \in 1..Behind(requests[q].worker)' : Line(requests[q].worker, i)' = <<"ask", q>>
    BY DEF RequestsOk
  <2>1. /\ requests[q].told \notin {"no", "refused"} =>
             requests[q].store \in Store /\ requests[q].worker \in Worker
        /\ requests[q].told \in {"unavailable", "notSent"} => workers[requests[q].worker].failed
        /\ requests[q].told = "posted" =>
             /\ ~workers[requests[q].worker].failed
             /\ \E i \in 1..Behind(requests[q].worker) : Line(requests[q].worker, i) = <<"ask", q>>
    BY DEF DatabaseInv, RequestsOk
  <2>2. ASSUME requests[q].told = "posted"
        PROVE  \E i \in 1..Behind(requests[q].worker)' : Line(requests[q].worker, i)' = <<"ask", q>>
    <3>1. requests[q].worker \in Worker
      BY <2>1, <2>2
    <3>2. PICK j \in 1..Behind(requests[q].worker) : Line(requests[q].worker, j) = <<"ask", q>>
      BY <2>1, <2>2
    <3>3. requests[q].worker # w \/ j # 1
      BY <1>1, <3>2
    <3>4. QED
      BY <1>4, <3>1, <3>2, <3>3
  <2>3. QED
    BY <1>1, <2>1, <2>2
<1>14. LineOk'
  <2> SUFFICES ASSUME NEW v \in Worker
               PROVE  /\ \A i, j \in 1..Behind(v)' : Line(v, i)' = Line(v, j)' => i = j
                      /\ \A i \in 1..Behind(v)', q \in Request : Line(v, i)' = <<"ask", q>> =>
                           requests'[q].worker = v /\ requests'[q].told \in {"posted", "unavailable"}
                      /\ \A i \in 1..Behind(v)', q \in Store : Line(v, i)' = <<"close", q>> =>
                           Handle(q, v)'.at \in {"closing", "ending", "closed"}
    BY DEF LineOk
  <2>1. \A i, j \in 1..Behind(v)' : Line(v, i)' = Line(v, j)' => i = j
    BY <1>2, ReadDistinct DEF ends
  <2>2. \A i \in 1..Behind(v)', q \in Request : Line(v, i)' = <<"ask", q>> =>
          requests'[q].worker = v /\ requests'[q].told \in {"posted", "unavailable"}
    BY <1>3 DEF DatabaseInv, LineOk
  <2>3. \A i \in 1..Behind(v)', q \in Store : Line(v, i)' = <<"close", q>> =>
          Handle(q, v)'.at \in {"closing", "ending", "closed"}
    BY <1>3, <1>7 DEF DatabaseInv, LineOk
  <2>4. QED
    BY <2>1, <2>2, <2>3
<1>15. ExecutedOk'
  <2>1. ToldTheTruth'
    BY <1>1 DEF DatabaseInv, ExecutedOk, ToldTheTruth
  <2>2. \A v \in Worker : \A i \in DOMAIN workers'[v].inbox : \A q \in Request :
          workers'[v].inbox[i] = <<"ask", q>> => executed'[q] = 0
    BY <1>1 DEF DatabaseInv, ExecutedOk
  <2>3. ASSUME NEW v \in Worker, NEW i \in DOMAIN workers'[v].replies, NEW q \in Request,
               workers'[v].replies[i][1] = <<"ask", q>>
        PROVE  executed'[q] = IF workers'[v].replies[i][2] THEN 1 ELSE 0
    <3>1. PICK j \in DOMAIN workers[v].replies : workers'[v].replies[i] = workers[v].replies[j]
      BY <1>2, ReadLine DEF ends
    <3>2. QED
      BY <1>1, <2>3, <3>1 DEF DatabaseInv, ExecutedOk
  <2>4. QED
    BY <2>1, <2>2, <2>3 DEF ExecutedOk
<1>16. EndsEmpty'
  <2>1. OnlyFailuresLose'
    BY <1>1 DEF DatabaseInv, EndsEmpty, OnlyFailuresLose
  <2>2. ASSUME failures' = 0, NEW v \in Worker, workers'[v].ending
        PROVE  /\ workers'[v].owners = NoOwners
               /\ \A q \in Request : requests'[q].told = "posted" => requests'[q].worker # v
    <3>1. CASE v = w /\ ends
      <4>1. \A q \in Request : requests[q].told = "posted" => requests[q].worker # w
        BY <1>1, <1>5, <3>1 DEF DatabaseInv, RequestsOk
      <4>2. QED
        BY <1>1, <1>5, <3>1, <4>1
    <3>2. CASE ~(v = w /\ ends)
      <4>1. workers[v].ending
        BY <1>1, <2>2, <3>2
      <4>2. QED
        BY <1>1, <2>2, <4>1 DEF DatabaseInv, EndsEmpty
    <3>3. QED
      BY <3>1, <3>2
  <2>3. QED
    BY <2>1, <2>2 DEF EndsEmpty, NoOwners
<1>17. StaysForSomeone'
  <2> SUFFICES ASSUME NEW v \in Worker, workers'[v].thread = "up", ~workers'[v].ending,
                      workers'[v].owners = NoOwners
               PROVE  \E q \in Store : Handle(q, v)'.at = "closing" /\ Handle(q, v)'.last
    BY DEF StaysForSomeone, NoOwners
  <2>1. ~workers[v].ending /\ (v = w => ~ends)
    BY <1>1
  <2>2. PICK q \in Store : Handle(q, v).at = "closing" /\ Handle(q, v).last
    BY <1>1, <2>1 DEF DatabaseInv, StaysForSomeone
  <2>3. <<q, v>> # <<s, w>>
    BY <1>2, <2>1, <2>2
  <2>4. QED
    BY <1>6, <2>2, <2>3
<1>18. QED
  BY <1>8, <1>9, <1>10, <1>11, <1>12, <1>13, <1>14, <1>15, <1>16, <1>17 DEF DatabaseInv

LEMMA ReplyStep ==
  ASSUME DatabaseInv, NEW w \in Worker, Reply(w)
  PROVE  DatabaseInv'
<1> DEFINE m == Head(workers[w].replies)[1]
           ok == Head(workers[w].replies)[2]
<1>1. /\ workers[w].replies # <<>> /\ ~workers[w].failed
      /\ UNCHANGED <<client, stores, executed, failures>>
  BY DEF Reply
<1>2. m \in Message /\ ok \in BOOLEAN /\ workers[w].replies[1][2] = ok
  <2>1. workers[w].replies \in Seq(Message \X BOOLEAN)
    BY WorkerFacts DEF DatabaseInv
  <2>2. Head(workers[w].replies) \in Message \X BOOLEAN
    BY <1>1, <2>1, HeadTailProperties
  <2>3. Head(workers[w].replies) = workers[w].replies[1]
    BY <1>1, <2>1
  <2>4. QED
    BY <2>2, <2>3
<1>3. workers \in [Worker -> Thread] /\ workers[w].ending \in BOOLEAN
  BY WorkerFacts DEF DatabaseInv, DatabaseTypeOK
<1>4. CASE m[1] = "ask"
  <2>1. PICK r \in Request : m = <<"ask", r>>
    <3> HIDE DEF m
    <3>1. QED
      BY <1>2, <1>4 DEF Message
  <2>2. /\ workers' = [workers EXCEPT ![w].replies = Tail(@)]
        /\ requests' = [requests EXCEPT ![m[2]].told = IF ok THEN "done" ELSE "failed"]
        /\ handles' = handles
    BY <1>4 DEF Reply
  <2>3. requests' = [requests EXCEPT ![r].told = IF ok THEN "done" ELSE "failed"]
    <3> HIDE DEF m, ok
    <3>1. QED
      BY <2>1, <2>2
  <2>4. workers' = [workers EXCEPT ![w].replies = Tail(@), ![w].ending = @ \/ FALSE]
    BY <1>3, <2>2 DEF Thread
  <2>5. ReadOne(w, <<"ask", r>>, FALSE)
    <3>1. ReadOne(w, m, FALSE)
      BY <1>1, <2>4, ReadStep
    <3> HIDE DEF m
    <3>2. QED
      BY <2>1, <3>1
  <2> HIDE DEF m, ok
  <2>6. QED
    BY <1>2, <2>2, <2>3, <2>5, ReadAskStep
<1>5. CASE m[1] # "ask"
  <2>1. PICK s \in Store : m = <<"close", s>>
    <3> HIDE DEF m
    <3>1. QED
      BY <1>2, <1>5 DEF Message
  <2>2. m[2] = s
    <3> HIDE DEF m
    <3>1. QED
      BY <2>1
  <2>3. Ends(s, w) \in BOOLEAN
    BY DEF DatabaseInv, DatabaseTypeOK, Ends
  <2>4. /\ workers' = [[workers EXCEPT ![w].replies = Tail(@)] EXCEPT ![w].ending = @ \/ Ends(m[2], w)]
        /\ handles' = ReleasedHandles(m[2], w)
        /\ requests' = requests
    BY <1>5 DEF Reply
  <2>5. workers' = [workers EXCEPT ![w].replies = Tail(@), ![w].ending = @ \/ Ends(s, w)]
    BY <1>3, <2>2, <2>4 DEF Thread
  <2>6. handles' = ReleasedHandles(s, w)
    BY <2>2, <2>4
  <2>7. ReadOne(w, <<"close", s>>, Ends(s, w))
    <3> DEFINE e == Ends(s, w)
    <3> HIDE DEF e
    <3>1. ReadOne(w, m, e)
      BY <1>1, <2>3, <2>5, ReadStep DEF e
    <3> HIDE DEF m
    <3>2. QED
      BY <2>1, <3>1 DEF e
  <2> HIDE DEF m, ok
  <2>8. QED
    BY <2>4, <2>6, <2>7, ReadCloseStep
<1>6. QED
  BY <1>4, <1>5

LEMMA FailFacts ==
  ASSUME DatabaseTypeOK, NEW w \in Worker, NEW down \in BOOLEAN, Fails(w, down)
  PROVE  /\ workers' \in [Worker -> Thread]
         /\ \A v \in Worker : v # w => workers'[v] = workers[v]
         /\ workers'[w].failed /\ workers'[w].ending
         /\ workers'[w].thread = IF down THEN "down" ELSE workers[w].thread
         /\ workers'[w].owners = workers[w].owners /\ workers'[w].replies = workers[w].replies
         /\ workers'[w].inbox = IF down THEN <<>> ELSE workers[w].inbox
<1> DEFINE t == IF down THEN "down" ELSE workers[w].thread
           q == IF down THEN <<>> ELSE workers[w].inbox
           worker == [workers[w] EXCEPT !.failed = TRUE, !.ending = TRUE, !.thread = t, !.inbox = q]
<1>1. workers \in [Worker -> Thread] /\ workers[w] \in Thread
  BY DEF DatabaseTypeOK
<1>2. t \in {"none", "up", "down"} /\ q \in Seq(Message)
  BY WorkerFacts
<1>3. workers' = [workers EXCEPT ![w] = worker]
  BY <1>1 DEF Fails, Thread
<1> HIDE DEF t, q
<1>4. /\ worker \in Thread /\ worker.failed /\ worker.ending /\ worker.thread = t /\ worker.inbox = q
      /\ worker.owners = workers[w].owners /\ worker.replies = workers[w].replies
  BY <1>1, <1>2 DEF Thread
<1> HIDE DEF worker
<1>5. /\ workers' \in [Worker -> Thread] /\ workers'[w] = worker
      /\ \A v \in Worker : v # w => workers'[v] = workers[v]
  BY <1>1, <1>3, <1>4
<1>6. QED
  BY <1>4, <1>5 DEF t, q

\* A worker fails: it is counted, or it was told to end.
LEMMA FailsStep ==
  ASSUME DatabaseInv, NEW w \in Worker, NEW down \in BOOLEAN, Fails(w, down),
         workers[w].thread = "up", failures' \in 0..MaxFailures,
         failures' = 0 => failures = 0 /\ workers[w].ending
  PROVE  DatabaseInv'
<1>1. /\ workers' \in [Worker -> Thread]
      /\ \A v \in Worker : v # w => workers'[v] = workers[v]
      /\ workers'[w].failed /\ workers'[w].ending
      /\ workers'[w].thread = IF down THEN "down" ELSE workers[w].thread
      /\ workers'[w].replies = workers[w].replies
      /\ workers'[w].inbox = IF down THEN <<>> ELSE workers[w].inbox
      /\ \A v \in Worker : workers'[v].owners = workers[v].owners
  BY FailFacts DEF DatabaseInv
<1>2. client' = (IF client = w THEN 0 ELSE client) /\ stores' = stores /\ executed' = executed
  BY DEF Fails
<1>3. requests \in [Request -> [told : Told, store : Store \cup {0}, worker : Worker \cup {0}, caught : BOOLEAN]]
  BY DEF DatabaseInv, DatabaseTypeOK
<1>4. requests' \in [Request -> [told : Told, store : Store \cup {0}, worker : Worker \cup {0}, caught : BOOLEAN]]
  BY <1>3 DEF Fails, Lost, Told
<1>5. \A r \in Request : /\ requests'[r].store = requests[r].store /\ requests'[r].worker = requests[r].worker
                         /\ requests'[r].told = IF requests[r].told = "posted" /\ requests[r].worker = w
                                                THEN "unavailable" ELSE requests[r].told
  BY <1>3 DEF Fails, Lost
<1>6. handles \in [Store \X Worker -> [at : {"none", "open", "closing", "ending", "closed"}, last : BOOLEAN]]
  BY DEF DatabaseInv, DatabaseTypeOK
<1>7. /\ handles' \in [Store \X Worker -> [at : {"none", "open", "closing", "ending", "closed"}, last : BOOLEAN]]
      /\ \A h \in Store \X Worker :
           /\ handles'[h].last = handles[h].last
           /\ h[2] # w => handles'[h] = handles[h]
           /\ handles[h].at \in {"none", "open"} => handles'[h] = handles[h]
           /\ handles[h].at \in {"closing", "ending", "closed"} => handles'[h].at \in {"ending", "closed", "closing"}
  BY <1>6 DEF Fails, LostHandles
<1>8. \A q \in Store, v \in Worker :
        /\ Handle(q, v)'.last = Handle(q, v).last
        /\ v # w => Handle(q, v)' = Handle(q, v)
        /\ Handle(q, v).at \in {"none", "open"} => Handle(q, v)' = Handle(q, v)
        /\ Handle(q, v).at \in {"closing", "ending", "closed"} => Handle(q, v)'.at \in {"closing", "ending", "closed"}
        /\ Handle(q, v).at \in {"none", "open", "closing", "ending", "closed"}
  <2> SUFFICES ASSUME NEW q \in Store, NEW v \in Worker
               PROVE  /\ Handle(q, v)'.last = Handle(q, v).last
                      /\ v # w => Handle(q, v)' = Handle(q, v)
                      /\ Handle(q, v).at \in {"none", "open"} => Handle(q, v)' = Handle(q, v)
                      /\ Handle(q, v).at \in {"closing", "ending", "closed"} => Handle(q, v)'.at \in {"closing", "ending", "closed"}
                      /\ Handle(q, v).at \in {"none", "open", "closing", "ending", "closed"}
    OBVIOUS
  <2> DEFINE h == <<q, v>>
  <2>1. h \in Store \X Worker /\ h[2] = v /\ Handle(q, v) = handles[h] /\ Handle(q, v)' = handles'[h]
    BY DEF Handle
  <2> HIDE DEF h
  <2>2. QED
    BY <1>6, <1>7, <2>1
<1>9. \A v \in Worker : v # w => Behind(v)' = Behind(v) /\ \A i : Line(v, i)' = Line(v, i)
  BY <1>1, LineStays
<1>10. \A v \in Worker : \A i \in 1..Behind(v)' : i \in 1..Behind(v) /\ Line(v, i)' = Line(v, i)
  <2>1. CASE down
    <3>1. Behind(w)' \in 0..Behind(w) /\ \A i \in 1..Behind(w)' : Line(w, i)' = Line(w, i)
      BY <1>1, <2>1, LineCut DEF DatabaseInv
    <3>2. Behind(w) \in Nat
      BY WorkerFacts DEF DatabaseInv
    <3>3. QED
      BY <1>9, <3>1, <3>2
  <2>2. CASE ~down
    BY <1>1, <1>9, <2>2, LineStays
  <2>3. QED
    BY <2>1, <2>2
<1>11. /\ w # 0 /\ client \in Worker \cup {0} /\ executed \in [Request -> Nat]
       /\ stores \in [Store -> [dir : Dir, handle : Worker \cup {0}, closed : BOOLEAN]]
  BY DEF Worker, DatabaseInv, DatabaseTypeOK
<1>12. DatabaseTypeOK'
  BY <1>1, <1>2, <1>4, <1>7, <1>11 DEF DatabaseTypeOK
<1>13. WorkersOk'
  <2>1. ASSUME NEW v \in Worker, workers'[v].thread = "none"
        PROVE  Pristine(v)'
    <3>1. v # w /\ workers'[v] = workers[v] /\ v # 0
      BY <1>1, <2>1 DEF Worker
    <3>2. Pristine(v)
      BY <2>1, <3>1 DEF DatabaseInv, WorkersOk
    <3>3. client' # v
      BY <1>2, <3>1, <3>2 DEF Pristine
    <3>4. QED
      BY <1>8, <3>1, <3>2, <3>3 DEF Pristine
  <2>2. \A v \in Worker : workers'[v].thread = "down" => workers'[v].failed
    BY <1>1 DEF DatabaseInv, WorkersOk
  <2>3. \A v \in Worker : workers'[v].failed => workers'[v].ending
    BY <1>1 DEF DatabaseInv, WorkersOk
  <2>4. client' # 0 => workers'[client'].thread = "up" /\ ~workers'[client'].ending
    BY <1>1, <1>2, <1>11 DEF DatabaseInv, WorkersOk
  <2>5. QED
    BY <2>1, <2>2, <2>3, <2>4 DEF WorkersOk
<1>14. OwnersOk'
  <2>1. \A v \in Worker, d \in Dir : Holders(v, d)' = Holders(v, d)
    BY <1>2 DEF Holders, DirOf
  <2>2. QED
    BY <1>1, <2>1 DEF DatabaseInv, OwnersOk
<1>15. HandlesOk'
  <2>1. \A q \in Store, v \in Worker :
          /\ Handle(q, v)'.at = "open" <=> Handle(q, v).at = "open"
          /\ Handle(q, v)'.at \in {"closing", "ending", "closed"} <=> Handle(q, v).at \in {"closing", "ending", "closed"}
          /\ Handle(q, v)'.at \in {"none", "open"} <=> Handle(q, v).at \in {"none", "open"}
          /\ Handle(q, v)'.last = Handle(q, v).last
    <3> TAKE q \in Store, v \in Worker
    <3>1. CASE Handle(q, v).at \in {"none", "open"}
      BY <1>8, <3>1
    <3>2. CASE Handle(q, v).at \in {"closing", "ending", "closed"}
      BY <1>8, <3>2
    <3>3. QED
      BY <1>8, <3>1, <3>2
  <2>2. \A v \in Worker : workers[v].failed => workers'[v].failed
    BY <1>1
  <2>3. QED
    BY <1>2, <2>1, <2>2 DEF DatabaseInv, HandlesOk
<1>16. LastOk'
  <2> SUFFICES ASSUME NEW q \in Store, NEW v \in Worker, Handle(q, v)'.last
               PROVE  /\ workers'[v].owners = NoOwners /\ client' # v
                      /\ Handle(q, v)'.at = "closing" /\ ~workers'[v].failed =>
                           /\ Behind(v)' > 0
                           /\ \A i : i = Behind(v)' => Line(v, i)' = <<"close", q>>
    BY DEF LastOk, NoOwners
  <2>1. Handle(q, v).last /\ v # 0
    BY <1>8 DEF Worker
  <2>2. workers'[v].owners = NoOwners /\ client' # v
    BY <1>1, <1>2, <2>1 DEF DatabaseInv, LastOk
  <2>3. ASSUME Handle(q, v)'.at = "closing", ~workers'[v].failed
        PROVE  /\ Behind(v)' > 0
               /\ \A i : i = Behind(v)' => Line(v, i)' = <<"close", q>>
    <3>1. v # w
      BY <1>1, <2>3
    <3>2. Handle(q, v).at = "closing" /\ ~workers[v].failed
      BY <1>1, <1>8, <2>3, <3>1
    <3>3. QED
      BY <1>9, <2>1, <3>1, <3>2 DEF DatabaseInv, LastOk
  <2>4. QED
    BY <2>2, <2>3
<1>17. RequestsOk'
  <2> SUFFICES ASSUME NEW q \in Request
               PROVE  /\ requests'[q].told \notin {"no", "refused"} =>
                           requests'[q].store \in Store /\ requests'[q].worker \in Worker
                      /\ requests'[q].told \in {"unavailable", "notSent"} => workers'[requests'[q].worker].failed
                      /\ requests'[q].told = "posted" =>
                           /\ ~workers'[requests'[q].worker].failed
                           /\ \E i \in 1..Behind(requests[q].worker)' : Line(requests[q].worker, i)' = <<"ask", q>>
    BY <1>5 DEF RequestsOk
  <2>1. /\ requests[q].told \notin {"no", "refused"} =>
             requests[q].store \in Store /\ requests[q].worker \in Worker
        /\ requests[q].told \in {"unavailable", "notSent"} => workers[requests[q].worker].failed
        /\ requests[q].told = "posted" =>
             /\ ~workers[requests[q].worker].failed
             /\ \E i \in 1..Behind(requests[q].worker) : Line(requests[q].worker, i) = <<"ask", q>>
    BY DEF DatabaseInv, RequestsOk
  <2>2. CASE requests[q].told = "posted" /\ requests[q].worker = w
    BY <1>1, <1>5, <2>1, <2>2
  <2>3. CASE ~(requests[q].told = "posted" /\ requests[q].worker = w)
    <3>1. requests'[q].told = requests[q].told
      BY <1>5, <2>3
    <3>2. \A v \in Worker : workers[v].failed => workers'[v].failed
      BY <1>1
    <3>3. ASSUME requests[q].told = "posted"
          PROVE  /\ ~workers'[requests[q].worker].failed
                 /\ \E i \in 1..Behind(requests[q].worker)' : Line(requests[q].worker, i)' = <<"ask", q>>
      <4>1. requests[q].worker \in Worker /\ requests[q].worker # w
        BY <2>1, <2>3, <3>3
      <4>2. PICK v \in Worker : v = requests[q].worker /\ v = requests'[q].worker /\ v # w
        BY <1>5, <4>1
      <4>3. ~workers[v].failed /\ \E i \in 1..Behind(v) : Line(v, i) = <<"ask", q>>
        BY <2>1, <3>3, <4>2
      <4>4. ~workers'[v].failed /\ \E i \in 1..Behind(v)' : Line(v, i)' = <<"ask", q>>
        BY <1>1, <1>9, <4>2, <4>3
      <4>5. QED
        BY <4>2, <4>4
    <3>4. QED
      BY <1>5, <2>1, <3>1, <3>2, <3>3
  <2>4. QED
    BY <2>2, <2>3
<1>18. LineOk'
  <2> SUFFICES ASSUME NEW v \in Worker
               PROVE  /\ \A i, j \in 1..Behind(v)' : Line(v, i)' = Line(v, j)' => i = j
                      /\ \A i \in 1..Behind(v)', q \in Request : Line(v, i)' = <<"ask", q>> =>
                           requests'[q].worker = v /\ requests'[q].told \in {"posted", "unavailable"}
                      /\ \A i \in 1..Behind(v)', q \in Store : Line(v, i)' = <<"close", q>> =>
                           Handle(q, v)'.at \in {"closing", "ending", "closed"}
    BY DEF LineOk
  <2>1. \A i, j \in 1..Behind(v)' : Line(v, i)' = Line(v, j)' => i = j
    BY <1>10 DEF DatabaseInv, LineOk
  <2>2. \A i \in 1..Behind(v)', q \in Request : Line(v, i)' = <<"ask", q>> =>
          requests'[q].worker = v /\ requests'[q].told \in {"posted", "unavailable"}
    BY <1>5, <1>10 DEF DatabaseInv, LineOk
  <2>3. \A i \in 1..Behind(v)', q \in Store : Line(v, i)' = <<"close", q>> =>
          Handle(q, v)'.at \in {"closing", "ending", "closed"}
    BY <1>8, <1>10 DEF DatabaseInv, LineOk
  <2>4. QED
    BY <2>1, <2>2, <2>3
<1>19. ExecutedOk'
  <2>1. ToldTheTruth'
    BY <1>2, <1>5 DEF DatabaseInv, ExecutedOk, ToldTheTruth
  <2>2. ASSUME NEW v \in Worker, NEW i \in DOMAIN workers'[v].inbox, NEW q \in Request,
               workers'[v].inbox[i] = <<"ask", q>>
        PROVE  executed'[q] = 0
    <3>1. i \in DOMAIN workers[v].inbox /\ workers'[v].inbox[i] = workers[v].inbox[i]
      <4>1. workers'[v].inbox = workers[v].inbox \/ workers'[v].inbox = <<>>
        BY <1>1
      <4>2. workers'[v].inbox # <<>>
        BY <2>2
      <4>3. QED
        BY <2>2, <4>1, <4>2
    <3>2. QED
      BY <1>2, <2>2, <3>1 DEF DatabaseInv, ExecutedOk
  <2>3. \A v \in Worker : workers'[v].replies = workers[v].replies
    BY <1>1
  <2>4. QED
    BY <1>2, <2>1, <2>2, <2>3 DEF DatabaseInv, ExecutedOk
<1>20. EndsEmpty'
  <2> SUFFICES ASSUME failures' = 0
               PROVE  /\ \A v \in Worker : workers'[v].ending =>
                           /\ workers'[v].owners = NoOwners
                           /\ \A q \in Request : requests'[q].told = "posted" => requests'[q].worker # v
                      /\ \A q \in Request : requests'[q].told \notin {"unavailable", "notSent"}
    BY DEF EndsEmpty, OnlyFailuresLose, NoOwners
  <2>1. failures = 0 /\ workers[w].ending
    OBVIOUS
  <2>2. \A q \in Request : requests[q].told = "posted" => requests[q].worker # w
    BY <2>1 DEF DatabaseInv, EndsEmpty
  <2>3. \A q \in Request : requests'[q].told = requests[q].told /\ requests'[q].worker = requests[q].worker
    BY <1>5, <2>2
  <2>4. \A v \in Worker : workers'[v].ending => workers[v].ending
    BY <1>1, <2>1
  <2>5. QED
    BY <1>1, <2>1, <2>3, <2>4 DEF DatabaseInv, EndsEmpty, OnlyFailuresLose
<1>21. StaysForSomeone'
  <2> SUFFICES ASSUME NEW v \in Worker, workers'[v].thread = "up", ~workers'[v].ending
               PROVE  \/ workers'[v].owners # NoOwners
                      \/ \E q \in Store : Handle(q, v)'.at = "closing" /\ Handle(q, v)'.last
    BY DEF StaysForSomeone, NoOwners
  <2>1. v # w
    BY <1>1
  <2>2. QED
    BY <1>1, <1>8, <2>1 DEF DatabaseInv, StaysForSomeone
<1>22. QED
  BY <1>12, <1>13, <1>14, <1>15, <1>16, <1>17, <1>18, <1>19, <1>20, <1>21 DEF DatabaseInv

LEMMA FailStep ==
  ASSUME DatabaseInv, NEW w \in Worker, Fail(w)
  PROVE  DatabaseInv'
<1>1. PICK down \in BOOLEAN : Fails(w, down)
  BY DEF Fail
<1>2. failures \in 0..MaxFailures
  BY DEF DatabaseInv, DatabaseTypeOK
<1>3. failures' \in 0..MaxFailures /\ failures' # 0 /\ workers[w].thread = "up"
  BY <1>2 DEF Fail, DatabaseAssumption
<1>4. QED
  BY <1>1, <1>3, FailsStep

LEMMA ExitStep ==
  ASSUME DatabaseInv, NEW w \in Worker, Exit(w)
  PROVE  DatabaseInv'
<1>1. Fails(w, TRUE) /\ failures' = failures /\ workers[w].thread = "up" /\ workers[w].ending
  BY DEF Exit
<1>2. failures \in 0..MaxFailures
  BY DEF DatabaseInv, DatabaseTypeOK
<1>3. QED
  BY <1>1, <1>2, FailsStep

----------------------------------------------------------------------------

LEMMA DatabaseInitHolds ==
  ASSUME DatabaseInit
  PROVE  DatabaseInv
<1> DEFINE worker == [thread |-> "none", failed |-> FALSE, ending |-> FALSE,
                      owners |-> NoOwners, inbox |-> <<>>, replies |-> <<>>]
<1>1. /\ client = 0 /\ failures = 0
      /\ \A w \in Worker : workers[w] = worker
      /\ workers = [w \in Worker |-> worker]
  BY DEF DatabaseInit
<1>2. PICK dirs \in [Store -> Dir] : stores = [s \in Store |-> [dir |-> dirs[s], handle |-> 0, closed |-> FALSE]]
  BY DEF DatabaseInit
<1>3. /\ \A r \in Request : requests[r].told = "no" /\ executed[r] = 0
      /\ \A s \in Store, w \in Worker : Handle(s, w) = [at |-> "none", last |-> FALSE]
      /\ \A s \in Store : stores[s].handle = 0 /\ ~stores[s].closed
      /\ \A w \in Worker : w # 0
  BY <1>2 DEF DatabaseInit, Handle, Worker
<1>4. worker \in Thread
  BY DEF Thread, NoOwners
<1>5. \A w \in Worker : Behind(w) = 0
  BY <1>1 DEF Behind
<1>6. DatabaseTypeOK
  <2>1. workers \in [Worker -> Thread]
    BY <1>1, <1>4
  <2>2. 0 \in 0..MaxFailures
    BY DEF DatabaseAssumption
  <2>3. QED
    BY <1>1, <1>2, <2>1, <2>2 DEF DatabaseInit, DatabaseTypeOK, Told
<1>7. WorkersOk
  BY <1>1, <1>3 DEF WorkersOk, Pristine
<1>8. OwnersOk
  <2> SUFFICES ASSUME NEW w \in Worker, NEW d \in Dir
               PROVE  IsFiniteSet(Holders(w, d)) /\ workers[w].owners[d] = Cardinality(Holders(w, d))
    BY DEF OwnersOk
  <2>1. Holders(w, d) = {}
    BY <1>3 DEF Holders
  <2>2. workers[w].owners[d] = 0
    BY <1>1 DEF NoOwners
  <2>3. QED
    BY <2>1, <2>2, FS_EmptySet
<1>9. HandlesOk
  BY <1>3 DEF HandlesOk
<1>10. LastOk
  BY <1>3 DEF LastOk
<1>11. RequestsOk
  BY <1>3 DEF RequestsOk
<1>12. LineOk
  BY <1>5 DEF LineOk
<1>13. ExecutedOk
  BY <1>1, <1>3 DEF ExecutedOk, ToldTheTruth
<1>14. EndsEmpty
  BY <1>1, <1>3 DEF EndsEmpty, OnlyFailuresLose
<1>15. StaysForSomeone
  BY <1>1 DEF StaysForSomeone
<1>16. QED
  BY <1>6, <1>7, <1>8, <1>9, <1>10, <1>11, <1>12, <1>13, <1>14, <1>15 DEF DatabaseInv

LEMMA StutterStep ==
  ASSUME DatabaseInv, UNCHANGED databaseVars
  PROVE  DatabaseInv'
<1>1. Aside
  <2>1. \A q \in Store : stores[q].closed => stores[q].handle = 0
    BY DEF DatabaseInv, HandlesOk
  <2>2. QED
    BY <2>1 DEF DatabaseInv, DatabaseTypeOK, databaseVars, Aside
<1>2. QED
  BY <1>1, AsideStep

LEMMA DatabaseStepHolds ==
  ASSUME DatabaseInv, [DatabaseNext]_databaseVars
  PROVE  DatabaseInv'
<1>1. CASE \E s \in Store, r \in Request : Ask(s, r) \/ AskTooLate(s, r)
  BY <1>1, AskStep, AskTooLateStep
<1>2. CASE \E s \in Store : CloseStore(s)
  BY <1>2, CloseStoreStep
<1>3. CASE \E r \in Request : Catch(r)
  BY <1>3, CatchStep
<1>4. CASE \E w \in Worker : Reply(w) \/ Run(w) \/ Fail(w) \/ Exit(w)
  BY <1>4, ReplyStep, RunStep, FailStep, ExitStep
<1>5. CASE UNCHANGED databaseVars
  BY <1>5, StutterStep
<1>6. QED
  BY <1>1, <1>2, <1>3, <1>4, <1>5 DEF DatabaseNext

LEMMA IInvTells ==
  ASSUME DatabaseInv
  PROVE  RequestsAreTold
<1>1. WorkersFollowOwners
  <2>1. ASSUME \A s \in Store : stores[s].closed,
               \A h \in Store \X Worker : handles[h].at \in {"none", "closed"},
               NEW w \in Worker, workers[w].thread = "up", ~workers[w].ending
        PROVE  FALSE
    <3>1. \A s \in Store : Handle(s, w).at # "closing"
      BY <2>1 DEF Handle
    <3>2. workers[w].owners # NoOwners
      BY <2>1, <3>1 DEF DatabaseInv, StaysForSomeone
    <3>3. \A d \in Dir : Holders(w, d) = {}
      BY <2>1 DEF DatabaseInv, HandlesOk, Holders, Worker
    <3>4. \A d \in Dir : workers[w].owners[d] = 0
      BY <3>3, FS_EmptySet DEF DatabaseInv, OwnersOk
    <3>5. workers[w].owners \in [Dir -> Nat]
      BY WorkerFacts DEF DatabaseInv
    <3>6. QED
      BY <3>2, <3>4, <3>5 DEF NoOwners
  <2>2. failures = 0 => \A w \in Worker : workers[w].ending => workers[w].owners = NoOwners
    BY DEF DatabaseInv, EndsEmpty
  <2>3. QED
    BY <2>1, <2>2 DEF WorkersFollowOwners
<1>2. QED
  BY <1>1 DEF RequestsAreTold, DatabaseInv, ExecutedOk, EndsEmpty

(* Whatever the stores ask and close and whenever workers fail: a caller is *)
(* told the truth about what was committed, nothing is lost unless a worker *)
(* failed, and a worker lives exactly as long as it has owners              *)
(* (notes/database-client.ts, notes/findings.ts).                           *)
THEOREM CallersAreToldTheTruth == DatabaseSpec => []RequestsAreTold
<1>1. DatabaseInv /\ [DatabaseNext]_databaseVars => DatabaseInv'
  BY DatabaseStepHolds
<1>2. DatabaseInit => DatabaseInv
  BY DatabaseInitHolds
<1>3. DatabaseInv => RequestsAreTold
  BY IInvTells
<1>4. QED
  BY <1>1, <1>2, <1>3, PTL DEF DatabaseSpec

\* A request that was not answered yet stands in the line of a worker that
\* has not failed, so that its answer or the loss of the worker will settle it.
PostedIsUnderWay ==
  \A r \in Request : requests[r].told = "posted" =>
    /\ ~workers[requests[r].worker].failed
    /\ \E i \in 1..Behind(requests[r].worker) : Line(requests[r].worker, i) = <<"ask", r>>

(* No request is forgotten: there is always something that will settle it.  *)
THEOREM NoRequestIsForgotten == DatabaseSpec => []PostedIsUnderWay
<1>1. DatabaseInv /\ [DatabaseNext]_databaseVars => DatabaseInv'
  BY DatabaseStepHolds
<1>2. DatabaseInit => DatabaseInv
  BY DatabaseInitHolds
<1>3. DatabaseInv => PostedIsUnderWay
  BY DEF DatabaseInv, RequestsOk, PostedIsUnderWay
<1>4. QED
  BY <1>1, <1>2, <1>3, PTL DEF DatabaseSpec

-----------------------------------------------------------------------------
\* Part 2: the admission of requests to providers.

USE AdmissionAssumption

Key == Pool \X Provider

\* The calls of bucket k that stand at one of the states S.
In(k, st, at, S) == {c \in Call : st[c] \in S /\ <<at[c], ProviderOf[c]>> = k}

Waiting(k) == In(k, status, pool, {"queued"})
Holding(k) == In(k, status, pool, {"granted", "held"})

Distinct(q) == \A i, j \in DOMAIN q : q[i] = q[j] => i = j

\* What holds of a bucket by itself between two steps.
Settled(b) ==
  /\ b.present <=> (b.active > 0 \/ b.queue # <<>>)
  /\ b.queue # <<>> => limit > 0 /\ b.active = limit
  /\ limit > 0 => b.active <= limit
  /\ Distinct(b.queue)

\* The bucket's books and the calls that are in them.
BucketOk(k) ==
  /\ Settled(buckets[k])
  /\ buckets[k].active = Cardinality(Holding(k))
  /\ Range(buckets[k].queue) = Waiting(k)

Owners == {r \in Runtime : attached[r] # None}

\* There is one pool at a time: every instance has the one in the map, and a
\* pool with permits out stays in the map.
OnePool ==
  /\ IsFiniteSet(Owners)
  /\ owners = Cardinality(Owners)
  /\ \A r \in Owners : attached[r] = entry
  /\ \A p \in Pool : Busy(p) => p = entry

InPool == \A c \in Call : status[c] \in {"queued", "granted", "held"} => pool[c] \in Pool

\* A registration is found under the ID of its own attempt.
OwnAttempt ==
  \A p \in Pool, id \in AttemptID : attempts[p][id] # None => AttemptOf[attempts[p][id]] = id

AdmissionInv ==
  /\ TypeOK
  /\ InPool
  /\ OnePool
  /\ \A k \in Key : BucketOk(k)
  /\ RegistrationsHoldPermits
  /\ OwnAttempt

----------------------------------------------------------------------------
(* Sequences: what it is to take one element out of a queue.               *)

LEMMA RemoveAtElements ==
  ASSUME NEW S, NEW s \in Seq(S), NEW i \in 1..Len(s)
  PROVE  /\ RemoveAt(s, i) \in Seq(S)
         /\ Len(RemoveAt(s, i)) = Len(s) - 1
         /\ \A j \in 1..Len(s)-1 : RemoveAt(s, i)[j] = IF j < i THEN s[j] ELSE s[j+1]
<1> DEFINE left == SubSeq(s, 1, i-1)
           right == SubSeq(s, i+1, Len(s))
<1>1. \A j \in 1..Len(s) : s[j] \in S
  BY ElementOfSeq
<1>2. Len(s) \in Nat /\ i \in Int /\ 1 <= i /\ i <= Len(s)
  BY LenProperties
<1>3. /\ left \in Seq(S)
      /\ Len(left) = i-1
      /\ \A j \in 1..i-1 : left[j] = s[j]
  <2>1. \A j \in 1..i-1 : s[j] \in S
    BY <1>1, <1>2
  <2>2. /\ left \in Seq(S)
        /\ Len(left) = IF 1 <= i-1 THEN (i-1)-1+1 ELSE 0
        /\ \A j \in 1..(i-1)-1+1 : left[j] = s[1+j-1]
    BY <2>1, <1>2, SubSeqProperties
  <2>3. QED
    BY <2>2, <1>2
<1>4. /\ right \in Seq(S)
      /\ Len(right) = Len(s) - i
      /\ \A j \in 1..Len(s)-i : right[j] = s[i+j]
  <2>1. \A j \in i+1..Len(s) : s[j] \in S
    BY <1>1, <1>2
  <2>2. /\ right \in Seq(S)
        /\ Len(right) = IF i+1 <= Len(s) THEN Len(s)-(i+1)+1 ELSE 0
        /\ \A j \in 1..Len(s)-(i+1)+1 : right[j] = s[(i+1)+j-1]
    BY <2>1, <1>2, SubSeqProperties
  <2>3. QED
    BY <2>2, <1>2
<1> HIDE DEF left, right
<1>5. /\ left \o right \in Seq(S)
      /\ Len(left \o right) = Len(left) + Len(right)
      /\ \A j \in 1..Len(left) + Len(right) : (left \o right)[j] =
            IF j <= Len(left) THEN left[j] ELSE right[j - Len(left)]
  <2>1. left \in Seq(S) /\ right \in Seq(S)
    BY <1>3, <1>4
  <2>2. QED
    BY <2>1, ConcatProperties
<1>6. ASSUME NEW j \in 1..Len(s)-1
      PROVE  (left \o right)[j] = IF j < i THEN s[j] ELSE s[j+1]
  <2>1. CASE j < i
    BY <2>1, <1>2, <1>3, <1>4, <1>5
  <2>2. CASE j >= i
    <3>1. (left \o right)[j] = right[j - (i-1)]
      BY <2>2, <1>2, <1>3, <1>4, <1>5
    <3>2. j - (i-1) \in 1..Len(s)-i
      BY <2>2, <1>2
    <3>3. right[j - (i-1)] = s[i + (j - (i-1))]
      BY <3>2, <1>4
    <3>4. i + (j - (i-1)) = j+1
      BY <1>2
    <3>5. QED
      BY <2>2, <1>2, <3>1, <3>3, <3>4
  <2>3. j < i \/ j >= i
    BY <1>2
  <2>4. QED
    BY <2>1, <2>2, <2>3
<1>7. RemoveAt(s, i) = left \o right
  BY DEF RemoveAt, left, right
<1>8. QED
  BY <1>2, <1>3, <1>4, <1>5, <1>6, <1>7

\* Taking one call out of a queue takes out that call and no other.
LEMMA RemoveAtRange ==
  ASSUME NEW q \in Seq(Call), Distinct(q), NEW i \in 1..Len(q)
  PROVE  /\ RemoveAt(q, i) \in Seq(Call)
         /\ Distinct(RemoveAt(q, i))
         /\ Range(RemoveAt(q, i)) = Range(q) \ {q[i]}
         /\ Len(RemoveAt(q, i)) = Len(q) - 1
<1> DEFINE t == RemoveAt(q, i)
           At(j) == IF j < i THEN j ELSE j + 1
<1>1. /\ t \in Seq(Call)
      /\ Len(t) = Len(q) - 1
      /\ \A j \in 1..Len(q)-1 : t[j] = IF j < i THEN q[j] ELSE q[j+1]
  BY RemoveAtElements
<1>2. /\ Len(q) \in Nat /\ DOMAIN q = 1..Len(q) /\ DOMAIN t = 1..Len(q)-1
      /\ i \in Int /\ 1 <= i /\ i <= Len(q)
  BY <1>1, LenProperties
<1>3. \A j \in DOMAIN t : t[j] = q[At(j)] /\ At(j) \in DOMAIN q /\ At(j) # i
  BY <1>1, <1>2
<1>4. \A j, k \in DOMAIN t : At(j) = At(k) => j = k
  BY <1>2
<1>5. \A m \in DOMAIN q : m # i => \E j \in DOMAIN t : At(j) = m
  <2> TAKE m \in DOMAIN q
  <2> HAVE m # i
  <2>1. CASE m < i
    <3>1. m \in DOMAIN t /\ At(m) = m
      BY <2>1, <1>2
    <3>2. QED
      BY <3>1
  <2>2. CASE m > i
    <3>1. m-1 \in DOMAIN t /\ At(m-1) = m
      BY <2>2, <1>2
    <3>2. QED
      BY <3>1
  <2>3. QED
    BY <2>1, <2>2, <1>2
<1> HIDE DEF t, At
<1>6. Distinct(t)
  BY <1>3, <1>4 DEF Distinct
<1>7. Range(t) = Range(q) \ {q[i]}
  BY <1>2, <1>3, <1>5 DEF Range, Distinct
<1>8. QED
  BY <1>1, <1>6, <1>7 DEF t

LEMMA WithoutRange ==
  ASSUME NEW q \in Seq(Call), Distinct(q), NEW c \in Range(q)
  PROVE  /\ Without(q, c) \in Seq(Call)
         /\ Distinct(Without(q, c))
         /\ Range(Without(q, c)) = Range(q) \ {c}
<1> DEFINE i == CHOOSE j \in DOMAIN q : q[j] = c
<1>1. i \in DOMAIN q /\ q[i] = c
  BY DEF Range
<1>2. i \in 1..Len(q)
  BY <1>1, LenProperties
<1> HIDE DEF i
<1>3. QED
  BY <1>1, <1>2, RemoveAtRange DEF Without, i

\* The same for a call that joins one.
LEMMA AppendRange ==
  ASSUME NEW q \in Seq(Call), Distinct(q), NEW c \in Call, c \notin Range(q)
  PROVE  /\ Append(q, c) \in Seq(Call)
         /\ Distinct(Append(q, c))
         /\ Range(Append(q, c)) = Range(q) \cup {c}
         /\ Len(Append(q, c)) = Len(q) + 1
<1> DEFINE t == Append(q, c)
<1>1. /\ t \in Seq(Call) /\ Len(t) = Len(q) + 1 /\ Len(q) \in Nat
      /\ DOMAIN q = 1..Len(q) /\ DOMAIN t = 1..Len(q)+1
      /\ \A j \in 1..Len(q) : t[j] = q[j]
      /\ t[Len(q)+1] = c
  BY LenProperties, AppendProperties
<1> HIDE DEF t
<1>2. \A j \in DOMAIN t : j \in DOMAIN q \/ j = Len(q)+1
  BY <1>1
<1>3. Range(t) = Range(q) \cup {c}
  <2>1. Range(t) \subseteq Range(q) \cup {c}
    BY <1>1, <1>2 DEF Range
  <2>2. Range(q) \subseteq Range(t)
    BY <1>1 DEF Range
  <2>3. c \in Range(t)
    <3>1. Len(q)+1 \in DOMAIN t
      BY <1>1
    <3>2. QED
      BY <3>1, <1>1 DEF Range
  <2>4. QED
    BY <2>1, <2>2, <2>3
<1>4. Distinct(t)
  BY <1>1, <1>2 DEF Range, Distinct
<1>5. QED
  BY <1>1, <1>3, <1>4 DEF t

----------------------------------------------------------------------------
(* The bucket's loop.                                                      *)

LEMMA LeastOfNaturals ==
  ASSUME NEW T \in SUBSET Nat, T # {}
  PROVE  \E i \in T : \A j \in T : i <= j
<1> DEFINE R == OpToRel(<, Nat)
<1>1. IsWellFoundedOn(R, Nat)
  BY NatLessThanWellFounded
<1>2. PICK i \in T : \A j \in T : <<j, i>> \notin R
  BY <1>1, WFMin
<1>3. \A j \in T : <<j, i>> \in R <=> j < i
  BY DEF OpToRel
<1>4. ASSUME NEW j \in T
      PROVE  i <= j
  <2>1. ~(j < i) /\ i \in Nat /\ j \in Nat
    BY <1>2, <1>3
  <2>2. QED
    BY <2>1
<1>5. QED
  BY <1>4

LEMMA NextWaiterStands ==
  ASSUME NEW b \in Bucket, b.queue # <<>>
  PROVE  NextWaiter(b) \in 1..Len(b.queue)
<1> DEFINE others == {i \in DOMAIN b.queue : RootOf[b.queue[i]] # b.lastRoot}
<1>1. Len(b.queue) \in Nat /\ Len(b.queue) # 0 /\ DOMAIN b.queue = 1..Len(b.queue)
  BY LenProperties, EmptySeq DEF Bucket
<1>2. NextWaiter(b) = IF others = {} THEN 1 ELSE CHOOSE i \in others : \A j \in others : i <= j
  BY DEF NextWaiter
<1>3. others \subseteq 1..Len(b.queue)
  BY <1>1
<1> HIDE DEF others
<1>4. CASE others = {}
  BY <1>1, <1>2, <1>4
<1>5. CASE others # {}
  <2>1. \E i \in others : \A j \in others : i <= j
    BY <1>3, <1>5, LeastOfNaturals
  <2>2. NextWaiter(b) \in others
    BY <1>2, <1>5, <2>1
  <2>3. QED
    BY <1>3, <2>2
<1>6. QED
  BY <1>4, <1>5

\* When the loop is entered, one turn of it is enough.
OneTurn(b) ==
  /\ b \in Bucket
  /\ b.present
  /\ Distinct(b.queue)
  /\ limit > 0 => b.active <= limit
  /\ Len(b.queue) > 1 => limit > 0 /\ b.active + 1 >= limit

LEMMA DrainedBucket ==
  ASSUME NEW b, OneTurn(b)
  PROVE  /\ Drained(b) \in Bucket
         /\ Settled(Drained(b))
         /\ Range(Drained(b).queue) = Range(b.queue) \ Granted(b)
         /\ \/ Granted(b) = {} /\ Drained(b).active = b.active
            \/ \E c \in Range(b.queue) : Granted(b) = {c} /\ Drained(b).active = b.active + 1
<1>1. /\ b \in Bucket /\ b.active \in Nat /\ b.queue \in Seq(Call) /\ b.lastRoot \in Root \cup {None}
      /\ Len(b.queue) \in Nat /\ limit \in Nat /\ DOMAIN b.queue = 1..Len(b.queue)
      /\ Distinct(b.queue)
  BY LenProperties DEF OneTurn, Bucket
<1>2. CASE Granted(b) = {}
  <2>1. Drained(b) = Cleaned(b)
    BY <1>2 DEF Drained
  <2>2. CASE b.active = 0 /\ b.queue = <<>>
    <3>1. Drained(b) = NoBucket
      BY <2>1, <2>2 DEF Cleaned
    <3>2. /\ NoBucket \in Bucket /\ NoBucket.active = 0 /\ NoBucket.queue = <<>>
          /\ NoBucket.present = FALSE
      BY DEF NoBucket, Bucket
    <3>3. Distinct(<<>>) /\ Range(<<>>) = {}
      BY DEF Distinct, Range
    <3>4. QED
      BY <1>1, <1>2, <2>2, <3>1, <3>2, <3>3 DEF Settled
  <2>3. CASE ~(b.active = 0 /\ b.queue = <<>>)
    <3>1. Drained(b) = b
      BY <2>1, <2>3 DEF Cleaned
    <3>2. b.queue # <<>> => limit > 0 /\ b.active = limit
      <4> HAVE b.queue # <<>>
      <4>1. ~HasRoom(b)
        BY <1>2 DEF Granted
      <4>2. limit # 0 /\ ~(b.active < limit)
        BY <4>1 DEF HasRoom
      <4>3. QED
        BY <1>1, <4>2 DEF OneTurn
    <3>3. Settled(b)
      BY <1>1, <2>3, <3>2 DEF Settled, OneTurn
    <3>4. QED
      BY <1>1, <1>2, <3>1, <3>3
  <2>4. QED
    BY <2>2, <2>3
<1>3. CASE Granted(b) # {}
  <2> DEFINE i == NextWaiter(b)
             d == Drained(b)
  <2>1. b.queue # <<>> /\ HasRoom(b) /\ Granted(b) = {b.queue[i]}
    BY <1>3 DEF Granted
  <2>2. i \in 1..Len(b.queue)
    BY <1>1, <2>1, NextWaiterStands
  <2>3. d = [b EXCEPT !.active = b.active + 1, !.lastRoot = RootOf[b.queue[i]],
                      !.queue = RemoveAt(b.queue, i)]
    BY <1>3 DEF Drained
  <2> HIDE DEF d, i
  <2>4. /\ RemoveAt(b.queue, i) \in Seq(Call)
        /\ Distinct(RemoveAt(b.queue, i))
        /\ Range(RemoveAt(b.queue, i)) = Range(b.queue) \ {b.queue[i]}
        /\ Len(RemoveAt(b.queue, i)) = Len(b.queue) - 1
    BY <1>1, <2>2, RemoveAtRange
  <2>5. b.queue[i] \in Call /\ RootOf[b.queue[i]] \in Root /\ b.queue[i] \in Range(b.queue)
    BY <1>1, <2>2, ElementOfSeq DEF Root, Range
  <2>6. /\ d \in Bucket /\ d.active = b.active + 1 /\ d.queue = RemoveAt(b.queue, i)
        /\ d.present = b.present
    <3> DEFINE root == RootOf[b.queue[i]]
               rest == RemoveAt(b.queue, i)
    <3>1. root \in Root \cup {None} /\ rest \in Seq(Call) /\ b.active + 1 \in Nat
      BY <1>1, <2>4, <2>5
    <3>2. d = [b EXCEPT !.active = b.active + 1, !.lastRoot = root, !.queue = rest]
      BY <2>3
    <3> HIDE DEF root, rest
    <3>3. QED
      BY <1>1, <3>1, <3>2 DEF Bucket, rest
  <2>7. limit > 0 => b.active + 1 <= limit
    BY <1>1, <2>1 DEF HasRoom
  <2>8. d.queue # <<>> => limit > 0 /\ b.active + 1 = limit
    <3> HAVE d.queue # <<>>
    <3>1. Len(d.queue) \in Nat \ {0}
      BY <2>4, <2>6, EmptySeq
    <3>2. Len(b.queue) > 1
      BY <1>1, <2>4, <2>6, <3>1
    <3>3. QED
      BY <1>1, <2>7, <3>2 DEF OneTurn
  <2>9. Settled(d)
    BY <1>1, <2>4, <2>6, <2>7, <2>8 DEF Settled, OneTurn
  <2>10. QED
    BY <2>1, <2>4, <2>5, <2>6, <2>9 DEF d
<1>4. QED
  BY <1>2, <1>3

----------------------------------------------------------------------------
(* A call's step through the loop.                                         *)

Live == {"queued", "granted", "held"}

LEMMA KeyOfLive ==
  ASSUME AdmissionInv, NEW c \in Call, status[c] \in Live
  PROVE  /\ BucketOf(c) \in Key
         /\ BucketOf(c)[1] = pool[c] /\ BucketOf(c)[2] = ProviderOf[c]
         /\ pool[c] \in Pool
         /\ Busy(pool[c])
         /\ entry = pool[c]
<1>1. pool[c] \in Pool /\ ProviderOf[c] \in Provider
  BY DEF AdmissionInv, InPool, Live
<1>2. BucketOf(c) \in Key
  BY <1>1 DEF BucketOf, Key
<1> DEFINE k == BucketOf(c)
<1>3. BucketOk(k)
  BY <1>2 DEF AdmissionInv
<1>4. buckets[k].present
  <2>1. buckets[k] \in Bucket
    BY <1>2 DEF AdmissionInv, TypeOK, Key
  <2>2. CASE status[c] = "queued"
    <3>1. c \in Range(buckets[k].queue)
      BY <1>3, <2>2 DEF BucketOk, Waiting, In, BucketOf
    <3>2. buckets[k].queue # <<>>
      BY <3>1 DEF Range
    <3>3. QED
      BY <1>3, <3>2 DEF BucketOk, Settled
  <2>3. CASE status[c] \in {"granted", "held"}
    <3>1. c \in Holding(k)
      BY <2>3 DEF Holding, In, BucketOf
    <3>2. IsFiniteSet(Holding(k))
      BY FS_Subset DEF Holding, In
    <3>3. Cardinality(Holding(k)) # 0
      BY <3>1, <3>2, FS_EmptySet
    <3>4. buckets[k].active > 0
      BY <1>3, <2>1, <3>3 DEF BucketOk, Bucket
    <3>5. QED
      BY <1>3, <3>4 DEF BucketOk, Settled
  <2>4. QED
    BY <2>2, <2>3 DEF Live
<1>5. Busy(pool[c])
  BY <1>1, <1>4 DEF Busy, BucketOf
<1>6. QED
  BY <1>1, <1>2, <1>5 DEF AdmissionInv, OnePool, BucketOf

\* What a step leaves behind that puts bucket b of key back drained, when st
\* is where the calls stand before a waiter is served.
Books(key, b, st, at) ==
  /\ b.active = Cardinality(In(key, st, at, {"granted", "held"}))
  /\ Range(b.queue) = In(key, st, at, {"queued"})
  /\ \A k \in Key : k # key =>
        /\ In(k, st, at, {"granted", "held"}) = Holding(k)
        /\ In(k, st, at, {"queued"}) = Waiting(k)

DrainStep(key, b, st) ==
  /\ key \in Key
  /\ st \in [Call -> Status]
  /\ OneTurn(b)
  /\ Drain(key, b, st)
  /\ UNCHANGED <<owners, attached>>
  /\ pool' \in [Call -> Pool \cup {None}]
  /\ \A c \in Call : st[c] \in Live => pool'[c] \in Pool
  /\ Books(key, b, st, pool')
  /\ entry = key[1]

LEMMA DrainKeeps ==
  ASSUME AdmissionInv, NEW key, NEW b, NEW st, DrainStep(key, b, st)
  PROVE  /\ buckets' \in [Pool \X Provider -> Bucket]
         /\ status' \in [Call -> Status]
         /\ entry' \in Pool \cup {None}
         /\ InPool' /\ OnePool'
         /\ \A k \in Key : BucketOk(k)'
         /\ \A c \in Call : st[c] # "queued" => status'[c] = st[c]
<1> USE DEF DrainStep
<1> DEFINE d == Drained(b)
<1>1. /\ d \in Bucket
      /\ Settled(d)
      /\ Range(d.queue) = Range(b.queue) \ Granted(b)
      /\ \/ Granted(b) = {} /\ d.active = b.active
         \/ \E c \in Range(b.queue) : Granted(b) = {c} /\ d.active = b.active + 1
  BY DrainedBucket
<1> HIDE DEF d
<1>2. /\ buckets' = [buckets EXCEPT ![key] = d]
      /\ status' = [c \in Call |-> IF c \in Granted(b) THEN "granted" ELSE st[c]]
      /\ entry' = IF /\ entry = key[1] /\ owners = 0
                     /\ \A v \in Provider : ~buckets'[<<key[1], v>>].present
                  THEN None
                  ELSE entry
  BY DEF Drain, d
<1>3. /\ buckets \in [Key -> Bucket] /\ entry \in Pool \cup {None} /\ key[1] \in Pool
      /\ owners \in Nat /\ attached \in [Runtime -> Pool \cup {None}]
  BY DEF AdmissionInv, TypeOK, Key
<1>4. buckets' \in [Key -> Bucket] /\ buckets'[key] = d /\ \A k \in Key : k # key => buckets'[k] = buckets[k]
  BY <1>1, <1>2, <1>3
<1>5. status' \in [Call -> Status]
  BY <1>2 DEF Status
<1>6. entry' \in Pool \cup {None}
  BY <1>2, <1>3
<1>7. Granted(b) \subseteq Range(b.queue)
  BY <1>1
<1>8. \A c \in Granted(b) : c \in Call /\ st[c] = "queued" /\ <<pool'[c], ProviderOf[c]>> = key
  BY <1>7 DEF Books, In
<1>9. \A c \in Call : st[c] # "queued" => status'[c] = st[c]
  BY <1>2, <1>8
<1>10. InPool'
  <2>1. ASSUME NEW c \in Call, status'[c] \in {"queued", "granted", "held"}
        PROVE  pool'[c] \in Pool
    <3>1. CASE c \in Granted(b)
      BY <1>8, <3>1 DEF Live
    <3>2. CASE c \notin Granted(b)
      BY <1>2, <2>1, <3>2 DEF Live
    <3>3. QED
      BY <3>1, <3>2
  <2>2. QED
    BY <2>1 DEF InPool
<1>11. ASSUME NEW k \in Key
       PROVE  BucketOk(k)'
  <2> DEFINE held == In(k, st, pool', {"granted", "held"})
             waits == In(k, st, pool', {"queued"})
             granted == {c \in Granted(b) : k = key}
  <2>1. Holding(k)' = held \cup granted
    BY <1>2, <1>8, <1>7 DEF Holding, In
  <2>2. Waiting(k)' = waits \ granted
    BY <1>2, <1>8, <1>7 DEF Waiting, In
  <2>3. CASE k # key
    <3>1. Holding(k)' = Holding(k) /\ Waiting(k)' = Waiting(k)
      BY <2>1, <2>2, <2>3 DEF Books
    <3>2. BucketOk(k) /\ buckets'[k] = buckets[k]
      BY <1>4, <2>3 DEF AdmissionInv
    <3>3. QED
      BY <3>1, <3>2 DEF BucketOk, Settled, Distinct
  <2>4. CASE k = key
    <3>1. IsFiniteSet(held)
      BY FS_Subset DEF In
    <3>2. b.active = Cardinality(held) /\ Range(b.queue) = waits
      BY <2>4 DEF Books
    <3>3. granted = Granted(b)
      BY <2>4
    <3>4. d.active = Cardinality(Holding(k)')
      <4>1. CASE Granted(b) = {}
        <5>1. Holding(k)' = held
          BY <2>1, <3>3, <4>1
        <5>2. d.active = b.active
          BY <1>1, <4>1
        <5>3. QED
          BY <3>2, <5>1, <5>2
      <4>2. ASSUME NEW c \in Range(b.queue), Granted(b) = {c}, d.active = b.active + 1
            PROVE  d.active = Cardinality(Holding(k)')
        <5>1. Holding(k)' = held \cup {c}
          BY <2>1, <3>3, <4>2
        <5>2. c \notin held
          BY <1>8, <4>2 DEF In
        <5>3. Cardinality(held \cup {c}) = Cardinality(held) + 1
          BY <3>1, <5>2, FS_AddElement
        <5>4. QED
          BY <3>2, <4>2, <5>1, <5>3
      <4>3. QED
        BY <1>1, <4>1, <4>2
    <3>5. Range(d.queue) = Waiting(k)'
      BY <1>1, <2>2, <3>2, <3>3
    <3>6. buckets'[k] = d
      BY <1>4, <2>4
    <3>7. Settled(buckets[k])'
      BY <1>1, <3>6 DEF Settled, Distinct
    <3>8. QED
      BY <3>4, <3>5, <3>6, <3>7 DEF BucketOk
  <2>5. QED
    BY <2>3, <2>4
<1>12. OnePool'
  <2>1. Owners' = Owners
    BY DEF Owners
  <2>2. /\ IsFiniteSet(Owners) /\ owners = Cardinality(Owners)
        /\ \A r \in Owners : attached[r] = entry
        /\ \A p \in Pool : Busy(p) => p = entry
    BY DEF AdmissionInv, OnePool
  <2>3. ASSUME NEW p \in Pool, Busy(p)', p # key[1]
        PROVE  FALSE
    <3>1. PICK v \in Provider : buckets'[<<p, v>>].present
      BY <2>3 DEF Busy
    <3>2. <<p, v>> \in Key /\ <<p, v>> # key
      BY <2>3 DEF Key
    <3>3. buckets[<<p, v>>].present
      BY <1>4, <3>1, <3>2
    <3>4. QED
      BY <2>2, <2>3, <3>3 DEF Busy
  <2>4. CASE entry' = entry
    <3>1. \A p \in Pool : Busy(p)' => p = entry'
      BY <2>3, <2>4
    <3>2. QED
      BY <2>1, <2>2, <2>4, <3>1 DEF OnePool
  <2>5. CASE entry' # entry
    <3>1. owners = 0 /\ \A v \in Provider : ~buckets'[<<key[1], v>>].present
      BY <1>2, <2>5
    <3>2. Owners = {}
      BY <2>2, <3>1, FS_EmptySet
    <3>3. \A p \in Pool : ~Busy(p)'
      BY <2>3, <3>1 DEF Busy
    <3>4. QED
      BY <2>1, <2>2, <3>2, <3>3 DEF OnePool
  <2>6. QED
    BY <2>4, <2>5
<1>13. QED
  BY <1>4, <1>5, <1>6, <1>9, <1>10, <1>11, <1>12 DEF Key

----------------------------------------------------------------------------
(* The actions.                                                            *)

LEMMA BucketFacts ==
  ASSUME AdmissionInv, NEW k \in Key
  PROVE  /\ buckets[k] \in Bucket /\ buckets[k].active \in Nat /\ buckets[k].queue \in Seq(Call)
         /\ buckets[k].lastRoot \in Root \cup {None} /\ buckets[k].present \in BOOLEAN
         /\ Len(buckets[k].queue) \in Nat
         /\ Settled(buckets[k]) /\ Distinct(buckets[k].queue)
         /\ IsFiniteSet(Holding(k)) /\ buckets[k].active = Cardinality(Holding(k))
         /\ Range(buckets[k].queue) = Waiting(k)
<1>1. buckets[k] \in Bucket /\ BucketOk(k)
  BY DEF AdmissionInv, TypeOK, Key
<1>2. /\ buckets[k].active \in Nat /\ buckets[k].queue \in Seq(Call)
      /\ buckets[k].lastRoot \in Root \cup {None} /\ buckets[k].present \in BOOLEAN
  BY <1>1 DEF Bucket
<1>3. Len(buckets[k].queue) \in Nat
  BY <1>2, LenProperties
<1>4. IsFiniteSet(Holding(k))
  BY FS_Subset DEF Holding, In
<1>5. QED
  BY <1>1, <1>2, <1>3, <1>4 DEF BucketOk, Settled

\* A queue that is not empty has a length.
LEMMA LongQueue ==
  ASSUME AdmissionInv, NEW k \in Key, Len(buckets[k].queue) > 0
  PROVE  limit > 0 /\ buckets[k].active = limit
<1>1. buckets[k].queue # <<>>
  BY EmptySeq
<1>2. QED
  BY <1>1, BucketFacts DEF Settled

LEMMA SamePool ==
  ASSUME OnePool, UNCHANGED <<entry, owners, attached, buckets>>
  PROVE  OnePool'
<1>1. Owners' = Owners /\ \A p : Busy(p)' <=> Busy(p)
  BY DEF Owners, Busy
<1>2. QED
  BY <1>1 DEF OnePool

LEMMA SameBuckets ==
  ASSUME UNCHANGED buckets,
         NEW k \in Key, BucketOk(k), Holding(k)' = Holding(k), Waiting(k)' = Waiting(k)
  PROVE  BucketOk(k)'
BY DEF BucketOk, Settled, Distinct

LEMMA AcquireStep ==
  ASSUME AdmissionInv, NEW c \in Call, Acquire(c)
  PROVE  AdmissionInv'
<1> DEFINE p == attached[RuntimeOf[c]]
           key == <<p, ProviderOf[c]>>
           st == [status EXCEPT ![c] = "queued"]
           q == Append(buckets[key].queue, c)
           b == [buckets[key] EXCEPT !.present = TRUE, !.queue = q]
<1>1. /\ p # None /\ status[c] \in {"new", "released", "refused"}
      /\ pool' = [pool EXCEPT ![c] = p]
      /\ gaveUp' = [gaveUp EXCEPT ![c] = FALSE]
      /\ Drain(key, b, st)
      /\ UNCHANGED <<owners, attached, attempts>>
  BY DEF Acquire
<1>2. /\ status \in [Call -> Status] /\ pool \in [Call -> Pool \cup {None}]
      /\ gaveUp \in [Call -> BOOLEAN] /\ attached \in [Runtime -> Pool \cup {None}]
      /\ owners \in Nat /\ attempts \in [Pool -> [AttemptID -> Call \cup {None}]]
  BY DEF AdmissionInv, TypeOK
<1>3. p \in Pool /\ ProviderOf[c] \in Provider /\ entry = p
  <2>1. RuntimeOf[c] \in Owners
    BY <1>1 DEF Owners
  <2>2. QED
    BY <1>1, <1>2, <2>1 DEF AdmissionInv, OnePool
<1>4. key \in Key /\ key[1] = p
  BY <1>3 DEF Key
<1>5. /\ buckets[key] \in Bucket /\ buckets[key].active \in Nat /\ buckets[key].queue \in Seq(Call)
      /\ buckets[key].lastRoot \in Root \cup {None}
      /\ Len(buckets[key].queue) \in Nat
      /\ Settled(buckets[key]) /\ Distinct(buckets[key].queue)
      /\ buckets[key].active = Cardinality(Holding(key))
      /\ Range(buckets[key].queue) = Waiting(key)
  BY <1>4, BucketFacts
<1> HIDE DEF key, p
<1>6. c \notin Waiting(key) /\ c \notin Holding(key)
  BY <1>1 DEF Waiting, Holding, In
<1>7. /\ q \in Seq(Call) /\ Distinct(q) /\ Range(q) = Waiting(key) \cup {c}
      /\ Len(q) = Len(buckets[key].queue) + 1
  BY <1>5, <1>6, AppendRange
<1> HIDE DEF q
<1>8. /\ b \in Bucket /\ b.present = TRUE /\ b.queue = q /\ b.active = buckets[key].active
  BY <1>5, <1>7 DEF Bucket
<1> HIDE DEF b
<1>9. OneTurn(b)
  <2>1. Len(q) > 1 => limit > 0 /\ buckets[key].active = limit
    BY <1>4, <1>5, <1>7, LongQueue
  <2>2. QED
    BY <1>5, <1>7, <1>8, <2>1 DEF OneTurn, Settled
<1>10. st \in [Call -> Status] /\ st[c] = "queued" /\ \A e \in Call : e # c => st[e] = status[e]
  BY <1>2 DEF Status
<1>11. /\ pool' \in [Call -> Pool \cup {None}] /\ pool'[c] = p
       /\ \A e \in Call : e # c => pool'[e] = pool[e]
  BY <1>1, <1>2, <1>3
<1> HIDE DEF st
<1>12. \A e \in Call : st[e] \in Live => pool'[e] \in Pool
  BY <1>3, <1>10, <1>11 DEF AdmissionInv, InPool, Live
<1>13. Books(key, b, st, pool')
  <2>1. <<pool'[c], ProviderOf[c]>> = key
    BY <1>11 DEF key
  <2>2. In(key, st, pool', {"granted", "held"}) = Holding(key)
    BY <1>6, <1>10, <1>11 DEF In, Holding, BucketOf
  <2>3. In(key, st, pool', {"queued"}) = Waiting(key) \cup {c}
    BY <1>10, <1>11, <2>1 DEF In, Waiting, BucketOf
  <2>4. status[c] \notin Live
    BY <1>1 DEF Live
  <2>5. \A k : k # key => /\ In(k, st, pool', {"granted", "held"}) = Holding(k)
                         /\ In(k, st, pool', {"queued"}) = Waiting(k)
    BY <1>10, <1>11, <2>1, <2>4 DEF In, Holding, Waiting, Live, BucketOf
  <2>6. QED
    BY <1>5, <1>7, <1>8, <2>2, <2>3, <2>5 DEF Books
<1>14. /\ buckets' \in [Pool \X Provider -> Bucket]
       /\ status' \in [Call -> Status]
       /\ entry' \in Pool \cup {None}
       /\ InPool' /\ OnePool'
       /\ \A k \in Key : BucketOk(k)'
       /\ \A e \in Call : st[e] # "queued" => status'[e] = st[e]
  <2>1. DrainStep(key, b, st)
    BY <1>1, <1>3, <1>4, <1>9, <1>10, <1>11, <1>12, <1>13 DEF DrainStep
  <2>2. QED
    BY <2>1, DrainKeeps
<1>15. TypeOK'
  BY <1>1, <1>2, <1>11, <1>14 DEF TypeOK
<1>16. RegistrationsHoldPermits' /\ OwnAttempt'
  <2> SUFFICES ASSUME NEW p1 \in Pool, NEW id \in AttemptID, attempts[p1][id] # None
               PROVE  /\ status'[attempts[p1][id]] = "held" /\ pool'[attempts[p1][id]] = p1
                      /\ AttemptOf[attempts[p1][id]] = id
    BY <1>1 DEF RegistrationsHoldPermits, OwnAttempt
  <2> DEFINE d == attempts[p1][id]
  <2>1. d \in Call /\ status[d] = "held" /\ pool[d] = p1 /\ AttemptOf[d] = id
    BY <1>2 DEF AdmissionInv, RegistrationsHoldPermits, OwnAttempt
  <2>2. d # c
    BY <1>1, <2>1
  <2>3. QED
    BY <1>10, <1>11, <1>14, <2>1, <2>2
<1>17. QED
  BY <1>14, <1>15, <1>16 DEF AdmissionInv

LEMMA AbortStep ==
  ASSUME AdmissionInv, NEW c \in Call, Abort(c)
  PROVE  AdmissionInv'
<1>1. /\ status \in [Call -> Status] /\ pool \in [Call -> Pool \cup {None}]
      /\ gaveUp \in [Call -> BOOLEAN]
      /\ attempts \in [Pool -> [AttemptID -> Call \cup {None}]]
      /\ UNCHANGED <<owners, attached, attempts, pool>>
  BY DEF AdmissionInv, TypeOK, Abort
<1>2. CASE status[c] # "queued"
  <2>1. UNCHANGED <<buckets, status, entry>> /\ gaveUp' = [gaveUp EXCEPT ![c] = TRUE]
    BY <1>2 DEF Abort
  <2>2. TypeOK'
    BY <1>1, <2>1 DEF AdmissionInv, TypeOK
  <2>3. InPool' /\ RegistrationsHoldPermits' /\ OwnAttempt'
    BY <1>1, <2>1 DEF AdmissionInv, InPool, RegistrationsHoldPermits, OwnAttempt
  <2>4. OnePool'
    BY <1>1, <2>1, SamePool DEF AdmissionInv
  <2>5. \A k \in Key : BucketOk(k)'
    <3> SUFFICES ASSUME NEW k \in Key
                 PROVE  BucketOk(k)'
      OBVIOUS
    <3>1. Holding(k)' = Holding(k) /\ Waiting(k)' = Waiting(k)
      BY <1>1, <2>1 DEF Holding, Waiting, In
    <3>2. QED
      BY <2>1, <3>1, SameBuckets DEF AdmissionInv
  <2>6. QED
    BY <2>2, <2>3, <2>4, <2>5 DEF AdmissionInv
<1>3. CASE status[c] = "queued"
  <2> DEFINE key == BucketOf(c)
             st == [status EXCEPT ![c] = "refused"]
             q == Without(buckets[key].queue, c)
             b == [buckets[key] EXCEPT !.queue = q]
  <2>1. Drain(key, b, st) /\ UNCHANGED gaveUp
    BY <1>3 DEF Abort
  <2>2. key \in Key /\ key[1] = pool[c] /\ pool[c] \in Pool /\ entry = key[1]
    BY <1>3, KeyOfLive DEF Live
  <2>3. /\ buckets[key] \in Bucket /\ buckets[key].active \in Nat /\ buckets[key].queue \in Seq(Call)
        /\ Settled(buckets[key]) /\ Distinct(buckets[key].queue)
        /\ buckets[key].active = Cardinality(Holding(key))
        /\ Range(buckets[key].queue) = Waiting(key)
    BY <2>2, BucketFacts
  <2>4. c \in Waiting(key) /\ c \notin Holding(key)
    BY <1>3 DEF Waiting, Holding, In, BucketOf
  <2>5. buckets[key].queue # <<>>
    BY <2>3, <2>4 DEF Range
  <2> HIDE DEF key
  <2>6. q \in Seq(Call) /\ Distinct(q) /\ Range(q) = Waiting(key) \ {c}
    BY <2>3, <2>4, WithoutRange
  <2> HIDE DEF q
  <2>7. /\ b \in Bucket /\ b.present = buckets[key].present /\ b.queue = q
        /\ b.active = buckets[key].active
    BY <2>3, <2>6 DEF Bucket
  <2> HIDE DEF b
  <2>8. OneTurn(b)
    BY <2>3, <2>5, <2>6, <2>7 DEF OneTurn, Settled
  <2>9. st \in [Call -> Status] /\ st[c] = "refused" /\ \A e \in Call : e # c => st[e] = status[e]
    BY <1>1 DEF Status
  <2> HIDE DEF st
  <2>10. \A e \in Call : st[e] \in Live => pool'[e] \in Pool
    BY <1>1, <2>9 DEF AdmissionInv, InPool, Live
  <2>11. Books(key, b, st, pool')
    <3>1. In(key, st, pool', {"granted", "held"}) = Holding(key)
      BY <1>1, <2>4, <2>9 DEF In, Holding
    <3>2. In(key, st, pool', {"queued"}) = Waiting(key) \ {c}
      BY <1>1, <2>9 DEF In, Waiting
    <3>3. st[c] \notin Live
      BY <2>9 DEF Live
    <3>4. \A k : k # key => /\ In(k, st, pool', {"granted", "held"}) = Holding(k)
                           /\ In(k, st, pool', {"queued"}) = Waiting(k)
      BY <1>1, <2>9, <3>3 DEF In, Holding, Waiting, Live, BucketOf, key
    <3>5. QED
      BY <2>3, <2>6, <2>7, <3>1, <3>2, <3>4 DEF Books
  <2>12. /\ buckets' \in [Pool \X Provider -> Bucket]
         /\ status' \in [Call -> Status]
         /\ entry' \in Pool \cup {None}
         /\ InPool' /\ OnePool'
         /\ \A k \in Key : BucketOk(k)'
         /\ \A e \in Call : st[e] # "queued" => status'[e] = st[e]
    <3>1. DrainStep(key, b, st)
      BY <1>1, <2>1, <2>2, <2>8, <2>9, <2>10, <2>11 DEF DrainStep
    <3>2. QED
      BY <3>1, DrainKeeps
  <2>13. TypeOK'
    BY <1>1, <2>1, <2>12 DEF AdmissionInv, TypeOK
  <2>14. RegistrationsHoldPermits' /\ OwnAttempt'
    <3> SUFFICES ASSUME NEW p \in Pool, NEW id \in AttemptID, attempts[p][id] # None
                 PROVE  /\ status'[attempts[p][id]] = "held" /\ pool'[attempts[p][id]] = p
                        /\ AttemptOf[attempts[p][id]] = id
      BY <1>1 DEF RegistrationsHoldPermits, OwnAttempt
    <3> DEFINE d == attempts[p][id]
    <3>1. d \in Call /\ status[d] = "held" /\ pool[d] = p /\ AttemptOf[d] = id
      BY <1>1 DEF AdmissionInv, RegistrationsHoldPermits, OwnAttempt
    <3>2. QED
      BY <1>1, <1>3, <2>9, <2>12, <3>1
  <2>15. QED
    BY <2>12, <2>13, <2>14 DEF AdmissionInv
<1>4. QED
  BY <1>2, <1>3

\* What GiveBack and ReturnUnwanted do to the bucket.
Returns(c) ==
  /\ Drain(BucketOf(c),
           [buckets[BucketOf(c)] EXCEPT !.active = @ - 1],
           [status EXCEPT ![c] = "released"])
  /\ UNCHANGED <<owners, attached, pool, gaveUp>>

LEMMA ReturnsKeeps ==
  ASSUME AdmissionInv, NEW c \in Call, HasPermit(c), Returns(c)
  PROVE  /\ buckets' \in [Pool \X Provider -> Bucket]
         /\ status' \in [Call -> Status]
         /\ entry' \in Pool \cup {None}
         /\ InPool' /\ OnePool'
         /\ \A k \in Key : BucketOk(k)'
         /\ \A e \in Call : e # c /\ status[e] # "queued" => status'[e] = status[e]
<1> DEFINE key == BucketOf(c)
           st == [status EXCEPT ![c] = "released"]
           b == [buckets[key] EXCEPT !.active = @ - 1]
<1>1. /\ status \in [Call -> Status] /\ pool \in [Call -> Pool \cup {None}]
      /\ status[c] \in {"granted", "held"}
      /\ UNCHANGED <<owners, attached, pool, gaveUp>>
      /\ Drain(key, b, st)
  BY DEF AdmissionInv, TypeOK, HasPermit, Returns
<1>2. key \in Key /\ key[1] = pool[c] /\ pool[c] \in Pool /\ entry = key[1]
  BY <1>1, KeyOfLive DEF Live
<1>3. /\ buckets[key] \in Bucket /\ buckets[key].active \in Nat /\ buckets[key].queue \in Seq(Call)
      /\ Len(buckets[key].queue) \in Nat
      /\ Settled(buckets[key]) /\ Distinct(buckets[key].queue)
      /\ IsFiniteSet(Holding(key))
      /\ buckets[key].active = Cardinality(Holding(key))
      /\ Range(buckets[key].queue) = Waiting(key)
  BY <1>2, BucketFacts
<1>4. c \in Holding(key) /\ c \notin Waiting(key)
  BY <1>1 DEF Waiting, Holding, In, BucketOf
<1>5. Len(buckets[key].queue) > 1 => limit > 0 /\ buckets[key].active = limit
  BY <1>2, <1>3, LongQueue
<1> HIDE DEF key
<1>6. /\ Cardinality(Holding(key) \ {c}) = buckets[key].active - 1
      /\ buckets[key].active - 1 \in Nat
  <2>1. /\ IsFiniteSet(Holding(key) \ {c})
        /\ Cardinality(Holding(key) \ {c}) = Cardinality(Holding(key)) - 1
    BY <1>3, <1>4, FS_RemoveElement
  <2>2. Cardinality(Holding(key) \ {c}) \in Nat
    BY <2>1, FS_CardinalityType
  <2>3. QED
    BY <1>3, <2>1, <2>2
<1>7. /\ b \in Bucket /\ b.present = buckets[key].present /\ b.queue = buckets[key].queue
      /\ b.active = buckets[key].active - 1
  BY <1>3, <1>6 DEF Bucket
<1> HIDE DEF b
<1>8. OneTurn(b)
  <2>1. b.present
    BY <1>3, <1>6, <1>7 DEF Settled
  <2>2. limit \in Nat
    OBVIOUS
  <2>3. QED
    BY <1>3, <1>5, <1>6, <1>7, <2>1, <2>2 DEF OneTurn, Settled
<1>9. st \in [Call -> Status] /\ st[c] = "released" /\ \A e \in Call : e # c => st[e] = status[e]
  BY <1>1 DEF Status
<1> HIDE DEF st
<1>10. \A e \in Call : st[e] \in Live => pool'[e] \in Pool
  BY <1>1, <1>9 DEF AdmissionInv, InPool, Live
<1>11. Books(key, b, st, pool')
  <2>1. In(key, st, pool', {"granted", "held"}) = Holding(key) \ {c}
    BY <1>1, <1>9 DEF In, Holding
  <2>2. In(key, st, pool', {"queued"}) = Waiting(key)
    BY <1>1, <1>4, <1>9 DEF In, Waiting
  <2>3. \A k : k # key => /\ In(k, st, pool', {"granted", "held"}) = Holding(k)
                         /\ In(k, st, pool', {"queued"}) = Waiting(k)
    BY <1>1, <1>9 DEF In, Holding, Waiting, Live, BucketOf, key
  <2>4. QED
    BY <1>3, <1>6, <1>7, <2>1, <2>2, <2>3 DEF Books
<1>12. DrainStep(key, b, st)
  BY <1>1, <1>2, <1>8, <1>9, <1>10, <1>11 DEF DrainStep
<1>13. /\ buckets' \in [Pool \X Provider -> Bucket]
       /\ status' \in [Call -> Status]
       /\ entry' \in Pool \cup {None}
       /\ InPool' /\ OnePool'
       /\ \A k \in Key : BucketOk(k)'
       /\ \A e \in Call : st[e] # "queued" => status'[e] = st[e]
  BY <1>12, DrainKeeps
<1>14. QED
  BY <1>9, <1>13

LEMMA GiveBackStep ==
  ASSUME AdmissionInv, NEW c \in Call, status[c] = "held", GiveBack(c)
  PROVE  AdmissionInv'
<1>1. /\ status \in [Call -> Status] /\ pool \in [Call -> Pool \cup {None}]
      /\ attempts \in [Pool -> [AttemptID -> Call \cup {None}]]
      /\ attached \in [Runtime -> Pool \cup {None}] /\ owners \in Nat
      /\ gaveUp \in [Call -> BOOLEAN]
      /\ UNCHANGED <<owners, attached, pool, gaveUp>>
  BY DEF AdmissionInv, TypeOK, GiveBack
<1>2. HasPermit(c) /\ Returns(c)
  BY DEF HasPermit, Returns, GiveBack
<1>3. /\ buckets' \in [Pool \X Provider -> Bucket]
      /\ status' \in [Call -> Status]
      /\ entry' \in Pool \cup {None}
      /\ InPool' /\ OnePool'
      /\ \A k \in Key : BucketOk(k)'
      /\ \A e \in Call : e # c /\ status[e] # "queued" => status'[e] = status[e]
  BY <1>2, ReturnsKeeps
<1>4. pool[c] \in Pool /\ AttemptOf[c] \in AttemptID
  BY DEF AdmissionInv, InPool, AttemptID
<1>5. attempts' = IF Registered(c) = c
                  THEN [attempts EXCEPT ![pool[c]][AttemptOf[c]] = None]
                  ELSE attempts
  BY DEF GiveBack
<1>6. attempts' \in [Pool -> [AttemptID -> Call \cup {None}]]
  BY <1>1, <1>4, <1>5
<1>7. TypeOK'
  BY <1>1, <1>3, <1>6 DEF TypeOK
<1>8. ASSUME NEW p \in Pool, NEW id \in AttemptID, attempts'[p][id] # None
      PROVE  /\ status'[attempts'[p][id]] = "held" /\ pool'[attempts'[p][id]] = p
             /\ AttemptOf[attempts'[p][id]] = id
  <2> DEFINE d == attempts[p][id]
  <2>1. attempts'[p][id] = d /\ d # None
    BY <1>1, <1>4, <1>5, <1>8
  <2>2. d \in Call /\ status[d] = "held" /\ pool[d] = p /\ AttemptOf[d] = id
    BY <1>1, <2>1 DEF AdmissionInv, RegistrationsHoldPermits, OwnAttempt
  <2>3. d # c
    <3>1. ASSUME d = c
          PROVE  FALSE
      <4>1. p = pool[c] /\ id = AttemptOf[c] /\ Registered(c) = c
        BY <2>2, <3>1 DEF Registered
      <4>2. attempts'[p][id] = None
        BY <1>1, <1>4, <1>5, <4>1
      <4>3. QED
        BY <1>8, <4>2
    <3>2. QED
      BY <3>1
  <2>4. QED
    BY <1>1, <1>3, <2>1, <2>2, <2>3
<1>9. QED
  BY <1>3, <1>7, <1>8 DEF AdmissionInv, RegistrationsHoldPermits, OwnAttempt

LEMMA ResumeStep ==
  ASSUME AdmissionInv, NEW c \in Call, Resume(c)
  PROVE  AdmissionInv'
<1>1. /\ status \in [Call -> Status] /\ pool \in [Call -> Pool \cup {None}]
      /\ attempts \in [Pool -> [AttemptID -> Call \cup {None}]]
      /\ attached \in [Runtime -> Pool \cup {None}] /\ owners \in Nat
      /\ gaveUp \in [Call -> BOOLEAN]
      /\ status[c] = "granted"
  BY DEF AdmissionInv, TypeOK, Resume
<1>2. pool[c] \in Pool /\ AttemptOf[c] \in AttemptID
  BY <1>1 DEF AdmissionInv, InPool, AttemptID
<1>3. ASSUME NEW p \in Pool, NEW id \in AttemptID, attempts[p][id] # None
      PROVE  /\ attempts[p][id] \in Call /\ attempts[p][id] # c
             /\ status[attempts[p][id]] = "held" /\ pool[attempts[p][id]] = p
             /\ AttemptOf[attempts[p][id]] = id
  BY <1>1, <1>3 DEF AdmissionInv, RegistrationsHoldPermits, OwnAttempt
<1>4. CASE gaveUp[c]
  <2>1. HasPermit(c) /\ Returns(c) /\ UNCHANGED <<owners, attached, pool, gaveUp>>
        /\ attempts' = [attempts EXCEPT ![pool[c]][AttemptOf[c]] = None]
    BY <1>1, <1>4 DEF HasPermit, Returns, Resume, ReturnUnwanted
  <2>2. /\ buckets' \in [Pool \X Provider -> Bucket]
        /\ status' \in [Call -> Status]
        /\ entry' \in Pool \cup {None}
        /\ InPool' /\ OnePool'
        /\ \A k \in Key : BucketOk(k)'
        /\ \A e \in Call : e # c /\ status[e] # "queued" => status'[e] = status[e]
    BY <2>1, ReturnsKeeps
  <2>3. /\ attempts' \in [Pool -> [AttemptID -> Call \cup {None}]]
        /\ \A p \in Pool, id \in AttemptID :
             attempts'[p][id] # None => attempts'[p][id] = attempts[p][id]
    BY <1>1, <1>2, <2>1
  <2>4. TypeOK'
    BY <1>1, <2>1, <2>2, <2>3 DEF TypeOK
  <2>5. RegistrationsHoldPermits' /\ OwnAttempt'
    BY <1>3, <2>1, <2>2, <2>3 DEF RegistrationsHoldPermits, OwnAttempt
  <2>6. QED
    BY <2>2, <2>4, <2>5 DEF AdmissionInv
<1>5. CASE ~gaveUp[c]
  <2>1. /\ attempts' = [attempts EXCEPT ![pool[c]][AttemptOf[c]] = c]
        /\ status' = [status EXCEPT ![c] = "held"]
        /\ UNCHANGED <<entry, owners, attached, buckets, pool, gaveUp>>
    BY <1>5 DEF Resume
  <2>2. /\ status' \in [Call -> Status] /\ status'[c] = "held"
        /\ \A e \in Call : e # c => status'[e] = status[e]
    BY <1>1, <2>1 DEF Status
  <2>3. /\ attempts' \in [Pool -> [AttemptID -> Call \cup {None}]]
        /\ \A p \in Pool, id \in AttemptID :
             attempts'[p][id] = IF p = pool[c] /\ id = AttemptOf[c] THEN c ELSE attempts[p][id]
    BY <1>1, <1>2, <2>1
  <2>4. TypeOK'
    BY <2>1, <2>2, <2>3 DEF AdmissionInv, TypeOK
  <2>5. OnePool'
    BY <2>1, SamePool DEF AdmissionInv
  <2>6. InPool'
    BY <1>2, <2>1, <2>2 DEF AdmissionInv, InPool
  <2>7. ASSUME NEW k \in Key
        PROVE  BucketOk(k)'
    <3>1. Holding(k)' = Holding(k) /\ Waiting(k)' = Waiting(k)
      BY <1>1, <2>1, <2>2 DEF Holding, Waiting, In
    <3>2. QED
      BY <2>1, <3>1, SameBuckets DEF AdmissionInv
  <2>8. RegistrationsHoldPermits' /\ OwnAttempt'
    BY <1>3, <2>1, <2>2, <2>3 DEF RegistrationsHoldPermits, OwnAttempt
  <2>9. QED
    BY <2>4, <2>5, <2>6, <2>7, <2>8 DEF AdmissionInv
<1>6. QED
  BY <1>4, <1>5

LEMMA ReleaseStep ==
  ASSUME AdmissionInv, NEW c \in Call, Release(c)
  PROVE  AdmissionInv'
BY GiveBackStep DEF Release, Releasable

LEMMA ReleaseAttemptStep ==
  ASSUME AdmissionInv, NEW p \in Pool, NEW id \in AttemptID, ReleaseAttempt(p, id)
  PROVE  AdmissionInv'
<1> DEFINE c == attempts[p][id]
<1>1. c \in Call
  BY DEF AdmissionInv, TypeOK, ReleaseAttempt
<1>2. status[c] = "held" /\ GiveBack(c)
  BY DEF ReleaseAttempt, Releasable
<1>3. QED
  BY <1>1, <1>2, GiveBackStep

----------------------------------------------------------------------------
(* Plugin instances: the calls and the buckets stay.                       *)

LEMMA SameCalls ==
  ASSUME AdmissionInv, UNCHANGED <<buckets, attempts, status, pool, gaveUp>>,
         entry' \in Pool \cup {None}, owners' \in Nat,
         attached' \in [Runtime -> Pool \cup {None}], OnePool'
  PROVE  AdmissionInv'
<1>1. TypeOK'
  BY DEF AdmissionInv, TypeOK
<1>2. InPool' /\ RegistrationsHoldPermits' /\ OwnAttempt'
  BY DEF AdmissionInv, InPool, RegistrationsHoldPermits, OwnAttempt
<1>3. ASSUME NEW k \in Key
      PROVE  BucketOk(k)'
  <2>1. Holding(k)' = Holding(k) /\ Waiting(k)' = Waiting(k)
    BY DEF Holding, Waiting, In
  <2>2. QED
    BY <2>1, SameBuckets DEF AdmissionInv
<1>4. QED
  BY <1>1, <1>2, <1>3 DEF AdmissionInv

LEMMA AttachStep ==
  ASSUME AdmissionInv, NEW r \in Runtime, Attach(r)
  PROVE  AdmissionInv'
<1>1. PICK p \in Pool :
        /\ IF entry = None THEN ~Busy(p) /\ p \notin Range(attached) ELSE p = entry
        /\ entry' = p
        /\ attached' = [attached EXCEPT ![r] = p]
  BY DEF Attach
<1>2. /\ attached[r] = None /\ owners' = owners + 1
      /\ UNCHANGED <<buckets, attempts, status, pool, gaveUp>>
      /\ attached \in [Runtime -> Pool \cup {None}] /\ owners \in Nat /\ entry \in Pool \cup {None}
  BY DEF Attach, AdmissionInv, TypeOK
<1>3. /\ IsFiniteSet(Owners) /\ owners = Cardinality(Owners)
      /\ \A s \in Owners : attached[s] = entry
      /\ \A q \in Pool : Busy(q) => q = entry
  BY DEF AdmissionInv, OnePool
<1>4. Owners' = Owners \cup {r} /\ r \notin Owners
  BY <1>1, <1>2 DEF Owners
<1>5. IsFiniteSet(Owners') /\ Cardinality(Owners') = owners + 1
  BY <1>3, <1>4, FS_AddElement
<1>6. \A s \in Owners' : attached'[s] = entry'
  <2>1. \A s \in Owners : s # r /\ s \in Runtime /\ entry # None
    BY <1>2, <1>3 DEF Owners
  <2>2. QED
    BY <1>1, <1>2, <1>3, <1>4, <2>1
<1>7. \A q \in Pool : Busy(q)' => q = entry'
  BY <1>1, <1>2, <1>3 DEF Busy
<1>8. OnePool'
  BY <1>2, <1>5, <1>6, <1>7 DEF OnePool
<1>9. QED
  BY <1>1, <1>2, <1>8, SameCalls

LEMMA DetachStep ==
  ASSUME AdmissionInv, NEW r \in Runtime, Detach(r)
  PROVE  AdmissionInv'
<1>1. /\ attached[r] # None /\ owners' = owners - 1
      /\ entry' = IF owners' = 0 /\ ~Busy(entry) THEN None ELSE entry
      /\ attached' = [attached EXCEPT ![r] = None]
      /\ UNCHANGED <<buckets, attempts, status, pool, gaveUp>>
      /\ attached \in [Runtime -> Pool \cup {None}] /\ owners \in Nat /\ entry \in Pool \cup {None}
  BY DEF Detach, MayDrop, AdmissionInv, TypeOK
<1>2. /\ IsFiniteSet(Owners) /\ owners = Cardinality(Owners)
      /\ \A s \in Owners : attached[s] = entry
      /\ \A q \in Pool : Busy(q) => q = entry
  BY DEF AdmissionInv, OnePool
<1>3. Owners' = Owners \ {r} /\ r \in Owners
  BY <1>1 DEF Owners
<1>4. IsFiniteSet(Owners') /\ Cardinality(Owners') = owners - 1
  BY <1>2, <1>3, FS_RemoveElement
<1>5. owners' \in Nat
  BY <1>1, <1>4, FS_CardinalityType
<1>6. \A s \in Owners' : attached'[s] = entry'
  <2>1. ASSUME NEW s \in Owners'
        PROVE  attached'[s] = entry'
    <3>1. owners' # 0
      BY <1>1, <1>4, <2>1, FS_EmptySet
    <3>2. s \in Owners /\ s # r /\ s \in Runtime
      BY <1>3, <2>1 DEF Owners
    <3>3. QED
      BY <1>1, <1>2, <3>1, <3>2
  <2>2. QED
    BY <2>1
<1>7. \A q \in Pool : Busy(q)' => q = entry'
  BY <1>1, <1>2 DEF Busy
<1>8. OnePool'
  BY <1>1, <1>4, <1>6, <1>7 DEF OnePool
<1>9. QED
  BY <1>1, <1>5, <1>8, SameCalls

----------------------------------------------------------------------------
LEMMA AdmissionInit == Init => AdmissionInv
<1> SUFFICES ASSUME Init
             PROVE  AdmissionInv
  OBVIOUS
<1>1. /\ NoBucket \in Bucket /\ NoBucket.active = 0 /\ NoBucket.queue = <<>>
      /\ NoBucket.present = FALSE
  BY DEF NoBucket, Bucket
<1>2. TypeOK
  BY <1>1 DEF Init, TypeOK, Status
<1>3. InPool /\ RegistrationsHoldPermits /\ OwnAttempt
  BY DEF Init, InPool, RegistrationsHoldPermits, OwnAttempt
<1>4. OnePool
  <2>1. Owners = {}
    BY DEF Owners, Init
  <2>2. \A p \in Pool : ~Busy(p)
    BY <1>1 DEF Busy, Init
  <2>3. QED
    BY <2>1, <2>2, FS_EmptySet DEF OnePool, Init
<1>5. ASSUME NEW k \in Key
      PROVE  BucketOk(k)
  <2>1. buckets[k] = NoBucket
    BY DEF Init, Key
  <2>2. Holding(k) = {} /\ Waiting(k) = {}
    BY DEF Init, Holding, Waiting, In
  <2>3. Range(<<>>) = {} /\ Distinct(<<>>)
    BY DEF Range, Distinct
  <2>4. QED
    BY <1>1, <2>1, <2>2, <2>3, FS_EmptySet DEF BucketOk, Settled
<1>6. QED
  BY <1>2, <1>3, <1>4, <1>5 DEF AdmissionInv

LEMMA AdmissionStep == AdmissionInv /\ [Next]_vars => AdmissionInv'
<1> SUFFICES ASSUME AdmissionInv, [Next]_vars
             PROVE  AdmissionInv'
  OBVIOUS
<1>1. ASSUME NEW c \in Call, Acquire(c)
      PROVE  AdmissionInv'
  BY <1>1, AcquireStep
<1>2. ASSUME NEW c \in Call, Abort(c)
      PROVE  AdmissionInv'
  BY <1>2, AbortStep
<1>3. ASSUME NEW c \in Call, Resume(c)
      PROVE  AdmissionInv'
  BY <1>3, ResumeStep
<1>4. ASSUME NEW c \in Call, Release(c)
      PROVE  AdmissionInv'
  BY <1>4, ReleaseStep
<1>5. ASSUME NEW p \in Pool, NEW id \in AttemptID, ReleaseAttempt(p, id)
      PROVE  AdmissionInv'
  BY <1>5, ReleaseAttemptStep
<1>6. ASSUME NEW r \in Runtime, Attach(r)
      PROVE  AdmissionInv'
  BY <1>6, AttachStep
<1>7. ASSUME NEW r \in Runtime, Detach(r)
      PROVE  AdmissionInv'
  BY <1>7, DetachStep
<1>8. CASE UNCHANGED vars
  <2>1. OnePool'
    BY <1>8, SamePool DEF AdmissionInv, vars
  <2>2. /\ entry' \in Pool \cup {None} /\ owners' \in Nat
        /\ attached' \in [Runtime -> Pool \cup {None}]
    BY <1>8 DEF AdmissionInv, TypeOK, vars
  <2>3. QED
    BY <1>8, <2>1, <2>2, SameCalls DEF vars
<1>9. QED
  BY <1>1, <1>2, <1>3, <1>4, <1>5, <1>6, <1>7, <1>8 DEF Next

\* The limit of the process is the limit of the one pool in use.
LEMMA IInvAddsUp == AdmissionInv => PermitsAddUp
<1> SUFFICES ASSUME AdmissionInv
             PROVE  PermitsAddUp
  OBVIOUS
<1>1. ASSUME NEW p \in Pool, NEW v \in Provider
      PROVE  {c \in Permits(v) : pool[c] = p} = Holding(<<p, v>>)
  BY DEF Permits, HasPermit, Holding, In
<1>2. ProcessLimit
  <2> SUFFICES ASSUME limit > 0, NEW v \in Provider
               PROVE  Cardinality(Permits(v)) <= limit
    BY DEF ProcessLimit
  <2>1. CASE Permits(v) = {}
    BY <2>1, FS_EmptySet
  <2>2. CASE Permits(v) # {}
    <3>1. \A c \in Permits(v) : c \in Call /\ status[c] \in Live /\ ProviderOf[c] = v
      BY DEF Permits, HasPermit, Live
    <3>2. \A c \in Permits(v) : pool[c] = entry /\ entry \in Pool
      BY <3>1, KeyOfLive
    <3>3. entry \in Pool /\ Permits(v) = Holding(<<entry, v>>)
      BY <1>1, <2>2, <3>2
    <3>4. <<entry, v>> \in Key
      BY <3>3 DEF Key
    <3>5. QED
      BY <3>3, <3>4, BucketFacts DEF Settled
  <2>3. QED
    BY <2>1, <2>2
<1>3. QueueOnlyWhenFull
  BY DEF QueueOnlyWhenFull, AdmissionInv, BucketOk, Settled, Key
<1>4. ActiveCountsPermits
  <2> SUFFICES ASSUME NEW p \in Pool, NEW v \in Provider
               PROVE  LET b == buckets[<<p, v>>]
                      IN /\ b.active = Cardinality({c \in Permits(v) : pool[c] = p})
                         /\ b.present <=> (b.active > 0 \/ b.queue # <<>>)
    BY DEF ActiveCountsPermits
  <2>1. <<p, v>> \in Key
    BY DEF Key
  <2>2. QED
    BY <1>1, <2>1, BucketFacts DEF Settled
<1>5. QED
  BY <1>2, <1>3, <1>4 DEF AdmissionInv, PermitsAddUp

----------------------------------------------------------------------------
(* However many plugin instances share the process, permits are counted    *)
(* once: the limit of a provider is kept, nobody waits beside a free       *)
(* permit, and a registration is of a permit that is out                   *)
(* (admission.ts:20-66, 68-87).                                            *)
THEOREM PermitsAlwaysAddUp == Spec => []PermitsAddUp
<1>1. Spec => []AdmissionInv
  BY AdmissionInit, AdmissionStep, PTL DEF Spec
<1>2. QED
  BY <1>1, IInvAddsUp, PTL

(* There is one pool of permits at a time: every plugin instance has the   *)
(* one in the module's map, and a pool with permits out or waiters stays   *)
(* in the map after its last owner left (admission.ts:72-75, 84-86).       *)
THEOREM PoolStaysWhileBusy == Spec => []OnePool
<1>1. Spec => []AdmissionInv
  BY AdmissionInit, AdmissionStep, PTL DEF Spec
<1>2. AdmissionInv => OnePool
  BY DEF AdmissionInv
<1>3. QED
  BY <1>1, <1>2, PTL

-----------------------------------------------------------------------------
\* Part 3: the usage ledger.

USE UsageAssumption, ObserverAssumption

\* The types of the records.
EntryType == [role : {"none", "user", "assistant"}, of : Nat, parent : Nat, created : Nat, version : 0..3]
AttemptType == [started : Nat, settled : Nat, prompt : Nat, state : UsageState,
                coverage : {"unknown", "partial", "complete"}]
RowType == [attempt : 0..MaxUsage, version : 0..3]
JobType == [at : {"idle", "find", "prompt", "record", "reread"}, message : Nat, version : 0..3,
            authoritative : BOOLEAN, attempt : 0..MaxUsage, attributed : BOOLEAN]
FinisherType == [at : {"none", "read", "apply", "write", "done"}, state : UsageState,
                 final : 0..MaxTranscript, limit : Nat, todo : SUBSET (Entry \X (1..3)),
                 coverage : {"partial", "complete"}]
RequestState == {"none", "prepared", "running", "ended", "orphaned"}

\* The messages of a transcript, and the replies to an attempt.
Said(tr) == {m \in Entry : tr[m].role # "none"}
RepliesTo(tr, a) == {m \in Said(tr) : tr[m].of = a /\ tr[m].role = "assistant"}

\* A message belongs to an attempt that was sent; a reply answers a user
\* message of its attempt, and is complete once the request is over.
MessageOk(x, tr, req, time) ==
  /\ x.of \in Billed /\ x.created \in 1..time /\ x.version \in 1..3
  /\ req[x.of] \in {"running", "ended"}
  /\ x.role = "user" => x.parent = 0
  /\ x.role = "assistant" =>
       /\ x.parent \in Said(tr) /\ tr[x.parent].of = x.of
       /\ req[x.of] = "ended" => x.version > 1

\* The session's messages are 1..n, in the order in which they were made.
SessionOk(tr, req, time) ==
  /\ \E n \in 0..MaxTranscript : Said(tr) = 1..n
  /\ \A m \in Said(tr) : MessageOk(tr[m], tr, req, time)
  /\ \A m, k \in Said(tr) : m < k => tr[m].created < tr[k].created
  /\ \A a \in Billed : req[a] = "running" =>
       \E m \in Said(tr) : tr[m].of = a /\ tr[m].role = "user"

\* What an attempt asked for was made after it began and before the next one
\* did, and it is settled only once its request is over.
AttemptsOk(tr, req, us, time) ==
  /\ \A a \in Billed : us[a].started <= time
  /\ \A a \in Billed : req[a] = "none" <=> us[a].state = "none"
  /\ \A a, b \in Billed : a < b /\ req[b] # "none" => req[a] \in {"ended", "orphaned"}
  /\ \A m \in Said(tr) : us[tr[m].of].started <= tr[m].created
  /\ \A m \in Said(tr), b \in Billed :
       tr[m].of < b /\ req[b] # "none" => tr[m].created < us[b].started
  /\ \A a \in Billed : us[a].prompt # 0 => us[a].prompt \in Said(tr) /\ tr[us[a].prompt].of = a
  /\ \A a \in Billed : us[a].settled # 0 => req[a] = "ended"
  /\ \A m \in Said(tr) : us[tr[m].of].settled # 0 => tr[m].created <= us[tr[m].of].settled

\* What an attempt was charged, and what it is about to be charged, is its own.
RowsOk(tr, rw) == \A m \in Entry : rw[m].attempt # 0 => m \in Said(tr) /\ rw[m].attempt = tr[m].of

JobOk(j, tr) ==
  j.at # "idle" =>
    /\ j.message \in Said(tr) /\ j.version >= 1
    /\ j.at = "prompt" => j.attempt = tr[j.message].of
    /\ j.at = "record" /\ j.attributed => j.attempt = tr[j.message].of

JobsOk(js, tr) == \A t \in Observing : JobOk(js[t], tr)

\* The reply m is recorded as completed, or the finisher x, whose observation
\* is j, will see to it.
ToCount(m, x, j, rw) ==
  \/ rw[m].version > 1
  \/ \E v \in 2..3 : <<m, v>> \in x.todo
  \/ j.at \in {"find", "record"} /\ j.message = m /\ j.version > 1 /\ j.authoritative

\* A finish() that has its history covered knows of every reply to its attempt.
FinisherOk(f, x, j, tr, req, rw) ==
  /\ x.final # 0 => x.final \in Said(tr)
  /\ \A e \in x.todo : e[1] \in Said(tr)
  /\ x.at \in {"read", "apply", "write"} =>
       /\ x.state # "none" /\ req[f[1]] # "none"
       /\ x.state = "cancellation_uncertain" <=> f[2] = "uncertain"
  /\ x.at \in {"none", "done"} => j.at = "idle"
  /\ x.at \in {"none", "done", "read"} => x.coverage = "partial"
  /\ x.at # "apply" => x.todo = {}
  /\ f[2] = "settled" /\ x.at # "none" => req[f[1]] = "ended"
  /\ f[2] = "settled" /\ x.coverage = "complete" =>
       \A m \in RepliesTo(tr, f[1]) : ToCount(m, x, j, rw)

FinishersOk(fs, js, tr, req, rw) ==
  \A f \in Finisher : FinisherOk(f, fs[f], js[f], tr, req, rw)

\* Coverage that is stored is true.
CoverageOk(tr, req, us, rw) ==
  \A a \in Billed : us[a].coverage = "complete" =>
    req[a] = "ended" /\ \A m \in RepliesTo(tr, a) : rw[m].version > 1

UsageInv ==
  /\ UsageTypeOK
  /\ SessionOk(transcript, request, now)
  /\ AttemptsOk(transcript, request, usage, now)
  /\ RowsOk(transcript, rows)
  /\ JobsOk(job, transcript)
  /\ FinishersOk(finisher, job, transcript, request, rows)
  /\ CoverageOk(transcript, request, usage, rows)

LEMMA UsageBounds == MaxUsage \in Nat /\ MaxTranscript \in Nat /\ MaxIncidents \in Nat /\ MaxLimit \in Nat
BY DEF UsageAssumption

LEMMA UsageTypes ==
  UsageTypeOK <=> /\ now \in Nat /\ request \in [Billed -> RequestState]
                  /\ transcript \in [Entry -> EntryType] /\ usage \in [Billed -> AttemptType]
                  /\ rows \in [Entry -> RowType] /\ job \in [Observing -> JobType]
                  /\ finisher \in [Finisher -> FinisherType] /\ incidents \in 0..MaxIncidents
BY DEF UsageTypeOK, RequestState, EntryType, AttemptType, RowType, JobType, FinisherType

LEMMA TypesNext ==
  ASSUME now' \in Nat, request' \in [Billed -> RequestState],
         transcript' \in [Entry -> EntryType], usage' \in [Billed -> AttemptType],
         rows' \in [Entry -> RowType], job' \in [Observing -> JobType],
         finisher' \in [Finisher -> FinisherType], incidents' \in 0..MaxIncidents
  PROVE  UsageTypeOK'
BY DEF UsageTypeOK, RequestState, EntryType, AttemptType, RowType, JobType, FinisherType

LEMMA UsageFacts ==
  ASSUME UsageInv
  PROVE  /\ now \in Nat /\ request \in [Billed -> RequestState]
         /\ transcript \in [Entry -> EntryType] /\ usage \in [Billed -> AttemptType]
         /\ rows \in [Entry -> RowType] /\ job \in [Observing -> JobType]
         /\ finisher \in [Finisher -> FinisherType] /\ incidents \in 0..MaxIncidents
         /\ Written = Said(transcript)
BY UsageTypes DEF UsageInv, Written, Said

LEMMA GreatestIs ==
  ASSUME NEW S \in SUBSET Nat, S # {}, NEW n \in Nat, \A x \in S : x <= n
  PROVE  Max(S) \in S /\ \A y \in S : Max(S) >= y
<1> DEFINE T == {n - x : x \in S}
<1>1. T \in SUBSET Nat /\ T # {}
  <2>1. ASSUME NEW x \in S
        PROVE  n - x \in Nat
    <3>1. x \in Nat /\ x <= n
      OBVIOUS
    <3>2. QED
      BY <3>1
  <2>2. T \subseteq Nat
    BY <2>1
  <2>3. PICK x \in S : TRUE
    OBVIOUS
  <2>4. n - x \in T
    OBVIOUS
  <2>5. QED
    BY <2>2, <2>4
<1> HIDE DEF T
<1>2. PICK i \in T : \A j \in T : i <= j
  BY <1>1, LeastOfNaturals
<1>3. PICK x \in S : i = n - x
  BY <1>2 DEF T
<1>4. ASSUME NEW y \in S
      PROVE  x >= y
  <2>1. n - y \in T
    BY DEF T
  <2>2. n - x <= n - y
    BY <1>2, <1>3, <2>1
  <2>3. QED
    BY <2>2
<1>5. QED
  BY <1>4 DEF Max

LEMMA LesserIs ==
  ASSUME NEW a \in Nat, NEW b \in Nat
  PROVE  Min({a, b}) \in {a, b}
<1>1. \E x \in {a, b} : \A y \in {a, b} : x =< y
  <2>1. CASE a =< b
    BY <2>1
  <2>2. CASE b =< a
    BY <2>2
  <2>3. QED
    BY <2>1, <2>2
<1>2. QED
  BY <1>1 DEF Min

\* What a written message is.
LEMMA WrittenIs ==
  ASSUME UsageInv, NEW m \in Said(transcript)
  PROVE  /\ m \in Entry /\ transcript[m].of \in Billed
         /\ transcript[m].created \in Nat /\ transcript[m].version \in 1..3
         /\ transcript[m].role \in {"user", "assistant"}
         /\ usage[transcript[m].of].state # "none"
         /\ InWindow(transcript[m].of, m)
<1>1. m \in Entry /\ MessageOk(transcript[m], transcript, request, now)
  BY DEF UsageInv, SessionOk, Said
<1>2. transcript[m] \in EntryType /\ transcript[m].role # "none"
  BY <1>1, UsageFacts DEF Said
<1>3. /\ transcript[m].of \in Billed /\ transcript[m].version \in 1..3
      /\ request[transcript[m].of] \in {"running", "ended"}
  BY <1>1 DEF MessageOk
<1>4. usage[transcript[m].of].state # "none" /\ InWindow(transcript[m].of, m)
  <2>1. /\ usage[transcript[m].of].state # "none"
        /\ usage[transcript[m].of].started <= transcript[m].created
        /\ usage[transcript[m].of].settled # 0 =>
             transcript[m].created <= usage[transcript[m].of].settled
    BY <1>1, <1>3 DEF UsageInv, AttemptsOk
  <2>2. usage[transcript[m].of] \in AttemptType
    BY <1>3, UsageFacts
  <2>3. QED
    BY <1>2, <2>1, <2>2 DEF InWindow, AttemptType, EntryType
<1>5. QED
  BY <1>1, <1>2, <1>3, <1>4 DEF EntryType

\* find() of a message finds an attempt, and if the message answers it or is
\* in its window, then it is the message's own.
LEMMA FindIs ==
  ASSUME UsageInv, NEW m \in Said(transcript)
  PROVE  LET a == FindUsage(m)
         IN /\ a \in Billed
            /\ InWindow(a, m) \/ Answers(a, m) => a = transcript[m].of
<1> DEFINE o == transcript[m].of
           begun == {a \in Billed : usage[a].state # "none"}
           best == {a \in begun : \A b \in begun : Rank(a, m) <= Rank(b, m)}
           F == Max(best)
<1>1. /\ m \in Entry /\ o \in Billed /\ o \in begun /\ InWindow(o, m)
      /\ transcript[m].created \in Nat
  BY WrittenIs
<1>2. \A a : /\ Rank(a, m) \in {0, 1, 2}
             /\ Rank(a, m) = 0 <=> Answers(a, m)
             /\ Rank(a, m) = 1 <=> InWindow(a, m) /\ ~Answers(a, m)
  BY DEF Rank
<1>3. Billed \subseteq Nat /\ \A a \in Billed : a <= MaxUsage
  BY UsageBounds DEF Billed
<1>4. best # {}
  <2>1. CASE \E a \in begun : Rank(a, m) = 0
    BY <1>2, <2>1
  <2>2. CASE \A a \in begun : Rank(a, m) # 0
    <3>1. Rank(o, m) = 1
      BY <1>1, <1>2, <2>2
    <3>2. \A b \in begun : Rank(o, m) <= Rank(b, m)
      BY <1>2, <2>2, <3>1
    <3>3. o \in best
      BY <1>1, <3>2
    <3>4. QED
      BY <3>3
  <2>3. QED
    BY <2>1, <2>2
<1>5. best \in SUBSET Nat /\ best \subseteq Billed
  BY <1>3
<1>6. F \in best /\ \A y \in best : F >= y
  <2> HIDE DEF best
  <2>1. QED
    BY <1>3, <1>4, <1>5, UsageBounds, GreatestIs
<1>7. FindUsage(m) = F
  BY <1>4 DEF FindUsage
<1>8. ASSUME Answers(F, m)
      PROVE  F = o
  <2>1. transcript[m].parent # 0 /\ usage[F].prompt = transcript[m].parent
    BY <1>8 DEF Answers
  <2>2. transcript[usage[F].prompt].of = F
    <3>1. F \in Billed
      BY <1>6
    <3>2. QED
      BY <2>1, <3>1 DEF UsageInv, AttemptsOk
  <2>3. transcript[transcript[m].parent].of = o
    <3>1. MessageOk(transcript[m], transcript, request, now) /\ transcript[m].role \in {"user", "assistant"}
      BY WrittenIs DEF UsageInv, SessionOk
    <3>2. QED
      BY <2>1, <3>1 DEF MessageOk
  <2>4. QED
    BY <2>1, <2>2, <2>3
<1>9. ASSUME InWindow(F, m), ~Answers(F, m)
      PROVE  F = o
  <2>1. Rank(F, m) = 1
    BY <1>2, <1>9
  <2>2. \A b \in begun : 1 <= Rank(b, m)
    BY <1>6, <2>1
  <2>3. Rank(o, m) = 1
    BY <1>1, <1>2, <2>2
  <2>4. o \in best
    BY <1>1, <2>2, <2>3
  <2>5. F >= o /\ F \in Billed /\ usage[F].state # "none"
    BY <1>6, <2>4
  <2>6. ~(o < F)
    <3>1. ASSUME o < F
          PROVE  FALSE
      <4>1. request[F] # "none"
        BY <2>5 DEF UsageInv, AttemptsOk
      <4>2. transcript[m].created < usage[F].started
        BY <2>5, <3>1, <4>1 DEF UsageInv, AttemptsOk
      <4>3. usage[F].started \in Nat
        BY <2>5, UsageFacts DEF AttemptType
      <4>4. QED
        BY <1>1, <1>9, <4>2, <4>3 DEF InWindow
    <3>2. QED
      BY <3>1
  <2>7. F \in Nat /\ o \in Nat
    BY <1>1, <1>3, <2>5
  <2> HIDE DEF F, o
  <2>8. QED
    BY <2>5, <2>6, <2>7
<1>10. QED
  BY <1>5, <1>6, <1>7, <1>8, <1>9

-----------------------------------------------------------------------------
\* Steps of the session and of its requests.

\* Nothing is written or taken back of a request that is over.
Grows ==
  /\ \A m \in Said(transcript) :
       /\ m \in Said(transcript')
       /\ transcript'[m].of = transcript[m].of /\ transcript'[m].role = transcript[m].role
  /\ \A m \in Said(transcript') : request[transcript'[m].of] = "ended" => m \in Said(transcript)
  /\ \A a \in Billed : /\ request[a] # "none" => request'[a] # "none"
                       /\ request[a] = "ended" => request'[a] = "ended"

LEMMA RestStays ==
  ASSUME UsageInv, Grows, UNCHANGED <<rows, job, finisher>>,
         \A a \in Billed : usage'[a].coverage = "complete" => usage[a].coverage = "complete"
  PROVE  /\ RowsOk(transcript, rows)' /\ JobsOk(job, transcript)'
         /\ FinishersOk(finisher, job, transcript, request, rows)'
         /\ CoverageOk(transcript, request, usage, rows)'
<1>1. RowsOk(transcript', rows')
  BY DEF UsageInv, RowsOk, Grows
<1>2. JobsOk(job', transcript')
  BY DEF UsageInv, JobsOk, JobOk, Grows
<1>3. \A a \in Billed : request[a] = "ended" => RepliesTo(transcript', a) \subseteq RepliesTo(transcript, a)
  <2>1. ASSUME NEW a \in Billed, request[a] = "ended", NEW m \in RepliesTo(transcript', a)
        PROVE  m \in RepliesTo(transcript, a)
    <3>1. m \in Said(transcript') /\ transcript'[m].of = a /\ transcript'[m].role = "assistant"
      BY <2>1 DEF RepliesTo
    <3>2. m \in Said(transcript)
      BY <2>1, <3>1 DEF Grows
    <3>3. QED
      BY <3>1, <3>2 DEF RepliesTo, Grows
  <2>2. QED
    BY <2>1
<1>4. FinishersOk(finisher', job', transcript', request', rows')
  <2>1. ASSUME NEW f \in Finisher
        PROVE  FinisherOk(f, finisher[f], job[f], transcript', request', rows)
    <3>1. f[1] \in Billed /\ FinisherOk(f, finisher[f], job[f], transcript, request, rows)
      BY DEF UsageInv, FinishersOk, Finisher
    <3>2. f[2] = "settled" /\ finisher[f].coverage = "complete" =>
            \A m \in RepliesTo(transcript', f[1]) : ToCount(m, finisher[f], job[f], rows)
      <4>1. ASSUME f[2] = "settled", finisher[f].coverage = "complete"
            PROVE  request[f[1]] = "ended"
        BY <3>1, <4>1 DEF FinisherOk
      <4>2. QED
        BY <1>3, <3>1, <4>1 DEF FinisherOk
    <3>3. /\ finisher[f].final # 0 => finisher[f].final \in Said(transcript')
          /\ \A e \in finisher[f].todo : e[1] \in Said(transcript')
      BY <3>1 DEF FinisherOk, Grows
    <3>4. /\ request[f[1]] # "none" => request'[f[1]] # "none"
          /\ request[f[1]] = "ended" => request'[f[1]] = "ended"
      BY <3>1 DEF Grows
    <3>5. QED
      BY <3>1, <3>2, <3>3, <3>4 DEF FinisherOk
  <2>2. QED
    BY <2>1 DEF FinishersOk
<1>5. CoverageOk(transcript', request', usage', rows')
  BY <1>3 DEF UsageInv, CoverageOk, Grows
<1>6. QED
  BY <1>1, <1>2, <1>4, <1>5

\* What a message says is the next one of the session.
LEMMA SaysStep ==
  ASSUME UsageInv, NEW a \in Billed, NEW role \in {"user", "assistant"}, Says(a, role),
         request[a] \in {"prepared", "running"}, role = "assistant" => request[a] = "running",
         request' = [request EXCEPT ![a] = "running"],
         UNCHANGED <<usage, rows, job, finisher, incidents>>
  PROVE  UsageInv'
<1> DEFINE m == Cardinality(Written) + 1
           p == IF role = "user" THEN 0 ELSE Max({n \in Of(a) : transcript[n].role = "user"})
           x == [role |-> role, of |-> a, parent |-> p, created |-> now + 1, version |-> 1]
<1>0. /\ now \in Nat /\ request \in [Billed -> RequestState]
      /\ transcript \in [Entry -> EntryType] /\ usage \in [Billed -> AttemptType]
      /\ Written = Said(transcript) /\ a \in Nat
  BY UsageFacts, UsageBounds DEF Billed
<1>1. /\ m \in Entry /\ now' = now + 1
      /\ transcript' = [transcript EXCEPT ![m] = x]
  BY DEF Says
<1>2. PICK n \in 0..MaxTranscript : Said(transcript) = 1..n
  BY DEF UsageInv, SessionOk
<1>3. m = n + 1 /\ n \in Nat
  <2>1. Cardinality(1..n) = n /\ n \in Nat
    BY <1>2, UsageBounds, FS_Interval
  <2>2. QED
    BY <1>0, <1>2, <2>1
<1>4. role = "assistant" => p \in Said(transcript) /\ transcript[p].of = a
  <2>1. SUFFICES ASSUME role = "assistant" PROVE p \in Said(transcript) /\ transcript[p].of = a
    OBVIOUS
  <2> DEFINE S == {k \in Of(a) : transcript[k].role = "user"}
  <2>2. request[a] = "running"
    BY <2>1
  <2>3. PICK k \in Said(transcript) : transcript[k].of = a /\ transcript[k].role = "user"
    BY <2>2 DEF UsageInv, SessionOk
  <2>4. S # {}
    BY <1>0, <2>3 DEF Of
  <2>5. S \subseteq 1..n
    BY <1>0, <1>2 DEF Of
  <2>6. Max(S) \in S
    <3> HIDE DEF S
    <3>1. S \in SUBSET Nat /\ \A y \in S : y <= n
      BY <1>3, <2>5
    <3>2. QED
      BY <1>3, <2>4, <3>1, GreatestIs
  <2>7. p = Max(S)
    BY <2>1
  <2>8. QED
    BY <1>0, <2>6, <2>7 DEF Of
<1>5. p \in Nat /\ x \in EntryType
  <2>1. p \in Nat
    <3>1. CASE role = "user"
      BY <3>1
    <3>2. CASE role = "assistant"
      <4>1. p \in 1..n
        BY <1>2, <1>4, <3>2
      <4>2. QED
        BY <1>3, <4>1
    <3>3. QED
      BY <3>1, <3>2
  <2> HIDE DEF p
  <2>2. QED
    BY <1>0, <2>1 DEF EntryType
<1> HIDE DEF p
<1>6. /\ x.of = a /\ x.created = now + 1 /\ x.version = 1 /\ x.role = role /\ x.parent = p
      /\ p = 0 \/ role = "assistant"
  BY DEF p
<1> HIDE DEF m, x
<1>7. /\ transcript' \in [Entry -> EntryType] /\ transcript'[m] = x
      /\ \A k \in Entry : k # m => transcript'[k] = transcript[k]
  BY <1>0, <1>1, <1>5
<1>8. Said(transcript') = 1..m /\ m \in Nat /\ m \notin Said(transcript)
      /\ Said(transcript') = Said(transcript) \cup {m} /\ m <= MaxTranscript
  <2>1. Said(transcript') = Said(transcript) \cup {m}
    BY <1>1, <1>6, <1>7 DEF Said
  <2>2. m \in Nat /\ 1..m = (1..n) \cup {m} /\ m \notin 1..n
    BY <1>3
  <2>3. m <= MaxTranscript
    BY <1>1, UsageBounds DEF Entry
  <2>4. QED
    BY <1>2, <2>1, <2>2, <2>3
<1>9. \A k \in Said(transcript) : k \in Said(transcript') /\ k # m /\ k \in Entry /\ transcript'[k] = transcript[k]
  BY <1>7, <1>8 DEF Said
<1>10. /\ request' \in [Billed -> RequestState] /\ request'[a] = "running"
       /\ \A b \in Billed : b # a => request'[b] = request[b]
  BY <1>0 DEF RequestState
<1>11. SessionOk(transcript', request', now')
  <2>1. \A k \in Said(transcript) : MessageOk(transcript[k], transcript, request, now)
        /\ \A j \in Said(transcript) : j < k => transcript[j].created < transcript[k].created
    BY DEF UsageInv, SessionOk
  <2>2. ASSUME NEW k \in Said(transcript)
        PROVE  MessageOk(transcript'[k], transcript', request', now') /\ transcript'[k].created < x.created
    <3>1. /\ transcript[k].of \in Billed /\ transcript[k].created \in 1..now /\ transcript[k].version \in 1..3
          /\ request[transcript[k].of] \in {"running", "ended"}
          /\ transcript[k].role = "user" => transcript[k].parent = 0
          /\ transcript[k].role = "assistant" =>
               /\ transcript[k].parent \in Said(transcript)
               /\ transcript[transcript[k].parent].of = transcript[k].of
               /\ request[transcript[k].of] = "ended" => transcript[k].version > 1
      BY <2>1 DEF MessageOk
    <3>2. request'[transcript[k].of] \in {"running", "ended"}
          /\ (request'[transcript[k].of] = "ended" => request[transcript[k].of] = "ended")
      BY <1>10, <3>1
    <3>3. transcript[k].created \in 1..now' /\ transcript[k].created < x.created
      BY <1>0, <1>1, <1>6, <3>1
    <3>4. QED
      BY <1>9, <3>1, <3>2, <3>3 DEF MessageOk
  <2>3. MessageOk(x, transcript', request', now')
    <3>1. now + 1 \in 1..now' /\ 1 \in 1..3
      BY <1>0, <1>1
    <3>2. role = "assistant" => p \in Said(transcript') /\ transcript'[p].of = a
      BY <1>4, <1>9
    <3>3. QED
      BY <1>6, <1>10, <3>1, <3>2 DEF MessageOk
  <2>4. \A k \in Said(transcript') : MessageOk(transcript'[k], transcript', request', now')
    BY <1>7, <1>8, <2>2, <2>3
  <2>5. ASSUME NEW k \in Said(transcript'), NEW j \in Said(transcript'), j < k
        PROVE  transcript'[j].created < transcript'[k].created
    <3>1. j # m
      BY <1>8, <2>5
    <3>2. j \in Said(transcript)
      BY <1>8, <3>1
    <3>3. CASE k = m
      BY <1>7, <2>2, <3>2, <3>3
    <3>4. CASE k # m
      BY <1>8, <1>9, <2>1, <2>5, <3>2, <3>4
    <3>5. QED
      BY <3>3, <3>4
  <2>6. ASSUME NEW b \in Billed, request'[b] = "running"
        PROVE  \E k \in Said(transcript') : transcript'[k].of = b /\ transcript'[k].role = "user"
    <3>1. CASE request[b] = "running"
      <4>1. PICK k \in Said(transcript) : transcript[k].of = b /\ transcript[k].role = "user"
        BY <3>1 DEF UsageInv, SessionOk
      <4>2. QED
        BY <1>9, <4>1
    <3>2. CASE request[b] # "running"
      <4>1. b = a /\ role = "user"
        BY <1>10, <2>6, <3>2
      <4>2. QED
        BY <1>6, <1>7, <1>8, <4>1
    <3>3. QED
      BY <3>1, <3>2
  <2>7. \E i \in 0..MaxTranscript : Said(transcript') = 1..i
    BY <1>8
  <2>8. QED
    BY <2>4, <2>5, <2>6, <2>7 DEF SessionOk
<1>12. AttemptsOk(transcript', request', usage', now')
  <2>1. \A b, c \in Billed : b < c /\ request[c] # "none" => request[b] \in {"ended", "orphaned"}
    BY DEF UsageInv, AttemptsOk
  <2>2. \A c \in Billed : a < c => request[c] = "none" /\ request'[c] = "none"
    BY <1>0, <1>10, <2>1
  <2>3. \A b, c \in Billed : b < c /\ request'[c] # "none" => request'[b] \in {"ended", "orphaned"}
    <3>1. \A c \in Billed : request'[c] # "none" => request[c] # "none"
      BY <1>10
    <3>2. QED
      BY <1>10, <2>1, <2>2, <3>1
  <2>4. usage[a].settled = 0 /\ usage[a].started <= now /\ usage[a].started \in Nat
    BY <1>0 DEF UsageInv, AttemptsOk, AttemptType
  <2>5. \A b \in Billed : usage[b].started <= now'
    <3>1. \A b \in Billed : usage[b].started <= now /\ usage[b].started \in Nat
      BY <1>0 DEF UsageInv, AttemptsOk, AttemptType
    <3>2. QED
      BY <1>0, <1>1, <3>1
  <2>6. \A k \in Said(transcript') : /\ usage[transcript'[k].of].started <= transcript'[k].created
                                     /\ usage[transcript'[k].of].settled # 0 =>
                                          transcript'[k].created <= usage[transcript'[k].of].settled
    <3>1. usage[x.of].started <= x.created /\ usage[x.of].settled = 0
      BY <1>0, <1>6, <2>4
    <3>2. QED
      BY <1>7, <1>8, <1>9, <3>1 DEF UsageInv, AttemptsOk
  <2>7. \A k \in Said(transcript'), b \in Billed :
          transcript'[k].of < b /\ request'[b] # "none" => transcript'[k].created < usage[b].started
    <3>1. \A b \in Billed : x.of < b => request'[b] = "none"
      BY <1>6, <2>2
    <3>2. \A b \in Billed : request'[b] # "none" => request[b] # "none"
      BY <1>10
    <3>3. \A k \in Said(transcript), b \in Billed :
          transcript[k].of < b /\ request[b] # "none" => transcript[k].created < usage[b].started
      BY DEF UsageInv, AttemptsOk
    <3>4. QED
      BY <1>7, <1>8, <1>9, <3>1, <3>2, <3>3
  <2>8. \A b \in Billed : /\ request'[b] = "none" <=> usage[b].state = "none"
                          /\ usage[b].prompt # 0 => usage[b].prompt \in Said(transcript')
                                                    /\ transcript'[usage[b].prompt].of = b
                          /\ usage[b].settled # 0 => request'[b] = "ended"
    BY <1>9, <1>10, <2>4 DEF UsageInv, AttemptsOk
  <2>9. QED
    BY <2>3, <2>5, <2>6, <2>7, <2>8 DEF AttemptsOk
<1>13. Grows
  <2>1. request[x.of] # "ended"
    BY <1>6
  <2>2. QED
    BY <1>7, <1>8, <1>9, <1>10, <2>1 DEF Grows
<1>14. UsageTypeOK'
  <2>1. now' \in Nat
    BY <1>0, <1>1
  <2>2. QED
    BY <1>0, <1>7, <1>10, <2>1, UsageFacts, TypesNext
<1>15. QED
  BY <1>11, <1>12, <1>13, <1>14, RestStays DEF UsageInv

LEMMA NoAttemptIs ==
  /\ NoAttempt \in AttemptType /\ NoAttempt.settled = 0 /\ NoAttempt.prompt = 0
  /\ NoAttempt.coverage = "unknown" /\ NoAttempt.state = "none" /\ "running" \in UsageState
<1>1. "none" \in UsageState /\ "running" \in UsageState
  BY DEF UsageState
<1>2. QED
  BY <1>1 DEF NoAttempt, AttemptType

LEMMA StartedIs ==
  ASSUME NEW n \in Nat, NEW u, u = [NoAttempt EXCEPT !.started = n, !.state = "running"]
  PROVE  /\ u \in AttemptType /\ u.started = n /\ u.settled = 0 /\ u.prompt = 0
         /\ u.state = "running" /\ u.coverage = "unknown"
BY NoAttemptIs DEF AttemptType

\* begin() comes after everything that was said before.
LEMMA BeginStep ==
  ASSUME UsageInv, NEW a \in Billed, BeginUsage(a)
  PROVE  UsageInv'
<1> DEFINE u == [NoAttempt EXCEPT !.started = now + 1, !.state = "running"]
<1>1. /\ request[a] = "none" /\ now' = now + 1 /\ now \in Nat
      /\ \A b \in Billed : IF b < a THEN request[b] \in {"ended", "orphaned"} ELSE request[b] = "none"
      /\ request' = [request EXCEPT ![a] = "prepared"] /\ usage' = [usage EXCEPT ![a] = u]
      /\ UNCHANGED <<transcript, rows, job, finisher, incidents>>
      /\ Billed \subseteq Nat
  BY UsageFacts, UsageBounds DEF BeginUsage, Billed
<1>2. /\ u.started = now + 1 /\ u.settled = 0 /\ u.prompt = 0 /\ u.state = "running"
      /\ u.coverage = "unknown" /\ u \in AttemptType
  <2>1. now + 1 \in Nat
    BY <1>1
  <2>2. u = [NoAttempt EXCEPT !.started = now + 1, !.state = "running"]
    OBVIOUS
  <2> HIDE DEF u
  <2>3. QED
    BY <2>1, <2>2, StartedIs
<1> HIDE DEF u
<1>3. /\ request' \in [Billed -> RequestState] /\ usage' \in [Billed -> AttemptType]
      /\ request'[a] = "prepared" /\ usage'[a] = u
      /\ \A b \in Billed : b # a => request'[b] = request[b] /\ usage'[b] = usage[b]
  BY <1>1, <1>2, UsageFacts DEF RequestState
<1>4. \A m \in Said(transcript) :
        /\ MessageOk(transcript[m], transcript, request, now)
        /\ transcript[m].of \in Billed /\ transcript[m].of # a /\ transcript[m].created \in 1..now
        /\ transcript[m].created < now + 1
  BY <1>1 DEF UsageInv, SessionOk, MessageOk
<1>5. SessionOk(transcript, request', now')
  <2>1. \A m \in Said(transcript) : MessageOk(transcript[m], transcript, request', now')
    BY <1>1, <1>3, <1>4 DEF MessageOk
  <2>2. \A b \in Billed : request'[b] = "running" => request[b] = "running"
    BY <1>3
  <2>3. QED
    BY <2>1, <2>2 DEF UsageInv, SessionOk
<1>6. AttemptsOk(transcript, request', usage', now')
  <2>1. \A b \in Billed : usage'[b].started <= now'
    <3>1. \A b \in Billed : usage[b].started <= now /\ usage[b].started \in Nat
      BY UsageFacts DEF UsageInv, AttemptsOk, AttemptType
    <3>2. QED
      BY <1>1, <1>2, <1>3, <3>1
  <2>2. \A b \in Billed : request'[b] = "none" <=> usage'[b].state = "none"
    BY <1>2, <1>3 DEF UsageInv, AttemptsOk
  <2>3. ASSUME NEW b \in Billed, NEW c \in Billed, b < c, request'[c] # "none"
        PROVE  request'[b] \in {"ended", "orphaned"}
    <3>1. ~(a < c)
      BY <1>1, <1>3, <2>3
    <3>2. b < a
      BY <1>1, <2>3, <3>1
    <3>3. QED
      BY <1>1, <1>3, <3>2
  <2>4. \A m \in Said(transcript) : /\ usage'[transcript[m].of].started <= transcript[m].created
                                    /\ usage'[transcript[m].of].settled # 0 =>
                                         transcript[m].created <= usage'[transcript[m].of].settled
    BY <1>3, <1>4 DEF UsageInv, AttemptsOk
  <2>5. \A m \in Said(transcript), b \in Billed :
          transcript[m].of < b /\ request'[b] # "none" => transcript[m].created < usage'[b].started
    BY <1>2, <1>3, <1>4 DEF UsageInv, AttemptsOk
  <2>6. \A b \in Billed : /\ usage'[b].prompt # 0 => usage'[b].prompt \in Said(transcript)
                                                     /\ transcript[usage'[b].prompt].of = b
                          /\ usage'[b].settled # 0 => request'[b] = "ended"
    BY <1>2, <1>3 DEF UsageInv, AttemptsOk
  <2>7. QED
    BY <2>1, <2>2, <2>3, <2>4, <2>5, <2>6 DEF AttemptsOk
<1>7. Grows
  BY <1>1, <1>3 DEF Grows
<1>8. \A b \in Billed : usage'[b].coverage = "complete" => usage[b].coverage = "complete"
  BY <1>2, <1>3
<1>9. UsageTypeOK'
  <2>1. now' \in Nat
    BY <1>1
  <2>2. QED
    BY <1>1, <1>3, <2>1, UsageFacts, TypesNext
<1>10. QED
  BY <1>1, <1>5, <1>6, <1>7, <1>8, <1>9, RestStays DEF UsageInv

LEMMA SayingStep ==
  ASSUME UsageInv, NEW a \in Billed, Prompted(a) \/ Continues(a)
  PROVE  UsageInv'
<1>1. CASE Prompted(a)
  BY <1>1, SaysStep DEF Prompted
<1>2. CASE Continues(a)
  <2>1. PICK role \in {"user", "assistant"} : Says(a, role)
    BY <1>2 DEF Continues
  <2>2. request[a] = "running" /\ request' = [request EXCEPT ![a] = "running"]
    BY <1>2, UsageFacts DEF Continues
  <2>3. UNCHANGED <<usage, rows, job, finisher, incidents>>
    BY <1>2 DEF Continues
  <2>4. QED
    BY <2>1, <2>2, <2>3, SaysStep
<1>3. QED
  BY <1>1, <1>2

LEMMA RevisionStep ==
  ASSUME UsageInv, NEW m \in Entry, NEW from \in {1, 2}, Revises(m, from)
  PROVE  UsageInv'
<1> DEFINE x == [transcript[m] EXCEPT !.version = @ + 1]
<1>1. /\ m \in Said(transcript) /\ request[transcript[m].of] = "running"
      /\ transcript[m].version = from /\ transcript[m] \in EntryType
      /\ transcript' = [transcript EXCEPT ![m] = x]
      /\ UNCHANGED <<now, request, usage, rows, job, finisher, incidents>>
  BY UsageFacts DEF Revises
<1>2. /\ x \in EntryType /\ x.role = transcript[m].role /\ x.of = transcript[m].of
      /\ x.parent = transcript[m].parent /\ x.created = transcript[m].created
      /\ x.version \in 2..3
  BY <1>1 DEF EntryType
<1> HIDE DEF x
<1>3. /\ transcript' \in [Entry -> EntryType] /\ transcript'[m] = x
      /\ \A k \in Entry : k # m => transcript'[k] = transcript[k]
  BY <1>1, <1>2, UsageFacts
<1>4. \A k \in Entry : /\ transcript'[k].role = transcript[k].role /\ transcript'[k].of = transcript[k].of
                       /\ transcript'[k].parent = transcript[k].parent
                       /\ transcript'[k].created = transcript[k].created
  BY <1>2, <1>3
<1>5. Said(transcript') = Said(transcript) /\ Said(transcript) \subseteq Entry
  BY <1>4 DEF Said
<1>6. SessionOk(transcript', request', now')
  <2>1. ASSUME NEW k \in Said(transcript)
        PROVE  MessageOk(transcript'[k], transcript', request, now)
    <3>1. MessageOk(transcript[k], transcript, request, now)
      BY DEF UsageInv, SessionOk
    <3>2. transcript'[k].version \in 1..3 /\ (transcript[k].version > 1 => transcript'[k].version > 1)
      BY <1>1, <1>2, <1>3, <1>5, <3>1 DEF MessageOk
    <3>3. transcript[k].role = "assistant" => transcript'[transcript[k].parent].of = transcript[k].of
      BY <1>4, <1>5, <3>1 DEF MessageOk
    <3>4. k \in Entry
      BY <1>5
    <3>5. QED
      BY <1>4, <1>5, <3>1, <3>2, <3>3, <3>4 DEF MessageOk
  <2>2. \A k \in Said(transcript) : k \in Entry
    BY <1>5
  <2>3. \A k, i \in Said(transcript) : k < i => transcript'[k].created < transcript'[i].created
    BY <1>4, <2>2 DEF UsageInv, SessionOk
  <2>4. \A b \in Billed : request[b] = "running" =>
          \E k \in Said(transcript) : transcript'[k].of = b /\ transcript'[k].role = "user"
    BY <1>4, <2>2 DEF UsageInv, SessionOk
  <2>5. \E n \in 0..MaxTranscript : Said(transcript) = 1..n
    BY DEF UsageInv, SessionOk
  <2>6. SessionOk(transcript', request, now)
    BY <1>5, <2>1, <2>3, <2>4, <2>5 DEF SessionOk
  <2>7. QED
    BY <1>1, <2>6
<1>7. AttemptsOk(transcript', request', usage', now')
  <2>1. \A k \in Said(transcript) : transcript'[k].of = transcript[k].of /\ transcript'[k].created = transcript[k].created
    BY <1>4, <1>5
  <2>2. \A b \in Billed : usage[b].prompt # 0 => usage[b].prompt \in Said(transcript)
                                                  /\ transcript'[usage[b].prompt].of = b
    BY <2>1 DEF UsageInv, AttemptsOk
  <2>3. /\ \A b \in Billed : usage[b].started <= now
        /\ \A b \in Billed : request[b] = "none" <=> usage[b].state = "none"
        /\ \A b, c \in Billed : b < c /\ request[c] # "none" => request[b] \in {"ended", "orphaned"}
        /\ \A b \in Billed : usage[b].settled # 0 => request[b] = "ended"
    BY DEF UsageInv, AttemptsOk
  <2>4. /\ \A k \in Said(transcript) : usage[transcript'[k].of].started <= transcript'[k].created
        /\ \A k \in Said(transcript), b \in Billed :
             transcript'[k].of < b /\ request[b] # "none" => transcript'[k].created < usage[b].started
        /\ \A k \in Said(transcript) : usage[transcript'[k].of].settled # 0 =>
             transcript'[k].created <= usage[transcript'[k].of].settled
    BY <2>1 DEF UsageInv, AttemptsOk
  <2>5. AttemptsOk(transcript', request, usage, now)
    BY <1>5, <2>2, <2>3, <2>4 DEF AttemptsOk
  <2>6. QED
    BY <1>1, <2>5
<1>8. Grows
  BY <1>1, <1>4, <1>5 DEF Grows
<1>9. UsageTypeOK'
  BY <1>1, <1>3, UsageFacts, TypesNext
<1>10. QED
  BY <1>1, <1>6, <1>7, <1>8, <1>9, RestStays DEF UsageInv

LEMMA EndStep ==
  ASSUME UsageInv, NEW a \in Billed, RequestEnds(a)
  PROVE  UsageInv'
<1>1. /\ request[a] = "running" /\ request' = [request EXCEPT ![a] = "ended"]
      /\ \A m \in Said(transcript) :
           transcript[m].of = a /\ transcript[m].role = "assistant" => transcript[m].version > 1
      /\ UNCHANGED <<now, transcript, usage, rows, job, finisher, incidents>>
  BY UsageFacts DEF RequestEnds, Of
<1>2. /\ request' \in [Billed -> RequestState] /\ request'[a] = "ended"
      /\ \A b \in Billed : b # a => request'[b] = request[b]
  BY <1>1, UsageFacts DEF RequestState
<1>3. SessionOk(transcript', request', now')
  <2>1. \A m \in Said(transcript) : MessageOk(transcript[m], transcript, request', now)
    BY <1>1, <1>2 DEF UsageInv, SessionOk, MessageOk
  <2>2. \A b \in Billed : request'[b] = "running" => request[b] = "running"
    BY <1>2
  <2>3. QED
    BY <1>1, <2>1, <2>2 DEF UsageInv, SessionOk
<1>4. AttemptsOk(transcript', request', usage', now')
  <2>1. \A b \in Billed : /\ request'[b] = "none" <=> request[b] = "none"
                          /\ request[b] \in {"ended", "orphaned"} => request'[b] \in {"ended", "orphaned"}
                          /\ request[b] = "ended" => request'[b] = "ended"
    BY <1>1, <1>2
  <2>2. QED
    BY <1>1, <2>1 DEF UsageInv, AttemptsOk
<1>5. Grows
  BY <1>1, <1>2 DEF Grows
<1>6. UsageTypeOK'
  BY <1>1, <1>2, UsageFacts, TypesNext
<1>7. QED
  BY <1>1, <1>3, <1>4, <1>5, <1>6, RestStays DEF UsageInv

-----------------------------------------------------------------------------
\* Steps of an observation.

\* What the observations and finish() write leaves the rest as it was.
LEMMA ObservationStep ==
  ASSUME UsageInv, NEW t \in Observing, NEW j \in JobType, JobOk(j, transcript),
         job' = [job EXCEPT ![t] = j], UNCHANGED <<now, request, transcript, finisher>>,
         incidents' \in 0..MaxIncidents,
         rows' \in [Entry -> RowType], RowsOk(transcript, rows'),
         \A m \in Entry : rows[m].version > 1 => rows'[m].version > 1,
         usage' \in [Billed -> AttemptType], AttemptsOk(transcript, request, usage', now),
         \A a \in Billed : usage'[a].coverage = "complete" => usage[a].coverage = "complete",
         t \in Finisher =>
           /\ finisher[t].at \in {"none", "done"} => j.at = "idle"
           /\ \A m \in RepliesTo(transcript, t[1]) :
                ToCount(m, finisher[t], job[t], rows) => ToCount(m, finisher[t], j, rows')
  PROVE  UsageInv'
<1>1. /\ job' \in [Observing -> JobType] /\ job'[t] = j
      /\ \A s \in Observing : s # t => job'[s] = job[s]
  BY UsageFacts
<1>2. JobsOk(job', transcript')
  BY <1>1 DEF UsageInv, JobsOk
<1>3. \A m \in Entry : \A x, i : ToCount(m, x, i, rows) => ToCount(m, x, i, rows')
  BY DEF ToCount
<1>4. \A a : RepliesTo(transcript, a) \subseteq Entry
  BY DEF RepliesTo, Said
<1>5. ASSUME NEW f \in Finisher
      PROVE  FinisherOk(f, finisher[f], job'[f], transcript, request, rows')
  <2>1. f \in Observing /\ FinisherOk(f, finisher[f], job[f], transcript, request, rows)
    BY DEF UsageInv, FinishersOk, Observing
  <2>2. \A m \in RepliesTo(transcript, f[1]) :
          ToCount(m, finisher[f], job[f], rows) => ToCount(m, finisher[f], job'[f], rows')
    BY <1>1, <1>3, <1>4, <2>1
  <2>3. finisher[f].at \in {"none", "done"} => job'[f].at = "idle"
    BY <1>1, <2>1 DEF FinisherOk
  <2>4. QED
    BY <2>1, <2>2, <2>3 DEF FinisherOk
<1>6. FinishersOk(finisher', job', transcript', request', rows')
  BY <1>5 DEF FinishersOk
<1>7. CoverageOk(transcript', request', usage', rows')
  BY <1>4 DEF UsageInv, CoverageOk
<1>8. UsageTypeOK'
  BY <1>1, UsageFacts, TypesNext
<1>9. QED
  BY <1>2, <1>6, <1>7, <1>8 DEF UsageInv

LEMMA NoJobIs == NoJob \in JobType /\ NoJob.at = "idle" /\ \A tr : JobOk(NoJob, tr)
<1>1. 0 \in 0..MaxUsage /\ 0 \in 0..3 /\ 0 \in Nat
  BY UsageBounds
<1>2. QED
  BY <1>1 DEF NoJob, JobType, JobOk

LEMMA JobIs ==
  ASSUME NEW tr, NEW m \in Said(tr), m \in Nat, NEW v \in 1..3, NEW b \in BOOLEAN
  PROVE  /\ Job(m, v, b) \in JobType /\ Job(m, v, b).at = "find" /\ Job(m, v, b).message = m
         /\ Job(m, v, b).version = v /\ (Job(m, v, b).authoritative <=> b)
         /\ JobOk(Job(m, v, b), tr)
<1> DEFINE j == [NoJob EXCEPT !.at = "find", !.message = m, !.version = v, !.authoritative = b]
<1>1. Job(m, v, b) = j
  BY DEF Job
<1>2. j \in JobType /\ j.at = "find" /\ j.message = m /\ j.version = v /\ (j.authoritative <=> b)
  <2>1. v \in 0..3 /\ j = [NoJob EXCEPT !.at = "find", !.message = m, !.version = v, !.authoritative = b]
    OBVIOUS
  <2> HIDE DEF j
  <2>2. QED
    BY <2>1, NoJobIs DEF JobType
<1> HIDE DEF j
<1>3. JobOk(j, tr)
  BY <1>2 DEF JobOk
<1>4. QED
  BY <1>1, <1>2, <1>3

\* An observation is of a message of the session.
LEMMA ObservedIs ==
  ASSUME UsageInv, NEW t \in Observing, job[t].at # "idle"
  PROVE  /\ job[t] \in JobType /\ job[t].message \in Said(transcript) /\ job[t].message \in Entry
         /\ job[t].message \in Nat /\ job[t].version \in 1..3 /\ JobOk(job[t], transcript)
         /\ t \in Finisher => finisher[t].at \notin {"none", "done"}
<1>1. JobOk(job[t], transcript) /\ job[t] \in JobType
  BY UsageFacts DEF UsageInv, JobsOk
<1>2. t \in Finisher => FinisherOk(t, finisher[t], job[t], transcript, request, rows)
  BY DEF UsageInv, FinishersOk
<1>3. QED
  BY <1>1, <1>2 DEF JobOk, JobType, FinisherOk, Said

LEMMA EventStep ==
  ASSUME UsageInv, NEW o \in Observer, NEW m \in Entry, EventArrives(o, m)
  PROVE  UsageInv'
<1> DEFINE j == Job(m, transcript[m].version, FALSE)
<1>1. /\ o \in Observing /\ o \notin Finisher /\ m \in Said(transcript)
      /\ job' = [job EXCEPT ![o] = j] /\ UNCHANGED <<session, usage, rows, finisher>>
  BY UsageFacts DEF EventArrives, Observing
<1>2. incidents' \in 0..MaxIncidents
  BY UsageFacts, UsageBounds DEF EventArrives, Incident
<1>3. m \in Nat /\ transcript[m].version \in 1..3
  BY <1>1, WrittenIs, UsageBounds DEF Entry
<1>4. j \in JobType /\ JobOk(j, transcript)
  BY <1>1, <1>3, JobIs
<1> HIDE DEF j
<1>5. UNCHANGED <<now, request, transcript, usage, rows, finisher>>
  BY <1>1 DEF session
<1>6. /\ RowsOk(transcript, rows') /\ AttemptsOk(transcript, request, usage', now)
      /\ rows' \in [Entry -> RowType] /\ usage' \in [Billed -> AttemptType]
  BY <1>5, UsageFacts DEF UsageInv
<1>7. QED
  BY <1>1, <1>2, <1>4, <1>5, <1>6, ObservationStep

LEMMA FindStep ==
  ASSUME UsageInv, NEW t \in Observing, FindAttempt(t)
  PROVE  UsageInv'
<1> DEFINE m == job[t].message
           a == FindUsage(m)
           user == transcript[m].role = "user"
           none == a = 0 \/ (user /\ ~(InWindow(a, m) /\ usage[a].prompt = 0))
           found == [job[t] EXCEPT !.at = IF user THEN "prompt" ELSE "record", !.attempt = a,
                                   !.attributed = InWindow(a, m) \/ Answers(a, m)]
           j == IF none THEN NoJob ELSE found
<1>1. /\ job[t].at = "find" /\ job' = [job EXCEPT ![t] = j]
      /\ UNCHANGED <<now, request, transcript, usage, rows, finisher, incidents>>
  BY UsageFacts DEF FindAttempt, session
<1>2. /\ job[t] \in JobType /\ m \in Said(transcript) /\ m \in Entry /\ job[t].version \in 1..3
      /\ t \in Finisher => finisher[t].at \notin {"none", "done"}
  BY <1>1, ObservedIs
<1>3. /\ a \in Billed /\ a \in 0..MaxUsage /\ a # 0
      /\ InWindow(a, m) \/ Answers(a, m) => a = transcript[m].of
  BY <1>2, FindIs, UsageBounds DEF Billed
<1>4. InWindow(a, m) \/ Answers(a, m) \in BOOLEAN
  BY DEF InWindow, Answers
<1>5. /\ found \in JobType /\ found.message = m /\ found.version = job[t].version
      /\ found.authoritative = job[t].authoritative /\ found.attempt = a
      /\ found.at = IF user THEN "prompt" ELSE "record"
      /\ found.attributed = (InWindow(a, m) \/ Answers(a, m))
  <2> DEFINE at == IF user THEN "prompt" ELSE "record"
             b == InWindow(a, m) \/ Answers(a, m)
  <2>1. at \in {"prompt", "record"} /\ b \in BOOLEAN
    BY <1>4
  <2>2. found = [job[t] EXCEPT !.at = at, !.attempt = a, !.attributed = b]
    OBVIOUS
  <2>3. a \in 0..MaxUsage
    BY <1>3
  <2> HIDE DEF a, b, at, found
  <2>5. /\ found \in JobType /\ found.message = m /\ found.version = job[t].version
        /\ found.authoritative = job[t].authoritative /\ found.attempt = a
        /\ found.at = at /\ found.attributed = b
    BY <1>2, <2>1, <2>2, <2>3 DEF JobType
  <2>6. QED
    BY <2>5 DEF at, b
<1> HIDE DEF found, a
<1>6. j \in JobType /\ JobOk(j, transcript)
  <2>1. CASE none
    BY <2>1, NoJobIs
  <2>2. CASE ~none
    <3>1. j = found
      BY <2>2
    <3>2. user => a = transcript[m].of
      BY <1>3, <2>2
    <3>3. found.at \in {"prompt", "record"} /\ (found.at = "prompt" <=> user)
      BY <1>5
    <3>4. found.attributed => found.attempt = transcript[found.message].of
      BY <1>3, <1>5
    <3>5. found.message \in Said(transcript) /\ found.version >= 1
      BY <1>2, <1>5
    <3>6. found.at = "prompt" => found.attempt = transcript[found.message].of
      BY <1>5, <3>2, <3>3
    <3> HIDE DEF user
    <3>7. JobOk(found, transcript)
      BY <3>3, <3>4, <3>5, <3>6 DEF JobOk
    <3>8. QED
      BY <1>5, <3>1, <3>7
  <2>3. QED
    BY <2>1, <2>2
<1>7. \A k \in RepliesTo(transcript, t[1]) :
        ToCount(k, finisher[t], job[t], rows) => ToCount(k, finisher[t], j, rows)
  <2>1. CASE user
    BY <2>1 DEF RepliesTo, ToCount
  <2>2. CASE ~user
    <3>1. j = found
      BY <1>3, <2>2
    <3>2. QED
      BY <1>1, <1>5, <2>2, <3>1 DEF ToCount
  <2>3. QED
    BY <2>1, <2>2
<1> HIDE DEF j
<1>8. /\ RowsOk(transcript, rows') /\ AttemptsOk(transcript, request, usage', now)
      /\ rows' \in [Entry -> RowType] /\ usage' \in [Billed -> AttemptType]
      /\ incidents' \in 0..MaxIncidents
  BY <1>1, UsageFacts DEF UsageInv
<1>9. QED
  BY <1>1, <1>2, <1>6, <1>7, <1>8, ObservationStep

LEMMA RereadStep ==
  ASSUME UsageInv, NEW t \in Observing, Reread(t)
  PROVE  UsageInv'
<1> DEFINE m == job[t].message
<1>1. /\ job[t].at = "reread" /\ UNCHANGED <<now, request, transcript, usage, rows, finisher, incidents>>
      /\ \/ job' = [job EXCEPT ![t] = Job(m, transcript[m].version, TRUE)]
         \/ job' = [job EXCEPT ![t] = NoJob]
  BY DEF Reread, session
<1>2. /\ m \in Said(transcript) /\ m \in Nat
      /\ t \in Finisher => finisher[t].at \notin {"none", "done"}
  BY <1>1, ObservedIs
<1>3. transcript[m].version \in 1..3
  BY <1>2, WrittenIs
<1>4. PICK j : /\ j \in JobType /\ JobOk(j, transcript) /\ job' = [job EXCEPT ![t] = j]
  <2>1. Job(m, transcript[m].version, TRUE) \in JobType
        /\ JobOk(Job(m, transcript[m].version, TRUE), transcript)
    BY <1>2, <1>3, JobIs
  <2>2. QED
    BY <1>1, <2>1, NoJobIs
<1>5. \A k \in RepliesTo(transcript, t[1]) :
        ToCount(k, finisher[t], job[t], rows) => ToCount(k, finisher[t], j, rows)
  BY <1>1 DEF ToCount
<1>6. /\ RowsOk(transcript, rows') /\ AttemptsOk(transcript, request, usage', now)
      /\ rows' \in [Entry -> RowType] /\ usage' \in [Billed -> AttemptType]
      /\ incidents' \in 0..MaxIncidents
  BY <1>1, UsageFacts DEF UsageInv
<1>7. QED
  BY <1>1, <1>2, <1>4, <1>5, <1>6, ObservationStep

LEMMA PromptStep ==
  ASSUME UsageInv, NEW t \in Observing, RecordPrompt(t)
  PROVE  UsageInv'
<1> DEFINE m == job[t].message
           a == job[t].attempt
           u == [usage[a] EXCEPT !.prompt = IF @ = 0 THEN m ELSE @]
<1>1. /\ job[t].at = "prompt" /\ job' = [job EXCEPT ![t] = NoJob]
      /\ UNCHANGED <<now, request, transcript, rows, finisher, incidents>>
      /\ usage' = [usage EXCEPT ![a] = u]
  BY DEF RecordPrompt, session
<1>2. /\ m \in Said(transcript) /\ m \in Nat /\ a = transcript[m].of
      /\ t \in Finisher => finisher[t].at \notin {"none", "done"}
  BY <1>1, ObservedIs DEF JobOk
<1>3. a \in Billed
  BY <1>2, WrittenIs
<1>4. usage[a] \in AttemptType
  BY <1>3, UsageFacts
<1>5. /\ u \in AttemptType /\ u.started = usage[a].started /\ u.settled = usage[a].settled
      /\ u.state = usage[a].state /\ u.coverage = usage[a].coverage /\ u.prompt \in {usage[a].prompt, m}
  BY <1>2, <1>4 DEF AttemptType
<1> HIDE DEF u
<1>6. /\ usage' \in [Billed -> AttemptType] /\ usage'[a] = u
      /\ \A b \in Billed : b # a => usage'[b] = usage[b]
  BY <1>1, <1>3, <1>5, UsageFacts
<1>7. \A b \in Billed : /\ usage'[b].started = usage[b].started /\ usage'[b].settled = usage[b].settled
                        /\ usage'[b].state = usage[b].state /\ usage'[b].coverage = usage[b].coverage
                        /\ usage'[b].prompt # 0 => usage'[b].prompt \in Said(transcript)
                                                   /\ transcript[usage'[b].prompt].of = b
  BY <1>2, <1>3, <1>5, <1>6 DEF UsageInv, AttemptsOk
<1>8. AttemptsOk(transcript, request, usage', now)
  <2>1. \A k \in Said(transcript) : transcript[k].of \in Billed
    BY WrittenIs
  <2>2. QED
    BY <1>7, <2>1 DEF UsageInv, AttemptsOk
<1>9. \A k \in RepliesTo(transcript, t[1]) :
        ToCount(k, finisher[t], job[t], rows) => ToCount(k, finisher[t], NoJob, rows)
  BY <1>1 DEF ToCount
<1>10. /\ RowsOk(transcript, rows') /\ rows' \in [Entry -> RowType] /\ incidents' \in 0..MaxIncidents
  BY <1>1, UsageFacts DEF UsageInv
<1>11. QED
  BY <1>1, <1>2, <1>6, <1>7, <1>8, <1>9, <1>10, NoJobIs, ObservationStep

\* An event that conflicts with a completed row costs the attempt its
\* coverage, and the message is read.
LEMMA ConflictStep ==
  ASSUME UsageInv, NEW t \in Observing, RecordUsage(t),
         ~job[t].authoritative, Conflicts(job[t].message, job[t].version)
  PROVE  UsageInv'
<1> DEFINE m == job[t].message
           a == IF job[t].attributed THEN job[t].attempt ELSE 0
           owner == IF rows[m].attempt # 0 THEN rows[m].attempt ELSE a
           j == [job[t] EXCEPT !.at = "reread"]
           Marked(u) == [u EXCEPT !.coverage = "partial"]
<1>1. /\ job[t].at = "record" /\ job' = [job EXCEPT ![t] = j]
      /\ usage' = [b \in Billed |-> IF b = owner THEN Marked(usage[b]) ELSE usage[b]]
      /\ UNCHANGED <<now, request, transcript, rows, finisher, incidents>>
  BY DEF RecordUsage, session
<1>2. /\ job[t] \in JobType /\ m \in Said(transcript) /\ job[t].version >= 1
      /\ t \in Finisher => finisher[t].at \notin {"none", "done"}
  BY <1>1, ObservedIs
<1>3. /\ j \in JobType /\ j.message = m /\ j.version = job[t].version /\ j.at = "reread"
  BY <1>2 DEF JobType
<1> HIDE DEF j, owner
<1>4. JobOk(j, transcript)
  BY <1>2, <1>3 DEF JobOk
<1>5. \A u \in AttemptType :
        /\ Marked(u) \in AttemptType /\ Marked(u).started = u.started /\ Marked(u).settled = u.settled
        /\ Marked(u).prompt = u.prompt /\ Marked(u).state = u.state /\ Marked(u).coverage = "partial"
  BY DEF AttemptType
<1> HIDE DEF Marked
<1>6. \A b \in Billed : usage'[b] \in {usage[b], Marked(usage[b])} /\ usage[b] \in AttemptType
  BY <1>1, UsageFacts
<1>7. usage' \in [Billed -> AttemptType]
  BY <1>1, <1>5, <1>6
<1>8. \A b \in Billed : /\ usage'[b].started = usage[b].started /\ usage'[b].settled = usage[b].settled
                        /\ usage'[b].prompt = usage[b].prompt /\ usage'[b].state = usage[b].state
                        /\ usage'[b].coverage = "complete" => usage[b].coverage = "complete"
  BY <1>5, <1>6
<1>9. AttemptsOk(transcript, request, usage', now)
  <2>1. \A k \in Said(transcript) : transcript[k].of \in Billed
    BY WrittenIs
  <2>2. QED
    BY <1>8, <2>1 DEF UsageInv, AttemptsOk
<1>10. \A k \in RepliesTo(transcript, t[1]) :
        ToCount(k, finisher[t], job[t], rows) => ToCount(k, finisher[t], j, rows)
  BY DEF ToCount
<1>11. /\ RowsOk(transcript, rows') /\ rows' \in [Entry -> RowType] /\ incidents' \in 0..MaxIncidents
  BY <1>1, UsageFacts DEF UsageInv
<1>12. QED
  BY <1>1, <1>2, <1>3, <1>4, <1>7, <1>8, <1>9, <1>10, <1>11, ObservationStep

\* The upsert keeps completed usage, and what it writes is the message's own.
LEMMA UpsertIs ==
  ASSUME UsageInv, NEW m \in Said(transcript), NEW v \in 1..3, NEW a \in 0..MaxUsage,
         a # 0 => a = transcript[m].of
  PROVE  /\ Upserted(m, a, v) \in RowType
         /\ Upserted(m, a, v).attempt # 0 => Upserted(m, a, v).attempt = transcript[m].of
         /\ rows[m].version > 1 \/ v > 1 => Upserted(m, a, v).version > 1
<1>1. m \in Entry /\ rows[m] \in RowType
  BY UsageFacts DEF Said
<1>2. rows[m].attempt # 0 => rows[m].attempt = transcript[m].of
  BY <1>1 DEF UsageInv, RowsOk
<1>3. CASE rows[m].version > 1 /\ v = 1
  BY <1>1, <1>2, <1>3 DEF Upserted
<1>4. CASE ~(rows[m].version > 1 /\ v = 1)
  <2> DEFINE x == IF rows[m].attempt # 0 THEN rows[m].attempt ELSE a
  <2>1. x \in 0..MaxUsage /\ (x # 0 => x = transcript[m].of)
    BY <1>1, <1>2 DEF RowType
  <2>2. Upserted(m, a, v) = [attempt |-> x, version |-> v]
    BY <1>4 DEF Upserted
  <2> HIDE DEF x
  <2>3. v \in 0..3 /\ rows[m].version \in 0..3
    BY <1>1 DEF RowType
  <2>4. QED
    BY <1>4, <2>1, <2>2, <2>3 DEF RowType
<1>5. QED
  BY <1>3, <1>4

LEMMA UpsertStep ==
  ASSUME UsageInv, NEW t \in Observing, RecordUsage(t),
         ~(~job[t].authoritative /\ Conflicts(job[t].message, job[t].version))
  PROVE  UsageInv'
<1> DEFINE m == job[t].message
           v == job[t].version
           a == IF job[t].attributed THEN job[t].attempt ELSE 0
           r == Upserted(m, a, v)
<1>1. /\ job[t].at = "record" /\ job' = [job EXCEPT ![t] = NoJob]
      /\ rows' = [rows EXCEPT ![m] = r]
      /\ UNCHANGED <<now, request, transcript, usage, finisher, incidents>>
  BY DEF RecordUsage, session
<1>2. /\ job[t] \in JobType /\ m \in Said(transcript) /\ m \in Entry /\ v \in 1..3
      /\ JobOk(job[t], transcript)
      /\ t \in Finisher => finisher[t].at \notin {"none", "done"}
  BY <1>1, ObservedIs
<1>3. a \in 0..MaxUsage /\ (a # 0 => a = transcript[m].of)
  <2>1. 0 \in 0..MaxUsage
    BY UsageBounds
  <2>2. job[t].attributed => job[t].attempt = transcript[m].of /\ job[t].attempt \in 0..MaxUsage
    BY <1>1, <1>2 DEF JobOk, JobType
  <2>3. QED
    BY <2>1, <2>2
<1> HIDE DEF a
<1>4. /\ r \in RowType
      /\ r.attempt # 0 => r.attempt = transcript[m].of
      /\ rows[m].version > 1 \/ v > 1 => r.version > 1
  BY <1>2, <1>3, UpsertIs
<1> HIDE DEF r
<1>5. /\ rows' \in [Entry -> RowType] /\ rows'[m] = r
      /\ \A k \in Entry : k # m => rows'[k] = rows[k]
  <2>1. m \in Entry /\ rows' = [rows EXCEPT ![m] = r] /\ rows \in [Entry -> RowType]
    BY <1>1, <1>2, UsageFacts
  <2> HIDE DEF m
  <2>2. QED
    BY <1>4, <2>1
<1>6. RowsOk(transcript, rows')
  BY <1>2, <1>4, <1>5 DEF UsageInv, RowsOk
<1>7. \A k \in Entry : rows[k].version > 1 => rows'[k].version > 1
  BY <1>4, <1>5
<1>8. \A k \in RepliesTo(transcript, t[1]) :
        ToCount(k, finisher[t], job[t], rows) => ToCount(k, finisher[t], NoJob, rows')
  <2>1. ASSUME NEW k \in RepliesTo(transcript, t[1]), ToCount(k, finisher[t], job[t], rows)
        PROVE  ToCount(k, finisher[t], NoJob, rows')
    <3>1. k \in Entry
      BY DEF RepliesTo, Said
    <3>2. CASE job[t].message = k /\ job[t].version > 1
      BY <1>4, <1>5, <3>2 DEF ToCount
    <3>3. CASE ~(job[t].message = k /\ job[t].version > 1)
      BY <1>7, <2>1, <3>1, <3>3 DEF ToCount
    <3>4. QED
      BY <3>2, <3>3
  <2>2. QED
    BY <2>1
<1>9. /\ AttemptsOk(transcript, request, usage', now) /\ usage' \in [Billed -> AttemptType]
      /\ incidents' \in 0..MaxIncidents
  BY <1>1, UsageFacts DEF UsageInv
<1>10. QED
  BY <1>1, <1>2, <1>5, <1>6, <1>7, <1>8, <1>9, NoJobIs, ObservationStep

LEMMA ObservedStep ==
  ASSUME UsageInv, NEW t \in Observing, ObserveStep(t)
  PROVE  UsageInv'
BY FindStep, PromptStep, ConflictStep, UpsertStep, RereadStep DEF ObserveStep

-----------------------------------------------------------------------------
\* Steps of finish().

\* A step of one finish(), which may settle the request and its attempt.
LEMMA FinishingStep ==
  ASSUME UsageInv, NEW f \in Finisher, NEW x \in FinisherType, NEW j \in JobType,
         finisher' = [finisher EXCEPT ![f] = x], job' = [job EXCEPT ![f] = j],
         UNCHANGED <<now, transcript, rows>>, incidents' \in 0..MaxIncidents,
         JobOk(j, transcript), FinisherOk(f, x, j, transcript, request', rows),
         request' \in [Billed -> RequestState],
         \A a \in Billed : /\ request[a] # "none" => request'[a] # "none"
                           /\ request[a] = "ended" => request'[a] = "ended",
         SessionOk(transcript, request', now),
         usage' \in [Billed -> AttemptType], AttemptsOk(transcript, request', usage', now),
         CoverageOk(transcript, request', usage', rows)
  PROVE  UsageInv'
<1>1. f \in Observing
  BY DEF Observing
<1>2. /\ job' \in [Observing -> JobType] /\ job'[f] = j
      /\ \A s \in Observing : s # f => job'[s] = job[s]
      /\ finisher' \in [Finisher -> FinisherType] /\ finisher'[f] = x
      /\ \A g \in Finisher : g # f => finisher'[g] = finisher[g]
  BY <1>1, UsageFacts
<1>3. JobsOk(job', transcript')
  BY <1>2 DEF UsageInv, JobsOk
<1>4. ASSUME NEW g \in Finisher
      PROVE  FinisherOk(g, finisher'[g], job'[g], transcript, request', rows)
  <2>1. CASE g = f
    BY <1>2, <2>1
  <2>2. CASE g # f
    <3>1. g \in Observing /\ g[1] \in Billed /\ FinisherOk(g, finisher[g], job[g], transcript, request, rows)
      BY DEF UsageInv, FinishersOk, Observing, Finisher
    <3>2. finisher'[g] = finisher[g] /\ job'[g] = job[g]
      BY <1>2, <2>2, <3>1
    <3>3. FinisherOk(g, finisher[g], job[g], transcript, request', rows)
      BY <3>1 DEF FinisherOk
    <3>4. QED
      BY <3>2, <3>3
  <2>3. QED
    BY <2>1, <2>2
<1>5. FinishersOk(finisher', job', transcript', request', rows')
  BY <1>4 DEF FinishersOk
<1>6. UsageTypeOK'
  BY <1>2, UsageFacts, TypesNext
<1>7. RowsOk(transcript', rows')
  BY DEF UsageInv
<1>8. QED
  BY <1>3, <1>5, <1>6, <1>7 DEF UsageInv

\* A step of finish() of which the request and its attempt know nothing.
LEMMA ReadingStep ==
  ASSUME UsageInv, NEW f \in Finisher, NEW x \in FinisherType, NEW j \in JobType,
         finisher' = [finisher EXCEPT ![f] = x], job' = [job EXCEPT ![f] = j],
         UNCHANGED <<now, request, transcript, usage, rows>>, incidents' \in 0..MaxIncidents,
         JobOk(j, transcript), FinisherOk(f, x, j, transcript, request, rows)
  PROVE  UsageInv'
<1>1. /\ SessionOk(transcript, request', now) /\ AttemptsOk(transcript, request', usage', now)
      /\ CoverageOk(transcript, request', usage', rows)
      /\ request' \in [Billed -> RequestState] /\ usage' \in [Billed -> AttemptType]
      /\ FinisherOk(f, x, j, transcript, request', rows)
  BY UsageFacts DEF UsageInv
<1>2. \A a \in Billed : /\ request[a] # "none" => request'[a] # "none"
                        /\ request[a] = "ended" => request'[a] = "ended"
  OBVIOUS
<1>3. QED
  BY <1>1, <1>2, FinishingStep

LEMMA NotFinishingIs ==
  /\ NotFinishing \in FinisherType /\ NotFinishing.at = "none" /\ NotFinishing.final = 0
  /\ NotFinishing.todo = {} /\ NotFinishing.coverage = "partial"
<1>1. "none" \in UsageState /\ 0 \in 0..MaxTranscript
  BY UsageBounds DEF UsageState
<1>2. QED
  BY <1>1 DEF NotFinishing, FinisherType

\* finish() starts with the last of its messages, if it has one.
LEMMA StartStep ==
  ASSUME UsageInv, NEW f \in Finisher, NEW s \in UsageState \ {"none", "not_sent"},
         NEW n \in 0..MaxTranscript, Finishing(f, s, n), n # 0 => n \in Said(transcript),
         s = "cancellation_uncertain" <=> f[2] = "uncertain", request[f[1]] # "none",
         f[2] = "settled" => request[f[1]] = "ended",
         UNCHANGED <<now, request, transcript, usage, rows>>, incidents' \in 0..MaxIncidents
  PROVE  UsageInv'
<1> DEFINE x == [NotFinishing EXCEPT !.at = "read", !.state = s, !.final = n,
                                     !.limit = Min({2, MaxLimit}), !.coverage = "partial"]
           j == IF n = 0 THEN NoJob ELSE Job(n, transcript[n].version, FALSE)
<1>1. finisher' = [finisher EXCEPT ![f] = x] /\ job' = [job EXCEPT ![f] = j]
  BY DEF Finishing
<1>2. x \in FinisherType /\ x.at = "read" /\ x.state = s /\ x.final = n /\ x.coverage = "partial" /\ x.todo = {}
  <2>1. Min({2, MaxLimit}) \in Nat
    BY UsageBounds, LesserIs
  <2>2. x = [NotFinishing EXCEPT !.at = "read", !.state = s, !.final = n,
                                 !.limit = Min({2, MaxLimit}), !.coverage = "partial"]
    OBVIOUS
  <2> HIDE DEF x
  <2>3. QED
    BY <2>1, <2>2, NotFinishingIs DEF FinisherType
<1>3. j \in JobType /\ JobOk(j, transcript)
  <2>1. CASE n = 0
    BY <2>1, NoJobIs
  <2>2. CASE n # 0
    <3>1. n \in Said(transcript) /\ n \in Nat /\ transcript[n].version \in 1..3
      BY <2>2, WrittenIs, UsageBounds
    <3>2. QED
      BY <2>2, <3>1, JobIs
  <2>3. QED
    BY <2>1, <2>2
<1> HIDE DEF x, j
<1>4. FinisherOk(f, x, j, transcript, request, rows)
  BY <1>2 DEF FinisherOk
<1>5. QED
  BY <1>1, <1>2, <1>3, <1>4, ReadingStep

LEMMA UncertainStep ==
  ASSUME UsageInv, NEW a \in Billed, Uncertainly(a)
  PROVE  UsageInv'
<1> DEFINE f == <<a, "uncertain">>
<1>1. /\ f \in Finisher /\ f[1] = a /\ f[2] = "uncertain"
  BY DEF Finisher
<1>2. /\ Finishing(f, "cancellation_uncertain", 0) /\ request[a] # "none"
      /\ UNCHANGED <<now, request, transcript, usage, rows>>
  BY DEF Uncertainly, session
<1>3. incidents' \in 0..MaxIncidents
  BY UsageFacts, UsageBounds DEF Uncertainly, Incident
<1>4. 0 \in 0..MaxTranscript /\ "cancellation_uncertain" \in UsageState \ {"none", "not_sent"}
  BY UsageBounds DEF UsageState
<1> HIDE DEF f
<1>5. QED
  BY <1>1, <1>2, <1>3, <1>4, StartStep

LEMMA CertainStep ==
  ASSUME UsageInv, NEW a \in Billed, Certainly(a)
  PROVE  UsageInv'
<1> DEFINE f == <<a, "settled">>
<1>1. /\ f \in Finisher /\ f[1] = a /\ f[2] = "settled"
  BY DEF Finisher
<1>2. /\ request[a] = "ended" /\ UNCHANGED <<now, request, transcript, usage, rows, incidents>>
  BY DEF Certainly, session
<1>3. 0 \in 0..MaxTranscript
  BY UsageBounds
<1>4. PICK s \in {"completed", "cancelled_confirmed"}, n \in 0..MaxTranscript :
        Finishing(f, s, n) /\ (n # 0 => n \in Said(transcript))
  <2>1. CASE Finishing(f, "cancelled_confirmed", 0)
    BY <1>3, <2>1
  <2>2. CASE ~Finishing(f, "cancelled_confirmed", 0)
    <3>1. PICK n \in {0} \cup {m \in Of(a) : transcript[m].role = "assistant"} : Finishing(f, "completed", n)
      BY <2>2 DEF Certainly
    <3>2. n = 0 \/ n \in Said(transcript)
      BY <3>1, UsageFacts DEF Of
    <3>3. n \in 0..MaxTranscript
      BY <1>3, <3>2, UsageBounds DEF Said, Entry
    <3>4. QED
      BY <3>1, <3>2, <3>3
  <2>3. QED
    BY <2>1, <2>2
<1>5. s \in UsageState \ {"none", "not_sent"} /\ s # "cancellation_uncertain"
  BY DEF UsageState
<1> HIDE DEF f
<1>6. incidents' \in 0..MaxIncidents
  BY <1>2, UsageFacts
<1>7. QED
  BY <1>1, <1>2, <1>4, <1>5, <1>6, StartStep

\* An attempt whose prompt was not sent has no messages: its coverage is
\* complete at once.
LEMMA NeverSentStep ==
  ASSUME UsageInv, NEW a \in Billed, NeverSent(a)
  PROVE  UsageInv'
<1> DEFINE f == <<a, "settled">>
           x == [NotFinishing EXCEPT !.at = "write", !.state = "not_sent", !.final = 0,
                                     !.limit = Min({2, MaxLimit}), !.coverage = "complete"]
<1>1. /\ f \in Finisher /\ f[1] = a /\ f[2] = "settled"
  BY DEF Finisher
<1>2. /\ request[a] = "prepared" /\ request' = [request EXCEPT ![a] = "ended"]
      /\ finisher' = [finisher EXCEPT ![f] = x] /\ job' = [job EXCEPT ![f] = NoJob]
      /\ UNCHANGED <<now, transcript, usage, rows, incidents>>
  BY DEF NeverSent, Finishing
<1>3. /\ x \in FinisherType /\ x.at = "write" /\ x.state = "not_sent" /\ x.final = 0
      /\ x.coverage = "complete" /\ x.todo = {}
  <2> DEFINE most == Min({2, MaxLimit})
  <2>1. most \in Nat
    BY UsageBounds, LesserIs
  <2>2. x = [NotFinishing EXCEPT !.at = "write", !.state = "not_sent", !.final = 0, !.limit = most, !.coverage = "complete"]
    OBVIOUS
  <2> HIDE DEF x, most
  <2>3. x = [at |-> "write", state |-> "not_sent", final |-> 0, limit |-> most, todo |-> {}, coverage |-> "complete"]
    BY <2>2 DEF NotFinishing
  <2>4. 0 \in 0..MaxTranscript /\ "not_sent" \in UsageState
    BY UsageBounds DEF UsageState
  <2>5. x \in FinisherType
    BY <2>1, <2>3, <2>4 DEF FinisherType
  <2>6. QED
    BY <2>3, <2>5
<1> HIDE DEF f, x
<1>4. /\ request' \in [Billed -> RequestState] /\ request'[a] = "ended"
      /\ \A b \in Billed : b # a => request'[b] = request[b]
  BY <1>2, UsageFacts DEF RequestState
<1>5. \A m \in Said(transcript) : MessageOk(transcript[m], transcript, request, now) /\ transcript[m].of # a
  BY <1>2 DEF UsageInv, SessionOk, MessageOk
<1>6. SessionOk(transcript, request', now)
  <2>1. \A m \in Said(transcript) : MessageOk(transcript[m], transcript, request', now)
    BY <1>4, <1>5 DEF MessageOk
  <2>2. \A b \in Billed : request'[b] = "running" => request[b] = "running"
    BY <1>4
  <2>3. QED
    BY <2>1, <2>2 DEF UsageInv, SessionOk
<1>7. AttemptsOk(transcript, request', usage', now)
  <2>1. \A b \in Billed : /\ request'[b] = "none" <=> request[b] = "none"
                          /\ request[b] \in {"ended", "orphaned"} => request'[b] \in {"ended", "orphaned"}
                          /\ request[b] = "ended" => request'[b] = "ended"
    BY <1>2, <1>4
  <2>2. AttemptsOk(transcript, request', usage, now)
    BY <2>1 DEF UsageInv, AttemptsOk
  <2>3. QED
    BY <1>2, <2>2
<1>8. CoverageOk(transcript, request', usage', rows)
  BY <1>2, <1>4 DEF UsageInv, CoverageOk
<1>9. FinisherOk(f, x, NoJob, transcript, request', rows)
  <2>1. RepliesTo(transcript, a) = {}
    BY <1>5 DEF RepliesTo
  <2>2. QED
    BY <1>1, <1>3, <1>4, <2>1 DEF FinisherOk
<1>10. usage' \in [Billed -> AttemptType] /\ incidents' \in 0..MaxIncidents
  BY <1>2, UsageFacts
<1>11. \A b \in Billed : /\ request[b] # "none" => request'[b] # "none"
                         /\ request[b] = "ended" => request'[b] = "ended"
  BY <1>2, <1>4
<1>12. QED
  BY <1>1, <1>2, <1>3, <1>4, <1>6, <1>7, <1>8, <1>9, <1>10, <1>11, NoJobIs, FinishingStep

\* A history that covers the attempt holds every reply to it: it is shorter
\* than was asked for, so it is the whole session, or it begins before it.
LEMMA CoveredIs ==
  ASSUME UsageInv, NEW f \in Finisher, NEW m \in RepliesTo(transcript, f[1]),
         LET history == {k \in Written : k + finisher[f].limit > Cardinality(Written)}
         IN Covered(f, history)
  PROVE  /\ m \in Said(transcript) /\ m + finisher[f].limit > Cardinality(Written)
         /\ transcript[m].created >= usage[f[1]].started
<1> DEFINE asked == finisher[f].limit
           history == {k \in Written : k + asked > Cardinality(Written)}
<1>1. /\ Written = Said(transcript) /\ asked \in Nat /\ m \in Said(transcript) /\ transcript[m].of = f[1]
      /\ f[1] \in Billed
  BY UsageFacts DEF FinisherType, RepliesTo, Finisher
<1>2. PICK n \in 0..MaxTranscript : Said(transcript) = 1..n
  BY DEF UsageInv, SessionOk
<1>3. Cardinality(Written) = n /\ n \in Nat /\ m \in 1..n
  <2>1. Cardinality(1..n) = n /\ n \in Nat
    BY <1>2, UsageBounds, FS_Interval
  <2>2. QED
    BY <1>1, <1>2, <2>1
<1>4. history = {k \in 1..n : k + asked > n}
  BY <1>1, <1>2, <1>3
<1>5. Cardinality(history) < asked \/ \E k \in history : transcript[k].created < usage[f[1]].started
  BY DEF Covered
<1> HIDE DEF history
<1>6. /\ transcript[m].created >= usage[f[1]].started /\ transcript[m].created \in Nat
      /\ usage[f[1]].started \in Nat
  <2>1. transcript[m].created \in Nat /\ InWindow(f[1], m)
    BY <1>1, WrittenIs
  <2>2. usage[f[1]] \in AttemptType
    BY <1>1, UsageFacts
  <2>3. QED
    BY <2>1, <2>2 DEF InWindow, AttemptType
<1> HIDE DEF asked
<1>7. ASSUME Cardinality(history) < asked
      PROVE  m + asked > n
  <2>1. CASE n < asked
    BY <1>1, <1>3, <2>1
  <2>2. CASE asked <= n
    <3>1. history = (n - asked + 1)..n
      BY <1>1, <1>3, <1>4, <2>2
    <3>2. Cardinality((n - asked + 1)..n) = IF n - asked + 1 > n THEN 0 ELSE n - (n - asked + 1) + 1
      BY <1>1, <1>3, <2>2, FS_Interval
    <3>3. Cardinality(history) = asked
      BY <1>1, <1>3, <2>2, <3>1, <3>2
    <3>4. QED
      BY <1>1, <1>7, <3>3
  <2>3. QED
    BY <1>1, <1>3, <2>1, <2>2
<1>8. ASSUME \E k \in history : transcript[k].created < usage[f[1]].started
      PROVE  m + asked > n
  <2>1. PICK k \in history : transcript[k].created < usage[f[1]].started
    BY <1>8
  <2>2. k \in 1..n /\ k + asked > n /\ k \in Said(transcript) /\ transcript[k].created \in Nat
    BY <1>2, <1>4, WrittenIs
  <2>3. ~(m <= k)
    <3>1. m < k => transcript[m].created < transcript[k].created
      BY <1>1, <2>2 DEF UsageInv, SessionOk
    <3>2. m \in Nat /\ k \in Nat
      BY <1>3, <2>2
    <3>3. m # k
      BY <1>6, <2>1, <2>2
    <3>4. transcript[k].created < transcript[m].created
      BY <1>6, <2>1, <2>2
    <3>5. QED
      BY <1>6, <2>2, <3>1, <3>2, <3>3, <3>4
  <2>4. QED
    BY <1>1, <1>3, <2>2, <2>3
<1>9. QED
  BY <1>1, <1>3, <1>5, <1>6, <1>7, <1>8 DEF asked

LEMMA ReadHistoryStep ==
  ASSUME UsageInv, NEW f \in Finisher, ReadHistory(f)
  PROVE  UsageInv'
<1> DEFINE asked == finisher[f].limit
           history == {m \in Written : m + asked > Cardinality(Written)}
           covered == Covered(f, history)
           ours == {m \in history : /\ transcript[m].created >= usage[f[1]].started
                                    /\ transcript[m].role = "assistant" \/ covered}
           todo == {<<m, transcript[m].version>> : m \in ours}
           coverage == IF covered THEN "complete" ELSE "partial"
           read == [finisher[f] EXCEPT !.at = "apply", !.todo = todo, !.coverage = coverage]
           more == [finisher[f] EXCEPT !.limit = Min({MaxLimit, 2 * asked})]
           x == IF covered \/ asked = MaxLimit THEN read ELSE more
<1>1. /\ finisher[f].at = "read" /\ job[f].at = "idle" /\ finisher' = [finisher EXCEPT ![f] = x]
      /\ UNCHANGED <<now, request, transcript, usage, rows, job, incidents>>
  BY UsageFacts DEF ReadHistory, session
<1>2. /\ f \in Observing /\ finisher[f] \in FinisherType /\ job[f] \in JobType /\ f[1] \in Billed
      /\ FinisherOk(f, finisher[f], job[f], transcript, request, rows)
      /\ JobOk(job[f], transcript)
  <2>1. f \in Observing /\ f[1] \in Billed
    BY DEF Observing, Finisher
  <2>2. QED
    BY <2>1, UsageFacts DEF UsageInv, FinishersOk, JobsOk
<1>3. job' = [job EXCEPT ![f] = job[f]]
  BY <1>1, <1>2, UsageFacts
<1>4. ours \subseteq Said(transcript)
  BY UsageFacts
<1>5. todo \in SUBSET (Entry \X (1..3)) /\ \A e \in todo : e[1] \in Said(transcript)
  <2>1. \A m \in ours : m \in Entry /\ m \in Said(transcript) /\ transcript[m].version \in 1..3
    BY <1>4, WrittenIs
  <2> HIDE DEF ours
  <2>2. QED
    BY <2>1
<1>6. covered /\ request[f[1]] = "ended" =>
        \A m \in RepliesTo(transcript, f[1]) : \E v \in 2..3 : <<m, v>> \in todo
  <2>1. SUFFICES ASSUME covered, request[f[1]] = "ended", NEW m \in RepliesTo(transcript, f[1])
                 PROVE  \E v \in 2..3 : <<m, v>> \in todo
    OBVIOUS
  <2>2. /\ m \in Said(transcript) /\ m + asked > Cardinality(Written)
        /\ transcript[m].created >= usage[f[1]].started
    BY <2>1, CoveredIs
  <2>3. m \in ours
    BY <2>1, <2>2, UsageFacts
  <2>4. transcript[m].version \in 2..3
    <3>1. transcript[m].version \in 1..3 /\ MessageOk(transcript[m], transcript, request, now)
      BY <2>2, WrittenIs DEF UsageInv, SessionOk
    <3>2. transcript[m].version > 1
      BY <2>1, <3>1 DEF MessageOk, RepliesTo
    <3>3. QED
      BY <3>1, <3>2
  <2>5. <<m, transcript[m].version>> \in todo
    BY <2>3
  <2>6. QED
    BY <2>4, <2>5
<1> HIDE DEF todo
<1>7. coverage \in {"partial", "complete"} /\ (coverage = "complete" => covered)
  OBVIOUS
<1> HIDE DEF covered, coverage
<1>8. /\ read \in FinisherType /\ read.at = "apply" /\ read.todo = todo /\ read.coverage = coverage
      /\ read.final = finisher[f].final /\ read.state = finisher[f].state
  BY <1>2, <1>5, <1>7 DEF FinisherType
<1>9. /\ more \in FinisherType /\ more.at = "read" /\ more.todo = finisher[f].todo
      /\ more.coverage = finisher[f].coverage
      /\ more.final = finisher[f].final /\ more.state = finisher[f].state
  <2>1. Min({MaxLimit, 2 * asked}) \in Nat
    <3>1. 2 * asked \in Nat
      BY <1>2 DEF FinisherType
    <3>2. QED
      BY <3>1, UsageBounds, LesserIs
  <2>2. QED
    BY <1>1, <1>2, <2>1 DEF FinisherType
<1> HIDE DEF read, more
<1>10. FinisherOk(f, read, job[f], transcript, request, rows)
  <2>1. f[2] = "settled" => request[f[1]] = "ended"
    BY <1>1, <1>2 DEF FinisherOk
  <2>2. f[2] = "settled" /\ read.coverage = "complete" =>
          \A m \in RepliesTo(transcript, f[1]) : ToCount(m, read, job[f], rows)
    BY <1>6, <1>7, <1>8, <2>1 DEF ToCount
  <2>3. QED
    BY <1>1, <1>2, <1>5, <1>8, <2>1, <2>2 DEF FinisherOk
<1>11. FinisherOk(f, more, job[f], transcript, request, rows)
  BY <1>1, <1>2, <1>9 DEF FinisherOk
<1>12. x \in FinisherType /\ FinisherOk(f, x, job[f], transcript, request, rows)
  BY <1>8, <1>9, <1>10, <1>11
<1>13. incidents' \in 0..MaxIncidents
  BY <1>1, UsageFacts
<1> HIDE DEF x
<1>14. QED
  BY <1>1, <1>2, <1>3, <1>12, <1>13, ReadingStep

LEMMA ApplyStep ==
  ASSUME UsageInv, NEW f \in Finisher, ApplyNext(f)
  PROVE  UsageInv'
<1> DEFINE next == CHOOSE e \in finisher[f].todo : \A d \in finisher[f].todo : e[1] <= d[1]
           over == [finisher[f] EXCEPT !.at = "write"]
           less == [finisher[f] EXCEPT !.todo = @ \ {next}]
<1>1. /\ finisher[f].at = "apply" /\ job[f].at = "idle"
      /\ UNCHANGED <<now, request, transcript, usage, rows, incidents>>
  BY DEF ApplyNext, session
<1>2. /\ f \in Observing /\ finisher[f] \in FinisherType /\ job[f] \in JobType
      /\ FinisherOk(f, finisher[f], job[f], transcript, request, rows)
      /\ JobOk(job[f], transcript)
  <2>1. f \in Observing
    BY DEF Observing
  <2>2. QED
    BY <2>1, UsageFacts DEF UsageInv, FinishersOk, JobsOk
<1>3. incidents' \in 0..MaxIncidents
  BY <1>1, UsageFacts
<1>4. CASE finisher[f].todo = {}
  <2>1. finisher' = [finisher EXCEPT ![f] = over] /\ UNCHANGED job
    BY <1>4 DEF ApplyNext
  <2>2. job' = [job EXCEPT ![f] = job[f]]
    BY <1>2, <2>1, UsageFacts
  <2>3. /\ over \in FinisherType /\ over.at = "write" /\ over.todo = {} /\ over.final = finisher[f].final
        /\ over.state = finisher[f].state /\ over.coverage = finisher[f].coverage
    BY <1>2, <1>4 DEF FinisherType
  <2> HIDE DEF over
  <2>4. FinisherOk(f, over, job[f], transcript, request, rows)
    BY <1>1, <1>2, <1>4, <2>3 DEF FinisherOk, ToCount
  <2>5. QED
    BY <1>1, <1>2, <1>3, <2>1, <2>2, <2>3, <2>4, ReadingStep
<1>5. CASE finisher[f].todo # {}
  <2> DEFINE T == {e[1] : e \in finisher[f].todo}
             j == Job(next[1], next[2], TRUE)
  <2>1. finisher' = [finisher EXCEPT ![f] = less] /\ job' = [job EXCEPT ![f] = j]
    BY <1>5 DEF ApplyNext
  <2>2. finisher[f].todo \subseteq Entry \X (1..3)
    BY <1>2 DEF FinisherType
  <2>3. next \in finisher[f].todo
    <3>1. T \in SUBSET Nat /\ T # {}
      BY <1>5, <2>2, UsageBounds DEF Entry
    <3>2. PICK i \in T : \A k \in T : i <= k
      BY <3>1, LeastOfNaturals
    <3>3. PICK e \in finisher[f].todo : e[1] = i
      BY <3>2
    <3>4. \A d \in finisher[f].todo : e[1] <= d[1]
      BY <3>2, <3>3
    <3>5. QED
      BY <3>4
  <2> HIDE DEF next
  <2>4. /\ next[1] \in Said(transcript) /\ next[1] \in Nat /\ next[2] \in 1..3
        /\ next = <<next[1], next[2]>>
    <3>1. next \in Entry \X (1..3)
      BY <2>2, <2>3
    <3>2. next[1] \in Said(transcript)
      BY <1>2, <2>3 DEF FinisherOk
    <3>3. QED
      BY <3>1, <3>2, UsageBounds DEF Entry
  <2>5. /\ j \in JobType /\ j.at = "find" /\ j.message = next[1] /\ j.version = next[2]
        /\ j.authoritative /\ JobOk(j, transcript)
    <3> DEFINE p == next[1]
               v == next[2]
               b == TRUE
    <3>1. j = Job(p, v, b) /\ p \in Said(transcript) /\ p \in Nat /\ v \in 1..3 /\ b \in BOOLEAN
      BY <2>4
    <3> HIDE DEF j, p, v, b
    <3>2. /\ j \in JobType /\ j.at = "find" /\ j.message = p /\ j.version = v
          /\ (j.authoritative <=> b) /\ JobOk(j, transcript)
      BY <3>1, JobIs
    <3>3. QED
      BY <3>2 DEF p, v, b
  <2> HIDE DEF j
  <2>6. /\ less \in FinisherType /\ less.at = "apply" /\ less.todo = finisher[f].todo \ {next}
        /\ less.final = finisher[f].final /\ less.state = finisher[f].state
        /\ less.coverage = finisher[f].coverage
    BY <1>1, <1>2 DEF FinisherType
  <2> HIDE DEF less
  <2>7. \A m : ToCount(m, finisher[f], job[f], rows) => ToCount(m, less, j, rows)
    <3>1. ASSUME NEW m, NEW v \in 2..3, <<m, v>> \in finisher[f].todo
          PROVE  ToCount(m, less, j, rows)
      <4>1. CASE <<m, v>> = next
        <5>1. m = next[1] /\ v = next[2]
          BY <4>1
        <5>2. QED
          BY <2>5, <3>1, <5>1 DEF ToCount
      <4>2. CASE <<m, v>> # next
        BY <2>6, <3>1, <4>2 DEF ToCount
      <4>3. QED
        BY <4>1, <4>2
    <3>2. QED
      BY <1>1, <3>1 DEF ToCount
  <2>8. FinisherOk(f, less, j, transcript, request, rows)
    BY <1>1, <1>2, <2>6, <2>7 DEF FinisherOk
  <2>9. QED
    BY <1>1, <1>3, <2>1, <2>5, <2>6, <2>8, ReadingStep
<1>6. QED
  BY <1>4, <1>5

LEMMA TimeoutStep ==
  ASSUME UsageInv, NEW f \in Finisher, TimedOut(f)
  PROVE  UsageInv'
<1> DEFINE x == [finisher[f] EXCEPT !.at = "write", !.todo = {}, !.coverage = "partial"]
           j == IF job[f].at = "find" THEN NoJob ELSE job[f]
<1>1. /\ finisher[f].at \in {"apply", "read"} /\ UNCHANGED <<now, request, transcript, usage, rows, incidents>>
      /\ finisher' = [finisher EXCEPT ![f] = x] /\ job' = [job EXCEPT ![f] = j]
  BY UsageFacts DEF TimedOut, session
<1>2. /\ f \in Observing /\ finisher[f] \in FinisherType /\ job[f] \in JobType
      /\ FinisherOk(f, finisher[f], job[f], transcript, request, rows)
      /\ JobOk(job[f], transcript)
  <2>1. f \in Observing
    BY DEF Observing
  <2>2. QED
    BY <2>1, UsageFacts DEF UsageInv, FinishersOk, JobsOk
<1>3. /\ x \in FinisherType /\ x.at = "write" /\ x.todo = {} /\ x.coverage = "partial"
      /\ x.final = finisher[f].final /\ x.state = finisher[f].state
  BY <1>2 DEF FinisherType
<1>4. j \in JobType /\ JobOk(j, transcript)
  BY <1>2, NoJobIs
<1> HIDE DEF x, j
<1>5. FinisherOk(f, x, j, transcript, request, rows)
  BY <1>1, <1>2, <1>3 DEF FinisherOk
<1>6. incidents' \in 0..MaxIncidents
  BY <1>1, UsageFacts
<1>7. QED
  BY <1>1, <1>3, <1>4, <1>5, <1>6, ReadingStep

\* finishUsage: a request that is settled is over, and coverage that is stored
\* is true, because the job of this finish() is done.
LEMMA FinishUsageStep ==
  ASSUME UsageInv, NEW f \in Finisher, FinishUsage(f)
  PROVE  UsageInv'
<1> DEFINE a == f[1]
           s == finisher[f].state
           c == IF s = "cancellation_uncertain" THEN "partial" ELSE finisher[f].coverage
           x == [NotFinishing EXCEPT !.at = "done"]
           cov == IF usage[a].coverage = "complete" THEN usage[a].coverage ELSE c
           set == IF s = "cancellation_uncertain" THEN 0 ELSE now
           u == [usage[a] EXCEPT !.state = s, !.coverage = cov, !.settled = set]
           keep == usage[a].state = "completed" /\ s # "completed"
<1>1. /\ finisher[f].at = "write" /\ job[f].at = "idle" /\ finisher' = [finisher EXCEPT ![f] = x]
      /\ usage' = IF keep THEN usage
                  ELSE [usage EXCEPT ![a].state = s,
                                     ![a].coverage = IF @ = "complete" THEN @ ELSE c,
                                     ![a].settled = set]
      /\ UNCHANGED <<now, request, transcript, rows, job, incidents>>
  BY DEF FinishUsage, session
<1>2. /\ f \in Observing /\ a \in Billed /\ f[2] \in {"uncertain", "settled"}
      /\ finisher[f] \in FinisherType /\ job[f] \in JobType /\ usage[a] \in AttemptType
      /\ FinisherOk(f, finisher[f], job[f], transcript, request, rows)
      /\ JobOk(job[f], transcript) /\ now \in Nat
  <2>1. f \in Observing /\ a \in Billed /\ f[2] \in {"uncertain", "settled"}
    BY DEF Observing, Finisher
  <2>2. QED
    BY <2>1, UsageFacts DEF UsageInv, FinishersOk, JobsOk
<1>3. job' = [job EXCEPT ![f] = job[f]]
  BY <1>1, <1>2, UsageFacts
<1>4. x \in FinisherType /\ x.at = "done" /\ x.final = 0 /\ x.todo = {} /\ x.coverage = "partial"
  BY NotFinishingIs DEF FinisherType
<1> HIDE DEF x
<1>5. /\ s \in UsageState /\ s # "none" /\ request[a] # "none"
      /\ s = "cancellation_uncertain" <=> f[2] = "uncertain"
      /\ finisher[f].todo = {} /\ finisher[f].coverage \in {"partial", "complete"}
      /\ f[2] = "settled" => request[a] = "ended"
  BY <1>1, <1>2 DEF FinisherOk, FinisherType
<1>6. /\ cov \in {"unknown", "partial", "complete"} /\ set \in {0, now} /\ set \in Nat
      /\ set # 0 => request[a] = "ended"
      /\ cov = "complete" =>
           usage[a].coverage = "complete" \/ (f[2] = "settled" /\ finisher[f].coverage = "complete")
  BY <1>2, <1>5
<1>7. cov = "complete" => request[a] = "ended" /\ \A m \in RepliesTo(transcript, a) : rows[m].version > 1
  <2>1. CASE usage[a].coverage = "complete"
    BY <1>2, <2>1 DEF UsageInv, CoverageOk
  <2>2. CASE f[2] = "settled" /\ finisher[f].coverage = "complete"
    <3>1. \A m \in RepliesTo(transcript, a) : ToCount(m, finisher[f], job[f], rows)
      BY <1>2, <2>2 DEF FinisherOk
    <3>2. QED
      BY <1>1, <1>5, <2>2, <3>1 DEF ToCount
  <2>3. QED
    BY <1>6, <2>1, <2>2
<1>8. usage' = usage \/ usage' = [usage EXCEPT ![a] = u]
  BY <1>1, <1>2, UsageFacts
<1> HIDE DEF cov, set
<1>9. /\ u \in AttemptType /\ u.started = usage[a].started /\ u.prompt = usage[a].prompt
      /\ u.state = s /\ u.coverage = cov /\ u.settled = set
  BY <1>2, <1>5, <1>6 DEF AttemptType
<1> HIDE DEF u, s, a
<1>10. CASE usage' = usage
  <2>1. FinisherOk(f, x, job[f], transcript, request, rows)
    BY <1>1, <1>4, <1>5 DEF FinisherOk, a
  <2>2. incidents' \in 0..MaxIncidents
    BY <1>1, UsageFacts
  <2>3. QED
    BY <1>1, <1>2, <1>3, <1>4, <1>10, <2>1, <2>2, ReadingStep
<1>11. CASE usage' = [usage EXCEPT ![a] = u]
  <2>1. /\ usage' \in [Billed -> AttemptType] /\ usage'[a] = u
        /\ \A b \in Billed : b # a => usage'[b] = usage[b]
    BY <1>2, <1>9, <1>11, UsageFacts
  <2>2. \A m \in Said(transcript) : transcript[m].of \in Billed /\ transcript[m].created <= now
    BY DEF UsageInv, SessionOk, MessageOk
  <2>3. AttemptsOk(transcript, request, usage', now)
    <3>1. \A b \in Billed : /\ usage'[b].started = usage[b].started /\ usage'[b].prompt = usage[b].prompt
                            /\ usage'[b].state = "none" <=> usage[b].state = "none"
                            /\ usage'[b].settled # 0 => request[b] = "ended"
      BY <1>2, <1>5, <1>6, <1>9, <2>1 DEF UsageInv, AttemptsOk
    <3>2. \A m \in Said(transcript) : usage'[transcript[m].of].settled # 0 =>
            transcript[m].created <= usage'[transcript[m].of].settled
      BY <1>6, <1>9, <2>1, <2>2 DEF UsageInv, AttemptsOk
    <3>3. QED
      BY <2>2, <3>1, <3>2 DEF UsageInv, AttemptsOk
  <2>4. CoverageOk(transcript, request, usage', rows)
    BY <1>7, <1>9, <2>1 DEF UsageInv, CoverageOk
  <2>5. FinisherOk(f, x, job[f], transcript, request, rows)
    BY <1>1, <1>4, <1>5 DEF FinisherOk, a
  <2>6. incidents' \in 0..MaxIncidents /\ request' = request /\ request' \in [Billed -> RequestState]
    BY <1>1, UsageFacts
  <2>7. /\ SessionOk(transcript, request', now) /\ AttemptsOk(transcript, request', usage', now)
        /\ CoverageOk(transcript, request', usage', rows)
        /\ FinisherOk(f, x, job[f], transcript, request', rows)
    BY <2>3, <2>4, <2>5, <2>6 DEF UsageInv
  <2>8. \A b \in Billed : /\ request[b] # "none" => request'[b] # "none"
                          /\ request[b] = "ended" => request'[b] = "ended"
    BY <2>6
  <2>9. finisher' = [finisher EXCEPT ![f] = x] /\ UNCHANGED <<now, transcript, rows>>
    BY <1>1
  <2>10. JobOk(job[f], transcript) /\ job[f] \in JobType /\ x \in FinisherType
    BY <1>2, <1>4
  <2>11. QED
    BY <1>3, <2>1, <2>6, <2>7, <2>8, <2>9, <2>10, FinishingStep
<1>12. QED
  BY <1>8, <1>10, <1>11

-----------------------------------------------------------------------------
\* The whole process.

LEMMA CrashStep ==
  ASSUME UsageInv, CrashUsage
  PROVE  UsageInv'
<1>1. /\ job' = [t \in Observing |-> NoJob] /\ finisher' = [f \in Finisher |-> NotFinishing]
      /\ request' = [a \in Billed |-> IF request[a] = "prepared" THEN "orphaned" ELSE request[a]]
      /\ UNCHANGED <<now, transcript, usage, rows>>
  BY DEF CrashUsage
<1>2. incidents' \in 0..MaxIncidents
  BY UsageFacts, UsageBounds DEF CrashUsage, Incident
<1>3. request' \in [Billed -> RequestState]
  BY <1>1, UsageFacts DEF RequestState
<1>4. \A b \in Billed : /\ request'[b] = "none" <=> request[b] = "none"
                        /\ request[b] \in {"ended", "orphaned"} => request'[b] \in {"ended", "orphaned"}
                        /\ request[b] = "running" <=> request'[b] = "running"
                        /\ request[b] = "ended" <=> request'[b] = "ended"
  BY <1>1
<1>5. SessionOk(transcript, request', now)
  <2>1. \A m \in Said(transcript) : MessageOk(transcript[m], transcript, request', now)
    <3>1. \A m \in Said(transcript) : MessageOk(transcript[m], transcript, request, now)
      BY DEF UsageInv, SessionOk
    <3>2. QED
      BY <1>4, <3>1 DEF MessageOk
  <2>2. QED
    BY <1>4, <2>1 DEF UsageInv, SessionOk
<1>6. AttemptsOk(transcript, request', usage, now)
  BY <1>4 DEF UsageInv, AttemptsOk
<1>7. CoverageOk(transcript, request', usage, rows)
  BY <1>4 DEF UsageInv, CoverageOk
<1>8. JobsOk(job', transcript) /\ job' \in [Observing -> JobType]
  BY <1>1, NoJobIs DEF JobsOk
<1>9. FinishersOk(finisher', job', transcript, request', rows) /\ finisher' \in [Finisher -> FinisherType]
  <2>1. \A f \in Finisher : finisher'[f] = NotFinishing /\ job'[f] = NoJob
    BY <1>1 DEF Observing
  <2>2. \A f \in Finisher : FinisherOk(f, NotFinishing, NoJob, transcript, request', rows)
    BY NotFinishingIs, NoJobIs DEF FinisherOk
  <2>3. QED
    BY <1>1, <2>1, <2>2, NotFinishingIs DEF FinishersOk
<1>10. UsageTypeOK'
  BY <1>1, <1>2, <1>3, <1>8, <1>9, UsageFacts, TypesNext
<1>11. QED
  BY <1>1, <1>5, <1>6, <1>7, <1>8, <1>9, <1>10 DEF UsageInv

LEMMA UsageInitHolds == UsageInit => UsageInv
<1> SUFFICES ASSUME UsageInit PROVE UsageInv
  OBVIOUS
<1>1. /\ now = 0 /\ request = [a \in Billed |-> "none"] /\ transcript = [m \in Entry |-> NoEntry]
      /\ usage = [a \in Billed |-> NoAttempt] /\ rows = [m \in Entry |-> NoRow]
      /\ job = [t \in Observing |-> NoJob] /\ finisher = [f \in Finisher |-> NotFinishing]
      /\ incidents = 0
  BY DEF UsageInit
<1>2. Said(transcript) = {} /\ 1..0 = {} /\ 0 \in 0..MaxTranscript
  BY <1>1, UsageBounds DEF Said, NoEntry
<1>3. UsageTypeOK
  <2>1. NoEntry \in EntryType
    BY DEF NoEntry, EntryType
  <2>2. NoRow \in RowType
    BY UsageBounds DEF NoRow, RowType
  <2>3. incidents \in 0..MaxIncidents /\ now \in Nat
    BY <1>1, UsageBounds
  <2>4. request \in [Billed -> RequestState]
    BY <1>1 DEF RequestState
  <2>5. QED
    BY <1>1, <2>1, <2>2, <2>3, <2>4, NoAttemptIs, NoJobIs, NotFinishingIs, UsageTypes
<1>4. SessionOk(transcript, request, now)
  BY <1>1, <1>2 DEF SessionOk
<1>5. AttemptsOk(transcript, request, usage, now)
  <2>1. NoAttempt.started = 0
    BY DEF NoAttempt
  <2>2. QED
    BY <1>1, <1>2, <2>1, NoAttemptIs DEF AttemptsOk
<1>6. RowsOk(transcript, rows) /\ CoverageOk(transcript, request, usage, rows)
  BY <1>1, NoAttemptIs DEF RowsOk, NoRow, CoverageOk
<1>7. JobsOk(job, transcript)
  BY <1>1, NoJobIs DEF JobsOk
<1>8. FinishersOk(finisher, job, transcript, request, rows)
  <2>1. \A f \in Finisher : finisher[f] = NotFinishing /\ job[f] = NoJob
    BY <1>1 DEF Observing
  <2>2. \A f \in Finisher : FinisherOk(f, NotFinishing, NoJob, transcript, request, rows)
    BY NotFinishingIs, NoJobIs DEF FinisherOk
  <2>3. QED
    BY <2>1, <2>2 DEF FinishersOk
<1>9. QED
  BY <1>3, <1>4, <1>5, <1>6, <1>7, <1>8 DEF UsageInv

LEMMA UsageStepHolds == UsageInv /\ [UsageNext]_usageVars => UsageInv'
<1> SUFFICES ASSUME UsageInv, [UsageNext]_usageVars PROVE UsageInv'
  OBVIOUS
<1>1. CASE \E a \in Billed : BeginUsage(a) \/ Prompted(a) \/ Continues(a) \/ RequestEnds(a)
  BY <1>1, BeginStep, SayingStep, EndStep
<1>2. CASE \E a \in Billed : Uncertainly(a) \/ Certainly(a) \/ NeverSent(a)
  BY <1>2, UncertainStep, CertainStep, NeverSentStep
<1>3. CASE \E m \in Entry : Revises(m, 1) \/ Revises(m, 2)
  BY <1>3, RevisionStep
<1>4. CASE \E m \in Entry : \E o \in Observer : EventArrives(o, m)
  BY <1>4, EventStep
<1>5. CASE \E t \in Observing : ObserveStep(t)
  BY <1>5, ObservedStep
<1>6. CASE \E f \in Finisher : Finish(f) \/ TimedOut(f)
  BY <1>6, ReadHistoryStep, ApplyStep, FinishUsageStep, TimeoutStep DEF Finish
<1>7. CASE CrashUsage
  BY <1>7, CrashStep
<1>8. CASE UNCHANGED usageVars
  <2>1. UNCHANGED <<now, request, transcript, usage, rows, job, finisher, incidents>>
    BY <1>8 DEF usageVars, session
  <2>2. UsageTypeOK'
    BY <2>1, UsageFacts, TypesNext
  <2>3. QED
    BY <2>1, <2>2 DEF UsageInv
<1>9. QED
  BY <1>1, <1>2, <1>3, <1>4, <1>5, <1>6, <1>7, <1>8 DEF UsageNext

\* Coverage that is stored is true of each attempt, so it is of the session.
LEMMA HonestOf == UsageInv => UsageIsHonest
<1> SUFFICES ASSUME UsageInv PROVE UsageIsHonest
  OBVIOUS
<1>1. CompleteIsCovered
  <2>1. SUFFICES ASSUME SummaryCoverage = "complete", NEW m \in Written,
                        transcript[m].role = "assistant", request[transcript[m].of] = "ended"
                 PROVE  rows[m].version > 1
    BY DEF CompleteIsCovered
  <2> DEFINE o == transcript[m].of
  <2>2. m \in Said(transcript) /\ o \in Billed /\ usage[o].state # "none"
    BY UsageFacts, WrittenIs
  <2>3. usage[o].coverage = "complete"
    BY <2>1, <2>2 DEF SummaryCoverage
  <2>4. m \in RepliesTo(transcript, o)
    BY <2>1, <2>2 DEF RepliesTo
  <2>5. QED
    BY <2>2, <2>3, <2>4 DEF UsageInv, CoverageOk
<1>2. ChargedToItsAttempt
  BY DEF UsageInv, RowsOk, ChargedToItsAttempt
<1>3. QED
  BY <1>1, <1>2 DEF UsageInv, UsageIsHonest

\* The ledger never shows more than it knows: when the summary of a session
\* says complete, every reply of a request that is over is counted with its
\* completed usage, and what is charged to an attempt it caused (usage/
\* ledger.ts, usage/database.ts), for any number of attempts, messages and
\* observers, and wherever the process ends.
THEOREM UsageIsAlwaysHonest == UsageSpec => []UsageIsHonest
<1>1. UsageInit => UsageInv
  BY UsageInitHolds
<1>2. UsageInv /\ [UsageNext]_usageVars => UsageInv'
  BY UsageStepHolds
<1>3. UsageInv => UsageIsHonest
  BY HonestOf
<1>4. QED
  BY <1>1, <1>2, <1>3, PTL DEF UsageSpec
=============================================================================
