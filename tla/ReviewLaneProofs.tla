-------------------------- MODULE ReviewLaneProofs --------------------------
(***************************************************************************)
(* Proofs about one reviewer: its requests never overlap and are on        *)
(* record, its reports are published once, its recorded progress has a     *)
(* report, and the cursor of a lane never moves back, for any lanes,       *)
(* processes, passes, attempts, messages and faults.                       *)
(***************************************************************************)
EXTENDS ReviewLane, TLAPS

Loaded(l) == life[l] = "loaded"

(* TypeOK, variable by variable. *)
TypesOfWorld ==
  /\ alive \in [Process -> BOOLEAN]
  /\ owner \in Lane \cup {None}
  /\ payload \in JournalRecord
  /\ produced \in 0..MaxMessages
  /\ requests \in [PassID \X Attempt -> {"none", "running", "answered", "failed", "aborted"}]
  /\ faults \in 0..MaxFaults

TypesOfLanes ==
  /\ life \in [Lane -> {"unborn", "loaded", "retired"}]
  /\ compatible \in [Lane -> BOOLEAN]
  /\ cursor \in [Lane -> PassID \cup {None}]
  /\ active \in [Lane -> PassID \cup {None}]
  /\ running \in [Lane -> PassID \cup {None}]
  /\ slot \in [Lane -> PassID \cup {None}]
  /\ writes \in [Lane -> Seq(Write)]

TypesOfPasses ==
  /\ stage \in [PassID -> Stage]
  /\ runner \in [PassID -> Lane \cup {None}]
  /\ next \in [PassID -> 0..MaxMessages]
  /\ attempt \in [PassID -> Attempt]
  /\ permit \in [PassID -> BOOLEAN]
  /\ watching \in [PassID -> BOOLEAN]
  /\ published \in [PassID -> Nat]

TypesOfResults ==
  /\ report \in [Handler -> {"none", "saving", "failed", "saved"}]
  /\ commit \in [Handler -> [Outcome -> {"none", "settling", "failed", "durable", "taken"}]]
  /\ review \in [Handler -> {"none", "blocked", "released", "settled"}]
  /\ probing \in [Handler -> BOOLEAN]

Types == TypesOfWorld /\ TypesOfLanes /\ TypesOfPasses /\ TypesOfResults

(* The four groups of types are TypeOK, before a step and after it. *)
LEMMA TypesAreOk == TypeOK <=> Types
BY DEF TypeOK, Types, TypesOfWorld, TypesOfLanes, TypesOfPasses, TypesOfResults

LEMMA TypesStayOk == TypeOK' <=> Types'
BY DEF TypeOK, Types, TypesOfWorld, TypesOfLanes, TypesOfPasses, TypesOfResults

(* A loaded lane lives and owns its row, so there is one at a time; what   *)
(* it runs is its own pass and the one it may still advance for.           *)
LaneOk(l) ==
  /\ Loaded(l) => owner = l /\ Live(l)
  /\ life[l] = "unborn" => running[l] = None /\ writes[l] = <<>>
  /\ running[l] # None =>
       runner[running[l]] = l /\ stage[running[l]] \notin {"unused", "returned"}
  /\ Loaded(l) /\ running[l] # None => active[l] = running[l]

LanesOk == \A l \in Lane : LaneOk(l)

(* A pass between its first and its last step is what its lane runs.  It   *)
(* has its permit and is on record when it may send.                       *)
PassOk(p) ==
  /\ stage[p] = "unused" => runner[p] = None
  /\ stage[p] # "unused" => runner[p] \in Lane
  /\ runner[p] # None => life[runner[p]] # "unborn"
  /\ stage[p] \notin {"unused", "returned"} => running[runner[p]] = p
  /\ next[p] <= produced
  /\ watching[p] => stage[p] \in {"end", "returned"}
  /\ stage[p] \in {"beginning", "ready"} /\ Loaded(runner[p]) => permit[p]
  /\ stage[p] = "ready" /\ Loaded(runner[p]) => payload.pending = p
  /\ stage[p] = "preparing" /\ attempt[p] = 1 => payload.pending # p

PassesOk == \A p \in PassID : PassOk(p)

Early == {"unused", "preparing", "beginning", "ready", "refused"}

(* Only the request of the current attempt may run, and only once the pass *)
(* has come to send it.                                                    *)
RequestOk(p) ==
  /\ \A i \in Attempt :
       /\ i > attempt[p] => requests[<<p, i>>] = "none"
       /\ i < attempt[p] => requests[<<p, i>>] # "running"
  /\ stage[p] \in Early => requests[Sent(p)] = "none"

RequestsOk == \A p \in PassID : RequestOk(p)

(* A lane that reviews a pass again, and one that has a result of it. *)
Takes(l, p) == review[<<l, p>>] # "none" \/ probing[<<l, p>>] \/ slot[l] = p
Has(l, p) ==
  \/ report[<<l, p>>] # "none"
  \/ commit[<<l, p>>]["end"] # "none"
  \/ commit[<<l, p>>]["report"] # "none"

Done == {"durable", "taken"}

(* A lane deals with a pass that it ran itself and returned from, or whose *)
(* own lane is gone.  Once there is a result no request of the pass runs,  *)
(* and once a loaded lane has it durable the pass is off the record.       *)
HandlerOk(l, p) ==
  /\ Takes(l, p) \/ Has(l, p) =>
       /\ stage[p] # "unused"
       /\ life[l] # "unborn"
       /\ runner[p] # l => life[runner[p]] = "retired" /\ review[<<l, p>>] # "none"
  /\ runner[p] = l =>
       /\ Takes(l, p) => stage[p] = "returned"
       /\ report[<<l, p>>] # "none" => stage[p] \in {"saving", "report", "returned"}
       /\ commit[<<l, p>>]["end"] # "none" => stage[p] \in {"end", "returned"}
       /\ commit[<<l, p>>]["report"] # "none" => stage[p] \in {"report", "returned"}
  /\ Has(l, p) => requests[Sent(p)] # "running"
  /\ commit[<<l, p>>]["report"] # "none" => report[<<l, p>>] = "saved"
  /\ Loaded(l) /\ (commit[<<l, p>>]["end"] \in Done \/ commit[<<l, p>>]["report"] \in Done) =>
       payload.pending # p
  /\ runner[p] # l /\ review[<<l, p>>] # "none" /\ compatible[l] =>
       FingerprintOf[l] = FingerprintOf[runner[p]]

HandlersOk == \A l \in Lane, p \in PassID : HandlerOk(l, p)

(* The pass on record is the one the owner is busy with. *)
PendingOk ==
  payload.pending # None =>
    /\ stage[payload.pending] # "unused"
    /\ payload.fingerprint = FingerprintOf[runner[payload.pending]]
    /\ Reviewed(payload.progress) <= next[payload.pending]
    /\ \A l \in Lane : Loaded(l) =>
         /\ active[l] = payload.pending
         /\ \/ running[l] = payload.pending
            \/ /\ running[l] = None
               /\ slot[l] = payload.pending
               /\ review[<<l, payload.pending>>] = "blocked"

Begins(w) == w.request.op = "begin"
Advancing(w) == ~Begins(w) /\ w.request.advance

(* A pass whose record is queued has sent nothing of this attempt, and its *)
(* lane stays busy until what is queued behind it is done.                 *)
BeginWaits(l, p) ==
  /\ active[l] = p
  /\ runner[p] = l
  /\ requests[Sent(p)] = "none"
  /\ report[<<l, p>>] = "none"
  /\ commit[<<l, p>>]["report"] = "none"
  /\ \/ stage[p] = "beginning" /\ commit[<<l, p>>]["end"] = "none"
     \/ stage[p] = "end" /\ commit[<<l, p>>]["end"] = "settling"
     \/ /\ stage[p] = "returned" /\ commit[<<l, p>>]["end"] = "settling"
        /\ running[l] = None /\ slot[l] = p /\ review[<<l, p>>] = "blocked"

(* A queued save that advances has a saved report of the row's own         *)
(* configuration and lies between the cursor and the newest pass.          *)
AdvanceWaits(l, p) ==
  /\ report[<<l, p>>] = "saved"
  /\ FingerprintOf[l] = FingerprintOf[runner[p]]
  /\ Reviewed(cursor[l]) <= next[p]
  /\ active[l] # None
  /\ next[p] <= next[active[l]]

(* A lane saves for its own passes or for what it has results of.          *)
WriteKnown(l, w) ==
  /\ Begins(w) => runner[w.request.id] = l
  /\ ~Begins(w) => w.outcome \in Outcome /\ commit[<<l, w.request.id>>][w.outcome] # "none"

WriteWaits(l, w) ==
  /\ Begins(w) => BeginWaits(l, w.request.id)
  /\ Advancing(w) => AdvanceWaits(l, w.request.id)

(* v was queued before w. *)
InOrder(v, w) ==
  /\ Begins(w) => ~Begins(v) /\ v.request.id # w.request.id
  /\ Advancing(v) /\ Advancing(w) => next[v.request.id] <= next[w.request.id]

WritesOf(l) ==
  /\ \A i \in 1..Len(writes[l]) : WriteKnown(l, writes[l][i])
  /\ Loaded(l) =>
       /\ \A i \in 1..Len(writes[l]) : WriteWaits(l, writes[l][i])
       /\ \A i, j \in 1..Len(writes[l]) : j < i => InOrder(writes[l][j], writes[l][i])

WritesOk == \A l \in Lane : WritesOf(l)

(* The newest pass a loaded lane works on reaches as far as its cursor and *)
(* as what is recorded.                                                    *)
CursorOk(l) ==
  /\ cursor[l] # None => stage[cursor[l]] # "unused"
  /\ Loaded(l) /\ active[l] # None =>
       /\ stage[active[l]] # "unused"
       /\ Reviewed(cursor[l]) <= next[active[l]]
       /\ Reviewed(payload.progress) <= next[active[l]]

CursorsOk == \A l \in Lane : CursorOk(l)

(* A report that was published once stays published: its pass is off the   *)
(* record and no loaded lane has it left to settle.                        *)
PublishedOk ==
  \A p \in PassID : published[p] > 0 =>
    /\ published[p] = 1
    /\ payload.pending # p
    /\ stage[p] # "unused"
    /\ \A l \in Lane : Loaded(l) =>
         /\ review[<<l, p>>] \notin {"blocked", "released"}
         /\ runner[p] = l => stage[p] = "returned"

IInv ==
  /\ TypeOK
  /\ LanesOk
  /\ PassesOk
  /\ RequestsOk
  /\ HandlersOk
  /\ PendingOk
  /\ WritesOk
  /\ CursorsOk
  /\ PublishedOk
  /\ RunningIsRecorded
  /\ PermitCoversRequest
  /\ ProgressIsReported
  /\ ProgressHasItsConfiguration

-----------------------------------------------------------------------------
(***************************************************************************)
(* The queue of a lane's saves, when the rest of the state moves.          *)
(***************************************************************************)

(* What holds of a queued save still holds, and what holds of two.         *)
StaysQueued(l, w) ==
  WriteKnown(l, w) /\ (Loaded(l) => WriteWaits(l, w)) =>
    WriteKnown(l, w)' /\ (Loaded(l)' => WriteWaits(l, w)')

StaysInOrder(l, v, w) ==
  Loaded(l)' /\ WriteKnown(l, v) /\ WriteKnown(l, w) /\ InOrder(v, w) => InOrder(v, w)'

(* A queue holds saves. *)
LEMMA Writes ==
  ASSUME TypeOK, NEW l \in Lane
  PROVE  /\ writes[l] \in Seq(Write)
         /\ \A i \in 1..Len(writes[l]) : writes[l][i] \in Write
BY DEF TypeOK

(* The parts of a save. *)
LEMMA WriteParts ==
  ASSUME NEW w \in Write
  PROVE  /\ w.request.id \in PassID
         /\ w.outcome \in {"end", "report", None}
         /\ ~Begins(w) => w.request.advance \in BOOLEAN
BY DEF Write, Request, Outcome, Begins

(* A queue that is not touched. *)
LEMMA QueueStays ==
  ASSUME TypeOK, WritesOk, NEW l \in Lane,
         writes'[l] = writes[l],
         writes[l] # <<>> => (Loaded(l)' => Loaded(l)),
         \A w \in Write : StaysQueued(l, w),
         \A v, w \in Write : StaysInOrder(l, v, w)
  PROVE  WritesOf(l)'
<1>1. CASE writes[l] = <<>>
  BY <1>1 DEF WritesOf
<1>2. CASE writes[l] # <<>>
  BY Writes DEF WritesOk, WritesOf, StaysQueued, StaysInOrder
<1> QED
  BY <1>1, <1>2

(* A queue with one more save behind the others. *)
LEMMA QueueGrows ==
  ASSUME TypeOK, WritesOk, NEW l \in Lane, NEW u \in Write,
         writes'[l] = Append(writes[l], u),
         Loaded(l)' => Loaded(l),
         \A w \in Write : StaysQueued(l, w),
         \A v, w \in Write : StaysInOrder(l, v, w),
         WriteKnown(l, u)',
         Loaded(l)' => WriteWaits(l, u)',
         Loaded(l)' => \A w \in Write : WriteKnown(l, w) /\ WriteWaits(l, w) => InOrder(w, u)'
  PROVE  WritesOf(l)'
<1>s. PICK s : s = writes[l]
  OBVIOUS
<1>t. PICK t : t = Append(s, u)
  OBVIOUS
<1>1. s \in Seq(Write) /\ \A i \in 1..Len(s) : s[i] \in Write
  BY Writes, <1>s
<1>2. /\ Len(t) = Len(s) + 1
      /\ t[Len(s) + 1] = u
      /\ \A i \in 1..Len(s) : t[i] = s[i]
  BY <1>1, <1>t
<1>3. WritesOf(l)
  BY DEF WritesOk
<1>a. \A i \in 1..Len(s) : WriteKnown(l, s[i])
  BY <1>3, <1>s DEF WritesOf
<1>b. Loaded(l) => \A i \in 1..Len(s) : WriteWaits(l, s[i])
  BY <1>3, <1>s DEF WritesOf
<1>c. Loaded(l) => \A i, j \in 1..Len(s) : j < i => InOrder(s[j], s[i])
  BY <1>3, <1>s DEF WritesOf
<1>n. Len(s) \in Nat /\ writes'[l] = t
  BY <1>1, <1>s, <1>t
<1>4. ASSUME NEW i \in 1..Len(t)
      PROVE  WriteKnown(l, t[i])'
  BY <1>2, <1>1, <1>a, <1>b DEF StaysQueued
<1>5. ASSUME Loaded(l)', NEW i \in 1..Len(t)
      PROVE  WriteWaits(l, t[i])'
  BY <1>2, <1>5, <1>1, <1>a, <1>b DEF StaysQueued
<1>6. ASSUME Loaded(l)', NEW i \in 1..Len(t), NEW j \in 1..Len(t), j < i
      PROVE  InOrder(t[j], t[i])'
  BY <1>6, <1>1, <1>2, <1>n, <1>a, <1>b, <1>c DEF StaysInOrder
<1> QED
  BY <1>4, <1>5, <1>6, <1>n DEF WritesOf

(* A queue whose first save is done. *)
LEMMA QueueShrinks ==
  ASSUME TypeOK, WritesOk, NEW l \in Lane,
         writes[l] # <<>>,
         writes'[l] = Tail(writes[l]),
         Loaded(l)' => Loaded(l),
         \A w \in Write :
           (Loaded(l)' => InOrder(Head(writes[l]), w)) => StaysQueued(l, w),
         \A v, w \in Write : StaysInOrder(l, v, w)
  PROVE  WritesOf(l)'
<1>s. PICK s : s = writes[l]
  OBVIOUS
<1>t. PICK t : t = Tail(s)
  OBVIOUS
<1>1. s \in Seq(Write) /\ \A i \in 1..Len(s) : s[i] \in Write
  BY Writes, <1>s
<1>2. /\ Len(t) = Len(s) - 1
      /\ \A i \in 1..Len(t) : i + 1 \in 1..Len(s) /\ t[i] = s[i + 1]
      /\ Head(s) = s[1] /\ 1 \in 1..Len(s)
      /\ Len(s) \in Nat /\ Len(t) \in Nat
  BY <1>1, <1>s, <1>t
<1>3. WritesOf(l)
  BY DEF WritesOk
<1>a. \A i \in 1..Len(s) : WriteKnown(l, s[i])
  BY <1>3, <1>s DEF WritesOf
<1>b. Loaded(l) => \A i \in 1..Len(s) : WriteWaits(l, s[i])
  BY <1>3, <1>s DEF WritesOf
<1>c. Loaded(l) => \A i, j \in 1..Len(s) : j < i => InOrder(s[j], s[i])
  BY <1>3, <1>s DEF WritesOf
<1>n. writes'[l] = t
  BY <1>s, <1>t
<1>d. \A w \in Write : (Loaded(l)' => InOrder(Head(s), w)) => StaysQueued(l, w)
  BY <1>s
<1>4. ASSUME NEW i \in 1..Len(t)
      PROVE  t[i] \in Write /\ StaysQueued(l, t[i]) /\ t[i] = s[i + 1] /\ i + 1 \in 1..Len(s)
  BY <1>1, <1>2, <1>c, <1>d
<1>5. ASSUME NEW i \in 1..Len(t)
      PROVE  WriteKnown(l, t[i])' /\ (Loaded(l)' => WriteWaits(l, t[i])')
  BY <1>4, <1>a, <1>b DEF StaysQueued
<1>6. ASSUME Loaded(l)', NEW i \in 1..Len(t), NEW j \in 1..Len(t), j < i
      PROVE  InOrder(t[j], t[i])'
  BY <1>6, <1>4, <1>a, <1>c DEF StaysInOrder
<1> QED
  BY <1>5, <1>6, <1>n DEF WritesOf

(* What is known of the first save, and of the others because of it. *)
LEMMA QueueHead ==
  ASSUME TypeOK, WritesOk, NEW l \in Lane, writes[l] # <<>>
  PROVE  /\ Head(writes[l]) \in Write
         /\ WriteKnown(l, Head(writes[l]))
         /\ Loaded(l) => WriteWaits(l, Head(writes[l]))
<1>s. PICK s : s = writes[l]
  OBVIOUS
<1>1. s \in Seq(Write) /\ s # <<>> /\ \A i \in 1..Len(s) : s[i] \in Write
  BY Writes, <1>s
<1>3. WritesOf(l)
  BY DEF WritesOk
<1> QED
  BY <1>1, <1>3, <1>s DEF WritesOf

-----------------------------------------------------------------------------

(* Steps with a common effect, as operators. *)

(* No request of the pass runs any more. *)
Stops(p) ==
  \E s \in {"none", "answered", "failed", "aborted"} :
    /\ requests[Sent(p)] = "none" => s = "none"
    /\ requests' = [requests EXCEPT ![Sent(p)] = s]

(* Another attempt, once the last one stopped. *)
Retrying(p) ==
  /\ stage[p] \in {"sent", "aborting"}
  /\ Stops(p)
  /\ Retry(p)
  /\ UNCHANGED <<journal, produced, memory, runner, next, watching, report, review, probing, published>>

(* The answer came in time. *)
Answering(p) ==
  /\ stage[p] = "sent"
  /\ Answered(p)
  /\ UNCHANGED <<journal, produced, requests, memory, runner, next, watching, review, probing, published>>

(* A pass leaves while something of it is open. *)
Leaving(p) ==
  /\ stage[p] \in {"aborting", "saving", "end", "report"}
  /\ Leave(p, "blocked")
  /\ \E s \in {"saving", "failed", "saved", "none"} :
       /\ s = report[Own(p)] \/ (report[Own(p)] = "saving" /\ s = "failed")
       /\ report' = [report EXCEPT ![Own(p)] = s]
  /\ \E watch \in BOOLEAN : watching' = [watching EXCEPT ![p] = watch]
  /\ faults' \in 0..MaxFaults
  /\ UNCHANGED <<journal, produced, requests, life, compatible, cursor, active, writes,
                 runner, next, attempt, permit, commit, probing, published>>

(* A result of a pass goes to its commit, in the background. *)
Committing(l, p, k) ==
  /\ Takes(l, p) \/ Has(l, p) \/ (runner[p] = l /\ stage[p] = "returned")
  /\ runner[p] = l => stage[p] = "returned" \/ (k = "report" /\ stage[p] \in {"saving", "report"})
  /\ k = "end" => commit[<<l, p>>]["end"] \in {"none", "failed"}
  /\ k = "report" => report[<<l, p>>] \in {"saving", "saved"}
  /\ Stops(p)
  /\ StartCommit(<<l, p>>, k)
  /\ report' = [report EXCEPT ![<<l, p>>] = IF k = "report" THEN "saved" ELSE @]
  /\ stage' = [stage EXCEPT ![p] = IF runner[p] = l /\ @ = "saving" THEN "report" ELSE @]
  /\ \E held, seen, asked \in BOOLEAN :
       /\ permit' = [permit EXCEPT ![p] = @ /\ held]
       /\ watching' = [watching EXCEPT ![p] = @ /\ seen]
       /\ probing' = [probing EXCEPT ![<<l, p>>] = @ /\ asked]
  /\ UNCHANGED <<journal, produced, faults, memory, runner, next, attempt, review, published>>

(* What a lane learns of a pass in the background, without a commit. *)
Learning(l, p) ==
  /\ Takes(l, p) \/ Has(l, p) \/ (runner[p] = l /\ stage[p] = "returned")
  /\ runner[p] = l => stage[p] \in {"report", "returned"}
  /\ Stops(p) \/ UNCHANGED <<requests, permit, report>>
  /\ \E s \in {"none", "saving", "failed", "saved"} :
       /\ report' = [report EXCEPT ![<<l, p>>] = s]
       /\ \/ s = report[<<l, p>>]
          \/ /\ s \in {"saving", "failed"}
             /\ report[<<l, p>>] # "saved"
             /\ report[<<l, p>>] # "none" \/ requests[Sent(p)] = "answered"
  /\ \E held, seen, asked \in BOOLEAN :
       /\ permit' = [permit EXCEPT ![p] = @ /\ held]
       /\ watching' = [watching EXCEPT ![p] = @ /\ seen]
       /\ asked => probing[<<l, p>>] \/ Takes(l, p)
       /\ probing' = [probing EXCEPT ![<<l, p>>] = asked]
  /\ faults' \in 0..MaxFaults
  /\ UNCHANGED <<journal, produced, memory, writes, stage, runner, next, attempt,
                 commit, review, published>>

(* A pass ends without progress, before or after it sent a request. *)
Ending(p) ==
  /\ stage[p] \in {"preparing", "beginning", "ready", "refused", "sent", "aborting"}
  /\ Stops(p)
  /\ End(p)
  /\ \E watch \in BOOLEAN : watching' = [watching EXCEPT ![p] = watch]
  /\ UNCHANGED <<journal, produced, faults, memory, runner, next, attempt, report,
                 review, probing, published>>

(* The save at the head of a lane's queue is done, or not. *)
Popping(l, u) ==
  /\ writes[l] # <<>> /\ u = Head(writes[l])
  /\ Pop(l)
  /\ faults' \in 0..MaxFaults
  /\ UNCHANGED <<alive, owner, produced, requests, life, compatible, active, running, slot,
                 runner, next, attempt, permit, watching, report, review, probing, published>>

(* It was to record a pass: a refused one may have been recorded as well.  *)
BeginDone(l, u) ==
  /\ Popping(l, u) /\ Begins(u)
  /\ \/ payload' = payload
     \/ Loaded(l) /\ payload' = Begun(l, u.request.id, payload)
  /\ \E s \in {"ready", "refused"} :
       /\ s = "ready" => payload' = Begun(l, u.request.id, payload)
       /\ stage' = [stage EXCEPT ![u.request.id] = IF @ = "beginning" THEN s ELSE @]
  /\ UNCHANGED <<cursor, commit>>

(* It was to settle a pass. *)
SettleDone(l, u) ==
  /\ Popping(l, u) /\ ~Begins(u)
  /\ \/ payload' = payload
     \/ Loaded(l) /\ payload' = Settled(l, u.request.id, u.request.advance, payload)
  /\ \E s \in {"durable", "failed"} :
       /\ s = "durable" => /\ Loaded(l)
                           /\ payload' = Settled(l, u.request.id, u.request.advance, payload)
       /\ commit' = [commit EXCEPT ![<<l, u.request.id>>][u.outcome] = s]
       /\ cursor' = [cursor EXCEPT ![l] =
                       IF s = "durable" /\ u.request.advance THEN u.request.id ELSE @]
  /\ UNCHANGED stage

(* What runs is the request of the current attempt, which has been sent. *)
LEMMA RunsAreSent ==
  ASSUME TypesOfPasses, NEW p \in PassID, RequestOk(p), NEW i \in Attempt
  PROVE  requests[<<p, i>>] = "running" => i = attempt[p] /\ stage[p] \notin Early
BY DEF TypesOfPasses, RequestOk, Sent, Attempt

(* The primary completes a message, which no pass has seen. *)
LEMMA ProduceKeeps ==
  ASSUME IInv, Produce
  PROVE  IInv'
<1> USE DEF TypesOfWorld, TypesOfLanes, TypesOfPasses, TypesOfResults, Produce, journal, world,
   memory, pass, results
<1>0. TypeOK /\ LanesOk /\ PassesOk /\ RequestsOk /\ HandlersOk /\ PendingOk /\ WritesOk
      /\ CursorsOk /\ PublishedOk /\ RunningIsRecorded /\ PermitCoversRequest
      /\ ProgressIsReported /\ ProgressHasItsConfiguration
  BY DEF IInv
<1>1. TypesOfWorld /\ TypesOfLanes /\ TypesOfPasses /\ TypesOfResults
  BY <1>0, TypesAreOk DEF Types
<1>10. TypeOK'
  <2>1. TypesOfWorld'
    BY <1>1, LaneAssumption
  <2>2. TypesOfLanes'
    BY <1>1, LaneAssumption DEF JournalRecord, Write, Request, Outcome
  <2>3. TypesOfPasses'
    BY <1>1
  <2>4. TypesOfResults'
    BY <1>1
  <2> QED
    BY <2>1, <2>2, <2>3, <2>4, TypesStayOk DEF Types
<1>11. LanesOk'
  BY <1>0 DEF LanesOk, LaneOk, Loaded, Live
<1>12. PassesOk'
  BY <1>0, <1>1 DEF PassesOk, PassOk, Loaded
<1>13. RequestsOk'
  BY <1>0 DEF RequestsOk, RequestOk, Sent
<1>14. HandlersOk'
  <2> SUFFICES ASSUME NEW x \in Lane, NEW y \in PassID PROVE HandlerOk(x, y)'
    BY DEF HandlersOk
  <2>1. LaneOk(x) /\ CursorOk(x) /\ PassOk(y) /\ RequestOk(y) /\ HandlerOk(x, y)
    BY <1>0 DEF PassesOk, RequestsOk, LanesOk, CursorsOk, HandlersOk
  <2> QED
    BY <2>1 DEF HandlerOk, Takes, Has, Sent, Loaded
<1>15. PendingOk'
  BY <1>0 DEF PendingOk, Loaded, Reviewed
<1>16. WritesOk'
  <2> SUFFICES ASSUME NEW x \in Lane PROVE WritesOf(x)'
    BY DEF WritesOk
  <2>2. writes'[x] = writes[x] /\ (writes[x] # <<>> => (Loaded(x)' => Loaded(x)))
    BY DEF Loaded
  <2>3. ASSUME NEW w \in Write
        PROVE  StaysQueued(x, w)
    BY DEF WriteKnown, BeginWaits, Loaded, Sent, AdvanceWaits, Reviewed, WriteWaits, StaysQueued
  <2>4. ASSUME NEW v \in Write, NEW w \in Write
        PROVE  StaysInOrder(x, v, w)
    BY DEF StaysInOrder, InOrder
  <2> QED
    BY <2>2, <2>3, <2>4, <1>0, QueueStays
<1>17. CursorsOk'
  BY <1>0 DEF CursorsOk, CursorOk, Loaded, Reviewed
<1>18. PublishedOk'
  BY <1>0 DEF PublishedOk, Loaded
<1>19. RunningIsRecorded'
  BY <1>0 DEF RunningIsRecorded
<1>20. PermitCoversRequest'
  BY <1>0 DEF PermitCoversRequest, Live
<1>21. ProgressIsReported'
  <2> SUFFICES ASSUME payload'.progress # None
               PROVE  \E m \in Lane : report'[<<m, payload'.progress>>] = "saved"
    BY DEF ProgressIsReported
  <2>1. payload'.progress = payload.progress /\ payload.progress \in PassID
    BY <1>1 DEF JournalRecord
  <2>2. PICK m \in Lane : report[<<m, payload.progress>>] = "saved"
    BY <1>0 DEF ProgressIsReported
  <2>3. report'[<<m, payload.progress>>] = "saved"
    BY <2>2
  <2> QED
    BY <2>1, <2>3
<1>22. ProgressHasItsConfiguration'
  BY <1>0 DEF ProgressHasItsConfiguration
<1> QED
  BY <1>10, <1>11, <1>12, <1>13, <1>14, <1>15, <1>16, <1>17, <1>18, <1>19, <1>20, <1>21, <1>22
     DEF IInv

(* A request is given up and its abort is under way. *)
LEMMA ExpireKeeps ==
  ASSUME IInv, NEW p \in PassID, Expire(p)
  PROVE  IInv'
<1> USE DEF TypesOfWorld, TypesOfLanes, TypesOfPasses, TypesOfResults, Expire, Foreground, Live,
   journal, world, memory, pass, results
<1>0. TypeOK /\ LanesOk /\ PassesOk /\ RequestsOk /\ HandlersOk /\ PendingOk /\ WritesOk
      /\ CursorsOk /\ PublishedOk /\ RunningIsRecorded /\ PermitCoversRequest
      /\ ProgressIsReported /\ ProgressHasItsConfiguration
  BY DEF IInv
<1>1. TypesOfWorld /\ TypesOfLanes /\ TypesOfPasses /\ TypesOfResults
  BY <1>0, TypesAreOk DEF Types
<1>2. PassOk(p) /\ RequestOk(p)
  BY <1>0 DEF PassesOk, RequestsOk
<1>10. TypeOK'
  <2>1. TypesOfWorld'
    BY <1>1
  <2>2. TypesOfLanes'
    BY <1>1, <1>2, LaneAssumption DEF JournalRecord, Write, Request, Outcome
  <2>3. TypesOfPasses'
    BY <1>1 DEF Stage
  <2>4. TypesOfResults'
    BY <1>1
  <2> QED
    BY <2>1, <2>2, <2>3, <2>4, TypesStayOk DEF Types
<1>11. LanesOk'
  BY <1>0 DEF LanesOk, LaneOk, Loaded
<1>12. PassesOk'
  BY <1>0 DEF PassesOk, PassOk, Loaded
<1>13. RequestsOk'
  BY <1>0 DEF RequestsOk, RequestOk, Early, Sent
<1>14. HandlersOk'
  <2> SUFFICES ASSUME NEW x \in Lane, NEW y \in PassID PROVE HandlerOk(x, y)'
    BY DEF HandlersOk
  <2>1. LaneOk(x) /\ CursorOk(x) /\ PassOk(y) /\ RequestOk(y) /\ HandlerOk(x, y)
    BY <1>0 DEF PassesOk, RequestsOk, LanesOk, CursorsOk, HandlersOk
  <2> QED
    BY <2>1 DEF HandlerOk, Takes, Has, Sent, Loaded
<1>15. PendingOk'
  BY <1>0 DEF PendingOk, Loaded, Reviewed
<1>16. WritesOk'
  <2> SUFFICES ASSUME NEW x \in Lane PROVE WritesOf(x)'
    BY DEF WritesOk
  <2>2. writes'[x] = writes[x] /\ (writes[x] # <<>> => (Loaded(x)' => Loaded(x)))
    BY DEF Loaded
  <2>3. ASSUME NEW w \in Write
        PROVE  StaysQueued(x, w)
    BY DEF WriteKnown, BeginWaits, Loaded, Sent, AdvanceWaits, Reviewed, WriteWaits, StaysQueued
  <2>4. ASSUME NEW v \in Write, NEW w \in Write
        PROVE  StaysInOrder(x, v, w)
    BY DEF StaysInOrder, InOrder
  <2> QED
    BY <2>2, <2>3, <2>4, <1>0, QueueStays
<1>17. CursorsOk'
  BY <1>0 DEF CursorsOk, CursorOk, Loaded, Reviewed
<1>18. PublishedOk'
  BY <1>0 DEF PublishedOk, Loaded
<1>19. RunningIsRecorded'
  BY <1>0 DEF RunningIsRecorded
<1>20. PermitCoversRequest'
  BY <1>0 DEF PermitCoversRequest
<1>21. ProgressIsReported'
  <2> SUFFICES ASSUME payload'.progress # None
               PROVE  \E m \in Lane : report'[<<m, payload'.progress>>] = "saved"
    BY DEF ProgressIsReported
  <2>1. payload'.progress = payload.progress /\ payload.progress \in PassID
    BY <1>1, <1>2 DEF JournalRecord
  <2>2. PICK m \in Lane : report[<<m, payload.progress>>] = "saved"
    BY <1>0 DEF ProgressIsReported
  <2>3. report'[<<m, payload.progress>>] = "saved"
    BY <2>2
  <2> QED
    BY <2>1, <2>3
<1>22. ProgressHasItsConfiguration'
  BY <1>0 DEF ProgressHasItsConfiguration
<1> QED
  BY <1>10, <1>11, <1>12, <1>13, <1>14, <1>15, <1>16, <1>17, <1>18, <1>19, <1>20, <1>21, <1>22
     DEF IInv

(* A lane gives its row back: from then on no lane is loaded. *)
LEMMA ReleaseKeeps ==
  ASSUME IInv, NEW l \in Lane, Release(l)
  PROVE  IInv'
<1> USE DEF TypesOfWorld, TypesOfLanes, TypesOfPasses, TypesOfResults, Release, Journal!Release,
   journal, world, memory, pass, results
<1>0. TypeOK /\ LanesOk /\ PassesOk /\ RequestsOk /\ HandlersOk /\ PendingOk /\ WritesOk
      /\ CursorsOk /\ PublishedOk /\ RunningIsRecorded /\ PermitCoversRequest
      /\ ProgressIsReported /\ ProgressHasItsConfiguration
  BY DEF IInv
<1>1. TypesOfWorld /\ TypesOfLanes /\ TypesOfPasses /\ TypesOfResults
  BY <1>0, TypesAreOk DEF Types
<1>2. LaneOk(l) /\ CursorOk(l)
  BY <1>0 DEF LanesOk, CursorsOk
<1>10. TypeOK'
  <2>1. TypesOfWorld'
    BY <1>1
  <2>2. TypesOfLanes'
    BY <1>1, <1>2, LaneAssumption DEF JournalRecord, Write, Request, Outcome
  <2>3. TypesOfPasses'
    BY <1>1
  <2>4. TypesOfResults'
    BY <1>1
  <2> QED
    BY <2>1, <2>2, <2>3, <2>4, TypesStayOk DEF Types
<1>11. LanesOk'
  BY <1>0 DEF LanesOk, LaneOk, Loaded
<1>12. PassesOk'
  BY <1>0 DEF PassesOk, PassOk, Loaded
<1>13. RequestsOk'
  BY <1>0 DEF RequestsOk, RequestOk, Sent
<1>14. HandlersOk'
  <2> SUFFICES ASSUME NEW x \in Lane, NEW y \in PassID PROVE HandlerOk(x, y)'
    BY DEF HandlersOk
  <2>1. LaneOk(x) /\ CursorOk(x) /\ PassOk(y) /\ RequestOk(y) /\ HandlerOk(x, y)
    BY <1>0 DEF PassesOk, RequestsOk, LanesOk, CursorsOk, HandlersOk
  <2> QED
    BY <2>1 DEF HandlerOk, Takes, Has, Sent, Loaded
<1>15. PendingOk'
  BY <1>0 DEF PendingOk, Loaded, Reviewed
<1>16. WritesOk'
  <2> SUFFICES ASSUME NEW x \in Lane PROVE WritesOf(x)'
    BY DEF WritesOk
  <2>2. writes'[x] = writes[x] /\ (writes[x] # <<>> => (Loaded(x)' => Loaded(x)))
    BY DEF Loaded
  <2>3. ASSUME NEW w \in Write
        PROVE  StaysQueued(x, w)
    BY DEF WriteKnown, BeginWaits, Loaded, Sent, AdvanceWaits, Reviewed, WriteWaits, StaysQueued
  <2>4. ASSUME NEW v \in Write, NEW w \in Write
        PROVE  StaysInOrder(x, v, w)
    BY DEF StaysInOrder, InOrder
  <2> QED
    BY <2>2, <2>3, <2>4, <1>0, QueueStays
<1>17. CursorsOk'
  BY <1>0 DEF CursorsOk, CursorOk, Loaded, Reviewed
<1>18. PublishedOk'
  BY <1>0 DEF PublishedOk, Loaded
<1>19. RunningIsRecorded'
  BY <1>0 DEF RunningIsRecorded
<1>20. PermitCoversRequest'
  BY <1>0 DEF PermitCoversRequest, Live
<1>21. ProgressIsReported'
  <2> SUFFICES ASSUME payload'.progress # None
               PROVE  \E m \in Lane : report'[<<m, payload'.progress>>] = "saved"
    BY DEF ProgressIsReported
  <2>1. payload'.progress = payload.progress /\ payload.progress \in PassID
    BY <1>1, <1>2 DEF JournalRecord
  <2>2. PICK m \in Lane : report[<<m, payload.progress>>] = "saved"
    BY <1>0 DEF ProgressIsReported
  <2>3. report'[<<m, payload.progress>>] = "saved"
    BY <2>2
  <2> QED
    BY <2>1, <2>3
<1>22. ProgressHasItsConfiguration'
  BY <1>0 DEF ProgressHasItsConfiguration
<1> QED
  BY <1>10, <1>11, <1>12, <1>13, <1>14, <1>15, <1>16, <1>17, <1>18, <1>19, <1>20, <1>21, <1>22
     DEF IInv

(* A lane is retired: it owns its row but accepts nothing any more. *)
LEMMA RetireKeeps ==
  ASSUME IInv, NEW l \in Lane, Retire(l)
  PROVE  IInv'
<1> USE DEF TypesOfWorld, TypesOfLanes, TypesOfPasses, TypesOfResults, Retire, journal, world,
   memory, pass, results
<1>0. TypeOK /\ LanesOk /\ PassesOk /\ RequestsOk /\ HandlersOk /\ PendingOk /\ WritesOk
      /\ CursorsOk /\ PublishedOk /\ RunningIsRecorded /\ PermitCoversRequest
      /\ ProgressIsReported /\ ProgressHasItsConfiguration
  BY DEF IInv
<1>1. TypesOfWorld /\ TypesOfLanes /\ TypesOfPasses /\ TypesOfResults
  BY <1>0, TypesAreOk DEF Types
<1>2. LaneOk(l) /\ CursorOk(l)
  BY <1>0 DEF LanesOk, CursorsOk
<1>10. TypeOK'
  <2>1. TypesOfWorld'
    BY <1>1
  <2>2. TypesOfLanes'
    BY <1>1, <1>2, LaneAssumption DEF JournalRecord, Write, Request, Outcome
  <2>3. TypesOfPasses'
    BY <1>1
  <2>4. TypesOfResults'
    BY <1>1
  <2> QED
    BY <2>1, <2>2, <2>3, <2>4, TypesStayOk DEF Types
<1>11. LanesOk'
  BY <1>0, <1>1 DEF LanesOk, LaneOk, Loaded
<1>12. PassesOk'
  BY <1>0 DEF PassesOk, PassOk, Loaded
<1>13. RequestsOk'
  BY <1>0 DEF RequestsOk, RequestOk, Sent
<1>14. HandlersOk'
  <2> SUFFICES ASSUME NEW x \in Lane, NEW y \in PassID PROVE HandlerOk(x, y)'
    BY DEF HandlersOk
  <2>1. LaneOk(x) /\ CursorOk(x) /\ PassOk(y) /\ RequestOk(y) /\ HandlerOk(x, y)
    BY <1>0 DEF PassesOk, RequestsOk, LanesOk, CursorsOk, HandlersOk
  <2> QED
    BY <2>1 DEF HandlerOk, Takes, Has, Sent, Loaded
<1>15. PendingOk'
  BY <1>1, <1>0 DEF PendingOk, Loaded, Reviewed
<1>16. WritesOk'
  <2> SUFFICES ASSUME NEW x \in Lane PROVE WritesOf(x)'
    BY DEF WritesOk
  <2>1. LaneOk(x) /\ CursorOk(x)
    BY <1>0 DEF LanesOk, CursorsOk
  <2>2. writes'[x] = writes[x] /\ (writes[x] # <<>> => (Loaded(x)' => Loaded(x)))
    BY DEF Loaded
  <2>3. ASSUME NEW w \in Write
        PROVE  StaysQueued(x, w)
    BY <1>1, <1>2, <2>1 DEF WriteKnown, Loaded, LaneOk, StaysQueued
  <2>4. ASSUME NEW v \in Write, NEW w \in Write
        PROVE  StaysInOrder(x, v, w)
    BY DEF StaysInOrder, InOrder
  <2> QED
    BY <2>2, <2>3, <2>4, <1>0, QueueStays
<1>17. CursorsOk'
  BY <1>0 DEF CursorsOk, CursorOk, Loaded, Reviewed
<1>18. PublishedOk'
  BY <1>0 DEF PublishedOk, Loaded
<1>19. RunningIsRecorded'
  BY <1>0 DEF RunningIsRecorded
<1>20. PermitCoversRequest'
  BY <1>0 DEF PermitCoversRequest, Live
<1>21. ProgressIsReported'
  <2> SUFFICES ASSUME payload'.progress # None
               PROVE  \E m \in Lane : report'[<<m, payload'.progress>>] = "saved"
    BY DEF ProgressIsReported
  <2>1. payload'.progress = payload.progress /\ payload.progress \in PassID
    BY <1>1, <1>2 DEF JournalRecord
  <2>2. PICK m \in Lane : report[<<m, payload.progress>>] = "saved"
    BY <2>1, <1>0, LaneAssumption DEF ProgressIsReported
  <2>3. report'[<<m, payload.progress>>] = "saved"
    BY <2>2
  <2> QED
    BY <2>1, <2>3
<1>22. ProgressHasItsConfiguration'
  BY <1>0 DEF ProgressHasItsConfiguration
<1> QED
  BY <1>10, <1>11, <1>12, <1>13, <1>14, <1>15, <1>16, <1>17, <1>18, <1>19, <1>20, <1>21, <1>22
     DEF IInv

(* A pass begins, and takes everything there is to see. *)
LEMMA StartKeeps ==
  ASSUME IInv, NEW l \in Lane, NEW p \in PassID, Start(l, p)
  PROVE  IInv'
<1> USE DEF Start, TypesOfWorld, TypesOfPasses, TypesOfLanes, TypesOfResults, journal, world,
   memory, pass, results
<1>0. TypeOK /\ LanesOk /\ PassesOk /\ RequestsOk /\ HandlersOk /\ PendingOk /\ WritesOk
      /\ CursorsOk /\ PublishedOk /\ RunningIsRecorded /\ PermitCoversRequest
      /\ ProgressIsReported /\ ProgressHasItsConfiguration
  BY DEF IInv
<1>1. TypesOfWorld /\ TypesOfLanes /\ TypesOfPasses /\ TypesOfResults
  BY <1>0, TypesAreOk DEF Types
<1>2. PassOk(p) /\ RequestOk(p) /\ LaneOk(l) /\ CursorOk(l) /\ HandlerOk(l, p)
  BY <1>0 DEF PassesOk, RequestsOk, LanesOk, CursorsOk, HandlersOk
<1>3. /\ Loaded(l) /\ running[l] = None /\ ~Blocked(l)
      /\ stage[p] = "unused" /\ runner[p] = None
  BY <1>2 DEF Busy, Loaded, PassOk
<1>4. payload.pending = None
  <2> SUFFICES ASSUME payload.pending # None
               PROVE  FALSE
    OBVIOUS
  <2>1. /\ payload.pending \in PassID
        /\ running[l] = payload.pending \/ (slot[l] = payload.pending /\ review[<<l, payload.pending>>] = "blocked")
    BY <1>0, <1>1, <1>3 DEF PendingOk
  <2> QED
    BY <2>1, <1>3 DEF Blocked
<1>5. \A x \in Lane : ~Takes(x, p) /\ ~Has(x, p) /\ cursor[x] # p /\ running[x] # p
  <2> TAKE x \in Lane
  <2>1. HandlerOk(x, p) /\ CursorOk(x) /\ LaneOk(x)
    BY <1>0 DEF HandlersOk, CursorsOk, LanesOk
  <2> QED
    BY <2>1, LaneAssumption DEF HandlerOk, CursorOk, LaneOk
<1>6. \A x \in Lane : report[<<x, p>>] = "none" /\ commit[<<x, p>>]["end"] = "none" /\ commit[<<x, p>>]["report"] = "none"
  BY <1>5 DEF Has
<1>7. payload.progress # p /\ published[p] = 0
  <2>1. payload.progress # p
    BY <1>0, <1>6, LaneAssumption DEF ProgressIsReported
  <2> QED
    BY <2>1, <1>0, <1>1 DEF PublishedOk
<1>10. TypeOK'
  <2>1. TypesOfWorld'
    BY <1>1
  <2>2. TypesOfLanes'
    BY <1>1, <1>2, <1>3, <1>4, <1>5, <1>6, <1>7, LaneAssumption
       DEF JournalRecord, Write, Request, Outcome
  <2>3. TypesOfPasses'
    BY <1>1 DEF Stage
  <2>4. TypesOfResults'
    BY <1>1
  <2> QED
    BY <2>1, <2>2, <2>3, <2>4, TypesStayOk DEF Types
<1>11. LanesOk'
  BY <1>0, <1>1 DEF LanesOk, LaneOk, Loaded, Live
<1>12. PassesOk'
  BY <1>0, <1>1, <1>3, <1>4, LaneAssumption DEF PassesOk, PassOk, Loaded
<1>13. RequestsOk'
  BY <1>0 DEF RequestsOk, RequestOk, Early, Sent
<1>14. HandlersOk'
  <2> SUFFICES ASSUME NEW x \in Lane, NEW y \in PassID PROVE HandlerOk(x, y)'
    BY DEF HandlersOk
  <2>1. LaneOk(x) /\ CursorOk(x) /\ PassOk(y) /\ RequestOk(y) /\ HandlerOk(x, y)
    BY <1>0 DEF PassesOk, RequestsOk, LanesOk, CursorsOk, HandlersOk
  <2> QED
    BY <2>1, <1>4, LaneAssumption DEF HandlerOk, Takes, Has, Sent
<1>15. PendingOk'
  BY <1>4 DEF PendingOk
<1>16. WritesOk'
  <2> SUFFICES ASSUME NEW x \in Lane PROVE WritesOf(x)'
    BY DEF WritesOk
  <2>1. LaneOk(x) /\ CursorOk(x)
    BY <1>0 DEF LanesOk, CursorsOk
  <2>2. writes'[x] = writes[x] /\ (writes[x] # <<>> => (Loaded(x)' => Loaded(x)))
    BY DEF Loaded
  <2>3. ASSUME NEW w \in Write
        PROVE  StaysQueued(x, w)
    <3>1. PICK q \in PassID : q = w.request.id
      BY WriteParts
    <3>2. PassOk(q) /\ RequestOk(q) /\ HandlerOk(x, q)
      BY <1>0 DEF PassesOk, RequestsOk, HandlersOk
    <3>3. WriteKnown(x, w) => WriteKnown(x, w)'
      BY <1>3, LaneAssumption DEF WriteKnown
    <3>4. Loaded(x)' /\ BeginWaits(x, q) => BeginWaits(x, q)'
      <4> SUFFICES ASSUME Loaded(x)', BeginWaits(x, q)
                   PROVE  BeginWaits(x, q)'
        OBVIOUS
      <4>2. x # l
        BY <1>3, <3>2, LaneAssumption DEF BeginWaits, PassOk, Blocked
      <4> QED
        BY <4>2 DEF BeginWaits, Sent
    <3>5. Loaded(x)' /\ AdvanceWaits(x, q) => AdvanceWaits(x, q)'
      BY <3>2, <1>1, <1>3, <1>4, <1>5, <1>6 DEF AdvanceWaits, Reviewed, PassOk
    <3>6. Loaded(x)' /\ WriteWaits(x, w) => WriteWaits(x, w)'
      BY <3>1, <3>4, <3>5 DEF WriteWaits
    <3>7. Loaded(x)' => Loaded(x) \/ ~WriteKnown(x, w)
      BY DEF Loaded
    <3> QED
      BY <3>3, <3>6, <3>7 DEF StaysQueued
  <2>4. ASSUME NEW v \in Write, NEW w \in Write
        PROVE  StaysInOrder(x, v, w)
    BY <1>6 DEF WriteKnown, Outcome, StaysInOrder, InOrder, Advancing
  <2> QED
    BY <2>2, <2>3, <2>4, <1>0, QueueStays
<1>17. CursorsOk'
  BY <1>0, <1>1, <1>7 DEF CursorsOk, PassesOk, PassOk, JournalRecord, CursorOk, Loaded, Reviewed
<1>18. PublishedOk'
  BY <1>0 DEF PublishedOk, Loaded
<1>19. RunningIsRecorded'
  BY <1>0 DEF RunningIsRecorded
<1>20. PermitCoversRequest'
  <2> SUFFICES ASSUME NEW y \in PassID, NEW i \in Attempt
               PROVE  (requests[<<y, i>>] = "running" /\ Live(runner[y]) => permit[y])'
    BY DEF PermitCoversRequest
  <2>1. PassOk(y) /\ RequestOk(y)
    BY <1>0 DEF PassesOk, RequestsOk
  <2>2. requests[<<y, i>>] = "running" /\ Live(runner[y]) => permit[y]
    BY <1>0 DEF PermitCoversRequest
  <2>3. requests[<<y, i>>] = "running" => i = attempt[y] /\ stage[y] \notin Early
    BY <2>1, <1>1, RunsAreSent
  <2> QED
    BY <2>2, <2>3 DEF Early, Live
<1>21. ProgressIsReported'
  <2> SUFFICES ASSUME payload'.progress # None
               PROVE  \E m \in Lane : report'[<<m, payload'.progress>>] = "saved"
    BY DEF ProgressIsReported
  <2>1. payload'.progress = payload.progress /\ payload.progress \in PassID
    BY <1>1 DEF JournalRecord
  <2>2. PICK m \in Lane : report[<<m, payload.progress>>] = "saved"
    BY <1>0 DEF ProgressIsReported
  <2>3. report'[<<m, payload.progress>>] = "saved"
    BY <2>2
  <2> QED
    BY <2>1, <2>3
<1>22. ProgressHasItsConfiguration'
  BY <1>7, <1>0 DEF ProgressHasItsConfiguration
<1> QED
  BY <1>10, <1>11, <1>12, <1>13, <1>14, <1>15, <1>16, <1>17, <1>18, <1>19, <1>20, <1>21, <1>22
     DEF IInv

(* The record of a pass is queued behind the saves of earlier ones. *)
LEMMA BeginKeeps ==
  ASSUME IInv, NEW p \in PassID, Begin(p)
  PROVE  IInv'
<1> USE DEF Begin, Foreground, TypesOfLanes, TypesOfWorld, TypesOfPasses, TypesOfResults,
   journal, world, memory, pass, results
<1>0. TypeOK /\ LanesOk /\ PassesOk /\ RequestsOk /\ HandlersOk /\ PendingOk /\ WritesOk
      /\ CursorsOk /\ PublishedOk /\ RunningIsRecorded /\ PermitCoversRequest
      /\ ProgressIsReported /\ ProgressHasItsConfiguration
  BY DEF IInv
<1>1. TypesOfWorld /\ TypesOfLanes /\ TypesOfPasses /\ TypesOfResults
  BY <1>0, TypesAreOk DEF Types
<1>2. PassOk(p) /\ RequestOk(p)
  BY <1>0 DEF PassesOk, RequestsOk
<1>3. stage[p] \in {"preparing"}
  OBVIOUS
<1>l. PICK l \in Lane : l = runner[p]
  BY <1>2, <1>3 DEF PassOk
<1>4. LaneOk(l) /\ CursorOk(l) /\ HandlerOk(l, p)
  BY <1>0 DEF LanesOk, CursorsOk, HandlersOk
<1>5. /\ running[l] = p
      /\ Loaded(l) => active[l] = p
      /\ life[l] # "unborn"
      /\ ~Takes(l, p)
  BY <1>2, <1>l, <1>4, LaneAssumption DEF PassOk, LaneOk, HandlerOk
<1>6. review[<<l, p>>] = "none" /\ ~probing[<<l, p>>] /\ slot[l] # p
  BY <1>5 DEF Takes
<1>7. report[<<l, p>>] = "none" /\ commit[<<l, p>>]["end"] = "none" /\ commit[<<l, p>>]["report"] = "none"
  BY <1>4, <1>l DEF HandlerOk
<1>u. PICK u : u = [request |-> [op |-> "begin", id |-> p], outcome |-> None]
  OBVIOUS
<1>w. u \in Write
  BY <1>u DEF Write, Request
<1>q. writes' = [writes EXCEPT ![l] = Append(@, u)] /\ writes \in [Lane -> Seq(Write)] /\ writes' \in [Lane -> Seq(Write)]
  BY <1>u, <1>l, <1>1, <1>w
<1>10. TypeOK'
  <2>1. TypesOfWorld'
    BY <1>1
  <2>2. TypesOfLanes'
    BY <1>q, <1>1, <1>l
  <2>3. TypesOfPasses'
    BY <1>1 DEF Stage
  <2>4. TypesOfResults'
    BY <1>1
  <2> QED
    BY <2>1, <2>2, <2>3, <2>4, TypesStayOk DEF Types
<1>11. LanesOk'
  BY <1>0, <1>5, LaneAssumption DEF LanesOk, LaneOk, Loaded, Live
<1>12. PassesOk'
  BY <1>0, <1>1 DEF PassesOk, PassOk, Loaded
<1>13. RequestsOk'
  BY <1>0 DEF RequestsOk, RequestOk, Early, Sent
<1>14. HandlersOk'
  <2> SUFFICES ASSUME NEW x \in Lane, NEW y \in PassID PROVE HandlerOk(x, y)'
    BY DEF HandlersOk
  <2>1. LaneOk(x) /\ CursorOk(x) /\ PassOk(y) /\ RequestOk(y) /\ HandlerOk(x, y)
    BY <1>0 DEF PassesOk, RequestsOk, LanesOk, CursorsOk, HandlersOk
  <2> QED
    BY <2>1 DEF HandlerOk, Takes, Has, Sent, Loaded
<1>15. PendingOk'
  BY <1>0 DEF PendingOk, Loaded, Reviewed
<1>16. WritesOk'
  <2> SUFFICES ASSUME NEW x \in Lane PROVE WritesOf(x)'
    BY DEF WritesOk
  <2>2. (Loaded(x)' => Loaded(x)) /\ (x # l => writes'[x] = writes[x])
    BY <1>l DEF Loaded
  <2>3. ASSUME NEW w \in Write
        PROVE  StaysQueued(x, w)
    BY DEF WriteKnown, BeginWaits, Loaded, Sent, AdvanceWaits, Reviewed, WriteWaits, StaysQueued
  <2>4. ASSUME NEW v \in Write, NEW w \in Write
        PROVE  StaysInOrder(x, v, w)
    BY DEF StaysInOrder, InOrder
  <2>5. CASE writes'[x] = writes[x]
    BY <2>2, <2>3, <2>4, <2>5, <1>0, QueueStays
  <2>6. CASE x = l /\ writes'[l] = Append(writes[l], u)
    <3>1. u \in Write
      BY <1>u DEF Write, Request
    <3>2. WriteKnown(l, u)'
      BY <1>u, <1>l DEF WriteKnown, Begins
    <3>3. Loaded(l)' => WriteWaits(l, u)'
      BY <1>u, <1>1, <1>2, <1>l, <1>5, <1>7 DEF WriteWaits, Begins, Advancing, BeginWaits,
         RequestOk, Early, Sent, Loaded
    <3>4. ASSUME Loaded(l)', NEW w \in Write, WriteKnown(l, w), WriteWaits(l, w)
          PROVE  InOrder(w, u)'
      <4>1. ~Begins(w) /\ w.request.id # p
        BY <3>4, <1>2, <1>3, <1>5, <1>7, <1>1, WriteParts DEF WriteKnown, WriteWaits,
           BeginWaits, Loaded, Begins, Outcome
      <4> QED
        BY <4>1, <1>u DEF InOrder, Begins, Advancing
    <3>5. WritesOf(l)'
      BY <2>2, <2>3, <2>4, <2>6, <3>1, <3>2, <3>3, <3>4, <1>0, QueueGrows
    <3> QED
      BY <2>6, <3>5
  <2> QED
    BY <2>5, <2>6, <1>q
<1>17. CursorsOk'
  BY <1>0 DEF CursorsOk, CursorOk, Loaded, Reviewed
<1>18. PublishedOk'
  BY <1>0 DEF PublishedOk, Loaded
<1>19. RunningIsRecorded'
  BY <1>0 DEF RunningIsRecorded
<1>20. PermitCoversRequest'
  BY <1>0 DEF PermitCoversRequest, Live
<1>21. ProgressIsReported'
  BY <1>0 DEF ProgressIsReported
<1>22. ProgressHasItsConfiguration'
  BY <1>0 DEF ProgressHasItsConfiguration
<1> QED
  BY <1>10, <1>11, <1>12, <1>13, <1>14, <1>15, <1>16, <1>17, <1>18, <1>19, <1>20, <1>21, <1>22
     DEF IInv

(* The request is sent: the pass has its permit and is on record. *)
LEMMA DispatchKeeps ==
  ASSUME IInv, NEW p \in PassID, Dispatch(p)
  PROVE  IInv'
<1> USE DEF Dispatch, Foreground, TypesOfWorld, TypesOfLanes, TypesOfPasses, TypesOfResults,
   Sent, journal, world, memory, pass, results
<1>0. TypeOK /\ LanesOk /\ PassesOk /\ RequestsOk /\ HandlersOk /\ PendingOk /\ WritesOk
      /\ CursorsOk /\ PublishedOk /\ RunningIsRecorded /\ PermitCoversRequest
      /\ ProgressIsReported /\ ProgressHasItsConfiguration
  BY DEF IInv
<1>1. TypesOfWorld /\ TypesOfLanes /\ TypesOfPasses /\ TypesOfResults
  BY <1>0, TypesAreOk DEF Types
<1>2. PassOk(p) /\ RequestOk(p)
  BY <1>0 DEF PassesOk, RequestsOk
<1>3. stage[p] \in {"ready"}
  OBVIOUS
<1>l. PICK l \in Lane : l = runner[p]
  BY <1>2, <1>3 DEF PassOk
<1>4. LaneOk(l) /\ CursorOk(l) /\ HandlerOk(l, p)
  BY <1>0 DEF LanesOk, CursorsOk, HandlersOk
<1>5. /\ running[l] = p
      /\ Loaded(l) => active[l] = p
      /\ life[l] # "unborn"
      /\ ~Takes(l, p)
  BY <1>2, <1>l, <1>4, LaneAssumption DEF PassOk, LaneOk, HandlerOk
<1>6. review[<<l, p>>] = "none" /\ ~probing[<<l, p>>] /\ slot[l] # p
  BY <1>5 DEF Takes
<1>7. report[<<l, p>>] = "none" /\ commit[<<l, p>>]["end"] = "none" /\ commit[<<l, p>>]["report"] = "none"
  BY <1>4, <1>l DEF HandlerOk
<1>10. TypeOK'
  <2>1. TypesOfWorld'
    BY <1>1
  <2>2. TypesOfLanes'
    BY <1>1, <1>2, <1>3, <1>l, <1>4, <1>5, <1>6, <1>7, LaneAssumption
       DEF JournalRecord, Write, Request, Outcome
  <2>3. TypesOfPasses'
    BY <1>1 DEF Stage
  <2>4. TypesOfResults'
    BY <1>1
  <2> QED
    BY <2>1, <2>2, <2>3, <2>4, TypesStayOk DEF Types
<1>11. LanesOk'
  BY <1>0 DEF LanesOk, LaneOk, Loaded, Live
<1>12. PassesOk'
  BY <1>0 DEF PassesOk, PassOk, Loaded
<1>13. RequestsOk'
  BY <1>0, <1>1 DEF RequestsOk, PassesOk, LanesOk, RequestOk, Early, Attempt, PendingOk
<1>14. HandlersOk'
  <2> SUFFICES ASSUME NEW x \in Lane, NEW y \in PassID PROVE HandlerOk(x, y)'
    BY DEF HandlersOk
  <2>1. LaneOk(x) /\ CursorOk(x) /\ PassOk(y) /\ RequestOk(y) /\ HandlerOk(x, y)
    BY <1>0 DEF PassesOk, RequestsOk, LanesOk, CursorsOk, HandlersOk
  <2> QED
    BY <2>1 DEF HandlerOk, Takes, Has, Loaded
<1>15. PendingOk'
  BY <1>0 DEF PendingOk, Loaded, Reviewed
<1>16. WritesOk'
  <2> SUFFICES ASSUME NEW x \in Lane PROVE WritesOf(x)'
    BY DEF WritesOk
  <2>2. writes'[x] = writes[x] /\ (writes[x] # <<>> => (Loaded(x)' => Loaded(x)))
    BY DEF Loaded
  <2>3. ASSUME NEW w \in Write
        PROVE  StaysQueued(x, w)
    BY DEF WriteKnown, BeginWaits, Loaded, AdvanceWaits, Reviewed, WriteWaits, StaysQueued
  <2>4. ASSUME NEW v \in Write, NEW w \in Write
        PROVE  StaysInOrder(x, v, w)
    BY DEF StaysInOrder, InOrder
  <2> QED
    BY <2>2, <2>3, <2>4, <1>0, QueueStays
<1>17. CursorsOk'
  BY <1>0 DEF CursorsOk, CursorOk, Loaded, Reviewed
<1>18. PublishedOk'
  BY <1>0 DEF PublishedOk, Loaded
<1>19. RunningIsRecorded'
  BY <1>0, <1>2 DEF RunningIsRecorded, PassOk, Loaded
<1>20. PermitCoversRequest'
  BY <1>0, <1>2 DEF PermitCoversRequest, PassOk, Live, Loaded
<1>21. ProgressIsReported'
  <2> SUFFICES ASSUME payload'.progress # None
               PROVE  \E m \in Lane : report'[<<m, payload'.progress>>] = "saved"
    BY DEF ProgressIsReported
  <2>1. payload'.progress = payload.progress /\ payload.progress \in PassID
    BY <1>1 DEF JournalRecord
  <2>2. PICK m \in Lane : report[<<m, payload.progress>>] = "saved"
    BY <1>0 DEF ProgressIsReported
  <2>3. report'[<<m, payload.progress>>] = "saved"
    BY <2>2
  <2> QED
    BY <2>1, <2>3
<1>22. ProgressHasItsConfiguration'
  BY <1>0 DEF ProgressHasItsConfiguration
<1> QED
  BY <1>10, <1>11, <1>12, <1>13, <1>14, <1>15, <1>16, <1>17, <1>18, <1>19, <1>20, <1>21, <1>22
     DEF IInv

(* A pass returns without having been executed. *)
LEMMA SkipKeeps ==
  ASSUME IInv, NEW p \in PassID, Skip(p)
  PROVE  IInv'
<1> USE DEF Skip, Foreground, TypesOfWorld, TypesOfLanes, TypesOfPasses, TypesOfResults, Leave,
   journal, world, memory, pass, results
<1>0. TypeOK /\ LanesOk /\ PassesOk /\ RequestsOk /\ HandlersOk /\ PendingOk /\ WritesOk
      /\ CursorsOk /\ PublishedOk /\ RunningIsRecorded /\ PermitCoversRequest
      /\ ProgressIsReported /\ ProgressHasItsConfiguration
  BY DEF IInv
<1>1. TypesOfWorld /\ TypesOfLanes /\ TypesOfPasses /\ TypesOfResults
  BY <1>0, TypesAreOk DEF Types
<1>2. PassOk(p) /\ RequestOk(p)
  BY <1>0 DEF PassesOk, RequestsOk
<1>3. stage[p] \in {"preparing"}
  OBVIOUS
<1>l. PICK l \in Lane : l = runner[p]
  BY <1>2, <1>3 DEF PassOk
<1>4. LaneOk(l) /\ CursorOk(l) /\ HandlerOk(l, p)
  BY <1>0 DEF LanesOk, CursorsOk, HandlersOk
<1>5. /\ running[l] = p
      /\ Loaded(l) => active[l] = p
      /\ life[l] # "unborn"
      /\ ~Takes(l, p)
  BY <1>2, <1>l, <1>4, LaneAssumption DEF PassOk, LaneOk, HandlerOk
<1>6. review[<<l, p>>] = "none" /\ ~probing[<<l, p>>] /\ slot[l] # p
  BY <1>5 DEF Takes
<1>7. report[<<l, p>>] = "none" /\ commit[<<l, p>>]["end"] = "none" /\ commit[<<l, p>>]["report"] = "none"
  BY <1>4, <1>l DEF HandlerOk
<1>10. TypeOK'
  <2>1. TypesOfWorld'
    BY <1>1
  <2>2. TypesOfLanes'
    BY <1>1, <1>2, <1>3, <1>l, <1>4, <1>5, <1>6, <1>7, LaneAssumption
       DEF JournalRecord, Write, Request, Outcome
  <2>3. TypesOfPasses'
    BY <1>1 DEF Stage
  <2>4. TypesOfResults'
    BY <1>1, <1>l DEF Handler
  <2> QED
    BY <2>1, <2>2, <2>3, <2>4, TypesStayOk DEF Types
<1>11. LanesOk'
  BY <1>0, <1>1 DEF LanesOk, LaneOk, Loaded, Live
<1>12. PassesOk'
  BY <1>0, <1>1 DEF PassesOk, PassOk, Loaded
<1>13. RequestsOk'
  BY <1>0 DEF RequestsOk, RequestOk, Early, Sent
<1>14. HandlersOk'
  <2> SUFFICES ASSUME NEW x \in Lane, NEW y \in PassID PROVE HandlerOk(x, y)'
    BY DEF HandlersOk
  <2>1. LaneOk(x) /\ CursorOk(x) /\ PassOk(y) /\ RequestOk(y) /\ HandlerOk(x, y)
    BY <1>0 DEF PassesOk, RequestsOk, LanesOk, CursorsOk, HandlersOk
  <2> QED
    BY <2>1 DEF HandlerOk, Takes, Has, Sent, Loaded
<1>15. PendingOk'
  BY <1>2, <1>0 DEF PassOk, PendingOk, Loaded, Reviewed
<1>16. WritesOk'
  <2> SUFFICES ASSUME NEW x \in Lane PROVE WritesOf(x)'
    BY DEF WritesOk
  <2>2. writes'[x] = writes[x] /\ (writes[x] # <<>> => (Loaded(x)' => Loaded(x)))
    BY DEF Loaded
  <2>3. ASSUME NEW w \in Write
        PROVE  StaysQueued(x, w)
    BY DEF WriteKnown, BeginWaits, Loaded, Sent, AdvanceWaits, Reviewed, WriteWaits, StaysQueued
  <2>4. ASSUME NEW v \in Write, NEW w \in Write
        PROVE  StaysInOrder(x, v, w)
    BY DEF StaysInOrder, InOrder
  <2> QED
    BY <2>2, <2>3, <2>4, <1>0, QueueStays
<1>17. CursorsOk'
  BY <1>0 DEF CursorsOk, CursorOk, Loaded, Reviewed
<1>18. PublishedOk'
  BY <1>0 DEF PublishedOk, Loaded
<1>19. RunningIsRecorded'
  BY <1>0 DEF RunningIsRecorded
<1>20. PermitCoversRequest'
  BY <1>0 DEF PermitCoversRequest, Live
<1>21. ProgressIsReported'
  <2> SUFFICES ASSUME payload'.progress # None
               PROVE  \E m \in Lane : report'[<<m, payload'.progress>>] = "saved"
    BY DEF ProgressIsReported
  <2>1. payload'.progress = payload.progress /\ payload.progress \in PassID
    BY <1>1 DEF JournalRecord
  <2>2. PICK m \in Lane : report[<<m, payload.progress>>] = "saved"
    BY <1>0 DEF ProgressIsReported
  <2>3. report'[<<m, payload.progress>>] = "saved"
    BY <2>2
  <2> QED
    BY <2>1, <2>3
<1>22. ProgressHasItsConfiguration'
  BY <1>0 DEF ProgressHasItsConfiguration
<1> QED
  BY <1>10, <1>11, <1>12, <1>13, <1>14, <1>15, <1>16, <1>17, <1>18, <1>19, <1>20, <1>21, <1>22
     DEF IInv

(* An answer is read, and its report is about to be saved. *)
LEMMA AnsweringKeeps ==
  ASSUME IInv, NEW p \in PassID, Answering(p)
  PROVE  IInv'
<1>0. TypeOK /\ LanesOk /\ PassesOk /\ RequestsOk /\ HandlersOk /\ PendingOk /\ WritesOk
      /\ CursorsOk /\ PublishedOk /\ RunningIsRecorded /\ PermitCoversRequest
      /\ ProgressIsReported /\ ProgressHasItsConfiguration
  BY DEF IInv
<1>1. TypesOfWorld /\ TypesOfLanes /\ TypesOfPasses /\ TypesOfResults
  BY <1>0, TypesAreOk DEF Types
<1>2. PassOk(p) /\ RequestOk(p)
  BY <1>0 DEF PassesOk, RequestsOk
<1>3. stage[p] \in {"sent"}
  BY DEF Answering
<1>l. PICK l \in Lane : l = runner[p]
  BY <1>2, <1>3 DEF PassOk
<1>4. LaneOk(l) /\ CursorOk(l) /\ HandlerOk(l, p)
  BY <1>0 DEF LanesOk, CursorsOk, HandlersOk
<1>5. /\ running[l] = p
      /\ Loaded(l) => active[l] = p
      /\ life[l] # "unborn"
      /\ ~Takes(l, p)
  BY <1>2, <1>3, <1>l, <1>4, LaneAssumption DEF PassOk, LaneOk, HandlerOk
<1>6. review[<<l, p>>] = "none" /\ ~probing[<<l, p>>] /\ slot[l] # p
  BY <1>5 DEF Takes
<1>7. report[<<l, p>>] = "none" /\ commit[<<l, p>>]["end"] = "none" /\ commit[<<l, p>>]["report"] = "none"
  BY <1>4, <1>l DEF HandlerOk, Answering
<1>8. \A i \in Attempt : requests[<<p, i>>] # "running"
  BY <1>1, <1>2 DEF Answering, Answered, RequestOk, Sent, TypesOfPasses, Attempt
<1>10. TypeOK'
  <2>1. TypesOfWorld'
    BY <1>1 DEF Answering, Answered, TypesOfWorld, journal
  <2>2. TypesOfLanes'
    BY <1>1 DEF Answering, Answered, TypesOfLanes, memory
  <2>3. TypesOfPasses'
    BY <1>1 DEF Stage, Answering, Answered, TypesOfPasses, Released
  <2>4. TypesOfResults'
    BY <1>1, <1>l DEF Handler, Answering, Answered, TypesOfResults, Own
  <2> QED
    BY <2>1, <2>2, <2>3, <2>4, TypesStayOk DEF Types
<1>11. LanesOk'
  BY <1>0 DEF LanesOk, LaneOk, Loaded, Live, Answering, Answered, journal, memory
<1>12. PassesOk'
  BY <1>0 DEF PassesOk, PassOk, Loaded, Answering, Answered, Released, journal, memory
<1>13. RequestsOk'
  BY <1>0 DEF RequestsOk, RequestOk, Early, Answering, Answered, Sent
<1>14. HandlersOk'
  <2> SUFFICES ASSUME NEW x \in Lane, NEW y \in PassID PROVE HandlerOk(x, y)'
    BY DEF HandlersOk
  <2>1. LaneOk(x) /\ CursorOk(x) /\ PassOk(y) /\ RequestOk(y) /\ HandlerOk(x, y)
    BY <1>0 DEF PassesOk, RequestsOk, LanesOk, CursorsOk, HandlersOk
  <2>2. CASE x = l /\ y = p
    BY <2>2, <2>1, <1>1, <1>l, <1>5 DEF HandlerOk, Takes, Done, Answering, Answered, Sent,
       TypesOfPasses, memory
  <2>3. CASE x # l /\ y = p
    BY <2>3, <2>1, <1>l DEF HandlerOk, Takes, Has, Loaded, Answering, Answered, Sent, Own,
       journal, memory
  <2>4. CASE y # p
    BY <2>4, <2>1 DEF HandlerOk, Takes, Has, Loaded, Answering, Answered, Sent, Own, journal,
       memory
  <2> QED
    BY <2>2, <2>3, <2>4
<1>15. PendingOk'
  BY <1>0 DEF PendingOk, Loaded, Reviewed, Answering, Answered, journal, memory
<1>16. WritesOk'
  <2> SUFFICES ASSUME NEW x \in Lane PROVE WritesOf(x)'
    BY DEF WritesOk
  <2>2. writes'[x] = writes[x] /\ (writes[x] # <<>> => (Loaded(x)' => Loaded(x)))
    BY DEF Loaded, Answering, Answered, memory
  <2>3. ASSUME NEW w \in Write
        PROVE  StaysQueued(x, w)
    <3>1. PICK q \in PassID : q = w.request.id
      BY WriteParts
    <3>2. PassOk(q) /\ RequestOk(q) /\ HandlerOk(x, q)
      BY <1>0 DEF PassesOk, RequestsOk, HandlersOk
    <3>3. WriteKnown(x, w) => WriteKnown(x, w)'
      BY DEF WriteKnown, Answering, Answered
    <3>4. Loaded(x)' /\ BeginWaits(x, q) => BeginWaits(x, q)'
      BY DEF BeginWaits, Answering, Answered, Sent, Own, memory
    <3>5. Loaded(x)' /\ AdvanceWaits(x, q) => AdvanceWaits(x, q)'
      BY <3>2 DEF AdvanceWaits, Reviewed, HandlerOk, Answering, Answered, Own, memory
    <3>6. Loaded(x)' /\ WriteWaits(x, w) => WriteWaits(x, w)'
      BY <3>1, <3>4, <3>5 DEF WriteWaits
    <3>7. Loaded(x)' => Loaded(x) \/ ~WriteKnown(x, w)
      BY DEF Loaded, Answering, memory
    <3> QED
      BY <3>3, <3>6, <3>7 DEF StaysQueued
  <2>4. ASSUME NEW v \in Write, NEW w \in Write
        PROVE  StaysInOrder(x, v, w)
    BY DEF StaysInOrder, InOrder, Answering
  <2> QED
    BY <2>2, <2>3, <2>4, <1>0, QueueStays
<1>17. CursorsOk'
  BY <1>0 DEF CursorsOk, CursorOk, Loaded, Reviewed, Answering, Answered, journal, memory
<1>18. PublishedOk'
  BY <1>0 DEF PublishedOk, Loaded, Answering, Answered, journal, memory
<1>19. RunningIsRecorded'
  BY <1>0 DEF RunningIsRecorded, Answering, journal
<1>20. PermitCoversRequest'
  BY <1>0, <1>8 DEF PermitCoversRequest, Live, Answering, Answered, Released, journal
<1>21. ProgressIsReported'
  <2> SUFFICES ASSUME payload'.progress # None
               PROVE  \E m \in Lane : report'[<<m, payload'.progress>>] = "saved"
    BY DEF ProgressIsReported
  <2>1. payload'.progress = payload.progress /\ payload.progress \in PassID
    BY <1>1 DEF JournalRecord, Answering, TypesOfWorld, journal
  <2>2. PICK m \in Lane : report[<<m, payload.progress>>] = "saved"
    BY <2>1, <1>0 DEF ProgressIsReported
  <2>3. report'[<<m, payload.progress>>] = "saved"
    BY <2>2, <1>l, <1>7 DEF Answering, Answered, Own
  <2> QED
    BY <2>1, <2>3
<1>22. ProgressHasItsConfiguration'
  BY <1>0 DEF ProgressHasItsConfiguration, Answering, journal
<1> QED
  BY <1>10, <1>11, <1>12, <1>13, <1>14, <1>15, <1>16, <1>17, <1>18, <1>19, <1>20, <1>21, <1>22
     DEF IInv

(* The next attempt: the request before it has stopped. *)
LEMMA RetryingKeeps ==
  ASSUME IInv, NEW p \in PassID, Retrying(p)
  PROVE  IInv'
<1>0. TypeOK /\ LanesOk /\ PassesOk /\ RequestsOk /\ HandlersOk /\ PendingOk /\ WritesOk
      /\ CursorsOk /\ PublishedOk /\ RunningIsRecorded /\ PermitCoversRequest
      /\ ProgressIsReported /\ ProgressHasItsConfiguration
  BY DEF IInv
<1>1. TypesOfWorld /\ TypesOfLanes /\ TypesOfPasses /\ TypesOfResults
  BY <1>0, TypesAreOk DEF Types
<1>2. PassOk(p) /\ RequestOk(p)
  BY <1>0 DEF PassesOk, RequestsOk
<1>3. stage[p] \in {"sent", "aborting"}
  BY DEF Retrying
<1>l. PICK l \in Lane : l = runner[p]
  BY <1>2, <1>3 DEF PassOk
<1>4. LaneOk(l) /\ CursorOk(l) /\ HandlerOk(l, p)
  BY <1>0 DEF LanesOk, CursorsOk, HandlersOk
<1>5. /\ running[l] = p
      /\ Loaded(l) => active[l] = p
      /\ life[l] # "unborn"
      /\ ~Takes(l, p)
  BY <1>2, <1>3, <1>l, <1>4, LaneAssumption DEF PassOk, LaneOk, HandlerOk
<1>6. review[<<l, p>>] = "none" /\ ~probing[<<l, p>>] /\ slot[l] # p
  BY <1>5 DEF Takes
<1>7. report[<<l, p>>] = "none" /\ commit[<<l, p>>]["end"] = "none" /\ commit[<<l, p>>]["report"] = "none"
  BY <1>4, <1>l DEF HandlerOk, Retrying
<1>8. /\ attempt[p] \in Attempt /\ attempt[p] + 1 \in Attempt
      /\ attempt' = [attempt EXCEPT ![p] = attempt[p] + 1]
      /\ requests[<<p, attempt[p] + 1>>] = "none"
  BY <1>1, <1>2, LaneAssumption DEF RequestOk, Retrying, Retry, TypesOfPasses, Attempt
<1>9. /\ requests'[<<p, attempt[p] + 1>>] = "none"
      /\ \A i \in Attempt : requests'[<<p, i>>] # "running"
      /\ \A r \in PassID \X Attempt : requests[r] # requests'[r] => r = <<p, attempt[p]>>
  BY <1>1, <1>2, <1>8 DEF Retrying, Stops, Sent, RequestOk, TypesOfWorld, Attempt
<1>10. TypeOK'
  <2>1. TypesOfWorld'
    BY <1>1, <1>2, <1>3, <1>l, <1>4, <1>5, <1>6, <1>7, <1>8, <1>9, LaneAssumption
       DEF JournalRecord, Retrying, Retry, TypesOfPasses, Attempt, Stops, Sent, TypesOfWorld,
           TypesOfLanes, TypesOfResults, Released, journal, world, memory, pass, results
  <2>2. TypesOfLanes'
    BY <1>1 DEF Retrying, Retry, TypesOfLanes, memory
  <2>3. TypesOfPasses'
    BY <1>1, <1>8 DEF Stage, Retrying, Retry, TypesOfPasses, Released
  <2>4. TypesOfResults'
    BY <1>1 DEF Retrying, Retry, TypesOfResults
  <2> QED
    BY <2>1, <2>2, <2>3, <2>4, TypesStayOk DEF Types
<1>11. LanesOk'
  BY <1>0 DEF LanesOk, LaneOk, Loaded, Live, Retrying, Retry, journal, memory
<1>12. PassesOk'
  BY <1>0, <1>1 DEF PassesOk, PassOk, Loaded, Retrying, Retry, TypesOfPasses, Attempt, Released,
     journal, memory
<1>13. RequestsOk'
  BY <1>0, <1>1, LaneAssumption DEF RequestsOk, RequestOk, Retrying, Retry, TypesOfPasses,
     Attempt, Stops, Sent, TypesOfWorld
<1>14. HandlersOk'
  <2> SUFFICES ASSUME NEW x \in Lane, NEW y \in PassID PROVE HandlerOk(x, y)'
    BY DEF HandlersOk
  <2>1. LaneOk(x) /\ CursorOk(x) /\ PassOk(y) /\ RequestOk(y) /\ HandlerOk(x, y)
    BY <1>0 DEF PassesOk, RequestsOk, LanesOk, CursorsOk, HandlersOk
  <2>2. CASE x = l /\ y = p
    BY <2>1, <1>1, <1>9 DEF HandlerOk, Takes, Has, Loaded, Retrying, Retry, TypesOfPasses, Sent,
       journal, memory
  <2>3. CASE x # l /\ y = p
    BY <2>1, <1>1, <1>9 DEF HandlerOk, Takes, Has, Loaded, Retrying, Retry, TypesOfPasses, Sent,
       journal, memory
  <2>4. CASE y # p
    BY <2>1, <1>1, <1>9 DEF HandlerOk, Takes, Has, Loaded, Retrying, Retry, TypesOfPasses, Sent,
       journal, memory
  <2> QED
    BY <2>2, <2>3, <2>4
<1>15. PendingOk'
  BY <1>0 DEF PendingOk, Loaded, Reviewed, Retrying, Retry, journal, memory
<1>16. WritesOk'
  <2> SUFFICES ASSUME NEW x \in Lane PROVE WritesOf(x)'
    BY DEF WritesOk
  <2>2. writes'[x] = writes[x] /\ (writes[x] # <<>> => (Loaded(x)' => Loaded(x)))
    BY DEF Loaded, Retrying, Retry, memory
  <2>3. ASSUME NEW w \in Write
        PROVE  StaysQueued(x, w)
    BY WriteParts, <1>1, <1>9 DEF WriteKnown, Retrying, Retry, TypesOfPasses, BeginWaits, Sent,
       memory, AdvanceWaits, Reviewed, WriteWaits, Loaded, StaysQueued
  <2>4. ASSUME NEW v \in Write, NEW w \in Write
        PROVE  StaysInOrder(x, v, w)
    BY DEF StaysInOrder, InOrder, Retrying
  <2> QED
    BY <2>2, <2>3, <2>4, <1>0, QueueStays
<1>17. CursorsOk'
  <2> SUFFICES ASSUME NEW x \in Lane PROVE CursorOk(x)'
    BY DEF CursorsOk
  <2>1. LaneOk(x) /\ CursorOk(x)
    BY <1>0 DEF LanesOk, CursorsOk
  <2> QED
    BY <2>1 DEF CursorOk, Loaded, Reviewed, Retrying, Retry, journal, memory
<1>18. PublishedOk'
  BY <1>0 DEF PublishedOk, Loaded, Retrying, Retry, journal, memory
<1>19. RunningIsRecorded'
  BY <1>0 DEF RunningIsRecorded, Retrying, Stops, journal
<1>20. PermitCoversRequest'
  BY <1>0, <1>9 DEF PermitCoversRequest, Live, Retrying, Retry, Released, journal
<1>21. ProgressIsReported'
  <2> SUFFICES ASSUME payload'.progress # None
               PROVE  \E m \in Lane : report'[<<m, payload'.progress>>] = "saved"
    BY DEF ProgressIsReported
  <2>1. payload'.progress = payload.progress /\ payload.progress \in PassID
    BY <1>1 DEF JournalRecord, Retrying, TypesOfWorld, journal
  <2>2. PICK m \in Lane : report[<<m, payload.progress>>] = "saved"
    BY <2>1, <1>0 DEF ProgressIsReported
  <2>3. report'[<<m, payload.progress>>] = "saved"
    BY <2>2 DEF Retrying
  <2> QED
    BY <2>1, <2>3
<1>22. ProgressHasItsConfiguration'
  BY <1>0 DEF ProgressHasItsConfiguration, Retrying, journal
<1> QED
  BY <1>10, <1>11, <1>12, <1>13, <1>14, <1>15, <1>16, <1>17, <1>18, <1>19, <1>20, <1>21, <1>22
     DEF IInv

(* A pass returns with its result open, and blocks its lane. *)
LEMMA LeavingKeeps ==
  ASSUME IInv, NEW p \in PassID, Leaving(p)
  PROVE  IInv'
<1> USE DEF Leaving, TypesOfWorld, TypesOfLanes, TypesOfPasses, TypesOfResults, Leave, Own,
   journal, world, memory, pass, results
<1>0. TypeOK /\ LanesOk /\ PassesOk /\ RequestsOk /\ HandlersOk /\ PendingOk /\ WritesOk
      /\ CursorsOk /\ PublishedOk /\ RunningIsRecorded /\ PermitCoversRequest
      /\ ProgressIsReported /\ ProgressHasItsConfiguration
  BY DEF IInv
<1>1. TypesOfWorld /\ TypesOfLanes /\ TypesOfPasses /\ TypesOfResults
  BY <1>0, TypesAreOk DEF Types
<1>2. PassOk(p) /\ RequestOk(p)
  BY <1>0 DEF PassesOk, RequestsOk
<1>3. stage[p] \in {"aborting", "saving", "end", "report"}
  OBVIOUS
<1>l. PICK l \in Lane : l = runner[p]
  BY <1>2, <1>3 DEF PassOk
<1>4. LaneOk(l) /\ CursorOk(l) /\ HandlerOk(l, p)
  BY <1>0 DEF LanesOk, CursorsOk, HandlersOk
<1>5. /\ running[l] = p
      /\ Loaded(l) => active[l] = p
      /\ life[l] # "unborn"
      /\ ~Takes(l, p)
  BY <1>2, <1>l, <1>4, LaneAssumption DEF PassOk, LaneOk, HandlerOk
<1>6. review[<<l, p>>] = "none" /\ ~probing[<<l, p>>] /\ slot[l] # p
  BY <1>5 DEF Takes
<1>10. TypeOK'
  <2>1. TypesOfWorld'
    BY <1>1, <1>2, <1>3, <1>l, <1>4, <1>5, <1>6, LaneAssumption DEF JournalRecord, Attempt
  <2>2. TypesOfLanes'
    BY <1>1, <1>2, <1>3, <1>l, <1>4, <1>5, <1>6, LaneAssumption
       DEF JournalRecord, Write, Request, Outcome
  <2>3. TypesOfPasses'
    BY <1>1, <1>2, <1>3, <1>l, <1>4, <1>5, <1>6, LaneAssumption DEF Stage, Attempt
  <2>4. TypesOfResults'
    BY <1>1, <1>l DEF Handler
  <2> QED
    BY <2>1, <2>2, <2>3, <2>4, TypesStayOk DEF Types
<1>11. LanesOk'
  BY <1>0, <1>1 DEF LanesOk, LaneOk, Loaded, Live
<1>12. PassesOk'
  BY <1>0, <1>1 DEF PassesOk, PassOk, Loaded
<1>13. RequestsOk'
  BY <1>0 DEF RequestsOk, RequestOk, Early, Sent
<1>14. HandlersOk'
  <2> SUFFICES ASSUME NEW x \in Lane, NEW y \in PassID PROVE HandlerOk(x, y)'
    BY DEF HandlersOk
  <2>1. LaneOk(x) /\ CursorOk(x) /\ PassOk(y) /\ RequestOk(y) /\ HandlerOk(x, y)
    BY <1>0 DEF PassesOk, RequestsOk, LanesOk, CursorsOk, HandlersOk
  <2>2. CASE x = l /\ y = p
    BY <2>2, <2>1, <1>1, <1>l, <1>5 DEF HandlerOk, Has, Sent, Loaded
  <2>3. CASE x # l /\ y = p
    BY <2>3, <2>1, <1>l DEF HandlerOk, Takes, Has, Sent, Loaded
  <2>4. CASE y # p
    BY <2>4, <2>1 DEF HandlerOk, Takes, Has, Sent, Loaded
  <2> QED
    BY <2>2, <2>3, <2>4
<1>15. PendingOk'
  BY <1>0, <1>1, <1>5, <1>l DEF Loaded, PendingOk, Reviewed, Handler
<1>16. WritesOk'
  <2> SUFFICES ASSUME NEW x \in Lane PROVE WritesOf(x)'
    BY DEF WritesOk
  <2>1. LaneOk(x) /\ CursorOk(x)
    BY <1>0 DEF LanesOk, CursorsOk
  <2>2. writes'[x] = writes[x] /\ (writes[x] # <<>> => (Loaded(x)' => Loaded(x)))
    BY DEF Loaded
  <2>3. ASSUME NEW w \in Write
        PROVE  StaysQueued(x, w)
    <3>1. PICK q \in PassID : q = w.request.id
      BY WriteParts
    <3>2. PassOk(q) /\ RequestOk(q) /\ HandlerOk(x, q)
      BY <1>0 DEF PassesOk, RequestsOk, HandlersOk
    <3>3. WriteKnown(x, w) => WriteKnown(x, w)'
      BY DEF WriteKnown
    <3>4. Loaded(x)' /\ BeginWaits(x, q) => BeginWaits(x, q)'
      <4> SUFFICES ASSUME Loaded(x)', BeginWaits(x, q)
                   PROVE  BeginWaits(x, q)'
        OBVIOUS
      <4>1. CASE q = p
        <5> QED
          BY <4>1, <1>1 DEF Handler, BeginWaits, Sent
      <4>2. CASE q # p
        <5>1. x # l
          BY <4>2, <1>5 DEF BeginWaits, Loaded
        <5> QED
          BY <5>1, <1>l DEF BeginWaits, Sent
      <4> QED
        BY <4>1, <4>2
    <3>5. Loaded(x)' /\ AdvanceWaits(x, q) => AdvanceWaits(x, q)'
      BY <1>1, <1>l DEF Handler, AdvanceWaits, Reviewed
    <3>6. Loaded(x)' /\ WriteWaits(x, w) => WriteWaits(x, w)'
      BY <3>1, <3>4, <3>5 DEF WriteWaits
    <3>7. Loaded(x)' => Loaded(x) \/ ~WriteKnown(x, w)
      BY DEF Loaded
    <3> QED
      BY <3>3, <3>6, <3>7 DEF StaysQueued
  <2>4. ASSUME NEW v \in Write, NEW w \in Write
        PROVE  StaysInOrder(x, v, w)
    BY DEF StaysInOrder, InOrder
  <2> QED
    BY <2>2, <2>3, <2>4, <1>0, QueueStays
<1>17. CursorsOk'
  BY <1>0 DEF CursorsOk, CursorOk, Loaded, Reviewed
<1>18. PublishedOk'
  BY <1>0 DEF PublishedOk, Loaded
<1>19. RunningIsRecorded'
  BY <1>0 DEF RunningIsRecorded
<1>20. PermitCoversRequest'
  BY <1>0 DEF PermitCoversRequest, Live
<1>21. ProgressIsReported'
  <2> SUFFICES ASSUME payload'.progress # None
               PROVE  \E m \in Lane : report'[<<m, payload'.progress>>] = "saved"
    BY DEF ProgressIsReported
  <2>1. payload'.progress = payload.progress /\ payload.progress \in PassID
    BY <1>1 DEF JournalRecord
  <2>2. PICK m \in Lane : report[<<m, payload.progress>>] = "saved"
    BY <2>1, <1>0, LaneAssumption DEF ProgressIsReported
  <2>3. report'[<<m, payload.progress>>] = "saved"
    BY <2>1, <2>2, <1>1, <1>2, <1>3, <1>l, <1>4, <1>5, <1>6 DEF Handler
  <2> QED
    BY <2>1, <2>3
<1>22. ProgressHasItsConfiguration'
  BY <1>0 DEF ProgressHasItsConfiguration
<1> QED
  BY <1>10, <1>11, <1>12, <1>13, <1>14, <1>15, <1>16, <1>17, <1>18, <1>19, <1>20, <1>21, <1>22
     DEF IInv

(* A pass ends without a report, and its end is queued. *)
LEMMA EndingKeeps ==
  ASSUME IInv, NEW p \in PassID, Ending(p)
  PROVE  IInv'
<1>0. TypeOK /\ LanesOk /\ PassesOk /\ RequestsOk /\ HandlersOk /\ PendingOk /\ WritesOk
      /\ CursorsOk /\ PublishedOk /\ RunningIsRecorded /\ PermitCoversRequest
      /\ ProgressIsReported /\ ProgressHasItsConfiguration
  BY DEF IInv
<1>1. TypesOfWorld /\ TypesOfLanes /\ TypesOfPasses /\ TypesOfResults
  BY <1>0, TypesAreOk DEF Types
<1>2. PassOk(p) /\ RequestOk(p)
  BY <1>0 DEF PassesOk, RequestsOk
<1>3. stage[p] \in {"preparing", "beginning", "ready", "refused", "sent", "aborting"}
  BY DEF Ending
<1>l. PICK l \in Lane : l = runner[p]
  BY <1>2, <1>3 DEF PassOk
<1>4. LaneOk(l) /\ CursorOk(l) /\ HandlerOk(l, p)
  BY <1>0 DEF LanesOk, CursorsOk, HandlersOk
<1>5. /\ running[l] = p
      /\ Loaded(l) => active[l] = p
      /\ life[l] # "unborn"
      /\ ~Takes(l, p)
  BY <1>2, <1>3, <1>l, <1>4, LaneAssumption DEF PassOk, LaneOk, HandlerOk
<1>6. review[<<l, p>>] = "none" /\ ~probing[<<l, p>>] /\ slot[l] # p
  BY <1>5 DEF Takes
<1>7. report[<<l, p>>] = "none" /\ commit[<<l, p>>]["end"] = "none" /\ commit[<<l, p>>]["report"] = "none"
  BY <1>4, <1>l DEF HandlerOk, Ending
<1>k. "end" \in Outcome
  BY DEF Outcome
<1>s. /\ \A i \in Attempt : requests'[<<p, i>>] # "running"
      /\ requests[Sent(p)] = "none" => requests'[Sent(p)] = "none"
      /\ \A q \in PassID, i \in Attempt : q # p => requests'[<<q, i>>] = requests[<<q, i>>]
      /\ \A i \in Attempt : i # attempt[p] => requests'[<<p, i>>] = requests[<<p, i>>]
      /\ requests' \in [PassID \X Attempt -> {"none", "running", "answered", "failed", "aborted"}]
  <2>1. Stops(p)
    BY DEF Ending
  <2> QED
    BY <2>1, <1>1, <1>2 DEF Stops, Sent, RequestOk, TypesOfPasses, TypesOfWorld, Attempt
<1>u. PICK u : u = Settle(<<l, p>>, "end")
  OBVIOUS
<1>w. u \in Write
  BY <1>u, <1>k DEF Settle, Write, Request
<1>v. u.request.id = p /\ u.outcome = "end" /\ ~Begins(u)
      /\ (Advancing(u) => "end" = "report" /\ Advances(<<l, p>>))
  BY <1>u DEF Settle, Begins, Advancing, Ending, Sent, TypesOfPasses, End, TypesOfLanes,
     TypesOfResults, memory
<1>c. PICK c \in {"settling", "durable"} :
        /\ commit' = [commit EXCEPT ![<<l, p>>]["end"] = c]
        /\ c = "durable" => active[l] # p /\ writes' = writes
        /\ c = "settling" => active[l] = p /\ writes' = [writes EXCEPT ![l] = Append(@, u)]
  BY <1>u, <1>l DEF Own, StartCommit, Current, Ending, End
<1>d. /\ commit'[<<l, p>>]["end"] = c
      /\ \A x \in Lane, y \in PassID, j \in Outcome :
           x # l \/ y # p \/ j # "end" => commit'[<<x, y>>][j] = commit[<<x, y>>][j]
      /\ commit' \in [Handler -> [Outcome -> {"none", "settling", "failed", "durable", "taken"}]]
  BY <1>c, <1>k, <1>1 DEF TypesOfResults, Handler
<1>q. /\ \A x \in Lane : writes'[x] = writes[x] \/ (x = l /\ writes'[l] = Append(writes[l], u))
      /\ writes \in [Lane -> Seq(Write)] /\ writes' \in [Lane -> Seq(Write)]
  <2>1. writes \in [Lane -> Seq(Write)] /\ Append(writes[l], u) \in Seq(Write)
    BY <1>w, <1>1 DEF TypesOfLanes
  <2>2. CASE c = "settling"
    BY <2>1, <2>2, <1>c DEF Ending, Sent, TypesOfPasses, End, TypesOfLanes, TypesOfResults,
       memory
  <2>3. CASE c = "durable"
    BY <2>1, <2>3, <1>c
  <2> QED
    BY <2>2, <2>3
<1>o. "end" \in Outcome /\ "report" \in Outcome /\ \A j \in Outcome : j \in {"end", "report"}
  BY DEF Outcome
<1>10. TypeOK'
  <2>1. TypesOfWorld'
    BY <1>1, <1>s DEF TypesOfWorld, journal, Ending
  <2>2. TypesOfLanes'
    BY <1>q, <1>1 DEF Ending, TypesOfLanes, memory
  <2>3. TypesOfPasses'
    BY <1>1 DEF Stage, Released, Ending, TypesOfPasses, End
  <2>4. TypesOfResults'
    BY <1>1, <1>c DEF Handler, Outcome, Ending, TypesOfResults
  <2> QED
    BY <2>1, <2>2, <2>3, <2>4, TypesStayOk DEF Types
<1>11. LanesOk'
  BY <1>0, <1>1, <1>5, <1>c DEF LanesOk, LaneOk, Loaded, Live, journal, Ending, End,
     TypesOfLanes, memory
<1>12. PassesOk'
  BY <1>0, <1>1 DEF PassesOk, PassOk, Loaded, Released, journal, Ending, TypesOfPasses, End,
     memory
<1>13. RequestsOk'
  BY <1>0, <1>1, <1>s DEF RequestsOk, RequestOk, Early, Ending, Sent, TypesOfPasses, End
<1>14. HandlersOk'
  <2> SUFFICES ASSUME NEW x \in Lane, NEW y \in PassID PROVE HandlerOk(x, y)'
    BY DEF HandlersOk
  <2>1. LaneOk(x) /\ CursorOk(x) /\ PassOk(y) /\ RequestOk(y) /\ HandlerOk(x, y)
    BY <1>0 DEF PassesOk, RequestsOk, LanesOk, CursorsOk, HandlersOk
  <2>2. CASE x = l /\ y = p
    BY <2>2, <2>1, <1>1, <1>l, <1>5, <1>s, <1>c DEF HandlerOk, Takes, Loaded, Done, Ending,
       Sent, TypesOfPasses, End, memory
  <2>3. CASE x # l /\ y = p
    BY <2>3, <2>1, <1>1, <1>s, <1>c DEF TypesOfWorld, HandlerOk, Takes, Has, Loaded, journal,
       Ending, Sent, End, memory
  <2>4. CASE y # p
    BY <2>4, <2>1, <1>1, <1>s, <1>c DEF HandlerOk, Takes, Has, Loaded, journal, Ending, Sent,
       TypesOfPasses, End, memory
  <2> QED
    BY <2>2, <2>3, <2>4
<1>15. PendingOk'
  BY <1>0 DEF PendingOk, Loaded, Reviewed, journal, Ending, End, memory
<1>16. WritesOk'
  <2> SUFFICES ASSUME NEW x \in Lane PROVE WritesOf(x)'
    BY DEF WritesOk
  <2>1. LaneOk(x) /\ CursorOk(x)
    BY <1>0 DEF LanesOk, CursorsOk
  <2>2. (Loaded(x)' => Loaded(x)) /\ (x # l => writes'[x] = writes[x])
    BY <1>1, <1>c DEF Loaded, Ending, TypesOfLanes, memory
  <2>3. ASSUME NEW w \in Write
        PROVE  StaysQueued(x, w)
    <3>1. PICK q \in PassID : q = w.request.id
      BY WriteParts
    <3>2. PassOk(q) /\ RequestOk(q) /\ HandlerOk(x, q)
      BY <1>0 DEF PassesOk, RequestsOk, HandlersOk
    <3>3. WriteKnown(x, w) => WriteKnown(x, w)'
      BY <1>c DEF WriteKnown, Ending
    <3>4. Loaded(x)' /\ BeginWaits(x, q) => BeginWaits(x, q)'
      <4> SUFFICES ASSUME Loaded(x)', BeginWaits(x, q)
                   PROVE  BeginWaits(x, q)'
        OBVIOUS
      <4>1. CASE q = p
        <5>1. x = l /\ stage[p] = "beginning" /\ active[l] = p
          BY <4>1, <1>3, <1>l DEF BeginWaits
        <5>2. commit'[<<l, p>>]["end"] = "settling" /\ commit'[<<l, p>>]["report"] = "none"
          BY <5>1, <1>c, <1>d, <1>7
        <5>3. requests'[Sent(p)] = "none" /\ stage'[p] = "end" /\ attempt' = attempt
          BY <4>1, <1>s, <1>1 DEF BeginWaits, Ending, TypesOfPasses, End
        <5> QED
          BY <5>1, <5>2, <5>3 DEF BeginWaits, Ending, Sent, memory
      <4>2. CASE q # p
        <5>1. requests'[Sent(q)] = requests[Sent(q)]
          BY <4>2, <1>s, <1>1 DEF Sent, TypesOfPasses
        <5>2. \A j \in Outcome : commit'[<<x, q>>][j] = commit[<<x, q>>][j]
          BY <4>2, <1>d
        <5> QED
          BY <4>2, <5>1, <5>2, <1>o, <1>1 DEF BeginWaits, Ending, Sent, TypesOfPasses, End,
             TypesOfLanes, TypesOfResults, memory
      <4> QED
        BY <4>1, <4>2
    <3>5. Loaded(x)' /\ AdvanceWaits(x, q) => AdvanceWaits(x, q)'
      BY DEF AdvanceWaits, Reviewed, Ending, memory
    <3>6. Loaded(x)' /\ WriteWaits(x, w) => WriteWaits(x, w)'
      BY <3>1, <3>4, <3>5 DEF WriteWaits
    <3>7. Loaded(x)' => Loaded(x) \/ ~WriteKnown(x, w)
      BY DEF Loaded, Ending, memory
    <3> QED
      BY <3>3, <3>6, <3>7 DEF StaysQueued
  <2>4. ASSUME NEW v \in Write, NEW w \in Write
        PROVE  StaysInOrder(x, v, w)
    BY DEF StaysInOrder, InOrder, Ending
  <2>5. CASE writes'[x] = writes[x]
    BY <2>2, <2>3, <2>4, <2>5, <1>0, QueueStays
  <2>6. CASE x = l /\ writes'[l] = Append(writes[l], u)
    <3>1. u \in Write
      BY <1>u DEF Write, Request, Outcome, Settle
    <3>2. WriteKnown(l, u)'
      BY <1>v, <1>d, <1>c DEF WriteKnown
    <3>3. Loaded(l)' => WriteWaits(l, u)'
      BY <1>v DEF WriteWaits
    <3>4. ASSUME Loaded(l)', NEW w \in Write, WriteKnown(l, w), WriteWaits(l, w)
          PROVE  InOrder(w, u)'
      BY <1>v DEF InOrder
    <3>5. WritesOf(l)'
      BY <2>2, <2>3, <2>4, <2>6, <3>1, <3>2, <3>3, <3>4, <1>0, QueueGrows
    <3> QED
      BY <2>6, <3>5
  <2> QED
    BY <2>5, <2>6, <1>q
<1>17. CursorsOk'
  BY <1>0 DEF CursorsOk, CursorOk, Loaded, Reviewed, journal, Ending, End, memory
<1>18. PublishedOk'
  BY <1>0 DEF PublishedOk, Loaded, journal, Ending, End, memory
<1>19. RunningIsRecorded'
  BY <1>0, <1>s DEF RunningIsRecorded, journal, Ending
<1>20. PermitCoversRequest'
  BY <1>0, <1>s DEF PermitCoversRequest, Live, Released, journal, Ending, End
<1>21. ProgressIsReported'
  BY <1>0 DEF ProgressIsReported, journal, Ending
<1>22. ProgressHasItsConfiguration'
  BY <1>0 DEF ProgressHasItsConfiguration, journal, Ending
<1> QED
  BY <1>10, <1>11, <1>12, <1>13, <1>14, <1>15, <1>16, <1>17, <1>18, <1>19, <1>20, <1>21, <1>22
     DEF IInv

(* A lane queues the save of a result, or finds it durable already. *)
LEMMA CommittingKeeps ==
  ASSUME IInv, NEW l \in Lane, NEW p \in PassID, NEW k \in Outcome, Committing(l, p, k)
  PROVE  IInv'
<1>0. TypeOK /\ LanesOk /\ PassesOk /\ RequestsOk /\ HandlersOk /\ PendingOk /\ WritesOk
      /\ CursorsOk /\ PublishedOk /\ RunningIsRecorded /\ PermitCoversRequest
      /\ ProgressIsReported /\ ProgressHasItsConfiguration
  BY DEF IInv
<1>1. TypesOfWorld /\ TypesOfLanes /\ TypesOfPasses /\ TypesOfResults
  BY <1>0, TypesAreOk DEF Types
<1>2. PassOk(p) /\ RequestOk(p) /\ LaneOk(l) /\ CursorOk(l) /\ HandlerOk(l, p)
  BY <1>0 DEF PassesOk, RequestsOk, LanesOk, CursorsOk, HandlersOk
<1>k. k \in Outcome
  OBVIOUS
<1>x. Loaded(l)' => Loaded(l)
  BY DEF Loaded, Committing, memory
<1>3. /\ stage[p] # "unused"
      /\ life[l] # "unborn"
      /\ runner[p] # l => life[runner[p]] = "retired" /\ review[<<l, p>>] # "none"
  BY <1>2, LaneAssumption DEF HandlerOk, PassOk, Committing
<1>4. /\ runner[p] = l => stage[p] = "returned" \/ (k = "report" /\ stage[p] \in {"saving", "report"})
      /\ k = "end" => commit[<<l, p>>]["end"] \in {"none", "failed"}
      /\ k = "report" => report[<<l, p>>] \in {"saving", "saved"}
  BY DEF Committing
<1>s. /\ \A i \in Attempt : requests'[<<p, i>>] # "running"
      /\ requests[Sent(p)] = "none" => requests'[Sent(p)] = "none"
      /\ \A q \in PassID, i \in Attempt : q # p => requests'[<<q, i>>] = requests[<<q, i>>]
      /\ \A i \in Attempt : i # attempt[p] => requests'[<<p, i>>] = requests[<<p, i>>]
      /\ requests' \in [PassID \X Attempt -> {"none", "running", "answered", "failed", "aborted"}]
  <2>1. Stops(p)
    BY DEF Committing
  <2> QED
    BY <2>1, <1>1, <1>2 DEF Stops, Sent, RequestOk, TypesOfPasses, TypesOfWorld, Attempt
<1>u. PICK u : u = Settle(<<l, p>>, k)
  OBVIOUS
<1>w. u \in Write
  BY <1>u DEF Settle, Write, Request
<1>v. u.request.id = p /\ u.outcome = k /\ ~Begins(u)
      /\ (Advancing(u) => k = "report" /\ Advances(<<l, p>>))
  BY <1>u DEF Settle, Begins, Advancing, Committing, memory, Sent, TypesOfPasses, TypesOfResults
<1>c. PICK c \in {"settling", "durable"} :
        /\ commit' = [commit EXCEPT ![<<l, p>>][k] = c]
        /\ c = "durable" => active[l] # p /\ writes' = writes
        /\ c = "settling" => active[l] = p /\ writes' = [writes EXCEPT ![l] = Append(@, u)]
  BY <1>u DEF StartCommit, Current, Committing
<1>d. /\ commit'[<<l, p>>][k] = c
      /\ \A x \in Lane, y \in PassID, j \in Outcome :
           x # l \/ y # p \/ j # k => commit'[<<x, y>>][j] = commit[<<x, y>>][j]
      /\ commit' \in [Handler -> [Outcome -> {"none", "settling", "failed", "durable", "taken"}]]
  BY <1>c, <1>k, <1>1 DEF TypesOfResults, Handler
<1>q. /\ \A x \in Lane : writes'[x] = writes[x] \/ (x = l /\ writes'[l] = Append(writes[l], u))
      /\ writes \in [Lane -> Seq(Write)] /\ writes' \in [Lane -> Seq(Write)]
  <2>1. writes \in [Lane -> Seq(Write)] /\ Append(writes[l], u) \in Seq(Write)
    BY <1>w, <1>1 DEF TypesOfLanes
  <2>2. CASE c = "settling"
    BY <2>1, <2>2, <1>c DEF Committing, memory, Sent, TypesOfPasses, TypesOfResults
  <2>3. CASE c = "durable"
    BY <2>1, <2>3, <1>c
  <2> QED
    BY <2>2, <2>3
<1>o. "end" \in Outcome /\ "report" \in Outcome /\ \A j \in Outcome : j \in {"end", "report"}
  BY DEF Outcome
<1>10. TypeOK'
  <2>1. TypesOfWorld'
    BY <1>1, <1>s DEF TypesOfWorld, journal, Committing
  <2>2. TypesOfLanes'
    BY <1>q, <1>1 DEF TypesOfLanes, Committing, memory
  <2>3. TypesOfPasses'
    BY <1>1 DEF Stage, Committing, TypesOfPasses
  <2>4. TypesOfResults'
    BY <1>1, <1>c DEF Handler, Committing, TypesOfResults
  <2> QED
    BY <2>1, <2>2, <2>3, <2>4, TypesStayOk DEF Types
<1>11. LanesOk'
  BY <1>0, <1>1, <1>3, <1>c DEF LanesOk, TypesOfLanes, LaneOk, Loaded, Live, journal,
     Committing, memory
<1>12. PassesOk'
  BY <1>0, <1>1, <1>3 DEF PassesOk, PassOk, Loaded, journal, Committing, memory, TypesOfPasses
<1>13. RequestsOk'
  <2> SUFFICES ASSUME NEW y \in PassID PROVE RequestOk(y)'
    BY DEF RequestsOk
  <2>1. PassOk(y) /\ RequestOk(y)
    BY <1>0 DEF PassesOk, RequestsOk
  <2>2. stage'[y] \in Early => stage[y] \in Early
    BY DEF Early, Committing
  <2>3. attempt' = attempt /\ attempt[y] \in Attempt
    BY <1>1 DEF Committing, TypesOfPasses
  <2>4. CASE y = p
    BY <2>1, <2>2, <2>3, <1>s DEF RequestOk, Sent
  <2>5. CASE y # p
    BY <2>1, <2>2, <2>3, <1>s DEF RequestOk, Sent
  <2> QED
    BY <2>4, <2>5
<1>14. HandlersOk'
  <2> SUFFICES ASSUME NEW x \in Lane, NEW y \in PassID PROVE HandlerOk(x, y)'
    BY DEF HandlersOk
  <2>1. LaneOk(x) /\ CursorOk(x) /\ PassOk(y) /\ RequestOk(y) /\ HandlerOk(x, y)
    BY <1>0 DEF PassesOk, RequestsOk, LanesOk, CursorsOk, HandlersOk
  <2>2. CASE x = l /\ y = p
    BY <2>2, <2>1, <1>1, <1>3, <1>s, <1>c, <1>0, LaneAssumption
       DEF HandlerOk, Takes, Loaded, Done, PendingOk, journal, Committing, memory, Sent,
           TypesOfPasses, TypesOfResults
  <2>3. CASE x # l /\ y = p
    BY <2>3, <2>1, <1>1, <1>s, <1>c DEF HandlerOk, Takes, Has, Loaded, journal, Committing,
       memory, Sent, TypesOfPasses
  <2>4. CASE y # p
    BY <2>4, <2>1, <1>1, <1>s, <1>c DEF HandlerOk, Takes, Has, Loaded, journal, Committing,
       memory, Sent, TypesOfPasses
  <2> QED
    BY <2>2, <2>3, <2>4
<1>15. PendingOk'
  BY <1>0 DEF PendingOk, Loaded, Reviewed, journal, Committing, memory
<1>16. WritesOk'
  <2> SUFFICES ASSUME NEW x \in Lane PROVE WritesOf(x)'
    BY DEF WritesOk
  <2>1. LaneOk(x) /\ CursorOk(x)
    BY <1>0 DEF LanesOk, CursorsOk
  <2>2. (Loaded(x)' => Loaded(x)) /\ (x # l => writes'[x] = writes[x])
    BY <1>1, <1>c DEF TypesOfLanes, Loaded, Committing, memory
  <2>3. ASSUME NEW w \in Write
        PROVE  StaysQueued(x, w)
    <3>1. PICK q \in PassID : q = w.request.id
      BY WriteParts
    <3>2. PassOk(q) /\ RequestOk(q) /\ HandlerOk(x, q)
      BY <1>0 DEF PassesOk, RequestsOk, HandlersOk
    <3>3. WriteKnown(x, w) => WriteKnown(x, w)'
      BY <1>c DEF WriteKnown, Committing
    <3>4. Loaded(x)' /\ BeginWaits(x, q) => BeginWaits(x, q)'
      <4> SUFFICES ASSUME Loaded(x)', BeginWaits(x, q)
                   PROVE  BeginWaits(x, q)'
        OBVIOUS
      <4>1. q # p
        <5> SUFFICES ASSUME q = p
                     PROVE  FALSE
          OBVIOUS
        <5>1. runner[p] = x /\ report[<<x, p>>] = "none" /\ commit[<<x, p>>]["end"] \in {"none", "settling"}
              /\ stage[p] \in {"beginning", "end", "returned"}
              /\ (stage[p] = "beginning" \/ commit[<<x, p>>]["end"] = "settling")
          BY DEF BeginWaits
        <5>2. x = l
          BY <5>1, <1>3, <2>2 DEF Loaded
        <5> QED
          BY <5>1, <5>2, <1>4, <1>o
      <4>2. requests'[Sent(q)] = requests[Sent(q)]
        BY <4>1, <1>s, <1>1 DEF Sent, TypesOfPasses
      <4>3. \A j \in Outcome : commit'[<<x, q>>][j] = commit[<<x, q>>][j]
        BY <4>1, <1>d
      <4> QED
        BY <4>1, <4>2, <4>3, <1>o, <1>1 DEF BeginWaits, Handler, Committing, memory, Sent,
           TypesOfPasses, TypesOfResults
    <3>5. Loaded(x)' /\ AdvanceWaits(x, q) => AdvanceWaits(x, q)'
      BY <1>1 DEF Handler, AdvanceWaits, Reviewed, Committing, memory, Sent, TypesOfPasses,
         TypesOfResults
    <3>6. Loaded(x)' /\ WriteWaits(x, w) => WriteWaits(x, w)'
      BY <3>1, <3>4, <3>5 DEF WriteWaits
    <3>7. Loaded(x)' => Loaded(x) \/ ~WriteKnown(x, w)
      BY DEF Loaded, Committing, memory
    <3> QED
      BY <3>3, <3>6, <3>7 DEF StaysQueued
  <2>4. ASSUME NEW v \in Write, NEW w \in Write
        PROVE  StaysInOrder(x, v, w)
    BY DEF StaysInOrder, InOrder, Committing
  <2>5. CASE writes'[x] = writes[x]
    BY <2>2, <2>3, <2>4, <2>5, <1>0, QueueStays
  <2>6. CASE x = l /\ writes'[l] = Append(writes[l], u)
    <3>1. u \in Write
      BY <1>u DEF Write, Request, Settle
    <3>2. WriteKnown(l, u)'
      BY <1>v, <1>d DEF WriteKnown
    <3>3. Loaded(l)' => WriteWaits(l, u)'
      <4>1. SUFFICES ASSUME Loaded(l)', k = "report", Advances(<<l, p>>)
                   PROVE  AdvanceWaits(l, p)'
        BY <1>v DEF WriteWaits
      <4>2. active[l] = p /\ Loaded(l) /\ p # None
        BY <4>1, <2>2, <2>6, <1>c, LaneAssumption
      <4>3. FingerprintOf[l] = FingerprintOf[runner[p]]
        BY <4>1, <1>3, <1>2 DEF Advances, HandlerOk
      <4>4. report'[<<l, p>>] = "saved"
        BY <4>1, <1>1 DEF Handler, Committing, TypesOfResults
      <4> QED
        BY <4>2, <4>3, <4>4, <1>2, <1>1 DEF CursorOk, AdvanceWaits, Reviewed, Committing,
           memory, TypesOfPasses
    <3>4. ASSUME Loaded(l)', NEW w \in Write, WriteKnown(l, w), WriteWaits(l, w)
          PROVE  InOrder(w, u)'
      BY <3>4, <1>v, <1>c, <2>6 DEF InOrder, WriteWaits, AdvanceWaits, Committing
    <3>5. WritesOf(l)'
      BY <2>2, <2>3, <2>4, <2>6, <3>1, <3>2, <3>3, <3>4, <1>0, QueueGrows
    <3> QED
      BY <2>6, <3>5
  <2> QED
    BY <2>5, <2>6, <1>q
<1>17. CursorsOk'
  BY <1>0 DEF CursorsOk, CursorOk, Loaded, Reviewed, journal, Committing, memory
<1>18. PublishedOk'
  BY <1>0 DEF PublishedOk, Loaded, journal, Committing, memory
<1>19. RunningIsRecorded'
  BY <1>0, <1>s DEF RunningIsRecorded, journal, Committing
<1>20. PermitCoversRequest'
  BY <1>0, <1>s DEF PermitCoversRequest, Live, journal, Committing
<1>21. ProgressIsReported'
  <2> SUFFICES ASSUME payload'.progress # None
               PROVE  \E m \in Lane : report'[<<m, payload'.progress>>] = "saved"
    BY DEF ProgressIsReported
  <2>1. payload'.progress = payload.progress /\ payload.progress \in PassID
    BY <1>1 DEF TypesOfWorld, JournalRecord, journal, Committing
  <2>2. PICK m \in Lane : report[<<m, payload.progress>>] = "saved"
    BY <2>1, <1>0, LaneAssumption DEF ProgressIsReported, Committing, memory, Sent,
       TypesOfPasses, TypesOfResults
  <2>3. report'[<<m, payload.progress>>] = "saved"
    BY <2>2 DEF Committing
  <2> QED
    BY <2>1, <2>3
<1>22. ProgressHasItsConfiguration'
  BY <1>0 DEF ProgressHasItsConfiguration, journal, Committing
<1> QED
  BY <1>10, <1>11, <1>12, <1>13, <1>14, <1>15, <1>16, <1>17, <1>18, <1>19, <1>20, <1>21, <1>22
     DEF IInv

(* A lane learns something of a result without saving it. *)
LEMMA LearningKeeps ==
  ASSUME IInv, NEW l \in Lane, NEW p \in PassID, Learning(l, p)
  PROVE  IInv'
<1>0. TypeOK /\ LanesOk /\ PassesOk /\ RequestsOk /\ HandlersOk /\ PendingOk /\ WritesOk
      /\ CursorsOk /\ PublishedOk /\ RunningIsRecorded /\ PermitCoversRequest
      /\ ProgressIsReported /\ ProgressHasItsConfiguration
  BY DEF IInv
<1>1. TypesOfWorld /\ TypesOfLanes /\ TypesOfPasses /\ TypesOfResults
  BY <1>0, TypesAreOk DEF Types
<1>2. PassOk(p) /\ RequestOk(p) /\ LaneOk(l) /\ CursorOk(l) /\ HandlerOk(l, p)
  BY <1>0 DEF PassesOk, RequestsOk, LanesOk, CursorsOk, HandlersOk
<1>s. /\ \A q \in PassID, i \in Attempt : q # p => requests'[<<q, i>>] = requests[<<q, i>>]
      /\ \A i \in Attempt : i # attempt[p] => requests'[<<p, i>>] = requests[<<p, i>>]
      /\ \/ requests' = requests /\ permit' = permit /\ report' = report
         \/ \A i \in Attempt : requests'[<<p, i>>] # "running"
      /\ requests[Sent(p)] = "none" => requests'[Sent(p)] = "none"
      /\ requests[Sent(p)] # "running" => requests'[Sent(p)] # "running"
      /\ requests' \in [PassID \X Attempt -> {"none", "running", "answered", "failed", "aborted"}]
  <2>0. attempt[p] \in Attempt /\ \A i \in Attempt : i # attempt[p] => requests[<<p, i>>] # "running"
    BY <1>1, <1>2 DEF RequestOk, Attempt, TypesOfPasses
  <2>1. CASE Stops(p)
    BY <2>0, <2>1, <1>1 DEF Stops, Sent, TypesOfWorld
  <2>2. CASE UNCHANGED <<requests, permit, report>>
    BY <2>2, <1>1 DEF TypesOfWorld
  <2> QED
    BY <2>1, <2>2 DEF Learning
<1>3. /\ stage[p] # "unused"
      /\ life[l] # "unborn"
      /\ runner[p] # l => life[runner[p]] = "retired" /\ review[<<l, p>>] # "none"
      /\ runner[p] = l => stage[p] \in {"report", "returned"}
  BY <1>2, LaneAssumption DEF HandlerOk, PassOk, Learning
<1>10. TypeOK'
  <2>1. TypesOfWorld'
    BY <1>1, <1>s DEF TypesOfWorld, Learning, journal
  <2>2. TypesOfLanes'
    BY <1>1 DEF Learning, TypesOfLanes, memory
  <2>3. TypesOfPasses'
    BY <1>1 DEF TypesOfPasses, Learning
  <2>4. TypesOfResults'
    BY <1>1 DEF Handler, Learning, TypesOfResults
  <2> QED
    BY <2>1, <2>2, <2>3, <2>4, TypesStayOk DEF Types
<1>11. LanesOk'
  BY <1>0 DEF LanesOk, LaneOk, Loaded, Live, Learning, journal, memory
<1>12. PassesOk'
  BY <1>0, <1>1, <1>3 DEF PassesOk, PassOk, Loaded, TypesOfPasses, Learning, journal, memory
<1>13. RequestsOk'
  BY <1>0, <1>1, <1>s DEF RequestsOk, PassesOk, TypesOfPasses, Learning, RequestOk, Sent
<1>14. HandlersOk'
  <2> SUFFICES ASSUME NEW x \in Lane, NEW y \in PassID PROVE HandlerOk(x, y)'
    BY DEF HandlersOk
  <2>1. LaneOk(x) /\ CursorOk(x) /\ PassOk(y) /\ RequestOk(y) /\ HandlerOk(x, y)
    BY <1>0 DEF PassesOk, RequestsOk, LanesOk, CursorsOk, HandlersOk
  <2>2. CASE x = l /\ y = p
    BY <2>2, <2>1, <1>3, <1>s DEF HandlerOk, Takes, Has, Loaded, Sent, Learning, journal, memory
  <2>3. CASE x # l /\ y = p
    BY <2>3, <2>1, <1>s DEF HandlerOk, Takes, Has, Loaded, Sent, Learning, journal, memory
  <2>4. CASE y # p
    BY <2>4, <2>1, <1>1, <1>s DEF HandlerOk, Takes, Has, Loaded, TypesOfPasses, Sent, Learning,
       journal, memory
  <2> QED
    BY <2>2, <2>3, <2>4
<1>15. PendingOk'
  BY <1>0 DEF PendingOk, Loaded, Reviewed, Learning, journal, memory
<1>16. WritesOk'
  <2> SUFFICES ASSUME NEW x \in Lane PROVE WritesOf(x)'
    BY DEF WritesOk
  <2>1. LaneOk(x) /\ CursorOk(x)
    BY <1>0 DEF LanesOk, CursorsOk
  <2>2. writes'[x] = writes[x] /\ (writes[x] # <<>> => (Loaded(x)' => Loaded(x)))
    BY DEF Loaded, Learning, memory
  <2>3. ASSUME NEW w \in Write
        PROVE  StaysQueued(x, w)
    <3>1. PICK q \in PassID : q = w.request.id
      BY WriteParts
    <3>2. PassOk(q) /\ RequestOk(q) /\ HandlerOk(x, q)
      BY <1>0 DEF PassesOk, RequestsOk, HandlersOk
    <3>3. WriteKnown(x, w) => WriteKnown(x, w)'
      BY DEF WriteKnown, Learning
    <3>4. Loaded(x)' /\ BeginWaits(x, q) => BeginWaits(x, q)'
      <4> SUFFICES ASSUME Loaded(x)', BeginWaits(x, q)
                   PROVE  BeginWaits(x, q)'
        OBVIOUS
      <4>1. requests'[Sent(q)] = "none"
        BY <1>s, <1>1 DEF TypesOfPasses, Sent, BeginWaits
      <4> QED
        BY <4>1 DEF BeginWaits, Sent, Learning, memory
    <3>5. Loaded(x)' /\ AdvanceWaits(x, q) => AdvanceWaits(x, q)'
      BY DEF AdvanceWaits, Reviewed, Learning, memory
    <3>6. Loaded(x)' /\ WriteWaits(x, w) => WriteWaits(x, w)'
      BY <3>1, <3>4, <3>5 DEF WriteWaits
    <3>7. Loaded(x)' => Loaded(x) \/ ~WriteKnown(x, w)
      BY DEF Loaded, Learning, memory
    <3> QED
      BY <3>3, <3>6, <3>7 DEF StaysQueued
  <2>4. ASSUME NEW v \in Write, NEW w \in Write
        PROVE  StaysInOrder(x, v, w)
    BY DEF StaysInOrder, InOrder, Learning
  <2> QED
    BY <2>2, <2>3, <2>4, <1>0, QueueStays
<1>17. CursorsOk'
  BY <1>0 DEF CursorsOk, CursorOk, Loaded, Reviewed, Learning, journal, memory
<1>18. PublishedOk'
  BY <1>0 DEF PublishedOk, Loaded, Learning, journal, memory
<1>19. RunningIsRecorded'
  BY <1>0, <1>s DEF RunningIsRecorded, Learning, journal
<1>20. PermitCoversRequest'
  <2> SUFFICES ASSUME NEW y \in PassID, NEW i \in Attempt
               PROVE  (requests[<<y, i>>] = "running" /\ Live(runner[y]) => permit[y])'
    BY DEF PermitCoversRequest
  <2>2. requests[<<y, i>>] = "running" /\ Live(runner[y]) => permit[y]
    BY <1>0 DEF PermitCoversRequest
  <2> QED
    BY <2>2, <1>s DEF Live, Learning, journal
<1>21. ProgressIsReported'
  <2> SUFFICES ASSUME payload'.progress # None
               PROVE  \E m \in Lane : report'[<<m, payload'.progress>>] = "saved"
    BY DEF ProgressIsReported
  <2>1. payload'.progress = payload.progress /\ payload.progress \in PassID
    BY <1>1 DEF JournalRecord, TypesOfWorld, Learning, journal
  <2>2. PICK m \in Lane : report[<<m, payload.progress>>] = "saved"
    BY <1>0 DEF ProgressIsReported, Sent, Learning, journal
  <2>3. report'[<<m, payload.progress>>] = "saved"
    BY <2>2 DEF Learning
  <2> QED
    BY <2>1, <2>3
<1>22. ProgressHasItsConfiguration'
  BY <1>0 DEF ProgressHasItsConfiguration, Learning, journal
<1> QED
  BY <1>10, <1>11, <1>12, <1>13, <1>14, <1>15, <1>16, <1>17, <1>18, <1>19, <1>20, <1>21, <1>22
     DEF IInv

(* A late result that cannot be confirmed yet blocks the lane again. *)
LEMMA BlockKeeps ==
  ASSUME IInv, NEW l \in Lane, NEW p \in PassID, Block(<<l, p>>)
  PROVE  IInv'
<1> USE DEF TypesOfWorld, TypesOfLanes, TypesOfPasses, TypesOfResults, Block, journal, world,
   memory, pass, results
<1>0. TypeOK /\ LanesOk /\ PassesOk /\ RequestsOk /\ HandlersOk /\ PendingOk /\ WritesOk
      /\ CursorsOk /\ PublishedOk /\ RunningIsRecorded /\ PermitCoversRequest
      /\ ProgressIsReported /\ ProgressHasItsConfiguration
  BY DEF IInv
<1>1. TypesOfWorld /\ TypesOfLanes /\ TypesOfPasses /\ TypesOfResults
  BY <1>0, TypesAreOk DEF Types
<1>2. PassOk(p) /\ RequestOk(p) /\ LaneOk(l) /\ CursorOk(l) /\ HandlerOk(l, p)
  BY <1>0 DEF PassesOk, RequestsOk, LanesOk, CursorsOk, HandlersOk
<1>10. TypeOK'
  <2>1. TypesOfWorld'
    BY <1>1
  <2>2. TypesOfLanes'
    BY <1>1, <1>2, LaneAssumption DEF JournalRecord, Write, Request, Outcome
  <2>3. TypesOfPasses'
    BY <1>1
  <2>4. TypesOfResults'
    BY <1>1 DEF Handler
  <2> QED
    BY <2>1, <2>2, <2>3, <2>4, TypesStayOk DEF Types
<1>11. LanesOk'
  BY <1>0 DEF LanesOk, LaneOk, Loaded, Live
<1>12. PassesOk'
  BY <1>0 DEF PassesOk, PassOk, Loaded
<1>13. RequestsOk'
  BY <1>0 DEF RequestsOk, RequestOk, Sent
<1>14. HandlersOk'
  <2> SUFFICES ASSUME NEW x \in Lane, NEW y \in PassID PROVE HandlerOk(x, y)'
    BY DEF HandlersOk
  <2>1. LaneOk(x) /\ CursorOk(x) /\ PassOk(y) /\ RequestOk(y) /\ HandlerOk(x, y)
    BY <1>0 DEF PassesOk, RequestsOk, LanesOk, CursorsOk, HandlersOk
  <2>2. CASE x = l /\ y = p
    BY <2>1 DEF HandlerOk, Takes, Has, Sent, Loaded
  <2>3. CASE x # l /\ y = p
    BY <2>1 DEF HandlerOk, Takes, Has, Sent, Loaded
  <2>4. CASE y # p
    BY <2>1 DEF HandlerOk, Takes, Has, Sent, Loaded
  <2> QED
    BY <2>2, <2>3, <2>4
<1>15. PendingOk'
  BY <1>0 DEF PendingOk, Loaded, Reviewed
<1>16. WritesOk'
  <2> SUFFICES ASSUME NEW x \in Lane PROVE WritesOf(x)'
    BY DEF WritesOk
  <2>2. writes'[x] = writes[x] /\ (writes[x] # <<>> => (Loaded(x)' => Loaded(x)))
    BY DEF Loaded
  <2>3. ASSUME NEW w \in Write
        PROVE  StaysQueued(x, w)
    BY DEF WriteKnown, BeginWaits, Loaded, Sent, AdvanceWaits, Reviewed, WriteWaits, StaysQueued
  <2>4. ASSUME NEW v \in Write, NEW w \in Write
        PROVE  StaysInOrder(x, v, w)
    BY DEF StaysInOrder, InOrder
  <2> QED
    BY <2>2, <2>3, <2>4, <1>0, QueueStays
<1>17. CursorsOk'
  BY <1>0 DEF CursorsOk, CursorOk, Loaded, Reviewed
<1>18. PublishedOk'
  BY <1>0 DEF PublishedOk, Loaded
<1>19. RunningIsRecorded'
  BY <1>0 DEF RunningIsRecorded
<1>20. PermitCoversRequest'
  BY <1>0 DEF PermitCoversRequest, Live
<1>21. ProgressIsReported'
  <2> SUFFICES ASSUME payload'.progress # None
               PROVE  \E m \in Lane : report'[<<m, payload'.progress>>] = "saved"
    BY DEF ProgressIsReported
  <2>1. payload'.progress = payload.progress /\ payload.progress \in PassID
    BY <1>1, <1>2 DEF JournalRecord
  <2>2. PICK m \in Lane : report[<<m, payload.progress>>] = "saved"
    BY <2>1, <1>0, LaneAssumption DEF ProgressIsReported
  <2>3. report'[<<m, payload.progress>>] = "saved"
    BY <2>2
  <2> QED
    BY <2>1, <2>3
<1>22. ProgressHasItsConfiguration'
  BY <1>0 DEF ProgressHasItsConfiguration
<1> QED
  BY <1>10, <1>11, <1>12, <1>13, <1>14, <1>15, <1>16, <1>17, <1>18, <1>19, <1>20, <1>21, <1>22
     DEF IInv

(* A lane takes a durable result of a pass it reviews again. *)
LEMMA AcceptKeeps ==
  ASSUME IInv, NEW l \in Lane, NEW p \in PassID, NEW k \in Outcome, Accept(<<l, p>>, k)
  PROVE  IInv'
<1> USE DEF journal, world, memory, pass
<1>0. TypeOK /\ LanesOk /\ PassesOk /\ RequestsOk /\ HandlersOk /\ PendingOk /\ WritesOk
      /\ CursorsOk /\ PublishedOk /\ RunningIsRecorded /\ PermitCoversRequest
      /\ ProgressIsReported /\ ProgressHasItsConfiguration
  BY DEF IInv
<1>1. TypesOfWorld /\ TypesOfLanes /\ TypesOfPasses /\ TypesOfResults
  BY <1>0, TypesAreOk DEF Types
<1>2. PassOk(p) /\ RequestOk(p) /\ LaneOk(l) /\ CursorOk(l) /\ HandlerOk(l, p)
  BY <1>0 DEF PassesOk, RequestsOk, LanesOk, CursorsOk, HandlersOk
<1>o. "end" \in Outcome /\ "report" \in Outcome /\ \A j \in Outcome : j \in {"end", "report"}
  BY DEF Outcome
<1>d. /\ commit[<<l, p>>][k] = "durable" /\ commit'[<<l, p>>][k] = "taken"
      /\ \A x \in Lane, y \in PassID, j \in Outcome :
           x # l \/ y # p \/ j # k => commit'[<<x, y>>][j] = commit[<<x, y>>][j]
      /\ commit' \in [Handler -> [Outcome -> {"none", "settling", "failed", "durable", "taken"}]]
  BY <1>1, <1>o DEF Accept, TypesOfResults, Handler
<1>e. /\ review'[<<l, p>>] = IF Unsettled(<<l, p>>) THEN "settled" ELSE review[<<l, p>>]
      /\ \A x \in Lane, y \in PassID : x # l \/ y # p => review'[<<x, y>>] = review[<<x, y>>]
      /\ review' \in [Handler -> {"none", "blocked", "released", "settled"}]
  BY <1>1 DEF Accept, TypesOfResults, Handler
<1>f. /\ \A y \in PassID : y # p => published'[y] = published[y]
      /\ published' \in [PassID -> Nat]
      /\ \/ published'[p] = published[p]
         \/ published'[p] = published[p] + 1 /\ k = "report" /\ life[l] # "retired" /\ Unsettled(<<l, p>>)
  BY <1>1 DEF Accept, Publish, TypesOfPasses
<1>i. /\ UNCHANGED <<journal, world, memory, writes, pass, report, probing>>
      /\ stage[p] = "returned" \/ l # runner[p]
  BY DEF Accept, Own
<1>h. /\ stage[p] # "unused" /\ life[l] # "unborn" /\ Has(l, p)
      /\ runner[p] # l => life[runner[p]] = "retired" /\ review[<<l, p>>] # "none"
  BY <1>2, <1>d, <1>o DEF HandlerOk, Has
<1>g. Loaded(l) => payload.pending # p
  BY <1>2, <1>d, <1>o DEF HandlerOk, Done
<1>j. published'[p] # published[p] => Loaded(l) /\ published[p] = 0 /\ review'[<<l, p>>] = "settled"
  <2> SUFFICES ASSUME published'[p] # published[p]
               PROVE  Loaded(l) /\ published[p] = 0 /\ review'[<<l, p>>] = "settled"
    OBVIOUS
  <2>1. Unsettled(<<l, p>>) /\ life[l] # "retired"
    BY <1>f
  <2>2. Loaded(l)
    BY <2>1, <1>h, <1>1 DEF Loaded, TypesOfLanes
  <2>3. ~(published[p] > 0)
    BY <2>1, <2>2, <1>0 DEF PublishedOk, Unsettled
  <2>4. published[p] = 0
    BY <2>3, <1>1 DEF TypesOfPasses
  <2> QED
    BY <2>1, <2>2, <2>4, <1>e
<1>t. /\ \A j \in Outcome :
           /\ commit'[<<l, p>>][j] = "none" <=> commit[<<l, p>>][j] = "none"
           /\ commit'[<<l, p>>][j] \in Done <=> commit[<<l, p>>][j] \in Done
      /\ review'[<<l, p>>] = "none" <=> review[<<l, p>>] = "none"
  BY <1>d, <1>e DEF Done, Unsettled
<1>m. \A x \in Lane : Loaded(l) /\ Loaded(x) => x = l
  BY <1>0 DEF LanesOk, LaneOk
<1>10. TypeOK'
  <2>1. TypesOfWorld'
    BY <1>1, <1>i DEF TypesOfWorld
  <2>2. TypesOfLanes'
    BY <1>1, <1>i DEF TypesOfLanes
  <2>3. TypesOfPasses'
    BY <1>1, <1>f, <1>i DEF TypesOfPasses
  <2>4. TypesOfResults'
    BY <1>1, <1>d, <1>e, <1>i DEF TypesOfResults
  <2> QED
    BY <2>1, <2>2, <2>3, <2>4, TypesStayOk DEF Types
<1>11. LanesOk'
  BY <1>0, <1>i DEF LanesOk, LaneOk, Loaded, Live
<1>12. PassesOk'
  BY <1>0, <1>i DEF PassesOk, PassOk, Loaded
<1>13. RequestsOk'
  BY <1>0, <1>i DEF RequestsOk, RequestOk, Sent
<1>14. HandlersOk'
  <2> SUFFICES ASSUME NEW x \in Lane, NEW y \in PassID PROVE HandlerOk(x, y)'
    BY DEF HandlersOk
  <2>1. LaneOk(x) /\ CursorOk(x) /\ PassOk(y) /\ RequestOk(y) /\ HandlerOk(x, y)
    BY <1>0 DEF PassesOk, RequestsOk, LanesOk, CursorsOk, HandlersOk
  <2>2. CASE x = l /\ y = p
    BY <2>2, <1>2, <1>t, <1>i, <1>o DEF HandlerOk, Takes, Has, Sent, Loaded
  <2>3. CASE x # l /\ y = p
    BY <2>3, <2>1, <1>d, <1>e, <1>i, <1>o DEF HandlerOk, Takes, Has, Sent, Loaded
  <2>4. CASE y # p
    BY <2>4, <2>1, <1>d, <1>e, <1>i, <1>o DEF HandlerOk, Takes, Has, Sent, Loaded
  <2> QED
    BY <2>2, <2>3, <2>4
<1>15. PendingOk'
  BY <1>i, <1>e, <1>g, <1>1, <1>0 DEF TypesOfWorld, JournalRecord, PendingOk, Loaded, Reviewed
<1>16. WritesOk'
  <2> SUFFICES ASSUME NEW x \in Lane PROVE WritesOf(x)'
    BY DEF WritesOk
  <2>2. writes'[x] = writes[x] /\ (writes[x] # <<>> => (Loaded(x)' => Loaded(x)))
    BY <1>i DEF Loaded
  <2>3. ASSUME NEW w \in Write
        PROVE  StaysQueued(x, w)
    BY WriteParts, <1>d, <1>i, <1>o, <1>e DEF WriteKnown, BeginWaits, Sent, AdvanceWaits,
       Reviewed, WriteWaits, Loaded, StaysQueued
  <2>4. ASSUME NEW v \in Write, NEW w \in Write
        PROVE  StaysInOrder(x, v, w)
    BY <1>i DEF StaysInOrder, InOrder
  <2> QED
    BY <2>2, <2>3, <2>4, <1>0, QueueStays
<1>17. CursorsOk'
  BY <1>0, <1>i DEF CursorsOk, CursorOk, Loaded, Reviewed
<1>18. PublishedOk'
  BY <1>i, <1>f, <1>h, <1>j, <1>g, <1>m, <1>0, <1>e DEF PublishedOk, Loaded
<1>19. RunningIsRecorded'
  BY <1>0, <1>i DEF RunningIsRecorded
<1>20. PermitCoversRequest'
  BY <1>0, <1>i DEF PermitCoversRequest, Live
<1>21. ProgressIsReported'
  <2> SUFFICES ASSUME payload'.progress # None
               PROVE  \E m \in Lane : report'[<<m, payload'.progress>>] = "saved"
    BY DEF ProgressIsReported
  <2>1. payload'.progress = payload.progress /\ payload.progress \in PassID
    BY <1>1, <1>i DEF TypesOfWorld, JournalRecord
  <2>2. PICK m \in Lane : report[<<m, payload.progress>>] = "saved"
    BY <2>1, <1>0, LaneAssumption DEF ProgressIsReported
  <2>3. report'[<<m, payload.progress>>] = "saved"
    BY <2>2, <1>i
  <2> QED
    BY <2>1, <2>3
<1>22. ProgressHasItsConfiguration'
  BY <1>i, <1>0 DEF ProgressHasItsConfiguration
<1> QED
  BY <1>10, <1>11, <1>12, <1>13, <1>14, <1>15, <1>16, <1>17, <1>18, <1>19, <1>20, <1>21, <1>22
     DEF IInv

(* A pass returns its committed result, which is published. *)
LEMMA ReturnKeeps ==
  ASSUME IInv, NEW p \in PassID, Return(p)
  PROVE  IInv'
<1> USE DEF TypesOfPasses
<1>0. TypeOK /\ LanesOk /\ PassesOk /\ RequestsOk /\ HandlersOk /\ PendingOk /\ WritesOk
      /\ CursorsOk /\ PublishedOk /\ RunningIsRecorded /\ PermitCoversRequest
      /\ ProgressIsReported /\ ProgressHasItsConfiguration
  BY DEF IInv
<1>1. TypesOfWorld /\ TypesOfLanes /\ TypesOfPasses /\ TypesOfResults
  BY <1>0, TypesAreOk DEF Types
<1>2. PassOk(p) /\ RequestOk(p)
  BY <1>0 DEF PassesOk, RequestsOk
<1>3. stage[p] \in {"end", "report"}
  BY DEF Return, Foreground, Outcome
<1>l. PICK l \in Lane : l = runner[p]
  BY <1>2, <1>3 DEF PassOk
<1>4. LaneOk(l) /\ CursorOk(l) /\ HandlerOk(l, p)
  BY <1>0 DEF LanesOk, CursorsOk, HandlersOk
<1>5. /\ running[l] = p
      /\ Loaded(l) => active[l] = p
      /\ life[l] # "unborn"
      /\ ~Takes(l, p)
  BY <1>2, <1>3, <1>l, <1>4, LaneAssumption DEF PassOk, LaneOk, HandlerOk
<1>6. review[<<l, p>>] = "none" /\ ~probing[<<l, p>>] /\ slot[l] # p
  BY <1>5 DEF Takes
<1>o. "end" \in Outcome /\ "report" \in Outcome /\ \A j \in Outcome : j \in {"end", "report"}
  BY DEF Outcome
<1>k. PICK k \in Outcome :
        /\ stage[p] = k
        /\ commit[<<l, p>>][k] = "durable"
        /\ Leave(p, IF watching[p] THEN "released" ELSE "none")
        /\ commit' = [commit EXCEPT ![<<l, p>>][k] = "taken"]
        /\ Publish(<<l, p>>, k)
        /\ UNCHANGED <<journal, world, life, compatible, cursor, active, writes,
                       runner, next, attempt, permit, watching, report, probing>>
  BY <1>l DEF Return, Foreground, Own
<1>d. /\ commit[<<l, p>>][k] = "durable" /\ commit'[<<l, p>>][k] = "taken"
      /\ \A x \in Lane, y \in PassID, j \in Outcome :
           x # l \/ y # p \/ j # k => commit'[<<x, y>>][j] = commit[<<x, y>>][j]
      /\ commit' \in [Handler -> [Outcome -> {"none", "settling", "failed", "durable", "taken"}]]
  BY <1>1, <1>k, <1>o DEF TypesOfResults, Handler
<1>e. /\ review'[<<l, p>>] \in {"none", "released"}
      /\ watching[p] = (review'[<<l, p>>] = "released")
      /\ watching[p] => stage[p] = "end"
      /\ \A x \in Lane, y \in PassID : x # l \/ y # p => review'[<<x, y>>] = review[<<x, y>>]
      /\ review' \in [Handler -> {"none", "blocked", "released", "settled"}]
  BY <1>1, <1>2, <1>3, <1>6, <1>k, <1>l DEF Leave, TypesOfResults, Handler, PassOk
<1>f. /\ \A y \in PassID : y # p => published'[y] = published[y]
      /\ published' \in [PassID -> Nat]
      /\ \/ published'[p] = published[p]
         \/ published'[p] = published[p] + 1 /\ k = "report" /\ life[l] # "retired"
  BY <1>1, <1>k DEF Publish
<1>i. /\ UNCHANGED <<journal, world, life, compatible, cursor, active, writes,
                     runner, next, attempt, permit, watching, report, probing>>
      /\ stage' = [stage EXCEPT ![p] = "returned"]
      /\ running' = [running EXCEPT ![l] = None]
      /\ slot' \in [Lane -> PassID \cup {None}]
      /\ \A x \in Lane : x # l => slot'[x] = slot[x]
      /\ slot'[l] \in {slot[l], p}
      /\ slot'[l] = p => review'[<<l, p>>] = "released"
  BY <1>1, <1>k, <1>l, <1>6 DEF Leave, TypesOfLanes, TypesOfResults, Handler
<1>h. /\ stage[p] # "unused" /\ life[l] # "unborn" /\ Has(l, p)
  BY <1>3, <1>5, <1>d, <1>o DEF Has
<1>g. Loaded(l) => payload.pending # p
  BY <1>4, <1>d, <1>o DEF HandlerOk, Done
<1>j. published'[p] # published[p] => Loaded(l) /\ published[p] = 0 /\ review'[<<l, p>>] = "none"
  <2>1. published'[p] # published[p] => Loaded(l) /\ stage[p] = "report"
    BY <1>1, <1>f, <1>h, <1>k DEF Loaded, TypesOfLanes
  <2> QED
    BY <2>1, <1>0, <1>1, <1>e, <1>l DEF PublishedOk
<1>m. \A x \in Lane : Loaded(l) /\ Loaded(x) => x = l
  BY <1>0 DEF LanesOk, LaneOk
<1>10. TypeOK'
  <2>1. TypesOfWorld'
    BY <1>1, <1>i DEF TypesOfWorld, journal, world
  <2>2. TypesOfLanes'
    BY <1>1, <1>i DEF TypesOfLanes
  <2>3. TypesOfPasses'
    BY <1>1, <1>f, <1>i DEF Stage
  <2>4. TypesOfResults'
    BY <1>1, <1>d, <1>e, <1>i DEF TypesOfResults
  <2> QED
    BY <2>1, <2>2, <2>3, <2>4, TypesStayOk DEF Types
<1>11. LanesOk'
  BY <1>0, <1>1, <1>l, <1>i DEF LanesOk, TypesOfLanes, LaneOk, Loaded, Live, journal
<1>12. PassesOk'
  BY <1>0, <1>1, <1>3, <1>l, <1>i DEF PassesOk, PassOk, Loaded, journal, world
<1>13. RequestsOk'
  BY <1>0, <1>i DEF RequestsOk, RequestOk, Early, Sent, world
<1>14. HandlersOk'
  <2> SUFFICES ASSUME NEW x \in Lane, NEW y \in PassID PROVE HandlerOk(x, y)'
    BY DEF HandlersOk
  <2>1. LaneOk(x) /\ CursorOk(x) /\ PassOk(y) /\ RequestOk(y) /\ HandlerOk(x, y)
    BY <1>0 DEF PassesOk, RequestsOk, LanesOk, CursorsOk, HandlersOk
  <2>2. CASE x = l /\ y = p
    BY <1>d, <1>i, <1>l, <1>1, <2>2, <1>4, <1>o DEF Done, HandlerOk, Has, Sent, Loaded, journal,
       world
  <2>3. CASE x # l /\ y = p
    BY <2>3, <2>1, <1>d, <1>e, <1>i, <1>o DEF HandlerOk, Takes, Has, Sent, Loaded, journal,
       world
  <2>4. CASE y # p
    BY <2>4, <2>1, <1>d, <1>e, <1>i, <1>o DEF HandlerOk, Takes, Has, Sent, Loaded, journal,
       world
  <2> QED
    BY <2>2, <2>3, <2>4
<1>15. PendingOk'
  BY <1>i, <1>0, <1>5, <1>g, <1>e DEF journal, PendingOk, JournalRecord, Loaded, Reviewed
<1>16. WritesOk'
  <2> SUFFICES ASSUME NEW x \in Lane PROVE WritesOf(x)'
    BY DEF WritesOk
  <2>1. LaneOk(x) /\ CursorOk(x)
    BY <1>0 DEF LanesOk, CursorsOk
  <2>2. writes'[x] = writes[x] /\ (writes[x] # <<>> => (Loaded(x)' => Loaded(x)))
    BY <1>i DEF Loaded
  <2>3. ASSUME NEW w \in Write
        PROVE  StaysQueued(x, w)
    <3>1. PICK q \in PassID : q = w.request.id
      BY WriteParts
    <3>2. PassOk(q) /\ RequestOk(q) /\ HandlerOk(x, q)
      BY <1>0 DEF PassesOk, RequestsOk, HandlersOk
    <3>3. WriteKnown(x, w) => WriteKnown(x, w)'
      BY <3>1, <1>d, <1>i DEF WriteKnown
    <3>4. Loaded(x)' /\ BeginWaits(x, q) => BeginWaits(x, q)'
      <4> SUFFICES ASSUME Loaded(x)', BeginWaits(x, q)
                   PROVE  BeginWaits(x, q)'
        OBVIOUS
      <4>1. x # l \/ q # p
        BY <1>d, <1>o DEF BeginWaits
      <4>2. BeginWaits(x, q) => BeginWaits(x, q)'
        <5>1. q # p
          BY <4>1, <1>l DEF BeginWaits
        <5>2. x # l
          BY <5>1, <1>5, <1>i DEF BeginWaits, Loaded
        <5> QED
          BY <5>1, <5>2, <1>d, <1>e, <1>i, <1>o DEF BeginWaits, Sent, world
      <4> QED
        BY <4>2
    <3>5. Loaded(x)' /\ AdvanceWaits(x, q) => AdvanceWaits(x, q)'
      BY <1>i DEF AdvanceWaits, Reviewed
    <3>6. Loaded(x)' /\ WriteWaits(x, w) => WriteWaits(x, w)'
      BY <3>1, <3>4, <3>5 DEF WriteWaits
    <3>7. Loaded(x)' => Loaded(x) \/ ~WriteKnown(x, w)
      BY <1>i DEF Loaded
    <3> QED
      BY <3>3, <3>6, <3>7 DEF StaysQueued
  <2>4. ASSUME NEW v \in Write, NEW w \in Write
        PROVE  StaysInOrder(x, v, w)
    BY <1>i DEF StaysInOrder, InOrder
  <2> QED
    BY <2>2, <2>3, <2>4, <1>0, QueueStays
<1>17. CursorsOk'
  BY <1>0, <1>i DEF CursorsOk, CursorOk, Loaded, Reviewed, journal
<1>18. PublishedOk'
  BY <1>i, <1>1, <1>f, <1>j, <1>g, <1>l, <1>m, <1>0, <1>e DEF PublishedOk, Loaded, journal
<1>19. RunningIsRecorded'
  BY <1>0, <1>i DEF RunningIsRecorded, journal, world
<1>20. PermitCoversRequest'
  BY <1>0, <1>i DEF PermitCoversRequest, Live, journal, world
<1>21. ProgressIsReported'
  BY <1>i, <1>0 DEF ProgressIsReported, journal
<1>22. ProgressHasItsConfiguration'
  BY <1>i, <1>0 DEF ProgressHasItsConfiguration, journal
<1> QED
  BY <1>10, <1>11, <1>12, <1>13, <1>14, <1>15, <1>16, <1>17, <1>18, <1>19, <1>20, <1>21, <1>22
     DEF IInv

(* The provider ends a request. *)
LEMMA ProviderEndsKeeps ==
  ASSUME IInv, NEW p \in PassID, NEW j \in Attempt, ProviderEnds(<<p, j>>)
  PROVE  IInv'
<1>0. TypeOK /\ LanesOk /\ PassesOk /\ RequestsOk /\ HandlersOk /\ PendingOk /\ WritesOk
      /\ CursorsOk /\ PublishedOk /\ RunningIsRecorded /\ PermitCoversRequest
      /\ ProgressIsReported /\ ProgressHasItsConfiguration
  BY DEF IInv
<1>1. TypesOfWorld /\ TypesOfLanes /\ TypesOfPasses /\ TypesOfResults
  BY <1>0, TypesAreOk DEF Types
<1>2. PassOk(p) /\ RequestOk(p)
  BY <1>0 DEF PassesOk, RequestsOk
<1>3. j = attempt[p] /\ stage[p] \notin Early
  BY <1>1, <1>2, RunsAreSent DEF ProviderEnds
<1>10. TypeOK'
  <2>1. TypesOfWorld'
    BY <1>1 DEF ProviderEnds, TypesOfWorld, journal
  <2>2. TypesOfLanes'
    BY <1>1 DEF ProviderEnds, TypesOfLanes, memory
  <2>3. TypesOfPasses'
    BY <1>1 DEF ProviderEnds, TypesOfPasses, pass, results
  <2>4. TypesOfResults'
    BY <1>1 DEF ProviderEnds, TypesOfResults, results
  <2> QED
    BY <2>1, <2>2, <2>3, <2>4, TypesStayOk DEF Types
<1>11. LanesOk'
  BY <1>0 DEF LanesOk, LaneOk, Loaded, Live, ProviderEnds, journal, memory, pass
<1>12. PassesOk'
  BY <1>0 DEF PassesOk, PassOk, Loaded, ProviderEnds, journal, memory, pass
<1>13. RequestsOk'
  BY <1>0 DEF RequestsOk, RequestOk, Sent, ProviderEnds, pass
<1>14. HandlersOk'
  <2> SUFFICES ASSUME NEW x \in Lane, NEW y \in PassID PROVE HandlerOk(x, y)'
    BY DEF HandlersOk
  <2>1. LaneOk(x) /\ CursorOk(x) /\ PassOk(y) /\ RequestOk(y) /\ HandlerOk(x, y)
    BY <1>0 DEF PassesOk, RequestsOk, LanesOk, CursorsOk, HandlersOk
  <2> QED
    BY <2>1 DEF HandlerOk, Takes, Has, Sent, Loaded, ProviderEnds, journal, memory, pass,
       results
<1>15. PendingOk'
  BY <1>0 DEF PendingOk, Loaded, Reviewed, ProviderEnds, journal, memory, pass, results
<1>16. WritesOk'
  <2> SUFFICES ASSUME NEW x \in Lane PROVE WritesOf(x)'
    BY DEF WritesOk
  <2>2. writes'[x] = writes[x] /\ (writes[x] # <<>> => (Loaded(x)' => Loaded(x)))
    BY DEF Loaded, ProviderEnds, memory
  <2>3. ASSUME NEW w \in Write
        PROVE  StaysQueued(x, w)
    BY DEF WriteKnown, ProviderEnds, pass, results, BeginWaits, Sent, memory, AdvanceWaits,
       Reviewed, WriteWaits, Loaded, StaysQueued
  <2>4. ASSUME NEW v \in Write, NEW w \in Write
        PROVE  StaysInOrder(x, v, w)
    BY DEF StaysInOrder, InOrder, ProviderEnds, pass
  <2> QED
    BY <2>2, <2>3, <2>4, <1>0, QueueStays
<1>17. CursorsOk'
  BY <1>0 DEF CursorsOk, CursorOk, Loaded, Reviewed, ProviderEnds, journal, memory, pass
<1>18. PublishedOk'
  BY <1>0 DEF PublishedOk, Loaded, ProviderEnds, journal, memory, pass, results
<1>19. RunningIsRecorded'
  BY <1>0, <1>1, RunsAreSent, <1>2 DEF RunningIsRecorded, ProviderEnds, TypesOfWorld
<1>20. PermitCoversRequest'
  BY <1>0 DEF PermitCoversRequest, Live, ProviderEnds, journal, pass
<1>21. ProgressIsReported'
  <2> SUFFICES ASSUME payload'.progress # None
               PROVE  \E m \in Lane : report'[<<m, payload'.progress>>] = "saved"
    BY DEF ProgressIsReported
  <2>1. payload'.progress = payload.progress /\ payload.progress \in PassID
    BY <1>1 DEF JournalRecord, ProviderEnds, TypesOfWorld, journal
  <2>2. PICK m \in Lane : report[<<m, payload.progress>>] = "saved"
    BY <2>1, <1>0, LaneAssumption DEF ProgressIsReported
  <2>3. report'[<<m, payload.progress>>] = "saved"
    BY <2>2 DEF ProviderEnds, results
  <2> QED
    BY <2>1, <2>3
<1>22. ProgressHasItsConfiguration'
  BY <1>0 DEF ProgressHasItsConfiguration, ProviderEnds, journal, pass
<1> QED
  BY <1>10, <1>11, <1>12, <1>13, <1>14, <1>15, <1>16, <1>17, <1>18, <1>19, <1>20, <1>21, <1>22
     DEF IInv

(* A lane takes the row over, when nobody else owns it alive. *)
LEMMA LoadKeeps ==
  ASSUME IInv, NEW l \in Lane, Load(l)
  PROVE  IInv'
<1> USE DEF TypesOfLanes
<1>0. TypeOK /\ LanesOk /\ PassesOk /\ RequestsOk /\ HandlersOk /\ PendingOk /\ WritesOk
      /\ CursorsOk /\ PublishedOk /\ RunningIsRecorded /\ PermitCoversRequest
      /\ ProgressIsReported /\ ProgressHasItsConfiguration
  BY DEF IInv
<1>1. TypesOfWorld /\ TypesOfLanes /\ TypesOfPasses /\ TypesOfResults
  BY <1>0, TypesAreOk DEF Types
<1>2. LaneOk(l) /\ CursorOk(l)
  BY <1>0 DEF LanesOk, CursorsOk
<1>3. /\ life[l] = "unborn" /\ owner' = l /\ Live(l)
      /\ payload' = payload /\ alive' = alive
      /\ life' = [life EXCEPT ![l] = "loaded"]
      /\ active' = [active EXCEPT ![l] = payload.pending]
      /\ slot' = [slot EXCEPT ![l] = payload.pending]
      /\ cursor' = [cursor EXCEPT ![l] = Kept(l, payload)]
      /\ compatible' = [compatible EXCEPT ![l] = payload.fingerprint = FingerprintOf[l]]
      /\ UNCHANGED <<world, running, writes, pass, report, commit, probing, published>>
  BY DEF Load, Journal!Acquire, Live, Compatible
<1>4. \A x \in Lane : ~Loaded(x)
  BY <1>0, LaneAssumption DEF Load, Journal!Acquire, Journal!Free, LanesOk, LaneOk, Live
<1>5. \A y \in PassID : ~Takes(l, y) /\ ~Has(l, y) /\ runner[y] # l
  <2> TAKE y \in PassID
  <2>1. HandlerOk(l, y) /\ PassOk(y)
    BY <1>0 DEF HandlersOk, PassesOk
  <2> QED
    BY <2>1, <1>3, LaneAssumption DEF HandlerOk, PassOk
<1>6. /\ \A x \in Lane, y \in PassID : x # l \/ y # payload.pending => review'[<<x, y>>] = review[<<x, y>>]
      /\ payload.pending # None => review'[<<l, payload.pending>>] = "blocked"
      /\ review' \in [Handler -> {"none", "blocked", "released", "settled"}]
  BY <1>1 DEF Load, TypesOfResults, Handler, TypesOfWorld, JournalRecord
<1>7. running[l] = None /\ writes[l] = <<>>
  BY <1>2, <1>3 DEF LaneOk
<1>8. /\ \A y \in PassID, x \in Lane : x = runner[y] => ~Loaded(x)'
      /\ \A x \in Lane : Loaded(x)' <=> x = l
  BY <1>3, <1>4, <1>1, <1>5 DEF Loaded
<1>10. TypeOK'
  <2>1. TypesOfWorld'
    BY <1>1, <1>3 DEF TypesOfWorld, world
  <2>2. TypesOfLanes'
    BY <1>1, <1>3 DEF TypesOfWorld, JournalRecord, Kept
  <2>3. TypesOfPasses'
    BY <1>1, <1>3 DEF TypesOfPasses, pass
  <2>4. TypesOfResults'
    BY <1>1, <1>3, <1>6 DEF TypesOfResults
  <2> QED
    BY <2>1, <2>2, <2>3, <2>4, TypesStayOk DEF Types
<1>11. LanesOk'
  BY <1>0, <1>3, <1>4 DEF LanesOk, LaneOk, Loaded, Live, pass
<1>12. PassesOk'
  BY <1>0, <1>3, <1>8 DEF PassesOk, PassOk, world, pass
<1>13. RequestsOk'
  BY <1>0, <1>3 DEF RequestsOk, RequestOk, Sent, PendingOk, world, pass
<1>14. HandlersOk'
  <2> SUFFICES ASSUME NEW x \in Lane, NEW y \in PassID PROVE HandlerOk(x, y)'
    BY DEF HandlersOk
  <2>1. HandlerOk(x, y) /\ PassOk(y)
    BY <1>0 DEF HandlersOk, PassesOk
  <2>r. /\ runner' = runner /\ stage' = stage /\ report' = report /\ commit' = commit
        /\ requests' = requests /\ attempt' = attempt /\ probing' = probing
    BY <1>3 DEF world, pass
  <2>2. CASE x = l
    <3>1. ~Has(x, y)' /\ runner[y] # x
      BY <2>2, <2>r, <1>5 DEF Has
    <3>2. CASE y = payload.pending
      <4>1. y # None
        BY LaneAssumption
      <4>2. stage[y] # "unused" /\ payload.fingerprint = FingerprintOf[runner[y]]
        BY <3>2, <4>1, <1>0 DEF PendingOk
      <4>3. runner[y] \in Lane /\ life[runner[y]] = "retired"
        BY <4>2, <2>1, <1>1, <1>4, LaneAssumption DEF PassOk, Loaded
      <4>4. life'[runner[y]] = "retired" /\ life'[l] = "loaded" /\ review'[<<l, y>>] = "blocked"
        BY <4>1, <4>3, <3>2, <1>1, <1>3, <1>6
      <4>5. compatible'[l] => FingerprintOf[l] = FingerprintOf[runner[y]]
        BY <4>2, <1>1, <1>3
      <4> QED
        BY <4>2, <4>4, <4>5, <3>1, <2>2, <2>r DEF HandlerOk, Has, Done
    <3>3. CASE y # payload.pending
      <4>1. ~Takes(x, y)' /\ review'[<<x, y>>] = "none"
        BY <3>3, <2>2, <2>r, <1>1, <1>3, <1>5, <1>6 DEF Takes
      <4> QED
        BY <4>1, <3>1 DEF HandlerOk, Has, Done
    <3> QED
      BY <3>2, <3>3
  <2>3. CASE x # l
    BY <2>3, <1>3, <1>6, <1>8, <2>1, <2>r DEF HandlerOk, Takes, Has, Sent
  <2> QED
    BY <2>2, <2>3
<1>15. PendingOk'
  <2>1. /\ payload' = payload /\ next' = next /\ runner' = runner /\ stage' = stage
        /\ running'[l] = None
    BY <1>3, <1>7 DEF pass
  <2>2. active'[l] = payload.pending /\ slot'[l] = payload.pending
    BY <1>1, <1>3
  <2> QED
    BY <2>1, <2>2, <1>0, <1>6, <1>8 DEF PendingOk, Reviewed
<1>16. WritesOk'
  <2> SUFFICES ASSUME NEW x \in Lane PROVE WritesOf(x)'
    BY DEF WritesOk
  <2>1. LaneOk(x) /\ CursorOk(x)
    BY <1>0 DEF LanesOk, CursorsOk
  <2>2. writes'[x] = writes[x] /\ (writes[x] # <<>> => (Loaded(x)' => Loaded(x)))
    BY <1>3, <1>7, <1>8
  <2>3. ASSUME NEW w \in Write
        PROVE  StaysQueued(x, w)
    BY WriteParts, <1>3, <1>4, <1>5 DEF WriteKnown, Outcome, pass, Loaded, Has, StaysQueued
  <2>4. ASSUME NEW v \in Write, NEW w \in Write
        PROVE  StaysInOrder(x, v, w)
    BY <1>3 DEF StaysInOrder, InOrder, pass
  <2> QED
    BY <2>2, <2>3, <2>4, <1>0, QueueStays
<1>17. CursorsOk'
  <2> SUFFICES ASSUME NEW x \in Lane PROVE CursorOk(x)'
    BY DEF CursorsOk
  <2>1. payload' = payload /\ next' = next /\ stage' = stage
    BY <1>3 DEF pass
  <2>2. payload.progress # None => stage[payload.progress] # "unused"
    <3>1. payload.progress # None => \E m \in Lane : Has(m, payload.progress)
      BY <1>0 DEF ProgressIsReported, Has
    <3> QED
      BY <3>1, <1>0, <1>1 DEF HandlersOk, HandlerOk, TypesOfWorld, JournalRecord
  <2>3. CASE x = l
    BY <1>1, <1>3, <2>1, <2>2, <2>3, <1>0 DEF Kept, TypesOfWorld, TypesOfPasses, JournalRecord,
       CursorOk, PendingOk, Reviewed
  <2>4. CASE x # l
    BY <1>0, <2>4, <1>3, <1>8, <2>1 DEF CursorsOk, CursorOk
  <2> QED
    BY <2>3, <2>4
<1>18. PublishedOk'
  BY <1>3, <1>5, <1>6, <1>0, <1>8 DEF pass, Takes, PublishedOk
<1>19. RunningIsRecorded'
  BY <1>0, <1>3 DEF RunningIsRecorded, world
<1>20. PermitCoversRequest'
  BY <1>0, <1>3 DEF PermitCoversRequest, Live, world, pass
<1>21. ProgressIsReported'
  BY <1>3, <1>0 DEF ProgressIsReported, Handler
<1>22. ProgressHasItsConfiguration'
  BY <1>3, <1>0 DEF ProgressHasItsConfiguration, pass
<1> QED
  BY <1>10, <1>11, <1>12, <1>13, <1>14, <1>15, <1>16, <1>17, <1>18, <1>19, <1>20, <1>21, <1>22
     DEF IInv

(* A process ends: its lanes are gone, what it asked for runs on. *)
LEMMA CrashKeeps ==
  ASSUME IInv, NEW q \in Process, Crash(q)
  PROVE  IInv'
<1> USE DEF TypesOfWorld, TypesOfResults, TypesOfPasses, world
<1>0. TypeOK /\ LanesOk /\ PassesOk /\ RequestsOk /\ HandlersOk /\ PendingOk /\ WritesOk
      /\ CursorsOk /\ PublishedOk /\ RunningIsRecorded /\ PermitCoversRequest
      /\ ProgressIsReported /\ ProgressHasItsConfiguration
  BY DEF IInv
<1>1. TypesOfWorld /\ TypesOfLanes /\ TypesOfPasses /\ TypesOfResults
  BY <1>0, TypesAreOk DEF Types
<1>3. /\ \A x \in Lane : ProcessOf[x] # q =>
           /\ life'[x] = life[x] /\ cursor'[x] = cursor[x] /\ active'[x] = active[x]
           /\ running'[x] = running[x] /\ slot'[x] = slot[x] /\ writes'[x] = writes[x]
           /\ \A y \in PassID : probing'[<<x, y>>] = probing[<<x, y>>]
      /\ \A x \in Lane : ProcessOf[x] = q =>
           /\ life'[x] = "retired" /\ cursor'[x] = None /\ active'[x] = None
           /\ running'[x] = None /\ slot'[x] = None /\ writes'[x] = <<>>
           /\ \A y \in PassID : ~probing'[<<x, y>>]
      /\ \A x \in Lane : Live(x)' <=> Live(x) /\ ProcessOf[x] # q
  BY <1>1, LaneAssumption DEF Crash, Journal!Crash, Live, Handler
<1>4. \A y \in PassID :
        \/ /\ stage[y] = "unused" \/ ProcessOf[runner[y]] # q
           /\ stage'[y] = stage[y] /\ permit'[y] = permit[y] /\ watching'[y] = watching[y]
        \/ /\ stage[y] # "unused" /\ ProcessOf[runner[y]] = q
           /\ stage'[y] = "returned" /\ permit'[y] = FALSE /\ watching'[y] = FALSE
  BY <1>1 DEF Crash
<1>5. UNCHANGED <<owner, payload, world, compatible, runner, next, attempt, report, commit, review, published>>
  BY DEF Crash, Journal!Crash
<1>6. \A x \in Lane : Loaded(x)' <=> Loaded(x) /\ ProcessOf[x] # q
  BY <1>3 DEF Loaded
<1>10. TypeOK'
  BY <1>1 DEF TypeOK, Crash, Journal!Crash, TypesOfLanes, Stage
<1>11. LanesOk'
  BY <1>0, <1>1, <1>3, <1>4, <1>5, <1>6, LaneAssumption DEF LanesOk, TypesOfLanes, LaneOk
<1>12. PassesOk'
  BY <1>0, <1>3, <1>4, <1>5, <1>6 DEF PassesOk, TypesOfLanes, PassOk
<1>13. RequestsOk'
  BY <1>0, <1>4, <1>5 DEF RequestsOk, RequestOk, Early, Sent
<1>14. HandlersOk'
  <2> SUFFICES ASSUME NEW x \in Lane, NEW y \in PassID PROVE HandlerOk(x, y)'
    BY DEF HandlersOk
  <2>1. HandlerOk(x, y) /\ PassOk(y)
    BY <1>0 DEF HandlersOk, PassesOk
  <2>2. /\ Takes(x, y)' => Takes(x, y)
        /\ Has(x, y)' <=> Has(x, y)
    BY <1>3, <1>5, LaneAssumption DEF Takes, Has
  <2>3. /\ life'[x] = "unborn" => life[x] = "unborn"
        /\ stage'[y] \in {stage[y], "returned"}
        /\ stage'[y] = "unused" => stage[y] = "unused"
    BY <1>3, <1>4
  <2>4. stage[y] # "unused" /\ life[runner[y]] = "retired" => life'[runner[y]] = "retired"
    BY <2>1, <1>3 DEF PassOk
  <2>5. /\ runner' = runner /\ report' = report /\ commit' = commit /\ review' = review
        /\ payload' = payload /\ requests' = requests /\ attempt' = attempt /\ compatible' = compatible
    BY <1>5
  <2> QED
    BY <2>1, <2>2, <2>3, <2>4, <2>5, <1>6 DEF HandlerOk, Sent
<1>15. PendingOk'
  <2>1. payload' = payload /\ next' = next /\ runner' = runner /\ review' = review
    BY <1>5
  <2>2. \A y \in PassID : stage[y] # "unused" => stage'[y] # "unused"
    BY <1>4
  <2>3. payload.pending # None => payload.pending \in PassID
    BY <1>1 DEF JournalRecord
  <2>4. \A x \in Lane : Loaded(x)' => active'[x] = active[x] /\ running'[x] = running[x] /\ slot'[x] = slot[x]
    BY <1>3, <1>6
  <2> QED
    BY <2>1, <2>2, <2>3, <2>4, <1>0, <1>6 DEF PendingOk, Reviewed
<1>16. WritesOk'
  <2> SUFFICES ASSUME NEW x \in Lane PROVE WritesOf(x)'
    BY DEF WritesOk
  <2>1. LaneOk(x) /\ CursorOk(x)
    BY <1>0 DEF LanesOk, CursorsOk
  <2>2. /\ Loaded(x)' => Loaded(x)
        /\ writes'[x] = writes[x] \/ writes'[x] = <<>>
    BY <2>1, <1>1, <1>3, <1>4, <1>5, <1>6 DEF TypesOfLanes, LaneOk, Loaded
  <2>3. ASSUME NEW w \in Write
        PROVE  StaysQueued(x, w)
    BY WriteParts, <1>5, <1>3, <1>4, <1>6 DEF WriteKnown, BeginWaits, Sent, AdvanceWaits,
       Reviewed, WriteWaits, StaysQueued
  <2>4. ASSUME NEW v \in Write, NEW w \in Write
        PROVE  StaysInOrder(x, v, w)
    BY <1>5 DEF StaysInOrder, InOrder
  <2>5. CASE writes'[x] = writes[x]
    BY <2>2, <2>3, <2>4, <2>5, <1>0, QueueStays
  <2>6. CASE writes'[x] = <<>>
    BY <2>6 DEF WritesOf
  <2> QED
    BY <2>2, <2>5, <2>6
<1>17. CursorsOk'
  BY <1>0, <1>1, <1>3, <1>4, <1>5, <1>6, LaneAssumption DEF CursorsOk, TypesOfLanes, CursorOk,
     Reviewed
<1>18. PublishedOk'
  BY <1>4, <1>5, <1>6, <1>0 DEF PublishedOk
<1>19. RunningIsRecorded'
  BY <1>0, <1>5 DEF RunningIsRecorded
<1>20. PermitCoversRequest'
  <2> SUFFICES ASSUME NEW y \in PassID, NEW i \in Attempt
               PROVE  (requests[<<y, i>>] = "running" /\ Live(runner[y]) => permit[y])'
    BY DEF PermitCoversRequest
  <2>1. PassOk(y) /\ RequestOk(y)
    BY <1>0 DEF PassesOk, RequestsOk
  <2>2. requests[<<y, i>>] = "running" /\ Live(runner[y]) => permit[y]
    BY <1>0 DEF PermitCoversRequest
  <2>3. requests[<<y, i>>] = "running" => i = attempt[y] /\ stage[y] \notin Early
    BY <2>1, <1>1, RunsAreSent
  <2> QED
    BY <2>1, <2>2, <2>3, <1>3, <1>4, <1>5, LaneAssumption DEF PassOk, Early
<1>21. ProgressIsReported'
  BY <1>1, <1>5, <1>0 DEF ProgressIsReported, JournalRecord
<1>22. ProgressHasItsConfiguration'
  BY <1>5, <1>0 DEF ProgressHasItsConfiguration
<1> QED
  BY <1>10, <1>11, <1>12, <1>13, <1>14, <1>15, <1>16, <1>17, <1>18, <1>19, <1>20, <1>21, <1>22
     DEF IInv

(* The record of a pass is saved, refused, or lost. *)
LEMMA BeginDoneKeeps ==
  ASSUME IInv, NEW l \in Lane, NEW u, BeginDone(l, u)
  PROVE  IInv'
<1>0. TypeOK /\ LanesOk /\ PassesOk /\ RequestsOk /\ HandlersOk /\ PendingOk /\ WritesOk
      /\ CursorsOk /\ PublishedOk /\ RunningIsRecorded /\ PermitCoversRequest
      /\ ProgressIsReported /\ ProgressHasItsConfiguration
  BY DEF IInv
<1>1. TypesOfWorld /\ TypesOfLanes /\ TypesOfPasses /\ TypesOfResults
  BY <1>0, TypesAreOk DEF Types
<1>2. LaneOk(l) /\ CursorOk(l)
  BY <1>0 DEF LanesOk, CursorsOk
<1>3. writes[l] # <<>> /\ u = Head(writes[l]) /\ Begins(u)
  BY DEF BeginDone, Popping
<1>q. u \in Write /\ WriteKnown(l, u) /\ (Loaded(l) => WriteWaits(l, u)) /\ writes'[l] = Tail(writes[l])
  BY <1>0, <1>1, QueueHead DEF BeginDone, Popping, Pop, TypesOfLanes
<1>p. PICK p \in PassID : p = u.request.id
  BY <1>q, WriteParts
<1>4. runner[p] = l /\ (Loaded(l) => BeginWaits(l, p))
  BY <1>3, <1>p, <1>q DEF WriteKnown, WriteWaits
<1>5. /\ UNCHANGED <<alive, owner, produced, requests, life, compatible, active, running, slot,
                     runner, next, attempt, permit, watching, report, review, probing, published,
                     cursor, commit>>
      /\ \A x \in Lane : x # l => writes'[x] = writes[x]
      /\ \A x \in Lane : Loaded(x)' = Loaded(x)
  BY DEF BeginDone, Popping, Pop, Loaded
<1>6. \/ payload' = payload
      \/ Loaded(l) /\ payload' = Begun(l, p, payload)
  BY <1>p DEF BeginDone
<1>7. /\ \A y \in PassID : y # p => stage'[y] = stage[y]
      /\ \/ stage'[p] = stage[p] /\ stage[p] # "beginning"
         \/ stage[p] = "beginning" /\ stage'[p] = "ready" /\ payload'.pending = p
         \/ stage[p] = "beginning" /\ stage'[p] = "refused"
      /\ stage' \in [PassID -> Stage]
  BY <1>p, <1>1 DEF BeginDone, TypesOfPasses, Stage, Begun
<1>8. payload' # payload =>
        /\ Loaded(l) /\ BeginWaits(l, p) /\ p # None
        /\ payload'.pending = p
        /\ payload'.fingerprint = FingerprintOf[l]
        /\ payload'.progress \in {None, payload.progress}
        /\ payload'.progress # None => payload.fingerprint = FingerprintOf[l]
        /\ payload' \in JournalRecord
  BY <1>4, <1>6, <1>1, LaneAssumption DEF Begun, Kept, Compatible, JournalRecord, Fingerprints,
     TypesOfWorld
<1>9. \A x \in Lane : Loaded(l) /\ Loaded(x) => x = l
  BY <1>0 DEF LanesOk, LaneOk
<1>10. TypeOK'
  <2>1. TypesOfWorld'
    BY <1>1, <1>8 DEF BeginDone, Popping, TypesOfWorld
  <2>2. TypesOfLanes'
    BY <1>1 DEF TypesOfLanes, BeginDone, Popping, Pop
  <2>3. TypesOfPasses'
    BY <1>1, <1>5, <1>7 DEF TypesOfPasses
  <2>4. TypesOfResults'
    BY <1>1, <1>5 DEF TypesOfResults
  <2> QED
    BY <2>1, <2>2, <2>3, <2>4, TypesStayOk DEF Types
<1>11. LanesOk'
  BY <1>0, <1>1, <1>3, <1>5, <1>7 DEF LanesOk, TypesOfLanes, TypesOfPasses, LaneOk, Live
<1>12. PassesOk'
  BY <1>0, <1>8, <1>5, <1>7, LaneAssumption, <1>9 DEF PassesOk, PassOk, BeginWaits
<1>13. RequestsOk'
  BY <1>0, <1>5, <1>7 DEF RequestsOk, RequestOk, Early, Sent
<1>14. HandlersOk'
  <2> SUFFICES ASSUME NEW x \in Lane, NEW y \in PassID PROVE HandlerOk(x, y)'
    BY DEF HandlersOk
  <2>1. HandlerOk(x, y)
    BY <1>0 DEF HandlersOk
  <2>2. ASSUME Loaded(x), commit[<<x, y>>]["end"] \in Done \/ commit[<<x, y>>]["report"] \in Done
        PROVE  payload'.pending # y
    BY <2>1, <2>2, <1>8, <1>9 DEF HandlerOk, BeginWaits, Done
  <2>3. \/ stage'[y] = stage[y]
        \/ stage[y] = "beginning" /\ stage'[y] \in {"ready", "refused"}
    BY <1>7
  <2> QED
    BY <2>1, <2>2, <2>3, <1>5 DEF HandlerOk, Takes, Has, Sent
<1>15. PendingOk'
  BY <1>1, <1>7, <1>0, <1>5, <1>8, <1>2, <1>9 DEF TypesOfWorld, JournalRecord, PendingOk,
     Reviewed, BeginWaits, PassesOk, PassOk, CursorOk, TypesOfPasses
<1>16. WritesOk'
  <2> SUFFICES ASSUME NEW x \in Lane PROVE WritesOf(x)'
    BY DEF WritesOk
  <2>2. (Loaded(x)' => Loaded(x)) /\ (x # l => writes'[x] = writes[x])
    BY <1>5
  <2>3. ASSUME NEW w \in Write, x = l => (Loaded(l)' => InOrder(u, w))
        PROVE  StaysQueued(x, w)
    <3>1. PICK q \in PassID : q = w.request.id
      BY WriteParts
    <3>3. WriteKnown(x, w) => WriteKnown(x, w)'
      BY <1>5 DEF WriteKnown
    <3>4. Begins(w) /\ Loaded(x)' /\ BeginWaits(x, q) => BeginWaits(x, q)'
      <4>1. Loaded(x)' /\ BeginWaits(x, q) /\ Begins(w) => q # p
        BY <2>3, <1>3, <1>4 DEF InOrder, BeginWaits
      <4> QED
        BY <4>1, <1>5, <1>7 DEF BeginWaits, Sent
    <3>5. Loaded(x)' /\ AdvanceWaits(x, q) => AdvanceWaits(x, q)'
      BY <1>5 DEF AdvanceWaits, Reviewed
    <3>6. Loaded(x)' /\ WriteWaits(x, w) => WriteWaits(x, w)'
      BY <3>1, <3>4, <3>5 DEF WriteWaits
    <3>7. Loaded(x)' => Loaded(x) \/ ~WriteKnown(x, w)
      BY <1>5
    <3> QED
      BY <3>3, <3>6, <3>7 DEF StaysQueued
  <2>4. ASSUME NEW v \in Write, NEW w \in Write
        PROVE  StaysInOrder(x, v, w)
    BY <1>5 DEF StaysInOrder, InOrder
  <2>5. CASE x = l
    <3>1. \A w \in Write : (Loaded(l)' => InOrder(Head(writes[l]), w)) => StaysQueued(l, w)
      BY <2>3, <2>5, <1>3
    <3>2. \A v, w \in Write : StaysInOrder(l, v, w)
      BY <2>4, <2>5
    <3> QED
      BY <3>1, <3>2, <2>2, <2>5, <1>0, <1>3, <1>q, QueueShrinks
  <2>6. CASE x # l
    BY <2>2, <2>3, <2>4, <2>6, <1>0, QueueStays
  <2> QED
    BY <2>5, <2>6
<1>17. CursorsOk'
  BY <1>0, <1>1, <1>5, <1>7, <1>8 DEF CursorsOk, TypesOfLanes, TypesOfPasses, CursorOk, Reviewed
<1>18. PublishedOk'
  BY <1>0, <1>8, <1>7, <1>5 DEF BeginWaits, PublishedOk
<1>19. RunningIsRecorded'
  <2> SUFFICES ASSUME NEW y \in PassID, NEW i \in Attempt, requests[<<y, i>>] = "running"
               PROVE  payload'.pending = y
    BY <1>5 DEF RunningIsRecorded
  <2>1. payload.pending = y
    BY <1>0 DEF RunningIsRecorded
  <2>2. Loaded(l) => active[l] = y
    BY <2>1, <1>0, LaneAssumption DEF PendingOk
  <2> QED
    BY <2>1, <2>2, <1>8 DEF BeginWaits
<1>20. PermitCoversRequest'
  <2> SUFFICES ASSUME NEW y \in PassID, NEW i \in Attempt
               PROVE  (requests[<<y, i>>] = "running" /\ Live(runner[y]) => permit[y])'
    BY DEF PermitCoversRequest
  <2>2. requests[<<y, i>>] = "running" /\ Live(runner[y]) => permit[y]
    BY <1>0 DEF PermitCoversRequest
  <2> QED
    BY <2>2, <1>5 DEF Live
<1>21. ProgressIsReported'
  BY <1>1, <1>8, <1>0, <1>5 DEF ProgressIsReported, TypesOfWorld, JournalRecord
<1>22. ProgressHasItsConfiguration'
  BY <1>5, <1>8, <1>0 DEF ProgressHasItsConfiguration
<1> QED
  BY <1>10, <1>11, <1>12, <1>13, <1>14, <1>15, <1>16, <1>17, <1>18, <1>19, <1>20, <1>21, <1>22
     DEF IInv

(* The end of a pass is saved, refused, or lost. *)
LEMMA SettleDoneKeeps ==
  ASSUME IInv, NEW l \in Lane, NEW u, SettleDone(l, u)
  PROVE  IInv'
<1>0. TypeOK /\ LanesOk /\ PassesOk /\ RequestsOk /\ HandlersOk /\ PendingOk /\ WritesOk
      /\ CursorsOk /\ PublishedOk /\ RunningIsRecorded /\ PermitCoversRequest
      /\ ProgressIsReported /\ ProgressHasItsConfiguration
  BY DEF IInv
<1>1. TypesOfWorld /\ TypesOfLanes /\ TypesOfPasses /\ TypesOfResults
  BY <1>0, TypesAreOk DEF Types
<1>3. writes[l] # <<>> /\ u = Head(writes[l]) /\ ~Begins(u)
  BY DEF SettleDone, Popping
<1>q. u \in Write /\ WriteKnown(l, u) /\ (Loaded(l) => WriteWaits(l, u)) /\ writes'[l] = Tail(writes[l])
  BY <1>0, <1>1, QueueHead DEF SettleDone, Popping, Pop, TypesOfLanes
<1>p. PICK p \in PassID : p = u.request.id
  BY <1>q, WriteParts
<1>k. PICK k \in Outcome : k = u.outcome /\ commit[<<l, p>>][k] # "none"
  BY <1>3, <1>p, <1>q DEF WriteKnown
<1>b. PICK b \in BOOLEAN : b = u.request.advance
  BY <1>3, <1>q, WriteParts
<1>o. \A j \in Outcome : j \in {"end", "report"}
  BY DEF Outcome
<1>4. /\ Has(l, p)
      /\ Loaded(l) /\ b => AdvanceWaits(l, p)
      /\ b <=> Advancing(u)
  BY <1>3, <1>p, <1>q, <1>k, <1>b, <1>o DEF WriteWaits, Advancing, Has
<1>5. /\ UNCHANGED <<alive, owner, produced, requests, life, compatible, active, running, slot,
                     runner, next, attempt, permit, watching, report, review, probing, published,
                     stage>>
      /\ \A x \in Lane : x # l => writes'[x] = writes[x]
      /\ \A x \in Lane : Loaded(x)' = Loaded(x)
  BY DEF SettleDone, Popping, Pop, Loaded
<1>6. PICK s \in {"durable", "failed"} :
        /\ s = "durable" => Loaded(l) /\ payload' = Settled(l, p, b, payload)
        /\ commit' = [commit EXCEPT ![<<l, p>>][k] = s]
        /\ cursor' = [cursor EXCEPT ![l] = IF s = "durable" /\ b THEN p ELSE @]
  BY <1>p, <1>k, <1>b DEF SettleDone
<1>7. payload' = payload \/ (Loaded(l) /\ payload' = Settled(l, p, b, payload))
  BY <1>p, <1>b DEF SettleDone
<1>8. payload' # payload =>
        /\ Loaded(l)
        /\ payload.pending = p
        /\ payload'.pending = None
        /\ payload'.fingerprint = FingerprintOf[l]
        /\ \/ b /\ payload'.progress = p
           \/ /\ payload'.progress \in {None, payload.progress}
              /\ payload'.progress # None => payload.fingerprint = FingerprintOf[l]
        /\ payload' \in JournalRecord
  BY <1>7, <1>1 DEF Settled, Kept, Compatible, JournalRecord, Fingerprints, TypesOfWorld
<1>9. \A x \in Lane : Loaded(l) /\ Loaded(x) => x = l
  BY <1>0 DEF LanesOk, LaneOk
<1>c. /\ \A x \in Lane, y \in PassID, j \in Outcome :
           x # l \/ y # p \/ j # k => commit'[<<x, y>>][j] = commit[<<x, y>>][j]
      /\ commit'[<<l, p>>][k] = s
      /\ commit' \in [Handler -> [Outcome -> {"none", "settling", "failed", "durable", "taken"}]]
  BY <1>6, <1>1 DEF TypesOfResults, Handler
<1>d. \A x \in Lane, y \in PassID, j \in Outcome :
        /\ commit'[<<x, y>>][j] = "none" <=> commit[<<x, y>>][j] = "none"
        /\ commit'[<<x, y>>][j] \in Done => commit[<<x, y>>][j] \in Done \/ (x = l /\ y = p /\ s = "durable")
  BY <1>c, <1>k DEF Done
<1>e. s = "durable" => payload'.pending # p
  BY <1>6, LaneAssumption DEF Settled
<1>f. /\ stage[p] # "unused" /\ requests[Sent(p)] # "running"
      /\ runner[p] = l => stage[p] \in {"end", "report", "returned"}
      /\ runner[p] # l => life[runner[p]] = "retired"
  BY <1>0, <1>4, <1>k, <1>o DEF HandlersOk, HandlerOk
<1>g. p # None /\ \A x \in Lane : cursor'[x] = cursor[x] \/ (x = l /\ s = "durable" /\ b /\ cursor'[x] = p)
  BY <1>6, LaneAssumption
<1>10. TypeOK'
  <2>1. TypesOfWorld'
    BY <1>1, <1>8 DEF SettleDone, Popping, TypesOfWorld
  <2>2. TypesOfLanes'
    BY <1>1, <1>6 DEF TypesOfLanes, SettleDone, Popping, Pop
  <2>3. TypesOfPasses'
    BY <1>1, <1>5 DEF TypesOfPasses
  <2>4. TypesOfResults'
    BY <1>1, <1>5, <1>6 DEF TypesOfResults, Handler
  <2> QED
    BY <2>1, <2>2, <2>3, <2>4, TypesStayOk DEF Types
<1>11. LanesOk'
  BY <1>0, <1>3, <1>5 DEF LanesOk, LaneOk, Live
<1>12. PassesOk'
  BY <1>0, <1>8, <1>f, LaneAssumption, <1>5 DEF PassesOk, PassOk, Loaded
<1>13. RequestsOk'
  BY <1>0, <1>5 DEF RequestsOk, RequestOk, Sent
<1>14. HandlersOk'
  <2> SUFFICES ASSUME NEW x \in Lane, NEW y \in PassID PROVE HandlerOk(x, y)'
    BY DEF HandlersOk
  <2>1. HandlerOk(x, y)
    BY <1>0 DEF HandlersOk
  <2>2. payload'.pending = y => payload.pending = y
    BY <1>8, LaneAssumption
  <2>3. "end" \in Outcome /\ "report" \in Outcome
    BY DEF Outcome
  <2> QED
    BY <2>1, <2>2, <2>3, <1>5, <1>d, <1>e DEF HandlerOk, Takes, Has, Sent
<1>15. PendingOk'
  BY <1>8, <1>0, <1>5 DEF PendingOk, Reviewed
<1>16. WritesOk'
  <2> SUFFICES ASSUME NEW x \in Lane PROVE WritesOf(x)'
    BY DEF WritesOk
  <2>2. (Loaded(x)' => Loaded(x)) /\ (x # l => writes'[x] = writes[x])
    BY <1>5
  <2>3. ASSUME NEW w \in Write, x = l => (Loaded(l)' => InOrder(u, w))
        PROVE  StaysQueued(x, w)
    <3>1. PICK q \in PassID : q = w.request.id
      BY WriteParts
    <3>3. WriteKnown(x, w) => WriteKnown(x, w)'
      BY <1>5, <1>6 DEF WriteKnown
    <3>4. Begins(w) /\ Loaded(x)' /\ BeginWaits(x, q) => BeginWaits(x, q)'
      <4>1. Loaded(x)' /\ BeginWaits(x, q) /\ Begins(w) => q # p \/ x # l
        BY <3>1, <2>3, <1>p DEF InOrder
      <4>2. "end" \in Outcome /\ "report" \in Outcome
        BY DEF Outcome
      <4> QED
        BY <4>1, <4>2, <1>5, <1>c DEF BeginWaits, Sent
    <3>5. Advancing(w) /\ Loaded(x)' /\ AdvanceWaits(x, q) => AdvanceWaits(x, q)'
      <4>1. Advancing(w) /\ Loaded(x)' /\ x = l /\ b => next[p] <= next[q]
        BY <3>1, <2>3, <1>4, <1>p DEF InOrder
      <4> QED
        BY <4>1, <1>5, <1>g DEF AdvanceWaits, Reviewed
    <3>6. Loaded(x)' /\ WriteWaits(x, w) => WriteWaits(x, w)'
      BY <3>1, <3>4, <3>5 DEF WriteWaits
    <3>7. Loaded(x)' => Loaded(x) \/ ~WriteKnown(x, w)
      BY <1>5
    <3> QED
      BY <3>3, <3>6, <3>7 DEF StaysQueued
  <2>4. ASSUME NEW v \in Write, NEW w \in Write
        PROVE  StaysInOrder(x, v, w)
    BY <1>5 DEF StaysInOrder, InOrder
  <2>5. CASE x = l
    <3>1. \A w \in Write : (Loaded(l)' => InOrder(Head(writes[l]), w)) => StaysQueued(l, w)
      BY <2>3, <2>5, <1>3
    <3>2. \A v, w \in Write : StaysInOrder(l, v, w)
      BY <2>4, <2>5
    <3> QED
      BY <3>1, <3>2, <2>2, <2>5, <1>0, <1>3, <1>q, QueueShrinks
  <2>6. CASE x # l
    BY <2>2, <2>3, <2>4, <2>6, <1>0, QueueStays
  <2> QED
    BY <2>5, <2>6
<1>17. CursorsOk'
  BY <1>0, <1>5, <1>f, <1>g, <1>4, <1>1, <1>8, <1>9 DEF CursorsOk, CursorOk, AdvanceWaits,
     TypesOfLanes, TypesOfPasses, Reviewed
<1>18. PublishedOk'
  BY <1>8, LaneAssumption, <1>0, <1>5 DEF PublishedOk
<1>19. RunningIsRecorded'
  BY <1>5, <1>0, <1>1, <1>8, <1>f DEF RunningIsRecorded, RequestsOk, RequestOk, TypesOfPasses,
     Attempt, Sent
<1>20. PermitCoversRequest'
  BY <1>0, <1>5 DEF PermitCoversRequest, Live
<1>21. ProgressIsReported'
  BY <1>5, <1>0, <1>4, <1>8 DEF ProgressIsReported, AdvanceWaits
<1>22. ProgressHasItsConfiguration'
  BY <1>5, <1>0, <1>4, <1>8 DEF ProgressHasItsConfiguration, AdvanceWaits
<1> QED
  BY <1>10, <1>11, <1>12, <1>13, <1>14, <1>15, <1>16, <1>17, <1>18, <1>19, <1>20, <1>21, <1>22
     DEF IInv

(***************************************************************************)
(* Each step of the module is one of those above.                          *)
(***************************************************************************)

(* What the invariant says of one pass and of one handler. *)
LEMMA Parts ==
  ASSUME IInv, NEW p \in PassID
  PROVE  /\ PassOk(p) /\ RequestOk(p)
         /\ \A l \in Lane : HandlerOk(l, p)
         /\ attempt[p] \in Attempt
         /\ requests[Sent(p)] \in {"none", "running", "answered", "failed", "aborted"}
BY TypesAreOk DEF IInv, Types, TypesOfPasses, TypesOfWorld, PassesOk, RequestsOk, HandlersOk,
   Sent

(* A request that does not run stays as it is; an aborted one stops. *)
LEMMA Stopped ==
  ASSUME IInv, NEW p \in PassID,
         \/ requests' = requests /\ requests[Sent(p)] # "running"
         \/ Aborted(Sent(p))
  PROVE  Stops(p)
<1>1. requests[Sent(p)] \in {"none", "running", "answered", "failed", "aborted"}
  BY Parts
<1>2. requests \in [PassID \X Attempt -> {"none", "running", "answered", "failed", "aborted"}]
  BY TypesAreOk DEF IInv, Types, TypesOfWorld
<1>3. CASE requests' = requests /\ requests[Sent(p)] # "running"
  BY <1>2, <1>3 DEF Stops
<1>4. CASE Aborted(Sent(p))
  BY <1>1, <1>4 DEF Stops, Aborted
<1> QED
  BY <1>3, <1>4

(* A flag that stays or is cleared, one that stays or is set, and a report *)
(* that stays.                                                             *)
LEMMA Flags ==
  ASSUME IInv, NEW l \in Lane, NEW p \in PassID
  PROVE  /\ \A b \in {TRUE, FALSE} : b \in BOOLEAN
         /\ permit = [permit EXCEPT ![p] = @ /\ TRUE]
         /\ [permit EXCEPT ![p] = FALSE] = [permit EXCEPT ![p] = @ /\ FALSE]
         /\ watching = [watching EXCEPT ![p] = @ /\ TRUE]
         /\ watching = [watching EXCEPT ![p] = watching[p]]
         /\ watching[p] \in BOOLEAN
         /\ [watching EXCEPT ![p] = FALSE] = [watching EXCEPT ![p] = @ /\ FALSE]
         /\ probing = [probing EXCEPT ![<<l, p>>] = @ /\ TRUE]
         /\ probing = [probing EXCEPT ![<<l, p>>] = probing[<<l, p>>]]
         /\ probing[<<l, p>>] \in BOOLEAN
         /\ [probing EXCEPT ![<<l, p>>] = FALSE] = [probing EXCEPT ![<<l, p>>] = @ /\ FALSE]
         /\ report = [report EXCEPT ![<<l, p>>] = report[<<l, p>>]]
         /\ report[<<l, p>>] \in {"none", "saving", "failed", "saved"}
         /\ faults \in 0..MaxFaults
BY TypesAreOk DEF IInv, Types, TypesOfPasses, TypesOfResults, TypesOfWorld, Handler

(* What a lane learns without touching the report. *)
LEMMA LearnsNoReport ==
  ASSUME IInv, NEW l \in Lane, NEW p \in PassID,
         Takes(l, p) \/ Has(l, p) \/ (runner[p] = l /\ stage[p] = "returned"),
         runner[p] = l => stage[p] \in {"report", "returned"},
         Stops(p) \/ UNCHANGED <<requests, permit>>,
         NEW held \in BOOLEAN, NEW seen \in BOOLEAN, NEW asked \in BOOLEAN,
         permit' = [permit EXCEPT ![p] = @ /\ held],
         watching' = [watching EXCEPT ![p] = @ /\ seen],
         asked => probing[<<l, p>>] \/ Takes(l, p),
         probing' = [probing EXCEPT ![<<l, p>>] = asked],
         UNCHANGED <<journal, produced, faults, memory, writes, stage, runner, next, attempt,
                     report, commit, review, published>>
  PROVE  Learning(l, p)
<1>1. \E s \in {"none", "saving", "failed", "saved"} :
        /\ report' = [report EXCEPT ![<<l, p>>] = s]
        /\ s = report[<<l, p>>]
  <2>1. /\ report[<<l, p>>] \in {"none", "saving", "failed", "saved"}
        /\ report = [report EXCEPT ![<<l, p>>] = report[<<l, p>>]]
    BY Flags
  <2> QED
    BY <2>1
<1>2. faults' \in 0..MaxFaults
  BY Flags
<1> QED
  BY <1>1, <1>2 DEF Learning

(* A save that was done, and one that failed, is of one of the two kinds. *)
LEMMA SaveDoneIs ==
  ASSUME IInv, NEW l \in Lane, SaveDone(l)
  PROVE  \E u : BeginDone(l, u) \/ SettleDone(l, u)
<1>u. PICK u : u = Head(writes[l])
  OBVIOUS
<1>1. faults \in 0..MaxFaults /\ commit \in [Handler -> [Outcome -> {"none", "settling", "failed", "durable", "taken"}]]
  BY TypesAreOk DEF IInv, Types, TypesOfWorld, TypesOfResults
<1>2. /\ Popping(l, u) /\ Loaded(l)
      /\ payload' = Edited(l, u.request, payload)
  BY <1>u, <1>1 DEF SaveDone, Popping, Journal!Edit, Journal!Edited, Journal!Begun,
     Journal!Settled, Journal!Kept, Journal!Compatible, Edited, Begun, Settled, Kept,
     Compatible, world, Loaded
<1>3. CASE Begins(u)
  BY <1>2, <1>3, <1>u DEF Edited, Begins, SaveDone, BeginDone
<1>4. CASE ~Begins(u)
  <2>1. payload' = Settled(l, u.request.id, u.request.advance, payload)
    BY <1>2, <1>4 DEF Edited, Begins
  <2>2. /\ commit' = [commit EXCEPT ![<<l, u.request.id>>][u.outcome] = "durable"]
        /\ cursor' = [cursor EXCEPT ![l] = IF u.request.advance THEN u.request.id ELSE @]
        /\ UNCHANGED stage
    BY <1>u, <1>4 DEF SaveDone, Begins
  <2> QED
    BY <2>1, <2>2, <1>2, <1>4 DEF SettleDone
<1> QED
  BY <1>3, <1>4

LEMMA SaveFailsIs ==
  ASSUME IInv, NEW l \in Lane, SaveFails(l)
  PROVE  \E u : BeginDone(l, u) \/ SettleDone(l, u)
<1>u. PICK u : u = Head(writes[l])
  OBVIOUS
<1>1. /\ faults \in 0..MaxFaults /\ MaxFaults \in Nat
      /\ life[l] \in {"unborn", "loaded", "retired"}
      /\ cursor = [cursor EXCEPT ![l] = cursor[l]]
      /\ life[l] = "unborn" => writes[l] = <<>>
  BY TypesAreOk, LaneAssumption DEF IInv, Types, TypesOfWorld, TypesOfLanes, LanesOk, LaneOk
<1>2. /\ Popping(l, u) /\ UNCHANGED cursor
      /\ payload' = payload \/ (Loaded(l) /\ payload' = Edited(l, u.request, payload))
  BY <1>u, <1>1 DEF SaveFails, Popping, journal, memory, Loaded, Journal!Edit, Journal!Edited,
     Journal!Begun, Journal!Settled, Journal!Kept, Journal!Compatible, Edited, Begun, Settled,
     Kept, Compatible
<1>3. CASE Begins(u)
  BY <1>2, <1>3, <1>u DEF Edited, Begins, SaveFails, BeginDone
<1>4. CASE ~Begins(u)
  <2>1. payload' = payload \/ (Loaded(l) /\ payload' = Settled(l, u.request.id, u.request.advance, payload))
    BY <1>2, <1>4 DEF Edited, Begins
  <2>2. /\ commit' = [commit EXCEPT ![<<l, u.request.id>>][u.outcome] = "failed"]
        /\ UNCHANGED stage
    BY <1>u, <1>4 DEF SaveFails, Begins
  <2>3. cursor' = [cursor EXCEPT ![l] = IF "failed" = "durable" /\ u.request.advance
                                        THEN u.request.id ELSE @]
    BY <1>1, <1>2
  <2> QED
    BY <2>1, <2>2, <2>3, <1>2, <1>4 DEF SettleDone
<1> QED
  BY <1>3, <1>4

(* Which effect each step of run() has. *)
LEMMA GiveUpIs ==
  ASSUME IInv, NEW p \in PassID, GiveUp(p)
  PROVE  Ending(p)
<1>1. stage[p] \in {"preparing", "beginning", "ready", "refused"}
  BY DEF GiveUp, Foreground
<1>2. requests[Sent(p)] = "none" /\ requests' = requests
  BY <1>1, Parts DEF RequestOk, Early, GiveUp, world
<1>3. Stops(p)
  BY <1>2, Stopped
<1>l. PICK l \in Lane : l = runner[p]
  BY <1>1, Parts DEF PassOk
<1> QED
  BY <1>1, <1>3, <1>l, Flags DEF GiveUp, Ending, world

LEMMA ReplyIs ==
  ASSUME IInv, NEW p \in PassID, Reply(p)
  PROVE  Answering(p) \/ Retrying(p) \/ Ending(p)
<1>1. stage[p] = "sent" /\ requests' = requests
  BY DEF Reply, Foreground
<1>l. PICK l \in Lane : l = runner[p]
  BY <1>1, Parts DEF PassOk
<1>2. CASE Answered(p)
  BY <1>1, <1>2 DEF Reply, Answering
<1>3. CASE requests[Sent(p)] = "failed" /\ Retry(p) /\ UNCHANGED report
  BY <1>1, <1>3, Stopped DEF Reply, Retrying
<1>4. CASE /\ requests[Sent(p)] \in {"failed", "aborted"}
           /\ End(p)
           /\ UNCHANGED <<faults, attempt, report>>
  <2>1. Stops(p)
    BY <1>1, <1>4, Stopped
  <2> QED
    BY <2>1, <1>1, <1>4, <1>l, Flags DEF Reply, Ending
<1> QED
  BY <1>2, <1>3, <1>4 DEF Reply

LEMMA AbortConfirmedIs ==
  ASSUME IInv, NEW p \in PassID, AbortConfirmed(p)
  PROVE  Retrying(p) \/ Ending(p)
<1>1. stage[p] = "aborting"
  BY DEF AbortConfirmed, Foreground
<1>2. Stops(p)
  BY Stopped DEF AbortConfirmed
<1> QED
  BY <1>1, <1>2 DEF AbortConfirmed, Retrying, Ending

LEMMA LeavesAre ==
  ASSUME IInv, NEW p \in PassID, AbortUnconfirmed(p) \/ LeaveSaving(p) \/ LeaveCommitting(p)
  PROVE  Leaving(p)
<1>1. stage[p] \in {"aborting", "saving", "end", "report"}
  BY DEF AbortUnconfirmed, LeaveSaving, LeaveCommitting, Foreground, Outcome
<1>l. PICK l \in Lane : l = runner[p]
  BY <1>1, Parts DEF PassOk
<1>2. /\ \E s \in {"saving", "failed", "saved", "none"} :
           /\ s = report[Own(p)] \/ (report[Own(p)] = "saving" /\ s = "failed")
           /\ report = [report EXCEPT ![Own(p)] = s]
      /\ faults \in 0..MaxFaults
  <2>1. Own(p) = <<l, p>>
    BY <1>l DEF Own
  <2>2. /\ report[<<l, p>>] \in {"saving", "failed", "saved", "none"}
        /\ report = [report EXCEPT ![<<l, p>>] = report[<<l, p>>]]
        /\ faults \in 0..MaxFaults
    BY Flags
  <2> QED
    BY <2>1, <2>2
<1>3. \E watch \in BOOLEAN : watching' = [watching EXCEPT ![p] = watch]
  BY <1>l, Flags DEF AbortUnconfirmed, LeaveSaving, LeaveCommitting
<1>4. /\ Leave(p, "blocked")
      /\ UNCHANGED <<journal, world, life, compatible, cursor, active, writes,
                     runner, next, attempt, permit, report, commit, probing, published>>
  BY DEF AbortUnconfirmed, Uncertain, LeaveSaving, LeaveCommitting
<1> QED
  BY <1>1, <1>2, <1>3, <1>4 DEF Leaving, world

(* Which effect each late completion has. *)
LEMMA ReportSavedIs ==
  ASSUME IInv, NEW l \in Lane, NEW p \in PassID, ReportSaved(<<l, p>>)
  PROVE  Committing(l, p, "report")
<1>1. report[<<l, p>>] = "saving" /\ Has(l, p)
  BY DEF ReportSaved, Has
<1>2. /\ requests[Sent(p)] # "running"
      /\ runner[p] = l => stage[p] \in {"saving", "report", "returned"}
  BY <1>1, Parts DEF HandlerOk
<1>3. Stops(p)
  BY <1>2, Stopped DEF ReportSaved, world
<1>4. /\ report' = [report EXCEPT ![<<l, p>>] = "saved"]
      /\ stage' = [stage EXCEPT ![p] = IF runner[p] = l /\ @ = "saving" THEN "report" ELSE @]
      /\ StartCommit(<<l, p>>, "report")
      /\ UNCHANGED <<journal, produced, faults, memory, runner, next, attempt, permit, watching,
                     review, probing, published>>
  BY DEF ReportSaved, Own, world
<1> QED
  BY <1>1, <1>2, <1>3, <1>4, Flags DEF Committing

LEMMA ReportFailsIs ==
  ASSUME IInv, NEW l \in Lane, NEW p \in PassID, ReportFails(<<l, p>>)
  PROVE  Leaving(p) \/ Learning(l, p)
<1>1. /\ report[<<l, p>>] = "saving" /\ Has(l, p)
      /\ faults' \in 0..MaxFaults
      /\ report' = [report EXCEPT ![<<l, p>>] = "failed"]
      /\ UNCHANGED <<journal, produced, requests, life, compatible, cursor, active, writes,
                     runner, next, attempt, permit, watching, commit, probing, published>>
  <2>1. faults \in 0..MaxFaults /\ MaxFaults \in Nat
    BY Flags, LaneAssumption
  <2>2. faults < MaxFaults /\ faults' = faults + 1
    BY DEF ReportFails
  <2>3. faults' \in 0..MaxFaults
    BY <2>1, <2>2
  <2> QED
    BY <2>3 DEF ReportFails, Has
<1>2. /\ requests[Sent(p)] # "running"
      /\ runner[p] = l => stage[p] \in {"saving", "report", "returned"}
  BY <1>1, Parts DEF HandlerOk
<1>3. CASE runner[p] = l /\ stage[p] = "saving"
  <2>1. Leave(p, "blocked") /\ Own(p) = <<l, p>>
    BY <1>3 DEF ReportFails, Own
  <2> QED
    BY <2>1, <1>1, <1>3, Flags DEF Leaving
<1>4. CASE ~(runner[p] = l /\ stage[p] = "saving")
  <2>1. UNCHANGED <<stage, running, slot, review>>
    BY <1>4 DEF ReportFails, Own
  <2>2. Stops(p)
    BY <1>1, <1>2, Stopped
  <2> QED
    BY <2>1, <2>2, <1>1, <1>2, <1>4, Flags DEF Learning, memory
<1> QED
  BY <1>3, <1>4

LEMMA LateReplyIs ==
  ASSUME IInv, NEW p \in PassID, LateReply(p)
  PROVE  \E l \in Lane : Learning(l, p) \/ Committing(l, p, "end")
<1>1. stage[p] = "returned" /\ requests' = requests
  BY DEF LateReply, Foreground, world
<1>l. PICK l \in Lane : l = runner[p]
  BY <1>1, Parts DEF PassOk
<1>2. /\ watching' = [watching EXCEPT ![p] = FALSE] /\ Own(p) = <<l, p>>
      /\ UNCHANGED <<journal, produced, faults, memory, stage, runner, next, attempt, review, probing, published>>
  BY <1>l DEF LateReply, Own, world
<1>3. CASE requests[Sent(p)] = "answered" /\ Released(p) /\ UNCHANGED <<commit, writes>>
           /\ report' = [report EXCEPT ![<<l, p>>] =
                IF @ = "none" /\ life[l] # "retired" THEN "saving" ELSE @]
  <2>1. Stops(p)
    BY <1>1, <1>3, Stopped
  <2>2. \E s \in {"none", "saving", "failed", "saved"} :
          /\ report' = [report EXCEPT ![<<l, p>>] = s]
          /\ s = report[<<l, p>>] \/ (s = "saving" /\ report[<<l, p>>] = "none")
    BY <1>3, Flags
  <2> QED
    BY <2>1, <2>2, <1>1, <1>2, <1>3, <1>l, Flags DEF Learning, Released
<1>4. CASE /\ requests[Sent(p)] \in {"failed", "aborted"} /\ Released(p) /\ UNCHANGED report
           /\ commit[<<l, p>>]["end"] = "none" /\ StartCommit(<<l, p>>, "end")
  <2>1. Stops(p)
    BY <1>1, <1>4, Stopped
  <2>2. stage' = [stage EXCEPT ![p] = IF runner[p] = l /\ @ = "saving" THEN "report" ELSE @]
    BY <1>1, <1>2, TypesAreOk DEF IInv, Types, TypesOfPasses
  <2> QED
    BY <2>1, <2>2, <1>1, <1>2, <1>4, <1>l, Flags DEF Committing, Released
<1>5. CASE /\ requests[Sent(p)] \in {"failed", "aborted"} /\ UNCHANGED <<report, commit, writes>>
           /\ Released(p) \/ UNCHANGED permit
  <2>1. Stops(p)
    BY <1>1, <1>5, Stopped
  <2>2. \E held \in BOOLEAN : permit' = [permit EXCEPT ![p] = @ /\ held]
    BY <1>5, Flags DEF Released
  <2>3. UNCHANGED <<journal, produced, faults, memory, writes, stage, runner, next, attempt,
                    report, commit, review, published>>
    BY <1>2, <1>5
  <2>4. /\ watching' = [watching EXCEPT ![p] = @ /\ FALSE]
        /\ probing' = [probing EXCEPT ![<<l, p>>] = probing[<<l, p>>]]
        /\ probing[<<l, p>>] \in BOOLEAN
    BY <1>2, Flags
  <2> QED
    BY <2>1, <2>2, <2>3, <2>4, <1>1, <1>l, LearnsNoReport
<1> QED
  BY <1>2, <1>3, <1>4, <1>5 DEF LateReply

LEMMA LateAbortIs ==
  ASSUME IInv, NEW p \in PassID, LateAbort(p)
  PROVE  \E l \in Lane : Learning(l, p)
<1>1. stage[p] = "returned"
  BY DEF LateAbort, Foreground
<1>l. PICK l \in Lane : l = runner[p]
  BY <1>1, Parts DEF PassOk
<1>2. Stops(p)
  BY Stopped DEF LateAbort
<1>3. /\ permit' = [permit EXCEPT ![p] = @ /\ FALSE]
      /\ watching' = [watching EXCEPT ![p] = @ /\ TRUE]
      /\ probing' = [probing EXCEPT ![<<l, p>>] = probing[<<l, p>>]]
      /\ probing[<<l, p>>] \in BOOLEAN
  BY Flags DEF LateAbort, Released, results
<1>4. UNCHANGED <<journal, produced, faults, memory, writes, stage, runner, next, attempt,
                  report, commit, review, published>>
  BY DEF LateAbort, results
<1> QED
  BY <1>1, <1>2, <1>3, <1>4, <1>l, LearnsNoReport

(* A reconcile is about a pass its lane takes care of. *)
LEMMA ReconcilesTakes ==
  ASSUME IInv, NEW l \in Lane, NEW p \in PassID, Reconciles(<<l, p>>) \/ probing[<<l, p>>]
  PROVE  Takes(l, p) /\ (runner[p] = l => stage[p] = "returned")
<1>1. Takes(l, p)
  BY DEF Takes, Reconciles
<1> QED
  BY <1>1, Parts DEF HandlerOk

(* Recovery goes on with a report it finds, settles, or probes. *)
LEMMA ReconcileIs ==
  ASSUME IInv, NEW l \in Lane, NEW p \in PassID, Reconcile(<<l, p>>)
  PROVE  Learning(l, p) \/ \E k \in Outcome : Committing(l, p, k)
<1>1. Takes(l, p) /\ (runner[p] = l => stage[p] = "returned")
  BY ReconcilesTakes DEF Reconcile, FindTerminal, AbortAgain, AbortAnswered, Repair
<1>2. stage = [stage EXCEPT ![p] = IF runner[p] = l /\ @ = "saving" THEN "report" ELSE @]
  BY <1>1, TypesAreOk DEF IInv, Types, TypesOfPasses
<1>3. "end" \in Outcome /\ \A k \in Outcome : k \in {"end", "report"}
  BY DEF Outcome
<1>4. Has(l, p) => requests[Sent(p)] # "running"
  BY Parts DEF HandlerOk
<1>5. CASE FindTerminal(<<l, p>>)
  <2>1. /\ report[<<l, p>>] = "none" /\ Released(p) /\ requests' = requests
        /\ UNCHANGED <<journal, produced, faults, memory, stage, runner, next, attempt, watching,
                       review, probing, published>>
    BY <1>5 DEF FindTerminal, world
  <2>2. CASE AnswerFound(<<l, p>>)
    <3>1. Stops(p)
      BY <2>1, <2>2, Stopped DEF AnswerFound
    <3> QED
      BY <2>1, <2>2, <3>1, <1>1, Flags DEF AnswerFound, Learning, Released
  <2>3. CASE FailureFound(<<l, p>>)
    <3>1. Stops(p)
      BY <2>1, <2>3, Stopped DEF FailureFound
    <3> QED
      BY <2>1, <2>3, <3>1, <1>1, <1>2, <1>3, Flags DEF FailureFound, Committing, Released
  <2> QED
    BY <2>2, <2>3, <1>5 DEF FindTerminal
<1>6. CASE AbortAgain(<<l, p>>)
  <2>1. /\ probing' = [probing EXCEPT ![<<l, p>>] = TRUE]
        /\ UNCHANGED <<journal, produced, requests, faults, memory, writes, stage, runner, next,
                       attempt, permit, watching, report, commit, review, published>>
    BY <1>6 DEF AbortAgain, world, pass
  <2>2. permit' = [permit EXCEPT ![p] = @ /\ TRUE] /\ watching' = [watching EXCEPT ![p] = @ /\ TRUE]
    BY <2>1, Flags
  <2> QED
    BY <2>1, <2>2, <1>1, LearnsNoReport
<1>7. CASE AbortAnswered(<<l, p>>)
  <2>1. /\ probing[<<l, p>>] /\ probing' = [probing EXCEPT ![<<l, p>>] = FALSE]
        /\ UNCHANGED <<journal, produced, faults, memory, stage, runner, next, attempt, watching,
                       report, review, published>>
    BY <1>7 DEF AbortAnswered
  <2>2. CASE Aborted(Sent(p)) /\ Released(p) /\ UNCHANGED <<commit, writes>>
    <3>1. Stops(p)
      BY <2>2, Stopped
    <3> QED
      BY <2>1, <2>2, <3>1, <1>1, Flags DEF Learning, Released
  <2>3. CASE Aborted(Sent(p)) /\ Released(p) /\ commit[<<l, p>>]["end"] = "none"
             /\ StartCommit(<<l, p>>, "end")
    <3>1. Stops(p)
      BY <2>3, Stopped
    <3> QED
      BY <2>1, <2>3, <3>1, <1>1, <1>2, <1>3, Flags DEF Committing, Released
  <2>4. CASE UNCHANGED <<requests, permit, commit, writes>>
    BY <2>1, <2>4, <1>1, Flags DEF Learning
  <2> QED
    BY <2>2, <2>3, <2>4, <1>7 DEF AbortAnswered
<1>8. CASE Repair(<<l, p>>)
  <2>1. UNCHANGED <<journal, produced, requests, faults, memory, stage, runner, next, attempt, permit,
                    watching, review, probing, published>>
    BY <1>8 DEF Repair, world, pass
  <2>2. CASE /\ report[<<l, p>>] = "failed"
             /\ report' = [report EXCEPT ![<<l, p>>] = "saving"]
             /\ UNCHANGED <<commit, writes>>
    <3>1. Stops(p)
      BY <2>1, <2>2, <1>4, Stopped DEF Has
    <3> QED
      BY <2>1, <2>2, <3>1, <1>1, Flags DEF Learning
  <2>3. CASE UNCHANGED report /\ \E k \in Outcome : commit[<<l, p>>][k] = "failed" /\ StartCommit(<<l, p>>, k)
    <3>1. PICK k \in Outcome : commit[<<l, p>>][k] = "failed" /\ StartCommit(<<l, p>>, k)
      BY <2>3
    <3>2. Has(l, p) /\ (k = "report" => report[<<l, p>>] = "saved")
      BY <3>1, <1>3, Parts DEF Has, HandlerOk
    <3>3. Stops(p)
      BY <2>1, <3>2, <1>4, Stopped
    <3>4. report' = [report EXCEPT ![<<l, p>>] = IF k = "report" THEN "saved" ELSE @]
      BY <2>3, <3>2, Flags
    <3> QED
      BY <2>1, <3>1, <3>2, <3>3, <3>4, <1>1, <1>2, <1>3, Flags DEF Committing
  <2> QED
    BY <2>2, <2>3, <1>8 DEF Repair
<1> QED
  BY <1>5, <1>6, <1>7, <1>8 DEF Reconcile

----------------------------------------------------------------------------
(***************************************************************************)
(* The theorems.                                                           *)
(***************************************************************************)

(* The invariant holds at first, is kept by every step, and by none. *)
LEMMA InitInv == Init => IInv
<1> SUFFICES ASSUME Init
             PROVE  IInv
  OBVIOUS
<1>1. TypeOK
  BY LaneAssumption DEF Init, Journal!Init, Journal!EMPTY_JOURNAL, TypeOK, JournalRecord,
     Attempt, Stage
<1>2. /\ \A l \in Lane : /\ life[l] = "unborn" /\ running[l] = None /\ writes[l] = <<>> /\ cursor[l] = None
                         /\ slot[l] = None
      /\ \A p \in PassID : /\ stage[p] = "unused" /\ runner[p] = None /\ next[p] = 0 /\ ~watching[p]
                           /\ attempt[p] = 1 /\ published[p] = 0
                           /\ \A i \in Attempt : requests[<<p, i>>] = "none"
      /\ \A l \in Lane, p \in PassID :
           /\ report[<<l, p>>] = "none" /\ review[<<l, p>>] = "none" /\ ~probing[<<l, p>>]
           /\ commit[<<l, p>>]["end"] = "none" /\ commit[<<l, p>>]["report"] = "none"
      /\ payload.pending = None /\ payload.progress = None /\ produced = 0
  BY DEF Init, Journal!Init, Journal!EMPTY_JOURNAL, Handler, Outcome
<1>3. LanesOk /\ CursorsOk /\ PendingOk /\ PublishedOk
  BY <1>2 DEF LanesOk, LaneOk, CursorsOk, CursorOk, PendingOk, PublishedOk, Loaded
<1>4. PassesOk
  BY <1>2 DEF PassesOk, PassOk
<1>5. RequestsOk
  BY <1>2, LaneAssumption DEF RequestsOk, RequestOk, Sent, Attempt
<1>6. HandlersOk
  <2> SUFFICES ASSUME NEW l \in Lane, NEW p \in PassID
               PROVE  HandlerOk(l, p)
    BY DEF HandlersOk
  <2>1. ~Takes(l, p) /\ ~Has(l, p)
    BY <1>2, LaneAssumption DEF Takes, Has
  <2> QED
    BY <2>1, <1>2, LaneAssumption DEF HandlerOk
<1>7. WritesOk
  BY <1>2 DEF WritesOk, WritesOf
<1>8. RunningIsRecorded /\ PermitCoversRequest /\ ProgressIsReported /\ ProgressHasItsConfiguration
  BY <1>2 DEF RunningIsRecorded, PermitCoversRequest, ProgressIsReported,
     ProgressHasItsConfiguration
<1> QED
  BY <1>1, <1>3, <1>4, <1>5, <1>6, <1>7, <1>8 DEF IInv

LEMMA NextKeeps ==
  ASSUME IInv, Next
  PROVE  IInv'
<1>1. CASE Produce
  BY <1>1, ProduceKeeps
<1>2. ASSUME NEW l \in Lane, Load(l) \/ Retire(l) \/ Release(l) \/ SaveDone(l) \/ SaveFails(l)
      PROVE  IInv'
  BY LoadKeeps, RetireKeeps, ReleaseKeeps, SaveDoneIs, SaveFailsIs, BeginDoneKeeps,
     SettleDoneKeeps, <1>2
<1>3. ASSUME NEW l \in Lane, NEW p \in PassID, Start(l, p)
      PROVE  IInv'
  BY <1>3, StartKeeps
<1>4. ASSUME NEW q \in Process, Crash(q)
      PROVE  IInv'
  BY <1>4, CrashKeeps
<1>5. ASSUME NEW r \in PassID \X Attempt, ProviderEnds(r)
      PROVE  IInv'
  BY <1>5, ProviderEndsKeeps
<1>6. ASSUME NEW p \in PassID, ForegroundStep(p) \/ LateReply(p) \/ LateAbort(p)
      PROVE  IInv'
  BY SkipKeeps, BeginKeeps, GiveUpIs, EndingKeeps, DispatchKeeps, ReplyIs, AnsweringKeeps,
     RetryingKeeps, ExpireKeeps, AbortConfirmedIs, LeavesAre, LeavingKeeps, ReturnKeeps,
     LateReplyIs, LearningKeeps, CommittingKeeps, LateAbortIs, <1>6
     DEF Outcome, ForegroundStep
<1>7. ASSUME NEW l \in Lane, NEW p \in PassID,
             \/ ReportSaved(<<l, p>>) \/ ReportFails(<<l, p>>) \/ Block(<<l, p>>) \/ Reconcile(<<l, p>>)
             \/ \E k \in Outcome : Accept(<<l, p>>, k)
      PROVE  IInv'
  BY ReportSavedIs, CommittingKeeps, ReportFailsIs, LeavingKeeps, LearningKeeps, BlockKeeps,
     ReconcileIs, AcceptKeeps, <1>7
     DEF Outcome
<1>8. ASSUME NEW h \in Handler
      PROVE  \E l \in Lane, p \in PassID : h = <<l, p>>
  BY DEF Handler
<1> QED
  BY <1>1, <1>2, <1>3, <1>4, <1>5, <1>6, <1>7, <1>8 DEF Next

LEMMA StutterKeeps ==
  ASSUME IInv, UNCHANGED vars
  PROVE  IInv'
<1>1. UNCHANGED <<journal, world, memory, writes, pass, results>>
  BY DEF vars
<1>2. /\ TypeOK' = TypeOK /\ LanesOk' = LanesOk /\ CursorsOk' = CursorsOk /\ PassesOk' = PassesOk
      /\ RequestsOk' = RequestsOk /\ HandlersOk' = HandlersOk /\ PendingOk' = PendingOk
      /\ WritesOk' = WritesOk /\ PublishedOk' = PublishedOk
  BY <1>1 DEF journal, world, memory, pass, results, TypeOK, LanesOk, LaneOk, CursorsOk,
     CursorOk, PassesOk, PassOk, RequestsOk, RequestOk, HandlersOk, HandlerOk, Takes, Has,
     PendingOk, WritesOk, WritesOf, WriteKnown, WriteWaits, BeginWaits, AdvanceWaits, InOrder,
     PublishedOk, Loaded, Live, Sent, Reviewed
<1>3. /\ RunningIsRecorded' = RunningIsRecorded /\ PermitCoversRequest' = PermitCoversRequest
      /\ ProgressIsReported' = ProgressIsReported
      /\ ProgressHasItsConfiguration' = ProgressHasItsConfiguration
  BY <1>1 DEF journal, world, pass, results, RunningIsRecorded, PermitCoversRequest,
     ProgressIsReported, ProgressHasItsConfiguration, Live
<1> QED
  BY <1>2, <1>3 DEF IInv

(* Only three steps move a cursor. *)
LEMMA CursorMoves ==
  ASSUME Next
  PROVE  \/ cursor' = cursor
         \/ \E l \in Lane : Load(l) \/ SaveDone(l)
         \/ \E q \in Process : Crash(q)
<1>1. CASE Produce
  BY <1>1 DEF Produce, memory
<1>2. ASSUME NEW l \in Lane, Retire(l) \/ Release(l) \/ SaveFails(l) \/ \E p \in PassID : Start(l, p)
      PROVE  cursor' = cursor
  BY <1>2 DEF Retire, Release, SaveFails, Start, memory
<1>3. ASSUME NEW r \in PassID \X Attempt, ProviderEnds(r)
      PROVE  cursor' = cursor
  BY <1>3 DEF ProviderEnds, memory
<1>4. ASSUME NEW p \in PassID, ForegroundStep(p)
      PROVE  cursor' = cursor
  BY <1>4 DEF ForegroundStep, Skip, Begin, GiveUp, Dispatch, Reply, Expire, AbortConfirmed,
     AbortUnconfirmed, LeaveSaving, LeaveCommitting, Return, memory
<1>5. ASSUME NEW p \in PassID, LateReply(p) \/ LateAbort(p)
      PROVE  cursor' = cursor
  BY <1>5 DEF LateReply, LateAbort, memory
<1>6. ASSUME NEW h \in Handler,
             \/ ReportSaved(h) \/ ReportFails(h) \/ Block(h) \/ Reconcile(h)
             \/ \E k \in Outcome : Accept(h, k)
      PROVE  cursor' = cursor
  BY <1>6 DEF ReportSaved, ReportFails, Block, Accept, Reconcile, FindTerminal, AbortAgain,
     AbortAnswered, Repair, memory
<1> QED
  BY <1>1, <1>2, <1>3, <1>4, <1>5, <1>6 DEF Next

(* Whatever processes crash, saves fail, replies are lost and lanes are    *)
(* replaced, what the lanes, passes and queued saves know of each other    *)
(* holds throughout the life of the reviewer.                              *)
THEOREM Invariance == Spec => []IInv
<1>1. Init => IInv
  BY InitInv
<1>2. IInv /\ [Next]_vars => IInv'
  BY NextKeeps, StutterKeeps
<1> QED
  BY <1>1, <1>2, PTL DEF Spec

(* A reviewer has one request at a time, on record in the journal and, in  *)
(* a process that lives, covered by its permit: no fallback, no uncertain  *)
(* cancellation, no crash and no restart sends a second one                *)
(* (lane.ts:128, lane.ts:201-206, attempt.ts:149, restart.ts:9).           *)
THEOREM RequestsAreAlwaysAccountedFor == Spec => []RequestsAreAccountedFor
<1>1. IInv => RequestsAreAccountedFor
  BY Parts DEF IInv, RunningIsRecorded, RequestOk, Attempt, NoOverlappingRequests,
     RequestsAreAccountedFor
<1> QED
  BY <1>1, Invariance, PTL

(* A report reaches the runtime once, and only when its pass is off the    *)
(* record; progress is recorded only past a saved report, and under the    *)
(* configuration that the reviewer of that report had                      *)
(* (commit-result.ts:5, recovery.ts:53, lane.ts:99-108).                   *)
THEOREM ProgressAndReportsAlwaysAgree == Spec => []ProgressAndReportsAgree
<1>1. IInv => ProgressAndReportsAgree
  BY DEF IInv, ProgressAndReportsAgree, PublishedOk, PublishedOnce
<1> QED
  BY <1>1, Invariance, PTL

(* A late result of an old pass never moves the cursor of a lane back:     *)
(* whatever order results, saves and recoveries come in, a lane's cursor   *)
(* only grows while its process lives (commit-result.ts:5, lane.ts:99).    *)
THEOREM CursorsGoForward == Spec => CursorNeverMovesBack
<1>1. ASSUME IInv, [Next]_vars
      PROVE  [\A l \in Lane :
                life[l] = "loaded" /\ Live(l)' => Reviewed(cursor'[l]) >= Reviewed(cursor[l])]_vars
  <2> SUFFICES ASSUME Next, NEW l \in Lane, Loaded(l), Live(l)'
               PROVE  Reviewed(cursor'[l]) >= Reviewed(cursor[l])
    BY <1>1 DEF Loaded
  <2>1. Reviewed(cursor[l]) \in Nat
    BY <1>1, TypesAreOk DEF IInv, Types, TypesOfLanes, TypesOfPasses, Reviewed
  <2>2. CASE cursor'[l] = cursor[l]
    BY <2>1, <2>2
  <2>3. ASSUME NEW m \in Lane, Load(m)
        PROVE  cursor'[l] = cursor[l]
    BY <2>3 DEF Load, Loaded
  <2>4. ASSUME NEW q \in Process, Crash(q)
        PROVE  cursor'[l] = cursor[l]
    BY <2>4, <1>1, TypesAreOk DEF IInv, Types, TypesOfWorld, Crash, Journal!Crash, Live
  <2>5. ASSUME NEW m \in Lane, SaveDone(m), cursor'[l] # cursor[l]
        PROVE  Reviewed(cursor'[l]) >= Reviewed(cursor[l])
    <3>u. PICK u : u = Head(writes[m])
      OBVIOUS
    <3>1. /\ writes[m] # <<>> /\ m = l /\ ~Begins(u) /\ u.request.advance /\ cursor'[l] = u.request.id
      BY <2>5, <3>u, <1>1, TypesAreOk DEF IInv, Types, TypesOfLanes, SaveDone, Begins
    <3>2. u \in Write /\ WriteWaits(l, u)
      BY <3>1, <3>u, <1>1, QueueHead DEF IInv
    <3>3. AdvanceWaits(l, u.request.id) /\ u.request.id \in PassID
      BY <3>1, <3>2, WriteParts DEF WriteWaits, Advancing
    <3> QED
      BY <3>1, <3>3, LaneAssumption DEF AdvanceWaits, Reviewed
  <2> QED
    BY <2>2, <2>3, <2>4, <2>5, CursorMoves
<1> QED
  BY <1>1, Invariance, PTL DEF Spec, CursorNeverMovesBack
=============================================================================
