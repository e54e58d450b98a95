----------------------- MODULE AdviceInjectionProofs -----------------------
(***************************************************************************)
(* What holds of the checkpoint tool and of the advice in prompts, for any *)
(* findings, calls, issues, page size and bounds.                          *)
(*                                                                         *)
(* First the types, and what a call has at each of its steps.  Then the    *)
(* advice that waits for a prompt: the turns a finding was injected in are *)
(* those its blocker has counted, and the one it has seen last.  Then the  *)
(* context: operations stand in the scope in the order in which they saw   *)
(* the session, a call waits for one of them, and what is on disk is no    *)
(* later than what memory has or what the first of them saw; a write of a  *)
(* released scope has landed before it is answered.  Last the findings and *)
(* the gates that a call computes from them.                               *)
(***************************************************************************)
EXTENDS AdviceInjection, FiniteSetTheorems, SequenceTheorems, WellFoundedInduction, TLAPS

Counters == {"asks", "turns", "captures", "releases", "faults", "findings", "deliveries",
             "cards", "prompts", "compactions"}

(* A step that counts against a bound leaves the other bounds as they are. *)
LEMMA SpendKeepsBound ==
  ASSUME bound \in Bound, NEW what \in Counters, Spend(what)
  PROVE  bound' \in Bound /\ bound'.requests = bound.requests
BY DEF Bound, Counters, Spend

(* The session has a last change.                                          *)
LEMMA LogIsNotEmpty ==
  ASSUME log \in Seq([user : Nat, revision : Nat]), log # <<>>
  PROVE  Len(log) \in Nat \ {0} /\ \A i \in 1..Len(log) : log[i] \in [user : Nat, revision : Nat]
BY EmptySeq, ElementOfSeq

(* What the last change of the session says has its type.                  *)
LEMMA LatestIs ==
  ASSUME log \in Seq([user : Nat, revision : Nat]), log # <<>>
  PROVE  Now \in [user : Nat, revision : Nat]
BY LogIsNotEmpty DEF Now

(* A change that is appended is the last one.                              *)
LEMMA LatestAppended ==
  ASSUME log \in Seq([user : Nat, revision : Nat]), log # <<>>,
         NEW next \in [user : Nat, revision : Nat], log' = Append(log, next)
  PROVE  log' \in Seq([user : Nat, revision : Nat]) /\ log' # <<>> /\ Now' = next
BY LogIsNotEmpty DEF Now

(* The users that a new snapshot may name have their type.                 *)
LEMMA FirstIs ==
  ASSUME TypeOK
  PROVE  users \in Nat /\ log[1].user \in Nat
<1>1. log \in Seq([user : Nat, revision : Nat]) /\ log # <<>> /\ users \in Nat
  BY DEF TypeOK
<1>2. Len(log) \in Nat \ {0} /\ \A i \in 1..Len(log) : log[i] \in [user : Nat, revision : Nat]
  BY <1>1, LogIsNotEmpty
<1>3. 1 \in 1..Len(log)
  BY <1>2
<1>4. QED
  BY <1>1, <1>2, <1>3

(* A snapshot made of a snapshot is one.                                   *)
LEMMA SnapshotTypes ==
  ASSUME TypeOK, NEW op \in Operation, NEW loaded \in Snapshot \cup {None}
  PROVE  NextSnapshot(op, loaded) \in Snapshot
<1>0. users \in Nat /\ log[1].user \in Nat
  BY FirstIs
<1>1. Base(op, loaded) \in Snapshot
  BY <1>0 DEF Base, Snapshot, Action
<1>2. QED
  BY <1>0, <1>1 DEF NextSnapshot, Snapshot, Operation, Action

(* A call that goes on keeps its type.                                     *)
LEMMA CallGoesOn ==
  ASSUME calls \in [Call -> Asked], NEW c \in Call, NEW pc \in Pc
  PROVE  [calls EXCEPT ![c].pc = pc] \in [Call -> Asked]
BY DEF Asked

(* The calls keep their types when an operation ends.                      *)
LEMMA SettledTypes ==
  ASSUME TypeOK, NEW op \in Operation, NEW ok \in BOOLEAN,
         ok /\ op.kind = "checkpoint" => op.value \in Snapshot \cup {None}
  PROVE  Settled(op, ok) \in [Call -> Asked]
<1>0. calls \in [Call -> Asked] /\ op.by \in Call \cup {None}
  BY DEF TypeOK, Operation
<1>1. CASE op.by = None \/ calls[op.by].pc \notin {"capturing", "checkpointing"}
  BY <1>0, <1>1 DEF Settled
<1>2. CASE op.by # None /\ calls[op.by].pc \in {"capturing", "checkpointing"}
  <2>0. op.by \in Call
    BY <1>0, <1>2
  <2>1. \A pc \in {"failed", "unavailable", "captured"} : [calls EXCEPT ![op.by].pc = pc] \in [Call -> Asked]
    BY <1>0, <2>0, CallGoesOn DEF Pc
  <2>2. ok /\ op.kind # "capture" =>
          [calls EXCEPT ![op.by].pc = "recording", ![op.by].context = op.value] \in [Call -> Asked]
    <3> SUFFICES ASSUME ok, op.kind # "capture"
                 PROVE  [calls EXCEPT ![op.by].pc = "recording", ![op.by].context = op.value] \in [Call -> Asked]
      OBVIOUS
    <3>1. op.value \in Snapshot \cup {None}
      BY DEF Operation
    <3>2. [calls EXCEPT ![op.by].pc = "recording"] \in [Call -> Asked]
      BY <1>0, <2>0, CallGoesOn DEF Pc
    <3> DEFINE on == [calls EXCEPT ![op.by].pc = "recording"]
    <3>3. [on EXCEPT ![op.by].context = op.value] \in [Call -> Asked]
      BY <2>0, <3>1, <3>2 DEF Asked
    <3>4. QED
      BY <1>0, <2>0, <3>3
  <2>3. QED
    BY <1>2, <2>1, <2>2 DEF Settled
<1>3. QED
  BY <1>1, <1>2

(* What a save does: either what memory has is on disk already and the     *)
(* operation ends, or a write is posted that landed or not, and whose      *)
(* outcome is told later or not.                                           *)
LEMMA SaveIs ==
  ASSUME TypeOK, NEW op, NEW loaded, NEW memo, Save(op, loaded, memo)
  PROVE  \E current :
    /\ current = NextSnapshot(op, loaded) /\ states' = current /\ saved' = memo
    /\ \/ /\ current = memo /\ running' = None
          /\ calls' = Settled([op EXCEPT !.value = current], TRUE)
          /\ UNCHANGED <<disk, unsure, bound>>
       \/ \E landed, told \in BOOLEAN :
          /\ current # memo /\ (told => landed)
          /\ disk' = IF landed THEN current ELSE disk
          /\ unsure' = ~told
          /\ running' = [op EXCEPT !.phase = "saving", !.value = IF told THEN current ELSE None]
          /\ calls' = calls
          /\ bound' \in Bound /\ bound'.requests = bound.requests
<1> DEFINE current == NextSnapshot(op, loaded)
<1>0. states' = current /\ saved' = memo
  BY DEF Save, current
<1>2. CASE current = memo
  BY <1>0, <1>2 DEF Save, Ended, current
<1>3. CASE current # memo
  <2>1. PICK w \in Writable :
               /\ disk' = IF w[1] THEN current ELSE disk
               /\ unsure' = ~w[2]
               /\ IF w[2] THEN UNCHANGED bound ELSE Spend("faults")
               /\ running' = [op EXCEPT !.phase = "saving", !.value = IF w[2] THEN current ELSE None]
               /\ UNCHANGED calls
    BY <1>3 DEF Save, current
  <2>2. w \in {<<TRUE, TRUE>>, <<TRUE, FALSE>>, <<FALSE, FALSE>>}
    BY DEF Writable
  <2>3. w[1] \in BOOLEAN /\ w[2] \in BOOLEAN /\ (w[2] => w[1])
    <3>1. CASE w = <<TRUE, TRUE>>
      BY <3>1
    <3>2. CASE w = <<TRUE, FALSE>>
      BY <3>2
    <3>3. CASE w = <<FALSE, FALSE>>
      BY <3>3
    <3>4. QED
      BY <2>2, <3>1, <3>2, <3>3
  <2>4. bound' \in Bound /\ bound'.requests = bound.requests
    BY <2>1, SpendKeepsBound DEF Counters, TypeOK
  <2>5. QED
    BY <1>0, <1>3, <2>1, <2>3, <2>4 DEF current
<1>4. QED
  BY <1>2, <1>3

(* A set of numbers that is not empty has a least one.                     *)
LEMMA LeastOf ==
  ASSUME NEW S \in SUBSET Nat, S # {}
  PROVE  \E n \in S : \A m \in S : n <= m
<1> DEFINE R == OpToRel(<, Nat)
<1>1. IsWellFoundedOn(R, Nat)
  BY NatLessThanWellFounded
<1>2. R = {p \in Nat \X Nat : p[1] < p[2]}
  BY DEF OpToRel
<1> HIDE DEF R
<1>3. PICK n \in S : \A m \in S : <<m, n>> \notin R
  BY <1>1, WFMin
<1>4. ASSUME NEW m \in S PROVE n <= m
  <2>1. m \in Nat /\ n \in Nat
    OBVIOUS
  <2>2. <<m, n>> \notin R
    BY <1>3
  <2>3. ~(m < n)
    BY <1>2, <2>1, <2>2
  <2>4. QED
    BY <2>1, <2>3
<1>5. QED
  BY <1>4

(* The function that Disposed computes with: the table after each update.  *)
Updated(table, u, versions, revision) ==
  IF table = None \/ ~Valid(table, u, versions) THEN None
  ELSE [table EXCEPT ![u.id] = Dispose(@, u, revision)]

Tables(after, updates, versions, revision) ==
  after = [i \in 0..Len(updates) |->
             IF i = 0 THEN rows ELSE Updated(after[i - 1], updates[i], versions, revision)]

(* The function that Disposed computes with exists: a least index up to    *)
(* which it did not could be added to the one before it.                   *)
LEMMA TablesExist ==
  ASSUME NEW updates, Len(updates) \in Nat, NEW versions, NEW revision
  PROVE  \E after : Tables(after, updates, versions, revision)
<1> DEFINE Step(t, i) == Updated(t, updates[i], versions, revision)
           Upto(k) == \E f : f = [i \in 0..k |-> IF i = 0 THEN rows ELSE Step(f[i - 1], i)]
           bad == {k \in 0..Len(updates) : ~Upto(k)}
<1> HIDE DEF Step
<1>1. Upto(0)
  <2> DEFINE f == [i \in 0..0 |-> rows]
  <2>1. f = [i \in 0..0 |-> IF i = 0 THEN rows ELSE Step(f[i - 1], i)]
    OBVIOUS
  <2>2. QED
    BY <2>1
<1>2. ASSUME NEW m \in 0..Len(updates), m # 0, Upto(m - 1) PROVE Upto(m)
  <2>1. m \in Nat /\ m - 1 \in Nat
    BY <1>2
  <2>2. PICK g : g = [i \in 0..(m - 1) |-> IF i = 0 THEN rows ELSE Step(g[i - 1], i)]
    BY <1>2
  <2> DEFINE f == [i \in 0..m |-> IF i = m THEN Step(g[m - 1], m) ELSE g[i]]
  <2>3. ASSUME NEW i \in 0..m PROVE f[i] = IF i = 0 THEN rows ELSE Step(f[i - 1], i)
    <3>1. CASE i = 0
      BY <1>2, <2>1, <2>2, <3>1
    <3>2. CASE i # 0
      <4>1. i - 1 \in 0..(m - 1) /\ i - 1 # m /\ i - 1 \in 0..m
        BY <2>1, <3>2
      <4>2. f[i - 1] = g[i - 1]
        BY <4>1
      <4>3. f[i] = Step(g[i - 1], i)
        <5>1. CASE i = m
          BY <5>1
        <5>2. CASE i # m
          <6>1. i \in 0..(m - 1)
            BY <2>1, <5>2
          <6>2. g[i] = Step(g[i - 1], i)
            BY <2>2, <3>2, <6>1
          <6>3. QED
            BY <5>2, <6>2
        <5>3. QED
          BY <5>1, <5>2
      <4>4. QED
        BY <3>2, <4>2, <4>3
    <3>3. QED
      BY <3>1, <3>2
  <2>4. f = [i \in 0..m |-> IF i = 0 THEN rows ELSE Step(f[i - 1], i)]
    <3>1. f = [i \in 0..m |-> f[i]]
      OBVIOUS
    <3> HIDE DEF f
    <3>2. QED
      BY <2>3, <3>1
  <2>5. QED
    BY <2>4
<1> HIDE DEF Upto
<1>3. bad = {}
  <2>1. SUFFICES ASSUME bad # {} PROVE FALSE
    OBVIOUS
  <2>b. bad \in SUBSET Nat
    OBVIOUS
  <2>2. PICK m \in bad : \A k \in bad : m <= k
    BY <2>1, <2>b, LeastOf
  <2>3. m \in 0..Len(updates) /\ ~Upto(m)
    OBVIOUS
  <2>4. m # 0
    BY <1>1, <2>3
  <2>5. m - 1 \in 0..Len(updates) /\ m - 1 < m
    BY <2>3, <2>4
  <2>6. Upto(m - 1)
    BY <2>2, <2>5
  <2>7. QED
    BY <1>2, <2>3, <2>4, <2>6
<1>4. Upto(Len(updates))
  BY <1>3
<1>5. QED
  BY <1>4 DEF Upto, Step, Tables

(* What every single update keeps, a batch of them keeps.                  *)
LEMMA BatchKeeps ==
  ASSUME NEW T, rows \in T, NEW updates, Len(updates) \in Nat, NEW versions, NEW revision,
         \A table \in T, i \in 1..Len(updates) :
           Valid(table, updates[i], versions) =>
             [table EXCEPT ![updates[i].id] = Dispose(@, updates[i], revision)] \in T
  PROVE  Disposed(updates, versions, revision) \in T \cup {None}
<1> DEFINE Step(t, i) == Updated(t, updates[i], versions, revision)
           Is(f) == Tables(f, updates, versions, revision)
           after == CHOOSE f : Is(f)
           bad == {k \in 0..Len(updates) : after[k] \notin T \cup {None}}
<1>1. Disposed(updates, versions, revision) = after[Len(updates)]
  BY DEF Disposed, Tables, Updated
<1>2. Is(after)
  <2>1. \E f : Is(f)
    BY TablesExist
  <2>2. QED
    BY <2>1
<1>3. \A t \in T \cup {None}, i \in 1..Len(updates) : Step(t, i) \in T \cup {None}
  BY DEF Updated
<1> HIDE DEF after, Step
<1>4. bad = {}
  <2>1. SUFFICES ASSUME bad # {} PROVE FALSE
    OBVIOUS
  <2>b. bad \in SUBSET Nat
    OBVIOUS
  <2>2. PICK m \in bad : \A k \in bad : m <= k
    BY <2>1, <2>b, LeastOf
  <2>3. m \in 0..Len(updates) /\ after[m] \notin T \cup {None}
    OBVIOUS
  <2>4. after[0] = rows
    BY <1>2 DEF Tables
  <2>5. m # 0
    BY <2>3, <2>4
  <2>6. m - 1 \in 0..Len(updates) /\ m - 1 < m /\ m \in 1..Len(updates)
    BY <2>3, <2>5
  <2>7. after[m - 1] \in T \cup {None}
    BY <2>2, <2>6
  <2>8. after[m] = Step(after[m - 1], m)
    BY <1>2, <2>5, <2>6 DEF Tables, Step
  <2>9. QED
    BY <1>3, <2>3, <2>6, <2>7, <2>8
<1>5. QED
  BY <1>1, <1>4

-----------------------------------------------------------------------------
(* Types.                                                                  *)

(* What a call has when it has come so far.                                *)
Begun(call) ==
  /\ call.pc \notin {"unused", "failed", "unavailable"} => call.request \in Request /\ call.seen \in [Finding -> Nat]
  /\ call.pc \in {"recording", "listing", "notes", "returned"} => call.context \in Snapshot
  /\ call.pc \in {"notes", "returned"} => call.all \in [Finding -> Row \cup {None}]

CallsBegun == \A c \in Call : Begun(calls[c])

CheckpointTypes == TypeOK /\ CallsBegun

(* What the end of an operation does to a call.                            *)
Ends(op, ok, call, after) ==
  /\ after.request = call.request /\ after.seen = call.seen /\ after.asked = call.asked
  /\ after.all = call.all /\ after.report = call.report
  /\ call.pc \in {"capturing", "checkpointing"}
  /\ \/ after.pc \in {"failed", "unavailable"} /\ after.context = call.context
     \/ ok /\ op.kind = "capture" /\ after.pc = "captured" /\ after.context = call.context
     \/ ok /\ op.kind = "checkpoint" /\ after.pc = "recording" /\ after.context = op.value

(* The end of an operation leaves every call alone but the one that waits  *)
(* for it.                                                                 *)
LEMMA SettledIs ==
  ASSUME calls \in [Call -> Asked], NEW op \in Operation, NEW ok \in BOOLEAN, NEW c \in Call
  PROVE  \/ Settled(op, ok)[c] = calls[c]
         \/ c = op.by /\ Ends(op, ok, calls[c], Settled(op, ok)[c])
<1> DEFINE waits == op.by # None /\ calls[op.by].pc \in {"capturing", "checkpointing"}
<1>1. CASE ~waits
  BY <1>1 DEF Settled
<1>2. CASE waits /\ c # op.by
  BY <1>2 DEF Settled
<1>3. CASE waits /\ c = op.by
  <2>0. c = op.by /\ calls[c].pc \in {"capturing", "checkpointing"}
    BY <1>3
  <2>1. op.kind \in {"capture", "checkpoint"}
    BY DEF Operation
  <2>2. \A pc : [calls EXCEPT ![c].pc = pc][c] = [calls[c] EXCEPT !.pc = pc]
    OBVIOUS
  <2>3. [calls EXCEPT ![c].pc = "recording", ![c].context = op.value][c] =
          [calls[c] EXCEPT !.pc = "recording", !.context = op.value]
    OBVIOUS
  <2>4. calls[c] \in Asked
    OBVIOUS
  <2>5. \A pc : LET after == [calls[c] EXCEPT !.pc = pc]
                IN /\ after.request = calls[c].request /\ after.seen = calls[c].seen
                   /\ after.asked = calls[c].asked /\ after.all = calls[c].all
                   /\ after.report = calls[c].report /\ after.pc = pc
                   /\ after.context = calls[c].context
    BY <2>4 DEF Asked
  <2>6. LET after == [calls[c] EXCEPT !.pc = "recording", !.context = op.value]
        IN /\ after.request = calls[c].request /\ after.seen = calls[c].seen
           /\ after.asked = calls[c].asked /\ after.all = calls[c].all
           /\ after.report = calls[c].report /\ after.pc = "recording"
           /\ after.context = op.value
    BY <2>4 DEF Asked
  <2>7. CASE ~ok
    <3>1. Settled(op, ok)[c] = [calls[c] EXCEPT !.pc = "failed"]
      BY <1>3, <2>2, <2>7 DEF Settled
    <3>2. QED
      BY <2>0, <2>5, <3>1 DEF Ends
  <2>8. CASE ok /\ ~watched
    <3>1. Settled(op, ok)[c] = [calls[c] EXCEPT !.pc = "unavailable"]
      BY <1>3, <2>2, <2>8 DEF Settled
    <3>2. QED
      BY <2>0, <2>5, <3>1 DEF Ends
  <2>9. CASE ok /\ watched /\ op.kind = "capture"
    <3>1. Settled(op, ok)[c] = [calls[c] EXCEPT !.pc = "captured"]
      BY <1>3, <2>2, <2>9 DEF Settled
    <3> DEFINE after == Settled(op, ok)[c]
    <3>2. /\ after.request = calls[c].request /\ after.seen = calls[c].seen
          /\ after.asked = calls[c].asked /\ after.all = calls[c].all
          /\ after.report = calls[c].report /\ after.pc = "captured"
          /\ after.context = calls[c].context
      BY <2>5, <3>1
    <3> HIDE DEF after
    <3>3. Ends(op, ok, calls[c], after)
      BY <2>0, <2>9, <3>2 DEF Ends
    <3>4. QED
      BY <2>0, <3>3 DEF after
  <2>10. CASE ok /\ watched /\ op.kind = "checkpoint"
    <3>1. Settled(op, ok)[c] = [calls[c] EXCEPT !.pc = "recording", !.context = op.value]
      BY <1>3, <2>3, <2>10 DEF Settled
    <3>2. QED
      BY <2>0, <2>6, <2>10, <3>1 DEF Ends
  <2>11. QED
    BY <2>1, <2>7, <2>8, <2>9, <2>10
<1> HIDE DEF waits
<1>4. QED
  BY <1>1, <1>2, <1>3

(* The answer of a call has its type.                                      *)
LEMMA ReportTypes ==
  ASSUME NEW table, NEW ctx \in Snapshot, NEW request \in Request
  PROVE  Report(table, ctx, request) \in Answer
<1> DEFINE listed == Listed(table, ctx, {request.updates[i].id : i \in DOMAIN request.updates})
           order == SetToSeq(listed)
<1>1. listed \in SUBSET Finding
  BY DEF Listed
<1>2. IsFiniteSet(listed)
  BY <1>1, CheckpointAssumption, FS_Subset
<1> HIDE DEF listed
<1>3. order \in [1..Cardinality(listed) -> listed]
  <2>1. ExistsBijection(1..Cardinality(listed), listed)
    BY <1>2, FS_CardinalityType
  <2>2. \E f \in [1..Cardinality(listed) -> listed] : IsInjective(f)
    BY <2>1 DEF ExistsBijection, Bijection, Injection, IsInjective
  <2>3. QED
    BY <2>2 DEF SetToSeq
<1> HIDE DEF order
<1>4. {order[i] : i \in {j \in DOMAIN order : request.offset < j /\ j <= request.offset + Limit}} \in SUBSET Finding
  BY <1>1, <1>3
<1>5. QED
  BY <1>1, <1>4 DEF Report, Answer, listed, order

(* What an update leaves of a row.                                         *)
LEMMA DisposeTypes ==
  ASSUME NEW row \in Row, NEW u \in Disposition, NEW revision \in Nat
  PROVE  Dispose(row, u, revision) \in Row
<1> DEFINE opening == IF u.state = "open" /\ row.state # "open" THEN row.opening + 1 ELSE row.opening
           recorded == [revision |-> revision, in_scope |-> u.verification.in_scope,
                        action |-> u.verification.action, opening |-> opening]
           proof == IF u.verification # None /\ u.state = "open" THEN recorded
                    ELSE IF u.state # "open" \/ row.state # "open" THEN None ELSE row.proof
<1>1. opening \in Nat
  BY DEF Row
<1>2. u.verification # None => recorded \in Proof
  <2> HIDE DEF opening
  <2>1. QED
    BY <1>1 DEF Disposition, Proof, Action
<1>3. proof \in Proof \cup {None}
  <2> HIDE DEF recorded
  <2>1. QED
    BY <1>2 DEF Row
<1>4. Dispose(row, u, revision) =
        [row EXCEPT !.state = u.state, !.version = @ + 1, !.opening = opening, !.proof = proof]
  BY DEF Dispose
<1> HIDE DEF opening, proof
<1>5. u.state \in {"open", "resolved", "deferred"}
  BY DEF Disposition
<1>6. row.version + 1 \in Nat
  BY DEF Row
<1>7. [row EXCEPT !.state = u.state, !.version = row.version + 1, !.opening = opening, !.proof = proof] \in Row
  <2> HIDE DEF recorded
  <2>1. QED
    BY <1>1, <1>3, <1>5, <1>6 DEF Row
<1>8. QED
  BY <1>4, <1>7

(* A batch of updates leaves rows where there were rows.                   *)
LEMMA DisposedTypes ==
  ASSUME rows \in [Finding -> Row \cup {None}], NEW request \in Request, NEW versions, NEW revision \in Nat
  PROVE  Disposed(request.updates, versions, revision) \in [Finding -> Row \cup {None}] \cup {None}
<1>1. Len(request.updates) \in Nat /\ \A i \in 1..Len(request.updates) : request.updates[i] \in Disposition
  BY ElementOfSeq, LenProperties DEF Request
<1>2. ASSUME NEW table \in [Finding -> Row \cup {None}], NEW i \in 1..Len(request.updates),
             Valid(table, request.updates[i], versions)
      PROVE  [table EXCEPT ![request.updates[i].id] = Dispose(@, request.updates[i], revision)]
               \in [Finding -> Row \cup {None}]
  <2>1. request.updates[i] \in Disposition
    BY <1>1
  <2>2. table[request.updates[i].id] \in Row
    BY <1>2, <2>1 DEF Valid, Disposition
  <2>3. Dispose(table[request.updates[i].id], request.updates[i], revision) \in Row
    BY <2>1, <2>2, DisposeTypes
  <2>4. QED
    BY <2>3
<1>3. QED
  BY <1>1, <1>2, BatchKeeps

(* A call that goes on to a step that asks for no more than it has keeps   *)
(* what it has.                                                            *)
LEMMA MovesKeepBegun ==
  ASSUME calls \in [Call -> Asked], CallsBegun, NEW c \in Call, NEW pc \in Pc,
         calls' = [calls EXCEPT ![c].pc = pc],
         calls[c].pc \notin {"unused", "failed", "unavailable"},
         pc \in {"recording", "listing", "notes", "returned"} =>
           calls[c].pc \in {"recording", "listing", "notes", "returned"},
         pc \in {"notes", "returned"} => calls[c].pc \in {"notes", "returned"}
  PROVE  calls' \in [Call -> Asked] /\ CallsBegun'
<1>1. calls' \in [Call -> Asked]
  BY CallGoesOn
<1>2. ASSUME NEW d \in Call PROVE Begun(calls'[d])
  <2>1. CASE d = c
    <3>1. calls'[d] = [calls[c] EXCEPT !.pc = pc] /\ calls[c] \in Asked
      BY <2>1
    <3>2. /\ calls'[d].pc = pc /\ calls'[d].request = calls[c].request /\ calls'[d].seen = calls[c].seen
          /\ calls'[d].context = calls[c].context /\ calls'[d].all = calls[c].all
      BY <3>1 DEF Asked
    <3>3. Begun(calls[c])
      BY DEF CallsBegun
    <3>4. QED
      BY <3>2, <3>3 DEF Begun
  <2>2. CASE d # c
    BY <2>2 DEF CallsBegun
  <2>3. QED
    BY <2>1, <2>2
<1>3. QED
  BY <1>1, <1>2 DEF CallsBegun

(* The same for a call that goes on if its session is watched.             *)
LEMMA GoesKeepsBegun ==
  ASSUME TypeOK, CallsBegun, NEW c \in Call, NEW pc \in Pc, Goes(c, pc),
         calls[c].pc \notin {"unused", "failed", "unavailable"},
         pc \in {"recording", "listing", "notes", "returned"} =>
           calls[c].pc \in {"recording", "listing", "notes", "returned"},
         pc \in {"notes", "returned"} => calls[c].pc \in {"notes", "returned"}
  PROVE  calls' \in [Call -> Asked] /\ CallsBegun'
<1>1. calls \in [Call -> Asked] /\ "unavailable" \in Pc
  BY DEF TypeOK, Pc
<1>2. CASE watched
  BY <1>1, <1>2, MovesKeepBegun DEF Goes
<1>3. CASE ~watched
  BY <1>1, <1>3, MovesKeepBegun DEF Goes
<1>4. QED
  BY <1>2, <1>3

(* The end of an operation leaves the calls with what they have.           *)
LEMMA SettledKeepsBegun ==
  ASSUME TypeOK, CallsBegun, NEW op \in Operation, NEW ok \in BOOLEAN,
         ok /\ op.kind = "checkpoint" => op.value \in Snapshot, calls' = Settled(op, ok)
  PROVE  calls' \in [Call -> Asked] /\ CallsBegun'
<1>0. calls \in [Call -> Asked]
  BY DEF TypeOK
<1>1. calls' \in [Call -> Asked]
  BY SettledTypes
<1>2. ASSUME NEW c \in Call PROVE Begun(calls'[c])
  <2>1. calls'[c] = calls[c] \/ Ends(op, ok, calls[c], calls'[c])
    BY <1>0, SettledIs
  <2>2. Begun(calls[c])
    BY DEF CallsBegun
  <2>3. QED
    BY <2>1, <2>2 DEF Begun, Ends
<1>3. QED
  BY <1>1, <1>2 DEF CallsBegun

(* A save keeps the types of what it changes.                              *)
LEMMA SaveKeepsTypes ==
  ASSUME TypeOK, CallsBegun, NEW op \in Operation, NEW loaded \in Snapshot \cup {None},
         NEW memo \in Snapshot \cup {None}, Save(op, loaded, memo)
  PROVE  /\ states' \in Snapshot \cup {None} /\ saved' \in Snapshot \cup {None}
         /\ disk' \in Snapshot \cup {None} /\ unsure' \in BOOLEAN
         /\ bound' \in Bound /\ running' \in Operation \cup {None}
         /\ calls' \in [Call -> Asked] /\ CallsBegun'
<1>0. disk \in Snapshot \cup {None} /\ unsure \in BOOLEAN /\ bound \in Bound /\ calls \in [Call -> Asked]
  BY DEF TypeOK
<1>1. PICK current :
    /\ current = NextSnapshot(op, loaded) /\ states' = current /\ saved' = memo
    /\ \/ /\ current = memo /\ running' = None
          /\ calls' = Settled([op EXCEPT !.value = current], TRUE)
          /\ UNCHANGED <<disk, unsure, bound>>
       \/ \E landed, told \in BOOLEAN :
          /\ current # memo /\ (told => landed)
          /\ disk' = IF landed THEN current ELSE disk
          /\ unsure' = ~told
          /\ running' = [op EXCEPT !.phase = "saving", !.value = IF told THEN current ELSE None]
          /\ calls' = calls
          /\ bound' \in Bound /\ bound'.requests = bound.requests
  BY SaveIs
<1>2. current \in Snapshot
  BY <1>1, SnapshotTypes
<1>3. CASE running' = None /\ calls' = Settled([op EXCEPT !.value = current], TRUE)
           /\ UNCHANGED <<disk, unsure, bound>>
  <2>1. [op EXCEPT !.value = current] \in Operation /\ [op EXCEPT !.value = current].value = current
    BY <1>2 DEF Operation
  <2>2. calls' \in [Call -> Asked] /\ CallsBegun'
    BY <1>2, <1>3, <2>1, SettledKeepsBegun
  <2>3. QED
    BY <1>0, <1>1, <1>2, <1>3, <2>2
<1>4. ASSUME NEW landed \in BOOLEAN, NEW told \in BOOLEAN,
             disk' = IF landed THEN current ELSE disk, unsure' = ~told,
             running' = [op EXCEPT !.phase = "saving", !.value = IF told THEN current ELSE None],
             calls' = calls, bound' \in Bound
      PROVE  /\ disk' \in Snapshot \cup {None} /\ unsure' \in BOOLEAN
             /\ bound' \in Bound /\ running' \in Operation \cup {None}
             /\ calls' \in [Call -> Asked] /\ CallsBegun'
  <2>1. running' \in Operation
    BY <1>2, <1>4 DEF Operation
  <2>2. QED
    BY <1>0, <1>2, <1>4, <2>1 DEF CallsBegun
<1>5. QED
  BY <1>1, <1>2, <1>3, <1>4

(* Every step of a context's scope keeps the types.                        *)
LEMMA ContextStepTypes ==
  ASSUME CheckpointTypes, ContextStep
  PROVE  CheckpointTypes'
<1> USE DEF CheckpointTypes
<1>0. /\ states \in Snapshot \cup {None} /\ saved \in Snapshot \cup {None} /\ disk \in Snapshot \cup {None}
      /\ running \in Operation \cup {None} /\ orphan \in Operation \cup {None} /\ queue \in Seq(Operation)
  BY DEF TypeOK
<1>1. CASE Begin
  <2>1. Head(queue) \in Operation /\ Tail(queue) \in Seq(Operation)
    BY <1>0, <1>1, HeadTailProperties DEF Begin
  <2>2. queue' \in Seq(Operation)
    BY <1>1, <2>1 DEF Begin
  <2>3. /\ states' \in Snapshot \cup {None} /\ saved' \in Snapshot \cup {None}
        /\ disk' \in Snapshot \cup {None} /\ unsure' \in BOOLEAN
        /\ bound' \in Bound /\ running' \in Operation \cup {None}
        /\ calls' \in [Call -> Asked] /\ CallsBegun'
    <3>1. CASE states # None
      <4>1. Save(Head(queue), states, saved)
        BY <1>1, <3>1 DEF Begin
      <4>2. QED
        BY <1>0, <2>1, <4>1, SaveKeepsTypes
    <3>2. CASE states = None
      <4>1. [Head(queue) EXCEPT !.phase = "loading", !.value = disk] \in Operation
        BY <1>0, <2>1 DEF Operation
      <4>2. QED
        BY <1>0, <1>1, <3>2, <4>1 DEF Begin, TypeOK, CallsBegun
    <3>3. QED
      BY <3>1, <3>2
  <2>4. UNCHANGED <<log, watched, users, orphan, findings>>
    BY <1>1 DEF Begin
  <2>5. QED
    BY <2>2, <2>3, <2>4 DEF TypeOK, findings
<1>2. CASE Loaded
  <2>1. running \in Operation /\ running.value \in Snapshot \cup {None}
    BY <1>0, <1>2 DEF Loaded, Operation
  <2>2. /\ states' \in Snapshot \cup {None} /\ saved' \in Snapshot \cup {None}
        /\ disk' \in Snapshot \cup {None} /\ unsure' \in BOOLEAN
        /\ bound' \in Bound /\ running' \in Operation \cup {None}
        /\ calls' \in [Call -> Asked] /\ CallsBegun'
    <3>1. CASE Save(running, running.value, IF running.value # None THEN running.value ELSE saved)
      BY <1>0, <2>1, <3>1, SaveKeepsTypes
    <3>2. CASE Spend("faults") /\ Ended(running, FALSE) /\ UNCHANGED <<states, saved, disk, unsure>>
      <4>1. bound' \in Bound
        BY <3>2, SpendKeepsBound DEF Counters, TypeOK
      <4>2. calls' \in [Call -> Asked] /\ CallsBegun'
        BY <2>1, <3>2, SettledKeepsBegun DEF Ended
      <4>3. QED
        BY <1>0, <3>2, <4>1, <4>2 DEF Ended, TypeOK
    <3>3. QED
      BY <1>2, <3>1, <3>2 DEF Loaded
  <2>3. UNCHANGED <<log, watched, users, queue, orphan, findings>>
    BY <1>2 DEF Loaded
  <2>4. QED
    BY <2>2, <2>3 DEF TypeOK, findings
<1>3. CASE WriteReturns
  <2>1. running \in Operation /\ running.value \in Snapshot \cup {None}
    BY <1>0, <1>3 DEF WriteReturns, Operation
  <2>2. calls' \in [Call -> Asked] /\ CallsBegun'
    BY <1>3, <2>1, SettledKeepsBegun DEF WriteReturns, Ended
  <2>3. saved' \in Snapshot \cup {None} /\ running' = None
    BY <1>0, <1>3, <2>1 DEF WriteReturns, Ended
  <2>4. UNCHANGED <<session, states, users, queue, orphan, disk, unsure, findings>>
    BY <1>3 DEF WriteReturns
  <2>5. QED
    BY <2>2, <2>3, <2>4 DEF TypeOK, findings, session
<1>4. CASE OrphanReturns
  <2>1. orphan \in Operation /\ orphan.value \in Snapshot \cup {None}
    BY <1>0, <1>4 DEF OrphanReturns, Operation
  <2>2. calls' \in [Call -> Asked] /\ CallsBegun'
    BY <1>4, <2>1, SettledKeepsBegun DEF OrphanReturns
  <2>3. UNCHANGED <<session, states, users, saved, queue, running, disk, unsure, findings>> /\ orphan' = None
    BY <1>4 DEF OrphanReturns
  <2>4. QED
    BY <2>2, <2>3 DEF TypeOK, findings, session
<1>5. QED
  BY <1>1, <1>2, <1>3, <1>4 DEF ContextStep

(* A message of the user keeps the types of what it changes.               *)
LEMMA ToldTypes ==
  ASSUME TypeOK, NEW u \in Nat, Told(u)
  PROVE  users' \in Nat /\ states' \in Snapshot \cup {None}
<1>1. users \in Nat /\ states \in Snapshot \cup {None}
  BY DEF TypeOK
<1>2. states \in Snapshot => [states EXCEPT !.user = u, !.action = None] \in Snapshot
  BY DEF Snapshot, Action
<1>3. QED
  BY <1>1, <1>2 DEF Told

(* A change of the session keeps the types of what it changes.             *)
LEMMA TurnTypes ==
  ASSUME TypeOK, CallsBegun, NEW next \in [user : Nat, revision : Nat], Turn(next)
  PROVE  /\ bound' \in Bound /\ log' \in Seq([user : Nat, revision : Nat]) /\ log' # <<>>
         /\ Now' = next /\ calls' = calls /\ CallsBegun'
<1>1. bound' \in Bound
  BY SpendKeepsBound DEF Counters, TypeOK, Turn
<1>2. log' \in Seq([user : Nat, revision : Nat]) /\ log' # <<>> /\ Now' = next
  BY LatestAppended DEF TypeOK, Turn
<1>3. calls' = calls /\ CallsBegun'
  BY DEF Turn, CallsBegun
<1>4. QED
  BY <1>1, <1>2, <1>3

(* A capture is an operation.                                              *)
LEMMA CaptureTypes ==
  ASSUME TypeOK, NEW by \in Call \cup {None}
  PROVE  Capture(by) \in Operation
BY LatestIs DEF TypeOK, Capture, Operation, Task, Action

(* The user, the transcript and the reviewers keep the types.              *)
LEMMA WorldStepTypes ==
  ASSUME CheckpointTypes, WorldStep
  PROVE  CheckpointTypes'
<1> USE DEF CheckpointTypes
<1>0. Now \in [user : Nat, revision : Nat]
  BY LatestIs DEF TypeOK
<1>1. CASE Watch
  <2>1. watched' = TRUE /\ UNCHANGED <<bound, log, contexts, findings, calls>>
    BY <1>1 DEF Watch
  <2>2. QED
    BY <2>1 DEF TypeOK, CallsBegun, contexts, memory, findings
<1>2. CASE UserMessage
  <2>1. [Now EXCEPT !.user = @ + 1] \in [user : Nat, revision : Nat] /\ Now.user + 1 \in Nat
    BY <1>0
  <2>2. /\ bound' \in Bound /\ log' \in Seq([user : Nat, revision : Nat]) /\ log' # <<>>
        /\ calls' = calls /\ CallsBegun'
    BY <1>2, <2>1, TurnTypes DEF UserMessage
  <2>3. users' \in Nat /\ states' \in Snapshot \cup {None}
    BY <1>2, <2>1, ToldTypes DEF UserMessage
  <2>4. UNCHANGED <<watched, findings, saved, queue, running, orphan, disk, unsure>>
    BY <1>2 DEF UserMessage, Turn
  <2>5. QED
    BY <2>2, <2>3, <2>4 DEF TypeOK, findings
<1>3. CASE Work
  <2>1. [Now EXCEPT !.revision = @ + 1] \in [user : Nat, revision : Nat]
    BY <1>0
  <2>2. /\ bound' \in Bound /\ log' \in Seq([user : Nat, revision : Nat]) /\ log' # <<>>
        /\ calls' = calls /\ CallsBegun'
    BY <1>3, <2>1, TurnTypes DEF Work
  <2>3. UNCHANGED <<watched, findings, contexts>>
    BY <1>3 DEF Work, Turn
  <2>4. QED
    BY <2>2, <2>3 DEF TypeOK, findings, contexts, memory
<1>4. CASE PassCaptures
  <2>1. bound' \in Bound
    BY <1>4, SpendKeepsBound DEF Counters, TypeOK, PassCaptures
  <2>2. queue' \in Seq(Operation)
    <3>1. Capture(None) \in Operation
      BY CaptureTypes
    <3>2. QED
      BY <1>4, <3>1 DEF PassCaptures, TypeOK
  <2>3. UNCHANGED <<log, watched, states, users, saved, running, orphan, disk, unsure, findings, calls>>
    BY <1>4 DEF PassCaptures
  <2>4. QED
    BY <2>1, <2>2, <2>3 DEF TypeOK, CallsBegun, findings
<1>5. ASSUME NEW u \in 1..Now.user, UserEvent(u) PROVE CheckpointTypes'
  <2>1. u \in Nat
    BY <1>0
  <2>2. users' \in Nat /\ states' \in Snapshot \cup {None}
    BY <1>5, <2>1, ToldTypes DEF UserEvent
  <2>3. UNCHANGED <<session, saved, queue, running, orphan, disk, unsure, findings, calls>>
    BY <1>5 DEF UserEvent
  <2>4. QED
    BY <2>2, <2>3 DEF TypeOK, CallsBegun, findings, session
<1>6. ASSUME NEW f \in Finding, RecordFinding(f) PROVE CheckpointTypes'
  <2>1. bound' \in Bound
    BY <1>6, SpendKeepsBound DEF Counters, TypeOK, RecordFinding
  <2>2. states \in Snapshot
    BY <1>6 DEF RecordFinding, TypeOK
  <2>3. [task |-> states.task, revision |-> states.revision, state |-> "open",
         version |-> 0, proof |-> None, opening |-> 1] \in Row
    BY <2>2 DEF Snapshot, Row
  <2>4. rows' \in [Finding -> Row \cup {None}]
        /\ reports' \in [Finding -> {"none", "present", "expired", "lost"}]
    BY <1>6, <2>3 DEF RecordFinding, TypeOK
  <2>5. UNCHANGED <<log, watched, contexts, calls>>
    BY <1>6 DEF RecordFinding
  <2>6. QED
    BY <2>1, <2>4, <2>5 DEF TypeOK, CallsBegun, contexts, memory
<1>7. ASSUME NEW f \in Finding, NEW how \in {"expired", "lost"}, LoseReport(f, how) PROVE CheckpointTypes'
  <2>1. bound' \in Bound
    BY <1>7, SpendKeepsBound DEF Counters, TypeOK, LoseReport
  <2>2. reports' \in [Finding -> {"none", "present", "expired", "lost"}]
    BY <1>7 DEF LoseReport, TypeOK
  <2>3. UNCHANGED <<log, watched, contexts, rows, calls>>
    BY <1>7 DEF LoseReport
  <2>4. QED
    BY <2>1, <2>2, <2>3 DEF TypeOK, CallsBegun, contexts, memory
<1>8. QED
  BY <1>1, <1>2, <1>3, <1>4, <1>5, <1>6, <1>7 DEF WorldStep

(* A session that is forgotten keeps the types.                            *)
LEMMA ForgetTypes ==
  ASSUME CheckpointTypes, Forget
  PROVE  CheckpointTypes'
<1> USE DEF CheckpointTypes
<1>1. bound' \in Bound
  BY SpendKeepsBound DEF Counters, TypeOK, Forget
<1>2. orphan' \in Operation \cup {None}
  BY DEF Forget, TypeOK
<1>3. PICK failing : calls' = [c \in Call |-> IF c \in failing THEN [calls[c] EXCEPT !.pc = "failed"] ELSE calls[c]]
  BY DEF Forget
<1>4. ASSUME NEW c \in Call PROVE calls'[c] \in Asked /\ Begun(calls'[c])
  <2>1. calls[c] \in Asked /\ Begun(calls[c])
    BY DEF TypeOK, CallsBegun
  <2>2. [calls[c] EXCEPT !.pc = "failed"] \in Asked /\ Begun([calls[c] EXCEPT !.pc = "failed"])
    <3>1. [calls[c] EXCEPT !.pc = "failed"] \in Asked
      BY <2>1 DEF Asked, Pc
    <3>2. [calls[c] EXCEPT !.pc = "failed"].pc = "failed"
      BY <2>1 DEF Asked
    <3>3. QED
      BY <3>1, <3>2 DEF Begun
  <2>3. QED
    BY <1>3, <2>1, <2>2
<1>5. calls' \in [Call -> Asked] /\ CallsBegun'
  BY <1>3, <1>4 DEF CallsBegun
<1>6. /\ watched' = FALSE /\ states' = None /\ users' = 0 /\ saved' = None /\ queue' = <<>> /\ running' = None
      /\ UNCHANGED <<log, disk, unsure, findings>>
  BY DEF Forget
<1>7. queue' \in Seq(Operation)
  BY <1>6
<1>8. QED
  BY <1>1, <1>2, <1>5, <1>6, <1>7 DEF TypeOK, findings

(* A tool call keeps the types.                                            *)
LEMMA CallStepTypes ==
  ASSUME CheckpointTypes, NEW c \in Call, CallStep(c)
  PROVE  CheckpointTypes'
<1> USE DEF CheckpointTypes
<1>0. calls \in [Call -> Asked] /\ calls[c] \in Asked /\ Begun(calls[c]) /\ queue \in Seq(Operation)
  BY DEF TypeOK, CallsBegun
<1>1. CASE HistoryRead(c)
  <2>1. calls' \in [Call -> Asked] /\ CallsBegun'
    BY <1>1, GoesKeepsBegun DEF HistoryRead, Pc
  <2>2. queue' \in Seq(Operation)
    BY <1>0, <1>1, CaptureTypes DEF HistoryRead
  <2>3. UNCHANGED <<session, states, users, saved, running, orphan, disk, unsure, findings>>
    BY <1>1 DEF HistoryRead
  <2>4. QED
    BY <2>1, <2>2, <2>3 DEF TypeOK, session, findings
<1>2. CASE Captured(c)
  <2>1. calls' \in [Call -> Asked] /\ CallsBegun'
    BY <1>2, GoesKeepsBegun DEF Captured, Pc
  <2>2. queue' \in Seq(Operation)
    <3>1. calls[c].request \in Request
      BY <1>0, <1>2 DEF Captured, Begun
    <3> DEFINE op == Capture(c)
    <3>2. op \in Operation
      BY CaptureTypes
    <3>a. calls[c].request.task \in Task /\ calls[c].request.action \in Action
      BY <3>1 DEF Request
    <3> HIDE DEF op
    <3>b. [op EXCEPT !.kind = "checkpoint", !.task = calls[c].request.task,
                     !.action = calls[c].request.action] \in Operation
      BY <3>2, <3>a DEF Operation
    <3>3. QED
      BY <1>0, <1>2, <3>b DEF Captured, op
  <2>3. UNCHANGED <<session, states, users, saved, running, orphan, disk, unsure, findings>>
    BY <1>2 DEF Captured
  <2>4. QED
    BY <2>1, <2>2, <2>3 DEF TypeOK, session, findings
<1>3. CASE RecordUpdates(c)
  <2> DEFINE table == Disposed(calls[c].request.updates, calls[c].seen, calls[c].context.revision)
  <2>1. calls[c].request \in Request /\ calls[c].context \in Snapshot
    BY <1>0, <1>3 DEF RecordUpdates, Begun
  <2>2. table \in [Finding -> Row \cup {None}] \cup {None}
    <3>1. calls[c].context.revision \in Nat
      BY <2>1 DEF Snapshot
    <3>2. QED
      BY <2>1, <3>1, DisposedTypes DEF TypeOK
  <2>3. \E pc \in {"unavailable", "failed", "listing"} : Goes(c, pc)
    BY <1>3 DEF RecordUpdates
  <2>4. calls' \in [Call -> Asked] /\ CallsBegun'
    BY <1>3, <2>3, GoesKeepsBegun DEF RecordUpdates, Pc
  <2>5. /\ bound' = bound \/ Spend("faults")
        /\ rows' = rows \/ (table # None /\ rows' = table)
    <3> HIDE DEF table
    <3>1. \/ ~watched /\ Goes(c, "unavailable") /\ UNCHANGED <<bound, rows>>
          \/ watched /\ table = None /\ Goes(c, "failed") /\ UNCHANGED <<bound, rows>>
          \/ watched /\ table # None /\ Goes(c, "listing") /\ rows' = table /\ UNCHANGED bound
          \/ watched /\ Spend("faults") /\ Goes(c, "failed")
             /\ rows' \in {rows} \cup (IF table = None THEN {} ELSE {table})
      BY <1>3 DEF RecordUpdates, table
    <3>2. QED
      BY <3>1
  <2>6. bound' \in Bound
    BY <2>5, SpendKeepsBound DEF Counters, TypeOK
  <2>7. rows' \in [Finding -> Row \cup {None}]
    BY <2>2, <2>5 DEF TypeOK
  <2>8. UNCHANGED <<log, watched, contexts, reports>>
    BY <1>3 DEF RecordUpdates
  <2>9. QED
    BY <2>4, <2>6, <2>7, <2>8 DEF TypeOK, contexts, memory
<1>4. CASE ListFindings(c)
  <2>1. calls' = [calls EXCEPT ![c].pc = "notes", ![c].all = rows]
        /\ UNCHANGED <<session, contexts, findings>> /\ calls[c].pc = "listing"
    BY <1>4 DEF ListFindings
  <2> DEFINE call == [calls[c] EXCEPT !.pc = "notes", !.all = rows]
  <2>2. call \in Asked /\ Begun(call)
    BY <1>0, <2>1 DEF Asked, Begun, Pc, TypeOK
  <2>3. calls' = [calls EXCEPT ![c] = call]
    BY <1>0, <2>1
  <2> HIDE DEF call
  <2>4. calls' \in [Call -> Asked] /\ CallsBegun'
    BY <1>0, <2>2, <2>3 DEF CallsBegun
  <2>5. QED
    BY <2>1, <2>4 DEF TypeOK, session, contexts, memory, findings
<1>5. CASE ReadNotes(c)
  <2> DEFINE report == Report(calls[c].all, calls[c].context, calls[c].request)
             pc == IF watched THEN "returned" ELSE "unavailable"
             call == [calls[c] EXCEPT !.pc = pc, !.report = report]
  <2>1. calls' = [calls EXCEPT ![c].pc = pc, ![c].report = report]
        /\ UNCHANGED <<session, contexts, findings>> /\ calls[c].pc = "notes"
    BY <1>5 DEF ReadNotes
  <2>2. report \in Answer
    BY <1>0, <2>1, ReportTypes DEF Begun
  <2> HIDE DEF report
  <2>3. call \in Asked /\ Begun(call)
    BY <1>0, <2>1, <2>2 DEF Asked, Begun, Pc
  <2>4. calls' = [calls EXCEPT ![c] = call]
    BY <1>0, <2>1
  <2> HIDE DEF call
  <2>5. calls' \in [Call -> Asked] /\ CallsBegun'
    BY <1>0, <2>3, <2>4 DEF CallsBegun
  <2>6. QED
    BY <2>1, <2>5 DEF TypeOK, session, contexts, memory, findings
<1>6. ASSUME NEW r \in bound.requests, NEW seen \in {Versions, [f \in Finding |-> 0]}, Execute(c, r, seen)
      PROVE  CheckpointTypes'
  <2> DEFINE call == [calls[c] EXCEPT !.pc = "reading", !.request = r, !.seen = seen, !.asked = Now.revision]
  <2>1. r \in Request
    BY DEF TypeOK, Bound
  <2>2. seen \in [Finding -> Nat]
    BY DEF Versions, TypeOK, Row
  <2>3. Now.revision \in Nat
    BY LatestIs DEF TypeOK
  <2>4. call \in Asked /\ Begun(call)
    BY <1>0, <2>1, <2>2, <2>3 DEF Asked, Begun, Pc
  <2>5. calls' = [calls EXCEPT ![c] = call]
    BY <1>0, <1>6 DEF Execute
  <2> HIDE DEF call
  <2>6. calls' \in [Call -> Asked] /\ CallsBegun'
    BY <1>0, <2>4, <2>5 DEF CallsBegun
  <2>7. bound' \in Bound
    BY <1>6, SpendKeepsBound DEF Counters, TypeOK, Execute
  <2>8. UNCHANGED <<log, watched, contexts, findings>>
    BY <1>6 DEF Execute
  <2>9. QED
    BY <2>6, <2>7, <2>8 DEF TypeOK, contexts, memory, findings
<1>7. QED
  BY <1>1, <1>2, <1>3, <1>4, <1>5, <1>6 DEF CallStep

-----------------------------------------------------------------------------
(* Prompts.                                                                *)

Types == CheckpointTypes /\ InjectionTypeOK

(* A blocker that was injected since it was added was injected in the turn *)
(* it saw last, and in at most one turn more than it has counted.          *)
Counted(blocker, turns) ==
  blocker # None =>
    IF blocker.lastAnchorSeen = 0 THEN turns = {}
    ELSE blocker.lastAnchorSeen \in turns /\ Cardinality(turns) <= blocker.turnsSeen + 1

InjectionsCounted ==
  \A f \in Finding :
    /\ IsFiniteSet(injected[f]) /\ Cardinality(injected[f]) <= NoteTtlTurns
    /\ Counted(blockers[f], injected[f])

(* There is a message of the user to anchor an injection at.               *)
Anchored == Now.user > 0 /\ (transform # None => transform.user > 0)

PromptInv == InjectionsCounted /\ Anchored /\ ForgottenInjectsNothing

(* The session only goes on.                                               *)
LEMMA SessionGoesOn ==
  ASSUME TypeOK, ContextStep \/ WorldStep \/ Forget \/ (\E c \in Call : CallStep(c))
  PROVE  /\ Now'.user >= Now.user /\ Now'.revision >= Now.revision
         /\ Now' \in [user : Nat, revision : Nat]
<1>0. Now \in [user : Nat, revision : Nat]
  BY LatestIs DEF TypeOK
<1>1. CASE log' = log
  <2>1. Now' = Now
    BY <1>1 DEF Now
  <2>2. QED
    BY <1>0, <2>1
<1>2. CASE UserMessage
  <2>1. [Now EXCEPT !.user = @ + 1] \in [user : Nat, revision : Nat]
    BY <1>0
  <2>2. Now' = [Now EXCEPT !.user = @ + 1]
    BY <1>2, <2>1, LatestAppended DEF UserMessage, Turn, TypeOK
  <2>3. QED
    BY <1>0, <2>2
<1>3. CASE Work
  <2>1. [Now EXCEPT !.revision = @ + 1] \in [user : Nat, revision : Nat]
    BY <1>0
  <2>2. Now' = [Now EXCEPT !.revision = @ + 1]
    BY <1>3, <2>1, LatestAppended DEF Work, Turn, TypeOK
  <2>3. QED
    BY <1>0, <2>2
<1>4. ContextStep => log' = log
  BY DEF ContextStep, Begin, Loaded, WriteReturns, OrphanReturns, session
<1>5. WorldStep => log' = log \/ UserMessage \/ Work
  BY DEF WorldStep, Watch, PassCaptures, UserEvent, RecordFinding, LoseReport, session
<1>6. Forget => log' = log
  BY DEF Forget
<1>7. ASSUME NEW c \in Call, CallStep(c) PROVE log' = log
  BY <1>7 DEF CallStep, HistoryRead, Captured, RecordUpdates, ListFindings, ReadNotes, Execute, session
<1>8. QED
  BY <1>1, <1>2, <1>3, <1>4, <1>5, <1>6, <1>7

(* A step of the prompts leaves the checkpoints alone.                     *)
LEMMA InjectionStepIs ==
  ASSUME TypeOK, InjectionStep
  PROVE  UNCHANGED <<log, watched, contexts, findings, calls>> /\ bound' \in Bound
<1>1. CASE Transform
  BY <1>1, SpendKeepsBound DEF Transform, TypeOK, Counters
<1>2. CASE Transformed
  BY <1>2 DEF Transformed, checkpointVars, session, TypeOK
<1>3. CASE MarkCompacting
  BY <1>3, SpendKeepsBound DEF MarkCompacting, TypeOK, Counters
<1>4. CASE Compacted
  BY <1>4 DEF Compacted, checkpointVars, session, TypeOK
<1>5. ASSUME NEW f \in Finding, Deliver(f)
      PROVE  UNCHANGED <<log, watched, contexts, findings, calls>> /\ bound' \in Bound
  BY <1>5, SpendKeepsBound DEF Deliver, TypeOK, Counters
<1>6. ASSUME NEW f \in Finding, DeliverDecides(f)
      PROVE  UNCHANGED <<log, watched, contexts, findings, calls>> /\ bound' \in Bound
  BY <1>6 DEF DeliverDecides, checkpointVars, session, TypeOK
<1>7. ASSUME NEW f \in Finding, CardShown(f)
      PROVE  UNCHANGED <<log, watched, contexts, findings, calls>> /\ bound' \in Bound
  BY <1>7, SpendKeepsBound DEF CardShown, TypeOK, Counters
<1>8. QED
  BY <1>1, <1>2, <1>3, <1>4, <1>5, <1>6, <1>7 DEF InjectionStep

(* A turn more, in a prompt of that turn.                                  *)
LEMMA InjectionCounts ==
  ASSUME NEW blocker \in Blocker, NEW turns, IsFiniteSet(turns), NEW user \in Nat, user > 0,
         Counted(blocker, turns), blocker # None
  PROVE  /\ IsFiniteSet(turns \cup {user}) /\ Seen(blocker, user) \in Blocker
         /\ Counted(Seen(blocker, user), turns \cup {user})
         /\ Cardinality(turns \cup {user}) <= Seen(blocker, user).turnsSeen + 1
<1>0. blocker.turnsSeen \in Nat /\ blocker.lastAnchorSeen \in Nat
  BY DEF Blocker
<1>1. IsFiniteSet(turns \cup {user}) /\ Cardinality(turns) \in Nat
  BY FS_AddElement, FS_CardinalityType
<1>2. /\ Seen(blocker, user) \in Blocker
      /\ Seen(blocker, user).lastAnchorSeen = user
      /\ Seen(blocker, user).turnsSeen = IF blocker.lastAnchorSeen \in {0, user} THEN blocker.turnsSeen
                                         ELSE blocker.turnsSeen + 1
  BY <1>0 DEF Seen, Blocker
<1>3. Cardinality(turns \cup {user}) <= Seen(blocker, user).turnsSeen + 1
  <2>1. CASE blocker.lastAnchorSeen = 0
    <3>1. turns = {}
      BY <2>1 DEF Counted
    <3>2. turns \cup {user} = {user}
      BY <3>1
    <3>3. Cardinality({user}) = 1
      BY FS_Singleton
    <3>4. QED
      BY <1>0, <1>2, <2>1, <3>2, <3>3
  <2>2. CASE blocker.lastAnchorSeen = user
    <3>1. turns \cup {user} = turns /\ Cardinality(turns) <= blocker.turnsSeen + 1
      BY <2>2 DEF Counted
    <3>2. QED
      BY <1>2, <2>2, <3>1
  <2>3. CASE blocker.lastAnchorSeen \notin {0, user}
    <3>1. Cardinality(turns) <= blocker.turnsSeen + 1
      BY <2>3 DEF Counted
    <3>2. Cardinality(turns \cup {user}) <= Cardinality(turns) + 1
      BY <1>1, FS_AddElement
    <3>3. Cardinality(turns \cup {user}) \in Nat
      BY <1>1, FS_CardinalityType
    <3>4. QED
      BY <1>0, <1>1, <1>2, <2>3, <3>1, <3>2, <3>3
  <2>4. QED
    BY <2>1, <2>2, <2>3
<1>4. QED
  BY <1>1, <1>2, <1>3 DEF Counted

(* What a prompt does to each finding: at most it is injected once more,   *)
(* if it was assessed as eligible and has turns left.                      *)
LEMMA InjectIs ==
  ASSUME Inject, NEW f \in Finding
  PROVE  \/ blockers'[f] \in {None, blockers[f]} /\ injected'[f] = injected[f]
         \/ /\ f \in transform.assessed /\ watched /\ Eligible(f, transform.rows[f])
            /\ blockers[f] # None /\ Seen(blockers[f], transform.user).turnsSeen < NoteTtlTurns
            /\ blockers'[f] = Seen(blockers[f], transform.user)
            /\ injected'[f] = injected[f] \cup {transform.user}
<1> DEFINE withdrawn == {g \in transform.assessed : ~Eligible(g, transform.rows[g])}
           left == [g \in Finding |-> IF g \in withdrawn THEN None ELSE blockers[g]]
           now  == IF watched /\ ~compacting THEN Injections(left) ELSE {}
           kept == IF watched /\ ~compacting THEN now \cup (Finding \ transform.assessed) ELSE Finding
<1>1. /\ blockers' = [g \in Finding |->
                       IF g \notin kept \/ left[g] = None THEN None
                       ELSE IF g \in now THEN Seen(left[g], transform.user) ELSE left[g]]
      /\ injected' = [g \in Finding |-> IF g \in now THEN injected[g] \cup {transform.user} ELSE injected[g]]
  BY DEF Inject
<1>2. left[f] \in {None, blockers[f]} /\ (left[f] # None => f \notin withdrawn /\ left[f] = blockers[f])
  OBVIOUS
<1>3. f \in now => /\ watched /\ f \in transform.assessed /\ left[f] # None
                   /\ Seen(left[f], transform.user).turnsSeen < NoteTtlTurns
  BY DEF Injections
<1>4. f \in transform.assessed /\ f \notin withdrawn => Eligible(f, transform.rows[f])
  OBVIOUS
<1> HIDE DEF now, kept, left, withdrawn
<1>5. CASE f \in now
  <2>1. f \in kept
    BY <1>3, <1>5 DEF kept, now
  <2>2. blockers'[f] = Seen(left[f], transform.user) /\ injected'[f] = injected[f] \cup {transform.user}
    BY <1>1, <1>3, <1>5, <2>1
  <2>3. QED
    BY <1>2, <1>3, <1>4, <1>5, <2>2
<1>6. CASE f \notin now
  BY <1>1, <1>2, <1>6
<1>7. QED
  BY <1>5, <1>6

(* Injection leaves pending blockers and turns where there were some.      *)
LEMMA InjectTypes ==
  ASSUME InjectionTypeOK, transform # None, Inject
  PROVE  blockers' \in [Finding -> Blocker \cup {None}] /\ injected' \in [Finding -> SUBSET Nat]
<1>0. transform.user \in Nat
  BY DEF InjectionTypeOK, Prompt
<1>1. ASSUME NEW f \in Finding
      PROVE  blockers'[f] \in Blocker \cup {None} /\ injected'[f] \in SUBSET Nat
  <2>1. blockers[f] \in Blocker \cup {None} /\ injected[f] \in SUBSET Nat
    BY DEF InjectionTypeOK
  <2>2. blockers[f] \in Blocker => Seen(blockers[f], transform.user) \in Blocker
    BY <1>0 DEF Seen, Blocker
  <2>3. QED
    BY <1>0, <2>1, <2>2, InjectIs
<1>2. blockers' = [f \in Finding |-> blockers'[f]] /\ injected' = [f \in Finding |-> injected'[f]]
  BY DEF Inject
<1>3. QED
  BY <1>1, <1>2

(* The path of advice to a prompt keeps the types.                         *)
LEMMA InjectionStepTypes ==
  ASSUME Types, InjectionStep
  PROVE  Types'
<1> USE DEF Types
<1>0. CheckpointTypes'
  BY InjectionStepIs DEF CheckpointTypes, TypeOK, CallsBegun, contexts, memory, findings
<1>1. CASE Transform
  <2>1. Now.user \in Nat
    BY LatestIs DEF CheckpointTypes, TypeOK
  <2> DEFINE assessed == {f \in Finding : blockers[f] # None}
             read == [f \in Finding |-> IF f \in assessed THEN rows[f] ELSE None]
  <2>2. read \in [Finding -> Row \cup {None}] /\ assessed \in SUBSET Finding
    BY DEF CheckpointTypes, TypeOK
  <2>3. transform' = [assessed |-> assessed, user |-> Now.user, rows |-> read]
    BY <1>1 DEF Transform
  <2> HIDE DEF assessed, read
  <2>4. transform' \in Prompt
    BY <2>1, <2>2, <2>3 DEF Prompt
  <2>5. UNCHANGED <<delivering, carded, pending, injected>>
    BY <1>1 DEF Transform
  <2>6. QED
    BY <1>0, <2>4, <2>5 DEF InjectionTypeOK, pending
<1>2. CASE Transformed
  <2>1. blockers' \in [Finding -> Blocker \cup {None}] /\ injected' \in [Finding -> SUBSET Nat]
    BY <1>2, InjectTypes DEF Transformed
  <2>2. transform' = None /\ UNCHANGED <<delivering, carded, compacting>>
    BY <1>2 DEF Transformed
  <2>3. QED
    BY <1>0, <2>1, <2>2 DEF InjectionTypeOK
<1>3. CASE MarkCompacting
  BY <1>0, <1>3 DEF MarkCompacting, InjectionTypeOK
<1>4. CASE Compacted
  BY <1>0, <1>4 DEF Compacted, ClearSession, InjectionTypeOK
<1>5. ASSUME NEW f \in Finding, Deliver(f) PROVE Types'
  <2>1. rows[f] \in Row \cup {None}
    BY DEF CheckpointTypes, TypeOK
  <2>2. [state |-> "reading", row |-> rows[f]] \in [state : {"new", "reading", "done"}, row : Row \cup {None}]
        /\ [state |-> "done", row |-> None] \in [state : {"new", "reading", "done"}, row : Row \cup {None}]
    BY <2>1
  <2>3. delivering' \in [Finding -> [state : {"new", "reading", "done"}, row : Row \cup {None}]]
    BY <1>5, <2>2 DEF Deliver, InjectionTypeOK
  <2>4. UNCHANGED <<carded, pending, transform, injected>>
    BY <1>5 DEF Deliver
  <2>5. QED
    BY <1>0, <2>3, <2>4 DEF InjectionTypeOK, pending
<1>6. ASSUME NEW f \in Finding, DeliverDecides(f) PROVE Types'
  <2>1. [state |-> "done", row |-> None] \in [state : {"new", "reading", "done"}, row : Row \cup {None}]
        /\ [turnsSeen |-> 0, lastAnchorSeen |-> 0] \in Blocker
    BY DEF Blocker
  <2>2. delivering' \in [Finding -> [state : {"new", "reading", "done"}, row : Row \cup {None}]]
    BY <1>6, <2>1 DEF DeliverDecides, InjectionTypeOK
  <2>3. blockers' \in [Finding -> Blocker \cup {None}] /\ injected' \in [Finding -> SUBSET Nat]
    BY <1>6, <2>1 DEF DeliverDecides, InjectionTypeOK
  <2>4. UNCHANGED <<carded, compacting, transform>>
    BY <1>6 DEF DeliverDecides
  <2>5. QED
    BY <1>0, <2>2, <2>3, <2>4 DEF InjectionTypeOK
<1>7. ASSUME NEW f \in Finding, CardShown(f) PROVE Types'
  <2>1. rows[f].opening \in Nat
    BY <1>7 DEF CardShown, CheckpointTypes, TypeOK, Row
  <2>2. carded' \in [Finding -> Nat]
    BY <1>7, <2>1 DEF CardShown, InjectionTypeOK
  <2>3. UNCHANGED <<delivering, pending, transform, injected>>
    BY <1>7 DEF CardShown
  <2>4. QED
    BY <1>0, <2>2, <2>3 DEF InjectionTypeOK, pending
<1>8. QED
  BY <1>1, <1>2, <1>3, <1>4, <1>5, <1>6, <1>7 DEF InjectionStep

(* A step of the checkpoints does no more to the prompts than to clear     *)
(* them.                                                                   *)
LEMMA CheckpointStepIs ==
  ASSUME Next
  PROVE  \/ InjectionStep
         \/ /\ ContextStep \/ WorldStep \/ Forget \/ (\E c \in Call : CallStep(c))
            /\ ClearSession \/ UNCHANGED pending
            /\ Forget => ClearSession
            /\ UNCHANGED <<delivering, carded, transform, injected>>
<1>1. CASE ForgetInjection
  BY <1>1 DEF ForgetInjection
<1>2. CASE ContextStep /\ UNCHANGED injection
  <2>1. ~Forget \/ ClearSession
    BY <1>2 DEF ContextStep, Begin, Loaded, WriteReturns, OrphanReturns, session, Forget
  <2>2. QED
    BY <1>2, <2>1 DEF injection
<1>3. CASE WorldStep /\ UNCHANGED injection
  <2>1. ~Forget
    BY <1>3 DEF WorldStep, Watch, UserMessage, Work, Turn, PassCaptures, UserEvent, RecordFinding, LoseReport,
                session, Forget
  <2>2. QED
    BY <1>3, <2>1 DEF injection
<1>4. ASSUME NEW c \in Call, CallStep(c), IF Cleared(c) THEN ClearSession ELSE UNCHANGED pending,
             UNCHANGED <<delivering, carded, transform, injected>>
      PROVE  \/ /\ ContextStep \/ WorldStep \/ Forget \/ (\E d \in Call : CallStep(d))
                /\ ClearSession \/ UNCHANGED pending
                /\ Forget => ClearSession
                /\ UNCHANGED <<delivering, carded, transform, injected>>
  <2>1. ~Forget
    BY <1>4 DEF CallStep, HistoryRead, Captured, RecordUpdates, ListFindings, ReadNotes, Execute, session, Forget
  <2>2. QED
    BY <1>4, <2>1
<1>5. QED
  BY <1>1, <1>2, <1>3, <1>4 DEF Next

(* Every step keeps the types.                                             *)
LEMMA TypesKept ==
  ASSUME Types, [Next]_vars
  PROVE  Types'
<1>1. CASE InjectionStep
  BY <1>1, InjectionStepTypes
<1>2. CASE /\ ContextStep \/ WorldStep \/ Forget \/ (\E c \in Call : CallStep(c))
           /\ ClearSession \/ UNCHANGED pending
           /\ UNCHANGED <<delivering, carded, transform, injected>>
  <2>1. CheckpointTypes'
    BY <1>2, ContextStepTypes, WorldStepTypes, ForgetTypes, CallStepTypes DEF Types
  <2>2. InjectionTypeOK'
    BY <1>2 DEF Types, InjectionTypeOK, ClearSession, pending
  <2>3. QED
    BY <2>1, <2>2 DEF Types
<1>3. CASE UNCHANGED vars
  BY <1>3 DEF Types, CheckpointTypes, TypeOK, CallsBegun, InjectionTypeOK, vars, checkpointVars, session,
              contexts, memory, findings, injection, pending
<1>4. QED
  BY <1>1, <1>2, <1>3, CheckpointStepIs

(* Every step keeps what is said of the pending advice.                    *)
LEMMA PromptInvKept ==
  ASSUME Types, PromptInv, [Next]_vars
  PROVE  PromptInv'
<1> USE DEF PromptInv
<1>0. /\ TypeOK /\ InjectionTypeOK /\ Now \in [user : Nat, revision : Nat]
      /\ \A f \in Finding : /\ IsFiniteSet(injected[f]) /\ Cardinality(injected[f]) <= NoteTtlTurns
                            /\ Counted(blockers[f], injected[f])
  BY LatestIs DEF Types, CheckpointTypes, TypeOK, InjectionsCounted
<1>c. \A turns : Counted(None, turns)
  BY DEF Counted
<1>1. CASE InjectionStep
  <2>0. Now' = Now /\ watched' = watched
    BY <1>0, <1>1, InjectionStepIs DEF Now
  <2>1. CASE Transform
    <3>1. transform'.user = Now.user /\ UNCHANGED <<blockers, injected>>
      BY <2>1 DEF Transform, pending
    <3>2. QED
      BY <1>0, <2>0, <3>1 DEF InjectionsCounted, Anchored, ForgottenInjectsNothing
  <2>2. CASE Transformed
    <3>0. transform # None /\ transform \in Prompt /\ transform' = None /\ Inject
      BY <1>0, <2>2 DEF Transformed, InjectionTypeOK
    <3>1. ASSUME NEW f \in Finding
          PROVE  /\ IsFiniteSet(injected'[f]) /\ Cardinality(injected'[f]) <= NoteTtlTurns
                 /\ Counted(blockers'[f], injected'[f])
                 /\ ~watched => blockers'[f] = None
      <4>1. CASE blockers'[f] \in {None, blockers[f]} /\ injected'[f] = injected[f]
        BY <1>0, <1>c, <4>1 DEF ForgottenInjectsNothing
      <4>2. CASE /\ watched /\ blockers[f] # None
                 /\ Seen(blockers[f], transform.user).turnsSeen < NoteTtlTurns
                 /\ blockers'[f] = Seen(blockers[f], transform.user)
                 /\ injected'[f] = injected[f] \cup {transform.user}
        <5>1. blockers[f] \in Blocker /\ transform.user \in Nat /\ transform.user > 0
          BY <1>0, <3>0, <4>2 DEF InjectionTypeOK, Prompt, Anchored
        <5>2. /\ IsFiniteSet(injected'[f]) /\ Seen(blockers[f], transform.user) \in Blocker
              /\ Counted(blockers'[f], injected'[f])
              /\ Cardinality(injected'[f]) <= Seen(blockers[f], transform.user).turnsSeen + 1
          BY <1>0, <4>2, <5>1, InjectionCounts
        <5>3. Cardinality(injected'[f]) \in Nat /\ Seen(blockers[f], transform.user).turnsSeen \in Nat
          BY <5>2, FS_CardinalityType DEF Blocker
        <5>4. QED
          BY <4>2, <5>2, <5>3, TtlAssumption
      <4>3. QED
        BY <3>0, <4>1, <4>2, InjectIs
    <3>2. QED
      BY <2>0, <3>0, <3>1 DEF InjectionsCounted, Anchored, ForgottenInjectsNothing
  <2>3. CASE MarkCompacting
    BY <1>0, <2>0, <2>3 DEF MarkCompacting, InjectionsCounted, Anchored, ForgottenInjectsNothing
  <2>4. CASE Compacted
    <3>1. UNCHANGED <<transform, injected>> /\ \A f \in Finding : blockers'[f] = None
      BY <2>4 DEF Compacted, ClearSession
    <3>2. QED
      BY <1>0, <1>c, <2>0, <3>1 DEF InjectionsCounted, Anchored, ForgottenInjectsNothing
  <2>5. ASSUME NEW f \in Finding, Deliver(f) PROVE PromptInv'
    BY <1>0, <2>0, <2>5 DEF Deliver, pending, InjectionsCounted, Anchored, ForgottenInjectsNothing
  <2>6. ASSUME NEW f \in Finding, DeliverDecides(f) PROVE PromptInv'
    <3>1. ASSUME NEW g \in Finding
          PROVE  /\ IsFiniteSet(injected'[g]) /\ Cardinality(injected'[g]) <= NoteTtlTurns
                 /\ Counted(blockers'[g], injected'[g])
                 /\ ~watched => blockers'[g] = None
      <4>1. CASE blockers'[g] = blockers[g] /\ injected'[g] = injected[g]
        BY <1>0, <4>1 DEF ForgottenInjectsNothing
      <4>2. CASE watched /\ blockers'[g] = [turnsSeen |-> 0, lastAnchorSeen |-> 0] /\ injected'[g] = {}
        BY <4>2, FS_EmptySet, TtlAssumption DEF Counted
      <4>3. (blockers'[g] = blockers[g] /\ injected'[g] = injected[g])
            \/ (watched /\ blockers'[g] = [turnsSeen |-> 0, lastAnchorSeen |-> 0] /\ injected'[g] = {})
        BY <1>0, <2>6 DEF DeliverDecides, InjectionTypeOK
      <4>4. QED
        BY <4>1, <4>2, <4>3
    <3>2. transform' = transform
      BY <2>6 DEF DeliverDecides
    <3>3. QED
      BY <2>0, <3>1, <3>2 DEF InjectionsCounted, Anchored, ForgottenInjectsNothing
  <2>7. ASSUME NEW f \in Finding, CardShown(f) PROVE PromptInv'
    BY <1>0, <2>0, <2>7 DEF CardShown, pending, InjectionsCounted, Anchored, ForgottenInjectsNothing
  <2>8. QED
    BY <1>1, <2>1, <2>2, <2>3, <2>4, <2>5, <2>6, <2>7 DEF InjectionStep
<1>2. CASE /\ ContextStep \/ WorldStep \/ Forget \/ (\E c \in Call : CallStep(c))
           /\ ClearSession \/ UNCHANGED pending
           /\ Forget => ClearSession
           /\ UNCHANGED <<delivering, carded, transform, injected>>
  <2>1. Now'.user >= Now.user /\ Now' \in [user : Nat, revision : Nat]
    BY <1>0, <1>2, SessionGoesOn
  <2>2. Anchored'
    BY <1>0, <1>2, <2>1 DEF Anchored
  <2>3. \A f \in Finding : blockers'[f] \in {blockers[f], None}
    BY <1>2 DEF ClearSession, pending
  <2>4. InjectionsCounted'
    BY <1>0, <1>c, <1>2, <2>3 DEF InjectionsCounted
  <2>5. ForgottenInjectsNothing'
    <3>1. CASE Forget
      BY <1>2, <3>1 DEF ForgottenInjectsNothing, ClearSession
    <3>2. CASE ~Forget
      <4>1. ~watched' => ~watched
        BY <1>2, <3>2 DEF ContextStep, Begin, Loaded, WriteReturns, OrphanReturns, WorldStep, Watch, UserMessage, Work,
           Turn, PassCaptures, UserEvent, RecordFinding, LoseReport, CallStep, HistoryRead, Captured,
           RecordUpdates, ListFindings, ReadNotes, Execute, session
      <4>2. QED
        BY <2>3, <4>1 DEF ForgottenInjectsNothing
    <3>3. QED
      BY <3>1, <3>2
  <2>6. QED
    BY <2>2, <2>4, <2>5
<1>3. CASE UNCHANGED vars
  BY <1>0, <1>3 DEF InjectionsCounted, Anchored, ForgottenInjectsNothing, Now, vars, checkpointVars, session,
              injection, pending
<1>4. QED
  BY <1>1, <1>2, <1>3, CheckpointStepIs

(* Both hold at the beginning.                                             *)
LEMMA InitTypes ==
  ASSUME Init
  PROVE  Types /\ PromptInv
<1>1. log = <<[user |-> 1, revision |-> 1]>> /\ Now = [user |-> 1, revision |-> 1]
  BY DEF Init, CheckpointInit, Now
<1>2. log \in Seq([user : Nat, revision : Nat]) /\ log # <<>> /\ queue \in Seq(Operation)
  BY <1>1 DEF Init, CheckpointInit
<1>3. NewCall \in Asked /\ Begun(NewCall)
  BY DEF NewCall, Asked, Pc, Begun
<1>4. bound \in Bound
  BY CheckpointAssumption DEF Init, CheckpointInit
<1>5. CheckpointTypes
  BY <1>2, <1>3, <1>4 DEF CheckpointTypes, TypeOK, CallsBegun, Init, CheckpointInit
<1>6. InjectionTypeOK
  BY DEF InjectionTypeOK, Init
<1>7. PromptInv
  BY <1>1, FS_EmptySet, TtlAssumption DEF PromptInv, InjectionsCounted, Anchored, ForgottenInjectsNothing, Counted,
     Init
<1>8. QED
  BY <1>5, <1>6, <1>7 DEF Types

(* Both hold throughout.                                                   *)
LEMMA PromptsInductive == Spec => [](Types /\ PromptInv)
<1>1. Init => Types /\ PromptInv
  BY InitTypes
<1>2. (Types /\ PromptInv) /\ [Next]_vars => (Types /\ PromptInv)'
  BY TypesKept, PromptInvKept
<1>3. QED
  BY <1>1, <1>2, PTL DEF Spec

(* A finding is put into the prompts of at most noteTtlTurns turns of the  *)
(* user, however many prompts a turn has, whatever is read, delivered or   *)
(* compacted meanwhile (transform.ts: each turn in which it was injected,  *)
(* but the current one, is counted in the blocker).                        *)
THEOREM InjectedForItsTurnsAlways == Spec => []InjectedForItsTurns
<1>1. PromptInv => InjectedForItsTurns
  BY DEF PromptInv, InjectionsCounted, InjectedForItsTurns
<1>2. QED
  BY <1>1, PromptsInductive, PTL

(* What a prompt carries was assessed for it: open and without a card as   *)
(* the transform read it, and of the task that is under way when the       *)
(* prompt is finished (cards.ts: messagesTransform).                       *)
THEOREM OnlyAssessedIsInjected == Spec => InjectedIsAssessed
<1> DEFINE Assessed(f) ==
             /\ transform.rows[f] # None /\ transform.rows[f].state = "open"
             /\ carded[f] # transform.rows[f].opening
             /\ states # None => ~states.stopped /\ transform.rows[f].task = states.task
<1>1. ASSUME Types, [Next]_vars, NEW f \in Finding, injected'[f] \ injected[f] # {}
      PROVE  Assessed(f)
  <2>1. CASE Transformed
    <3>1. Eligible(f, transform.rows[f])
      BY <1>1, <2>1, InjectIs DEF Transformed
    <3>2. QED
      BY <3>1 DEF Eligible
  <2>2. CASE UNCHANGED injected
    BY <1>1, <2>2
  <2>3. ASSUME NEW g \in Finding, DeliverDecides(g) PROVE FALSE
    BY <1>1, <2>3 DEF DeliverDecides, Types, InjectionTypeOK
  <2>4. QED
    BY <1>1, <2>1, <2>2, <2>3, CheckpointStepIs DEF InjectionStep, Transform, MarkCompacting, Compacted, Deliver,
       CardShown, vars, injection
<1>2. Types /\ [Next]_vars =>
        [\A f \in Finding : injected'[f] \ injected[f] # {} => Assessed(f)]_vars
  BY <1>1
<1> HIDE DEF Assessed
<1>3. Spec => [][\A f \in Finding : injected'[f] \ injected[f] # {} => Assessed(f)]_vars
  BY <1>2, PromptsInductive, PTL DEF Spec
<1>4. QED
  BY <1>3 DEF InjectedIsAssessed, Assessed

-----------------------------------------------------------------------------
(* The context in memory and on disk.                                      *)

Before == {"unused", "reading", "capturing", "captured"}

(* A call that has set the task going again.                               *)
Freed(all) == \E c \in Call : all[c].pc \notin Before /\ all[c].request.task \in {"resume", "replace"}

(* An operation saw the session as it was after its call was made, and a   *)
(* call waits for it.                                                      *)
Fits(op, all, revision) ==
  /\ op.kind = "checkpoint" => op.by # None
  /\ op.seen.revision <= revision
  /\ op.by # None =>
       /\ all[op.by].pc = IF op.kind = "capture" THEN "capturing" ELSE "checkpointing"
       /\ all[op.by].asked <= op.seen.revision
       /\ op.kind = "checkpoint" => op.task = all[op.by].request.task

(* It saw no less than a context was made from.                            *)
Ahead(op, context) == context # None => context.revision <= op.seen.revision

(* What it wrote, if that is known, is on disk or was overwritten there.   *)
Stored(op, row, all) ==
  op.value # None =>
    /\ row # None /\ op.value.revision <= row.revision
    /\ op.by # None => all[op.by].asked <= op.value.revision

(* No call waits for two operations.                                       *)
Apart(a, b) == a.by = b.by => a.by = None

InOrder(a, b) == a.seen.revision <= b.seen.revision /\ Apart(a, b)

QueueOk ==
  /\ \A i \in 1..Len(queue) :
       Fits(queue[i], calls, Now.revision) /\ Ahead(queue[i], disk) /\ Ahead(queue[i], states)
  /\ \A i, j \in 1..Len(queue) : i < j => InOrder(queue[i], queue[j])

RunningOk ==
  running # None =>
    /\ Fits(running, calls, Now.revision)
    /\ \A i \in 1..Len(queue) : InOrder(running, queue[i])
    /\ running.phase = "loading" => states = None /\ running.value = disk /\ Ahead(running, disk)
    /\ running.phase # "loading" =>
         /\ running.phase = "saving" /\ states # None /\ Stored(running, disk, calls)
         /\ unsure <=> running.value = None
         /\ ~unsure => disk = running.value

OrphanOk ==
  orphan # None =>
    /\ Fits(orphan, calls, Now.revision) /\ Stored(orphan, disk, calls)
    /\ \A i \in 1..Len(queue) : Apart(orphan, queue[i])
    /\ running # None => Apart(orphan, running)

SavedOk ==
  /\ saved # None => states # None /\ disk # None /\ saved.revision <= disk.revision
  /\ ~unsure /\ saved # None /\ (running # None => running.phase = "loading") => saved = disk

Agrees(row, context) ==
  /\ row # None /\ row.task = context.task /\ row.revision = context.revision
  /\ row.stopped = context.stopped
  /\ row.user = context.user => context.action \in {row.action, None}

DiskOk ==
  /\ disk # None => disk.revision <= Now.revision
  /\ states # None => states.revision <= Now.revision
  /\ states # None /\ disk # None => disk.revision <= states.revision
  /\ states # None /\ disk # None => (disk.stopped /\ ~states.stopped => Freed(calls))
  /\ states # None /\ ~unsure => Agrees(disk, states)

(* What a call was told is no older than what it saw when it was made.     *)
CallOk(call, row, revision) ==
  /\ call.pc # "unused" => call.asked <= revision
  /\ call.pc \in {"captured", "checkpointing"} => row # None /\ call.asked <= row.revision
  /\ call.pc \in {"recording", "listing", "notes", "returned"} => call.asked <= call.context.revision

CallsOk == \A c \in Call : CallOk(calls[c], disk, Now.revision)

ContextInv == QueueOk /\ RunningOk /\ OrphanOk /\ SavedOk /\ DiskOk /\ CallsOk

(* What fits the calls and the session keeps to fit when its call waits on *)
(* and the session goes on.                                                *)
LEMMA FitsStays ==
  ASSUME NEW op \in Operation, NEW all, NEW after, NEW r \in Nat, NEW s \in Nat, Fits(op, all, r), r <= s,
         op.by # None => after[op.by] = all[op.by]
  PROVE  Fits(op, after, s)
<1>1. op.seen.revision \in Nat
  BY DEF Operation
<1>2. QED
  BY <1>1 DEF Fits

(* What is said of a call stays when the stored context goes forward.      *)
LEMMA CallStays ==
  ASSUME NEW call \in Asked, NEW row \in Snapshot \cup {None}, NEW next \in Snapshot \cup {None},
         NEW r \in Nat, NEW s \in Nat, CallOk(call, row, r), r <= s,
         row # None => next # None /\ row.revision <= next.revision
  PROVE  CallOk(call, next, s)
<1>1. call.asked \in Nat /\ (row # None => row.revision \in Nat /\ next.revision \in Nat)
  BY DEF Asked, Snapshot
<1>2. QED
  BY <1>1 DEF CallOk

(* What a write stored stays stored, or is overwritten by a later          *)
(* revision.                                                               *)
LEMMA StoredStays ==
  ASSUME NEW op \in Operation, NEW row \in Snapshot \cup {None}, NEW next \in Snapshot \cup {None},
         NEW all, NEW after, Stored(op, row, all),
         row # None => next # None /\ row.revision <= next.revision,
         op.by # None => after[op.by] = all[op.by]
  PROVE  Stored(op, next, after)
<1>1. /\ op.value # None => op.value.revision \in Nat
      /\ row # None => row.revision \in Nat /\ next.revision \in Nat
  BY DEF Operation, Snapshot
<1>2. QED
  BY <1>1 DEF Stored

(* What a message of the user leaves of the context in memory.             *)
Alike(context, next) ==
  /\ next = None <=> context = None
  /\ context # None =>
       /\ next.task = context.task /\ next.revision = context.revision /\ next.stopped = context.stopped
       /\ next.action = None \/ (next.action = context.action /\ next.user = context.user)

(* A step that leaves the contexts and the calls alone keeps what is said  *)
(* of them; the session may go on, and the user may send a message.        *)
LEMMA ContextInvStays ==
  ASSUME TypeOK, ContextInv, Now'.revision >= Now.revision, Now'.revision \in Nat, Alike(states, states'),
         UNCHANGED <<saved, queue, running, orphan, disk, unsure, calls>>
  PROVE  ContextInv'
<1>0. Now.revision \in Nat /\ calls \in [Call -> Asked] /\ Now.revision <= Now'.revision
  BY LatestIs DEF TypeOK
<1>1. QueueOk'
  <2>1. ASSUME NEW i \in 1..Len(queue) PROVE Fits(queue[i], calls, Now'.revision)
    <3>1. queue[i] \in Operation /\ Fits(queue[i], calls, Now.revision)
      BY DEF TypeOK, ContextInv, QueueOk
    <3>2. QED
      BY <1>0, <3>1, FitsStays
  <2>2. QED
    BY <2>1 DEF ContextInv, QueueOk, Ahead, Alike
<1>2. RunningOk'
  <2>1. running # None => Fits(running, calls, Now'.revision)
    BY <1>0, FitsStays DEF TypeOK, ContextInv, RunningOk
  <2>2. QED
    BY <2>1 DEF ContextInv, RunningOk, Alike
<1>3. OrphanOk'
  <2>1. orphan # None => Fits(orphan, calls, Now'.revision)
    BY <1>0, FitsStays DEF TypeOK, ContextInv, OrphanOk
  <2>2. QED
    BY <2>1 DEF ContextInv, OrphanOk
<1>4. SavedOk'
  BY DEF ContextInv, SavedOk, Alike
<1>5. DiskOk'
  <2>1. (disk # None => disk.revision \in Nat) /\ (states # None => states.revision \in Nat)
    BY DEF TypeOK, Snapshot
  <2>2. QED
    BY <1>0, <2>1 DEF ContextInv, DiskOk, Agrees, Alike
<1>6. CallsOk'
  <2>1. ASSUME NEW c \in Call PROVE CallOk(calls[c], disk, Now'.revision)
    <3>1. calls[c] \in Asked /\ CallOk(calls[c], disk, Now.revision) /\ disk \in Snapshot \cup {None}
      BY DEF TypeOK, ContextInv, CallsOk
    <3>2. disk # None => disk.revision <= disk.revision
      BY <3>1 DEF Snapshot
    <3>3. QED
      BY <1>0, <3>1, <3>2, CallStays
  <2>2. QED
    BY <2>1 DEF CallsOk
<1>7. QED
  BY <1>1, <1>2, <1>3, <1>4, <1>5, <1>6 DEF ContextInv

(* What an operation makes of the context it found.                        *)
LEMMA NextSnapshotIs ==
  ASSUME TypeOK, NEW op \in Operation, NEW loaded \in Snapshot \cup {None}
  PROVE  LET current == NextSnapshot(op, loaded)
         IN /\ current \in Snapshot
            /\ op.kind = "capture" =>
                 /\ current.revision = op.seen.revision
                 /\ current.stopped = IF loaded # None THEN loaded.stopped ELSE FALSE
            /\ op.kind # "capture" =>
                 /\ current.revision = IF loaded # None THEN loaded.revision ELSE 0
                 /\ current.stopped = IF op.task = "continue" THEN IF loaded # None THEN loaded.stopped ELSE FALSE
                                      ELSE op.task = "stop"
<1>0. NextSnapshot(op, loaded) \in Snapshot
  BY SnapshotTypes
<1> DEFINE state == Base(op, loaded)
           user == IF users # 0 THEN users ELSE IF op.kind = "capture" THEN op.seen.user ELSE state.user
<1>1. state.revision = (IF loaded # None THEN loaded.revision ELSE 0)
      /\ state.stopped = (IF loaded # None THEN loaded.stopped ELSE FALSE)
  BY DEF Base
<1>2. state \in Snapshot
  <2>0. users \in Nat /\ log[1].user \in Nat
    BY FirstIs
  <2>1. QED
    BY <2>0 DEF Base, Snapshot, Action
<1>3. op.kind = "capture" => NextSnapshot(op, loaded) =
        [state EXCEPT !.revision = op.seen.revision, !.user = user,
                      !.action = IF user = state.user THEN @ ELSE None]
  BY DEF NextSnapshot
<1>4. op.kind # "capture" => NextSnapshot(op, loaded) =
        [task |-> IF op.task = "replace" THEN user ELSE state.task, revision |-> state.revision,
         stopped |-> IF op.task = "continue" THEN state.stopped ELSE op.task = "stop",
         user |-> user, action |-> op.action]
  BY DEF NextSnapshot
<1> HIDE DEF state, user
<1>5. op.kind = "capture" =>
        /\ NextSnapshot(op, loaded).revision = op.seen.revision
        /\ NextSnapshot(op, loaded).stopped = state.stopped
  BY <1>2, <1>3 DEF Snapshot
<1>6. op.kind # "capture" =>
        /\ NextSnapshot(op, loaded).revision = state.revision
        /\ NextSnapshot(op, loaded).stopped = IF op.task = "continue" THEN state.stopped ELSE op.task = "stop"
  BY <1>4
<1>7. QED
  BY <1>0, <1>1, <1>5, <1>6

(* What an operation relies on when it saves: it is the first that saves,  *)
(* and loaded and memo are what memory or the disk has.                    *)
Saves(op, loaded, memo) ==
  /\ Fits(op, calls, Now.revision)
  /\ orphan # None => Apart(orphan, op)
  /\ Ahead(op, loaded)
  /\ disk # None => /\ loaded # None /\ disk.revision <= loaded.revision
                    /\ disk.stopped /\ ~loaded.stopped => Freed(calls)
  /\ memo # None => disk # None /\ memo.revision <= disk.revision
  /\ ~unsure /\ memo # None => memo = disk

(* The context that is saved is no older than the one on disk or than what *)
(* its call saw, and leaves "stopped" only as a call asks for.             *)
LEMMA SavedGoesForward ==
  ASSUME TypeOK, ContextInv, NEW op \in Operation, NEW loaded \in Snapshot \cup {None}, NEW memo,
         Saves(op, loaded, memo)
  PROVE  LET current == NextSnapshot(op, loaded)
         IN /\ current \in Snapshot /\ current.revision <= op.seen.revision
            /\ disk # None => /\ disk.revision <= current.revision
                              /\ disk.stopped /\ ~current.stopped => Freed(calls)
            /\ op.by # None => calls[op.by].asked <= current.revision
<1> DEFINE current == NextSnapshot(op, loaded)
<1>1. /\ current \in Snapshot
      /\ op.kind = "capture" =>
           /\ current.revision = op.seen.revision
           /\ current.stopped = IF loaded # None THEN loaded.stopped ELSE FALSE
      /\ op.kind # "capture" =>
           /\ current.revision = IF loaded # None THEN loaded.revision ELSE 0
           /\ current.stopped = IF op.task = "continue" THEN IF loaded # None THEN loaded.stopped ELSE FALSE
                                ELSE op.task = "stop"
  BY NextSnapshotIs
<1> HIDE DEF current
<1>2. /\ op.seen.revision \in Nat /\ op.by \in Call \cup {None} /\ op.task \in Task
      /\ op.kind \in {"capture", "checkpoint"}
      /\ loaded # None => loaded.revision \in Nat
      /\ disk \in Snapshot \cup {None}
      /\ disk # None => disk.revision \in Nat
      /\ current.revision \in Nat
  BY <1>1 DEF Operation, Snapshot, TypeOK
<1>3. current.revision <= op.seen.revision
  <2>1. loaded # None => loaded.revision <= op.seen.revision
    BY DEF Saves, Ahead
  <2>2. CASE op.kind = "capture"
    BY <1>1, <1>2, <2>2
  <2>3. CASE op.kind = "checkpoint"
    BY <1>1, <1>2, <2>1, <2>3
  <2>4. QED
    BY <1>2, <2>2, <2>3
<1>4. disk # None => disk.revision <= current.revision
  BY <1>1, <1>2 DEF Saves, Ahead
<1>5. ASSUME disk # None, disk.stopped, ~current.stopped PROVE Freed(calls)
  <2>1. CASE loaded # None /\ ~loaded.stopped
    BY <1>5, <2>1 DEF Saves
  <2>2. CASE loaded # None /\ loaded.stopped
    <3>1. op.kind # "capture" /\ op.task \in {"resume", "replace"}
      BY <1>1, <1>2, <1>5, <2>2 DEF Task
    <3>2. op.by \in Call /\ calls[op.by].pc = "checkpointing" /\ calls[op.by].request.task = op.task
      BY <1>2, <3>1 DEF Saves, Fits
    <3>3. QED
      BY <3>1, <3>2 DEF Freed, Before
  <2>3. loaded # None
    BY <1>5 DEF Saves
  <2>4. QED
    BY <2>1, <2>2, <2>3
<1>6. ASSUME op.by # None PROVE calls[op.by].asked <= current.revision
  <2>0. op.by \in Call /\ calls[op.by].asked \in Nat
    BY <1>2, <1>6 DEF TypeOK, Asked
  <2>1. CASE op.kind = "capture"
    BY <1>1, <1>6, <2>1 DEF Saves, Fits
  <2>2. CASE op.kind = "checkpoint"
    <3>1. calls[op.by].pc = "checkpointing"
      BY <1>6, <2>2 DEF Saves, Fits
    <3>2. disk # None /\ calls[op.by].asked <= disk.revision
      BY <2>0, <3>1 DEF ContextInv, CallsOk, CallOk
    <3>3. QED
      BY <1>2, <1>4, <2>0, <3>2
  <2>3. QED
    BY <1>2, <2>1, <2>2
<1>7. QED
  BY <1>1, <1>3, <1>4, <1>5, <1>6 DEF current

(* A call that has set the task going again remains one.                   *)
LEMMA FreedStays ==
  ASSUME NEW all, NEW after, Freed(all),
         \A c \in Call : all[c].pc \notin Before => after[c].pc \notin Before /\ after[c].request = all[c].request
  PROVE  Freed(after)
BY DEF Freed

(* The end of an operation changes at most the call that waits for it.     *)
LEMMA SettledKeeps ==
  ASSUME TypeOK, ContextInv, NEW op \in Operation, NEW ok \in BOOLEAN, Fits(op, calls, Now.revision),
         calls' = Settled(op, ok), UNCHANGED <<log, disk>>,
         ok /\ op.by # None =>
           /\ op.kind = "capture" => disk # None /\ calls[op.by].asked <= disk.revision
           /\ op.kind = "checkpoint" => calls[op.by].asked <= op.value.revision
  PROVE  /\ \A c \in Call : c # op.by => calls'[c] = calls[c]
         /\ Freed(calls) => Freed(calls')
         /\ CallsOk'
<1>0. calls \in [Call -> Asked] /\ Now' = Now
  BY DEF TypeOK, Now
<1>1. ASSUME NEW c \in Call PROVE calls'[c] = calls[c] \/ (c = op.by /\ Ends(op, ok, calls[c], calls'[c]))
  BY <1>0, SettledIs
<1>2. ASSUME NEW c \in Call, calls[c].pc \notin Before
      PROVE  calls'[c].pc \notin Before /\ calls'[c].request = calls[c].request
  <2>1. CASE calls'[c] = calls[c]
    BY <1>2, <2>1
  <2>2. CASE c = op.by /\ Ends(op, ok, calls[c], calls'[c])
    <3>1. op.by # None
      BY <2>2, CheckpointAssumption
    <3>2. op.kind = "capture" => calls[c].pc = "capturing"
      BY <2>2, <3>1 DEF Fits
    <3>3. op.kind # "capture"
      BY <1>2, <3>2 DEF Before
    <3>4. QED
      BY <2>2, <3>3 DEF Ends, Before
  <2>3. QED
    BY <1>1, <2>1, <2>2
<1>3. Freed(calls) => Freed(calls')
  BY <1>2, FreedStays
<1>4. ASSUME NEW c \in Call PROVE CallOk(calls'[c], disk, Now.revision)
  <2>0. CallOk(calls[c], disk, Now.revision)
    BY DEF ContextInv, CallsOk
  <2>1. CASE c = op.by /\ Ends(op, ok, calls[c], calls'[c])
    <3>1. op.by # None
      BY <2>1, CheckpointAssumption
    <3>2. CASE calls'[c].pc \in {"failed", "unavailable"}
      BY <2>0, <2>1, <3>2 DEF Ends, CallOk
    <3>3. CASE ok /\ op.kind = "capture" /\ calls'[c].pc = "captured"
      BY <2>0, <2>1, <3>1, <3>3 DEF Ends, CallOk
    <3>4. CASE ok /\ op.kind = "checkpoint" /\ calls'[c].pc = "recording" /\ calls'[c].context = op.value
      BY <2>0, <2>1, <3>1, <3>4 DEF Ends, CallOk
    <3>5. QED
      BY <2>1, <3>2, <3>3, <3>4 DEF Ends
  <2>2. QED
    BY <1>1, <2>0, <2>1
<1>5. CallsOk'
  BY <1>0, <1>4 DEF CallsOk
<1>6. QED
  BY <1>1, <1>3, <1>5

(* An operation saves the context: by a write, or because it is on disk as *)
(* it is.                                                                  *)
LEMMA SaveKeeps ==
  ASSUME TypeOK, ContextInv, NEW op \in Operation, NEW loaded \in Snapshot \cup {None},
         NEW memo \in Snapshot \cup {None}, Save(op, loaded, memo), Saves(op, loaded, memo),
         UNCHANGED <<log, orphan>>, queue' \in Seq(Operation),
         \A i \in 1..Len(queue') :
           /\ Fits(queue'[i], calls, Now.revision) /\ InOrder(op, queue'[i])
           /\ orphan # None => Apart(orphan, queue'[i]),
         \A i, j \in 1..Len(queue') : i < j => InOrder(queue'[i], queue'[j])
  PROVE  /\ ContextInv'
         /\ disk # None /\ disk' # disk =>
              /\ disk'.revision >= disk.revision
              /\ disk.stopped /\ ~disk'.stopped => Freed(calls)
<1>0. /\ Now' = Now /\ Now.revision \in Nat /\ calls \in [Call -> Asked]
      /\ disk \in Snapshot \cup {None} /\ orphan \in Operation \cup {None}
      /\ op.by \in Call \cup {None} /\ op.seen.revision \in Nat /\ op.seen.revision <= Now.revision
  BY LatestIs DEF TypeOK, Now, Operation, Saves, Fits
<1>1. PICK current :
    /\ current = NextSnapshot(op, loaded) /\ states' = current /\ saved' = memo
    /\ \/ /\ current = memo /\ running' = None
          /\ calls' = Settled([op EXCEPT !.value = current], TRUE)
          /\ UNCHANGED <<disk, unsure, bound>>
       \/ \E landed, told \in BOOLEAN :
          /\ current # memo /\ (told => landed)
          /\ disk' = IF landed THEN current ELSE disk
          /\ unsure' = ~told
          /\ running' = [op EXCEPT !.phase = "saving", !.value = IF told THEN current ELSE None]
          /\ calls' = calls
          /\ bound' \in Bound /\ bound'.requests = bound.requests
  BY SaveIs
<1>2. /\ current \in Snapshot /\ current.revision <= op.seen.revision
      /\ disk # None => /\ disk.revision <= current.revision
                        /\ disk.stopped /\ ~current.stopped => Freed(calls)
      /\ op.by # None => calls[op.by].asked <= current.revision
  BY <1>1, SavedGoesForward
<1>3. /\ current # None /\ current.revision \in Nat /\ current.revision <= Now.revision
      /\ disk # None => disk.revision \in Nat /\ disk.revision <= Now.revision
      /\ memo # None => memo.revision \in Nat
  BY <1>0, <1>2, CheckpointAssumption DEF Snapshot, ContextInv, DiskOk
<1>4. ASSUME NEW i \in 1..Len(queue')
      PROVE  /\ queue'[i] \in Operation /\ queue'[i].seen.revision \in Nat
             /\ op.seen.revision <= queue'[i].seen.revision
  <2>1. queue'[i] \in Operation
    BY ElementOfSeq
  <2>2. InOrder(op, queue'[i])
    OBVIOUS
  <2>3. QED
    BY <2>1, <2>2 DEF Operation, InOrder
<1>r. Now.revision <= Now.revision /\ (disk # None => disk.revision <= disk.revision)
  BY <1>0, <1>3
<1>5. memo # None => disk # None /\ memo.revision <= disk.revision
  BY DEF Saves
<1>6. CASE current = memo /\ running' = None /\ calls' = Settled([op EXCEPT !.value = current], TRUE)
           /\ UNCHANGED <<disk, unsure, bound>>
  <2> DEFINE done == [op EXCEPT !.value = current]
  <2>1. /\ done \in Operation /\ done.value = current /\ done.by = op.by /\ done.kind = op.kind
        /\ done.seen = op.seen /\ done.task = op.task
    BY <1>2 DEF Operation
  <2>2. Fits(done, calls, Now.revision)
    BY <2>1 DEF Saves, Fits
  <2>3. disk # None /\ disk.revision = current.revision
    BY <1>2, <1>3, <1>5, <1>6
  <2> HIDE DEF done
  <2>4. /\ \A c \in Call : c # op.by => calls'[c] = calls[c]
        /\ Freed(calls) => Freed(calls')
        /\ CallsOk'
    <3>1. calls' = Settled(done, TRUE) /\ UNCHANGED <<log, disk>>
      BY <1>6 DEF done
    <3>2. op.by # None => /\ disk # None /\ calls[op.by].asked <= disk.revision
                          /\ calls[op.by].asked <= done.value.revision
      BY <1>2, <2>1, <2>3
    <3>3. QED
      BY <2>1, <2>2, <3>1, <3>2, SettledKeeps
  <2>5. QueueOk'
    <3>1. ASSUME NEW i \in 1..Len(queue') PROVE Fits(queue'[i], calls', Now.revision)
      <4>1. queue'[i].by # None => calls'[queue'[i].by] = calls[queue'[i].by]
        BY <1>4, <2>4 DEF InOrder, Apart, Operation
      <4>2. queue'[i] \in Operation /\ Fits(queue'[i], calls, Now.revision)
        BY <1>4
      <4>3. QED
        BY <1>0, <1>r, <4>1, <4>2, FitsStays
    <3>2. ASSUME NEW i \in 1..Len(queue') PROVE Ahead(queue'[i], disk) /\ Ahead(queue'[i], current)
      BY <1>0, <1>2, <1>3, <1>4, <2>3 DEF Ahead
    <3>3. QED
      BY <1>0, <1>1, <1>6, <3>1, <3>2 DEF QueueOk
  <2>6. RunningOk'
    BY <1>6 DEF RunningOk
  <2>7. OrphanOk'
    <3>1. SUFFICES ASSUME orphan # None PROVE OrphanOk'
      BY DEF OrphanOk
    <3>2. /\ Fits(orphan, calls, Now.revision) /\ Stored(orphan, disk, calls) /\ Apart(orphan, op)
      BY <3>1 DEF ContextInv, OrphanOk, Saves
    <3>3. orphan.by # None => calls'[orphan.by] = calls[orphan.by]
      BY <1>0, <2>4, <3>1, <3>2 DEF Apart, Operation
    <3>o. orphan \in Operation
      BY <1>0, <3>1
    <3>4. Fits(orphan, calls', Now.revision)
      BY <1>0, <1>r, <3>o, <3>2, <3>3, FitsStays
    <3>s. Stored(orphan, disk, calls')
      BY <1>0, <1>r, <3>o, <3>2, <3>3, StoredStays
    <3>5. QED
      BY <1>0, <1>6, <3>1, <3>4, <3>s DEF OrphanOk
  <2>8. SavedOk'
    BY <1>1, <1>2, <1>3, <1>5, <1>6 DEF SavedOk, Saves
  <2>9. DiskOk'
    <3>1. ~unsure => Agrees(disk, current)
      <4>1. ~unsure => disk = current
        BY <1>3, <1>6 DEF Saves
      <4>2. QED
        BY <1>3, <4>1 DEF Agrees
    <3>2. disk.stopped /\ ~current.stopped => Freed(calls')
      BY <1>2, <2>3, <2>4
    <3>3. QED
      BY <1>0, <1>1, <1>2, <1>3, <1>6, <2>3, <3>1, <3>2 DEF DiskOk
  <2>10. QED
    BY <1>6, <2>4, <2>5, <2>6, <2>7, <2>8, <2>9 DEF ContextInv
<1>7. ASSUME NEW landed \in BOOLEAN, NEW told \in BOOLEAN, told => landed,
             disk' = IF landed THEN current ELSE disk, unsure' = ~told,
             running' = [op EXCEPT !.phase = "saving", !.value = IF told THEN current ELSE None],
             calls' = calls
      PROVE  /\ ContextInv'
             /\ disk # None /\ disk' # disk =>
                  /\ disk'.revision >= disk.revision
                  /\ disk.stopped /\ ~disk'.stopped => Freed(calls)
  <2> DEFINE writing == [op EXCEPT !.phase = "saving", !.value = IF told THEN current ELSE None]
  <2>1. /\ writing \in Operation /\ writing.value = (IF told THEN current ELSE None) /\ writing.by = op.by
        /\ writing.kind = op.kind /\ writing.seen = op.seen /\ writing.task = op.task
        /\ writing.phase = "saving"
    BY <1>2 DEF Operation
  <2>2. running' = writing
    BY <1>7
  <2>o. writing # None
    BY <2>1, CheckpointAssumption
  <2> HIDE DEF writing
  <2>3. Fits(writing, calls, Now.revision)
    BY <2>1 DEF Saves, Fits
  <2>4. /\ disk' \in Snapshot \cup {None}
        /\ disk' # None => /\ disk'.revision \in Nat /\ disk'.revision <= current.revision
                           /\ disk'.stopped /\ ~current.stopped => Freed(calls)
        /\ disk # None => disk' # None /\ disk.revision <= disk'.revision
    BY <1>0, <1>2, <1>3, <1>7
  <2>5. QueueOk'
    <3>1. ASSUME NEW i \in 1..Len(queue') PROVE Ahead(queue'[i], disk') /\ Ahead(queue'[i], current)
      BY <1>0, <1>2, <1>3, <1>4, <2>4 DEF Ahead
    <3>2. QED
      BY <1>0, <1>1, <1>7, <3>1 DEF QueueOk
  <2>6. RunningOk'
    <3>1. \A i \in 1..Len(queue') : InOrder(writing, queue'[i])
      BY <2>1 DEF InOrder, Apart
    <3>2. Stored(writing, disk', calls)
      <4>1. told => disk' = current /\ current.revision <= disk'.revision
        BY <1>3, <1>7
      <4>2. QED
        BY <1>2, <1>3, <2>1, <4>1 DEF Stored
    <3>3. /\ unsure' <=> writing.value = None
          /\ ~unsure' => disk' = writing.value
      BY <1>3, <1>7, <2>1
    <3>4. QED
      BY <1>0, <1>1, <1>3, <1>7, <2>1, <2>2, <2>3, <3>1, <3>2, <3>3 DEF RunningOk
  <2>7. OrphanOk'
    <3>1. SUFFICES ASSUME orphan # None PROVE OrphanOk'
      BY DEF OrphanOk
    <3>2. /\ Fits(orphan, calls, Now.revision) /\ Stored(orphan, disk, calls) /\ Apart(orphan, op)
      BY <3>1 DEF ContextInv, OrphanOk, Saves
    <3>3. Stored(orphan, disk', calls)
      BY <1>0, <2>4, <3>1, <3>2, StoredStays
    <3>4. Apart(orphan, writing)
      BY <2>1, <3>2 DEF Apart
    <3>5. QED
      BY <1>0, <1>7, <2>2, <3>1, <3>2, <3>3, <3>4 DEF OrphanOk
  <2>8. SavedOk'
    <3>1. memo # None => disk' # None /\ memo.revision <= disk'.revision
      BY <1>3, <1>5, <2>4
    <3>2. running' # None /\ running'.phase # "loading"
      <4>1. writing # None
        BY <2>o
      <4>2. QED
        BY <2>1, <2>2, <4>1
    <3>3. QED
      BY <1>1, <1>3, <3>1, <3>2 DEF SavedOk
  <2>9. DiskOk'
    <3>1. ~unsure' => Agrees(disk', current)
      BY <1>3, <1>7 DEF Agrees
    <3>2. disk' # None => disk'.revision <= Now.revision
      BY <1>0, <1>3, <2>4
    <3>3. QED
      BY <1>0, <1>1, <1>3, <1>7, <2>4, <3>1, <3>2 DEF DiskOk
  <2>10. CallsOk'
    <3>1. ASSUME NEW c \in Call PROVE CallOk(calls[c], disk', Now.revision)
      <4>1. calls[c] \in Asked /\ CallOk(calls[c], disk, Now.revision)
        BY <1>0 DEF ContextInv, CallsOk
      <4>2. QED
        BY <1>0, <2>4, <4>1, CallStays
    <3>2. QED
      BY <1>0, <1>7, <3>1 DEF CallsOk
  <2>11. disk # None /\ disk' # disk =>
           /\ disk'.revision >= disk.revision
           /\ disk.stopped /\ ~disk'.stopped => Freed(calls)
    BY <1>2, <1>3, <1>7
  <2>12. QED
    BY <2>5, <2>6, <2>7, <2>8, <2>9, <2>10, <2>11 DEF ContextInv
<1>8. QED
  BY <1>1, <1>6, <1>7

(* The first operation of the queue, and what stays behind it.             *)
LEMMA QueueGoesOn ==
  ASSUME TypeOK, ContextInv, queue # <<>>
  PROVE  LET op == Head(queue)
             rest == Tail(queue)
         IN /\ op \in Operation /\ rest \in Seq(Operation)
            /\ Fits(op, calls, Now.revision) /\ Ahead(op, disk) /\ Ahead(op, states)
            /\ orphan # None => Apart(orphan, op)
            /\ \A i \in 1..Len(rest) :
                 /\ Fits(rest[i], calls, Now.revision) /\ Ahead(rest[i], disk) /\ Ahead(rest[i], states)
                 /\ InOrder(op, rest[i])
                 /\ orphan # None => Apart(orphan, rest[i])
            /\ \A i, j \in 1..Len(rest) : i < j => InOrder(rest[i], rest[j])
<1> DEFINE op == Head(queue)
           rest == Tail(queue)
<1>0. queue \in Seq(Operation) /\ QueueOk /\ OrphanOk
  BY DEF TypeOK, ContextInv
<1>1. op \in Operation /\ rest \in Seq(Operation) /\ Len(queue) \in Nat
  BY <1>0, HeadTailProperties, LenProperties
<1>2. op = queue[1] /\ 1 \in 1..Len(queue) /\ Len(rest) = Len(queue) - 1
  BY <1>0, <1>1, HeadTailProperties, EmptySeq
<1>3. \A i \in 1..Len(rest) : i + 1 \in 1..Len(queue) /\ rest[i] = queue[i + 1] /\ 1 < i + 1
  BY <1>0, <1>1, <1>2, HeadTailProperties
<1> HIDE DEF op, rest
<1>4. Fits(op, calls, Now.revision) /\ Ahead(op, disk) /\ Ahead(op, states)
  BY <1>0, <1>2 DEF QueueOk
<1>5. orphan # None => Apart(orphan, op)
  BY <1>0, <1>2 DEF OrphanOk
<1>6. ASSUME NEW i \in 1..Len(rest)
      PROVE  /\ Fits(rest[i], calls, Now.revision) /\ Ahead(rest[i], disk) /\ Ahead(rest[i], states)
             /\ InOrder(op, rest[i])
             /\ orphan # None => Apart(orphan, rest[i])
  <2>1. i + 1 \in 1..Len(queue) /\ rest[i] = queue[i + 1] /\ 1 < i + 1
    BY <1>3
  <2>2. InOrder(queue[1], queue[i + 1])
    BY <1>0, <1>2, <2>1 DEF QueueOk
  <2>3. QED
    BY <1>0, <1>2, <2>1, <2>2 DEF QueueOk, OrphanOk
<1>7. ASSUME NEW i \in 1..Len(rest), NEW j \in 1..Len(rest), i < j PROVE InOrder(rest[i], rest[j])
  <2>1. i + 1 \in 1..Len(queue) /\ rest[i] = queue[i + 1] /\ j + 1 \in 1..Len(queue) /\ rest[j] = queue[j + 1]
    BY <1>3
  <2>2. i + 1 < j + 1
    BY <1>7
  <2>3. QED
    BY <1>0, <2>1, <2>2 DEF QueueOk
<1>8. QED
  BY <1>1, <1>4, <1>5, <1>6, <1>7 DEF op, rest

(* A stored context that changes goes forward.                             *)
GoesForward ==
  disk # None /\ disk' # disk =>
    /\ disk'.revision >= disk.revision
    /\ disk.stopped /\ ~disk'.stopped => Freed(calls)

(* The next operation of the scope saves what it makes of the context in   *)
(* memory, or goes to read the one on disk.                                *)
LEMMA BeginKeeps ==
  ASSUME TypeOK, ContextInv, Begin
  PROVE  ContextInv' /\ GoesForward
<1> DEFINE op == Head(queue)
           rest == Tail(queue)
<1>0. running = None /\ queue # <<>> /\ queue' = rest /\ UNCHANGED <<log, orphan>> /\ Now' = Now
  BY DEF Begin, Now
<1>1. /\ op \in Operation /\ rest \in Seq(Operation)
      /\ Fits(op, calls, Now.revision) /\ Ahead(op, disk) /\ Ahead(op, states)
      /\ orphan # None => Apart(orphan, op)
      /\ \A i \in 1..Len(rest) :
           /\ Fits(rest[i], calls, Now.revision) /\ Ahead(rest[i], disk) /\ Ahead(rest[i], states)
           /\ InOrder(op, rest[i])
           /\ orphan # None => Apart(orphan, rest[i])
      /\ \A i, j \in 1..Len(rest) : i < j => InOrder(rest[i], rest[j])
  BY <1>0, QueueGoesOn
<1>2. /\ states \in Snapshot \cup {None} /\ saved \in Snapshot \cup {None} /\ disk \in Snapshot \cup {None}
      /\ SavedOk /\ DiskOk /\ OrphanOk /\ CallsOk
  BY DEF TypeOK, ContextInv
<1>3. CASE states # None
  <2>1. Save(op, states, saved)
    BY <1>3 DEF Begin
  <2>2. Saves(op, states, saved)
    <3> HIDE DEF op
    <3>1. /\ disk # None => disk.revision <= states.revision /\ (disk.stopped /\ ~states.stopped => Freed(calls))
          /\ saved # None => disk # None /\ saved.revision <= disk.revision
          /\ ~unsure /\ saved # None => saved = disk
      BY <1>0, <1>2, <1>3 DEF SavedOk, DiskOk
    <3>2. QED
      BY <1>1, <1>3, <3>1 DEF Saves
  <2> HIDE DEF op, rest
  <2>3. QED
    BY <1>0, <1>1, <1>2, <2>1, <2>2, SaveKeeps DEF GoesForward
<1>4. CASE states = None
  <2> DEFINE reading == [op EXCEPT !.phase = "loading", !.value = disk]
  <2>1. running' = reading /\ UNCHANGED <<states, saved, disk, unsure, calls>>
    BY <1>4 DEF Begin
  <2> HIDE DEF op, rest
  <2>2. /\ reading \in Operation /\ reading.phase = "loading" /\ reading.value = disk
        /\ reading.by = op.by /\ reading.kind = op.kind /\ reading.seen = op.seen /\ reading.task = op.task
    BY <1>1, <1>2 DEF Operation
  <2> HIDE DEF reading
  <2>3. /\ Fits(reading, calls, Now.revision) /\ Ahead(reading, disk)
        /\ \A i \in 1..Len(rest) : InOrder(reading, rest[i])
        /\ orphan # None => Apart(orphan, reading)
    BY <1>1, <2>2 DEF Fits, Ahead, InOrder, Apart
  <2>4. QueueOk'
    BY <1>0, <1>1, <2>1 DEF QueueOk
  <2>5. RunningOk'
    BY <1>0, <1>4, <2>1, <2>2, <2>3 DEF RunningOk
  <2>6. OrphanOk'
    BY <1>0, <1>1, <1>2, <2>1, <2>3 DEF OrphanOk
  <2>7. SavedOk' /\ DiskOk' /\ CallsOk'
    BY <1>0, <1>2, <1>4, <2>1 DEF SavedOk, DiskOk, CallsOk
  <2>8. QED
    BY <2>1, <2>4, <2>5, <2>6, <2>7 DEF ContextInv, GoesForward
<1>5. QED
  BY <1>3, <1>4

(* An operation ends: the one of the scope, or that of a released scope.   *)
LEMMA EndKeeps ==
  ASSUME TypeOK, ContextInv, NEW op \in Operation, NEW ok \in BOOLEAN, calls' = Settled(op, ok),
         \/ op = running /\ running # None /\ running' = None /\ orphan' = orphan
         \/ op = orphan /\ orphan # None /\ orphan' = None /\ running' = running,
         UNCHANGED <<log, disk, states, queue, unsure>>, SavedOk',
         ok /\ op.by # None =>
           /\ op.kind = "capture" => disk # None /\ calls[op.by].asked <= disk.revision
           /\ op.kind = "checkpoint" => calls[op.by].asked <= op.value.revision
  PROVE  ContextInv'
<1>0. /\ Now' = Now /\ Now.revision \in Nat /\ calls \in [Call -> Asked] /\ queue \in Seq(Operation)
      /\ disk \in Snapshot \cup {None}
      /\ running \in Operation \cup {None} /\ orphan \in Operation \cup {None}
      /\ QueueOk /\ RunningOk /\ OrphanOk /\ DiskOk
  BY LatestIs DEF TypeOK, Now, ContextInv
<1>r. Now.revision <= Now.revision /\ (disk # None => disk.revision <= disk.revision)
  BY <1>0 DEF Snapshot
<1>1. Fits(op, calls, Now.revision) /\ \A i \in 1..Len(queue) : Apart(op, queue[i])
  BY <1>0 DEF RunningOk, OrphanOk, InOrder
<1>2. /\ \A c \in Call : c # op.by => calls'[c] = calls[c]
      /\ Freed(calls) => Freed(calls')
      /\ CallsOk'
  BY <1>1, SettledKeeps
<1>3. QueueOk'
  <2>1. ASSUME NEW i \in 1..Len(queue) PROVE Fits(queue[i], calls', Now.revision)
    <3>1. queue[i] \in Operation /\ Fits(queue[i], calls, Now.revision) /\ Apart(op, queue[i])
      BY <1>0, <1>1, ElementOfSeq DEF QueueOk
    <3>2. queue[i].by # None => calls'[queue[i].by] = calls[queue[i].by]
      BY <1>2, <3>1 DEF Apart, Operation
    <3>3. QED
      BY <1>0, <1>r, <3>1, <3>2, FitsStays
  <2>2. QED
    BY <1>0, <2>1 DEF QueueOk
<1>4. RunningOk'
  <2>1. SUFFICES ASSUME running' # None PROVE RunningOk'
    BY DEF RunningOk
  <2>2. running \in Operation /\ running' = running /\ op = orphan /\ Apart(op, running)
    BY <1>0, <2>1 DEF OrphanOk
  <2>3. running.by # None => calls'[running.by] = calls[running.by]
    BY <1>2, <2>2 DEF Apart, Operation
  <2>4. Fits(running, calls', Now.revision)
    <3>1. Fits(running, calls, Now.revision)
      BY <1>0, <2>1, <2>2 DEF RunningOk
    <3>2. QED
      BY <1>0, <1>r, <2>2, <2>3, <3>1, FitsStays
  <2>5. Stored(running, disk, calls) => Stored(running, disk, calls')
    BY <1>0, <1>r, <2>2, <2>3, StoredStays
  <2>6. QED
    BY <1>0, <2>1, <2>2, <2>4, <2>5 DEF RunningOk
<1>5. OrphanOk'
  <2>1. SUFFICES ASSUME orphan' # None PROVE OrphanOk'
    BY DEF OrphanOk
  <2>2. /\ orphan \in Operation /\ orphan' = orphan /\ op = running /\ Apart(orphan, op) /\ running' = None
        /\ Fits(orphan, calls, Now.revision) /\ Stored(orphan, disk, calls)
    BY <1>0, <2>1 DEF OrphanOk
  <2>3. orphan.by # None => calls'[orphan.by] = calls[orphan.by]
    BY <1>2, <2>2 DEF Apart, Operation
  <2>4. Fits(orphan, calls', Now.revision)
    BY <1>0, <1>r, <2>2, <2>3, FitsStays
  <2>5. Stored(orphan, disk, calls')
    BY <1>0, <1>r, <2>2, <2>3, StoredStays
  <2>6. QED
    BY <1>0, <2>1, <2>2, <2>4, <2>5 DEF OrphanOk
<1>6. DiskOk'
  BY <1>0, <1>2 DEF DiskOk
<1>7. QED
  BY <1>2, <1>3, <1>4, <1>5, <1>6 DEF ContextInv

(* A context was read and is saved, or the read fails.                     *)
LEMMA LoadedKeeps ==
  ASSUME TypeOK, ContextInv, Loaded
  PROVE  ContextInv' /\ GoesForward
<1>0. /\ running # None /\ running.phase = "loading" /\ UNCHANGED <<log, orphan, queue>> /\ Now' = Now
      /\ running \in Operation /\ queue \in Seq(Operation) /\ disk \in Snapshot \cup {None}
  BY DEF Loaded, TypeOK, Now
<1>1. /\ QueueOk /\ OrphanOk /\ DiskOk /\ Fits(running, calls, Now.revision)
      /\ \A i \in 1..Len(queue) : InOrder(running, queue[i])
      /\ states = None /\ running.value = disk /\ Ahead(running, disk) /\ saved = None
  BY <1>0 DEF ContextInv, RunningOk, SavedOk
<1>2. CASE Save(running, running.value, IF running.value # None THEN running.value ELSE saved)
  <2>1. Save(running, disk, disk)
    BY <1>1, <1>2
  <2>2. disk # None => disk.revision <= disk.revision
    BY <1>0 DEF Snapshot
  <2>3. Saves(running, disk, disk)
    BY <1>0, <1>1, <2>2 DEF Saves, OrphanOk
  <2>4. \A i \in 1..Len(queue) :
          /\ Fits(queue[i], calls, Now.revision) /\ InOrder(running, queue[i])
          /\ orphan # None => Apart(orphan, queue[i])
    BY <1>1 DEF QueueOk, OrphanOk
  <2>5. \A i, j \in 1..Len(queue) : i < j => InOrder(queue[i], queue[j])
    BY <1>1 DEF QueueOk
  <2>6. QED
    BY <1>0, <2>1, <2>3, <2>4, <2>5, SaveKeeps DEF GoesForward
<1>3. CASE Ended(running, FALSE) /\ UNCHANGED <<states, saved, disk, unsure>>
  <2>1. running' = None /\ calls' = Settled(running, FALSE)
    BY <1>3 DEF Ended
  <2>2. SavedOk'
    BY <1>1, <1>3 DEF SavedOk
  <2>3. ContextInv'
    BY <1>0, <1>3, <2>1, <2>2, EndKeeps
  <2>4. QED
    BY <1>3, <2>3 DEF GoesForward
<1>4. QED
  BY <1>2, <1>3 DEF Loaded

(* A write is answered.                                                    *)
LEMMA WriteReturnsKeeps ==
  ASSUME TypeOK, ContextInv, WriteReturns
  PROVE  ContextInv' /\ GoesForward
<1>0. /\ running # None /\ running.phase = "saving" /\ UNCHANGED <<log, states, orphan, queue, disk, unsure>>
      /\ running' = None /\ calls' = Settled(running, running.value # None)
      /\ saved' = IF running.value # None THEN running.value ELSE saved
  BY DEF WriteReturns, Ended, session
<1>1. /\ running \in Operation /\ Fits(running, calls, Now.revision) /\ Stored(running, disk, calls)
      /\ states # None /\ (unsure <=> running.value = None) /\ (~unsure => disk = running.value)
      /\ calls \in [Call -> Asked] /\ disk \in Snapshot \cup {None} /\ SavedOk
  BY <1>0 DEF TypeOK, ContextInv, RunningOk
<1>2. SavedOk'
  BY <1>0, <1>1 DEF SavedOk, Stored
<1>3. ASSUME running.value # None, running.by # None
      PROVE  /\ disk # None /\ calls[running.by].asked <= disk.revision
             /\ calls[running.by].asked <= running.value.revision
  <2>1. /\ running.by \in Call /\ calls[running.by].asked \in Nat
        /\ running.value.revision \in Nat
    BY <1>1, <1>3 DEF Operation, Asked, Snapshot
  <2>2. disk # None /\ running.value.revision <= disk.revision /\ calls[running.by].asked <= running.value.revision
    BY <1>1, <1>3 DEF Stored
  <2>3. disk.revision \in Nat
    BY <1>1, <2>2 DEF Snapshot
  <2>4. QED
    BY <2>1, <2>2, <2>3
<1>4. ContextInv'
  BY <1>0, <1>1, <1>2, <1>3, EndKeeps
<1>5. QED
  BY <1>0, <1>4 DEF GoesForward

(* A write of a released scope is answered.                                *)
LEMMA OrphanReturnsKeeps ==
  ASSUME TypeOK, ContextInv, OrphanReturns
  PROVE  ContextInv' /\ GoesForward
<1>0. /\ orphan # None /\ UNCHANGED <<log, states, saved, running, queue, disk, unsure>>
      /\ orphan' = None /\ calls' = Settled(orphan, orphan.value # None)
  BY DEF OrphanReturns, session
<1>1. /\ orphan \in Operation /\ Fits(orphan, calls, Now.revision) /\ Stored(orphan, disk, calls)
      /\ calls \in [Call -> Asked] /\ disk \in Snapshot \cup {None} /\ SavedOk
  BY <1>0 DEF TypeOK, ContextInv, OrphanOk
<1>2. SavedOk'
  BY <1>0, <1>1 DEF SavedOk
<1>3. ASSUME orphan.value # None, orphan.by # None
      PROVE  /\ disk # None /\ calls[orphan.by].asked <= disk.revision
             /\ calls[orphan.by].asked <= orphan.value.revision
  <2>1. /\ orphan.by \in Call /\ calls[orphan.by].asked \in Nat
        /\ orphan.value.revision \in Nat
    BY <1>1, <1>3 DEF Operation, Asked, Snapshot
  <2>2. disk # None /\ orphan.value.revision <= disk.revision /\ calls[orphan.by].asked <= orphan.value.revision
    BY <1>1, <1>3 DEF Stored
  <2>3. disk.revision \in Nat
    BY <1>1, <2>2 DEF Snapshot
  <2>4. QED
    BY <2>1, <2>2, <2>3
<1>4. ContextInv'
  BY <1>0, <1>1, <1>2, <1>3, EndKeeps
<1>5. QED
  BY <1>0, <1>4 DEF GoesForward

(* Calls that nothing waits for may go on.                                 *)
LEMMA CallsMove ==
  ASSUME TypeOK, ContextInv,
         \A c \in Call : calls[c].pc \in {"capturing", "checkpointing"} => calls'[c] = calls[c],
         Freed(calls) => Freed(calls'), CallsOk',
         UNCHANGED <<log, states, saved, running, orphan, disk, unsure>>
  PROVE  /\ \A i \in 1..Len(queue) : Fits(queue[i], calls', Now.revision)
         /\ RunningOk' \/ queue' # queue
         /\ running # None => Fits(running, calls', Now.revision)
         /\ running # None /\ running.phase # "loading" => Stored(running, disk, calls')
         /\ orphan # None => Fits(orphan, calls', Now.revision) /\ Stored(orphan, disk, calls')
         /\ SavedOk' /\ DiskOk' /\ CallsOk'
<1>0. /\ Now' = Now /\ Now.revision \in Nat /\ calls \in [Call -> Asked] /\ queue \in Seq(Operation)
      /\ disk \in Snapshot \cup {None}
      /\ running \in Operation \cup {None} /\ orphan \in Operation \cup {None}
      /\ QueueOk /\ RunningOk /\ OrphanOk /\ DiskOk /\ SavedOk
  BY LatestIs DEF TypeOK, Now, ContextInv
<1>r. Now.revision <= Now.revision /\ (disk # None => disk.revision <= disk.revision)
  BY <1>0 DEF Snapshot
<1>1. ASSUME NEW op \in Operation, Fits(op, calls, Now.revision)
      PROVE  /\ Fits(op, calls', Now.revision)
             /\ Stored(op, disk, calls) => Stored(op, disk, calls')
  <2>1. op.by # None => calls'[op.by] = calls[op.by]
    BY <1>1 DEF Operation, Fits
  <2>2. Fits(op, calls', Now.revision)
    BY <1>0, <1>r, <1>1, <2>1, FitsStays
  <2>3. Stored(op, disk, calls) => Stored(op, disk, calls')
    BY <1>0, <1>r, <2>1, StoredStays
  <2>4. QED
    BY <2>2, <2>3
<1>2. ASSUME NEW i \in 1..Len(queue) PROVE Fits(queue[i], calls', Now.revision)
  <2>1. queue[i] \in Operation /\ Fits(queue[i], calls, Now.revision)
    BY <1>0, ElementOfSeq DEF QueueOk
  <2>2. QED
    BY <1>1, <2>1
<1>3. running # None => /\ Fits(running, calls', Now.revision)
                        /\ running.phase # "loading" => Stored(running, disk, calls')
  BY <1>0, <1>1 DEF RunningOk
<1>4. RunningOk' \/ queue' # queue
  BY <1>0, <1>3 DEF RunningOk
<1>5. orphan # None => Fits(orphan, calls', Now.revision) /\ Stored(orphan, disk, calls')
  BY <1>0, <1>1 DEF OrphanOk
<1>6. SavedOk' /\ DiskOk'
  BY <1>0 DEF SavedOk, DiskOk
<1>7. QED
  BY <1>2, <1>3, <1>4, <1>5, <1>6

(* A call that waits for no operation may go on.                           *)
LEMMA CallsMoveKeep ==
  ASSUME TypeOK, ContextInv,
         \A c \in Call : calls[c].pc \in {"capturing", "checkpointing"} => calls'[c] = calls[c],
         Freed(calls) => Freed(calls'), CallsOk',
         UNCHANGED <<log, states, saved, queue, running, orphan, disk, unsure>>
  PROVE  ContextInv' /\ GoesForward
<1>0. Now' = Now /\ QueueOk /\ OrphanOk
  BY DEF Now, ContextInv
<1>1. /\ \A i \in 1..Len(queue) : Fits(queue[i], calls', Now.revision)
      /\ RunningOk' \/ queue' # queue
      /\ orphan # None => Fits(orphan, calls', Now.revision) /\ Stored(orphan, disk, calls')
      /\ SavedOk' /\ DiskOk' /\ CallsOk'
  BY CallsMove
<1>2. QueueOk'
  BY <1>0, <1>1 DEF QueueOk
<1>3. OrphanOk'
  BY <1>0, <1>1 DEF OrphanOk
<1>4. QED
  BY <1>1, <1>2, <1>3 DEF ContextInv, GoesForward

(* A new operation is of the session as it is, and its call waits for no   *)
(* other.                                                                  *)
LEMMA AppendKeeps ==
  ASSUME TypeOK, ContextInv, NEW op \in Operation, op.seen = Now, queue' = Append(queue, op),
         op.by # None => calls[op.by].pc \notin {"capturing", "checkpointing"},
         Fits(op, calls', Now.revision),
         \A c \in Call : calls[c].pc \in {"capturing", "checkpointing"} => calls'[c] = calls[c],
         Freed(calls) => Freed(calls'), CallsOk',
         UNCHANGED <<log, states, saved, running, orphan, disk, unsure>>
  PROVE  ContextInv' /\ GoesForward
<1>0. /\ Now' = Now /\ Now.revision \in Nat /\ calls \in [Call -> Asked] /\ queue \in Seq(Operation)
      /\ running \in Operation \cup {None} /\ orphan \in Operation \cup {None}
      /\ QueueOk /\ RunningOk /\ OrphanOk /\ DiskOk /\ op.by \in Call \cup {None}
  BY LatestIs DEF TypeOK, Now, ContextInv, Operation
<1>1. /\ \A i \in 1..Len(queue) : Fits(queue[i], calls', Now.revision)
      /\ running # None => Fits(running, calls', Now.revision)
      /\ running # None /\ running.phase # "loading" => Stored(running, disk, calls')
      /\ orphan # None => Fits(orphan, calls', Now.revision) /\ Stored(orphan, disk, calls')
      /\ SavedOk' /\ DiskOk' /\ CallsOk'
  BY CallsMove
<1>2. ASSUME NEW other \in Operation, Fits(other, calls, Now.revision)
      PROVE  InOrder(other, op) /\ Apart(other, op)
  BY <1>0, <1>2 DEF Fits, InOrder, Apart, Operation
<1>3. /\ Len(queue) \in Nat /\ Len(queue') = Len(queue) + 1 /\ queue'[Len(queue) + 1] = op
      /\ \A i \in 1..Len(queue) : queue'[i] = queue[i]
      /\ 1..Len(queue') = 1..Len(queue) \cup {Len(queue) + 1}
  BY <1>0, AppendProperties, LenProperties
<1>4. ASSUME NEW i \in 1..Len(queue)
      PROVE  queue[i] \in Operation /\ Fits(queue[i], calls, Now.revision)
  BY <1>0, ElementOfSeq DEF QueueOk
<1>5. Ahead(op, disk) /\ Ahead(op, states)
  BY <1>0 DEF Ahead, DiskOk
<1>6. QueueOk'
  <2>1. ASSUME NEW i \in 1..Len(queue')
        PROVE  Fits(queue'[i], calls', Now.revision) /\ Ahead(queue'[i], disk) /\ Ahead(queue'[i], states)
    <3>1. CASE i \in 1..Len(queue)
      BY <1>0, <1>1, <1>3, <3>1 DEF QueueOk
    <3>2. CASE i = Len(queue) + 1
      BY <1>3, <1>5, <3>2
    <3>3. QED
      BY <1>3, <3>1, <3>2
  <2>2. ASSUME NEW i \in 1..Len(queue'), NEW j \in 1..Len(queue'), i < j
        PROVE  InOrder(queue'[i], queue'[j])
    <3>1. i \in 1..Len(queue)
      BY <1>3, <2>2
    <3>2. CASE j \in 1..Len(queue)
      BY <1>0, <1>3, <2>2, <3>1, <3>2 DEF QueueOk
    <3>3. CASE j = Len(queue) + 1
      BY <1>2, <1>3, <1>4, <3>1, <3>3
    <3>4. QED
      BY <1>3, <3>2, <3>3
  <2>3. QED
    BY <1>0, <2>1, <2>2 DEF QueueOk
<1>7. RunningOk'
  <2>1. SUFFICES ASSUME running # None PROVE RunningOk'
    BY DEF RunningOk
  <2>2. running \in Operation /\ Fits(running, calls, Now.revision)
    BY <1>0, <2>1 DEF RunningOk
  <2>3. ASSUME NEW i \in 1..Len(queue') PROVE InOrder(running, queue'[i])
    <3>1. CASE i \in 1..Len(queue)
      BY <1>0, <1>3, <2>1, <3>1 DEF RunningOk
    <3>2. CASE i = Len(queue) + 1
      BY <1>2, <1>3, <2>2, <3>2
    <3>3. QED
      BY <1>3, <3>1, <3>2
  <2>4. QED
    BY <1>0, <1>1, <2>1, <2>3 DEF RunningOk
<1>8. OrphanOk'
  <2>1. SUFFICES ASSUME orphan # None PROVE OrphanOk'
    BY DEF OrphanOk
  <2>2. orphan \in Operation /\ Fits(orphan, calls, Now.revision)
    BY <1>0, <2>1 DEF OrphanOk
  <2>3. ASSUME NEW i \in 1..Len(queue') PROVE Apart(orphan, queue'[i])
    <3>1. CASE i \in 1..Len(queue)
      BY <1>0, <1>3, <2>1, <3>1 DEF OrphanOk
    <3>2. CASE i = Len(queue) + 1
      BY <1>2, <1>3, <2>2, <3>2
    <3>3. QED
      BY <1>3, <3>1, <3>2
  <2>4. QED
    BY <1>0, <1>1, <2>1, <2>3 DEF OrphanOk
<1>9. QED
  BY <1>1, <1>6, <1>7, <1>8 DEF ContextInv, GoesForward

(* One call goes to another step, and nothing else of it changes.          *)
LEMMA MoveIs ==
  ASSUME calls \in [Call -> Asked], NEW c \in Call, NEW pc, calls' = [calls EXCEPT ![c].pc = pc]
  PROVE  /\ calls'[c].pc = pc
         /\ calls'[c].request = calls[c].request /\ calls'[c].asked = calls[c].asked
         /\ calls'[c].context = calls[c].context /\ calls'[c].all = calls[c].all
         /\ calls'[c].report = calls[c].report
         /\ \A d \in Call : d # c => calls'[d] = calls[d]
<1>1. calls[c] \in Asked /\ calls'[c] = [calls[c] EXCEPT !.pc = pc]
  OBVIOUS
<1>2. QED
  BY <1>1 DEF Asked

(* What a step of a call must do for what is said of the calls to hold.    *)
LEMMA CallGoes ==
  ASSUME TypeOK, ContextInv, NEW c \in Call,
         \A d \in Call : d # c => calls'[d] = calls[d],
         calls[c].pc \notin {"capturing", "checkpointing"},
         calls[c].pc \notin Before => calls'[c].pc \notin Before /\ calls'[c].request = calls[c].request,
         CallOk(calls'[c], disk, Now.revision), UNCHANGED <<log, disk>>
  PROVE  /\ \A d \in Call : calls[d].pc \in {"capturing", "checkpointing"} => calls'[d] = calls[d]
         /\ Freed(calls) => Freed(calls')
         /\ CallsOk'
<1>1. Freed(calls) => Freed(calls')
  <2>1. \A d \in Call : calls[d].pc \notin Before =>
          calls'[d].pc \notin Before /\ calls'[d].request = calls[d].request
    OBVIOUS
  <2>2. QED
    BY <2>1, FreedStays
<1>2. Now' = Now
  BY DEF Now
<1>3. \A d \in Call : CallOk(calls'[d], disk, Now.revision)
  BY DEF ContextInv, CallsOk
<1>4. QED
  BY <1>1, <1>2, <1>3 DEF CallsOk

(* A step of a tool call keeps what is said of the context.                *)
LEMMA CallStepKeeps ==
  ASSUME Types, ContextInv, NEW c \in Call, CallStep(c)
  PROVE  ContextInv' /\ GoesForward
<1>0. /\ TypeOK /\ CallsBegun /\ calls \in [Call -> Asked] /\ calls[c] \in Asked /\ Now.revision \in Nat
      /\ Now \in [user : Nat, revision : Nat] /\ CallOk(calls[c], disk, Now.revision)
      /\ disk \in Snapshot \cup {None} /\ c # None
  BY LatestIs, CheckpointAssumption DEF Types, CheckpointTypes, TypeOK, ContextInv, CallsOk
<1>a. calls[c].asked \in Nat
  BY <1>0 DEF Asked
<1>1. CASE HistoryRead(c)
  <2>1. /\ calls[c].pc = "reading" /\ UNCHANGED <<log, states, saved, running, orphan, disk, unsure>>
        /\ calls' = [calls EXCEPT ![c].pc = IF watched THEN "capturing" ELSE "unavailable"]
    BY <1>1 DEF HistoryRead, Goes, session
  <2>2. /\ calls'[c].pc = (IF watched THEN "capturing" ELSE "unavailable")
        /\ calls'[c].request = calls[c].request /\ calls'[c].asked = calls[c].asked
        /\ \A d \in Call : d # c => calls'[d] = calls[d]
    BY <1>0, <2>1, MoveIs
  <2>3. CallOk(calls'[c], disk, Now.revision)
    BY <1>0, <2>1, <2>2 DEF CallOk
  <2>4. /\ \A d \in Call : calls[d].pc \in {"capturing", "checkpointing"} => calls'[d] = calls[d]
        /\ Freed(calls) => Freed(calls')
        /\ CallsOk'
    BY <1>0, <2>1, <2>2, <2>3, CallGoes DEF Before
  <2>5. CASE watched
    <3>1. queue' = Append(queue, Capture(c)) /\ Capture(c) \in Operation
      BY <1>0, <1>1, <2>5, CaptureTypes DEF HistoryRead
    <3>2. /\ Capture(c).seen = Now /\ Capture(c).by = c /\ Capture(c).kind = "capture"
      BY DEF Capture
    <3>3. Fits(Capture(c), calls', Now.revision)
      BY <1>0, <1>a, <2>1, <2>2, <2>5, <3>2 DEF Fits, CallOk
    <3>4. QED
      BY <1>0, <2>1, <2>4, <3>1, <3>2, <3>3, AppendKeeps
  <2>6. CASE ~watched
    <3>1. queue' = queue
      BY <1>1, <2>6 DEF HistoryRead
    <3>2. QED
      BY <1>0, <2>1, <2>4, <3>1, CallsMoveKeep
  <2>7. QED
    BY <2>5, <2>6
<1>2. CASE Captured(c)
  <2>1. /\ calls[c].pc = "captured" /\ UNCHANGED <<log, states, saved, running, orphan, disk, unsure>>
        /\ calls' = [calls EXCEPT ![c].pc = IF watched THEN "checkpointing" ELSE "unavailable"]
    BY <1>2 DEF Captured, Goes, session
  <2>2. /\ calls'[c].pc = (IF watched THEN "checkpointing" ELSE "unavailable")
        /\ calls'[c].request = calls[c].request /\ calls'[c].asked = calls[c].asked
        /\ \A d \in Call : d # c => calls'[d] = calls[d]
    BY <1>0, <2>1, MoveIs
  <2>3. CallOk(calls'[c], disk, Now.revision)
    BY <1>0, <2>1, <2>2 DEF CallOk
  <2>4. /\ \A d \in Call : calls[d].pc \in {"capturing", "checkpointing"} => calls'[d] = calls[d]
        /\ Freed(calls) => Freed(calls')
        /\ CallsOk'
    BY <1>0, <2>1, <2>2, <2>3, CallGoes DEF Before
  <2>5. CASE watched
    <3> DEFINE op == [Capture(c) EXCEPT !.kind = "checkpoint",
                                        !.task = calls[c].request.task, !.action = calls[c].request.action]
    <3>1. calls[c].request \in Request
      BY <1>0, <2>1 DEF CallsBegun, Begun
    <3>2. Capture(c) \in Operation
      BY <1>0, CaptureTypes
    <3>3. op \in Operation /\ op.seen = Now /\ op.by = c /\ op.kind = "checkpoint" /\ op.task = calls[c].request.task
      <4>1. Capture(c).seen = Now /\ Capture(c).by = c
        BY DEF Capture
      <4>2. calls[c].request.task \in Task /\ calls[c].request.action \in Action
        BY <3>1 DEF Request
      <4>3. QED
        BY <3>2, <4>1, <4>2 DEF Operation
    <3>4. queue' = Append(queue, op)
      BY <1>2, <2>5 DEF Captured
    <3> HIDE DEF op
    <3>5. Fits(op, calls', Now.revision)
      BY <1>0, <1>a, <2>1, <2>2, <2>5, <3>3 DEF Fits, CallOk
    <3>6. QED
      BY <1>0, <2>1, <2>4, <3>3, <3>4, <3>5, AppendKeeps
  <2>6. CASE ~watched
    <3>1. queue' = queue
      BY <1>2, <2>6 DEF Captured
    <3>2. QED
      BY <1>0, <2>1, <2>4, <3>1, CallsMoveKeep
  <2>7. QED
    BY <2>5, <2>6
<1>3. CASE RecordUpdates(c)
  <2>1. /\ calls[c].pc = "recording"
        /\ UNCHANGED <<log, states, saved, queue, running, orphan, disk, unsure>>
        /\ \E pc \in {"unavailable", "failed", "listing"} : calls' = [calls EXCEPT ![c].pc = pc]
    BY <1>3 DEF RecordUpdates, Goes, contexts, memory
  <2>2. PICK pc \in {"unavailable", "failed", "listing"} : calls' = [calls EXCEPT ![c].pc = pc]
    BY <2>1
  <2>3. /\ calls'[c].pc = pc /\ calls'[c].request = calls[c].request /\ calls'[c].asked = calls[c].asked
        /\ calls'[c].context = calls[c].context /\ \A d \in Call : d # c => calls'[d] = calls[d]
    BY <1>0, <2>2, MoveIs
  <2>4. CallOk(calls'[c], disk, Now.revision)
    BY <1>0, <2>1, <2>3 DEF CallOk
  <2>5. QED
    BY <1>0, <2>1, <2>3, <2>4, CallGoes, CallsMoveKeep DEF Before
<1>4. CASE ListFindings(c)
  <2>1. /\ calls[c].pc = "listing"
        /\ UNCHANGED <<log, states, saved, queue, running, orphan, disk, unsure>>
        /\ calls' = [calls EXCEPT ![c].pc = "notes", ![c].all = rows]
    BY <1>4 DEF ListFindings, contexts, memory, session
  <2>2. calls'[c] = [calls[c] EXCEPT !.pc = "notes", !.all = rows] /\ \A d \in Call : d # c => calls'[d] = calls[d]
    BY <1>0, <2>1
  <2>3. /\ calls'[c].pc = "notes" /\ calls'[c].request = calls[c].request /\ calls'[c].asked = calls[c].asked
        /\ calls'[c].context = calls[c].context
    BY <1>0, <2>2 DEF Asked
  <2>4. CallOk(calls'[c], disk, Now.revision)
    BY <1>0, <2>1, <2>3 DEF CallOk
  <2>5. QED
    BY <1>0, <2>1, <2>2, <2>3, <2>4, CallGoes, CallsMoveKeep DEF Before
<1>5. CASE ReadNotes(c)
  <2> DEFINE answer == Report(calls[c].all, calls[c].context, calls[c].request)
             pc == IF watched THEN "returned" ELSE "unavailable"
  <2>1. /\ calls[c].pc = "notes"
        /\ UNCHANGED <<log, states, saved, queue, running, orphan, disk, unsure>>
        /\ calls' = [calls EXCEPT ![c].pc = pc, ![c].report = answer]
    BY <1>5 DEF ReadNotes, contexts, memory, session
  <2>p. pc \in {"returned", "unavailable"}
    OBVIOUS
  <2> HIDE DEF answer, pc
  <2>2. calls'[c] = [calls[c] EXCEPT !.pc = pc, !.report = answer] /\ \A d \in Call : d # c => calls'[d] = calls[d]
    BY <1>0, <2>1
  <2>3. /\ calls'[c].pc = pc /\ calls'[c].request = calls[c].request /\ calls'[c].asked = calls[c].asked
        /\ calls'[c].context = calls[c].context
    BY <1>0, <2>2 DEF Asked
  <2>4. CallOk(calls'[c], disk, Now.revision)
    BY <1>0, <2>1, <2>p, <2>3 DEF CallOk
  <2>5. QED
    BY <1>0, <2>1, <2>p, <2>2, <2>3, <2>4, CallGoes, CallsMoveKeep DEF Before
<1>6. ASSUME NEW request, NEW seen, Execute(c, request, seen)
      PROVE  ContextInv' /\ GoesForward
  <2>1. /\ calls[c].pc = "unused"
        /\ UNCHANGED <<log, states, saved, queue, running, orphan, disk, unsure>>
        /\ calls' = [calls EXCEPT ![c].pc = "reading", ![c].request = request, ![c].seen = seen,
                                  ![c].asked = Now.revision]
    BY <1>6 DEF Execute, contexts, memory
  <2>2. /\ calls'[c] = [calls[c] EXCEPT !.pc = "reading", !.request = request, !.seen = seen, !.asked = Now.revision]
        /\ \A d \in Call : d # c => calls'[d] = calls[d]
    BY <1>0, <2>1
  <2>3. calls'[c].pc = "reading" /\ calls'[c].asked = Now.revision
    BY <1>0, <2>2 DEF Asked
  <2>4. CallOk(calls'[c], disk, Now.revision)
    BY <1>0, <2>3 DEF CallOk
  <2>5. QED
    BY <1>0, <2>1, <2>2, <2>3, <2>4, CallGoes, CallsMoveKeep DEF Before
<1>7. QED
  BY <1>1, <1>2, <1>3, <1>4, <1>5, <1>6 DEF CallStep

(* What the user, the transcript and the reviewers do keeps what is said   *)
(* of the context.                                                         *)
LEMMA WorldStepKeeps ==
  ASSUME Types, ContextInv, WorldStep
  PROVE  ContextInv' /\ GoesForward
<1>0. /\ TypeOK /\ Now \in [user : Nat, revision : Nat] /\ Now.revision \in Nat /\ Now.revision >= Now.revision
      /\ calls \in [Call -> Asked] /\ states \in Snapshot \cup {None} /\ users \in Nat
      /\ log \in Seq([user : Nat, revision : Nat]) /\ log # <<>> /\ Alike(states, states)
  BY LatestIs DEF Types, CheckpointTypes, TypeOK, Alike
<1>t. ASSUME NEW u \in Nat, Told(u) PROVE Alike(states, states')
  <2>1. CASE states' = states
    BY <1>0, <2>1
  <2>2. CASE states # None /\ states' = [states EXCEPT !.user = u, !.action = None]
    <3>1. states \in Snapshot
      BY <1>0, <2>2
    <3>2. states' \in Snapshot
      BY <2>2, <3>1 DEF Snapshot, Action
    <3>3. QED
      BY <2>2, <3>1, <3>2, CheckpointAssumption DEF Alike, Snapshot
  <2>3. QED
    BY <1>t, <2>1, <2>2 DEF Told
<1>1. CASE Watch
  <2>1. UNCHANGED <<log, states, saved, queue, running, orphan, disk, unsure, calls>>
    BY <1>1 DEF Watch, contexts, memory
  <2>2. Now' = Now
    BY <2>1 DEF Now
  <2>3. QED
    BY <1>0, <2>1, <2>2, ContextInvStays DEF GoesForward
<1>2. CASE UserMessage
  <2> DEFINE next == [Now EXCEPT !.user = @ + 1]
  <2>1. /\ log' = Append(log, next) /\ Told(Now.user + 1)
        /\ UNCHANGED <<saved, queue, running, orphan, disk, unsure, calls>>
    BY <1>2 DEF UserMessage, Turn
  <2>2. next \in [user : Nat, revision : Nat] /\ next.revision = Now.revision /\ Now.user + 1 \in Nat
    BY <1>0
  <2> HIDE DEF next
  <2>3. Now' = next
    BY <1>0, <2>1, <2>2, LatestAppended
  <2>4. Alike(states, states')
    BY <1>t, <2>1, <2>2
  <2>5. QED
    BY <1>0, <2>1, <2>2, <2>3, <2>4, ContextInvStays DEF GoesForward
<1>3. CASE Work
  <2> DEFINE next == [Now EXCEPT !.revision = @ + 1]
  <2>1. log' = Append(log, next) /\ UNCHANGED <<states, saved, queue, running, orphan, disk, unsure, calls>>
    BY <1>3 DEF Work, Turn, contexts, memory
  <2>2. /\ next \in [user : Nat, revision : Nat] /\ next.revision = Now.revision + 1
        /\ next.revision >= Now.revision /\ next.revision \in Nat
    BY <1>0
  <2> HIDE DEF next
  <2>3. Now' = next
    BY <1>0, <2>1, <2>2, LatestAppended
  <2>4. QED
    BY <1>0, <2>1, <2>2, <2>3, ContextInvStays DEF GoesForward
<1>4. CASE PassCaptures
  <2>1. /\ queue' = Append(queue, Capture(None))
        /\ UNCHANGED <<log, states, saved, running, orphan, disk, unsure, calls>>
    BY <1>4 DEF PassCaptures
  <2>2. Capture(None) \in Operation
    BY <1>0, CaptureTypes
  <2>3. Capture(None).seen = Now /\ Capture(None).by = None /\ Capture(None).kind = "capture"
    BY DEF Capture
  <2>4. Fits(Capture(None), calls', Now.revision)
    BY <1>0, <2>3 DEF Fits
  <2>5. CallsOk'
    BY <2>1 DEF ContextInv, CallsOk, Now
  <2>6. QED
    BY <1>0, <2>1, <2>2, <2>3, <2>4, <2>5, AppendKeeps
<1>5. ASSUME NEW u \in 1..Now.user, UserEvent(u) PROVE ContextInv' /\ GoesForward
  <2>1. /\ Told(u) /\ u \in Nat
        /\ UNCHANGED <<log, saved, queue, running, orphan, disk, unsure, calls>>
    BY <1>0, <1>5 DEF UserEvent, session
  <2>2. Now' = Now /\ Alike(states, states')
    BY <1>t, <2>1 DEF Now
  <2>3. QED
    BY <1>0, <2>1, <2>2, ContextInvStays DEF GoesForward
<1>6. ASSUME NEW f \in Finding, RecordFinding(f) \/ (\E how \in {"expired", "lost"} : LoseReport(f, how))
      PROVE  ContextInv' /\ GoesForward
  <2>1. UNCHANGED <<log, states, saved, queue, running, orphan, disk, unsure, calls>>
    BY <1>6 DEF RecordFinding, LoseReport, contexts, memory
  <2>2. Now' = Now
    BY <2>1 DEF Now
  <2>3. QED
    BY <1>0, <2>1, <2>2, ContextInvStays DEF GoesForward
<1>7. QED
  BY <1>1, <1>2, <1>3, <1>4, <1>5, <1>6 DEF WorldStep

(* A session is forgotten: what waits fails, and a write that is under way *)
(* answers its caller only.                                                *)
LEMMA ForgetKeeps ==
  ASSUME Types, ContextInv, Forget
  PROVE  ContextInv' /\ GoesForward
<1> DEFINE saving == running # None /\ running.phase = "saving"
           failing == {queue[i].by : i \in DOMAIN queue}
                        \cup (IF running # None /\ ~saving THEN {running.by} ELSE {})
<1>0. /\ TypeOK /\ Now' = Now /\ Now.revision \in Nat /\ calls \in [Call -> Asked] /\ queue \in Seq(Operation)
      /\ disk \in Snapshot \cup {None} /\ running \in Operation \cup {None} /\ DOMAIN queue = 1..Len(queue)
      /\ QueueOk /\ RunningOk /\ DiskOk /\ CallsOk
  BY LatestIs, LenProperties DEF Types, CheckpointTypes, TypeOK, Now, ContextInv, Forget
<1>1. /\ states' = None /\ saved' = None /\ queue' = <<>> /\ running' = None /\ UNCHANGED <<log, disk, unsure>>
      /\ orphan = None /\ orphan' = IF saving THEN running ELSE None
      /\ calls' = [c \in Call |-> IF c \in failing THEN [calls[c] EXCEPT !.pc = "failed"] ELSE calls[c]]
  BY DEF Forget
<1>2. ASSUME NEW c \in Call, c \in failing
      PROVE  calls[c].pc \in {"capturing", "checkpointing"} /\ ~(saving /\ running.by = c)
  <2>0. c # None
    BY CheckpointAssumption
  <2>1. ASSUME NEW i \in 1..Len(queue), c = queue[i].by
        PROVE  calls[c].pc \in {"capturing", "checkpointing"} /\ ~(saving /\ running.by = c)
    <3>1. Fits(queue[i], calls, Now.revision) /\ (running # None => Apart(running, queue[i]))
      BY <1>0 DEF QueueOk, RunningOk, InOrder
    <3>2. QED
      BY <2>0, <2>1, <3>1 DEF Fits, Apart
  <2>2. ASSUME running # None, ~saving, c = running.by
        PROVE  calls[c].pc \in {"capturing", "checkpointing"}
    <3>1. Fits(running, calls, Now.revision)
      BY <1>0, <2>2 DEF RunningOk
    <3>2. QED
      BY <2>0, <2>2, <3>1 DEF Fits
  <2>3. (\E i \in 1..Len(queue) : c = queue[i].by) \/ (running # None /\ ~saving /\ c = running.by)
    BY <1>0, <1>2
  <2>4. QED
    BY <2>1, <2>2, <2>3
<1> HIDE DEF saving, failing
<1>3. ASSUME NEW c \in Call
      PROVE  /\ c \notin failing => calls'[c] = calls[c]
             /\ c \in failing => calls'[c].pc = "failed" /\ calls'[c].request = calls[c].request
                                 /\ calls'[c].asked = calls[c].asked
  <2>1. calls[c] \in Asked /\ calls'[c] = IF c \in failing THEN [calls[c] EXCEPT !.pc = "failed"] ELSE calls[c]
    BY <1>0, <1>1
  <2>2. QED
    BY <2>1 DEF Asked
<1>4. QueueOk' /\ RunningOk' /\ SavedOk'
  BY <1>1, LenProperties DEF QueueOk, RunningOk, SavedOk
<1>5. OrphanOk'
  <2>1. SUFFICES ASSUME saving PROVE OrphanOk'
    BY <1>1 DEF OrphanOk
  <2>2. /\ running \in Operation /\ orphan' = running
        /\ Fits(running, calls, Now.revision) /\ Stored(running, disk, calls)
    BY <1>0, <1>1, <2>1 DEF RunningOk, saving
  <2>3. running.by # None => calls'[running.by] = calls[running.by]
    BY <1>2, <1>3, <2>1, <2>2 DEF Operation
  <2>r. Now.revision <= Now.revision /\ (disk # None => disk.revision <= disk.revision)
    BY <1>0 DEF Snapshot
  <2>4. Fits(running, calls', Now.revision)
    BY <1>0, <2>r, <2>2, <2>3, FitsStays
  <2>5. Stored(running, disk, calls')
    BY <1>0, <2>r, <2>2, <2>3, StoredStays
  <2>6. QED
    BY <1>0, <1>1, <2>2, <2>4, <2>5, LenProperties DEF OrphanOk
<1>6. DiskOk'
  BY <1>0, <1>1 DEF DiskOk
<1>7. CallsOk'
  <2>1. ASSUME NEW c \in Call PROVE CallOk(calls'[c], disk, Now.revision)
    <3>1. CallOk(calls[c], disk, Now.revision)
      BY <1>0 DEF CallsOk
    <3>2. CASE c \in failing
      BY <1>2, <1>3, <3>1, <3>2 DEF CallOk
    <3>3. CASE c \notin failing
      BY <1>3, <3>1, <3>3
    <3>4. QED
      BY <3>2, <3>3
  <2>2. QED
    BY <1>0, <1>1, <2>1 DEF CallsOk
<1>8. QED
  BY <1>1, <1>4, <1>5, <1>6, <1>7 DEF ContextInv, GoesForward

(* Every step keeps what is said of the context, and lets the stored one   *)
(* only go forward.                                                        *)
LEMMA ContextInvKept ==
  ASSUME Types, ContextInv, [Next]_vars
  PROVE  ContextInv' /\ GoesForward
<1>0. TypeOK /\ Now \in [user : Nat, revision : Nat] /\ Alike(states, states)
  BY LatestIs DEF Types, CheckpointTypes, TypeOK, Alike
<1>1. CASE ContextStep
  BY <1>0, <1>1, BeginKeeps, LoadedKeeps, WriteReturnsKeeps, OrphanReturnsKeeps DEF ContextStep
<1>2. CASE UNCHANGED <<log, states, saved, queue, running, orphan, disk, unsure, calls>>
  <2>1. Now' = Now /\ Now.revision >= Now.revision
    BY <1>0, <1>2 DEF Now
  <2>2. QED
    BY <1>0, <1>2, <2>1, ContextInvStays DEF GoesForward
<1>3. InjectionStep \/ UNCHANGED vars =>
        UNCHANGED <<log, states, saved, queue, running, orphan, disk, unsure, calls>>
  <2>1. InjectionStep => UNCHANGED <<log, states, saved, queue, running, orphan, disk, unsure, calls>>
    BY DEF InjectionStep, Transform, Transformed, MarkCompacting, Compacted, Deliver, DeliverDecides, CardShown,
       checkpointVars, session, contexts, memory
  <2>2. QED
    BY <2>1 DEF vars, checkpointVars, session, contexts, memory
<1>4. QED
  BY <1>1, <1>2, <1>3, WorldStepKeeps, ForgetKeeps, CallStepKeeps, CheckpointStepIs

(* A session that is not watched stays out of memory: nothing that was     *)
(* under way when it was forgotten brings it back.                         *)
LEMMA ForgottenKept ==
  ASSUME ForgottenLeavesNothing, [Next]_vars
  PROVE  ForgottenLeavesNothing'
<1> USE DEF ForgottenLeavesNothing
<1>1. CASE InjectionStep \/ UNCHANGED vars
  BY <1>1 DEF InjectionStep, Transform, Transformed, MarkCompacting, Compacted, Deliver, DeliverDecides, CardShown,
     vars, checkpointVars, session, contexts, memory
<1>2. CASE ContextStep
  BY <1>2 DEF ContextStep, Begin, Loaded, WriteReturns, OrphanReturns, session
<1>3. CASE WorldStep
  BY <1>3 DEF WorldStep, Watch, UserMessage, Work, Turn, Told, PassCaptures, UserEvent, RecordFinding, LoseReport,
     contexts, memory, session
<1>4. CASE Forget
  BY <1>4 DEF Forget
<1>5. ASSUME NEW c \in Call, CallStep(c) PROVE ForgottenLeavesNothing'
  BY <1>5 DEF CallStep, HistoryRead, Captured, RecordUpdates, ListFindings, ReadNotes, Execute, contexts, memory,
     session
<1>6. QED
  BY <1>1, <1>2, <1>3, <1>4, <1>5, CheckpointStepIs

(* Nothing is in memory or on disk at the beginning.                       *)
LEMMA InitContext ==
  ASSUME Init
  PROVE  ContextInv /\ ForgottenLeavesNothing
<1>1. /\ queue = <<>> /\ Len(queue) = 0 /\ running = None /\ orphan = None
      /\ states = None /\ saved = None /\ disk = None
  BY DEF Init, CheckpointInit
<1>2. \A c \in Call : calls[c].pc = "unused"
  BY DEF Init, CheckpointInit, NewCall
<1>3. QueueOk /\ RunningOk /\ OrphanOk /\ SavedOk /\ DiskOk
  BY <1>1 DEF QueueOk, RunningOk, OrphanOk, SavedOk, DiskOk
<1>4. CallsOk
  BY <1>2 DEF CallsOk, CallOk
<1>5. QED
  BY <1>1, <1>3, <1>4 DEF ContextInv, ForgottenLeavesNothing

(* The invariants of the whole component, together.                        *)
ContextsInv == Types /\ PromptInv /\ ContextInv /\ ForgottenLeavesNothing

(* They hold throughout.                                                   *)
LEMMA ContextsInductive == Spec => []ContextsInv
<1>1. Init => ContextsInv
  BY InitTypes, InitContext DEF ContextsInv
<1>2. ContextsInv /\ [Next]_vars => ContextsInv'
  BY TypesKept, PromptInvKept, ContextInvKept, ForgottenKept DEF ContextsInv
<1>3. QED
  BY <1>1, <1>2, PTL DEF Spec

(* What memory keeps of a session agrees with whether it is watched, with  *)
(* the row on disk and with a restart, for any calls, captures, forgets    *)
(* and failing writes (advisor/context.ts).                                *)
THEOREM ContextsAlwaysAgree == Spec => []ContextsAgree
<1>1. ContextsInv => ContextsAgree
  BY DEF ContextsInv, Types, CheckpointTypes, PromptInv, ContextInv, DiskOk, Agrees,
     RestartKeepsContext, ContextsAgree
<1>2. QED
  BY <1>1, ContextsInductive, PTL

(* The stored context only goes forward: to a later revision, and out of   *)
(* "stopped" only by a call that asked for it, however captures and        *)
(* checkpoints overlap at their awaits (advisor/context.ts).               *)
THEOREM StoredContextGoesForward == Spec => ContextGoesForward
<1>1. ContextsInv /\ [Next]_vars => GoesForward
  BY ContextInvKept DEF ContextsInv
<1>2. GoesForward =>
        [disk # None /\ disk' # disk =>
           /\ disk'.revision >= disk.revision
           /\ disk.stopped /\ ~disk'.stopped =>
                \E c \in Call : /\ calls[c].pc \notin {"unused", "reading", "capturing", "captured"}
                                /\ calls[c].request.task \in {"resume", "replace"}]_checkpointVars
  BY DEF GoesForward, Freed, Before
<1>3. QED
  BY <1>1, <1>2, ContextsInductive, PTL DEF Spec, ContextGoesForward

-----------------------------------------------------------------------------
(* The findings and the gates.                                             *)

RowOk(row) == row # None /\ row.proof # None => row.state = "open" /\ row.proof.opening = row.opening

(* An update leaves a proof only of the opening it was recorded in.        *)
LEMMA DisposeKeepsProofs ==
  ASSUME NEW row \in Row, RowOk(row), NEW u \in Disposition, NEW revision
  PROVE  RowOk(Dispose(row, u, revision))
<1> DEFINE opening == IF u.state = "open" /\ row.state # "open" THEN row.opening + 1 ELSE row.opening
           recorded == [revision |-> revision, in_scope |-> u.verification.in_scope,
                        action |-> u.verification.action, opening |-> opening]
           proof == IF u.verification # None /\ u.state = "open" THEN recorded
                    ELSE IF u.state # "open" \/ row.state # "open" THEN None ELSE row.proof
           after == [row EXCEPT !.state = u.state, !.version = @ + 1, !.opening = opening, !.proof = proof]
<1>1. Dispose(row, u, revision) = after
  BY DEF Dispose
<1>2. row # None
  BY CheckpointAssumption
<1>3. recorded.opening = opening
  OBVIOUS
<1>4. proof # None => u.state = "open" /\ proof.opening = opening
  <2>1. CASE u.verification # None /\ u.state = "open"
    BY <1>3, <2>1
  <2>2. CASE ~(u.verification # None /\ u.state = "open") /\ (u.state # "open" \/ row.state # "open")
    BY <2>2
  <2>3. CASE ~(u.verification # None /\ u.state = "open") /\ u.state = "open" /\ row.state = "open"
    BY <1>2, <2>3 DEF RowOk
  <2>4. QED
    BY <2>1, <2>2, <2>3
<1> HIDE DEF opening, proof
<1>5. after.state = u.state /\ after.opening = opening /\ after.proof = proof
  BY DEF Row
<1>6. QED
  BY <1>1, <1>4, <1>5 DEF RowOk

(* What is said of the rows and of the files of their reports.             *)
FindingsOk ==
  /\ \A f \in Finding : RowOk(rows[f])
  /\ \A f \in Finding : rows[f] = None => reports[f] = "none"

(* No finding is lost, and a report that has expired stays so.             *)
FindingsStay ==
  /\ \A f \in Finding : rows'[f] = None => rows[f] = None
  /\ \A f \in Finding : reports[f] = "expired" => reports'[f] = "expired"

(* A batch of updates leaves only proofs of the opening they were recorded *)
(* in, and loses no finding.                                               *)
LEMMA DisposedKeeps ==
  ASSUME rows \in [Finding -> Row \cup {None}], \A f \in Finding : RowOk(rows[f]),
         NEW request \in Request, NEW versions, NEW revision \in Nat,
         NEW table, table = Disposed(request.updates, versions, revision), table # None
  PROVE  \A f \in Finding : RowOk(table[f]) /\ (table[f] = None => rows[f] = None)
<1> DEFINE T == {t \in [Finding -> Row \cup {None}] :
                   \A f \in Finding : RowOk(t[f]) /\ (t[f] = None => rows[f] = None)}
<1>1. Len(request.updates) \in Nat /\ \A i \in 1..Len(request.updates) : request.updates[i] \in Disposition
  BY ElementOfSeq, LenProperties DEF Request
<1>2. ASSUME NEW t \in T, NEW i \in 1..Len(request.updates), Valid(t, request.updates[i], versions)
      PROVE  [t EXCEPT ![request.updates[i].id] = Dispose(@, request.updates[i], revision)] \in T
  <2> DEFINE u == request.updates[i]
             row == Dispose(t[u.id], u, revision)
  <2>1. u \in Disposition /\ u.id \in Finding
    BY <1>1 DEF Disposition
  <2>2. t[u.id] \in Row /\ RowOk(t[u.id])
    BY <1>2, <2>1 DEF Valid
  <2>3. row \in Row /\ RowOk(row) /\ row # None
    BY <2>1, <2>2, DisposeTypes, DisposeKeepsProofs, CheckpointAssumption
  <2> HIDE DEF row, u
  <2>4. [t EXCEPT ![u.id] = row] \in T
    BY <2>1, <2>3
  <2>5. QED
    BY <2>4 DEF row, u
<1>3. rows \in T
  OBVIOUS
<1> HIDE DEF T
<1>4. table \in T
  BY <1>1, <1>2, <1>3, BatchKeeps
<1>5. QED
  BY <1>4 DEF T

(* Every step keeps what is said of the findings.                          *)
LEMMA FindingsKept ==
  ASSUME Types, FindingsOk, [Next]_vars
  PROVE  FindingsOk' /\ FindingsStay
<1>0. /\ rows \in [Finding -> Row \cup {None}] /\ CallsBegun
      /\ reports \in [Finding -> {"none", "present", "expired", "lost"}]
  BY DEF Types, CheckpointTypes, TypeOK
<1>1. CASE UNCHANGED findings
  BY <1>1 DEF findings, FindingsOk, FindingsStay
<1>2. ASSUME NEW f \in Finding, RecordFinding(f) PROVE FindingsOk' /\ FindingsStay
  <2> DEFINE row == [task |-> states.task, revision |-> states.revision, state |-> "open",
                     version |-> 0, proof |-> None, opening |-> 1]
  <2>1. /\ rows[f] = None /\ rows' = [rows EXCEPT ![f] = row] /\ reports' = [reports EXCEPT ![f] = "present"]
    BY <1>2 DEF RecordFinding
  <2>2. RowOk(row)
    BY DEF RowOk
  <2>3. row # None
    <3>1. row \in Row
      <4>1. states \in Snapshot
        BY <1>2 DEF RecordFinding, Types, CheckpointTypes, TypeOK
      <4>2. QED
        BY <4>1 DEF Row, Snapshot
    <3>2. QED
      BY <3>1, CheckpointAssumption
  <2> HIDE DEF row
  <2>4. QED
    BY <1>0, <2>1, <2>2, <2>3 DEF FindingsOk, FindingsStay
<1>3. ASSUME NEW f \in Finding, NEW how \in {"expired", "lost"}, LoseReport(f, how)
      PROVE  FindingsOk' /\ FindingsStay
  <2>1. reports[f] = "present" /\ reports' = [reports EXCEPT ![f] = how] /\ rows' = rows
    BY <1>3 DEF LoseReport
  <2>2. QED
    BY <1>0, <2>1 DEF FindingsOk, FindingsStay
<1>4. ASSUME NEW c \in Call, RecordUpdates(c) PROVE FindingsOk' /\ FindingsStay
  <2> DEFINE table == Disposed(calls[c].request.updates, calls[c].seen, calls[c].context.revision)
  <2>1. calls[c].pc = "recording" /\ reports' = reports
    BY <1>4 DEF RecordUpdates
  <2>2. rows' = rows \/ (table # None /\ rows' = table)
    BY <1>4 DEF RecordUpdates
  <2>3. calls[c].request \in Request /\ calls[c].context.revision \in Nat
    BY <1>0, <2>1 DEF CallsBegun, Begun, Snapshot
  <2> HIDE DEF table
  <2>4. ASSUME table # None PROVE \A f \in Finding : RowOk(table[f]) /\ (table[f] = None => rows[f] = None)
    <3> DEFINE request == calls[c].request
               revision == calls[c].context.revision
    <3>1. /\ table = Disposed(request.updates, calls[c].seen, revision)
          /\ request \in Request /\ revision \in Nat /\ \A f \in Finding : RowOk(rows[f])
      BY <2>3 DEF table, FindingsOk
    <3> HIDE DEF request, revision
    <3>2. QED
      BY <1>0, <2>4, <3>1, DisposedKeeps
  <2>5. QED
    BY <2>1, <2>2, <2>4 DEF FindingsOk, FindingsStay
<1>5. QED
  BY <1>1, <1>2, <1>3, <1>4, CheckpointStepIs DEF InjectionStep, Transform, Transformed, MarkCompacting, Compacted,
     Deliver, DeliverDecides, CardShown, vars, checkpointVars, ContextStep, Begin, Loaded, WriteReturns,
     OrphanReturns, WorldStep, Watch, UserMessage, Work, Turn, PassCaptures, UserEvent, Forget, CallStep, HistoryRead,
     Captured, ListFindings, ReadNotes, Execute

(* No call has an answer but by the step that gives it.                    *)
LEMMA AnsweredBy ==
  ASSUME Types, [Next]_vars, NEW c \in Call, calls'[c].pc = "returned"
  PROVE  calls'[c] = calls[c] \/ (ReadNotes(c) /\ UNCHANGED findings)
<1>0. calls \in [Call -> Asked] /\ calls[c] \in Asked
  BY DEF Types, CheckpointTypes, TypeOK
<1>1. ASSUME NEW op, NEW ok
      PROVE  Settled(op, ok)[c] = calls[c] \/ Settled(op, ok)[c].pc # "returned"
  <2>1. CASE op.by = None \/ calls[op.by].pc \notin {"capturing", "checkpointing"} \/ op.by # c
    BY <1>0, <2>1 DEF Settled
  <2>2. CASE op.by = c /\ Settled(op, ok) \in
             {[calls EXCEPT ![c].pc = pc] : pc \in {"failed", "unavailable", "captured"}}
    <3>1. PICK pc \in {"failed", "unavailable", "captured"} : Settled(op, ok) = [calls EXCEPT ![c].pc = pc]
      BY <2>2
    <3>2. Settled(op, ok)[c].pc = pc
      BY <1>0, <3>1 DEF Asked
    <3>3. QED
      BY <3>1, <3>2
  <2>3. CASE op.by = c /\ Settled(op, ok) = [calls EXCEPT ![c].pc = "recording", ![c].context = op.value]
    <3>1. Settled(op, ok)[c] = [calls[c] EXCEPT !.pc = "recording", !.context = op.value]
      BY <1>0, <2>3
    <3>2. QED
      BY <1>0, <3>1 DEF Asked
  <2>4. QED
    BY <1>0, <2>1, <2>2, <2>3 DEF Settled
<1>2. CASE ContextStep
  <2>1. calls' = calls \/ \E op, ok : calls' = Settled(op, ok)
    <3>1. ASSUME NEW op, NEW loaded, NEW memo, Save(op, loaded, memo)
          PROVE  calls' = calls \/ \E done, ok : calls' = Settled(done, ok)
      BY <3>1 DEF Save, Ended
    <3>2. QED
      BY <1>2, <3>1 DEF ContextStep, Begin, Loaded, WriteReturns, OrphanReturns, Ended
  <2>2. QED
    BY <1>1, <2>1
<1>3. CASE Forget
  <2>1. calls'[c] = calls[c] \/ calls'[c] = [calls[c] EXCEPT !.pc = "failed"]
    BY <1>0, <1>3 DEF Forget
  <2>2. QED
    BY <1>0, <2>1 DEF Asked
<1>4. ASSUME NEW d \in Call, CallStep(d), d # c PROVE calls'[c] = calls[c]
  BY <1>0, <1>4 DEF CallStep, HistoryRead, Captured, RecordUpdates, ListFindings, ReadNotes, Execute, Goes
<1>5. CASE CallStep(c)
  <2>1. CASE ReadNotes(c)
    BY <2>1 DEF ReadNotes
  <2>2. CASE HistoryRead(c) \/ Captured(c) \/ RecordUpdates(c)
    <3>1. PICK pc \in {"capturing", "checkpointing", "unavailable", "failed", "listing"} :
            calls' = [calls EXCEPT ![c].pc = pc]
      BY <2>2 DEF HistoryRead, Captured, RecordUpdates, Goes
    <3>2. QED
      BY <1>0, <3>1, MoveIs
  <2>3. CASE ListFindings(c)
    <3>1. calls'[c] = [calls[c] EXCEPT !.pc = "notes", !.all = rows]
      BY <1>0, <2>3 DEF ListFindings
    <3>2. QED
      BY <1>0, <3>1 DEF Asked
  <2>4. ASSUME NEW request, NEW seen, Execute(c, request, seen) PROVE calls'[c].pc = "reading"
    <3>1. calls'[c] = [calls[c] EXCEPT !.pc = "reading", !.request = request, !.seen = seen, !.asked = Now.revision]
      BY <1>0, <2>4 DEF Execute
    <3>2. QED
      BY <1>0, <3>1 DEF Asked
  <2>5. QED
    BY <1>5, <2>1, <2>2, <2>3, <2>4 DEF CallStep
<1>6. InjectionStep \/ WorldStep \/ UNCHANGED vars => calls' = calls
  BY DEF InjectionStep, Transform, Transformed, MarkCompacting, Compacted, Deliver, DeliverDecides, CardShown,
     WorldStep, Watch, UserMessage, Work, Turn, PassCaptures, UserEvent, RecordFinding, LoseReport, vars,
     checkpointVars
<1>7. QED
  BY <1>2, <1>3, <1>4, <1>5, <1>6, CheckpointStepIs

(* What the answer of a call says of the findings it listed, as their      *)
(* reports are.                                                            *)
Gates(call, files) ==
  LET ctx == call.context
      open == {f \in Finding : LET row == call.all[f]
             IN row # None /\ row.state = "open" /\ row.task = ctx.task
                /\ row.proof # None /\ row.proof.in_scope /\ SeverityOf[f] # "nit"}
      atRisk == {f \in open : LET proof == call.all[f].proof
                 IN proof.revision = ctx.revision /\ proof.action = ctx.action /\ ctx.action # None
                    /\ SeverityOf[f] = "blocker" /\ files[f] # "expired"}
  IN /\ call.report.action_allowed => ~ctx.stopped /\ atRisk = {}
     /\ call.report.completion_allowed => open = {} \/ ctx.stopped

GatesOk == \A c \in Call : calls[c].pc = "returned" => Gates(calls[c], reports)

(* The gates of a report hold for the findings it was made from.           *)
LEMMA ReportGates ==
  ASSUME NEW call, call.report = Report(call.all, call.context, call.request)
  PROVE  Gates(call, reports)
<1> DEFINE ctx == call.context
           table == call.all
           listed == Listed(table, ctx, {call.request.updates[i].id : i \in DOMAIN call.request.updates})
           open == {f \in Finding : LET row == call.all[f]
                 IN row # None /\ row.state = "open" /\ row.task = ctx.task
                    /\ row.proof # None /\ row.proof.in_scope /\ SeverityOf[f] # "nit"}
           atRisk == {f \in open : LET proof == call.all[f].proof
                     IN proof.revision = ctx.revision /\ proof.action = ctx.action /\ ctx.action # None
                        /\ SeverityOf[f] = "blocker" /\ reports[f] # "expired"}
           paused == {f \in listed : Decision(f, table[f], ctx) = "pause"}
           undone == {f \in listed : IF reports[f] = "lost" THEN Active(table[f], ctx)
                                     ELSE NeedsDisposition(SeverityOf[f], table[f], ctx)}
<1>1. /\ call.report.action_allowed = (~ctx.stopped /\ paused = {})
      /\ call.report.completion_allowed = (undone = {})
  BY DEF Report
<1>2. ASSUME NEW f \in open, ~ctx.stopped
      PROVE  Active(table[f], ctx) /\ f \in listed
  BY <1>2 DEF Listed, Active
<1> HIDE DEF listed
<1>3. ASSUME NEW f \in atRisk, ~ctx.stopped PROVE f \in paused
  <2>1. Active(table[f], ctx) /\ f \in listed
    BY <1>2, <1>3
  <2>2. ActionAtRisk(table[f], ctx) /\ Current(table[f], ctx) /\ table[f].proof.in_scope
    BY DEF ActionAtRisk, Current
  <2>3. SeverityOf[f] = "blocker" /\ reports[f] # "expired" /\ table[f].state = "open"
    OBVIOUS
  <2>4. Decision(f, table[f], ctx) = "pause"
    BY <2>1, <2>2, <2>3 DEF Decision, Decide, DecideUnavailable
  <2>5. QED
    BY <2>1, <2>4
<1>4. ASSUME NEW f \in open, ~ctx.stopped PROVE f \in undone
  <2>1. Active(table[f], ctx) /\ f \in listed
    BY <1>2, <1>4
  <2>2. NeedsDisposition(SeverityOf[f], table[f], ctx)
    BY DEF NeedsDisposition
  <2>3. QED
    BY <2>1, <2>2
<1>5. Gates(call, reports) <=> /\ call.report.action_allowed => ~ctx.stopped /\ atRisk = {}
                               /\ call.report.completion_allowed => open = {} \/ ctx.stopped
  BY DEF Gates
<1> HIDE DEF paused, undone, ctx, open, atRisk
<1>6. QED
  BY <1>1, <1>3, <1>4, <1>5

(* What an answer says stays so: a call gets one answer, and a report that *)
(* has expired stays expired.                                              *)
LEMMA GatesKept ==
  ASSUME Types, FindingsOk, GatesOk, [Next]_vars
  PROVE  GatesOk'
<1>0. FindingsStay /\ calls \in [Call -> Asked]
  BY FindingsKept DEF Types, CheckpointTypes, TypeOK
<1>1. ASSUME NEW c \in Call, calls'[c].pc = "returned"
      PROVE  Gates(calls'[c], reports')
  <2>1. CASE calls'[c] = calls[c]
    <3>1. Gates(calls[c], reports)
      BY <1>1, <2>1 DEF GatesOk
    <3>2. QED
      BY <1>0, <2>1, <3>1 DEF Gates, FindingsStay
  <2>2. CASE ReadNotes(c) /\ UNCHANGED findings
    <3> DEFINE answer == Report(calls[c].all, calls[c].context, calls[c].request)
               pc == IF watched THEN "returned" ELSE "unavailable"
    <3>1. calls'[c] = [calls[c] EXCEPT !.pc = pc, !.report = answer] /\ calls[c] \in Asked
      BY <1>0, <2>2 DEF ReadNotes
    <3>2. reports' = reports
      BY <2>2 DEF findings
    <3> HIDE DEF answer, pc
    <3>3. /\ calls'[c].report = answer /\ calls'[c].all = calls[c].all /\ calls'[c].context = calls[c].context
          /\ calls'[c].request = calls[c].request
      BY <3>1 DEF Asked
    <3>4. calls'[c].report = Report(calls'[c].all, calls'[c].context, calls'[c].request)
      BY <3>3 DEF answer
    <3>5. QED
      BY <3>2, <3>4, ReportGates
  <2>3. QED
    BY <1>1, <2>1, <2>2, AnsweredBy
<1>2. QED
  BY <1>1 DEF GatesOk

(* No call is answered at the beginning.                                   *)
LEMMA InitGates ==
  ASSUME Init
  PROVE  FindingsOk /\ GatesOk
<1>1. \A c \in Call : calls[c].pc = "unused"
  BY DEF Init, CheckpointInit, NewCall
<1>2. QED
  BY <1>1 DEF FindingsOk, GatesOk, RowOk, Init, CheckpointInit

GatesInv == FindingsOk /\ GatesOk

(* They hold throughout.                                                   *)
LEMMA GatesInductive == Spec => []GatesInv
<1>1. Init => GatesInv
  BY InitGates DEF GatesInv
<1>2. ContextsInv /\ GatesInv /\ [Next]_vars => GatesInv'
  BY FindingsKept, GatesKept DEF GatesInv, ContextsInv
<1>3. QED
  BY <1>1, <1>2, ContextsInductive, PTL DEF Spec

(* What a checkpoint answers may be relied on: its gates cover every       *)
(* finding that was open when it listed them, as its report is then there, *)
(* lost or expired, a proof is of the present opening of its finding, and  *)
(* the context is no older than the session was when the call was made     *)
(* (plugin/checkpoint.ts, notes/queries.ts, policy.ts).                    *)
THEOREM GatesAlwaysHold == Spec => []GatesHold
<1>1. ContextsInv /\ GatesInv => GatesHold
  <2> SUFFICES ASSUME ContextsInv, GatesInv PROVE GatesHold
    OBVIOUS
  <2>1. ProofIsOfThisOpening
    BY DEF GatesInv, FindingsOk, RowOk, ProofIsOfThisOpening
  <2>2. ASSUME NEW c \in Call, calls[c].pc = "returned"
        PROVE  calls[c].context.revision >= calls[c].asked /\ Gates(calls[c], reports)
    <3>1. calls[c].context.revision \in Nat /\ calls[c].asked \in Nat
      BY <2>2 DEF ContextsInv, Types, CheckpointTypes, CallsBegun, Begun, Snapshot, TypeOK, Asked
    <3>2. QED
      BY <2>2, <3>1 DEF ContextsInv, ContextInv, CallsOk, CallOk, GatesInv, GatesOk
  <2>3. QED
    BY <2>1, <2>2 DEF GatesHold, GatesAreCurrent, Gates
<1>2. QED
  BY <1>1, ContextsInductive, GatesInductive, PTL
=============================================================================
