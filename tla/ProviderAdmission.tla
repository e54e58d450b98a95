------------------------- MODULE ProviderAdmission -------------------------
(***************************************************************************)
(* Per-provider permits of one process (advisor/admission.ts) and the two  *)
(* places that use them: the attempt that waits for a permit               *)
(* (advisor/attempt.ts) and the plugin instances that share a pool         *)
(* (processAdmission, releaseProcessAdmission).                            *)
(*                                                                         *)
(* acquire(), its abort listener, a release and the code after an await    *)
(* are each one step of the event loop.  A permit is held until there is   *)
(* evidence that the provider finished, so nothing bounds how long.        *)
(***************************************************************************)
EXTENDS Naturals, Sequences, SequencesExt, FiniteSets

CONSTANTS
  Runtime,      \* plugin instances of the process with the same data directory
  Provider,     \* provider IDs
  Call,         \* callers of acquire(), each reused for one attempt at a time
  Pool,         \* ProviderAdmission objects that can exist together
  RuntimeOf, ProviderOf, RootOf, AttemptOf,  \* the arguments of a call
  limit,        \* max_concurrent_passes_per_provider; 0 is unlimited
  None

ASSUME AdmissionAssumption ==
  /\ limit \in Nat
  /\ RuntimeOf \in [Call -> Runtime]
  /\ ProviderOf \in [Call -> Provider]
  /\ IsFiniteSet(Call)
  /\ None \notin Pool \cup Call \cup {RootOf[c] : c \in Call}

VARIABLES
  entry,      \* the pool in the module's map, or None
  owners,     \* the entry's owner count
  attached,   \* [Runtime -> the pool it got from processAdmission, or None]
  buckets,    \* [Pool \X Provider -> bucket]
  attempts,   \* #attempts: [Pool -> [attempt ID -> call or None]]
  status,     \* where each call stands
  pool,       \* the pool each call was made on
  gaveUp      \* the call's signal was aborted after it was queued

vars == <<entry, owners, attached, buckets, attempts, status, pool, gaveUp>>

Root == {RootOf[c] : c \in Call}
AttemptID == {AttemptOf[c] : c \in Call}

(* "granted" is between the bucket's resolve and the code after acquire's  *)
(* await; "held" is a permit its caller has not released.                  *)
Status == {"new", "queued", "granted", "held", "released", "refused"}

Bucket == [present : BOOLEAN, active : Nat, lastRoot : Root \cup {None}, queue : Seq(Call)]

NoBucket == [present |-> FALSE, active |-> 0, lastRoot |-> None, queue |-> <<>>]

TypeOK ==
  /\ entry \in Pool \cup {None}
  /\ owners \in Nat
  /\ attached \in [Runtime -> Pool \cup {None}]
  /\ buckets \in [Pool \X Provider -> Bucket]
  /\ attempts \in [Pool -> [AttemptID -> Call \cup {None}]]
  /\ status \in [Call -> Status]
  /\ pool \in [Call -> Pool \cup {None}]
  /\ gaveUp \in [Call -> BOOLEAN]

Init ==
  /\ entry = None
  /\ owners = 0
  /\ attached = [r \in Runtime |-> None]
  /\ buckets = [b \in Pool \X Provider |-> NoBucket]
  /\ attempts = [p \in Pool |-> [id \in AttemptID |-> None]]
  /\ status = [c \in Call |-> "new"]
  /\ pool = [c \in Call |-> None]
  /\ gaveUp = [c \in Call |-> FALSE]

BucketOf(c) == <<pool[c], ProviderOf[c]>>
HasPermit(c) == status[c] \in {"granted", "held"}

----------------------------------------------------------------------------
(* The bucket's loop.                                                      *)

(* The abort listener's filter: a call stands in its queue at most once.   *)
Without(q, c) == RemoveAt(q, CHOOSE i \in DOMAIN q : q[i] = c)

\* Mutant: one permit below the limit is never granted.
RoomForTwo(b) == limit = 0 \/ b.active + 1 < limit

HasRoom(b) == limit = 0 \/ b.active < limit

\* Mutant: the last one in the queue is served first.
NewestWaiter(b) == Len(b.queue)

(* The first waiter of another root than the last one served, else the     *)
(* first waiter.                                                           *)
NextWaiter(b) ==
  LET others == {i \in DOMAIN b.queue : RootOf[b.queue[i]] # b.lastRoot}
  IN IF others = {} THEN 1 ELSE CHOOSE i \in others : \A j \in others : i <= j

(* A waiter whose signal is aborted was already taken out of the queue by  *)
(* its listener, so the loop's second test for it never applies.           *)
Granted(b) == IF b.queue # <<>> /\ HasRoom(b) THEN {b.queue[NextWaiter(b)]} ELSE {}

Cleaned(b) == IF b.active = 0 /\ b.queue = <<>> THEN NoBucket ELSE b

(* #drain.  Waiters queue only while the bucket is full (QueueOnlyWhenFull) *)
(* so one turn of its loop is all a push or a release can need.             *)
Drained(b) ==
  IF Granted(b) = {}
  THEN Cleaned(b)
  ELSE LET i == NextWaiter(b)
       IN [b EXCEPT !.active = @ + 1,
                    !.lastRoot = RootOf[b.queue[i]],
                    !.queue = RemoveAt(@, i)]

(* Puts b back drained, with the effect on its waiters and on the pool map: *)
(* the idle callback drops a pool nobody owns once its last bucket is gone. *)
Drain(key, b, state) ==
  /\ buckets' = [buckets EXCEPT ![key] = Drained(b)]
  /\ status' = [c \in Call |-> IF c \in Granted(b) THEN "granted" ELSE state[c]]
  /\ entry' = IF /\ entry = key[1] /\ owners = 0
                 /\ \A v \in Provider : ~buckets'[<<key[1], v>>].present
              THEN None
              ELSE entry

----------------------------------------------------------------------------
(* Calls.                                                                  *)

(* acquire(): its runtime is not disposed and its signal not aborted. *)
Acquire(c) ==
  LET p == attached[RuntimeOf[c]]
      key == <<p, ProviderOf[c]>>
  IN /\ p # None
     /\ status[c] \in {"new", "released", "refused"}
     /\ pool' = [pool EXCEPT ![c] = p]
     /\ gaveUp' = [gaveUp EXCEPT ![c] = FALSE]
     /\ Drain(key,
              [buckets[key] EXCEPT !.present = TRUE, !.queue = Append(@, c)],
              [status EXCEPT ![c] = "queued"])
     /\ UNCHANGED <<owners, attached, attempts>>

(* The signal is aborted: a queued waiter leaves the queue; a waiter that  *)
(* was granted a permit but has not resumed gave up on it.                 *)
Abort(c) ==
  /\ IF status[c] = "queued"
     THEN /\ Drain(BucketOf(c),
                   [buckets[BucketOf(c)] EXCEPT !.queue = Without(@, c)],
                   [status EXCEPT ![c] = "refused"])
          /\ UNCHANGED gaveUp
     ELSE /\ status[c] = "granted" /\ ~gaveUp[c]
          /\ gaveUp' = [gaveUp EXCEPT ![c] = TRUE]
          /\ UNCHANGED <<buckets, status, entry>>
  /\ UNCHANGED <<owners, attached, attempts, pool>>

\* Mutant: permits are not registered by attempt.
NeverRegistered(c) == None

Registered(c) == attempts[pool[c]][AttemptOf[c]]

(* A permit given back: only once, and only its own registration goes.     *)
GiveBack(c) ==
  /\ Drain(BucketOf(c),
           [buckets[BucketOf(c)] EXCEPT !.active = @ - 1],
           [status EXCEPT ![c] = "released"])
  /\ attempts' = IF Registered(c) = c
                 THEN [attempts EXCEPT ![pool[c]][AttemptOf[c]] = None]
                 ELSE attempts
  /\ UNCHANGED <<owners, attached, pool, gaveUp>>

(* A permit nobody waits for any more is given back at once, after its     *)
(* registration replaced an older one with the same ID (attempt.ts:44-46). *)
ReturnUnwanted(c) ==
  /\ Drain(BucketOf(c),
           [buckets[BucketOf(c)] EXCEPT !.active = @ - 1],
           [status EXCEPT ![c] = "released"])
  /\ attempts' = [attempts EXCEPT ![pool[c]][AttemptOf[c]] = None]
  /\ UNCHANGED <<owners, attached, pool, gaveUp>>

(* The code after acquire's await. *)
Resume(c) ==
  /\ status[c] = "granted"
  /\ IF gaveUp[c]
     THEN ReturnUnwanted(c)
     ELSE /\ attempts' = [attempts EXCEPT ![pool[c]][AttemptOf[c]] = c]
          /\ status' = [status EXCEPT ![c] = "held"]
          /\ UNCHANGED <<entry, owners, attached, buckets, pool, gaveUp>>

\* Mutant: a permit may be given back again.
ReleaseEveryTime(c) == HasPermit(c) \/ status[c] = "released"

(* The permit's released flag: a second release does nothing. *)
Releasable(c) == status[c] = "held"

(* The attempt has evidence that its request ended (attempt.ts:78,102,115, *)
(* 134,149).  Several of these may run for one permit.                     *)
Release(c) == Releasable(c) /\ GiveBack(c)

(* Restart recovery found a terminal message or a confirmed abort for an   *)
(* attempt of this process (restart.ts:24,50).                             *)
ReleaseAttempt(p, id) ==
  LET c == attempts[p][id]
  IN c # None /\ Releasable(c) /\ GiveBack(c)

----------------------------------------------------------------------------
(* Plugin instances.                                                       *)

Busy(p) == \E v \in Provider : buckets[<<p, v>>].present

(* processAdmission(): the pool in the map, or a new object. *)
Attach(r) ==
  /\ attached[r] = None
  /\ \E p \in Pool :
       /\ IF entry = None THEN ~Busy(p) /\ p \notin Range(attached) ELSE p = entry
       /\ entry' = p
       /\ attached' = [attached EXCEPT ![r] = p]
  /\ owners' = owners + 1
  /\ UNCHANGED <<buckets, attempts, status, pool, gaveUp>>

\* Mutant: the pool goes with its last owner, permits out or not.
DropPoolEarly(p) == TRUE

(* A pool is dropped when its last owner leaves, unless permits are out.   *)
MayDrop(p) == ~Busy(p)

(* dispose() aborts the instance's passes, waits for them within a bound,  *)
(* and then leaves the pool; its uncertain requests keep their permits.    *)
Detach(r) ==
  /\ attached[r] # None
  /\ \A c \in Call : RuntimeOf[c] = r => status[c] \notin {"queued", "granted"}
  /\ owners' = owners - 1
  /\ entry' = IF owners' = 0 /\ MayDrop(entry) THEN None ELSE entry
  /\ attached' = [attached EXCEPT ![r] = None]
  /\ UNCHANGED <<buckets, attempts, status, pool, gaveUp>>

Next ==
  \/ \E c \in Call : Acquire(c) \/ Abort(c) \/ Resume(c) \/ Release(c)
  \/ \E p \in Pool, id \in AttemptID : ReleaseAttempt(p, id)
  \/ \E r \in Runtime : Attach(r) \/ Detach(r)

Spec == Init /\ [][Next]_vars

(* A resumed await always runs.  That every request ends and is seen to    *)
(* end is the provider's promise, not the code's: WaiterServed is stated   *)
(* for providers that keep it.                                             *)
(* An await that is over resumes, and a request ends.                      *)
AdmissionFairness == \A c \in Call : WF_vars(Resume(c)) /\ WF_vars(Release(c))

----------------------------------------------------------------------------
(* Properties.                                                             *)

Permits(v) == {c \in Call : HasPermit(c) /\ ProviderOf[c] = v}

(* However many plugin instances come and go, the requests running at one  *)
(* provider never exceed the limit (admission.ts:45, 68-87).               *)
ProcessLimit == limit > 0 => \A v \in Provider : Cardinality(Permits(v)) <= limit

(* The counter counts exactly the permits out: none leaks, none is given   *)
(* back twice; and a bucket exists exactly while it is used.               *)
ActiveCountsPermits ==
  \A p \in Pool, v \in Provider :
    LET b == buckets[<<p, v>>]
    IN /\ b.active = Cardinality({c \in Permits(v) : pool[c] = p})
       /\ b.present <=> (b.active > 0 \/ b.queue # <<>>)

(* Nobody waits while a permit is free. *)
QueueOnlyWhenFull ==
  \A k \in Pool \X Provider : buckets[k].queue # <<>> => limit > 0 /\ buckets[k].active = limit

(* A registration never outlives its permit, so releaseAttempt can not     *)
(* free another attempt's permit (admission.ts:38).                        *)
RegistrationsHoldPermits ==
  \A p \in Pool, id \in AttemptID :
    attempts[p][id] # None => /\ status[attempts[p][id]] = "held"
                              /\ pool[attempts[p][id]] = p

(* Counters, queues, buckets and registrations agree about every permit,   *)
(* and the limit is kept and is the only reason to wait.                   *)
PermitsAddUp ==
  TypeOK /\ ProcessLimit /\ QueueOnlyWhenFull /\ ActiveCountsPermits /\ RegistrationsHoldPermits

(* A waiter is served or refused, whatever other roots keep asking.        *)
WaiterServed == \A c \in Call : status[c] = "queued" ~> status[c] # "queued"
=============================================================================
