--------------------------- MODULE DatabaseClient ---------------------------
(***************************************************************************)
(* The SQLite worker of a process and the stores that share it             *)
(* (notes/database-client.ts, notes/database-worker.ts, notes/findings.ts).*)
(*                                                                         *)
(* A store gets a handle from the process's client when it first asks for  *)
(* something, and drops it when a request tells it that the worker failed: *)
(* its next request gets a fresh worker.  The last owner to close ends the *)
(* worker thread.  One step is one turn of the event loop, of the main     *)
(* thread or of a worker; the two only exchange messages.                  *)
(***************************************************************************)
EXTENDS Naturals, Sequences, FiniteSets

CONSTANTS
  Store,        \* FindingStore objects
  Dir,          \* data directories
  MaxRequests,  \* bound: requests, numbered in the order they are made
  MaxWorkers,   \* bound: workers started by this process
  MaxFailures   \* bound: workers that fail

ASSUME DatabaseAssumption ==
  /\ MaxRequests \in Nat
  /\ MaxWorkers \in Nat \ {0}
  /\ MaxFailures \in 0..(MaxWorkers - 1)

VARIABLES
  client,     \* the module's client, as the number of its worker, or 0
  workers,    \* [worker -> DatabaseClient object and its thread]
  stores,     \* [Store -> dataDir, #handle, #closed]
  handles,    \* [Store \X worker -> how far the handle is]
  requests,   \* [Request -> who asked, which worker, what it was told]
  executed,   \* [Request -> times the operation was committed]
  failures

databaseVars == <<client, workers, stores, handles, requests, executed, failures>>

Worker == 1..MaxWorkers
Request == 1..MaxRequests
DirOf(s) == stores[s].dir

(* What a worker is posted: a request, or the close of the directory of a  *)
(* store's handle; a reply is matched with the one message it answers.     *)
Message == ({"ask"} \X Request) \cup ({"close"} \X Store)

(* "failed" is a statement SQLite refused; "refused" a request of a closed *)
(* store; "unavailable" and "notSent" are the two errors of a lost worker, *)
(* told apart because only the first may have committed.                   *)
Told == {"no", "posted", "done", "failed", "refused", "unavailable", "notSent"}

Thread == [thread : {"none", "up", "down"}, failed : BOOLEAN, ending : BOOLEAN,
           owners : [Dir -> Nat], inbox : Seq(Message),
           replies : Seq(Message \X BOOLEAN)]

DatabaseTypeOK ==
  /\ client \in Worker \cup {0}
  /\ workers \in [Worker -> Thread]
  /\ stores \in [Store -> [dir : Dir, handle : Worker \cup {0}, closed : BOOLEAN]]
  /\ handles \in [Store \X Worker -> [at : {"none", "open", "closing", "ending", "closed"}, last : BOOLEAN]]
  /\ requests \in [Request -> [told : Told, store : Store \cup {0}, worker : Worker \cup {0}, caught : BOOLEAN]]
  /\ executed \in [Request -> Nat]
  /\ failures \in 0..MaxFailures

NoOwners == [d \in Dir |-> 0]

DatabaseInit ==
  /\ client = 0
  /\ workers = [w \in Worker |-> [thread |-> "none", failed |-> FALSE, ending |-> FALSE,
                                  owners |-> NoOwners, inbox |-> <<>>, replies |-> <<>>]]
  /\ \E dirs \in [Store -> Dir] :
       stores = [s \in Store |-> [dir |-> dirs[s], handle |-> 0, closed |-> FALSE]]
  /\ handles = [h \in Store \X Worker |-> [at |-> "none", last |-> FALSE]]
  /\ requests = [r \in Request |-> [told |-> "no", store |-> 0, worker |-> 0, caught |-> FALSE]]
  /\ executed = [r \in Request |-> 0]
  /\ failures = 0

----------------------------------------------------------------------------
(* The main thread.                                                        *)

(* acquireDatabase(): the client of the process, or a new one. *)
ClientOf(w) ==
  IF client # 0 THEN w = client
  ELSE workers[w].thread = "none" /\ \A v \in Worker : v < w => workers[v].thread # "none"

Acquired(s, w) ==
  [workers EXCEPT ![w].thread = IF @ = "none" THEN "up" ELSE @, ![w].owners[DirOf(s)] = @ + 1]

Made(r) == requests[r].told # "no"
NextRequest(r) == ~Made(r) /\ \A q \in Request : q < r => Made(q)

(* A request goes out over the handle the store has, or over a new one.    *)
Ask(s, r) ==
  /\ NextRequest(r)
  /\ ~stores[s].closed
  /\ \E w \in Worker :
       LET held == stores[s].handle # 0
           having == IF held THEN workers ELSE Acquired(s, w)
       IN /\ IF held THEN w = stores[s].handle ELSE ClientOf(w)
          /\ client' = IF held THEN client ELSE w
          /\ stores' = [stores EXCEPT ![s].handle = w]
          /\ handles' = [handles EXCEPT ![<<s, w>>].at = "open"]
          /\ requests' = [requests EXCEPT ![r] =
               [told |-> IF workers[w].failed THEN "notSent" ELSE "posted",
                store |-> s, worker |-> w, caught |-> FALSE]]
          /\ workers' = IF workers[w].failed THEN having
                        ELSE [having EXCEPT ![w].inbox = Append(@, <<"ask", r>>)]
  /\ UNCHANGED <<executed, failures>>

AskTooLate(s, r) ==
  /\ NextRequest(r)
  /\ stores[s].closed
  /\ requests' = [requests EXCEPT ![r].told = "refused", ![r].store = s]
  /\ UNCHANGED <<client, workers, stores, handles, executed, failures>>

\* Mutant: the last owner of a directory ends the worker.
LastOfDirectory(s, w) == workers[w].owners[DirOf(s)] = 1

(* No other handle on this worker, of this directory or of another one.    *)
LastOwner(s, w) == workers[w].owners = [NoOwners EXCEPT ![DirOf(s)] = 1]

(* #release: the last owner of a directory has it closed, the last owner   *)
(* of the worker ends the thread; an owner of a lost worker waits for its  *)
(* end.                                                                    *)
ReleaseHandle(s, w) ==
  LET d == DirOf(s)
      shared == workers[w].owners[d] > 1
      lost == workers[w].failed
      last == LastOwner(s, w)
      left == [workers EXCEPT ![w].owners[d] = @ - 1]
  IN /\ workers' = IF shared THEN left
                   ELSE IF ~lost THEN [left EXCEPT ![w].inbox = Append(@, <<"close", s>>)]
                   ELSE [left EXCEPT ![w].ending = @ \/ last]
     /\ client' = IF last /\ client = w THEN 0 ELSE client
     /\ handles' = [handles EXCEPT ![<<s, w>>] =
          [at |-> IF ~shared /\ ~lost THEN "closing"
                  ELSE IF lost /\ (shared \/ last) /\ workers[w].thread = "up" THEN "ending"
                  ELSE "closed",
           last |-> last]]

(* FindingStore.#request's catch: a lost worker's handle is given up by    *)
(* the first request that finds it still the store's.                      *)
Catch(r) ==
  LET s == requests[r].store
      w == requests[r].worker
  IN /\ requests[r].told \in {"unavailable", "notSent"} /\ ~requests[r].caught
     /\ requests' = [requests EXCEPT ![r].caught = TRUE]
     /\ IF stores[s].handle = w
        THEN stores' = [stores EXCEPT ![s].handle = 0] /\ ReleaseHandle(s, w)
        ELSE UNCHANGED <<client, workers, stores, handles>>
     /\ UNCHANGED <<executed, failures>>

CloseStore(s) ==
  /\ ~stores[s].closed
  /\ stores' = [stores EXCEPT ![s].handle = 0, ![s].closed = TRUE]
  /\ IF stores[s].handle # 0
     THEN ReleaseHandle(s, stores[s].handle)
     ELSE UNCHANGED <<client, workers, handles>>
  /\ UNCHANGED <<requests, executed, failures>>

(* #release goes on when its own close is answered: the last owner ends    *)
(* the thread, and waits for its end.                                      *)
Ends(s, w) == handles[<<s, w>>].at = "closing" /\ handles[<<s, w>>].last

ReleasedHandles(s, w) ==
  [handles EXCEPT ![<<s, w>>].at = IF @ # "closing" THEN @ ELSE IF Ends(s, w) THEN "ending" ELSE "closed"]

(* A reply settles the request it answers. *)
Reply(w) ==
  /\ workers[w].replies # <<>> /\ ~workers[w].failed
  /\ LET message == Head(workers[w].replies)[1]
         ok == Head(workers[w].replies)[2]
         rest == [workers EXCEPT ![w].replies = Tail(@)]
     IN IF message[1] = "ask"
        THEN /\ requests' = [requests EXCEPT ![message[2]].told = IF ok THEN "done" ELSE "failed"]
             /\ workers' = rest
             /\ UNCHANGED handles
        ELSE /\ workers' = [rest EXCEPT ![w].ending = @ \/ Ends(message[2], w)]
             /\ handles' = ReleasedHandles(message[2], w)
             /\ UNCHANGED requests
  /\ UNCHANGED <<client, stores, executed, failures>>

----------------------------------------------------------------------------
(* The worker thread.                                                      *)

(* One message at a time, in the order they were posted; an operation is a *)
(* transaction, committed or refused as a whole.                           *)
Run(w) ==
  /\ workers[w].thread = "up" /\ workers[w].inbox # <<>>
  /\ LET message == Head(workers[w].inbox)
     IN \E ok \in BOOLEAN :
          /\ ok \/ message[1] = "ask"
          /\ workers' = [workers EXCEPT ![w].inbox = Tail(@), ![w].replies = Append(@, <<message, ok>>)]
          /\ executed' = IF ok /\ message[1] = "ask"
                          THEN [executed EXCEPT ![message[2]] = @ + 1] ELSE executed
  /\ UNCHANGED <<client, stores, handles, requests, failures>>

\* Mutant: requests of a lost worker are not settled.
LostSilently(w) == requests

(* #fail: everything that was posted and not answered is uncertain.        *)
Lost(w) ==
  [r \in Request |->
    IF requests[r].told = "posted" /\ requests[r].worker = w
    THEN [requests[r] EXCEPT !.told = "unavailable"] ELSE requests[r]]

LostHandles(w, down) ==
  [h \in Store \X Worker |->
    IF h[2] = w /\ (handles[h].at = "closing" \/ (down /\ handles[h].at = "ending"))
    THEN [handles[h] EXCEPT !.at = IF handles[h].last /\ ~down THEN "ending" ELSE "closed"]
    ELSE handles[h]]

Fails(w, down) ==
  /\ workers' = [workers EXCEPT ![w].failed = TRUE, ![w].ending = TRUE,
                                ![w].thread = IF down THEN "down" ELSE @,
                                ![w].inbox = IF down THEN <<>> ELSE @]
  /\ client' = IF client = w THEN 0 ELSE client
  /\ requests' = Lost(w)
  /\ handles' = LostHandles(w, down)
  /\ UNCHANGED <<stores, executed>>

(* The thread crashes, or a message between the two can not be read and    *)
(* the thread is told to end.                                              *)
Fail(w) ==
  /\ workers[w].thread = "up" /\ ~workers[w].failed
  /\ failures < MaxFailures /\ failures' = failures + 1
  /\ \E down \in BOOLEAN : Fails(w, down)

(* A thread that was told to end does, between two messages; its exit is   *)
(* an event #fail hears too.                                               *)
Exit(w) ==
  /\ workers[w].thread = "up" /\ workers[w].ending
  /\ Fails(w, TRUE)
  /\ UNCHANGED failures

DatabaseNext ==
  \/ \E s \in Store, r \in Request : Ask(s, r) \/ AskTooLate(s, r)
  \/ \E s \in Store : CloseStore(s)
  \/ \E r \in Request : Catch(r)
  \/ \E w \in Worker : Reply(w) \/ Run(w) \/ Fail(w) \/ Exit(w)

DatabaseSpec == DatabaseInit /\ [][DatabaseNext]_databaseVars

(* Both event loops go on, and a thread that is told to end does.  As the  *)
(* requests and workers are bounded, it is enough that one step is made.   *)
DatabaseFairness ==
  WF_databaseVars(\/ \E r \in Request : Catch(r)
                  \/ \E w \in Worker : Reply(w) \/ Run(w) \/ Exit(w))

----------------------------------------------------------------------------
(* Properties.                                                             *)

(* "The worker may have committed before transport failed"                 *)
(* (database-client.ts:5) and "this request was never posted and cannot    *)
(* have committed" (:7): what a caller is told of its request is true,     *)
(* also when an old worker goes on for a while after it was given up.      *)
ToldTheTruth ==
  \A r \in Request :
    /\ executed[r] <= 1
    /\ requests[r].told = "done" => executed[r] = 1
    /\ requests[r].told \in {"no", "failed", "refused", "notSent"} => executed[r] = 0

(* Ending the worker never loses a request: the last owner's close is      *)
(* behind everything posted before it, whoever posted it.                  *)
OnlyFailuresLose ==
  failures = 0 => \A r \in Request : requests[r].told \notin {"unavailable", "notSent"}

(* "Closing the last owner terminates the worker while shared owners       *)
(* survive" (test/database.test.ts:34): no worker is left behind once      *)
(* every store is closed, and none ends under an owner unless it failed.   *)
WorkersFollowOwners ==
  /\ (\A s \in Store : stores[s].closed) /\ (\A h \in Store \X Worker : handles[h].at \in {"none", "closed"})
       => \A w \in Worker : workers[w].thread = "up" => workers[w].ending
  /\ failures = 0 =>
       \A w \in Worker : workers[w].ending => workers[w].owners = NoOwners

(* Requests, workers and owners agree about what happened. *)
RequestsAreTold == DatabaseTypeOK /\ ToldTheTruth /\ OnlyFailuresLose /\ WorkersFollowOwners

(* Every request is settled and every close returns, also when the worker  *)
(* they wait for is lost.                                                  *)
DatabaseSettles ==
  <>[] /\ \A r \in Request : requests[r].told # "posted"
       /\ \A h \in Store \X Worker : handles[h].at \notin {"closing", "ending"}
=============================================================================
