--------------------------- MODULE SessionHistory ---------------------------
(***************************************************************************)
(* The shared cache of a session's messages (history/session.ts,           *)
(* history/projection.ts, plugin/history.ts) between OpenCode's server and *)
(* its two readers: a reviewer's pass, which slices what it has not seen   *)
(* (module DeltaSlice), and the checkpoint tool, which asks for a fresh    *)
(* read.  One session and one reviewer.                                    *)
(*                                                                         *)
(* The server and the stream of its events are external: an event comes    *)
(* some time after the change it tells of, in order; a lost connection     *)
(* loses what was under way and ends in server.connected.  A read is       *)
(* answered with the messages of some moment between call and return.      *)
(***************************************************************************)
EXTENDS DeltaSlice, SequencesExt, Functions

CONSTANTS
  MaxMessages, MaxParts, \* bounds: messages, parts of a message
  MaxSize,     \* parts of a session that may be cached (maxSessionBytes)
  MaxCached,   \* messages of a session that may be cached: 2048 in the code
  MaxDirty,    \* point reads instead of a full one: 32 in the code
  MaxChanges,  \* bound: changes of the session
  MaxFaults    \* bound: failed reads, lost connections, forgets and evictions

ASSUME BoundsAssumption ==
  /\ {MaxMessages, MaxSize, MaxDirty, MaxChanges, MaxFaults} \subseteq Nat
  /\ MaxParts \in Nat \ {0} \* a user message has a part
  \* both 2048 in the code: whatever is cached has fingerprints
  /\ MaxCached \in 0..Window

VARIABLES
  server,   \* [message -> what it is]: the session's messages
  made,     \* [message ever made -> its parts ever made]: ids are not used twice
  changes,  \* changes made so far
  faults,
  events,   \* under way to the plugin
  entry,    \* the session's entry in #entries, or None
  load,     \* entry.loading, or None
  pass,     \* the reviewer's history.read(root)
  checkpoint, \* the tool's history.read(root, true)
  review,   \* the slice under review, or None
  cursor,   \* of the reviewer
  reviewed  \* history: contents of accepted reviews

world == <<server, made, changes, faults, events>>
cache == <<entry, load>>
reviewer == <<review, cursor, reviewed>>
vars == <<world, cache, pass, checkpoint, reviewer>>

Message == 1..MaxMessages
PartID == 1..MaxParts

(* A long tool output is "long"; what a reviewer may see of it is "done".  *)
Content == {"running", "done", "long", "card"}
ProjectPart(content) == IF content = "long" THEN "done" ELSE content
ProjectMessage(m) == [m EXCEPT !.parts = [p \in DOMAIN @ |-> ProjectPart(@[p])]]
View(messages) == [m \in DOMAIN messages |-> ProjectMessage(messages[m])]

Parts == UNION {[ps -> Content] : ps \in SUBSET PartID}
(* done: a user message, or an assistant message with a completion time.   *)
MessageValue == [done : BOOLEAN, parts : Parts]
Transcript == UNION {[ids -> MessageValue] : ids \in SUBSET Message}

Event ==
  [kind : {"message"}, id : Message, done : BOOLEAN]
    \cup [kind : {"part"}, id : Message, part : PartID, content : Content]
    \cup [kind : {"reset"}]

(* messages is None when nothing is cached; old: refreshMs have passed.    *)
Entry == [messages : Transcript \cup {None}, dirty : SUBSET Message, old : BOOLEAN]

(* A full read before and after the server answered it, or point reads of  *)
(* the messages left; changed: entry.generation is not the one of its      *)
(* start; asOf: changes when the server was asked last.                    *)
Load == [kind : {"asked", "answered", "point"}, messages : Transcript, left : SUBSET Message,
         changed : BOOLEAN, asOf : 0..MaxChanges]

Fingerprint == [digest : Parts, kept : BOOLEAN]
Observed == UNION {[ids -> Fingerprint] : ids \in SUBSET Message}
Prefix == [before : Message, digest : UNION {[ids -> Parts] : ids \in SUBSET Message}]
Cursor == [last : Message \cup {None}, observed : Observed, prefix : Prefix \cup {None}]
Review == [delta : SUBSET (Message \X PartID \X Content), next : Cursor]

ASSUME NoneAssumption ==
  /\ None \notin Entry /\ None \notin Load /\ None \notin Parts
  /\ None \notin Fingerprint /\ None \notin Prefix /\ None \notin Review

TypeOK ==
  /\ server \in Transcript
  /\ made \in Seq(0..MaxParts)
  /\ changes \in 0..MaxChanges /\ faults \in 0..MaxFaults
  /\ events \in Seq(Event)
  /\ entry \in Entry \cup {None}
  /\ load \in Load \cup {None}
  /\ pass \in {"idle", "loading"}
  /\ checkpoint \in [state : {"idle", "waiting", "loading"}, since : 0..MaxChanges]
  /\ review \in Review \cup {None}
  /\ cursor \in Cursor
  /\ reviewed \subseteq (Message \X PartID \X Content)

Init ==
  /\ server = <<>> /\ made = <<>> /\ changes = 0 /\ faults = 0 /\ events = <<>>
  /\ entry = None /\ load = None
  /\ pass = "idle"
  /\ checkpoint = [state |-> "idle", since |-> 0]
  /\ review = None /\ cursor = NoCursor /\ reviewed = {}

----------------------------------------------------------------------------
(* The session on the server.                                              *)

Change(messages, new) ==
  /\ changes < MaxChanges
  /\ changes' = changes + 1
  /\ server' = messages
  /\ events' = events \o new
  /\ UNCHANGED <<faults, pass, checkpoint, reviewer>>

Idle == [state |-> "idle", since |-> 0]

PartEvent(m, p, content) == [kind |-> "part", id |-> m, part |-> p, content |-> content]
MessageEvent(m, done) == [kind |-> "message", id |-> m, done |-> done]
Reset == [kind |-> "reset"]

NextId == Len(made) + 1

(* f with x mapped to v.                                                   *)
Put(f, x, v) == [y \in DOMAIN f \cup {x} |-> IF y = x THEN v ELSE f[y]]

AssistantMessage ==
  /\ NextId \in Message
  /\ made' = Append(made, 0)
  /\ Change(Put(server, NextId, [done |-> FALSE, parts |-> <<>>]),
            <<MessageEvent(NextId, FALSE)>>)
  /\ UNCHANGED cache

Write(m, p, content) ==
  /\ Change([server EXCEPT ![m].parts = Put(@, p, content)], <<PartEvent(m, p, content)>>)
  /\ UNCHANGED cache

AddPart(m, content) ==
  /\ made[m] < MaxParts /\ content \in {"running", "card"}
  /\ made' = [made EXCEPT ![m] = @ + 1]
  /\ Write(m, made[m] + 1, content)

(* A part is completed, or rewritten, in place.                            *)
EditPart(m, p, content) ==
  /\ server[m].parts[p] \notin {content, "card"} /\ content \in {"done", "long"}
  /\ UNCHANGED made
  /\ Write(m, p, content)

Complete(m) ==
  /\ ~server[m].done
  /\ Change([server EXCEPT ![m].done = TRUE], <<MessageEvent(m, TRUE)>>)
  /\ UNCHANGED <<made, cache>>

(* message.removed, message.part.removed, session.compacted.               *)
RemovePart(m, p) ==
  /\ Change([server EXCEPT ![m].parts = Restrict(@, DOMAIN @ \ {p})], <<Reset>>)
  /\ UNCHANGED <<made, cache>>

RemoveMessage(m) ==
  /\ Change(Restrict(server, DOMAIN server \ {m}), <<Reset>>)
  /\ UNCHANGED <<made, cache>>

----------------------------------------------------------------------------
(* The entry.                                                              *)

NewEntry == [messages |-> None, dirty |-> {}, old |-> FALSE]

Total(messages) == FoldFunction(LAMBDA m, total : Cardinality(DOMAIN m.parts) + total, 0, messages)

(* What does not fit the session's bounds is not kept.                     *)
Kept(messages, dirty, old) ==
  IF Total(messages) > MaxSize \/ Cardinality(DOMAIN messages) > MaxCached THEN NewEntry
  ELSE [messages |-> messages, dirty |-> dirty, old |-> old]

\* Mutant: an event during a load goes unnoticed.
TouchedUnseen == load

Touched == IF load = None THEN None ELSE [load EXCEPT !.changed = TRUE]

(* message(): an update carries no parts, except from the chat hook, and   *)
(* of a user message or a completed one they are read later.               *)
Updated(m, done, parts) ==
  LET value == [done |-> done,
                parts |-> IF parts # None THEN parts
                          ELSE IF m \in DOMAIN entry.messages THEN entry.messages[m].parts ELSE <<>>]
  IN Kept(Put(entry.messages, m, value),
          IF parts = None /\ done THEN entry.dirty \cup {m} ELSE entry.dirty,
          entry.old)

ObserveMessage(m, done, parts) ==
  IF entry = None THEN UNCHANGED cache
  ELSE /\ load' = Touched
       /\ entry' = IF entry.messages = None THEN entry ELSE Updated(m, done, parts)

ObservePart(m, p, content) ==
  IF entry = None THEN UNCHANGED cache
  ELSE /\ load' = Touched
       /\ entry' = IF entry.messages = None \/ m \notin DOMAIN entry.messages THEN NewEntry
                   ELSE Kept([entry.messages EXCEPT ![m].parts = Put(@, p, ProjectPart(content))],
                             entry.dirty, entry.old)

\* Mutant: nothing is ever invalidated.
InvalidateNothing == UNCHANGED cache

Invalidate ==
  IF entry = None THEN UNCHANGED cache ELSE entry' = NewEntry /\ load' = Touched

(* observe() of the next event.                                            *)
Observe ==
  /\ events # <<>>
  /\ events' = Tail(events)
  /\ LET e == Head(events)
     IN CASE e.kind = "message" -> ObserveMessage(e.id, e.done, None)
          [] e.kind = "part"    -> ObservePart(e.id, e.part, e.content)
          [] e.kind = "reset"   -> Invalidate
  /\ UNCHANGED <<server, made, changes, faults, pass, checkpoint, reviewer>>

(* The chat hook tells of a user message with its parts; events follow.    *)
UserMessage ==
  /\ NextId \in Message
  /\ made' = Append(made, 1)
  /\ LET parts == [p \in {1} |-> "done"]
     IN /\ Change(Put(server, NextId, [done |-> TRUE, parts |-> parts]),
                  <<MessageEvent(NextId, TRUE), PartEvent(NextId, 1, "done")>>)
        /\ ObserveMessage(NextId, TRUE, parts)

----------------------------------------------------------------------------
(* read() and #load().                                                     *)

FullLoad == [kind |-> "asked", messages |-> <<>>, left |-> {}, changed |-> FALSE, asOf |-> changes]

StartLoad(e) ==
  IF e.messages = None \/ Cardinality(e.dirty) > MaxDirty THEN FullLoad
  ELSE [FullLoad EXCEPT !.kind = "point", !.messages = e.messages, !.left = e.dirty]

Present == IF entry = None THEN NewEntry ELSE entry

(* The pass gets a view: it slices what is new, or has nothing to do.      *)
Sliced(view) ==
  LET slice == SliceDelta(view, cursor)
  IN /\ review' = IF slice.delta = {} THEN None ELSE slice
     /\ UNCHANGED <<cursor, reviewed>>

(* A view older than refreshMs is read again; a load is shared.            *)
PassReads ==
  /\ pass = "idle" /\ review = None
  /\ LET expired == Present.messages # None /\ Present.old
         e == IF expired THEN NewEntry ELSE Present
     IN /\ entry' = e
        /\ \/ /\ load # None
              /\ load' = IF expired THEN Touched ELSE load
              /\ pass' = "loading" /\ UNCHANGED reviewer
           \/ /\ load = None /\ e.messages # None /\ e.dirty = {}
              /\ Sliced(e.messages) /\ UNCHANGED <<load, pass>>
           \/ /\ load = None /\ (e.messages = None \/ e.dirty # {})
              /\ load' = StartLoad(e)
              /\ pass' = "loading" /\ UNCHANGED reviewer
  /\ UNCHANGED <<world, checkpoint>>

\* Mutant: a fresh read shares the load under way.
CheckpointJoins ==
  /\ checkpoint.state = "idle"
  /\ checkpoint' = [state |-> "loading", since |-> changes]
  /\ IF load # None THEN UNCHANGED cache ELSE entry' = NewEntry /\ load' = FullLoad
  /\ UNCHANGED <<world, pass, reviewer>>

(* A fresh read waits for the load that began before it, then reads.       *)
CheckpointReads ==
  /\ \/ checkpoint.state = "idle"
     \/ checkpoint.state = "waiting" /\ load = None
  /\ LET since == IF checkpoint.state = "idle" THEN changes ELSE checkpoint.since
     IN IF load # None
        THEN checkpoint' = [state |-> "waiting", since |-> since] /\ UNCHANGED cache
        ELSE /\ checkpoint' = [state |-> "loading", since |-> since]
             /\ entry' = NewEntry /\ load' = FullLoad
  /\ UNCHANGED <<world, pass, reviewer>>

ServerAnswers ==
  /\ load # None /\ load.kind = "asked"
  /\ load' = [load EXCEPT !.kind = "answered", !.messages = server, !.asOf = changes]
  /\ UNCHANGED <<world, entry, pass, checkpoint, reviewer>>

(* One message is read; one that is gone invalidates the entry.            *)
PointRead(m) ==
  /\ load # None /\ load.kind = "point" /\ m \in load.left
  /\ IF m \in DOMAIN server
     THEN /\ load' = [load EXCEPT !.left = @ \ {m}, !.messages = Put(@, m, server[m])]
          /\ UNCHANGED entry
     ELSE entry' = NewEntry /\ load' = [load EXCEPT !.left = {}, !.changed = TRUE]
  /\ UNCHANGED <<world, pass, checkpoint, reviewer>>

(* Point reads during which the entry changed are done over as a full one. *)
PointReadsDone ==
  /\ load # None /\ load.kind = "point" /\ load.left = {}
  /\ load' = IF load.changed THEN FullLoad ELSE [load EXCEPT !.kind = "answered"]
  /\ UNCHANGED <<world, entry, pass, checkpoint, reviewer>>

(* Whoever waits gets the view; it is cached if nothing came in meanwhile. *)
LoadReturns ==
  /\ load # None /\ load.kind = "answered"
  /\ entry' = IF load.changed THEN NewEntry ELSE Kept(View(load.messages), {}, FALSE)
  /\ load' = None
  /\ pass' = "idle"
  /\ IF pass = "loading" THEN Sliced(View(load.messages)) ELSE UNCHANGED reviewer
  /\ checkpoint' = IF checkpoint.state = "loading" THEN Idle ELSE checkpoint
  /\ UNCHANGED world

----------------------------------------------------------------------------
(* The reviewer.  Only a confirmed result moves its cursor.                *)

Accept ==
  /\ review # None
  /\ cursor' = review.next
  /\ reviewed' = reviewed \cup review.delta
  /\ review' = None
  /\ UNCHANGED <<world, cache, pass, checkpoint>>

Reject == review # None /\ review' = None /\ UNCHANGED <<world, cache, pass, checkpoint, cursor, reviewed>>

----------------------------------------------------------------------------
(* Faults and time.                                                        *)

Fault == faults < MaxFaults /\ faults' = faults + 1 /\ UNCHANGED <<server, made, changes, reviewer>>

ReadFails ==
  /\ Fault /\ load # None
  /\ load' = None
  /\ pass' = "idle" /\ checkpoint' = Idle
  /\ UNCHANGED <<entry, events>>

(* The load of a forgotten entry goes on, and whoever waits gets an error. *)
Forget ==
  /\ Fault /\ entry # None
  /\ entry' = None /\ load' = None
  /\ pass' = "idle" /\ checkpoint' = Idle
  /\ UNCHANGED events

(* #trim() passes over an entry that is loading.                           *)
Trim ==
  /\ Fault /\ entry # None /\ load = None
  /\ entry' = None /\ checkpoint' = Idle
  /\ UNCHANGED <<load, events, pass>>

Reconnect == Fault /\ events # <<>> /\ events' = <<Reset>> /\ UNCHANGED <<cache, pass, checkpoint>>

Age ==
  /\ entry # None /\ entry.messages # None /\ ~entry.old
  /\ entry' = [entry EXCEPT !.old = TRUE]
  /\ UNCHANGED <<world, load, pass, checkpoint, reviewer>>

ServerStep ==
  \/ AssistantMessage \/ UserMessage
  \/ \E m \in DOMAIN server :
       \/ Complete(m) \/ RemoveMessage(m)
       \/ \E content \in Content : AddPart(m, content)
       \/ \E p \in DOMAIN server[m].parts :
            RemovePart(m, p) \/ (\E content \in Content : EditPart(m, p, content))

LoadStep == ServerAnswers \/ PointReadsDone \/ LoadReturns \/ (\E m \in Message : PointRead(m))

Next ==
  \/ ServerStep \/ Observe \/ LoadStep
  \/ PassReads \/ CheckpointReads \/ Accept \/ Reject
  \/ ReadFails \/ Forget \/ Trim \/ Reconnect \/ Age

Spec == Init /\ [][Next]_vars

----------------------------------------------------------------------------
(* Properties.                                                             *)

Contents(t) == UNION {{<<m, p, t[m].parts[p]>> : p \in DOMAIN Reviewable(t[m].parts)} : m \in DOMAIN t}

(* Once the events are in, what read() returns without asking the server   *)
(* is what the server would answer, as far as reviewers may see it.        *)
CacheIsCurrent ==
  entry # None /\ entry.messages # None /\ entry.dirty = {} /\ events = <<>> =>
    entry.messages = View(server)

(* A checkpoint never judges messages older than its call: its view was    *)
(* taken by the server after it asked.                                     *)
FreshReadIsFresh ==
  [][load # None /\ load.kind = "answered" /\ load' = None /\ checkpoint.state = "loading" /\ faults' = faults
       => load.asOf >= checkpoint.since]_vars

(* A reviewer's cursor never passes over work: whatever the accepted       *)
(* cursor covers was part of an accepted review, wherever the bounds of    *)
(* the fingerprints fall.                                                  *)
Covers(c, seen) ==
  /\ \A m \in DOMAIN c.observed : \A p \in DOMAIN c.observed[m].digest : <<m, p, c.observed[m].digest[p]>> \in seen
  /\ c.prefix # None =>
       \A m \in DOMAIN c.prefix.digest : \A p \in DOMAIN c.prefix.digest[m] : <<m, p, c.prefix.digest[m][p]>> \in seen

CursorCoversReviewed == Covers(cursor, reviewed)

(* What is cached, and what reviewers are taken to have seen, is real.     *)
CacheAgrees == TypeOK /\ CacheIsCurrent /\ CursorCoversReviewed

(* A pass gets its view from the cache, or from the load it waits for.     *)
PassGetsView == (PassReads /\ load = None /\ pass' = "idle") \/ (LoadReturns /\ pass = "loading")

(* A pass overlooks nothing: when the events are in, and none came while   *)
(* its messages were read, whatever reviewers may see of the session is    *)
(* reviewed already or in the slice it is given, whatever was cached,      *)
(* invalidated, lost, forgotten or rejected before.                        *)
PassSeesEverything ==
  [][PassGetsView /\ events = <<>> /\ (load = None \/ ~load.changed) =>
       Contents(View(server)) \subseteq reviewed \cup (IF review' = None THEN {} ELSE review'.delta)]_vars
=============================================================================
