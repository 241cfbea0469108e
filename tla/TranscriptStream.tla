-------------------------- MODULE TranscriptStream --------------------------
(***************************************************************************)
(* How one session's transcript reaches its subscribers: the actor that    *)
(* appends to the write-ahead log and to the bounded resident log, the     *)
(* forwarder task of every attach, and the connection handlers that start  *)
(* and abort those tasks (yalda-session-server/main.rs).                   *)
(*                                                                         *)
(* Three kinds of process interleave:                                      *)
(*   - the actor runs one command at a time (Push, Attach, ActorDetach,    *)
(*     Archive, Unarchive, Restart), each one atomic;                      *)
(*   - a forwarder owns a position `sent', wakes on a published snapshot,  *)
(*     cuts a batch from it, and writes the batch to its connection with   *)
(*     no lock held, so the actor runs between the cut and the write;      *)
(*   - a connection handler serves one request at a time and waits for the *)
(*     actor's reply in the middle of it.                                  *)
(* The log on the watch channel always equals the actor's log: every       *)
(* command that changes the one publishes it before it returns.            *)
(***************************************************************************)
EXTENDS EventLog

CONSTANTS
    Conns,         \* client connections
    MaxAttach,     \* bound: forwarders ever granted
    Cap,           \* event_log_cap()
    HighWater,     \* event_log_high_water()
    MaxEvents,     \* bound: events ever pushed
    MaxGeneration  \* bound: channel generations

ASSUME ConnsAssumption == Conns # {}
ASSUME CapAssumption == Cap \in Nat /\ Cap >= 2
ASSUME HighWaterAssumption == HighWater \in Nat /\ HighWater >= Cap
ASSUME BoundsAssumption ==
    MaxAttach \in Nat /\ MaxEvents \in Nat /\ MaxGeneration \in Nat

\* Forwarder tasks, numbered in the order the actor grants them.
Forwarders == 1 .. MaxAttach

NoForwarder == 0

VARIABLES
    log,        \* the resident event_log, as published on log_tx
    pushed,     \* events pushed so far: all are in the WAL file, in this order,
                \* and this is the identity of the next one
    generation, \* channel_generation
    recovered,  \* next_generation a recovery of the WAL would choose
    archived,   \* the session is in cold storage (its WAL handle is closed)
    prefixLen,  \* durable_prefix.len, 0 when there is none
    registered, \* session.forwarder: the handle that floors the trim

    granted,    \* forwarders granted so far
    pc,         \* where each forwarder task is
    owner,      \* the connection a forwarder writes to
    sent,       \* its position, shared with the actor as ForwarderHandle.sent_seq
    evicted,    \* ForwarderHandle.evicted
    released,   \* ForwarderHandle.released
    prefix,     \* <<read, len>> of the durable prefix it was granted
    fresh,      \* a snapshot was published since the last one it took
    batch,      \* the entries it is writing
    batchTip,   \* the tip of the snapshot the batch was cut from
    start,      \* the first position the client asked for
    out,        \* history: what it wrote to its client, while it is the newest

    socket,     \* the write half of each connection
    handler,    \* what each connection handler is waiting for
    task        \* subscribed: the forwarder task a connection has for the session

sessionVars == <<log, pushed, generation, recovered, archived, prefixLen>>
handleVars == <<sent, evicted, released>>
grantVars == <<granted, owner, start>>
streamVars == <<prefix, batch, batchTip, out>>
connVars == <<socket, handler, task>>
vars == <<sessionVars, registered, pc, handleVars, grantVars, streamVars, fresh,
          connVars>>

\* "granted": the handle exists and the task is about to be spawned.
\* "ended": the task returned or was aborted.  "stalled": it returned because a
\* write exceeded the slow-subscriber timeout.
Pcs == {"unused", "granted", "prefix", "first", "waiting", "writing",
        "ended", "stalled"}

Exited(f) == pc[f] \in {"ended", "stalled"}

Live == {f \in Forwarders : pc[f] # "unused" /\ ~ Exited(f)}

TypeOK ==
    /\ log \in Log
    /\ pushed \in Nat
    /\ generation \in Nat
    /\ recovered \in Nat
    /\ archived \in BOOLEAN
    /\ prefixLen \in Nat
    /\ registered \in Forwarders \cup {NoForwarder}
    /\ granted \in 0 .. MaxAttach
    /\ pc \in [Forwarders -> Pcs]
    /\ owner \in [Forwarders -> Conns]
    /\ sent \in [Forwarders -> Nat]
    /\ evicted \in [Forwarders -> BOOLEAN]
    /\ released \in [Forwarders -> BOOLEAN]
    /\ prefix \in [Forwarders -> Nat \X Nat]
    /\ fresh \in [Forwarders -> BOOLEAN]
    /\ batch \in [Forwarders -> Seq(Entry)]
    /\ batchTip \in [Forwarders -> Nat]
    /\ start \in [Forwarders -> Nat]
    /\ out \in [Forwarders -> Seq(Entry)]
    /\ socket \in [Conns -> {"open", "shut", "closed"}]
    /\ handler \in [Conns -> {"idle", "attach", "detach", "teardown"}]
    /\ task \in [Conns -> Forwarders \cup {NoForwarder}]

Init ==
    /\ log = EmptyFrom(0)
    /\ pushed = 0
    /\ generation = 0
    /\ recovered = 0
    /\ archived = FALSE
    /\ prefixLen = 0
    /\ registered = NoForwarder
    /\ granted = 0
    /\ pc = [f \in Forwarders |-> "unused"]
    /\ owner = [f \in Forwarders |-> CHOOSE c \in Conns : TRUE] \* not read yet
    /\ sent = [f \in Forwarders |-> 0]
    /\ evicted = [f \in Forwarders |-> FALSE]
    /\ released = [f \in Forwarders |-> FALSE]
    /\ prefix = [f \in Forwarders |-> <<0, 0>>]
    /\ fresh = [f \in Forwarders |-> FALSE]
    /\ batch = [f \in Forwarders |-> << >>]
    /\ batchTip = [f \in Forwarders |-> 0]
    /\ start = [f \in Forwarders |-> 0]
    /\ out = [f \in Forwarders |-> << >>]
    /\ socket = [c \in Conns |-> "open"]
    /\ handler = [c \in Conns |-> "idle"]
    /\ task = [c \in Conns |-> NoForwarder]

(***************************************************************************)
(* The actor.                                                              *)
(***************************************************************************)

\* prune_dead_forwarder: a handle only the actor still holds is dropped.
Pruned ==
    IF registered # NoForwarder /\ Exited(registered) THEN NoForwarder ELSE registered

\* Mutant of Wedged: no subscriber is ever too slow.
NeverWedged(newLog) == FALSE

\* enforce_high_water: is the registered forwarder too far behind the tip?
Wedged(newLog) ==
    /\ Pruned # NoForwarder
    /\ Tip(newLog) - sent[Pruned] > HighWater

\* Mutant of Floor: the log is trimmed as if nobody were reading.
NoFloor(newLog, handle) == Tip(newLog)

\* compaction_floor, once enforce_high_water has run.
Floor(newLog, handle) ==
    IF handle = NoForwarder THEN Tip(newLog) ELSE sent[handle]

\* Mutant of Publish: only the tasks parked at the time are woken.
PublishToParked == fresh' = [f \in Forwarders |-> pc[f] = "waiting" \/ fresh[f]]

\* publish_snapshot: every task that watches the log has a new value to see.
Publish == fresh' = [f \in Forwarders |-> f \in Live \/ fresh[f]]

\* push_event: the WAL, the resident log, the eviction, the compaction and the
\* snapshot.
\* Nothing records into an archived session: its generation has moved on.
Push ==
    /\ ~ archived
    /\ pushed < MaxEvents
    /\ recovered' = generation + 1
    /\ pushed' = pushed + 1
    /\ LET grown == Pushed(log, pushed)
           handle == IF Wedged(grown) THEN NoForwarder ELSE Pruned
       IN  /\ evicted' = IF Wedged(grown)
                         THEN [evicted EXCEPT ![Pruned] = TRUE] ELSE evicted
           /\ registered' = handle
           /\ log' = Compacted(grown, Cap, Floor(grown, handle))
    /\ Publish
    /\ UNCHANGED <<generation, archived, prefixLen, pc, sent, released, grantVars,
                   streamVars, connVars>>

\* The cursors a client may send: none, or any position of any generation up to
\* now (one past the tip included: the code must survive it).
Cursors ==
    {NoCursor} \cup ((0 .. generation) \X (0 .. Tip(log) + 1))

\* do_attach, for the connection that waits for the grant.  The handle that was
\* registered before is replaced and left alone.
Attach(c, cursor) ==
    LET f == granted + 1
        fromBase == FromBase(log, cursor, generation)
    IN  /\ handler[c] = "idle" /\ socket[c] = "open"
        /\ granted < MaxAttach
        /\ granted' = f
        /\ handler' = [handler EXCEPT ![c] = "attach"]
        /\ registered' = f
        /\ pc' = [pc EXCEPT ![f] = "granted"]
        /\ owner' = [owner EXCEPT ![f] = c]
        /\ sent' = [sent EXCEPT ![f] =
                        log.base + VecIndex(log, cursor, generation)]
        /\ prefix' = [prefix EXCEPT ![f] =
                        <<0, IF fromBase THEN prefixLen ELSE 0>>]
        /\ start' = [start EXCEPT ![f] = IF fromBase THEN 0 ELSE cursor[2]]
        /\ UNCHANGED <<sessionVars, evicted, released, fresh, batch, batchTip, out,
                       socket, task>>

\* do_detach: whatever handle is registered is dropped.  A teardown ends with
\* the connection gone.
ActorDetach(c) ==
    /\ handler[c] \in {"detach", "teardown"}
    /\ registered' = NoForwarder
    /\ handler' = [handler EXCEPT ![c] = "idle"]
    /\ socket' = IF handler[c] = "teardown"
                 THEN [socket EXCEPT ![c] = "closed"] ELSE socket
    /\ UNCHANGED <<sessionVars, pc, handleVars, grantVars, streamVars, fresh, task>>

\* Mutants of Archive: the durable prefix counts the resident entries only; it
\* stops short of a marker's slot; the forwarder is flagged as a slow one
\* (bug-0028); it stays registered; it is flagged and not woken.
ArchiveOf(newPrefixLen, newRegistered, flags) ==
    /\ ~ archived
    /\ generation < MaxGeneration
    /\ archived' = TRUE
    /\ generation' = generation + 1
    /\ registered' = newRegistered
    /\ prefixLen' = newPrefixLen
    /\ log' = EmptyFrom(Tip(log))
    /\ flags
    /\ UNCHANGED <<pushed, recovered, pc, sent, grantVars, streamVars, connVars>>

Flagged(flag) == [f \in Forwarders |-> f = registered \/ flag[f]]

ArchiveCountsResident ==
    ArchiveOf(Len(log.entries), NoForwarder,
              Publish /\ released' = Flagged(released) /\ evicted' = evicted)

ArchiveShortOfMarker ==
    ArchiveOf(log.base - 1, NoForwarder,
              Publish /\ released' = Flagged(released) /\ evicted' = evicted)

ArchiveEvicts ==
    ArchiveOf(Tip(log), NoForwarder,
              Publish /\ released' = released /\ evicted' = Flagged(evicted))

ArchiveKeepsHandle ==
    ArchiveOf(Tip(log), registered,
              Publish /\ released' = released /\ evicted' = evicted)

ArchiveUnannounced ==
    ArchiveOf(Tip(log), NoForwarder,
              fresh' = fresh /\ released' = Flagged(released) /\ evicted' = evicted)

\* do_set_archived(true): the generation is fenced, the registered forwarder is
\* released, and the resident log is folded into the durable prefix.
Archive ==
    /\ ~ archived
    /\ generation < MaxGeneration
    /\ archived' = TRUE
    /\ generation' = generation + 1
    /\ registered' = NoForwarder
    /\ released' = IF registered = NoForwarder
                   THEN released ELSE [released EXCEPT ![registered] = TRUE]
    /\ prefixLen' = Tip(log)
    /\ log' = EmptyFrom(Tip(log))
    /\ Publish
    /\ UNCHANGED <<pushed, recovered, pc, sent, evicted, grantVars, streamVars,
                   connVars>>

\* do_set_archived(false): the WAL is reopened; log and generation stay.
Unarchive ==
    /\ archived
    /\ archived' = FALSE
    /\ UNCHANGED <<log, pushed, generation, recovered, prefixLen, registered,
                   pc, handleVars, grantVars, streamVars, fresh, connVars>>

\* do_restart: a new generation; the transcript and its snapshot stay.
Restart ==
    /\ ~ archived
    /\ generation < MaxGeneration
    /\ generation' = generation + 1
    /\ UNCHANGED <<log, pushed, recovered, archived, prefixLen, registered,
                   pc, handleVars, grantVars, streamVars, fresh, connVars>>

\* The server process dies and restore_seed_from_dir rebuilds the session: every
\* task and connection is gone and the whole history is on disk.
CrashAndRecover ==
    /\ recovered <= MaxGeneration
    /\ log' = EmptyFrom(pushed)
    /\ prefixLen' = pushed
    /\ generation' = recovered
    /\ registered' = NoForwarder
    /\ pc' = [f \in Forwarders |-> IF pc[f] = "unused" THEN "unused" ELSE "ended"]
    /\ fresh' = [f \in Forwarders |-> FALSE]
    /\ batch' = [f \in Forwarders |-> << >>]
    /\ batchTip' = [f \in Forwarders |-> 0]
    /\ socket' = [c \in Conns |-> "closed"]
    /\ handler' = [c \in Conns |-> "idle"]
    /\ task' = [c \in Conns |-> NoForwarder]
    /\ UNCHANGED <<pushed, recovered, archived, handleVars, grantVars, prefix,
                   out>>

(***************************************************************************)
(* The connection handler.                                                 *)
(***************************************************************************)

\* The task of connection c, if it has one still running, is aborted, and
\* what it was writing is lost with it.
Ended(c) == {f \in Live : f = task[c]}

DropBatch(c) ==
    /\ batch' = [f \in Forwarders |-> IF f \in Ended(c) THEN << >> ELSE batch[f]]
    /\ batchTip' = [f \in Forwarders |-> IF f \in Ended(c) THEN 0 ELSE batchTip[f]]

Abort(c) ==
    /\ pc' = [f \in Forwarders |-> IF f \in Ended(c) THEN "ended" ELSE pc[f]]
    /\ DropBatch(c)

\* The reply to Attach: spawn the granted task, then abort the one it replaces,
\* whose history is forgotten here.
Spawn(c, f) ==
    /\ handler[c] = "attach" /\ pc[f] = "granted" /\ owner[f] = c
    /\ handler' = [handler EXCEPT ![c] = "idle"]
    /\ pc' = [g \in Forwarders |->
                 IF g = f THEN IF prefix[f][2] = 0 THEN "first" ELSE "prefix"
                 ELSE IF g \in Ended(c) THEN "ended" ELSE pc[g]]
    /\ DropBatch(c)
    /\ task' = [task EXCEPT ![c] = f]
    /\ out' = [g \in Forwarders |-> IF owner[g] = c /\ g < f THEN << >> ELSE out[g]]
    /\ UNCHANGED <<sessionVars, registered, handleVars, grantVars, prefix, fresh,
                   socket>>

\* Request::Detach: abort this connection's task and wait for the actor.
Detach(c) ==
    /\ handler[c] = "idle" /\ socket[c] = "open"
    /\ handler' = [handler EXCEPT ![c] = "detach"]
    /\ Abort(c)
    /\ task' = [task EXCEPT ![c] = NoForwarder]
    /\ UNCHANGED <<sessionVars, registered, handleVars, grantVars, prefix, out, fresh,
                   socket>>

\* Request::SetArchived(true): abort this connection's task before the actor is
\* asked, which then archives or refuses.
DropForArchive(c) ==
    /\ handler[c] = "idle" /\ socket[c] = "open"
    /\ task[c] # NoForwarder
    /\ Abort(c)
    /\ task' = [task EXCEPT ![c] = NoForwarder]
    /\ UNCHANGED <<sessionVars, registered, handleVars, grantVars, prefix, out, fresh,
                   socket, handler>>

\* The read loop ends - the client is gone, or it saw the write half shut and
\* left.  Without a subscription there is nothing to tell the actor.
Hangup(c) ==
    /\ handler[c] = "idle" /\ socket[c] # "closed"
    /\ IF task[c] = NoForwarder
       THEN /\ socket' = [socket EXCEPT ![c] = "closed"]
            /\ UNCHANGED <<handler, pc, batch, batchTip>>
       ELSE /\ handler' = [handler EXCEPT ![c] = "teardown"]
            /\ Abort(c)
            /\ UNCHANGED socket
    /\ task' = [task EXCEPT ![c] = NoForwarder]
    /\ UNCHANGED <<sessionVars, registered, handleVars, grantVars, prefix, out, fresh>>

\* A client connects again.
Connect(c) ==
    /\ handler[c] = "idle" /\ socket[c] = "closed"
    /\ socket' = [socket EXCEPT ![c] = "open"]
    /\ UNCHANGED <<sessionVars, registered, pc, handleVars, grantVars, streamVars, fresh,
                   handler, task>>

(***************************************************************************)
(* The forwarder.                                                          *)
(***************************************************************************)

Stopped(f) == released[f] \/ evicted[f]

\* apply_stop_action: released ends this task alone; evicted also shuts the
\* write half the whole connection shares.
ObserveStop(f) ==
    /\ Stopped(f)
    /\ pc' = [pc EXCEPT ![f] = "ended"]
    /\ socket' = IF ~ released[f] /\ socket[owner[f]] = "open"
                 THEN [socket EXCEPT ![owner[f]] = "shut"] ELSE socket
    /\ UNCHANGED <<sessionVars, registered, handleVars, grantVars, streamVars, fresh,
                   handler, task>>

\* stream_prefix_to_client, one record of the file at a time; the stop flags are
\* heeded before each write, not at the end.
StreamPrefix(f) ==
    LET n == prefix[f][1] + 1
    IN  /\ pc[f] = "prefix"
        /\ IF n > prefix[f][2]
           THEN /\ pc' = [pc EXCEPT ![f] = "first"]
                /\ UNCHANGED <<handleVars, streamVars, socket>>
           ELSE \/ ObserveStop(f)
                \/ /\ ~ Stopped(f)
                   /\ socket[owner[f]] = "open"
                   /\ out' = [out EXCEPT ![f] = Append(@, n - 1)]
                   /\ prefix' = [prefix EXCEPT ![f] = <<n, @[2]>>]
                   /\ UNCHANGED <<pc, batch, batchTip, handleVars, socket>>
        /\ UNCHANGED <<sessionVars, registered, grantVars, fresh, handler, task>>

\* How a write that does not complete ends the task: an error because the peer
\* is gone, or, on a connection still open, the slow-subscriber timeout.
WriteEnds(f) ==
    \/ pc' = [pc EXCEPT ![f] = "ended"]
    \/ socket[owner[f]] = "open" /\ pc' = [pc EXCEPT ![f] = "stalled"]

\* A prefix batch cannot be written.
FailPrefix(f) ==
    /\ pc[f] = "prefix"
    /\ prefix[f][1] < prefix[f][2]
    /\ WriteEnds(f)
    /\ UNCHANGED <<sessionVars, registered, handleVars, grantVars, streamVars, fresh,
                   connVars>>

\* tail_snapshot up to the write: take the newest snapshot, heed the stop
\* flags, resolve the position against the snapshot's base and cut the tail.
\* An empty tail leaves the position where it was.
CutTail(f) ==
    /\ pc[f] = "first" \/ (pc[f] = "waiting" /\ fresh[f])
    /\ IF Stopped(f)
       THEN ObserveStop(f)
       ELSE LET cursor == <<generation, sent[f]>>
                tail == TailFrom(log, VecIndex(log, cursor, generation))
            IN  /\ pc' = [pc EXCEPT ![f] = IF tail = << >> THEN "waiting" ELSE "writing"]
                /\ batch' = [batch EXCEPT ![f] = tail]
                /\ batchTip' = [batchTip EXCEPT ![f] = IF tail = << >> THEN 0 ELSE Tip(log)]
                /\ fresh' = [fresh EXCEPT ![f] = FALSE]
                /\ UNCHANGED <<sessionVars, registered, handleVars, grantVars, prefix,
                               out, connVars>>

\* The batch goes out of scope.
NoBatch(f) ==
    /\ batch' = [batch EXCEPT ![f] = << >>]
    /\ batchTip' = [batchTip EXCEPT ![f] = 0]

\* Mutant of WriteDone: the position is left at the last event written instead of
\* the first one not written.
WriteDoneAtLast(f) ==
    /\ pc[f] = "writing"
    /\ socket[owner[f]] = "open"
    /\ pc' = [pc EXCEPT ![f] = "waiting"]
    /\ out' = [out EXCEPT ![f] = @ \o batch[f]]
    /\ sent' = [sent EXCEPT ![f] = batchTip[f] - 1]
    /\ NoBatch(f)
    /\ UNCHANGED <<sessionVars, registered, evicted, released, grantVars, prefix,
                   fresh, connVars>>

\* The write of the batch completes; the position moves to the snapshot's tip.
WriteDone(f) ==
    /\ pc[f] = "writing"
    /\ socket[owner[f]] = "open"
    /\ pc' = [pc EXCEPT ![f] = "waiting"]
    /\ out' = [out EXCEPT ![f] = @ \o batch[f]]
    /\ sent' = [sent EXCEPT ![f] = batchTip[f]]
    /\ NoBatch(f)
    /\ UNCHANGED <<sessionVars, registered, evicted, released, grantVars, prefix,
                   fresh, connVars>>

\* The write fails or times out after any number of frames.
WriteFailed(f) ==
    /\ pc[f] = "writing"
    /\ WriteEnds(f)
    /\ \E n \in 0 .. Len(batch[f]) :
          out' = [out EXCEPT ![f] = @ \o SubSeq(batch[f], 1, n)]
    /\ NoBatch(f)
    /\ UNCHANGED <<sessionVars, registered, handleVars, grantVars, prefix, fresh,
                   connVars>>

ActorStep ==
    \/ Push
    \/ \E c \in Conns : \E cursor \in Cursors : Attach(c, cursor)
    \/ \E c \in Conns : ActorDetach(c)
    \/ Archive
    \/ Unarchive
    \/ Restart

HandlerStep ==
    \E c \in Conns :
        \/ \E f \in Forwarders : Spawn(c, f)
        \/ Detach(c)
        \/ DropForArchive(c)
        \/ Hangup(c)
        \/ Connect(c)

ForwarderStep(f) ==
    \/ StreamPrefix(f)
    \/ FailPrefix(f)
    \/ CutTail(f)
    \/ WriteDone(f)
    \/ WriteFailed(f)

Next ==
    \/ ActorStep
    \/ HandlerStep
    \/ \E f \in Forwarders : ForwarderStep(f)
    \/ CrashAndRecover

\* The runtime polls every ready task: a granted task is spawned, a forwarder
\* with something to do does it, and a write ends, at the latest by its timeout.
\* Nothing obliges a client to send a request, to hang up or to read.
Fairness ==
    /\ \A c \in Conns : \A f \in Forwarders : WF_vars(Spawn(c, f))
    /\ \A c \in Conns : WF_vars(ActorDetach(c))
    /\ \A f \in Forwarders : WF_vars(ForwarderStep(f))

Spec == Init /\ [][Next]_vars /\ Fairness

(***************************************************************************)
(* What the log promises.                                                  *)
(***************************************************************************)

\* Positions are stable across compaction (event_log.rs, "the one invariant that
\* matters"): the resident entry at index i is the event number base + i, the
\* marker only ever the first entry, and the tip counts every event pushed.
SeqStable ==
    /\ Tip(log) = pushed
    /\ \A i \in DOMAIN log.entries :
          \/ log.entries[i] = log.base + i - 1
          \/ i = 1 /\ log.entries[i] = Marker

\* Disconnect-before-gap bounds memory (push_event): however a subscriber stalls,
\* the resident log never exceeds the high-water mark by more than the marker.
MemoryBounded == Len(log.entries) <= HighWater + 1

\* The compaction floor (compaction_floor): the log is never trimmed past the
\* position of the registered forwarder, nor is that position ever ahead of it.
FloorHeld ==
    registered \in Live => sent[registered] \in log.base .. Tip(log)

\* The durable prefix and the resident log meet (ADR-0038, do_attach): they never
\* overlap, and what lies between them is what the marker in front stands for.
\* An archived session has nothing that is not below the prefix.
PrefixMeetsResident ==
    /\ prefixLen <= log.base
    /\ prefixLen < log.base => log.entries # << >> /\ log.entries[1] = Marker
    /\ archived => prefixLen = Tip(log)

(***************************************************************************)
(* What a subscriber is promised, on the newest attach of its connection.  *)
(***************************************************************************)

Newest(f) ==
    /\ pc[f] # "unused"
    /\ \A g \in Forwarders : pc[g] # "unused" /\ owner[g] = owner[f] => g <= f

\* s, read by a client that asked from position first on, leaves nothing out
\* without a marker in its place and repeats nothing.
Gapless(s, first) ==
    \A i \in DOMAIN s : s[i] # Marker =>
        IF i = 1 THEN s[i] = first
        ELSE IF s[i - 1] # Marker THEN s[i] = s[i - 1] + 1
        ELSE i > 2 => s[i] > s[i - 2]

\* No silent gap, no duplicate, no reordering, across the seam between the file
\* and the resident log, cursor reconnects, compaction, archive and recovery
\* (forward_notifications, do_attach).
NoSilentGap ==
    \A f \in Forwarders : Newest(f) => Gapless(out[f], start[f])

\* A subscriber is never gapped mid-stream (compaction_floor): a marker can only
\* be the first resident entry it is sent.
NeverGappedMidStream ==
    \A f \in Forwarders : Newest(f) =>
        \A i \in DOMAIN out[f] : out[f][i] = Marker => i = prefix[f][1] + 1

\* Whatever other connections do to the session, no client is sent an event twice
\* or out of order on its newest attach (forward_notifications: "never a
\* stale-offset gap/dup").
NeverRepeats ==
    \A f \in Forwarders : Newest(f) =>
        \A i, j \in DOMAIN out[f] :
            i < j /\ out[f][i] # Marker /\ out[f][j] # Marker =>
                out[f][i] < out[f][j]

\* Only a subscriber more than HighWater events behind costs its connection the
\* write half (bug-0028: archiving a session must not).
EvictedOnlyWhenWedged ==
    [][\A f \in Forwarders : evicted'[f] /\ ~ evicted[f] =>
          pushed' - sent[f] > HighWater]_vars

\* A forwarder the actor flags stops (apply_stop_action), whatever it was doing.
StopHonoured ==
    \A f \in Forwarders : Stopped(f) ~> Exited(f)

\* A slow subscriber is self-healing (forward_notifications): once pushes stop,
\* every forwarder still running has sent everything; no wake-up is lost.
CatchesUp ==
    \A f \in Forwarders :
        <>[](pc[f] = "unused" \/ Exited(f) \/ sent[f] = Tip(log))

\* "On elapse we drop the subscriber (its write half closes -> the client sees
\* EOF and cleanly reconnects)" (slow_sub_write_timeout).
StalledSubscriberSeesEof ==
    \A f \in Forwarders :
        pc[f] = "stalled" ~> (socket[owner[f]] # "open" \/ task[owner[f]] # f)
=============================================================================
