# A TLA+ model of yaldabaoth's session server

yaldabaoth is a desktop workspace for coding agents.  Its concurrent heart is
`yalda-session-server`: a daemon that owns agent sessions, survives its GUI
clients, journals every session to a write-ahead log and streams transcripts to
whoever attaches.  This directory holds TLA+ modules that model it, TLC
configurations that check them on small instances, and proofs TLAPS checks for
every instance.

## 1. The system

| part | source | state it keeps | operations | talks to |
|---|---|---|---|---|
| session actor | `src/bin/yalda-session-server/main.rs` | per session: resident `event_log`, `channel_generation`, `busy`, pending prompts, provider deliveries, replay fence, WAL handle, durable prefix, the registered forwarder | one command at a time: create, close, attach, detach, prompt, steer, cancel, restart, archive, Cog delivery, worker answers, pump records | connection handlers (commands and one-shot replies), pump threads, forwarders (a watch channel and three atomics) |
| event log | `src/event_log.rs` | resident entries and the position of the first | push, trim to a floor, prepend a marker, resolve a cursor | the actor owns it, snapshots are shared |
| forwarder | `main.rs`, `forward_notifications` | its position `sent_seq`, stop flags | stream the file prefix, then the resident tail, on every snapshot | the actor (flags, position), the connection's write half |
| connection handler | `main.rs`, `handle_connection` | the forwarder task per subscribed session | one request at a time; spawn and abort tasks | the actor, the socket |
| pump and worker | `main.rs` `spawn_pump_thread`; `src/acp_channel.rs` | a generation, a turn counter, an event queue | run prompts first in first out, record events, count turns | the actor |
| replay fence | `src/replay_fence.rs` | a marker and a discard mode | drop what a resumed agent replays | the pump |
| write-ahead log | `src/session_wal.rs` | one file per session | create, append, repair a torn tail, recover, stream a prefix | the actor, recovery, forwarders |
| session client | `src/session_client.rs` | pending requests by id | request and response, timeout, reconnect | the server's socket |
| Cog runtime | `src/cog_runtime/*` | leases, claims, a journal | claim, deliver, settle, recover | the actor (provider deliveries) |
| chat bridge | `yalda-session-server/bridge/*` | topic routes, fold state | mirror transcripts, route commands | the notification tap |
| GUI fold | `src/bin/yalda-gpui/agent_ui.rs`, `agent.rs`; `src/agent_transcript.rs` | per session: the rows, the channel generation, which stream is in charge, the finalize ledger, the reconciler, "thinking" | submit, fold a note, rebase on a new generation, wipe and re-attach | the client |
| rest of the GUI, editor, helpers | `src/bin/yalda-gpui`, `src/editor.rs`, ... | local | rendering, editing | the client |

What is hard here: the actor runs commands one by one, but forwarders read
snapshots and write sockets with no lock held, handlers wait for the actor in the
middle of a request, pumps and workers answer for generations that may be over,
and a crash may fall between any two steps.  PROJECT.json lists the hazards line
by line, with the properties that cover them.

What makes each part correct:

* log: positions are stable, bounded memory, nothing dropped that the registered
  subscriber has not got;
* stream: a subscriber is handed every event once, in order, across file, memory,
  compaction, archive, reconnect and crash; it is told to stop and stops; it
  catches up;
* turns: a prompt runs once, `busy` means a turn is running, a stale generation
  never speaks for a session;
* write-ahead log: what was appended is recovered, a torn tail loses only itself;
* pump: every live event is recorded once, in order; a replay is recorded never; a
  turn is reported as it ended or as failed;
* client: a response reaches the call that asked, no call is left to its timeout
  when the connection ends, a prompt fired before a disconnect is written;
* GUI fold: of the two streams of the log exactly one is folded at any time, no prompt is
  swallowed as an echo, and "thinking" ends with the turn;
* Cog: what was decided about an attempt survives crashes and lost answers, is
  told to Cog in the end, and is never decided again.

## 2. The modules

| module | what it is |
|---|---|
| `EventLog` | `event_log.rs` and `compact_event_log` as pure operators on a record `[base, entries]` |
| `TranscriptStream` | the state machine: one session's actor, its forwarders, the connection handlers |
| `TranscriptFeed` | the abstract specification: what a reader of the transcript is promised |
| `MCTranscriptStream` | instantiates both for TLC: the refinement mapping |
| `TranscriptStream_proofs` | lemmas about the operators of `EventLog`, for every log; the theorems about the state machine, and what a client is sent: nothing twice, and the refinement of `TranscriptFeed` |
| `SessionLifecycle` | the state machine of the same session's turns: its channels, prompts and Cog deliveries |
| `SessionLifecycle_proofs` | its theorems |
| `Selections` | what a filter leaves of a sequence, and the members of a set in their order |
| `Selections_proofs` | facts about selections and queues, by induction over a sequence |
| `ReplayPump` | a channel's pump thread with the replay fence, the worker's event queues and turn counter |
| `ReplayPump_proofs` | its theorems |
| `SessionWal` | a session's file and what the actor writes to it, with failed appends, crashes, power loss and recovery |
| `SessionWal_proofs` | its theorems |
| `ClientRequest` | one connection between a client and the server: calls, fired requests, threads, framing |
| `ClientRequest_proofs` | its theorems |
| `CogDelivery` | the Cog coordinator, its journal and its supervisor, against an external Cog |
| `CogDelivery_proofs` | its theorems |
| `TranscriptFold` | what one GUI shows of a session: the log both streams are written to, the connection, the tile that folds it |
| `TranscriptFold_proofs` | its theorems |

`TranscriptStream` and `SessionLifecycle` are two views of one actor.  They share
`generation` and archive and restart; everything a turn writes to the log is a
`Push` of `TranscriptStream`, and nothing in the log decides a turn.  The other
modules each open what these two take as one step: `ReplayPump` is behind the
messages `TurnCount` and `AgentDisconnected` and the batches that become pushes;
`SessionWal` is behind `CrashAndRecover` and the prompts a session starts with;
`ClientRequest` is behind `Hangup`, `Connect` and a write that fails; `CogDelivery` is
the client whose requests `SessionLifecycle` calls deliveries.  `TranscriptFold` is at the other end of
`TranscriptStream`: it takes for granted that the notes arrive once and in order, says what
the notes are, and follows what the GUI makes of them.

### The transcript

**Events** are their number (the how-many-th event of the session) or `Marker`,
the `CompactedSummary` that stands for a trimmed front.  What an event says is
left out.  The WAL is the sequence `0 .. pushed - 1`: appends succeed here; that
they may not is the subject of `SessionWal`.

**State.** `log`, `generation`, `archived`, `prefixLen`, `registered` are fields of
`ManagedSession`; the snapshot on the watch channel is `log` itself, because every
command that changes the log publishes it before it returns.  `recovered` is the
generation recovery would compute from the file.  A forwarder `f` has the atomics of
its `ForwarderHandle` (`sent`, `evicted`, `released`), the grant it was spawned
with (`prefix`, `start`), the watch channel's "changed" bit (`fresh`) and the batch
it cut and has not finished writing.  A connection has its write half (`socket`), the
request it waits on (`handler`) and `subscribed` (`task`).

**Actions.** One per actor command (`Push`, `Attach`, `ActorDetach`, `Archive`,
`Unarchive`, `Restart`), one per handler step (`Spawn` after the grant, `Detach`,
`DropForArchive`, `Hangup`, `Connect`), and the forwarder cut where the code awaits:
`StreamPrefix` per record, `CutTail` up to the write, `WriteDone` or
`WriteFailed` after it.  `Push` is the whole of `push_event`: append, prune, evict,
compact, publish.  `CrashAndRecover` is a process death at any point followed by
`restore_seed_from_dir`.  Archive and restart may come from any client, so they are
not tied to a connection; the connection that asks drops its own task first, which is
`DropForArchive`.

`out` is a history variable: what a forwarder wrote to its client.  When an attach
replaces a connection's forwarder, the older one's history is forgotten.  An aborted
batch counts as not received; a write that fails or times out may have delivered any
number of frames.

### The turns

`SessionLifecycle` has four kinds of process.

| process | code | actions |
|---|---|---|
| the actor, for clients | `do_prompt`, `do_steer`, `do_cog_delivery`, `do_cancel`, `do_restart`, `do_set_archived`, `do_close` | `Prompt`, `Steer`, `CogDelivery`, `Cancel`, `Restart`, `Archive`, `Unarchive`, `Close` |
| the actor, for its threads | `Manager::apply` of `PublishChannel`, `SpawnFailed`, `AgentDisconnected`, `TurnCount` | `Receive`, by message `Publish`, `LostAgent`, `TurnCount` |
| a spawn thread per channel | `spawn_channel`, `publish_channel` | `SpawnEnds` |
| the channel's worker | the prompt driver of `acp_channel.rs` | `TurnEnds`, `Dies` |
| the channel's pump | `spawn_pump_thread` | `Pump` |

`lifecycle`, `generation`, `channel`, `busy`, `turns`, `pendingPrompts`,
`activeDelivery` and `pendingDeliveries` are fields of `ManagedSession`; its `archived`
flag is the lifecycle `Archived`, and a session no longer in the actor's map is `Closed`.
`inbox` is the actor's inlet as its own threads fill it, first in, first out.
Client commands share that inlet in the code; here one may be applied at any time,
which covers every place in the queue it could have had.  `worker[c].handed` is what
a worker was ever given, in order, and `ended` how each of its turns ended: two
histories that stand for its queue and its turn counter.  `fate` and `result` are what
the submitter of a prompt and the requester of a delivery have been told.

Left out: log records and write-ahead log failures (`SessionWal`); settings that pass through; the
provider's identity; the queue's text.  A spawn thread that cannot be started is a
handshake that fails at once.  A cancel sent to a live agent only shapes how the agent
ends its turn, which is free anyway.  The other work of the pump, moving
transcript batches, is `ReplayPump` and `Push`.

### The pump

`ReplayPump` has three processes.  The worker emits live events (`Chunk`) and ends
turns (`TurnEnds` moves the counter, `Settle` sends the `TurnSettled` that belongs to
it: two steps, as in the code).  Its `pump_task` moves events from `forward` to `reply`
(`Forward`) and dies with the connection (`WorkerExits`).  The pump thread goes round
`Check`, `Drain`, `Count`, `Send`: the generation and the connected flag, at most `Budget`
events and the one that shows there are more, the counter, and then everything it
sends - the batch through the fence, `ReplayDone`, the `TurnCount` with the outcome it found.
The order of these four is the code's, and what the worker does between them is what
the properties are about.

The model begins when the pump does, after publication: a resumed agent has emitted its
history by then, and the marker behind it.  `Supersede` stands for everything that
moves the generation.  The notices of the stall watchdog, which are recorded like live events,
and the acknowledgement of every command are left out.

### The write-ahead log

`SessionWal` keeps the file as lines and a line as the fragments written since the
newline before it: one whole record, as a rule.  `AppendFails` leaves nothing, a
part, all but the newline, or all of the record; `PowerLoss` cuts what was not synced
at any byte; `Crash` keeps it.  `Recover` is `recover_one` with `walk_wal` and
`repair_torn_tail`: it skips a file it cannot read and otherwise rebuilds events, pending
prompts, the next prompt id and whether the session is archived.

The actor's operations are cut where it appends: a prompt is its intent (`Admit`), its
terminal record (`Deliver`) and its echo in the transcript (`LogPrompt`); an archive is its
marker and one terminal record per queued prompt (`Archive`, `Cancel`).  `Record` is every other
event, synced if it is a turn's boundary.  A record stands for the pair, legacy and Agent,
that the code writes of one event; the header is there from the start, and the file lock
is left out.

### The client and its connection

`ClientRequest` follows a request from the check of `connected` through the pending map, the
writer's channel, the wire, the handler and back: `Check`, `Register`, `Send`, `Write`, `Serve`,
`Respond`, `Read`, `Return`; and every way it ends instead: `Disconnected`, `Expire`.  The
threads end in the code's order, step by step (`StopWriting`, `ShutDown`, `WriterFailsPending`,
`WriterEnds`; `StopReading`, `ReaderFailsPending`), so that a call may slip in between any two.
`Drop` is the drop of the client, which a reconnect also is; cloned handles are just further
callers.  `PumpIsGone` is the reader leaving because nobody receives notifications.

A frame is a line.  Notifications matter for the framing only: `Tear` leaves an unended line
(a forwarder aborted, or timed out, in the middle of a write), and the next frame, a
response or a notification, is glued to it and cannot be parsed.

### The Cog runtime

An operation of `DeliveryCoordinator` holds a mutex and is a sequence of requests to Cog;
`op` is the operation under way and the attempts it has yet to handle, so that Cog, turns,
lost answers and crashes come between any two requests of `activate` (`Acquire`, `Reconcile`,
`Activate`), `claim_available` (`Claim`, `Admit`, `Flush`) with `dispatch_batch` (`Dispatch`),
`record_provider_result` (`RecordResult`, `Flush`), the renewal tick (`StartRenewal`, `Renew`,
`StartRetry`, `Flush`) and `shutdown` (`StartShutdown` to `ReleaseHost`).  `mode` is where the supervisor is.
`journal` is the latest record of each attempt on disk; `inflight` is memory and dies with the
process.

Cog is external: claims with fences, a host lease, terminal states and replays of identical
requests, as far as the coordinator reads them (`CogMoves`, `Answers`).  An address has
one open attempt at a time, so attempts stand for their addresses.  Merged, because nobody can
tell the states apart: the journal's claimed and dispatch-started records; a turn still
running and its result waiting in the channel; the health flags, which are in `GiveUp`.
Left out: the wake reader and its cursor, a hint that hurries a tick; the reconciliation of
owners and routes; the contents of capabilities; input and output errors of the journal, so that an append
succeeds, is refused by `validate_transition`, or is cut off by a crash before or after it.

### The GUI's fold

`TranscriptFold` has the session, the connection and one GUI.  `log` is what the handlers record, in
their order: a prompt is `UserPrompt` and then the canonical `UserMessage`; what the agent says, its echo
of the prompt, a turn's end and a replay's end are each the canonical event and then the legacy one
(`Say`, `EchoPrompt`, `EndTurn`, `MarkReplayEnd`).  `Restart` bumps the generation before there is a channel,
`Publish` flushes the queue as far as the agent takes it, `AgentDies` rejects what is still queued, `Crash` starts
over from the log with a newer generation.  A session may have been created over an earlier
conversation (`resumes`).

The GUI folds the log by position, as late as it likes, one action per kind of note, each the whole arm
of `apply_server_batch` with `apply_reply_events` or `apply_agent_event` under it.  `Listens` and `Legacy` are
the two gates (`agent_stream_authoritative`), `Rebased` is `begin_server_generation`, `Echoed` the
reconciler's answer to an echo, `Finalized` the ledger with the phase its callers set.  `Submit` is
`send_prompt_to_session`; a refusal comes back beside the log (`HearRefusal`).  A lost connection may take what was
written with it; `Reconnect` wipes the tile as `reset_for_replay` does, which keeps its generation, and reads from the
beginning.

`asked` counts the rows of each text, `said` is the sequence of chunks shown, `prompted` how often each text was
typed: histories of the screen and of the user.  Left out: tool calls, plans and notices, which
pass the same gates as chunks; the turn numbers rows are tagged with; steering; what a resumed agent replays
where no fence is up is any chunk.

## 3. The runs

| run | instance | checks | result |
|---|---|---|---|
| `single` | 1 connection, 2 attaches, cap 2, high water 2, 4 events, 2 generations | the invariants, `ImplementsFeed`, `EvictedOnlyWhenWedged`, `StopHonoured`, `CatchesUp` | holds |
| `stalled` | 1 connection, 1 attach | `StalledSubscriberSeesEof` | violated |
| `archive_gap` | 2 connections | `NoSilentGap` | violated |
| `turns` | 2 prompts, 2 deliveries, 2 channels, 2 generations, agents with and without native steering | 7 safety properties of the turns | holds |
| `answers` | 1 prompt, 2 deliveries, 2 channels, 2 generations | `QueuedIsResolved`, `BusyEnds`, `DeliveryIsAnswered` | holds |
| `other_turn` | 2 prompts, 1 delivery, 1 channel | `SuccessIsItsOwnTurn` | violated |
| `pump` | budget 1, 1 replayed event, 2 live ones, 2 turns, fresh and resumed sessions | `NothingLiveLost`, `ReplayIsDiscarded`, `OutcomeIsTheTurns`, `CatchesUp` | holds |
| `wal` | 3 events, 2 prompts, 1 failed append, 2 stops | `AlwaysReadable`, `PromisesSurvive`, `DiskFollowsActor` | holds |
| `client` | 2 calls, 1 fired request | `RoutedToItsCaller`, `FiredIsWritten`, `CallEnds` | holds |
| `cog` | 2 attempts, 3 claims, 2 host leases, 2 processes, 1 attempt ended elsewhere | 3 invariants, `NeverRedispatched`, `AppendNeverRefused`, `ResultIsReported` | holds |
| `fold` | 2 prompts of 2 texts, 2 chunks, 11 notes, 2 generations, 1 loss or crash, 1 pending echo | `AnswersOnceInOrder`, `EveryPromptIsShown`, `ThinkingEnds` | holds |
| `double` | 1 prompt, 2 generations, no loss | `NeverShownTwice` | violated |

The first three runs are of `TranscriptStream`, the next three of `SessionLifecycle`, the last two of
`TranscriptFold`.

**Bounds of the transcript.**  The bounds are named constants: `MaxAttach` forwarders ever granted, `MaxEvents`
pushes, `MaxGeneration` generations.  They are enough because everything
interesting happens by then: with cap 2 the third event compacts, with high water 2
the third unsent event evicts, with four events a compacted log compacts again while
a batch is in flight; two attaches give a reconnect with every cursor (none, every
position of every generation, one past the tip) and a replaced handle; two generations
give an archive, a restart or a crash at every point.  Deadlock is not checked: when
every bound is reached and every client is idle the model stops, and so may the server.

**Bounds of the turns.**  Two prompts give an order to keep and a flush cut in the middle
by the agent's death; two deliveries give one that waits behind another; two channels
give every way one channel replaces another (restart, unarchive, retry after a
failure) with messages of the first under way; two generations give a fenced one.
`MaxRecovered` lets recovery find one prompt admitted and not finished, in a session that starts its
agent and in an archived one.  A third channel
matters in one way only: repeating an unarchive can publish two channels of one
generation (section "Limits").  `DeliveryIsAnswered` says in its hypothesis that this
has not happened (`Contended`), since a count that went back can fall short of a
delivery's target.  The stop reasons are one value in `turns` and `answers`: the pump may
report any turn as not completed, so both outcomes are still explored.

**Bounds of the fold.**  Two prompts fill the reconciler's queue past its limit of 1 (64 in the code) and give a
prompt that meets the echo of another; eleven notes hold a turn with a chunk on each side of a change of the
stream in charge, or two replays and a turn; two generations give a rebase and stragglers; one loss gives a
tile that is wiped at any point and folds everything again.  Texts are interchangeable (symmetry).

**Bounds of the other runs.**  `pump`: with a budget of 1 the second event in the queue makes a
cycle stop short, so the marker, a turn's end and the events around them meet every
cut a drain can make; two turns are the fewest that can be counted together or have their
`TurnSettled`s out of order.  `wal`: two stops give a torn tail that is repaired and torn
again, or a crash and then a power loss; one failed append is what it takes to glue two records;
two prompts give an order and an id to draw after recovery; the three events are a boundary, a
streamed one and one after it; `MaxLines` bounds the file, so each operation still finds
room before and after the others.  `client`: two calls can take each other's response, find a
slot the other left, or race the end of either thread; a fired request is alike for every
connection, so one is enough.  `cog`: two attempts make a batch whose second half fails;
three claims give each attempt one and a second claim after a loss, a release or a crash; two
host leases give one that is lost; two processes give a recovery.  The last claim does not
expire and the last process does not die, so that liveness is about something.
None of these runs checks deadlock: each stops when its bounds are used up, its client
is gone or its agent is dead, and so does the code.

**Properties worth knowing.**

* `ImplementsFeed` - the detail refines `TranscriptFeed`: what a client holds only
  grows, with events recorded before, none left out unless a marker is in their place,
  and no marker without something it stands for.  It holds with one connection
  subscribed, the "strict 1:1" the code's comments assume.
* `NeverRepeats` holds with any mix of connections (proved); `NoSilentGap` does not (below).
* `FloorHeld` and `MemoryBounded` are the two sides of the high-water mechanism.
* `PrefixMeetsResident` is the seam between file and memory.
* `StopHonoured` and `CatchesUp` are liveness.
* `HandedOverOnce` and `KeepsSubmissionOrder` are what a user expects of a prompt typed
  while the agent is starting, failing or being replaced; `QueueWaitsForAChannel` and
  `QueuedIsResolved` say that no prompt is left waiting for a channel that is not coming, except
  in cold storage: what recovery found queued there waits for the unarchive (a limit below).
* `DeliveriesAccounted`, `OneDeliveryAtATime` and `DeliveryIsAnswered` are the same for a
  Cog delivery: it is active or it waits, never beside another one, and is answered.
* `ArchivedIsFrozen` is the generation fence: whatever an old spawn thread or pump still
  says, an archived session does not move.
* `NothingLiveLost` accounts for every live event over four queues and the fence, at every
  moment; `OutcomeIsTheTurns` says that a late `TurnSettled` never speaks for another turn.
* `PromisesSurvive` is about what a power loss may leave, not about what the page cache
  has; `DiskFollowsActor` is the position arithmetic that archive and recovery rely on, and says
  that the prompts recovery would find are those the actor has yet to settle.
* `CallEnds` names the two kinds of call that do wait for their timeout.
* `JournalLeads` says that memory never knows more than a crash would leave, and that Cog never
  was told anything that is not on disk, under the same idempotency key.
* `NeverRedispatched` and `ResultIsReported` are what a provider and Cog expect of a journal: a
  result is final, and it arrives.
* `BusyEnds` and `DeliveryIsAnswered` are stated for agents without native steering; the limits
  below say why.
* `AnswersOnceInOrder` is the "double-apply risk" of `apply_server_batch` and its opposite, a chunk neither stream
  shows; `EveryPromptIsShown` is the same for prompts.  `ThinkingEnds` is about the state in which nobody owes
  the tile anything.  It names one exception, which is a limit below.

**Fairness.**  A granted task is spawned, an actor command in the queue is served, and
a forwarder that can step does: tokio polls ready tasks, the actor drains its queue,
and every write ends because `write_frames` bounds it with a timeout.  No client is
obliged to send, read or hang up, and no event is obliged to be pushed.
In `SessionLifecycle` the actor drains its inlet and every pump polls on: threads of the
server.  That a handshake ends, and that an agent ends each turn it was given unless it
dies, is assumed of the agent (only the load of an old session has a timeout in the code).
Nothing obliges a client to act or an agent to die.
In `ReplayPump` the pump's loop and the forwarding task go on; the agent owes nothing.  In
`ClientRequest` callers, both client threads and the handler go on; no timeout has to fire
and nobody has to break anything, so `CallEnds` does not lean on a timeout.  In
`CogDelivery` the supervisor and its ticks go on; a request that is made again and again is
answered in the end (strong fairness, per attempt where the loop is per attempt); Cog offers
again what is open, takes back claims nobody renews and lets the lease of a host that is
gone run out.  No provider turn has to end.

**Findings** (violated runs; the quotes are in PROJECT.json):

* `stalled`: the timeout on a write ends the forwarder, but the handler keeps the write
  half open, so the client sees no EOF and is not told that its transcript is frozen.
* `archive_gap`: an archive releases the registered forwarder only; another connection's
  lives on over the emptied log and later skips events silently.
* `other_turn`: the worker may hold two prompts.  The end of the first clears `busy`, a
  delivery starts with the target `turns + 1`, and the second prompt's turn, which is that
  turn, answers it with its own outcome.
* `double`: `do_restart` bumps the generation before the new channel exists.  A prompt admitted in between is
  logged as `UserPrompt` and as a `UserMessage` of the new generation, ahead of its `ChannelOpened`; the second
  rebases the tile, resets the reconciler and is inserted again, live and on every replay.

**Limits the models show** and the properties name, without a run of their own:

* A detach drops whatever handle is registered: when the teardown of an old connection is
  served after a newer attach, the newer forwarder runs on without a floor, and a
  compaction may pass it (`do_detach`, main.rs:2117).
* The fence is armed by the number of completed turns.  A session with events and no
  completed turn records its replay again; and a turn whose end is seen before the marker
  clears the fence (`Armed` and `Forced` in `ReplayIsDiscarded`).
* A turn is counted before its `TurnSettled` is sent: a pump that looks in between
  reports a completed turn as failed.  Events still queued when the agent goes are lost.
* A failed append that left part of a record, followed by another append, makes a line nobody
  can read, and recovery skips the whole session (`faults.glued`).  An intent or an archive
  marker whose append failed at the sync may be on disk all the same: its id is given again, or
  the session comes back archived.
* An archive writes its marker before the `Cancelled` records of the queue (`do_set_archived`, main.rs:2761
  and 2775-2780).  A stop between the two is recovered as an archived session with its prompts still
  queued (main.rs:1389-1412): no cancel reaches them (`do_cancel` leaves an archived session alone), and an
  unarchive hands them to the new agent after all.  `SessionWal` reaches that file, `SessionLifecycle` starts from it.
* A call registered after the reader failed the pending ones waits for its timeout, and so does one
  whose response was glued to a torn frame (`late`, `garbled`).  Of two requests fired just
  before a drop, the server may read one only: its first response finds the socket shut and ends
  the loop.
* A native steer served when no turn runs sets `busy`; it is not counted as a turn, so nothing clears
  `busy` until another prompt is sent (`do_steer`, main.rs:2365; `steering` in `BusyEnds`).
* An unarchive keeps the generation, so a late `AgentDisconnected` of a dead channel disconnects the session again
  while its successor is starting; after another unarchive two channels are published in one
  generation and both pumps pass the fence, each counting from its own base (`Contended`).
* A tile that is wiped keeps its generation, although the comment on the field has it "Cleared to `0` by
  `reset_for_replay`" (agent.rs:4006).  The end of a replay of an older generation is then dropped as a straggler, its
  legacy twin is folded and takes the ledger's entry of the tile's generation and the turns settled so
  far; if that is the turn now running, its end finalizes nothing and the tile stays on "thinking" until the next
  turn ends (`kept` in `ThinkingEnds`).
* A prompt is also shown twice when another is submitted between its two notes, when it is submitted before
  the tile has folded the `ChannelOpened` of its channel, and when more than 64 echoes are pending.  Two
  identical prompts queued one behind the other are one row on a replay.
* A claim lost while its turn runs makes a second dispatch; the old turn's result is then
  recorded under the new claim's key.  A host lease lost with attempts in flight leaves the adapter in
  its loop, neither reporting nor giving up (`Wedged`).  A dispatch whose batch failed later is never
  run (`"forgotten"`).

## 4. The proofs

Every theorem holds for every value of the constants under the named assumptions of its
module.  For `TranscriptStream` these are a cap of at least 2 and a high-water mark not below
it, which are the clamps in `event_log_cap` and `event_log_high_water`; for `ClientRequest`, that
a request either waits for its response or does not.  For `CogDelivery`, `ReplayPump` and
`SessionWal` they only say that the bounds are numbers, and that an event budget is not 0; for
`TranscriptFold`, that they are numbers, that there is a text to type, and that
an echo may be pending (`MAX_PENDING_ECHOES` is 64).

| theorem | states |
|---|---|
| `TypeCorrect` | `Spec => []TypeOK` |
| `PositionsAreStable` | `Spec => []SeqStable` |
| `MemoryIsBounded` | `Spec => []MemoryBounded` |
| `FloorIsHeld` | `Spec => []FloorHeld` |
| `PrefixAndResidentMeet` | `Spec => []PrefixMeetsResident` |
| `EvictionIsEarned` | `Spec => EvictedOnlyWhenWedged` |
| `SubscribersSeeOrder` | `Spec => []NeverRepeats` |
| `NeverGapped` | `OneConnection` implies `Spec => []NeverGappedMidStream` |
| `StreamImplementsFeed` | `OneConnection` implies `Spec => ImplementsFeed`, the refinement of `TranscriptFeed` |
| `ResponsesFindTheirCaller` | `Spec => []RoutedToItsCaller` |
| `FiredBeforeShutdown` | `Spec => []FiredIsWritten` |
| `LifecycleTypes` | `Spec => []TypeOK` of `SessionLifecycle` |
| `QueuedPromptsAreWaiting` | `Spec => []QueueWaitsForAChannel` |
| `DeliveriesAreAccounted` | `Spec => []DeliveriesAccounted` |
| `DeliveriesTakeTurns` | `Spec => OneDeliveryAtATime` |
| `ArchiveHolds` | `Spec => ArchivedIsFrozen` |
| `PromptsAreHandedOverOnce` | `Spec => []HandedOverOnce` |
| `SubmissionOrderIsKept` | `Spec => []KeepsSubmissionOrder` |
| `DeliveryTypes` | `Spec => []TypeOK` of `CogDelivery` |
| `JournalAlwaysLeads` | `Spec => []JournalLeads` |
| `JournalAlwaysBelievesCog` | `Spec => []JournalBelievesCog` |
| `AwaitingAlwaysHasATurn` | `Spec => []AwaitingHasATurn` |
| `NoAppendRefused` | `Spec => AppendNeverRefused` |
| `ResultIsNeverRedispatched` | `Spec => NeverRedispatched` |
| `PumpTypes` | `Spec => []TypeOK` of `ReplayPump` |
| `LiveIsNeverLost` | `Spec => []NothingLiveLost` |
| `ReplayIsAlwaysDiscarded` | `Spec => []ReplayIsDiscarded` |
| `OutcomesAreTheTurns` | `Spec => []OutcomeIsTheTurns` |
| `WalTypes` | `Spec => []TypeOK` of `SessionWal` |
| `AlwaysRecoverable` | `Spec => []AlwaysReadable` |
| `PromisesAlwaysSurvive` | `Spec => []PromisesSurvive` |
| `DiskAlwaysFollows` | `Spec => []DiskFollowsActor` |
| `FoldTypes` | `Spec => []TypeOK` of `TranscriptFold` |
| `PromptsAreShown` | `Spec => []EveryPromptIsShown` |
| `AnswersAreShownOnce` | `Spec => []AnswersOnceInOrder` |
| `ThinkingStops` | `Spec => []ThinkingEnds` |

`StreamInv` is the inductive invariant: the five invariants together and
`BatchInFlight`.  The last is what makes `FloorHeld` inductive: a forwarder moves its
position to `batchTip` without asking the actor, so the batch in flight must have been
cut at a tip the log has reached and, while the handle is registered, not behind the
position the actor last read.  `SeqStable` is needed by the step of a crash (the
recovered base is the number of events on disk).  `MemoryBounded` follows from one
fact per push: after `enforce_high_water` the floor is at most `HighWater` below the
tip; `DroppedBounds` then says a compaction either reaches the low-water mark or the floor.
Most steps touch none of this; `Quiet` names what they leave alone and `QuietStep` deals
with all of them at once.

The first part of `TranscriptStream_proofs` has the lemmas about push, low-water mark, trim, compaction
and cursor resolution the steps cite.

`SubscribersSeeOrder` needs more than `StreamInv`: `OrderInv` follows each forwarder from its grant.
What it wrote lies below its position; what it is writing lies between its position and
the tip it was cut at; a file prefix it still has to stream ends where the memory begins.

`NeverGapped` and `StreamImplementsFeed` are about a session one connection subscribes to (`OneConnection`; the run
`archive_gap` shows what a second one does).  `Attached`: the newest forwarder is the one its connection has and
the one the actor listens to, until it is told to stop; so the floor holds the log at its position.  `Feeding`: what it
wrote is a feed that has come to some event, and what it will write next - the rest of the file, the batch in hand, or the
log from its position on - continues there.  `Seam` is that last claim; `MarkerStays` shows a push and its
compaction keep it, `FaithfulJoin` that a tail cut there continues the feed, `EventLast` that a batch never ends in
a marker.  Each write is then a `HandOver` of the feed, an attach an `Open`, a push a `Record`, and everything else a stutter.

`ResponsesFindTheirCaller`: an id stands for one call at every place it is kept.  `IdsAreOwn`
says no two calls past the check share one, `WiresAreTagged` that every frame in the
queue, on the wire, at the handler and on the way back still carries the id of the request it
belongs to, `SlotIsSpent` that a call that was answered has no slot left.  A late response then
finds no slot, or its own.  `FiredBeforeShutdown` follows a fired request from the queue to
the wire: the writer leaves only when its queue is drained or the connection is broken.

`SessionLifecycle` is proved part by part.  `TypesByPart` splits the types by the half of the session a
handler writes, so a step only answers for its own.  `QueueWaitsForAChannel` is inductive
with the types: the one queue it allows in cold storage is of a session in which nothing was started yet,
so no thread has a message for it and no client command but the unarchive moves it.  `DeliveryInv` adds to `DeliveriesAccounted` that no delivery waits twice and that the
active one does not wait: without it the answer to one would take another's place.
`OneDeliveryAtATime` then follows step by step (`TurnsAreTaken`): what anyone but a delivery hands a worker
is a prompt, and a delivery is handed over only when the slot is free or its holder is answered by
that very step.  `FenceInv` is what an archive leaves behind: no channel and no `TurnCount` is
of a generation to come and, while archived, none that is alive or on its way is of the
current one.  A new turn's end therefore fails the test of `Command::TurnCount`.

`PromptsAreHandedOverOnce` and `SubmissionOrderIsKept` follow every prompt from its admission.  `InletInv`: the
channel of an inlet is published at most once and, before that, was handed nothing.  `PlaceInv`: a prompt that came
with a delivery is at one place, the worker's queue, the waiting line or a channel.  `NumberInv`: the prompts of the user
are numbered as they were admitted, those that wait for a spawn wait in that order, and every one of them has a
greater number than any the channel was handed; so a queue flushed into a new channel, front first, continues the order.

`CogDelivery` has one inductive invariant, `DeliveryInv`: the types; where the supervisor is when an
operation runs (`ModeInv`); which fence and turn an attempt in memory has (`TurnInv`); what Cog was told
and under which claim (`AppliedInv`); what is true of the attempts an operation has yet to handle
(`RestInv`); and the two halves of `JournalLeads` with `JournalBelievesCog`.  Between the two requests of an
operation a claim may lapse and be claimed again; `RestInv` says what a stop and a reconciliation may still rely on
when they come to the next attempt (everything to report is ahead of the flush, nothing is left to report
when the releases begin, nothing to reconcile is concluded).  `Record` checks nothing: that it never appends what
`validate_transition` would refuse is proved for each operation from the phase in memory.
The two action
properties, `AppendNeverRefused` and `NeverRedispatched`, are these proofs.

`ReplayPump` is proved in two halves.  `TruthInv` relates each `TurnSettled`, wherever it is (two queues, the
batch, `settled_outcomes`), to the turn it belongs to; `OutcomesAreTheTurns` follows.  `StreamInv` looks at what was
recorded and the three queues as one sequence: no replayed event comes after the marker in it (`HistoryInv`), its live part is
a prefix of what the worker emitted (`LiveInv`), nothing is recorded while the fence is up and what is recorded first, once
it came down by itself, is the marker (`FenceInv`).  A drain only moves the cut between two of the
queues; the fence removes only what is ahead of the marker.

`SessionWal` is proved in three layers.  `TypeInv` adds that what is on disk was logged.  `SafeInv`
holds as long as no record was appended behind a torn one by the same handle: every line is one fragment, every
line but an unended last one is whole and ended, and what was promised lies in `Stably(file, synced)`, the
records no power loss can take.  `FollowInv` holds as long as no append failed: it relates the selections of the
file (events, intents without a terminal record, archive marks, the greatest id) to the
actor's fields, in every state of an operation under way.  `OwesInv` adds the prompts left to settle, in their
order: a terminal record always takes the head of the unsettled intents away, whether a delivery, a cancel or an
archive writes it.  `DiskAlwaysFollows` uses both.  The steps rest on what one more record
does to each of these selections.  An earlier version of the model left a repaired tail unsynced, and
`PromiseInv` was not inductive: `repair_torn_tail` ends with `sync_data`, whichever of its branches it took, and `Resynced`
now says so.

`TranscriptFold` is proved in three steps.  `LogInv` says what the session can have logged: the two notes of a
chunk, and of a replay's end, stand side by side; generations only rise; a channel speaks after its
`ChannelOpened`; the turns that notes name have ended.  `FoldStep` says what one note does to one tile, whichever of the
twelve kinds it is, in four parts (`GateFollows`, `SaidFollows`, `RowsFollow`, `TurnsFollow`).  `ThreeWays` sorts the steps:
the log grows and the tile lags, the tile is wiped, or a note is folded; so each of the three properties
has three cases.

* `PromptsAreShown`: `RemembersShown` adds that every text the reconciler has pending, or remembers as the row
  inserted last, is on the screen.  A skipped echo is therefore a shown one, and the wipe forgets both.
* `AnswersAreShownOnce`: `GateInv` adds that the tile's generation is the greatest it has folded, or the one it was
  wiped with, and that the stream is in charge of a generation that was folded.  When a chunk comes, its
  `ChannelOpened` has been folded (`ChunkGate`); so it is listened to exactly when the gate is set, and the gate does not
  move before its twin, which is the next note.
* `ThinkingStops`: `ReliefInv` says a tile that waits has something on its way that ends the wait: a refusal, a prompt
  unread, a turn that is owed, a generation still to be announced, or a note ahead of it (`Relieves`).  A `TurnEnded` is one
  only while its turn has no entry in the ledger; `LedgerInv` says the ledger has settled turns only, the
  entry a replay's end could take being kept off by its canonical twin.  Both assume `ReplaysAreNew`, the
  exception `ThinkingEnds` names.

The last four and `SessionLifecycle` need facts about every sequence, which the library's induction theorems cannot give here.
`Selections_proofs` derives them from the least member of a set of numbers, which `WFMin` provides without an
operator parameter: the least sequence for which a fact fails is empty or one longer than one for which it
holds (`ByAppending`).  `Select` is a recursive function for the same reason.

Only model-checked:

* Liveness (`CatchesUp`, `Converges` and the others under fairness): the prover has no rules for `WF_`, `SF_` and
  `ENABLED`.
* What the runs that expect a violation refute is not a theorem of the code.

## 5. Mutants

Each property of a passing run is broken by a mutant of a modelled definition, defined
next to it (`NeverWedged`, `NoFloor`, `PublishToParked`, `ArchiveEvicts`, `FlushLastFirst`, `NoFence`, `DrainedInBudget`,
`ListensAlways`, `Unrepaired`, `NeverSynced`, `ReaderJustEnds`, `DropAndShut`, `LoseResult`, `RecordedLate`, ...): the plausible
bugs the property would catch.  PROJECT.json pairs them.

## 6. The plan

Every invariant and action property the runs check is a theorem; what is left to TLC is liveness.  Theorems to
come are the safety halves of the liveness properties: that what must happen is always still on its
way, as `ReliefInv` says it of the GUI.

Modules to come: the chat bridge's routes, and the wake reader of the Cog transport.

## 7. Not modelled

Rendering, editing, configuration, the GUI's local state beyond the fold of a transcript (the bulk of the repository's lines):
single-threaded and unit-tested.  The ACP wire, HTTP, server-sent events and process start-up: I/O
around the state machines above.  The bytes of a frame or a record beyond whether it is whole and
ended.  Event contents.  The file lock, settings and rename records of the write-ahead log.
