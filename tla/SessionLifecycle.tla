-------------------------- MODULE SessionLifecycle --------------------------
(***************************************************************************)
(* The turn half of one session of the session server: who may talk to the *)
(* agent, and what becomes of every prompt and every Cog delivery          *)
(* (yalda-session-server/main.rs, with the worker of acp_channel.rs).      *)
(*                                                                         *)
(* Four kinds of process interleave:                                       *)
(*   - the actor runs one command at a time: the commands of clients       *)
(*     (Prompt, Steer, CogDelivery, Cancel, Restart, Archive, Unarchive,   *)
(*     Close) and the messages of the server's own threads (Receive);      *)
(*   - a spawn thread per channel starts an agent and asks the actor to    *)
(*     publish it (SpawnEnds);                                             *)
(*   - the channel's worker runs what it was handed, first in, first out,  *)
(*     one turn per prompt (TurnEnds), and may die at any time (Dies);     *)
(*   - the channel's pump thread polls the worker and reports its turns    *)
(*     and its death to the actor (Pump).                                  *)
(* Every message carries the generation of its channel; the actor drops    *)
(* those of another generation.                                            *)
(*                                                                         *)
(* Channels are numbered in the order their spawn threads are started;     *)
(* prompts and deliveries in the order the actor admits them.              *)
(***************************************************************************)
EXTENDS Naturals, Sequences, SequencesExt, FiniteSets

CONSTANTS
    MaxPrompts,     \* bound: prompts ever admitted
    MaxDeliveries,  \* bound: Cog deliveries ever requested
    MaxChannels,    \* bound: channels ever spawned
    MaxGeneration,  \* bound: generations reached by restart and archive
    MaxRecovered,   \* bound: prompt intents a recovery finds without a terminal
    Adapters,       \* may the agent advertise native steering?
    StopReasons     \* how the agent may end a turn

ASSUME PromptsAssumption ==
    MaxPrompts \in Nat /\ MaxRecovered \in Nat /\ MaxRecovered <= MaxPrompts
ASSUME BoundsAssumption ==
    MaxDeliveries \in Nat /\ MaxChannels \in Nat \ {0} /\ MaxGeneration \in Nat
ASSUME AdaptersAssumption == Adapters \subseteq BOOLEAN /\ Adapters # {}
ASSUME StopReasonsAssumption ==
    StopReasons \subseteq {"Completed", "Other"} /\ StopReasons # {}

Prompts == 1 .. MaxPrompts
Deliveries == 1 .. MaxDeliveries
Channels == 1 .. MaxChannels
NoChannel == 0
NoDelivery == 0

Lifecycles == {"Spawning", "Live", "Restarting", "Disconnected", "Archived", "Closed"}

\* What the submitter of a prompt is told.  "closed": the session is gone.
Fates == {"unsent", "queued", "delivered", "rejected", "cancelled", "closed"}

Outcomes == {"Completed", "Other"}

\* What a worker is handed: a prompt or a delivery; a steer joins the running
\* turn, everything else is a turn of its own.
Items == [kind : {"prompt", "delivery"}, id : Nat, steer : BOOLEAN]

PromptItem(p, steer) == [kind |-> "prompt", id |-> p, steer |-> steer]
DeliveryItem(d, steer) == [kind |-> "delivery", id |-> d, steer |-> steer]

VARIABLES
    steering,          \* the agent advertises native steering
    lifecycle,
    generation,        \* channel_generation, mirrored to the pumps by gen_watch
    channel,           \* the channel whose handle the actor holds
    busy,
    turns,             \* turns of the session, over all its channels
    pendingPrompts,    \* prompts waiting for a channel
    activeDelivery,    \* [delivery, generation, target]: the one in a live turn
    pendingDeliveries, \* deliveries waiting for exclusive use of the session
    fate,              \* what became of each prompt
    result,            \* what each delivery was answered
    inbox,             \* messages of spawn threads and pumps to the actor
    worker,            \* [phase, generation, handed, ended] of each channel
    pump               \* [phase, base, seen] of each channel

sessionVars == <<lifecycle, generation, channel, busy, turns>>
promptVars == <<pendingPrompts, fate>>
deliveryVars == <<activeDelivery, pendingDeliveries, result>>
vars == <<steering, sessionVars, promptVars, deliveryVars, inbox, worker, pump>>

Idle == [delivery |-> NoDelivery, generation |-> 0, target |-> 0]

Unstarted == [phase |-> "none", generation |-> 0, handed |-> << >>, ended |-> << >>]

NoPump == [phase |-> "none", base |-> 0, seen |-> 0]

Started(gen) == [phase |-> "spawning", generation |-> gen, handed |-> << >>, ended |-> << >>]

Messages ==
    [type : {"Publish"}, channel : Channels]
        \cup [type : {"SpawnFailed", "AgentDisconnected"}, generation : Nat]
        \cup [type : {"TurnCount"}, generation : Nat, turns : Nat, outcome : Outcomes]

\* The types, and that a session holds a transport exactly while it is live.
TypeOK ==
    /\ steering \in BOOLEAN
    /\ lifecycle \in Lifecycles
    /\ generation \in Nat
    /\ channel \in Channels \cup {NoChannel}
    /\ busy \in BOOLEAN
    /\ turns \in Nat
    /\ pendingPrompts \in Seq(Prompts)
    /\ activeDelivery \in {Idle} \cup
            [delivery : Deliveries, generation : Nat, target : Nat \ {0}]
    /\ pendingDeliveries \in Seq(Deliveries)
    /\ fate \in [Prompts -> Fates]
    /\ result \in [Deliveries -> {"unsent", "waiting", "succeeded", "failed"}]
    /\ inbox \in Seq(Messages)
    /\ worker \in [Channels -> [phase : {"none", "spawning", "connected", "dead"},
                                generation : Nat, handed : Seq(Items),
                                ended : Seq(Outcomes)]]
    /\ pump \in [Channels -> [phase : {"none", "running", "stopped"},
                              base : Nat, seen : Nat]]
    /\ (lifecycle = "Live") <=> (channel # NoChannel)

\* A session just created, or recovered from its write-ahead log with prompts
\* that were admitted but not finished.  One in cold storage may have them too: the
\* marker of an archive is written before the records that cancel its prompts,
\* and a crash between the two leaves the prompts (do_set_archived,
\* restore_seed_from_dir).
Init ==
    /\ steering \in Adapters
    /\ generation = 0
    /\ channel = NoChannel
    /\ busy = FALSE
    /\ turns = 0
    /\ \E n \in 0 .. MaxRecovered : pendingPrompts = [i \in 1 .. n |-> i]
    /\ \/ /\ lifecycle = "Spawning"
          /\ worker = [c \in Channels |-> IF c = 1 THEN Started(0) ELSE Unstarted]
       \/ /\ lifecycle = "Archived"
          /\ worker = [c \in Channels |-> Unstarted]
    /\ fate = [p \in Prompts |-> IF p <= Len(pendingPrompts) THEN "queued" ELSE "unsent"]
    /\ activeDelivery = Idle
    /\ pendingDeliveries = << >>
    /\ result = [d \in Deliveries |-> "unsent"]
    /\ inbox = << >>
    /\ pump = [c \in Channels |-> NoPump]

-----------------------------------------------------------------------------
(* What the handlers share.                                                *)

\* TransportHandle::send_payload and steer_payload fail exactly when the
\* worker is gone.
CanSend == channel # NoChannel /\ worker[channel].phase = "connected"

\* The next prompt, delivery and channel numbers.
Fresh(p) == fate[p] = "unsent" /\ \A q \in Prompts : q < p => fate[q] # "unsent"
NewDelivery(d) == result[d] = "unsent" /\ \A e \in Deliveries : e < d => result[e] # "unsent"
Spare(c) == worker[c].phase = "none" /\ \A b \in Channels : b < c => worker[b].phase # "none"

\* finish_prompt_intent for each queued prompt.
Finished(f, outcome) ==
    [p \in Prompts |-> IF p \in ToSet(pendingPrompts) THEN outcome ELSE f[p]]

\* Mutant of FailDeliveries: only the active delivery is answered.
FailActiveOnly ==
    /\ result' = [d \in Deliveries |->
            IF d = activeDelivery.delivery THEN "failed" ELSE result[d]]
    /\ activeDelivery' = Idle
    /\ pendingDeliveries' = << >>

\* fail_provider_deliveries: the active one and all that wait are answered.
FailDeliveries ==
    /\ result' = [d \in Deliveries |->
            IF d = activeDelivery.delivery \/ d \in ToSet(pendingDeliveries)
            THEN "failed" ELSE result[d]]
    /\ activeDelivery' = Idle
    /\ pendingDeliveries' = << >>

\* Mutants of Terminalize: the queued prompts stay queued; the session stays busy.
TerminalizeKeepsQueue(f) ==
    /\ lifecycle' = "Disconnected"
    /\ channel' = NoChannel
    /\ busy' = FALSE
    /\ FailDeliveries
    /\ fate' = f
    /\ UNCHANGED pendingPrompts

TerminalizeKeepsBusy(f) ==
    /\ lifecycle' = "Disconnected"
    /\ channel' = NoChannel
    /\ FailDeliveries
    /\ fate' = Finished(f, "rejected")
    /\ pendingPrompts' = << >>
    /\ UNCHANGED busy

\* handle_spawn_failed past its guard, when the prompts' fates are f so far.
Terminalize(f) ==
    /\ lifecycle' = "Disconnected"
    /\ channel' = NoChannel
    /\ busy' = FALSE
    /\ FailDeliveries
    /\ fate' = Finished(f, "rejected")
    /\ pendingPrompts' = << >>

\* Mutant of Fence: the messages of the old channel stay current.
NoFence == UNCHANGED generation

\* A new channel_generation, sent to the pumps.
Fence == generation' = generation + 1

-----------------------------------------------------------------------------
(* Commands of clients.                                                    *)

\* enqueue_prompt, and do_steer with `steer' the native steering of a capable
\* agent.  (Without it a steer is a cancel and a prompt.)  The handler refuses
\* an archived or disconnected session before it does anything.
Admit(p, steer) ==
    /\ Fresh(p)
    /\ lifecycle \notin {"Archived", "Disconnected", "Closed"}
    /\ \/ /\ lifecycle = "Live" /\ CanSend
          /\ worker' = [worker EXCEPT ![channel].handed =
                Append(@, PromptItem(p, steer))]
          /\ fate' = [fate EXCEPT ![p] = "delivered"]
          /\ busy' = TRUE
          /\ UNCHANGED <<lifecycle, channel, pendingPrompts, deliveryVars>>
       \/ /\ lifecycle \in {"Spawning", "Restarting"} /\ channel = NoChannel
          /\ pendingPrompts' = Append(pendingPrompts, p)
          /\ fate' = [fate EXCEPT ![p] = "queued"]
          /\ busy' = TRUE
          /\ UNCHANGED <<lifecycle, channel, deliveryVars, worker>>
       \/ /\ ~ (lifecycle = "Live" /\ CanSend)
          /\ ~ (lifecycle \in {"Spawning", "Restarting"} /\ channel = NoChannel)
          /\ Terminalize([fate EXCEPT ![p] = "rejected"])
          /\ UNCHANGED worker
    /\ UNCHANGED <<steering, generation, turns, inbox, pump>>

Prompt == \E p \in Prompts : Admit(p, FALSE)

Steer == \E p \in Prompts : Admit(p, steering)

\* start_provider_delivery, once the send succeeded: the delivery owns the next
\* turn of this generation.
Start(d, steer, t) ==
    /\ worker' = [worker EXCEPT ![channel].handed = Append(@, DeliveryItem(d, steer))]
    /\ activeDelivery' = [delivery |-> d, generation |-> generation, target |-> t + 1]
    /\ busy' = TRUE

SteerNow == busy /\ steering /\ channel # NoChannel

\* Mutant of MustWait: a native steer joins a turn that carries a delivery.
WaitForIdle == busy /\ ~ SteerNow

MustWait == activeDelivery # Idle \/ (busy /\ ~ SteerNow)

\* do_cog_delivery, for a provider that matches the session's.
CogDelivery(d) ==
    /\ NewDelivery(d)
    /\ lifecycle # "Closed"
    /\ \/ /\ lifecycle = "Live" /\ MustWait
          /\ pendingDeliveries' = Append(pendingDeliveries, d)
          /\ result' = [result EXCEPT ![d] = "waiting"]
          /\ UNCHANGED <<busy, activeDelivery, worker>>
       \/ /\ lifecycle = "Live" /\ ~ MustWait /\ CanSend
          /\ Start(d, SteerNow, turns)
          /\ result' = [result EXCEPT ![d] = "waiting"]
          /\ UNCHANGED pendingDeliveries
       \/ /\ lifecycle # "Live" \/ (~ MustWait /\ ~ CanSend)
          /\ result' = [result EXCEPT ![d] = "failed"]
          /\ UNCHANGED <<busy, activeDelivery, pendingDeliveries, worker>>
    /\ UNCHANGED <<steering, lifecycle, generation, channel, turns, promptVars,
                   inbox, pump>>

\* do_cancel.  The cancel sent to a live agent only shapes the outcome of the
\* turn it runs.
Cancel ==
    /\ lifecycle # "Closed"
    /\ result' = [d \in Deliveries |->
            IF d = activeDelivery.delivery THEN "failed" ELSE result[d]]
    /\ activeDelivery' = Idle
    /\ IF lifecycle \in {"Spawning", "Restarting", "Disconnected"}
       THEN /\ busy' = FALSE
            /\ fate' = Finished(fate, "cancelled")
            /\ pendingPrompts' = << >>
       ELSE UNCHANGED <<busy, promptVars>>
    /\ UNCHANGED <<steering, lifecycle, generation, channel, turns,
                   pendingDeliveries, inbox, worker, pump>>

\* Mutant of Restart: the old transport stays until the new one is published.
RestartKeepsChannel ==
    /\ lifecycle \notin {"Archived", "Closed"}
    /\ generation < MaxGeneration
    /\ FailDeliveries
    /\ Fence
    /\ busy' = FALSE
    /\ lifecycle' = "Restarting"
    /\ \E c \in Channels :
        /\ Spare(c)
        /\ worker' = [worker EXCEPT ![c] = Started(generation + 1)]
    /\ UNCHANGED <<steering, channel, turns, promptVars, inbox, pump>>

\* do_restart: the old channel is fenced and dropped before the new one starts.
\* Queued prompts wait for the new one.
Restart ==
    /\ lifecycle \notin {"Archived", "Closed"}
    /\ generation < MaxGeneration
    /\ FailDeliveries
    /\ Fence
    /\ busy' = FALSE
    /\ lifecycle' = "Restarting"
    /\ channel' = NoChannel
    /\ \E c \in Channels :
        /\ Spare(c)
        /\ worker' = [worker EXCEPT ![c] = Started(generation + 1)]
    /\ UNCHANGED <<steering, turns, promptVars, inbox, pump>>

\* do_set_archived(true), its marker written.
Archive ==
    /\ lifecycle \notin {"Archived", "Closed"}
    /\ generation < MaxGeneration
    /\ FailDeliveries
    /\ lifecycle' = "Archived"
    /\ busy' = FALSE
    /\ fate' = Finished(fate, "cancelled")
    /\ pendingPrompts' = << >>
    /\ Fence
    /\ channel' = NoChannel
    /\ UNCHANGED <<steering, turns, inbox, worker, pump>>

\* do_set_archived(false): of an archived session, or again of one whose
\* unarchive ended disconnected.
Unarchive ==
    /\ lifecycle \in {"Archived", "Disconnected"}
    /\ lifecycle' = "Spawning"
    /\ \E c \in Channels :
        /\ Spare(c)
        /\ worker' = [worker EXCEPT ![c] = Started(generation)]
    /\ UNCHANGED <<steering, generation, channel, busy, turns, promptVars,
                   deliveryVars, inbox, pump>>

\* do_close, its file deleted.  The pumps see gen_watch move.
Close ==
    /\ lifecycle # "Closed"
    /\ FailDeliveries
    /\ lifecycle' = "Closed"
    /\ Fence
    /\ channel' = NoChannel
    /\ busy' = FALSE
    /\ fate' = Finished(fate, "closed")
    /\ pendingPrompts' = << >>
    /\ UNCHANGED <<steering, turns, inbox, worker, pump>>

-----------------------------------------------------------------------------
(* Messages to the actor.                                                  *)

FlushedFates(k) ==
    [p \in Prompts |->
        IF p \in ToSet(SubSeq(pendingPrompts, 1, k)) THEN "delivered"
        ELSE IF p \in ToSet(pendingPrompts) THEN "rejected" ELSE fate[p]]

FirstItems(queue, k) == [i \in 1 .. k |-> PromptItem(queue[i], FALSE)]

\* Channel c is handed the queued prompts; the worker dies before the last of
\* them when only k are.
HandOver(c, k, queue) ==
    worker' = [worker EXCEPT ![c] = [worker[c] EXCEPT
        !.handed = @ \o FirstItems(queue, k),
        !.phase = IF k < Len(queue) THEN "dead" ELSE @]]

\* Mutants of Flush: the queue is read and not taken; it is popped from its end.
FlushWithoutTaking(c, k) ==
    /\ HandOver(c, k, pendingPrompts)
    /\ fate' = FlushedFates(k)
    /\ busy' = (k > 0)
    /\ UNCHANGED pendingPrompts

FlushLastFirst(c, k) ==
    /\ HandOver(c, k, Reverse(pendingPrompts))
    /\ fate' = FlushedFates(k)
    /\ busy' = (k > 0)
    /\ pendingPrompts' = << >>

\* apply_channel_state flushes the queued prompts in order; if the worker dies
\* meanwhile, the first k are handed over and the others are rejected.
Flush(c, k) ==
    /\ HandOver(c, k, pendingPrompts)
    /\ fate' = FlushedFates(k)
    /\ busy' = (k > 0)
    /\ pendingPrompts' = << >>

\* Command::PublishChannel.  A refused channel is dropped by its spawn thread; a
\* published one gets its pump.
Publish(c) ==
    \/ /\ lifecycle \notin {"Archived", "Closed"}
       /\ worker[c].generation = generation
       /\ \E k \in 0 .. Len(pendingPrompts) :
            /\ worker[c].phase = "dead" => k = 0
            /\ Flush(c, k)
       /\ channel' = c
       /\ lifecycle' = "Live"
       /\ pump' = [pump EXCEPT ![c] = [phase |-> "running", base |-> turns, seen |-> 0]]
       /\ UNCHANGED <<generation, turns, deliveryVars>>
    \/ /\ lifecycle \in {"Archived", "Closed"} \/ worker[c].generation # generation
       /\ worker' = [worker EXCEPT ![c].phase = "dead"]
       /\ UNCHANGED <<sessionVars, promptVars, deliveryVars, pump>>

\* Command::SpawnFailed and Command::AgentDisconnected, through
\* handle_spawn_failed.
LostAgent(gen) ==
    /\ IF lifecycle \in {"Archived", "Closed"} \/ gen # generation
       THEN UNCHANGED <<sessionVars, promptVars, deliveryVars>>
       ELSE Terminalize(fate) /\ UNCHANGED <<generation, turns>>
    /\ UNCHANGED <<worker, pump>>

\* Mutant of Settled: the turn after the delivery's.
SettledLate(m) ==
    /\ activeDelivery # Idle
    /\ activeDelivery.generation = m.generation
    /\ m.turns > activeDelivery.target

\* The delivery whose turn this TurnCount ends, if any.
Settled(m) ==
    /\ activeDelivery # Idle
    /\ activeDelivery.generation = m.generation
    /\ m.turns >= activeDelivery.target

\* The provider's answer for a settled delivery.
Answer(m) ==
    IF ~ Settled(m) THEN result
    ELSE [result EXCEPT ![activeDelivery.delivery] =
            IF m.outcome = "Completed" THEN "succeeded" ELSE "failed"]

\* Command::TurnCount: the turn ends, the session is idle, the delivery it
\* carried is answered and the next one starts (start_next_provider_delivery).
TurnCount(m) ==
    LET stillActive == activeDelivery # Idle /\ ~ Settled(m) IN
    \/ /\ lifecycle # "Closed" /\ m.generation = generation
       /\ turns' = m.turns
       /\ \/ /\ stillActive \/ pendingDeliveries = << >>
             /\ result' = Answer(m)
             /\ activeDelivery' = IF stillActive THEN activeDelivery ELSE Idle
             /\ busy' = FALSE
             /\ UNCHANGED <<pendingDeliveries, worker>>
          \/ /\ ~ stillActive /\ pendingDeliveries # << >> /\ CanSend
             /\ result' = Answer(m)
             /\ Start(Head(pendingDeliveries), FALSE, m.turns)
             /\ pendingDeliveries' = Tail(pendingDeliveries)
          \/ /\ ~ stillActive /\ pendingDeliveries # << >> /\ ~ CanSend
             /\ result' = [d \in Deliveries |->
                    IF d \in ToSet(pendingDeliveries) THEN "failed" ELSE Answer(m)[d]]
             /\ activeDelivery' = Idle
             /\ busy' = FALSE
             /\ pendingDeliveries' = << >>
             /\ UNCHANGED worker
       /\ UNCHANGED <<lifecycle, generation, channel, promptVars, pump>>
    \/ /\ lifecycle = "Closed" \/ m.generation # generation
       /\ UNCHANGED <<sessionVars, promptVars, deliveryVars, worker, pump>>

\* Manager::apply on the next message.
Receive ==
    /\ inbox # << >>
    /\ inbox' = Tail(inbox)
    /\ LET m == Head(inbox) IN
        \/ m.type = "Publish" /\ Publish(m.channel)
        \/ m.type \in {"SpawnFailed", "AgentDisconnected"} /\ LostAgent(m.generation)
        \/ m.type = "TurnCount" /\ TurnCount(m)
    /\ UNCHANGED steering

-----------------------------------------------------------------------------
(* Spawn threads, workers and pumps.                                       *)

Send(m) == inbox' = Append(inbox, m)

\* Mutant of SpawnEnds: a failed handshake is not reported.
SpawnEndsSilently(c) ==
    /\ worker[c].phase = "spawning"
    /\ \/ /\ Send([type |-> "Publish", channel |-> c])
          /\ worker' = [worker EXCEPT ![c].phase = "connected"]
       \/ /\ worker' = [worker EXCEPT ![c].phase = "dead"]
          /\ UNCHANGED inbox
    /\ UNCHANGED <<steering, sessionVars, promptVars, deliveryVars, pump>>

\* The spawn thread's handshake ends.
SpawnEnds(c) ==
    /\ worker[c].phase = "spawning"
    /\ \/ /\ Send([type |-> "Publish", channel |-> c])
          /\ worker' = [worker EXCEPT ![c].phase = "connected"]
       \/ /\ Send([type |-> "SpawnFailed", generation |-> worker[c].generation])
          /\ worker' = [worker EXCEPT ![c].phase = "dead"]
    /\ UNCHANGED <<steering, sessionVars, promptVars, deliveryVars, pump>>

\* What a worker was handed that is a turn of its own.
Turns(c) == SelectSeq(worker[c].handed, LAMBDA item : ~ item.steer)

\* The agent ends a turn; the worker counts it.
TurnEnds(c) ==
    /\ worker[c].phase = "connected"
    /\ Len(worker[c].ended) < Len(Turns(c))
    /\ \E outcome \in StopReasons :
        worker' = [worker EXCEPT ![c].ended = Append(@, outcome)]
    /\ UNCHANGED <<steering, sessionVars, promptVars, deliveryVars, inbox, pump>>

\* The agent process exits or its connection breaks.
Dies(c) ==
    /\ worker[c].phase = "connected"
    /\ worker' = [worker EXCEPT ![c].phase = "dead"]
    /\ UNCHANGED <<steering, sessionVars, promptVars, deliveryVars, inbox, pump>>

\* One cycle of the pump: it leaves a superseded channel, reports a dead one
\* before it looks at what that channel still holds, or reports the turns ended
\* since it last looked.  Their outcome is known when they are one, unless the
\* worker has counted the turn and not yet sent its TurnSettled.
Pump(c) ==
    /\ pump[c].phase = "running"
    /\ \/ /\ generation > worker[c].generation
          /\ pump' = [pump EXCEPT ![c].phase = "stopped"]
          /\ worker' = [worker EXCEPT ![c].phase = "dead"]
          /\ UNCHANGED inbox
       \/ /\ generation <= worker[c].generation
          /\ worker[c].phase = "dead"
          /\ Send([type |-> "AgentDisconnected", generation |-> worker[c].generation])
          /\ pump' = [pump EXCEPT ![c].phase = "stopped"]
          /\ UNCHANGED worker
       \/ /\ generation <= worker[c].generation
          /\ worker[c].phase = "connected"
          /\ Len(worker[c].ended) > pump[c].seen
          /\ \E outcome \in {"Other"} \cup
                    {worker[c].ended[n] : n \in {pump[c].seen + 1} \cap {Len(worker[c].ended)}} :
                Send([type |-> "TurnCount", generation |-> worker[c].generation,
                      turns |-> pump[c].base + Len(worker[c].ended), outcome |-> outcome])
          /\ pump' = [pump EXCEPT ![c].seen = Len(worker[c].ended)]
          /\ UNCHANGED worker
    /\ UNCHANGED <<steering, sessionVars, promptVars, deliveryVars>>

Next ==
    \/ Prompt
    \/ Steer
    \/ \E d \in Deliveries : CogDelivery(d)
    \/ Cancel
    \/ Restart
    \/ Archive
    \/ Unarchive
    \/ Close
    \/ Receive
    \/ \E c \in Channels : SpawnEnds(c) \/ TurnEnds(c) \/ Dies(c) \/ Pump(c)

\* The actor drains its inlet and every thread runs on.  That a handshake ends
\* and that an agent ends each turn it was given, unless it dies, is assumed of
\* the agent.
Fairness ==
    /\ WF_vars(Receive)
    /\ \A c \in Channels :
        WF_vars(SpawnEnds(c)) /\ WF_vars(TurnEnds(c)) /\ WF_vars(Pump(c))

Spec == Init /\ [][Next]_vars /\ Fairness

-----------------------------------------------------------------------------
(* Properties.                                                             *)

\* No spawn thread, worker or pump of the session has run yet.
NothingStarted ==
    /\ worker = [c \in Channels |-> Unstarted]
    /\ pump = [c \in Channels |-> NoPump]
    /\ inbox = << >>

\* "Every deferred prompt receives an explicit rejection" (handle_spawn_failed):
\* a prompt its submitter believes queued is in the queue, and there is a queue
\* only while a channel is on its way, or in cold storage as recovery found it.  An
\* archive of a session this server has started leaves none behind.
QueueWaitsForAChannel ==
    /\ {p \in Prompts : fate[p] = "queued"} = ToSet(pendingPrompts)
    /\ pendingPrompts # << >> =>
            \/ lifecycle \in {"Spawning", "Restarting"}
            \/ lifecycle = "Archived" /\ NothingStarted

\* Where prompt p was handed to an agent.
HandedAt(p) ==
    UNION {{<<c, i>> : i \in {j \in DOMAIN worker[c].handed :
                worker[c].handed[j].kind = "prompt" /\ worker[c].handed[j].id = p}} :
           c \in Channels}

\* A prompt reaches one agent, once, and exactly when its submitter is told so:
\* across flushes, restarts and failed spawns none is handed over twice, and
\* none that was reported rejected or cancelled is run after all.
HandedOverOnce ==
    \A p \in Prompts :
        Cardinality(HandedAt(p)) = (IF fate[p] = "delivered" THEN 1 ELSE 0)

\* The agent is given prompts in the order they were submitted, those that
\* waited for the channel before those that came after it
\* (apply_channel_state, "before any future prompt races in").
KeepsSubmissionOrder ==
    \A c \in Channels : \A i, j \in DOMAIN worker[c].handed :
        /\ i < j
        /\ worker[c].handed[i].kind = "prompt"
        /\ worker[c].handed[j].kind = "prompt"
        => worker[c].handed[i].id < worker[c].handed[j].id

\* No delivery is forgotten: one that is unanswered is either the active one, of
\* the live channel's generation, or waits for its turn.
DeliveriesAccounted ==
    /\ {d \in Deliveries : result[d] = "waiting"} =
            ToSet(pendingDeliveries) \cup ({activeDelivery.delivery} \ {NoDelivery})
    /\ activeDelivery # Idle =>
            lifecycle = "Live" /\ activeDelivery.generation = generation

\* The session's deliveries never share a provider: between the start of one and
\* its answer, no other one is handed over.
OneDeliveryAtATime ==
    [][\A c \in Channels :
        LET before == worker[c].handed
            after == worker'[c].handed
        IN  /\ Len(after) > Len(before)
            /\ after[Len(after)].kind = "delivery"
            => activeDelivery = Idle \/ result'[activeDelivery.delivery] # "waiting"]_vars

\* "Archive is a real resource boundary" (do_set_archived): until it is unarchived
\* or closed, nothing an old channel still says moves the session.
ArchivedIsFrozen ==
    [][lifecycle = "Archived" /\ lifecycle' = "Archived" =>
        UNCHANGED <<generation, channel, busy, turns, promptVars, activeDelivery,
                    pendingDeliveries>>]_vars

\* Two channels of the session's generation at once.  A restart or an archive
\* never leads there; repeating an unarchive of a disconnected session may, and then
\* the late turns of the first take the session's count back.
Contended ==
    \E b, c \in Channels :
        /\ b # c
        /\ {worker[b].phase, worker[c].phase} \subseteq {"spawning", "connected"}
        /\ worker[b].generation = worker[c].generation

\* A prompt that waits for an agent is handed over, or its submitter is told
\* that it was not.  In cold storage a recovered prompt waits until its session is
\* unarchived or closed, which nobody need do (do_cancel passes it over); from the
\* unarchive on it is owed its answer like any other.
QueuedIsResolved ==
    \A p \in Prompts :
        fate[p] = "queued" /\ lifecycle # "Archived" ~> fate[p] # "queued"

\* Neither the roster nor a GUI shows a session as working for ever
\* (handle_spawn_failed), when every prompt is a turn: a native steer served between
\* turns is not, and then nothing clears busy until another prompt is sent (do_steer).
BusyEnds == busy /\ ~ steering ~> ~ busy

\* The Cog adapter is answered, whatever happens to the session, as long as one
\* channel at a time serves it.
DeliveryIsAnswered ==
    [] ~ Contended =>
        \A d \in Deliveries : result[d] = "waiting" /\ ~ steering ~> result[d] # "waiting"

-----------------------------------------------------------------------------
(* What documents and comments say of the program, and it does not do.     *)

\* "Only canonical live AgentEvent::TurnEnded { outcome: Completed }, correlated
\* to the submitted generation/turn, is provider success"
\* (docs/specs/spec-cog-runtime-adapter.md): a delivery that is answered with
\* success was run as a turn, and that turn completed.
SuccessIsItsOwnTurn ==
    steering = FALSE => \A d \in Deliveries : result[d] = "succeeded" =>
        \E c \in Channels : \E n \in DOMAIN worker[c].ended :
            /\ Turns(c)[n].kind = "delivery"
            /\ Turns(c)[n].id = d
            /\ worker[c].ended[n] = "Completed"

=============================================================================
