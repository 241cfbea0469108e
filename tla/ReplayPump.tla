----------------------------- MODULE ReplayPump -----------------------------
(***************************************************************************)
(* The pump thread of a session's channel (spawn_pump_thread in            *)
(* yalda-session-server/main.rs) with its replay fence (replay_fence.rs),  *)
(* and what it reads: the events of the ACP worker, which reach it through *)
(* two queues, and the worker's turn counter, which it reads directly      *)
(* (acp_channel.rs).                                                       *)
(*                                                                         *)
(* The pump starts once the channel is published.  By then a resumed agent *)
(* has emitted its whole history again, and the worker the marker behind   *)
(* it.  The commands the pump sends are kept as what they say: recorded    *)
(* (Record), reported (TurnCount), fenceDone (ReplayDone) and gone         *)
(* (AgentDisconnected).                                                    *)
(***************************************************************************)
EXTENDS Naturals, Sequences, SequencesExt, Selections

CONSTANTS
    Budget,     \* PUMP_EVENT_BUDGET
    MaxReplay,  \* bound: events an agent emits again when it is resumed
    MaxChunks,  \* bound: live events
    MaxTurns,   \* bound: live turns
    Bases       \* values of turn_base: turns the session has completed before

ASSUME PumpAssumption ==
    /\ Budget \in Nat \ {0}
    /\ MaxReplay \in Nat /\ MaxChunks \in Nat /\ MaxTurns \in Nat
    /\ Bases \subseteq Nat

VARIABLES
    resumed,    \* the channel was spawned with a session id to resume
    turnBase,   \* turns of the session at publication
    chunks,     \* worker: live events emitted
    turns,      \* worker: its turn counter
    settledAs,  \* worker: how each counted turn ended
    owed,       \* worker: turns counted whose TurnSettled is not sent yet
    connected,  \* worker: the connected flag
    forward,    \* event_tx: sent by the worker, not yet forwarded
    reply,      \* reply_rx: forwarded, not yet drained

    superseded, \* the generation moved on, or the inlet is closed
    pc, batch, more, seen, \* pump: the cycle under way
    last,       \* pump: last_turns
    settled,    \* pump: settled_outcomes, [count, outcome]
    up,         \* pump: the fence

    recorded, reported, fenceDone, gone

workerVars == <<resumed, turnBase, chunks, turns, settledAs, owed, connected>>
queues == <<forward, reply>>
cycle == <<pc, batch, more, seen>>
pump == <<last, settled, up>>
inlet == <<recorded, reported, fenceDone, gone>>
vars == <<workerVars, queues, superseded, cycle, pump, inlet>>

\* How a turn may end; one way to fail stands for all that are not success.
Outcomes == {"completed", "failed"}

Event(kind, n, outcome) == [kind |-> kind, n |-> n, outcome |-> outcome]
Marker == Event("marker", 0, "none")

OfKinds(kinds) == [kind : kinds, n : Nat, outcome : Outcomes \cup {"none"}]

Events == OfKinds({"replayed", "marker", "chunk", "settled"})

\* ReplayFence::new(initial_replay_fence > 0): replay_fence is the turn count of a
\* resumed session.
Armed == resumed /\ turnBase > 0

\* Types, and the most a cycle takes before it looks at the turn counter.
\* (spawn_pump_thread: the fields of the loop and its event budget.)
TypeOK ==
    /\ resumed \in BOOLEAN /\ turnBase \in Bases
    /\ chunks \in 0 .. MaxChunks /\ turns \in 0 .. MaxTurns
    /\ settledAs \in Seq(Outcomes) /\ Len(settledAs) = turns
    /\ owed \subseteq 1 .. turns
    /\ connected \in BOOLEAN /\ superseded \in BOOLEAN
    /\ forward \in Seq(Events) /\ reply \in Seq(Events)
    /\ pc \in {"check", "drain", "count", "emit", "done"}
    /\ batch \in Seq(Events) /\ Len(batch) <= Budget + 1
    /\ more \in BOOLEAN /\ seen \in 0 .. turns /\ last \in 0 .. seen
    /\ settled \subseteq [count : 1 .. turns, outcome : Outcomes]
    /\ up \in BOOLEAN
    /\ recorded \in Seq(Events)
    /\ reported \in Seq([turns : Nat, outcome : Outcomes])
    /\ fenceDone \in BOOLEAN /\ gone \in BOOLEAN

Init ==
    /\ resumed \in BOOLEAN
    /\ turnBase \in Bases
    /\ chunks = 0 /\ turns = 0 /\ settledAs = << >> /\ owed = {}
    /\ connected = TRUE
    /\ IF resumed
       THEN \E r \in 0 .. MaxReplay :
                forward = [i \in 1 .. r |-> Event("replayed", i, "none")] \o <<Marker>>
       ELSE forward = << >>
    /\ reply = << >>
    /\ superseded = FALSE
    /\ pc = "check" /\ batch = << >> /\ more = FALSE /\ seen = 0
    /\ last = 0 /\ settled = {} /\ up = Armed
    /\ recorded = << >> /\ reported = << >> /\ fenceDone = FALSE /\ gone = FALSE

(***************************************************************************)
(* The worker.                                                             *)
(***************************************************************************)

Emit(event) == forward' = Append(forward, event)

\* A notification of the agent.
Chunk ==
    /\ connected /\ chunks < MaxChunks
    /\ chunks' = chunks + 1
    /\ Emit(Event("chunk", chunks', "none"))
    /\ UNCHANGED <<resumed, turnBase, turns, settledAs, owed, connected, reply,
                   superseded, cycle, pump, inlet>>

\* A prompt resolves: the counter moves first.
TurnEnds(outcome) ==
    /\ connected /\ turns < MaxTurns
    /\ turns' = turns + 1
    /\ settledAs' = Append(settledAs, outcome)
    /\ owed' = owed \cup {turns'}
    /\ UNCHANGED <<resumed, turnBase, chunks, connected, queues, superseded, cycle, pump,
                   inlet>>

\* Its TurnSettled follows; the native steering driver runs prompts side by side,
\* so two of them may change places.
Settle(count) ==
    /\ connected
    /\ owed' = owed \ {count}
    /\ Emit(Event("settled", count, settledAs[count]))
    /\ UNCHANGED <<resumed, turnBase, chunks, turns, settledAs, connected, reply,
                   superseded, cycle, pump, inlet>>

\* The worker's pump_task.
Forward ==
    /\ forward # << >>
    /\ forward' = Tail(forward)
    /\ reply' = Append(reply, Head(forward))
    /\ UNCHANGED <<workerVars, superseded, cycle, pump, inlet>>

\* The agent's connection ends: pump_task is aborted with what it had not forwarded.
WorkerExits ==
    /\ connected
    /\ connected' = FALSE
    /\ forward' = << >>
    /\ UNCHANGED <<resumed, turnBase, chunks, turns, settledAs, owed, reply, superseded,
                   cycle, pump, inlet>>

\* A restart or a close, or the manager is gone.
Supersede ==
    /\ ~ superseded
    /\ superseded' = TRUE
    /\ UNCHANGED <<workerVars, queues, cycle, pump, inlet>>

(***************************************************************************)
(* The pump.                                                               *)
(***************************************************************************)

\* The top of the loop: leave it, or begin a cycle.
Check ==
    /\ pc = "check"
    /\ pc' = IF superseded \/ ~ connected THEN "done" ELSE "drain"
    /\ gone' = (~ superseded /\ ~ connected)
    /\ UNCHANGED <<workerVars, queues, superseded, batch, more, seen, pump, recorded,
                   reported, fenceDone>>

\* The events one drain takes: the budget, and the one that shows it was exceeded.
Taken == IF Len(reply) <= Budget THEN Len(reply) ELSE Budget + 1

\* Mutant of Drained: the event that shows more are pending is not kept.
DrainedInBudget == SubSeq(reply, 1, IF Taken > Budget THEN Budget ELSE Taken)

Drained == SubSeq(reply, 1, Taken)

Drain ==
    /\ pc = "drain"
    /\ batch' = Drained
    /\ reply' = SubSeq(reply, Taken + 1, Len(reply))
    /\ more' = (Len(reply) > Budget)
    /\ pc' = "count"
    /\ UNCHANGED <<workerVars, forward, superseded, seen, pump, inlet>>

\* current_turns.
Count ==
    /\ pc = "count"
    /\ seen' = turns
    /\ pc' = "emit"
    /\ UNCHANGED <<workerVars, queues, superseded, batch, more, pump, inlet>>

TurnEnded == ~ more /\ seen > last

\* The batch, with the tail that is drained once a turn has ended.
Collected == batch \o IF TurnEnded THEN reply ELSE << >>

\* settled_outcomes once the batch's TurnSettled are taken out of it.
Known == settled \cup {[count |-> e.n, outcome |-> e.outcome] :
                           e \in {f \in ToSet(Collected) : f.kind = "settled"}}

Visible == Select(Collected, OfKinds({"replayed", "marker", "chunk"}))

MarkerIndex == SelectInSeq(Visible, LAMBDA e : e = Marker)

\* Mutant of FromMarker: the batch that brings the marker is kept whole.
WholeBatch == Visible

\* events.drain(..marker_index)
FromMarker == SubSeq(Visible, MarkerIndex, Len(Visible))

\* ReplayFence::on_batch and what the pump does with its answer: what is recorded.
Passed ==
    CASE ~ up -> Visible
      [] up /\ MarkerIndex # 0 -> FromMarker              \* ClearAtMarker
      [] up /\ MarkerIndex = 0 /\ TurnEnded -> Visible    \* ForceClear
      [] OTHER -> << >>                                   \* Discard

\* Mutant of Clears: only a turn's end clears the fence.
ClearsAtTurnEnd == TurnEnded

Clears == MarkerIndex # 0 \/ TurnEnded

\* Mutant of OutcomeSeen: the outcome at hand is taken for the turn's.
OutcomeAtHand ==
    IF Known # {} THEN (CHOOSE s \in Known : TRUE).outcome ELSE "failed"

\* take_settled_outcome: of one turn, if its TurnSettled has come.
OutcomeSeen ==
    IF seen = last + 1 /\ \E s \in Known : s.count = seen
    THEN (CHOOSE s \in Known : s.count = seen).outcome
    ELSE "failed"

\* The rest of the cycle.
Send ==
    /\ pc = "emit"
    /\ reply' = IF TurnEnded THEN << >> ELSE reply
    /\ recorded' = recorded \o Passed
    /\ up' = (up /\ ~ Clears)
    /\ fenceDone' = (fenceDone \/ (up /\ Clears))
    /\ IF TurnEnded
       THEN /\ reported' = Append(reported, [turns |-> turnBase + seen,
                                             outcome |-> OutcomeSeen])
            /\ last' = seen
            /\ settled' = {s \in Known : s.count > seen}
       ELSE /\ settled' = Known
            /\ UNCHANGED <<reported, last>>
    /\ pc' = "check" /\ batch' = << >> /\ more' = FALSE
    /\ UNCHANGED <<workerVars, forward, superseded, seen, gone>>

PumpStep == Check \/ Drain \/ Count \/ Send

Next ==
    \/ Chunk
    \/ \E outcome \in Outcomes : TurnEnds(outcome)
    \/ \E count \in owed : Settle(count)
    \/ Forward
    \/ WorkerExits
    \/ Supersede
    \/ PumpStep

\* The pump's loop and the forwarding task go on.
Spec == Init /\ [][Next]_vars /\ WF_vars(PumpStep) /\ WF_vars(Forward)

(***************************************************************************)
(* Properties.                                                             *)
(***************************************************************************)

Live(events) == Select(events, OfKinds({"marker", "chunk"}))

Emitted == (IF resumed THEN <<Marker>> ELSE << >>)
               \o [i \in 1 .. chunks |-> Event("chunk", i, "none")]

\* What the agent says live, and the marker before it, is recorded once and in
\* order: budgets, tails, the fence and its valve lose nothing, repeat nothing and
\* reorder nothing.  What a dying worker had not handed over is cut off at the end.
\* (spawn_pump_thread, ReplayFence::on_batch.)
NothingLiveLost ==
    LET told == Live(recorded) \o Live(batch) \o Live(reply) \o Live(forward)
    IN  IsPrefix(told, Emitted) /\ (connected => told = Emitted)

\* The fence was cleared by a turn's end, before the marker came.
Forced == reported # << >> /\ (recorded = << >> \/ Head(recorded) # Marker)

\* The history a resumed agent emits again is not recorded again.  Two ways around
\* the fence are left: a session without a completed turn does not arm it, whatever
\* it has logged, and a turn whose end is seen before the marker arrives clears it.
\* (ReplayFence, initial_replay_fence.)
ReplayIsDiscarded ==
    Armed /\ ~ Forced => \A e \in ToSet(recorded) : e.kind # "replayed"

\* A turn is never reported to have ended as another one did: if its own TurnSettled
\* is late, or turns were counted together, it is reported as failed, and the late
\* one is not kept for a later turn.  (take_settled_outcome.)
OutcomeIsTheTurns ==
    \A r \in ToSet(reported) :
        r.outcome # "failed" => r.outcome = settledAs[r.turns - turnBase]

\* A pump that is left alone catches up: every counted turn is reported, the fence
\* comes down and every live event is recorded; one whose channel died says so.
\* (spawn_pump_thread.)
CatchesUp ==
    []<>(IF pc = "done"
         THEN superseded \/ gone
         ELSE last = turns /\ ~ up /\ Live(recorded) = Emitted)
=============================================================================
