--------------------------- MODULE TranscriptFold ---------------------------
(***************************************************************************)
(* What one GUI shows of one session: the fold of the session's transcript *)
(* into the agent tile (agent_ui.rs and agent.rs of yalda-gpui, with the   *)
(* reconciler of agent_transcript.rs).                                     *)
(*                                                                         *)
(* The server logs nearly everything twice while the canonical stream is   *)
(* being rolled out: a prompt as UserPrompt and as the agent event         *)
(* UserMessage, what the agent says as an agent event and as a ReplyEvent, *)
(* a turn's end as an agent event and as TurnEnded.  The GUI folds one of  *)
(* the two, and which one changes: agent_stream_authoritative is the gate. *)
(* The user's own prompts are shown a third time, when they are typed.     *)
(*                                                                         *)
(* Three kinds of step interleave:                                         *)
(*   - the session: it admits prompts, and its agent speaks, ends turns,   *)
(*     dies, is restarted and resumed; the server itself may crash and     *)
(*     recover (the log survives);                                         *)
(*   - the connection: it may be lost and made again, and then the GUI     *)
(*     wipes the tile and is sent the log from its beginning;              *)
(*   - the GUI: it submits prompts and folds the log, one note a step.     *)
(*                                                                         *)
(* That the notes of the log reach the GUI once and in order is what       *)
(* TranscriptStream shows; here the GUI reads them by position.            *)
(***************************************************************************)
EXTENDS Naturals, SequencesExt, FiniteSetsExt, Functions, TLC, Selections

CONSTANTS
    Texts,            \* what a user may type
    MaxPrompts,       \* bound: prompts typed, here or elsewhere
    MaxChunks,        \* bound: chunks the agent says
    MaxNotes,         \* bound: notes of the log
    MaxGeneration,    \* bound: channel generations
    MaxLosses,        \* bound: connections lost and servers that die
    MaxPendingEchoes  \* MAX_PENDING_ECHOES

ASSUME TextsAssumption == Texts # {}
ASSUME BoundsAssumption ==
    /\ MaxPrompts \in Nat
    /\ MaxChunks \in Nat
    /\ MaxNotes \in Nat
    /\ MaxGeneration \in Nat
    /\ MaxLosses \in Nat
    /\ MaxPendingEchoes \in Nat \ {0}

\* The notes of the log.  Those with a generation and a turn are the envelopes of
\* the canonical stream, the others are the legacy stream's.
Notes ==
    [kind : {"Opened", "ReplayEnd", "AgentEnded"}, generation : Nat, turn : Nat]
        \cup [kind : {"UserMessage"}, generation : Nat, turn : Nat, text : Texts]
        \cup [kind : {"Chunk"}, generation : Nat, turn : Nat, id : Nat]
        \cup [kind : {"UserPrompt", "ReplyUserMessage"}, text : Texts]
        \cup [kind : {"ReplyChunk"}, id : Nat]
        \cup [kind : {"TurnEnded"}, generation : Nat, count : Nat]
        \cup [kind : {"ReplayComplete", "PromptRejected", "SessionDetached"}]

\* The kinds of the canonical stream, and those of them that are a TurnEnded.
Canonical == {"Opened", "UserMessage", "Chunk", "ReplayEnd", "AgentEnded"}

Boundaries == {"AgentEnded", "ReplayEnd"}

VARIABLES
    log,         \* the session's transcript
    lifecycle,
    generation,  \* channel_generation
    turns,
    owed,        \* prompts admitted whose turn has not ended, oldest first
    resumes,     \* the next channel resumes an agent's conversation
    marker,      \* the resumed agent has still to end its replay
    echoed,      \* the agent has echoed the prompt of the running turn
    sent,        \* prompts the GUI has written and the actor has not read,
                 \* each with the connection it was written to
    refused,     \* refusals under way to the GUI beside the log
    online,
    folded,      \* how many notes the GUI has folded
    tile,        \* the GUI's AgentState
    prompted,    \* how often each text was typed
    lost,        \* connections lost and servers that died
    kept         \* the tile's generation when it was last wiped

sessionVars == <<lifecycle, generation, turns, owed, resumes, marker, echoed>>
wireVars == <<sent, refused, online, lost>>
guiVars == <<folded, tile, kept>>
vars == <<log, sessionVars, wireVars, guiVars, prompted>>

\* asked: how often the tile shows each text as the user's; said: the agent's
\* chunks it shows; lastInserted: at most one text.
Tiles ==
    [generation : Nat, awaiting : BOOLEAN, lastSeen : Nat,
     pendingLocal : Seq(Texts), lastInserted : SUBSET Texts,
     finalized : SUBSET (Nat \X Nat), authoritative : BOOLEAN,
     asked : [Texts -> Nat], said : Seq(Nat)]

EmptyTile ==
    [generation |-> 0, awaiting |-> FALSE, lastSeen |-> 0,
     pendingLocal |-> << >>, lastInserted |-> {},
     finalized |-> {}, authoritative |-> FALSE,
     asked |-> [t \in Texts |-> 0], said |-> << >>]

TypeOK ==
    /\ log \in Seq(Notes)
    /\ lifecycle \in {"Spawning", "Live", "Restarting", "Disconnected"}
    /\ generation \in Nat
    /\ turns \in Nat
    /\ owed \in Seq(Texts)
    /\ resumes \in BOOLEAN
    /\ marker \in BOOLEAN
    /\ echoed \in BOOLEAN
    /\ sent \in Seq([text : Texts, link : Nat])
    /\ refused \in Nat
    /\ online \in BOOLEAN
    /\ folded \in 0 .. Len(log)
    /\ tile \in Tiles
    /\ prompted \in [Texts -> Nat]
    /\ lost \in Nat
    /\ kept \in Nat

\* A session just created, over an agent's earlier conversation or none, and the GUI
\* that created it attached to it.
Init ==
    /\ log = << >>
    /\ lifecycle = "Spawning"
    /\ generation = 0
    /\ turns = 0
    /\ owed = << >>
    /\ resumes \in BOOLEAN
    /\ marker = FALSE
    /\ echoed = FALSE
    /\ sent = << >>
    /\ refused = 0
    /\ online = TRUE
    /\ folded = 0
    /\ tile = EmptyTile
    /\ prompted = [t \in Texts |-> 0]
    /\ lost = 0
    /\ kept = 0

-----------------------------------------------------------------------------
(* The session.                                                            *)

\* record_agent: an agent event carries the channel's generation and the settled turns.
Envelope(kind) == [kind |-> kind, generation |-> generation, turn |-> turns]

Mention(t) == [kind |-> "UserMessage", generation |-> generation, turn |-> turns, text |-> t]

Record(notes) ==
    /\ Len(log) + Len(notes) <= MaxNotes
    /\ log' = log \o notes

\* No channel yet: prompts are queued.
Waiting == lifecycle \in {"Spawning", "Restarting"}

\* enqueue_prompt: a prompt is logged once it has been handed to the agent or
\* queued for the one that is being started.
Admitted(t) ==
    /\ lifecycle # "Disconnected"
    /\ owed' = Append(owed, t)
    /\ Record(<<[kind |-> "UserPrompt", text |-> t], Mention(t)>>)

Admit ==
    /\ sent # << >>
    /\ Admitted(Head(sent).text)
    /\ sent' = Tail(sent)
    /\ UNCHANGED <<lifecycle, generation, turns, resumes, marker, echoed, refused, online, lost,
                   guiVars, prompted>>

\* The refusal is written to the connection the prompt came by and never logged.  A
\* send that fails on a dying channel is AgentDies followed by this.
Refuse ==
    /\ sent # << >>
    /\ lifecycle = "Disconnected"
    /\ sent' = Tail(sent)
    /\ refused' = IF online /\ Head(sent).link = lost THEN refused + 1 ELSE refused
    /\ UNCHANGED <<log, sessionVars, online, lost, guiVars, prompted>>

TypedSoFar == SumFunction(prompted)

Type(t) ==
    /\ TypedSoFar < MaxPrompts
    /\ prompted' = [prompted EXCEPT ![t] = @ + 1]

\* A prompt of another client, of a chat bridge or of an administrator.
PromptElsewhere(t) ==
    /\ Type(t)
    /\ Admitted(t)
    /\ UNCHANGED <<lifecycle, generation, turns, resumes, marker, echoed, wireVars, guiVars>>

\* Live turns run past the replay; a replay is recorded where no fence is up.
Speaking ==
    /\ lifecycle = "Live"
    /\ IF marker THEN turns = 0 ELSE owed # << >>

Running == Speaking /\ ~ marker

Replies == [kind : {"ReplyChunk"}, id : Nat]

\* Command::Record: the canonical event, then the legacy one.
Say ==
    /\ Speaking
    /\ LET id == Len(Select(log, Replies)) + 1
       IN  /\ id <= MaxChunks
           /\ Record(<<[kind |-> "Chunk", generation |-> generation, turn |-> turns, id |-> id],
                       [kind |-> "ReplyChunk", id |-> id]>>)
    /\ UNCHANGED <<sessionVars, wireVars, guiVars, prompted>>

\* The agent's own UserMessageChunk for the prompt of the running turn.
EchoPrompt ==
    /\ Running
    /\ ~ echoed
    /\ echoed' = TRUE
    /\ Record(<<Mention(Head(owed)), [kind |-> "ReplyUserMessage", text |-> Head(owed)]>>)
    /\ UNCHANGED <<lifecycle, generation, turns, owed, resumes, marker, wireVars, guiVars,
                   prompted>>

\* Command::TurnCount: the agent event names the turn that ended, the legacy note
\* counts the turns that have.
EndTurn ==
    /\ Running
    /\ turns' = turns + 1
    /\ owed' = Tail(owed)
    /\ echoed' = FALSE
    /\ Record(<<Envelope("AgentEnded"),
                [kind |-> "TurnEnded", generation |-> generation, count |-> turns + 1]>>)
    /\ UNCHANGED <<lifecycle, generation, resumes, marker, wireVars, guiVars, prompted>>

\* handle_spawn_failed: the prompts still queued are rejected in the log.  A second
\* report of the same death only repeats the last note.
AgentDies ==
    /\ lifecycle # "Disconnected"
    /\ lifecycle' = "Disconnected"
    /\ owed' = << >>
    /\ marker' = FALSE
    /\ echoed' = FALSE
    /\ Record([i \in 1 .. (IF Waiting THEN Len(owed) ELSE 0) |-> [kind |-> "PromptRejected"]]
                \o <<[kind |-> "SessionDetached"]>>)
    /\ UNCHANGED <<generation, turns, resumes, wireVars, guiVars, prompted>>

\* The conversation to resume is that of the last channel published; one the session
\* was created over is given to its first spawn only.
Forgets == resumes' = \E i \in DOMAIN log : log[i].kind = "Opened"

\* do_restart: the generation is bumped at once, before a channel exists for it.
\* What was handed to the old agent goes with it, what is queued stays queued.
Restart ==
    /\ generation < MaxGeneration
    /\ generation' = generation + 1
    /\ lifecycle' = "Restarting"
    /\ owed' = IF Waiting THEN owed ELSE << >>
    /\ marker' = FALSE
    /\ echoed' = FALSE
    /\ Forgets
    /\ UNCHANGED <<log, turns, wireVars, guiVars, prompted>>

\* apply_channel_state: the queue is flushed, and from the first prompt the channel
\* does not take each is refused over the broadcast.  The channel's agent
\* is known from now on (acp_session_id).
Publish ==
    /\ Waiting
    /\ lifecycle' = "Live"
    /\ \E n \in 0 .. Len(owed) :
          /\ owed' = SubSeq(owed, 1, n)
          /\ refused' = IF online THEN refused + (Len(owed) - n) ELSE refused
    /\ marker' = resumes
    /\ resumes' = TRUE
    /\ Record(<<Envelope("Opened")>>)
    /\ UNCHANGED <<generation, turns, echoed, sent, online, lost, guiVars, prompted>>

\* The resumed agent ends its replay (Command::Record of ReplayComplete).
MarkReplayEnd ==
    /\ lifecycle = "Live"
    /\ marker
    /\ marker' = FALSE
    /\ Record(<<Envelope("ReplayEnd"), [kind |-> "ReplayComplete"]>>)
    /\ UNCHANGED <<lifecycle, generation, turns, owed, resumes, echoed, wireVars, guiVars,
                   prompted>>

\* The server dies and recovers the session from its log (recover_one): the prompts
\* whose intent is still open are queued again, under a generation the log has not seen.
Crash ==
    /\ lost < MaxLosses
    /\ LET seen == {log[i].generation : i \in {j \in DOMAIN log : log[j].kind \in Canonical}}
       IN  generation' = IF seen = {} THEN 0 ELSE Max(seen) + 1
    /\ generation' <= MaxGeneration
    /\ lifecycle' = "Spawning"
    /\ owed' = IF Waiting THEN owed ELSE << >>
    /\ Forgets
    /\ marker' = FALSE
    /\ echoed' = FALSE
    /\ sent' = << >>
    /\ refused' = 0
    /\ online' = FALSE
    /\ lost' = lost + 1
    /\ UNCHANGED <<log, turns, guiVars, prompted>>

-----------------------------------------------------------------------------
(* The connection.                                                         *)

\* What was written before the loss may still be read by the server, or not.
Drop ==
    /\ online
    /\ lost < MaxLosses
    /\ online' = FALSE
    /\ lost' = lost + 1
    /\ sent' \in {sent, << >>}
    /\ refused' = 0
    /\ UNCHANGED <<log, sessionVars, guiVars, prompted>>

\* Mutant of Reconnect: the reconciler outlives the rows it knows of.
ReconnectWithEchoes ==
    /\ ~ online
    /\ online' = TRUE
    /\ folded' = 0
    /\ tile' = [EmptyTile EXCEPT !.generation = tile.generation,
                                !.pendingLocal = tile.pendingLocal]
    /\ kept' = tile.generation
    /\ UNCHANGED <<log, sessionVars, sent, refused, lost, prompted>>

\* reconnect_session_server: the tile is wiped (reset_for_replay), but for its
\* generation, before it is attached again and sent the log from its beginning.
Reconnect ==
    /\ ~ online
    /\ online' = TRUE
    /\ folded' = 0
    /\ tile' = [EmptyTile EXCEPT !.generation = tile.generation]
    /\ kept' = tile.generation
    /\ UNCHANGED <<log, sessionVars, sent, refused, lost, prompted>>

-----------------------------------------------------------------------------
(* The GUI.                                                                *)

\* The reconciler's queue of local submits drops its oldest at the limit.
Pend(queue, t) ==
    Append(IF Len(queue) >= MaxPendingEchoes THEN Tail(queue) ELSE queue, t)

\* send_prompt_to_session: the prompt is written and shown at once.
Submit(t) ==
    /\ online
    /\ Type(t)
    /\ sent' = Append(sent, [text |-> t, link |-> lost])
    /\ tile' = [tile EXCEPT !.asked[t] = @ + 1,
                            !.pendingLocal = Pend(@, t),
                            !.lastInserted = {t},
                            !.awaiting = TRUE]
    /\ UNCHANGED <<log, sessionVars, refused, online, lost, folded, kept>>

\* PromptRejected beside the log.
HearRefusal ==
    /\ online
    /\ refused > 0
    /\ refused' = refused - 1
    /\ tile' = [tile EXCEPT !.awaiting = FALSE]
    /\ UNCHANGED <<log, sessionVars, sent, online, lost, folded, kept, prompted>>

\* reconcile of an Echo: it is skipped if it answers a local submit or is the second
\* source of the row inserted last, and else inserted.
Echoed(g, t) ==
    IF Contains(g.pendingLocal, t)
    THEN [g EXCEPT !.pendingLocal = RemoveFirst(@, t), !.lastInserted = {t}]
    ELSE IF t \in g.lastInserted
    THEN g
    ELSE [g EXCEPT !.asked[t] = @ + 1, !.lastInserted = {t}]

\* finalize_agent_turn_idem, and the phase its callers set if it did finalize.
Finalized(g, gen, turn) ==
    IF <<gen, turn>> \in g.finalized
    THEN g
    ELSE [g EXCEPT !.finalized = @ \cup {<<gen, turn>>}, !.awaiting = FALSE]

\* Mutant of Rebased: the turn of the old channel is still awaited.
RebasedAwaiting(g, gen) ==
    IF gen <= g.generation
    THEN g
    ELSE [g EXCEPT !.generation = gen, !.lastSeen = 0,
                   !.pendingLocal = << >>, !.lastInserted = {},
                   !.finalized = {}, !.authoritative = FALSE]

\* begin_server_generation: the rows stay, the ledgers of the old channel go.
Rebased(g, gen) ==
    IF gen <= g.generation
    THEN g
    ELSE [g EXCEPT !.generation = gen, !.awaiting = FALSE, !.lastSeen = 0,
                   !.pendingLocal = << >>, !.lastInserted = {},
                   !.finalized = {}, !.authoritative = FALSE]

\* Mutant of Listens: before the stream is in charge its events are folded as well.
ListensAlways(g, n) == n.generation >= g.generation

\* The gate of the canonical stream, with apply_agent_event's refusal of stragglers.
Listens(g, n) ==
    /\ g.authoritative \/ n.kind \in Boundaries \/ n.generation > g.generation
    /\ n.generation >= g.generation

Note == log[folded + 1]

Read(kind) ==
    /\ online
    /\ folded < Len(log)
    /\ Note.kind = kind
    /\ folded' = folded + 1
    /\ UNCHANGED <<log, sessionVars, wireVars, kept, prompted>>

\* The tile a canonical event finds: a newer generation has begun.
Begun == Rebased(tile, Note.generation)

\* What a canonical event leaves of the tile, if it is listened to.
Canonically(next) == tile' = IF Listens(tile, Note) THEN next ELSE tile

\* What a legacy event leaves of the tile: inert once the canonical stream is in charge.
Legacy(next) == tile' = IF tile.authoritative THEN tile ELSE next

FoldOpened == Read("Opened") /\ Canonically(Begun)

FoldUserMessage ==
    Read("UserMessage") /\ Canonically(Echoed(Begun, Note.text))

FoldChunk ==
    Read("Chunk") /\ Canonically([Begun EXCEPT !.said = Append(@, Note.id)])

\* The replayed prefix has a finalize flag of its own, not an entry of the ledger.
FoldReplayEnd ==
    /\ Read("ReplayEnd")
    /\ Canonically([Begun EXCEPT !.authoritative = TRUE, !.lastInserted = {}])

FoldAgentEnded ==
    /\ Read("AgentEnded")
    /\ Canonically(Finalized([Begun EXCEPT !.authoritative = TRUE, !.lastInserted = {},
                                          !.lastSeen = Note.turn],
                             Note.generation, Note.turn))

\* The legacy prompt is folded whatever stream is in charge, and so is TurnEnded.
FoldUserPrompt == Read("UserPrompt") /\ tile' = Echoed(tile, Note.text)

FoldTurnEnded ==
    /\ Read("TurnEnded")
    /\ tile' = Finalized([tile EXCEPT !.lastInserted = {}, !.lastSeen = Note.count],
                         IF Note.generation > 0 THEN Note.generation ELSE tile.generation,
                         Note.count - 1)

FoldReplyUserMessage ==
    Read("ReplyUserMessage") /\ Legacy(Echoed(tile, Note.text))

FoldReplyChunk ==
    Read("ReplyChunk") /\ Legacy([tile EXCEPT !.said = Append(@, Note.id)])

FoldReplayComplete ==
    /\ Read("ReplayComplete")
    /\ Legacy(Finalized([tile EXCEPT !.lastInserted = {}], tile.generation, tile.lastSeen))

FoldRejection == Read("PromptRejected") /\ tile' = [tile EXCEPT !.awaiting = FALSE]

FoldDetached == Read("SessionDetached") /\ tile' = [tile EXCEPT !.awaiting = FALSE]

-----------------------------------------------------------------------------
SessionNext ==
    \/ Admit
    \/ Refuse
    \/ \E t \in Texts : PromptElsewhere(t)
    \/ Say
    \/ EchoPrompt
    \/ EndTurn
    \/ AgentDies
    \/ Restart
    \/ Publish
    \/ MarkReplayEnd
    \/ Crash

FoldNext ==
    \/ FoldOpened
    \/ FoldUserMessage
    \/ FoldChunk
    \/ FoldReplayEnd
    \/ FoldAgentEnded
    \/ FoldUserPrompt
    \/ FoldTurnEnded
    \/ FoldReplyUserMessage
    \/ FoldReplyChunk
    \/ FoldReplayComplete
    \/ FoldRejection
    \/ FoldDetached

Next ==
    \/ SessionNext
    \/ Drop
    \/ Reconnect
    \/ \E t \in Texts : Submit(t)
    \/ HearRefusal
    \/ FoldNext

Spec == Init /\ [][Next]_vars

\* For TLC: nothing tells one text from another.
TextSymmetry == Permutations(Texts)

-----------------------------------------------------------------------------
(* What the tile must show.                                                *)

Folded == SubSeq(log, 1, folded)

\* The chunks the legacy stream holds in the notes folded so far.
SaidByLog ==
    LET replies == Select(Folded, Replies)
    IN  [i \in DOMAIN replies |-> replies[i].id]

\* Whichever stream is in charge, and across every change of it, the tile shows what
\* the agent said once, whole and in order: of two notes of one chunk exactly one is
\* folded (the gate in apply_server_batch, agent_stream_authoritative).  Between the
\* two notes the chunk may be shown already.
AnswersOnceInOrder ==
    \/ tile.said = SaidByLog
    \/ /\ folded > 0
       /\ log[folded].kind = "Chunk"
       /\ tile.said = Append(SaidByLog, log[folded].id)

\* The reconciler suppresses a prompt's second and third source, never all of them:
\* every prompt the session has logged, and the GUI has folded, is on the screen, also
\* after a reconnect has wiped it (UserTurnReconciler::reset).
EveryPromptIsShown ==
    \A i \in 1 .. folded :
        log[i].kind = "UserPrompt" => tile.asked[log[i].text] > 0

\* The session owes the GUI nothing and the GUI has heard it all.
Settled ==
    /\ online
    /\ folded = Len(log)
    /\ sent = << >>
    /\ refused = 0
    /\ owed = << >>
    /\ ~ marker
    /\ ~ Waiting

\* A tile does not stay on "thinking" once every prompt is answered, refused or lost
\* with its agent: each turn's end finalizes once whichever stream brings it first, and
\* a replay's end does not take a live turn's entry in the ledger (settle_agent_effect).
\* The exception is a log with the end of a replay of a generation older than the one
\* the tile kept across reset_for_replay: that event is dropped as a straggler, its
\* legacy twin is folded and takes an entry a live turn may need.
ThinkingEnds ==
    Settled /\ (\A i \in DOMAIN log : log[i].kind = "ReplayEnd" => log[i].generation >= kept)
        => ~ tile.awaiting

\* No prompt is on the screen more often than it was typed.
NeverShownTwice == \A t \in Texts : tile.asked[t] <= prompted[t]
=============================================================================
