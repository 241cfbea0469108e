------------------------ MODULE SessionLifecycle_proofs ------------------------
(***************************************************************************)
(* Theorems about SessionLifecycle, for every number of prompts,           *)
(* deliveries, channels and generations.                                   *)
(*                                                                         *)
(* The invariant has one part per concern: the types; the queue of prompts *)
(* and what their submitters believe; the deliveries, each in one place;   *)
(* and the generations of channels and of what they sent, which is what    *)
(* makes the fence of an archive hold.                                     *)
(***************************************************************************)
EXTENDS SessionLifecycle, Selections_proofs, FiniteSetTheorems

(***************************************************************************)
(* Types.                                                                  *)
(***************************************************************************)

\* The fields of a message by its type (Command).
LEMMA MessageFields ==
    ASSUME NEW m \in Messages
    PROVE  /\ m.type = "Publish" => m.channel \in Channels
           /\ m.type \in {"SpawnFailed", "AgentDisconnected"} => m.generation \in Nat
           /\ m.type = "TurnCount" =>
                  m.generation \in Nat /\ m.turns \in Nat /\ m.outcome \in Outcomes
  BY DEF Messages

WorkerType == [phase : {"none", "spawning", "connected", "dead"}, generation : Nat,
               handed : Seq(Items), ended : Seq(Outcomes)]

WorkerTypes == [Channels -> WorkerType]

PumpTypes ==
    [Channels -> [phase : {"none", "running", "stopped"}, base : Nat, seen : Nat]]

Results == {"unsent", "waiting", "succeeded", "failed"}

SessionTypes ==
    /\ lifecycle \in Lifecycles
    /\ generation \in Nat
    /\ channel \in Channels \cup {NoChannel}
    /\ busy \in BOOLEAN
    /\ turns \in Nat
    /\ (lifecycle = "Live") <=> (channel # NoChannel)

PromptTypes == pendingPrompts \in Seq(Prompts) /\ fate \in [Prompts -> Fates]

DeliveryTypes ==
    /\ activeDelivery \in {Idle} \cup
            [delivery : Deliveries, generation : Nat, target : Nat \ {0}]
    /\ pendingDeliveries \in Seq(Deliveries)
    /\ result \in [Deliveries -> Results]

ThreadTypes == inbox \in Seq(Messages) /\ worker \in WorkerTypes /\ pump \in PumpTypes

\* The types, part by part (ManagedSession and its threads).
LEMMA TypesByPart ==
    /\ TypeOK <=> steering \in BOOLEAN /\ SessionTypes /\ PromptTypes /\ DeliveryTypes
                      /\ ThreadTypes
    /\ TypeOK' <=> (steering \in BOOLEAN /\ SessionTypes /\ PromptTypes /\ DeliveryTypes
                       /\ ThreadTypes)'
  BY DEF TypeOK, SessionTypes, PromptTypes, DeliveryTypes, ThreadTypes, Results,
         WorkerTypes, WorkerType, PumpTypes

\* A channel before and after it is started (spawn_channel).
LEMMA StartedFields == Unstarted \in WorkerType /\ \A g \in Nat : Started(g) \in WorkerType
  <1>1. << >> \in Seq(Items) /\ << >> \in Seq(Outcomes)
    OBVIOUS
  <1> QED
    BY <1>1 DEF Unstarted, Started, WorkerType

\* A worker keeps its type when it is handed an item (send_payload), started, moved to
\* another phase or ends a turn.
LEMMA WorkerSteps ==
    ASSUME worker \in WorkerTypes, NEW c \in Channels
    PROVE  /\ \A item \in Items :
                 [worker EXCEPT ![c].handed = Append(@, item)] \in WorkerTypes
           /\ \A p \in {"none", "spawning", "connected", "dead"} :
                 [worker EXCEPT ![c].phase = p] \in WorkerTypes
           /\ \A outcome \in Outcomes :
                 [worker EXCEPT ![c].ended = Append(@, outcome)] \in WorkerTypes
           /\ \A g \in Nat : [worker EXCEPT ![c] = Started(g)] \in WorkerTypes
  <1>1. \A item \in Items : [worker EXCEPT ![c].handed = Append(@, item)] \in WorkerTypes
    <2> TAKE item \in Items
    <2>1. Append(worker[c].handed, item) \in Seq(Items)
      BY DEF WorkerTypes, WorkerType
    <2> QED
      BY <2>1 DEF WorkerTypes, WorkerType
  <1>2. \A p \in {"none", "spawning", "connected", "dead"} :
            [worker EXCEPT ![c].phase = p] \in WorkerTypes
    BY DEF WorkerTypes, WorkerType
  <1>3. \A o \in Outcomes : [worker EXCEPT ![c].ended = Append(@, o)] \in WorkerTypes
    <2> TAKE o \in Outcomes
    <2>1. Append(worker[c].ended, o) \in Seq(Outcomes)
      BY DEF WorkerTypes, WorkerType
    <2> QED
      BY <2>1 DEF WorkerTypes, WorkerType
  <1>4. \A g \in Nat : [worker EXCEPT ![c] = Started(g)] \in WorkerTypes
    BY StartedFields DEF WorkerTypes
  <1> QED
    BY <1>1, <1>2, <1>3, <1>4

\* fail_provider_deliveries leaves none.
LEMMA FailTypes ==
    ASSUME DeliveryTypes, FailDeliveries
    PROVE  DeliveryTypes' /\ activeDelivery' = Idle /\ pendingDeliveries' = << >>
  BY DEF DeliveryTypes, FailDeliveries, Results

\* finish_prompt_intent of what was queued.
LEMMA FinishTypes ==
    ASSUME NEW f \in [Prompts -> Fates], NEW outcome \in Fates
    PROVE  Finished(f, outcome) \in [Prompts -> Fates]
  BY DEF Finished

\* What handle_spawn_failed leaves is well typed.
LEMMA TerminalizeTypes ==
    ASSUME PromptTypes, DeliveryTypes, NEW f \in [Prompts -> Fates], Terminalize(f)
    PROVE  /\ lifecycle' = "Disconnected" /\ channel' = NoChannel /\ busy' = FALSE
           /\ PromptTypes' /\ DeliveryTypes'
  <1>1. DeliveryTypes'
    BY FailTypes DEF Terminalize
  <1>2. fate' \in [Prompts -> Fates]
    BY FinishTypes DEF Terminalize, Fates
  <1> QED
    BY <1>1, <1>2 DEF Terminalize, PromptTypes

\* The first state is well typed (do_create_session, restore_seed_from_dir).
LEMMA InitTypes == Init => TypeOK
  <1> SUFFICES ASSUME Init
               PROVE  TypeOK
    OBVIOUS
  <1>1. pendingPrompts \in Seq(Prompts)
    <2>1. PICK n \in 0 .. MaxRecovered : pendingPrompts = [i \in 1 .. n |-> i]
      BY DEF Init
    <2>2. n \in Nat /\ \A i \in 1 .. n : i \in Prompts
      BY PromptsAssumption DEF Prompts
    <2> QED
      BY <2>1, <2>2
  <1>2. worker \in WorkerTypes
    BY StartedFields DEF Init, WorkerTypes
  <1>3. pump \in PumpTypes
    BY DEF Init, PumpTypes, NoPump
  <1>4. SessionTypes
    BY DEF Init, SessionTypes, Lifecycles
  <1>5. PromptTypes
    BY <1>1 DEF Init, PromptTypes, Fates
  <1>6. DeliveryTypes
    BY DEF Init, DeliveryTypes, Results
  <1> QED
    BY <1>2, <1>3, <1>4, <1>5, <1>6, TypesByPart, AdaptersAssumption
       DEF Init, ThreadTypes

\* The queued prompts reach the worker as items of its queue (apply_channel_state).
LEMMA FlushTypes ==
    ASSUME PromptTypes, worker \in WorkerTypes,
           NEW c \in Channels, NEW k \in 0 .. Len(pendingPrompts), Flush(c, k)
    PROVE  /\ worker' \in WorkerTypes
           /\ PromptTypes' /\ busy' \in BOOLEAN /\ pendingPrompts' = << >>
  <1>1. \A p \in Prompts : PromptItem(p, FALSE) \in Items
    BY PromptsAssumption DEF Prompts, PromptItem, Items
  <1>2. pendingPrompts \in Seq(Prompts) /\ fate \in [Prompts -> Fates]
    BY DEF PromptTypes
  <1>3. k \in Nat /\ \A i \in 1 .. k : PromptItem(pendingPrompts[i], FALSE) \in Items
    <2>1. k \in Nat /\ \A i \in 1 .. k : pendingPrompts[i] \in Prompts
      BY <1>2
    <2> QED
      BY <1>1, <2>1
  <1>4. FirstItems(pendingPrompts, k) \in [1 .. k -> Items]
    BY <1>3 DEF FirstItems
  <1>5. FirstItems(pendingPrompts, k) \in Seq(Items)
    BY <1>3, <1>4, SeqDef
  <1> DEFINE handed == worker[c].handed \o FirstItems(pendingPrompts, k)
             phase == IF k < Len(pendingPrompts) THEN "dead" ELSE worker[c].phase
  <1>6. worker' = [worker EXCEPT ![c] = [worker[c] EXCEPT !.handed = handed, !.phase = phase]]
    BY DEF Flush, HandOver
  <1>7. worker' \in WorkerTypes
    <2>1. handed \in Seq(Items)
      BY <1>5 DEF WorkerTypes, WorkerType
    <2>2. phase \in {"none", "spawning", "connected", "dead"}
      BY DEF WorkerTypes, WorkerType
    <2> HIDE DEF handed, phase
    <2>3. [worker[c] EXCEPT !.handed = handed, !.phase = phase] \in WorkerType
      BY <2>1, <2>2 DEF WorkerTypes, WorkerType
    <2> QED
      BY <1>6, <2>3 DEF WorkerTypes, handed, phase
  <1>8. fate' \in [Prompts -> Fates]
    BY <1>2 DEF Flush, FlushedFates, Fates
  <1> QED
    BY <1>7, <1>8 DEF Flush, PromptTypes

\* What a step leaves alone keeps its type (ManagedSession).
LEMMA KeptTypes ==
    /\ PromptTypes /\ UNCHANGED promptVars => PromptTypes'
    /\ DeliveryTypes /\ UNCHANGED deliveryVars => DeliveryTypes'
    /\ SessionTypes /\ UNCHANGED sessionVars => SessionTypes'
    /\ ThreadTypes /\ UNCHANGED <<inbox, worker, pump>> => ThreadTypes'
  BY DEF PromptTypes, DeliveryTypes, SessionTypes, ThreadTypes, promptVars, deliveryVars,
         sessionVars

\* A steer, a prompt (enqueue_prompt, do_steer).
LEMMA AdmitTypes ==
    ASSUME TypeOK, NEW p \in Prompts, NEW steer \in BOOLEAN, Admit(p, steer)
    PROVE  TypeOK'
  <1>1. /\ steering \in BOOLEAN /\ SessionTypes /\ PromptTypes /\ DeliveryTypes
        /\ ThreadTypes /\ worker \in WorkerTypes
    BY TypesByPart DEF ThreadTypes
  <1>2. UNCHANGED <<steering, generation, turns, inbox, pump>>
    BY DEF Admit
  <1>3. CASE /\ lifecycle = "Live" /\ CanSend
             /\ worker' = [worker EXCEPT ![channel].handed = Append(@, PromptItem(p, steer))]
             /\ fate' = [fate EXCEPT ![p] = "delivered"]
             /\ busy' = TRUE
             /\ UNCHANGED <<lifecycle, channel, pendingPrompts, deliveryVars>>
    <2>1. PromptItem(p, steer) \in Items /\ channel \in Channels
      BY <1>1, <1>3, PromptsAssumption DEF PromptItem, Items, Prompts, SessionTypes, CanSend
    <2>2. worker' \in WorkerTypes
      BY <1>1, <1>3, <2>1, WorkerSteps
    <2>3. ThreadTypes'
      BY <1>1, <1>2, <2>2 DEF ThreadTypes
    <2>4. SessionTypes'
      BY <1>1, <1>2, <1>3 DEF SessionTypes
    <2>5. PromptTypes' /\ DeliveryTypes'
      BY <1>1, <1>3, KeptTypes DEF PromptTypes, Fates
    <2> QED
      BY <1>1, <1>2, <2>3, <2>4, <2>5, TypesByPart
  <1>4. CASE /\ lifecycle \in {"Spawning", "Restarting"} /\ channel = NoChannel
             /\ pendingPrompts' = Append(pendingPrompts, p)
             /\ fate' = [fate EXCEPT ![p] = "queued"]
             /\ busy' = TRUE
             /\ UNCHANGED <<lifecycle, channel, deliveryVars, worker>>
    <2>1. ThreadTypes'
      BY <1>1, <1>2, <1>4 DEF ThreadTypes
    <2>2. SessionTypes' /\ DeliveryTypes'
      BY <1>1, <1>2, <1>4, KeptTypes DEF SessionTypes
    <2>3. PromptTypes'
      BY <1>1, <1>4 DEF PromptTypes, Fates
    <2> QED
      BY <1>1, <1>2, <2>1, <2>2, <2>3, TypesByPart
  <1>5. CASE Terminalize([fate EXCEPT ![p] = "rejected"]) /\ UNCHANGED worker
    <2>1. [fate EXCEPT ![p] = "rejected"] \in [Prompts -> Fates]
      BY <1>1 DEF PromptTypes, Fates
    <2>2. /\ lifecycle' = "Disconnected" /\ channel' = NoChannel /\ busy' = FALSE
          /\ PromptTypes' /\ DeliveryTypes'
      BY <1>1, <1>5, <2>1, TerminalizeTypes
    <2>3. SessionTypes' /\ ThreadTypes'
      BY <1>1, <1>2, <1>5, <2>2 DEF SessionTypes, ThreadTypes, Lifecycles
    <2> QED
      BY <1>1, <1>2, <2>2, <2>3, TypesByPart
  <1> QED
    BY <1>3, <1>4, <1>5 DEF Admit

\* The end of a session's turns and what waits for them: cancel, restart, archive,
\* unarchive, close.
LEMMA ControlTypes ==
    ASSUME TypeOK, Cancel \/ Restart \/ Archive \/ Unarchive \/ Close
    PROVE  TypeOK'
  <1>1. /\ steering \in BOOLEAN /\ SessionTypes /\ PromptTypes /\ DeliveryTypes
        /\ ThreadTypes /\ worker \in WorkerTypes /\ fate \in [Prompts -> Fates]
        /\ generation \in Nat /\ generation + 1 \in Nat
    BY TypesByPart DEF ThreadTypes, PromptTypes, SessionTypes
  <1>2. CASE Cancel
    <2>1. DeliveryTypes'
      BY <1>1, <1>2 DEF Cancel, DeliveryTypes, Results
    <2>2. PromptTypes'
      <3>1. Finished(fate, "cancelled") \in [Prompts -> Fates]
        BY <1>1, FinishTypes DEF Fates
      <3>2. CASE lifecycle \in {"Spawning", "Restarting", "Disconnected"}
        BY <1>2, <3>1, <3>2 DEF Cancel, PromptTypes
      <3>3. CASE lifecycle \notin {"Spawning", "Restarting", "Disconnected"}
        BY <1>1, <1>2, <3>3, KeptTypes DEF Cancel
      <3> QED
        BY <3>2, <3>3
    <2>3. SessionTypes' /\ ThreadTypes'
      BY <1>1, <1>2 DEF Cancel, SessionTypes, ThreadTypes
    <2> QED
      BY <1>1, <1>2, <2>1, <2>2, <2>3, TypesByPart DEF Cancel
  <1>3. CASE Restart
    <2>1. DeliveryTypes'
      BY <1>1, <1>3, FailTypes DEF Restart
    <2>2. worker' \in WorkerTypes
      BY <1>1, <1>3, WorkerSteps DEF Restart
    <2>3. PromptTypes' /\ SessionTypes' /\ ThreadTypes'
      BY <1>1, <1>3, <2>2
         DEF Restart, Fence, PromptTypes, SessionTypes, ThreadTypes, promptVars, Lifecycles
    <2> QED
      BY <1>1, <1>3, <2>1, <2>3, TypesByPart DEF Restart
  <1>4. CASE Archive
    <2>1. DeliveryTypes'
      BY <1>1, <1>4, FailTypes DEF Archive
    <2>2. PromptTypes'
      BY <1>1, <1>4, FinishTypes DEF Archive, PromptTypes, Fates
    <2>3. SessionTypes' /\ ThreadTypes'
      BY <1>1, <1>4 DEF Archive, Fence, SessionTypes, ThreadTypes, Lifecycles
    <2> QED
      BY <1>1, <1>4, <2>1, <2>2, <2>3, TypesByPart DEF Archive
  <1>5. CASE Unarchive
    <2>1. worker' \in WorkerTypes
      BY <1>1, <1>5, WorkerSteps DEF Unarchive
    <2>2. PromptTypes' /\ SessionTypes' /\ ThreadTypes' /\ DeliveryTypes'
      BY <1>1, <1>5, <2>1
         DEF Unarchive, PromptTypes, SessionTypes, ThreadTypes, DeliveryTypes, promptVars,
             deliveryVars, Lifecycles
    <2> QED
      BY <1>1, <1>5, <2>2, TypesByPart DEF Unarchive
  <1>6. CASE Close
    <2>1. DeliveryTypes'
      BY <1>1, <1>6, FailTypes DEF Close
    <2>2. PromptTypes'
      BY <1>1, <1>6, FinishTypes DEF Close, PromptTypes, Fates
    <2>3. SessionTypes' /\ ThreadTypes'
      BY <1>1, <1>6 DEF Close, Fence, SessionTypes, ThreadTypes, Lifecycles
    <2> QED
      BY <1>1, <1>6, <2>1, <2>2, <2>3, TypesByPart DEF Close
  <1> QED
    BY <1>2, <1>3, <1>4, <1>5, <1>6

\* A delivery that is started owns the next turn (start_provider_delivery).
LEMMA StartTypes ==
    ASSUME SessionTypes, worker \in WorkerTypes,
           NEW d \in Deliveries, NEW steer \in BOOLEAN, NEW t \in Nat,
           CanSend, Start(d, steer, t)
    PROVE  /\ worker' \in WorkerTypes
           /\ activeDelivery' \in [delivery : Deliveries, generation : Nat, target : Nat \ {0}]
           /\ busy' = TRUE
  <1>1. DeliveryItem(d, steer) \in Items /\ channel \in Channels
    BY BoundsAssumption DEF DeliveryItem, Items, Deliveries, SessionTypes, CanSend
  <1>2. worker' \in WorkerTypes
    BY <1>1, WorkerSteps DEF Start
  <1>3. t + 1 \in Nat \ {0} /\ generation \in Nat
    BY DEF SessionTypes
  <1> QED
    BY <1>2, <1>3 DEF Start

\* A Cog delivery (do_cog_delivery).
LEMMA CogDeliveryTypes ==
    ASSUME TypeOK, NEW d \in Deliveries, CogDelivery(d)
    PROVE  TypeOK'
  <1>1. /\ steering \in BOOLEAN /\ SessionTypes /\ PromptTypes /\ DeliveryTypes
        /\ ThreadTypes /\ worker \in WorkerTypes /\ turns \in Nat
    BY TypesByPart DEF ThreadTypes, SessionTypes
  <1>2. UNCHANGED <<steering, lifecycle, generation, channel, turns, promptVars, inbox, pump>>
    BY DEF CogDelivery
  <1>3. busy' \in BOOLEAN /\ worker' \in WorkerTypes /\ DeliveryTypes'
    <2>1. CASE /\ pendingDeliveries' = Append(pendingDeliveries, d)
               /\ result' = [result EXCEPT ![d] = "waiting"]
               /\ UNCHANGED <<busy, activeDelivery, worker>>
      BY <1>1, <2>1 DEF DeliveryTypes, SessionTypes, Results
    <2>2. CASE /\ CanSend
               /\ Start(d, SteerNow, turns)
               /\ result' = [result EXCEPT ![d] = "waiting"]
               /\ UNCHANGED pendingDeliveries
      <3>1. SteerNow \in BOOLEAN
        BY <1>1 DEF SteerNow, SessionTypes
      <3>2. /\ worker' \in WorkerTypes /\ busy' = TRUE
            /\ activeDelivery' \in [delivery : Deliveries, generation : Nat, target : Nat \ {0}]
        BY <1>1, <2>2, <3>1, StartTypes
      <3> QED
        BY <1>1, <2>2, <3>2 DEF DeliveryTypes, Results
    <2>3. CASE /\ result' = [result EXCEPT ![d] = "failed"]
               /\ UNCHANGED <<busy, activeDelivery, pendingDeliveries, worker>>
      BY <1>1, <2>3 DEF DeliveryTypes, SessionTypes, Results
    <2> QED
      BY <2>1, <2>2, <2>3 DEF CogDelivery
  <1>4. SessionTypes' /\ PromptTypes'
    BY <1>1, <1>2, <1>3, KeptTypes DEF SessionTypes
  <1>5. ThreadTypes'
    BY <1>1, <1>2, <1>3 DEF ThreadTypes
  <1> QED
    BY <1>1, <1>2, <1>3, <1>4, <1>5, TypesByPart

\* The answer to a delivery (settle_provider_delivery).
LEMMA AnswerTypes ==
    ASSUME DeliveryTypes, NEW m
    PROVE  Answer(m) \in [Deliveries -> Results]
  BY DEF DeliveryTypes, Answer, Settled, Results

\* A message of a spawn thread or a pump (Manager::apply).
LEMMA ReceiveTypes ==
    ASSUME TypeOK, Receive
    PROVE  TypeOK'
  <1>1. /\ steering \in BOOLEAN /\ SessionTypes /\ PromptTypes /\ DeliveryTypes
        /\ ThreadTypes /\ worker \in WorkerTypes /\ pump \in PumpTypes /\ turns \in Nat
        /\ fate \in [Prompts -> Fates] /\ inbox \in Seq(Messages)
        /\ pendingDeliveries \in Seq(Deliveries)
    BY TypesByPart DEF ThreadTypes, SessionTypes, PromptTypes, DeliveryTypes
  <1> DEFINE m == Head(inbox)
  <1>2. m \in Messages /\ inbox' \in Seq(Messages) /\ UNCHANGED steering
    BY <1>1 DEF Receive
  <1> HIDE DEF m
  <1>3. CASE m.type = "Publish" /\ Publish(m.channel)
    <2> DEFINE c == m.channel
    <2>1. c \in Channels
      BY <1>2, <1>3, MessageFields
    <2> HIDE DEF c
    <2>2. CASE /\ lifecycle \notin {"Archived", "Closed"}
               /\ \E k \in 0 .. Len(pendingPrompts) : Flush(c, k)
               /\ channel' = c
               /\ lifecycle' = "Live"
               /\ pump' = [pump EXCEPT ![c] = [phase |-> "running", base |-> turns, seen |-> 0]]
               /\ UNCHANGED <<generation, turns, deliveryVars>>
      <3>1. worker' \in WorkerTypes /\ PromptTypes' /\ busy' \in BOOLEAN
        BY <1>1, <2>1, <2>2, FlushTypes
      <3>2. pump' \in PumpTypes
        BY <1>1, <2>1, <2>2 DEF PumpTypes
      <3>3. ThreadTypes'
        BY <1>2, <3>1, <3>2 DEF ThreadTypes
      <3>4. SessionTypes' /\ DeliveryTypes'
        BY <1>1, <2>1, <2>2, <3>1, KeptTypes
           DEF SessionTypes, Lifecycles, Channels, NoChannel
      <3> QED
        BY <1>1, <1>2, <3>1, <3>3, <3>4, TypesByPart
    <2>3. CASE /\ worker' = [worker EXCEPT ![c].phase = "dead"]
               /\ UNCHANGED <<sessionVars, promptVars, deliveryVars, pump>>
      <3>1. worker' \in WorkerTypes
        BY <1>1, <2>1, <2>3, WorkerSteps
      <3>2. ThreadTypes' /\ SessionTypes' /\ PromptTypes' /\ DeliveryTypes'
        BY <1>1, <1>2, <2>3, <3>1, KeptTypes DEF ThreadTypes
      <3> QED
        BY <1>1, <1>2, <3>2, TypesByPart
    <2> QED
      BY <1>3, <2>2, <2>3 DEF Publish, c
  <1>4. CASE m.type \in {"SpawnFailed", "AgentDisconnected"} /\ LostAgent(m.generation)
    <2>1. ThreadTypes'
      BY <1>1, <1>2, <1>4 DEF LostAgent, ThreadTypes
    <2>2. CASE UNCHANGED <<sessionVars, promptVars, deliveryVars>>
      BY <1>1, <1>2, <2>1, <2>2, KeptTypes, TypesByPart
    <2>3. CASE Terminalize(fate) /\ UNCHANGED <<generation, turns>>
      <3>1. /\ lifecycle' = "Disconnected" /\ channel' = NoChannel /\ busy' = FALSE
            /\ PromptTypes' /\ DeliveryTypes'
        BY <1>1, <2>3, TerminalizeTypes
      <3>2. SessionTypes'
        BY <1>1, <2>3, <3>1 DEF SessionTypes, Lifecycles
      <3> QED
        BY <1>1, <1>2, <2>1, <3>1, <3>2, TypesByPart
    <2> QED
      BY <1>4, <2>2, <2>3 DEF LostAgent
  <1>5. CASE m.type = "TurnCount" /\ TurnCount(m)
    <2>1. m.turns \in Nat /\ m.generation \in Nat
      BY <1>2, <1>5, MessageFields
    <2>2. CASE UNCHANGED <<sessionVars, promptVars, deliveryVars, worker, pump>>
      <3>1. SessionTypes' /\ PromptTypes' /\ DeliveryTypes' /\ ThreadTypes'
        BY <1>1, <1>2, <2>2, KeptTypes DEF ThreadTypes
      <3> QED
        BY <1>1, <1>2, <3>1, TypesByPart
    <2>3. CASE /\ turns' = m.turns
               /\ UNCHANGED <<lifecycle, generation, channel, promptVars, pump>>
               /\ busy' \in BOOLEAN /\ worker' \in WorkerTypes /\ DeliveryTypes'
      <3>1. SessionTypes' /\ PromptTypes' /\ ThreadTypes'
        BY <1>1, <1>2, <2>1, <2>3, KeptTypes DEF SessionTypes, ThreadTypes
      <3> QED
        BY <1>1, <1>2, <2>3, <3>1, TypesByPart
    <2>4. Answer(m) \in [Deliveries -> Results]
      BY <1>1, AnswerTypes
    <2>5. ASSUME result' = Answer(m), activeDelivery' \in {activeDelivery, Idle},
                 busy' = FALSE, UNCHANGED <<pendingDeliveries, worker>>
          PROVE  busy' \in BOOLEAN /\ worker' \in WorkerTypes /\ DeliveryTypes'
      BY <1>1, <2>4, <2>5 DEF DeliveryTypes
    <2>6. ASSUME pendingDeliveries # << >>, CanSend, result' = Answer(m),
                 Start(Head(pendingDeliveries), FALSE, m.turns),
                 pendingDeliveries' = Tail(pendingDeliveries)
          PROVE  busy' \in BOOLEAN /\ worker' \in WorkerTypes /\ DeliveryTypes'
      <3>1. Head(pendingDeliveries) \in Deliveries /\ Tail(pendingDeliveries) \in Seq(Deliveries)
        BY <1>1, <2>6
      <3>2. /\ worker' \in WorkerTypes /\ busy' = TRUE
            /\ activeDelivery' \in [delivery : Deliveries, generation : Nat, target : Nat \ {0}]
        BY <1>1, <2>1, <2>6, <3>1, StartTypes
      <3> QED
        BY <2>4, <2>6, <3>1, <3>2 DEF DeliveryTypes
    <2>7. ASSUME result' = [d \in Deliveries |->
                     IF d \in ToSet(pendingDeliveries) THEN "failed" ELSE Answer(m)[d]],
                 activeDelivery' = Idle, busy' = FALSE, pendingDeliveries' = << >>,
                 UNCHANGED worker
          PROVE  busy' \in BOOLEAN /\ worker' \in WorkerTypes /\ DeliveryTypes'
      <3>1. result' \in [Deliveries -> Results]
        BY <2>4, <2>7 DEF Results
      <3>2. << >> \in Seq(Deliveries)
        OBVIOUS
      <3> QED
        BY <1>1, <2>7, <3>1, <3>2 DEF DeliveryTypes
    <2>8. CASE /\ turns' = m.turns
               /\ UNCHANGED <<lifecycle, generation, channel, promptVars, pump>>
               /\ ~ UNCHANGED <<sessionVars, promptVars, deliveryVars, worker, pump>>
      <3> DEFINE stillActive == activeDelivery # Idle /\ ~ Settled(m)
      <3>1. CASE /\ result' = Answer(m)
                 /\ activeDelivery' = IF stillActive THEN activeDelivery ELSE Idle
                 /\ busy' = FALSE
                 /\ UNCHANGED <<pendingDeliveries, worker>>
        BY <2>3, <2>5, <2>8, <3>1
      <3>2. CASE /\ pendingDeliveries # << >> /\ CanSend
                 /\ result' = Answer(m)
                 /\ Start(Head(pendingDeliveries), FALSE, m.turns)
                 /\ pendingDeliveries' = Tail(pendingDeliveries)
        BY <2>3, <2>6, <2>8, <3>2
      <3>3. CASE /\ result' = [d \in Deliveries |->
                        IF d \in ToSet(pendingDeliveries) THEN "failed" ELSE Answer(m)[d]]
                 /\ activeDelivery' = Idle
                 /\ busy' = FALSE
                 /\ pendingDeliveries' = << >>
                 /\ UNCHANGED worker
        BY <2>3, <2>7, <2>8, <3>3
      <3> QED
        BY <1>5, <2>8, <3>1, <3>2, <3>3 DEF TurnCount
    <2> QED
      BY <1>5, <2>2, <2>8 DEF TurnCount
  <1> QED
    BY <1>3, <1>4, <1>5 DEF Receive, m

\* A step of a spawn thread, a worker or a pump.
LEMMA ThreadStepTypes ==
    ASSUME TypeOK, NEW c \in Channels, SpawnEnds(c) \/ TurnEnds(c) \/ Dies(c) \/ Pump(c)
    PROVE  TypeOK'
  <1>1. /\ steering \in BOOLEAN /\ SessionTypes /\ PromptTypes /\ DeliveryTypes
        /\ worker \in WorkerTypes /\ pump \in PumpTypes /\ inbox \in Seq(Messages)
        /\ worker[c].generation \in Nat /\ Len(worker[c].ended) \in Nat
        /\ pump[c].base \in Nat /\ worker[c].ended \in Seq(Outcomes)
    BY TypesByPart DEF ThreadTypes, WorkerTypes, WorkerType, PumpTypes
  <1>2. UNCHANGED <<steering, sessionVars, promptVars, deliveryVars>>
    BY DEF SpawnEnds, TurnEnds, Dies, Pump
  <1>3. \A p \in {"dead", "connected"} : [worker EXCEPT ![c].phase = p] \in WorkerTypes
    BY <1>1, WorkerSteps
  <1>4. ThreadTypes'
    <2>0. \A m \in Messages : Send(m) => inbox' \in Seq(Messages)
      BY <1>1 DEF Send
    <2>1. CASE SpawnEnds(c)
      <3>1. /\ [type |-> "Publish", channel |-> c] \in Messages
            /\ [type |-> "SpawnFailed", generation |-> worker[c].generation] \in Messages
        BY <1>1 DEF Messages
      <3>2. inbox' \in Seq(Messages)
        BY <2>0, <2>1, <3>1 DEF SpawnEnds
      <3> QED
        BY <1>1, <1>3, <2>1, <3>2 DEF SpawnEnds, ThreadTypes
    <2>2. CASE TurnEnds(c)
      <3>1. \A o \in StopReasons : [worker EXCEPT ![c].ended = Append(@, o)] \in WorkerTypes
        BY <1>1, WorkerSteps, StopReasonsAssumption DEF Outcomes
      <3> QED
        BY <1>1, <2>2, <3>1 DEF TurnEnds, ThreadTypes
    <2>3. CASE Dies(c)
      BY <1>1, <1>3, <2>3 DEF Dies, ThreadTypes
    <2>4. CASE Pump(c)
      <3>1. [pump EXCEPT ![c].phase = "stopped"] \in PumpTypes
        BY <1>1 DEF PumpTypes
      <3>2. [pump EXCEPT ![c].seen = Len(worker[c].ended)] \in PumpTypes
        BY <1>1 DEF PumpTypes
      <3>3. [type |-> "AgentDisconnected", generation |-> worker[c].generation] \in Messages
        BY <1>1 DEF Messages
      <3>4. \A o \in Outcomes :
                [type |-> "TurnCount", generation |-> worker[c].generation,
                 turns |-> pump[c].base + Len(worker[c].ended), outcome |-> o] \in Messages
        BY <1>1 DEF Messages
      <3>5. \A o \in {"Other"} \cup {worker[c].ended[n] :
                          n \in {pump[c].seen + 1} \cap {Len(worker[c].ended)}} : 
                Len(worker[c].ended) > pump[c].seen => o \in Outcomes
        BY <1>1 DEF Outcomes, PumpTypes
      <3>6. inbox' \in Seq(Messages)
        BY <1>1, <2>0, <2>4, <3>3, <3>4, <3>5 DEF Pump
      <3> QED
        BY <1>1, <1>3, <2>4, <3>1, <3>2, <3>6 DEF Pump, ThreadTypes
    <2> QED
      BY <2>1, <2>2, <2>3, <2>4
  <1>5. SessionTypes' /\ PromptTypes' /\ DeliveryTypes'
    BY <1>1, <1>2, KeptTypes
  <1> QED
    BY <1>1, <1>2, <1>4, <1>5, TypesByPart

\* Every command, message and thread keeps the types.
LEMMA TypeStep ==
    ASSUME TypeOK, [Next]_vars
    PROVE  TypeOK'
  <1>1. CASE UNCHANGED vars
    BY <1>1 DEF vars, TypeOK, sessionVars, promptVars, deliveryVars
  <1>2. CASE Prompt \/ Steer
    <2>1. steering \in BOOLEAN
      BY TypesByPart
    <2> QED
      BY <1>2, <2>1, AdmitTypes DEF Prompt, Steer
  <1>3. CASE \E d \in Deliveries : CogDelivery(d)
    BY <1>3, CogDeliveryTypes
  <1>4. CASE Cancel \/ Restart \/ Archive \/ Unarchive \/ Close
    BY <1>4, ControlTypes
  <1>5. CASE Receive
    BY <1>5, ReceiveTypes
  <1>6. CASE \E c \in Channels : SpawnEnds(c) \/ TurnEnds(c) \/ Dies(c) \/ Pump(c)
    BY <1>6, ThreadStepTypes
  <1> QED
    BY <1>1, <1>2, <1>3, <1>4, <1>5, <1>6 DEF Next

\* The types always hold, and a session holds a transport exactly while it is live.
THEOREM LifecycleTypes == Spec => []TypeOK
  <1>1. Init => TypeOK
    BY InitTypes
  <1>2. TypeOK /\ [Next]_vars => TypeOK'
    BY TypeStep
  <1> QED
    BY <1>1, <1>2, PTL DEF Spec

(***************************************************************************)
(* The queue of prompts.                                                   *)
(***************************************************************************)

\* Once every queued prompt has its answer the queue may be dropped
\* (handle_spawn_failed, do_cancel, do_set_archived, do_close).
LEMMA FinishEmpties ==
    ASSUME NEW f \in [Prompts -> Fates], NEW outcome \in Fates \ {"queued"},
           {p \in Prompts : f[p] = "queued"} \subseteq ToSet(pendingPrompts),
           fate' = Finished(f, outcome), pendingPrompts' = << >>
    PROVE  QueueWaitsForAChannel'
  <1>1. \A p \in Prompts : fate'[p] # "queued"
    BY DEF Finished
  <1>2. ToSet(pendingPrompts') = {}
    BY DEF ToSet
  <1> QED
    BY <1>1, <1>2 DEF QueueWaitsForAChannel

\* The queue and what the submitters believe stay one thing.
LEMMA QueueStep ==
    ASSUME TypeOK, QueueWaitsForAChannel, [Next]_vars
    PROVE  QueueWaitsForAChannel'
  <1>1. /\ SessionTypes /\ pendingPrompts \in Seq(Prompts) /\ fate \in [Prompts -> Fates]
        /\ inbox \in Seq(Messages)
    BY TypesByPart DEF PromptTypes, ThreadTypes
  <1>2. {p \in Prompts : fate[p] = "queued"} = ToSet(pendingPrompts)
    BY DEF QueueWaitsForAChannel
  <1>3. ASSUME UNCHANGED promptVars,
               \/ lifecycle' \in {"Spawning", "Restarting"}
               \/ /\ UNCHANGED lifecycle
                  /\ lifecycle = "Archived" /\ NothingStarted => NothingStarted'
        PROVE  QueueWaitsForAChannel'
    BY <1>3 DEF QueueWaitsForAChannel, promptVars
  <1>4. CASE UNCHANGED vars
    BY <1>3, <1>4 DEF vars, sessionVars, NothingStarted
  <1>5. ASSUME NEW p \in Prompts, NEW steer \in BOOLEAN, Admit(p, steer)
        PROVE  QueueWaitsForAChannel'
    <2>1. fate[p] = "unsent"
      BY <1>5 DEF Admit, Fresh
    <2>2. CASE /\ lifecycle = "Live"
               /\ fate' = [fate EXCEPT ![p] = "delivered"]
               /\ UNCHANGED <<lifecycle, channel, pendingPrompts, deliveryVars>>
      <3>1. {q \in Prompts : fate'[q] = "queued"} = {q \in Prompts : fate[q] = "queued"}
        BY <1>1, <2>1, <2>2
      <3> QED
        BY <2>2, <3>1 DEF QueueWaitsForAChannel
    <2>3. CASE /\ lifecycle \in {"Spawning", "Restarting"}
               /\ pendingPrompts' = Append(pendingPrompts, p)
               /\ fate' = [fate EXCEPT ![p] = "queued"]
               /\ UNCHANGED lifecycle
      <3>1. {q \in Prompts : fate'[q] = "queued"} = {q \in Prompts : fate[q] = "queued"} \cup {p}
        BY <1>1, <2>1, <2>3
      <3>2. ToSet(pendingPrompts') = ToSet(pendingPrompts) \cup {p}
        BY <1>1, <2>3, AppendElements
      <3> QED
        BY <1>2, <2>3, <3>1, <3>2 DEF QueueWaitsForAChannel
    <2>4. CASE Terminalize([fate EXCEPT ![p] = "rejected"])
      <3> DEFINE f == [fate EXCEPT ![p] = "rejected"]
      <3>1. f \in [Prompts -> Fates] /\ {q \in Prompts : f[q] = "queued"} \subseteq ToSet(pendingPrompts)
        BY <1>1, <1>2 DEF Fates
      <3>2. fate' = Finished(f, "rejected") /\ pendingPrompts' = << >>
        BY <2>4 DEF Terminalize
      <3> HIDE DEF f
      <3> QED
        BY <3>1, <3>2, FinishEmpties DEF Fates
    <2> QED
      BY <1>5, <2>2, <2>3, <2>4 DEF Admit
  <1>6. CASE Prompt \/ Steer
    <2>1. steering \in BOOLEAN
      BY TypesByPart
    <2> QED
      BY <1>5, <1>6, <2>1 DEF Prompt, Steer
  <1>7. CASE \E d \in Deliveries : CogDelivery(d)
    <2>1. UNCHANGED <<lifecycle, promptVars>> /\ (lifecycle = "Archived" => UNCHANGED worker)
      BY <1>7 DEF CogDelivery
    <2>2. UNCHANGED <<inbox, pump>>
      BY <1>7 DEF CogDelivery
    <2> QED
      BY <1>3, <2>1, <2>2 DEF NothingStarted
  <1>8. CASE Cancel
    <2>1. CASE fate' = Finished(fate, "cancelled") /\ pendingPrompts' = << >>
      BY <1>1, <1>2, <2>1, FinishEmpties DEF Fates
    <2>2. CASE UNCHANGED promptVars
      BY <1>3, <1>8, <2>2 DEF Cancel, NothingStarted
    <2> QED
      BY <1>8, <2>1, <2>2 DEF Cancel
  <1>9. CASE Restart \/ Unarchive
    BY <1>3, <1>9 DEF Restart, Unarchive
  <1>10. CASE Archive \/ Close
    <2>1. \E outcome \in {"cancelled", "closed"} :
              fate' = Finished(fate, outcome) /\ pendingPrompts' = << >>
      BY <1>10 DEF Archive, Close
    <2> QED
      BY <1>1, <1>2, <2>1, FinishEmpties DEF Fates
  <1>11. CASE Receive
    <2> DEFINE m == Head(inbox)
    <2>0. ~ NothingStarted
      BY <1>11 DEF Receive, NothingStarted
    <2>1. ASSUME NEW c, NEW k \in 0 .. Len(pendingPrompts), Flush(c, k)
          PROVE  QueueWaitsForAChannel'
      <3>1. \A p \in Prompts : fate'[p] # "queued"
        BY <1>2, <2>1 DEF Flush, FlushedFates
      <3>2. pendingPrompts' = << >> /\ ToSet(<< >>) = {}
        BY <2>1 DEF Flush, ToSet
      <3> QED
        BY <3>1, <3>2 DEF QueueWaitsForAChannel
    <2>2. CASE Publish(m.channel)
      <3>1. CASE UNCHANGED <<sessionVars, promptVars, deliveryVars, pump>>
        BY <1>3, <2>0, <3>1 DEF sessionVars
      <3> QED
        BY <2>1, <2>2, <3>1 DEF Publish
    <2>3. CASE LostAgent(m.generation)
      <3>1. CASE UNCHANGED <<sessionVars, promptVars, deliveryVars>>
        BY <1>3, <2>0, <3>1 DEF sessionVars
      <3>2. CASE Terminalize(fate)
        <4>1. fate' = Finished(fate, "rejected") /\ pendingPrompts' = << >>
          BY <3>2 DEF Terminalize
        <4> QED
          BY <1>1, <1>2, <4>1, FinishEmpties DEF Fates
      <3> QED
        BY <2>3, <3>1, <3>2 DEF LostAgent
    <2>4. CASE TurnCount(m)
      <3>1. UNCHANGED <<lifecycle, promptVars>>
        BY <2>4 DEF TurnCount, sessionVars
      <3> QED
        BY <1>3, <2>0, <3>1
    <2> QED
      BY <1>11, <2>2, <2>3, <2>4 DEF Receive
  <1>12. CASE \E c \in Channels : SpawnEnds(c) \/ TurnEnds(c) \/ Dies(c) \/ Pump(c)
    <2>1. UNCHANGED <<sessionVars, promptVars>>
      BY <1>12 DEF SpawnEnds, TurnEnds, Dies, Pump
    <2>2. ~ NothingStarted
      BY <1>12 DEF SpawnEnds, TurnEnds, Dies, Pump, NothingStarted, Unstarted, NoPump
    <2> QED
      BY <1>3, <2>1, <2>2 DEF sessionVars
  <1> QED
    BY <1>4, <1>6, <1>7, <1>8, <1>9, <1>10, <1>11, <1>12 DEF Next

\* "Every deferred prompt receives an explicit rejection": a prompt its submitter
\* believes queued is in the queue, which exists only while a channel is on its way, or
\* in cold storage as recovery found it, before anything was started.
THEOREM QueuedPromptsAreWaiting == Spec => []QueueWaitsForAChannel
  <1>1. Init => QueueWaitsForAChannel
    <2> SUFFICES ASSUME Init
                 PROVE  QueueWaitsForAChannel
      OBVIOUS
    <2>1. PICK n \in 0 .. MaxRecovered : pendingPrompts = [i \in 1 .. n |-> i]
      BY DEF Init
    <2>2. Len(pendingPrompts) = n /\ DOMAIN pendingPrompts = 1 .. n
      BY <2>1
    <2>3. fate = [p \in Prompts |-> IF p <= n THEN "queued" ELSE "unsent"]
      BY <2>2 DEF Init
    <2>4. ToSet(pendingPrompts) = 1 .. n
      BY <2>1, <2>2 DEF ToSet
    <2>5. {p \in Prompts : fate[p] = "queued"} = 1 .. n
      BY <2>3, PromptsAssumption DEF Prompts
    <2>6. lifecycle = "Spawning" \/ (lifecycle = "Archived" /\ NothingStarted)
      BY DEF Init, NothingStarted
    <2> QED
      BY <2>4, <2>5, <2>6 DEF QueueWaitsForAChannel
  <1>2. TypeOK /\ QueueWaitsForAChannel /\ [Next]_vars => QueueWaitsForAChannel'
    BY QueueStep
  <1> QED
    BY <1>1, <1>2, LifecycleTypes, PTL DEF Spec

(***************************************************************************)
(* The deliveries.                                                         *)
(***************************************************************************)

\* Each unanswered delivery is in one place: active, or once in the queue.
DeliveryInv ==
    /\ DeliveriesAccounted
    /\ Distinct(pendingDeliveries)
    /\ activeDelivery.delivery \notin ToSet(pendingDeliveries)

Waiting == {d \in Deliveries : result[d] = "waiting"}

\* The active delivery is a delivery, unless there is none (ActiveProviderDelivery).
LEMMA ActiveFields ==
    ASSUME DeliveryTypes
    PROVE  /\ Idle.delivery = NoDelivery /\ NoDelivery \notin Deliveries
           /\ activeDelivery # Idle => activeDelivery.delivery \in Deliveries
           /\ ToSet(pendingDeliveries) \subseteq Deliveries
  <1>1. Idle.delivery = NoDelivery /\ NoDelivery \notin Deliveries
    BY BoundsAssumption DEF Idle, NoDelivery, Deliveries
  <1>2. activeDelivery # Idle => activeDelivery.delivery \in Deliveries
    BY DEF DeliveryTypes
  <1>3. ToSet(pendingDeliveries) \subseteq Deliveries
    BY DEF DeliveryTypes, ToSet
  <1> QED
    BY <1>1, <1>2, <1>3

\* fail_provider_deliveries answers all of them.
LEMMA FailAnswersAll ==
    ASSUME DeliveryTypes, DeliveryInv, FailDeliveries
    PROVE  DeliveryInv'
  <1>1. \A d \in Deliveries : result'[d] # "waiting"
    BY ActiveFields DEF DeliveryTypes, DeliveryInv, DeliveriesAccounted, FailDeliveries, Results
  <1>2. activeDelivery' = Idle /\ pendingDeliveries' = << >> /\ ToSet(<< >>) = {}
    BY DEF FailDeliveries, ToSet
  <1>3. Distinct(<< >>)
    BY DEF Distinct
  <1> QED
    BY <1>1, <1>2, <1>3 DEF DeliveryInv, DeliveriesAccounted, Idle

\* What is neither started nor answered stays where it is.
LEMMA DeliveriesKept ==
    ASSUME DeliveryInv, UNCHANGED deliveryVars,
           activeDelivery # Idle => lifecycle' = "Live" /\ generation' = generation
    PROVE  DeliveryInv'
  BY DEF DeliveryInv, DeliveriesAccounted, deliveryVars

\* A started delivery is active, in the session's generation.
LEMMA StartedIsActive ==
    ASSUME NEW d \in Deliveries, NEW steer, NEW t, SessionTypes,
           CanSend, Start(d, steer, t), UNCHANGED <<lifecycle, generation>>
    PROVE  /\ activeDelivery'.delivery = d
           /\ lifecycle' = "Live" /\ activeDelivery'.generation = generation'
  BY DEF Start, SessionTypes, CanSend

\* A Cog delivery is started, queued or refused (do_cog_delivery).
LEMMA CogDeliveryKeeps ==
    ASSUME TypeOK, DeliveryInv, NEW d \in Deliveries, CogDelivery(d)
    PROVE  DeliveryInv'
  <1>1. /\ SessionTypes /\ DeliveryTypes /\ pendingDeliveries \in Seq(Deliveries)
        /\ result \in [Deliveries -> Results]
    BY TypesByPart DEF DeliveryTypes
  <1>2. result[d] = "unsent" /\ UNCHANGED <<lifecycle, generation>>
    BY DEF CogDelivery, NewDelivery
  <1>3. /\ Waiting = ToSet(pendingDeliveries) \cup ({activeDelivery.delivery} \ {NoDelivery})
        /\ d \notin Waiting
    BY <1>2 DEF DeliveryInv, DeliveriesAccounted, Waiting
  <1>4. d # NoDelivery /\ d \notin ToSet(pendingDeliveries) /\ d # activeDelivery.delivery
    BY <1>1, <1>3, ActiveFields
  <1>5. CASE /\ lifecycle = "Live" /\ MustWait
             /\ pendingDeliveries' = Append(pendingDeliveries, d)
             /\ result' = [result EXCEPT ![d] = "waiting"]
             /\ UNCHANGED <<busy, activeDelivery, worker>>
    <2>1. Waiting' = Waiting \cup {d}
      BY <1>1, <1>5 DEF Waiting
    <2>2. /\ ToSet(pendingDeliveries') = ToSet(pendingDeliveries) \cup {d}
          /\ Distinct(pendingDeliveries')
      BY <1>1, <1>4, <1>5, AppendElements DEF DeliveryInv
    <2> QED
      BY <1>2, <1>3, <1>4, <1>5, <2>1, <2>2 DEF DeliveryInv, DeliveriesAccounted, Waiting
  <1>6. CASE /\ ~ MustWait /\ CanSend
             /\ Start(d, SteerNow, turns)
             /\ result' = [result EXCEPT ![d] = "waiting"]
             /\ UNCHANGED pendingDeliveries
    <2>1. Waiting' = Waiting \cup {d}
      BY <1>1, <1>6 DEF Waiting
    <2>2. activeDelivery = Idle
      BY <1>6 DEF MustWait
    <2>3. /\ activeDelivery'.delivery = d
          /\ lifecycle' = "Live" /\ activeDelivery'.generation = generation'
      BY <1>1, <1>2, <1>6, StartedIsActive
    <2> QED
      BY <1>1, <1>3, <1>4, <1>6, <2>1, <2>2, <2>3, ActiveFields
         DEF DeliveryInv, DeliveriesAccounted, Waiting
  <1>7. CASE /\ result' = [result EXCEPT ![d] = "failed"]
             /\ UNCHANGED <<busy, activeDelivery, pendingDeliveries, worker>>
    <2>1. Waiting' = Waiting
      BY <1>1, <1>2, <1>7 DEF Waiting
    <2> QED
      BY <1>2, <1>7, <2>1 DEF DeliveryInv, DeliveriesAccounted, Waiting
  <1> QED
    BY <1>5, <1>6, <1>7 DEF CogDelivery

\* A turn's end answers the delivery it carried and starts the next one.
LEMMA TurnCountKeeps ==
    ASSUME TypeOK, DeliveryInv, NEW m, TurnCount(m)
    PROVE  DeliveryInv'
  <1>1. /\ SessionTypes /\ DeliveryTypes /\ pendingDeliveries \in Seq(Deliveries)
        /\ result \in [Deliveries -> Results]
    BY TypesByPart DEF DeliveryTypes
  <1>2. UNCHANGED <<lifecycle, generation>>
    BY DEF TurnCount, sessionVars
  <1>3. CASE UNCHANGED <<sessionVars, promptVars, deliveryVars, worker, pump>>
    BY <1>2, <1>3, DeliveriesKept DEF DeliveryInv, DeliveriesAccounted
  <1> DEFINE stillActive == activeDelivery # Idle /\ ~ Settled(m)
             left == IF stillActive THEN activeDelivery ELSE Idle
  <1>4. Waiting = ToSet(pendingDeliveries) \cup ({activeDelivery.delivery} \ {NoDelivery})
    BY DEF DeliveryInv, DeliveriesAccounted, Waiting
  <1>5. {d \in Deliveries : Answer(m)[d] = "waiting"}
            = ToSet(pendingDeliveries) \cup ({left.delivery} \ {NoDelivery})
    <2>1. CASE Settled(m)
      <3>1. activeDelivery.delivery \in Deliveries /\ left = Idle
        BY <1>1, <2>1, ActiveFields DEF Settled
      <3>2. {d \in Deliveries : Answer(m)[d] = "waiting"} = Waiting \ {activeDelivery.delivery}
        BY <1>1, <2>1, <3>1 DEF Answer, Waiting
      <3> QED
        BY <1>1, <1>4, <3>1, <3>2, ActiveFields DEF DeliveryInv
    <2>2. CASE ~ Settled(m)
      <3>1. left = activeDelivery /\ Answer(m) = result
        BY <2>2 DEF Answer
      <3> QED
        BY <1>4, <3>1 DEF Waiting
    <2> QED
      BY <2>1, <2>2
  <1>6. left.delivery \notin ToSet(pendingDeliveries)
    BY <1>1, ActiveFields DEF DeliveryInv
  <1>7. CASE /\ result' = Answer(m)
             /\ activeDelivery' = left
             /\ UNCHANGED <<pendingDeliveries, worker>>
    <2>1. activeDelivery' # Idle => activeDelivery' = activeDelivery
      BY <1>7
    <2> QED
      BY <1>2, <1>5, <1>6, <1>7, <2>1 DEF DeliveryInv, DeliveriesAccounted
  <1>8. CASE /\ ~ stillActive /\ pendingDeliveries # << >> /\ CanSend
             /\ result' = Answer(m)
             /\ Start(Head(pendingDeliveries), FALSE, m.turns)
             /\ pendingDeliveries' = Tail(pendingDeliveries)
    <2> DEFINE d == Head(pendingDeliveries)
    <2>1. d \in Deliveries
      BY <1>1, <1>8
    <2>2. /\ activeDelivery'.delivery = d
          /\ lifecycle' = "Live" /\ activeDelivery'.generation = generation'
      BY <1>1, <1>2, <1>8, <2>1, StartedIsActive
    <2>3. /\ ToSet(pendingDeliveries) = ToSet(pendingDeliveries') \cup {d}
          /\ Distinct(pendingDeliveries') /\ d \notin ToSet(pendingDeliveries')
      BY <1>1, <1>8, TailElements DEF DeliveryInv
    <2> HIDE DEF d
    <2>4. left.delivery = NoDelivery /\ d # NoDelivery
      BY <1>1, <1>8, <2>1, ActiveFields
    <2> QED
      BY <1>5, <1>8, <2>2, <2>3, <2>4 DEF DeliveryInv, DeliveriesAccounted
  <1>9. CASE /\ ~ stillActive
             /\ result' = [d \in Deliveries |->
                    IF d \in ToSet(pendingDeliveries) THEN "failed" ELSE Answer(m)[d]]
             /\ activeDelivery' = Idle
             /\ pendingDeliveries' = << >>
    <2>1. left.delivery = NoDelivery
      BY <1>1, <1>9, ActiveFields
    <2>2. \A d \in Deliveries : result'[d] # "waiting"
      BY <1>5, <1>9, <2>1
    <2>3. ToSet(<< >>) = {} /\ Distinct(<< >>)
      BY DEF ToSet, Distinct
    <2> QED
      BY <1>1, <1>9, <2>2, <2>3, ActiveFields DEF DeliveryInv, DeliveriesAccounted
  <1> QED
    BY <1>3, <1>7, <1>8, <1>9 DEF TurnCount

\* Every step keeps the deliveries accounted for.
LEMMA DeliveryStep ==
    ASSUME TypeOK, DeliveryInv, [Next]_vars
    PROVE  DeliveryInv'
  <1>1. SessionTypes /\ DeliveryTypes /\ result \in [Deliveries -> Results]
    BY TypesByPart DEF DeliveryTypes
  <1>2. activeDelivery # Idle => lifecycle = "Live"
    BY DEF DeliveryInv, DeliveriesAccounted
  <1>3. CASE UNCHANGED vars
    BY <1>2, <1>3, DeliveriesKept DEF vars, sessionVars, deliveryVars
  <1>4. CASE Prompt \/ Steer
    <2>1. PICK p \in Prompts, steer \in {FALSE, steering} : Admit(p, steer)
      BY <1>4 DEF Prompt, Steer
    <2>2. CASE UNCHANGED <<lifecycle, deliveryVars>>
      BY <1>2, <2>1, <2>2, DeliveriesKept DEF Admit
    <2>3. CASE FailDeliveries
      BY <1>1, <2>3, FailAnswersAll
    <2> QED
      BY <2>1, <2>2, <2>3 DEF Admit, Terminalize
  <1>5. CASE \E d \in Deliveries : CogDelivery(d)
    BY <1>5, CogDeliveryKeeps
  <1>6. CASE Cancel
    <2>1. Waiting' = Waiting \ {activeDelivery.delivery}
      BY <1>1, <1>6 DEF Cancel, Waiting
    <2>2. activeDelivery' = Idle /\ UNCHANGED pendingDeliveries
      BY <1>6 DEF Cancel
    <2> QED
      BY <1>1, <2>1, <2>2, ActiveFields DEF DeliveryInv, DeliveriesAccounted, Waiting
  <1>7. CASE Restart \/ Archive \/ Close
    BY <1>1, <1>7, FailAnswersAll DEF Restart, Archive, Close
  <1>8. CASE Unarchive
    BY <1>2, <1>8, DeliveriesKept DEF Unarchive
  <1>9. CASE Receive
    <2>1. PICK m : \/ Publish(m.channel)
                   \/ LostAgent(m.generation)
                   \/ TurnCount(m)
      BY <1>9 DEF Receive
    <2>2. CASE Publish(m.channel)
      BY <1>2, <2>2, DeliveriesKept DEF Publish, sessionVars
    <2>3. CASE LostAgent(m.generation)
      <3>1. CASE UNCHANGED <<sessionVars, promptVars, deliveryVars>>
        BY <1>2, <3>1, DeliveriesKept DEF sessionVars
      <3>2. CASE FailDeliveries
        BY <1>1, <3>2, FailAnswersAll
      <3> QED
        BY <2>3, <3>1, <3>2 DEF LostAgent, Terminalize
    <2> QED
      BY <2>1, <2>2, <2>3, TurnCountKeeps
  <1>10. CASE \E c \in Channels : SpawnEnds(c) \/ TurnEnds(c) \/ Dies(c) \/ Pump(c)
    <2>1. UNCHANGED <<sessionVars, deliveryVars>>
      BY <1>10 DEF SpawnEnds, TurnEnds, Dies, Pump
    <2> QED
      BY <1>2, <2>1, DeliveriesKept DEF sessionVars
  <1> QED
    BY <1>3, <1>4, <1>5, <1>6, <1>7, <1>8, <1>9, <1>10 DEF Next

\* No delivery is forgotten, and none is in two places.
LEMMA DeliveriesInv == Spec => []DeliveryInv
  <1>1. Init => DeliveryInv
    <2> SUFFICES ASSUME Init
                 PROVE  DeliveryInv
      OBVIOUS
    <2>1. ToSet(<< >>) = {} /\ Distinct(<< >>)
      BY DEF ToSet, Distinct
    <2> QED
      BY <2>1 DEF Init, DeliveryInv, DeliveriesAccounted, Idle
  <1>2. TypeOK /\ DeliveryInv /\ [Next]_vars => DeliveryInv'
    BY DeliveryStep
  <1> QED
    BY <1>1, <1>2, LifecycleTypes, PTL DEF Spec

\* An unanswered delivery is the active one, of the live channel's generation, or it
\* waits for its turn (do_cog_delivery, start_next_provider_delivery).
THEOREM DeliveriesAreAccounted == Spec => []DeliveriesAccounted
  <1>1. DeliveryInv => DeliveriesAccounted
    BY DEF DeliveryInv
  <1> QED
    BY <1>1, DeliveriesInv, PTL

\* What a worker is handed by anyone but a delivery: nothing, or prompts.
HandsNoDelivery(c) ==
    LET before == worker[c].handed
        after == worker'[c].handed
    IN  Len(after) > Len(before) => after[Len(after)].kind # "delivery"

\* Only a command or a message hands a worker a delivery, and only when the one before
\* it is answered (send_payload and its callers).
LEMMA TurnsAreTaken ==
    ASSUME TypeOK, [Next]_vars, NEW c \in Channels
    PROVE  \/ HandsNoDelivery(c)
           \/ activeDelivery = Idle
           \/ result'[activeDelivery.delivery] # "waiting"
  <1>1. /\ SessionTypes /\ DeliveryTypes /\ worker \in WorkerTypes
        /\ result \in [Deliveries -> Results] /\ pendingPrompts \in Seq(Prompts)
        /\ worker[c].handed \in Seq(Items) /\ Len(worker[c].handed) \in Nat
    BY TypesByPart DEF DeliveryTypes, PromptTypes, ThreadTypes, WorkerTypes, WorkerType
  <1>2. worker'[c].handed = worker[c].handed => HandsNoDelivery(c)
    BY <1>1 DEF HandsNoDelivery
  <1>3. CASE UNCHANGED worker
    BY <1>2, <1>3
  <1>4. ASSUME NEW b \in Channels, NEW g, worker' = [worker EXCEPT ![b] = Started(g)]
        PROVE  HandsNoDelivery(c)
    <2>1. CASE b = c
      <3>1. worker'[c].handed = << >> /\ Len(<< >>) = 0
        BY <1>1, <1>4, <2>1 DEF WorkerTypes, Started
      <3> QED
        BY <1>1, <3>1 DEF HandsNoDelivery
    <2>2. CASE b # c
      BY <1>1, <1>2, <1>4, <2>2 DEF WorkerTypes
    <2> QED
      BY <2>1, <2>2
  <1>5. ASSUME NEW b \in Channels, NEW f,
               \/ worker' = [worker EXCEPT ![b].phase = f]
               \/ worker' = [worker EXCEPT ![b].ended = f]
        PROVE  HandsNoDelivery(c)
    BY <1>1, <1>2, <1>5 DEF WorkerTypes, WorkerType
  <1>6. CASE Prompt \/ Steer
    <2>1. PICK p \in Prompts, steer \in {FALSE, steering} : Admit(p, steer)
      BY <1>6 DEF Prompt, Steer
    <2>2. CASE worker' = [worker EXCEPT ![channel].handed = Append(@, PromptItem(p, steer))]
      <3>1. \/ worker'[c].handed = worker[c].handed
            \/ worker'[c].handed = Append(worker[c].handed, PromptItem(p, steer))
        BY <1>1, <2>2 DEF WorkerTypes, WorkerType
      <3>2. \A e : \A s \in Seq(Items) :
                Append(s, e)[Len(Append(s, e))] = e
        OBVIOUS
      <3>3. PromptItem(p, steer).kind = "prompt"
        BY DEF PromptItem
      <3> QED
        BY <1>1, <1>2, <3>1, <3>2, <3>3 DEF HandsNoDelivery
    <2> QED
      BY <1>3, <2>1, <2>2 DEF Admit
  <1>7. CASE \E d \in Deliveries : CogDelivery(d)
    BY <1>3, <1>7 DEF CogDelivery, MustWait
  <1>8. CASE Cancel \/ Archive \/ Close
    BY <1>3, <1>8 DEF Cancel, Archive, Close
  <1>9. CASE Restart \/ Unarchive
    BY <1>4, <1>9 DEF Restart, Unarchive
  <1>10. CASE Receive
    <2>1. PICK m : \/ Publish(m.channel) /\ m.channel \in Channels
                   \/ LostAgent(m.generation)
                   \/ TurnCount(m)
      <3>1. Head(inbox) \in Messages
        BY <1>10, TypesByPart DEF Receive, ThreadTypes
      <3> QED
        BY <1>10, <3>1, MessageFields DEF Receive
    <2>2. CASE Publish(m.channel) /\ m.channel \in Channels
      <3> DEFINE b == m.channel
      <3>1. ASSUME NEW k \in 0 .. Len(pendingPrompts), Flush(b, k)
            PROVE  HandsNoDelivery(c)
        <4> DEFINE t == FirstItems(pendingPrompts, k)
        <4>1. \/ worker'[c].handed = worker[c].handed
              \/ worker'[c].handed = worker[c].handed \o t
          BY <1>1, <2>2, <3>1 DEF Flush, HandOver, WorkerTypes, WorkerType
        <4>2. k \in Nat /\ t \in Seq(Items) /\ Len(t) = k
          <5>1. k \in Nat /\ \A i \in 1 .. k : pendingPrompts[i] \in Prompts
            BY <1>1, <3>1
          <5>2. \A i \in 1 .. k : PromptItem(pendingPrompts[i], FALSE) \in Items
            BY <5>1, PromptsAssumption DEF Prompts, PromptItem, Items
          <5>3. FirstItems(pendingPrompts, k) \in [1 .. k -> Items]
            BY <5>2 DEF FirstItems
          <5> QED
            BY <5>1, <5>3, SeqDef
        <4>3. \A i \in 1 .. k : t[i].kind = "prompt"
          BY DEF FirstItems, PromptItem
        <4> HIDE DEF t
        <4> DEFINE s == worker[c].handed
        <4>4. s \in Seq(Items) /\ Len(s) \in Nat
          BY <1>1
        <4> HIDE DEF s
        <4>5. /\ Len(s \o t) = Len(s) + k
              /\ k > 0 => (s \o t)[Len(s) + k] = t[k]
          BY <4>2, <4>4
        <4>6. HandsNoDelivery(c) <=>
                  (Len(worker'[c].handed) > Len(s) =>
                       worker'[c].handed[Len(worker'[c].handed)].kind # "delivery")
          BY DEF HandsNoDelivery, s
        <4>7. worker'[c].handed = s \/ worker'[c].handed = s \o t
          BY <4>1 DEF s
        <4> QED
          BY <4>2, <4>3, <4>4, <4>5, <4>6, <4>7
      <3> HIDE DEF b
      <3> QED
        BY <1>5, <2>2, <3>1 DEF Publish, b
    <2>3. CASE LostAgent(m.generation)
      BY <1>3, <2>3 DEF LostAgent
    <2>4. CASE TurnCount(m)
      <3>1. CASE UNCHANGED worker
        BY <1>3, <3>1
      <3>2. CASE /\ ~ (activeDelivery # Idle /\ ~ Settled(m))
                 /\ result' = Answer(m)
        <4>1. CASE Settled(m)
          <5>1. activeDelivery.delivery \in Deliveries
            BY <1>1, <4>1, ActiveFields DEF Settled
          <5> QED
            BY <1>1, <3>2, <4>1, <5>1 DEF Answer
        <4> QED
          BY <3>2, <4>1
      <3> QED
        BY <2>4, <3>1, <3>2 DEF TurnCount
    <2> QED
      BY <2>1, <2>2, <2>3, <2>4
  <1>11. CASE \E b \in Channels : SpawnEnds(b) \/ TurnEnds(b) \/ Dies(b) \/ Pump(b)
    BY <1>3, <1>5, <1>11 DEF SpawnEnds, TurnEnds, Dies, Pump
  <1>12. CASE UNCHANGED vars
    BY <1>3, <1>12 DEF vars
  <1> QED
    BY <1>6, <1>7, <1>8, <1>9, <1>10, <1>11, <1>12 DEF Next

\* Between the start of a delivery and its answer no other one is handed over.
THEOREM DeliveriesTakeTurns == Spec => OneDeliveryAtATime
  <1>1. TypeOK /\ [Next]_vars =>
            [\A c \in Channels :
                LET before == worker[c].handed
                    after == worker'[c].handed
                IN  /\ Len(after) > Len(before)
                    /\ after[Len(after)].kind = "delivery"
                    => activeDelivery = Idle \/ result'[activeDelivery.delivery] # "waiting"]_vars
    BY TurnsAreTaken DEF HandsNoDelivery
  <1> QED
    BY <1>1, LifecycleTypes, PTL DEF Spec, OneDeliveryAtATime

(***************************************************************************)
(* The fence of an archive.                                                *)
(***************************************************************************)

Counts == {m \in ToSet(inbox) : m.type = "TurnCount"}

Alive == {"spawning", "connected"}

\* No channel, and no turn under way to the actor, is of a generation to come; and
\* of an archived session's own generation there is none alive.
FenceInv ==
    /\ \A c \in Channels :
          /\ worker[c].generation <= generation
          /\ lifecycle = "Archived" /\ worker[c].phase \in Alive =>
                worker[c].generation < generation
    /\ \A m \in Counts :
          /\ m.generation <= generation
          /\ lifecycle = "Archived" => m.generation < generation

\* A step that neither moves the generation nor archives keeps the fence, if what it
\* starts or sends respects it.
LEMMA FenceKept ==
    ASSUME TypeOK, FenceInv,
           generation' = generation, lifecycle' = "Archived" => lifecycle = "Archived",
           \A c \in Channels :
               \/ /\ worker'[c].generation = worker[c].generation
                  /\ worker'[c].phase \in Alive => worker[c].phase \in Alive
               \/ /\ worker'[c].generation = generation
                  /\ lifecycle' # "Archived",
           \A m \in Counts' : m \in Counts \/ /\ m.generation <= generation
                                              /\ lifecycle' = "Archived" =>
                                                     m.generation < generation
    PROVE  FenceInv'
  <1>1. generation \in Nat
    BY DEF TypeOK
  <1> QED
    BY <1>1 DEF FenceInv

\* Every step respects the fence; an archive and a restart leave all that is under
\* way behind it (channel_generation).
LEMMA FenceStep ==
    ASSUME TypeOK, FenceInv, [Next]_vars
    PROVE  FenceInv'
  <1>1. /\ SessionTypes /\ generation \in Nat /\ generation + 1 \in Nat
        /\ worker \in WorkerTypes /\ inbox \in Seq(Messages)
        /\ \A c \in Channels : worker[c].generation \in Nat
        /\ \A m \in Counts : m.generation \in Nat
    <2>1. \A m \in ToSet(inbox) : m \in Messages
      BY TypesByPart DEF ThreadTypes, ToSet
    <2>2. \A m \in Counts : m.generation \in Nat
      BY <2>1, MessageFields DEF Counts
    <2> QED
      BY <2>2, TypesByPart DEF ThreadTypes, SessionTypes, WorkerTypes, WorkerType
  <1>2. \A c \in Channels : worker[c].generation <= generation
    BY DEF FenceInv
  <1>3. ASSUME UNCHANGED <<generation, worker, inbox>>,
               lifecycle' = "Archived" => lifecycle = "Archived"
        PROVE  FenceInv'
    BY <1>3, FenceKept DEF Counts
  <1>4. CASE UNCHANGED vars
    BY <1>3, <1>4 DEF vars, sessionVars
  <1>5. ASSUME NEW b \in Channels, NEW item, UNCHANGED <<generation, inbox>>,
               lifecycle' = "Archived" => lifecycle = "Archived",
               worker' = [worker EXCEPT ![b].handed = item]
        PROVE  FenceInv'
    <2>1. \A c \in Channels : /\ worker'[c].phase = worker[c].phase
                              /\ worker'[c].generation = worker[c].generation
      BY <1>1, <1>5 DEF WorkerTypes, WorkerType
    <2> QED
      BY <1>5, <2>1, FenceKept DEF Counts
  <1>6. CASE Prompt \/ Steer
    <2>1. PICK p \in Prompts, steer \in {FALSE, steering} : Admit(p, steer)
      BY <1>6 DEF Prompt, Steer
    <2>2. CASE worker' = [worker EXCEPT ![channel].handed = Append(@, PromptItem(p, steer))]
               /\ UNCHANGED <<lifecycle, generation, inbox>> /\ CanSend
      <3>1. channel \in Channels
        BY <1>1, <2>2 DEF SessionTypes, CanSend
      <3> QED
        BY <1>5, <2>2, <3>1
    <2>3. CASE UNCHANGED <<generation, worker, inbox>> /\ lifecycle' \in {lifecycle, "Disconnected"}
      BY <1>3, <2>3
    <2> QED
      BY <2>1, <2>2, <2>3 DEF Admit, Terminalize
  <1>7. CASE \E d \in Deliveries : CogDelivery(d)
    <2>1. PICK d \in Deliveries : CogDelivery(d)
      BY <1>7
    <2>2. UNCHANGED <<lifecycle, generation, inbox>>
      BY <2>1 DEF CogDelivery
    <2>3. CASE CanSend /\ Start(d, SteerNow, turns)
      <3>1. channel \in Channels
        BY <1>1, <2>3 DEF SessionTypes, CanSend
      <3> QED
        BY <1>5, <2>2, <2>3, <3>1 DEF Start
    <2> QED
      BY <1>3, <2>1, <2>2, <2>3 DEF CogDelivery
  <1>8. CASE Cancel
    BY <1>3, <1>8 DEF Cancel
  <1>9. CASE Restart
    <2>1. PICK b \in Channels : worker' = [worker EXCEPT ![b] = Started(generation + 1)]
      BY <1>9 DEF Restart
    <2>2. \A c \in Channels : worker'[c].generation <= generation + 1
      <3>1. \A c \in Channels : worker'[c] = worker[c] \/ worker'[c] = Started(generation + 1)
        BY <1>1, <2>1 DEF WorkerTypes
      <3> QED
        BY <1>1, <1>2, <3>1 DEF Started
    <2>3. /\ generation' = generation + 1 /\ lifecycle' # "Archived" /\ Counts' = Counts
      BY <1>9 DEF Restart, Fence, Counts
    <2> QED
      BY <1>1, <2>2, <2>3 DEF FenceInv
  <1>10. CASE Archive \/ Close
    <2>1. generation' = generation + 1 /\ UNCHANGED worker /\ Counts' = Counts
      BY <1>10 DEF Archive, Close, Fence, Counts
    <2> QED
      BY <1>1, <2>1 DEF FenceInv
  <1>11. CASE Unarchive
    <2>1. PICK b \in Channels : worker' = [worker EXCEPT ![b] = Started(generation)]
      BY <1>11 DEF Unarchive
    <2>2. \A c \in Channels : worker'[c] = worker[c] \/ worker'[c] = Started(generation)
      BY <1>1, <2>1 DEF WorkerTypes
    <2>3. \A c \in Channels : worker'[c] = worker[c] \/ worker'[c].generation = generation
      BY <2>2 DEF Started
    <2>4. lifecycle' = "Spawning" /\ generation' = generation /\ Counts' = Counts
      BY <1>11 DEF Unarchive, Counts
    <2> QED
      BY <2>3, <2>4, FenceKept
  <1>12. CASE Receive
    <2>1. Counts' \subseteq Counts
      <3>1. ToSet(inbox') \subseteq ToSet(inbox)
        BY <1>1, <1>12, TailElements DEF Receive
      <3> QED
        BY <3>1 DEF Counts
    <2>2. PICK m : \/ Publish(m.channel) /\ m.channel \in Channels
                   \/ LostAgent(m.generation)
                   \/ TurnCount(m)
      <3>1. Head(inbox) \in Messages
        BY <1>1, <1>12 DEF Receive
      <3> QED
        BY <1>12, <3>1, MessageFields DEF Receive
    <2>3. ASSUME generation' = generation, lifecycle' = "Archived" => lifecycle = "Archived",
                 \A c \in Channels :
                     /\ worker'[c].generation = worker[c].generation
                     /\ worker'[c].phase \in Alive => worker[c].phase \in Alive
          PROVE  FenceInv'
      BY <2>1, <2>3, FenceKept
    <2>4. CASE Publish(m.channel) /\ m.channel \in Channels
      <3> DEFINE b == m.channel
      <3>1. ASSUME NEW k \in 0 .. Len(pendingPrompts), Flush(b, k)
            PROVE  \A c \in Channels :
                       /\ worker'[c].generation = worker[c].generation
                       /\ worker'[c].phase \in Alive => worker[c].phase \in Alive
        BY <1>1, <2>4, <3>1 DEF Flush, HandOver, WorkerTypes, WorkerType, Alive
      <3>2. ASSUME worker' = [worker EXCEPT ![b].phase = "dead"]
            PROVE  \A c \in Channels :
                       /\ worker'[c].generation = worker[c].generation
                       /\ worker'[c].phase \in Alive => worker[c].phase \in Alive
        BY <1>1, <2>4, <3>2 DEF WorkerTypes, WorkerType, Alive
      <3>3. generation' = generation /\ lifecycle' \in {lifecycle, "Live"}
        BY <2>4 DEF Publish, sessionVars
      <3> HIDE DEF b
      <3> QED
        BY <2>3, <2>4, <3>1, <3>2, <3>3 DEF Publish, b
    <2>5. CASE LostAgent(m.generation)
      <3>1. /\ generation' = generation /\ UNCHANGED worker
            /\ lifecycle' \in {lifecycle, "Disconnected"}
        BY <2>5 DEF LostAgent, Terminalize, sessionVars
      <3> QED
        BY <2>3, <3>1
    <2>6. CASE TurnCount(m)
      <3>1. UNCHANGED <<lifecycle, generation>>
        BY <2>6 DEF TurnCount, sessionVars
      <3>2. CASE UNCHANGED worker
        BY <2>3, <3>1, <3>2
      <3>3. CASE CanSend /\ Start(Head(pendingDeliveries), FALSE, m.turns)
        <4>1. channel \in Channels
          BY <1>1, <3>3 DEF SessionTypes, CanSend
        <4> QED
          BY <1>1, <2>3, <3>1, <3>3, <4>1 DEF Start, WorkerTypes, WorkerType
      <3> QED
        BY <2>6, <3>2, <3>3 DEF TurnCount
    <2> QED
      BY <2>2, <2>4, <2>5, <2>6
  <1>13. ASSUME NEW c \in Channels, SpawnEnds(c) \/ TurnEnds(c) \/ Dies(c) \/ Pump(c)
         PROVE  FenceInv'
    <2>1. UNCHANGED <<lifecycle, generation>>
      BY <1>13 DEF SpawnEnds, TurnEnds, Dies, Pump, sessionVars
    <2>2. \A b \in Channels :
              /\ worker'[b].generation = worker[b].generation
              /\ worker'[b].phase \in Alive => worker[b].phase \in Alive
      <3>1. CASE SpawnEnds(c)
        <4>1. worker[c].phase \in Alive
          BY <3>1 DEF SpawnEnds, Alive
        <4>2. PICK f : worker' = [worker EXCEPT ![c].phase = f]
          BY <3>1 DEF SpawnEnds
        <4> QED
          BY <1>1, <1>13, <4>1, <4>2 DEF WorkerTypes, WorkerType
      <3>2. CASE TurnEnds(c)
        <4>1. PICK f : worker' = [worker EXCEPT ![c].ended = f]
          BY <3>2 DEF TurnEnds
        <4> QED
          BY <1>1, <1>13, <4>1 DEF WorkerTypes, WorkerType
      <3>3. CASE worker' = [worker EXCEPT ![c].phase = "dead"]
        BY <1>1, <1>13, <3>3 DEF WorkerTypes, WorkerType, Alive
      <3>4. CASE UNCHANGED worker
        BY <3>4
      <3> QED
        BY <1>13, <3>1, <3>2, <3>3, <3>4 DEF Dies, Pump
    <2>3. CASE UNCHANGED inbox
      BY <2>1, <2>2, <2>3, FenceKept DEF Counts
    <2>4. ASSUME NEW m \in Messages, Send(m),
                 m.type = "TurnCount" =>
                     m.generation = worker[c].generation /\ worker[c].phase \in Alive
          PROVE  FenceInv'
      <3>1. ToSet(inbox') = ToSet(inbox) \cup {m}
        BY <1>1, <2>4, AppendElements DEF Send
      <3>2. \A n \in Counts' : n \in Counts \/ /\ n.generation = worker[c].generation
                                               /\ worker[c].phase \in Alive
        BY <2>4, <3>1 DEF Counts
      <3>3. /\ worker[c].generation <= generation
            /\ lifecycle' = "Archived" /\ worker[c].phase \in Alive =>
                   worker[c].generation < generation
        BY <2>1 DEF FenceInv
      <3> QED
        BY <2>1, <2>2, <3>2, <3>3, FenceKept
    <2>5. CASE SpawnEnds(c)
      <3>1. /\ [type |-> "Publish", channel |-> c] \in Messages
            /\ [type |-> "SpawnFailed", generation |-> worker[c].generation] \in Messages
        BY <1>1 DEF Messages
      <3> QED
        BY <2>4, <2>5, <3>1 DEF SpawnEnds
    <2>6. CASE Pump(c)
      <3>1. CASE Send([type |-> "AgentDisconnected", generation |-> worker[c].generation])
        <4>1. [type |-> "AgentDisconnected", generation |-> worker[c].generation] \in Messages
          BY <1>1 DEF Messages
        <4> QED
          BY <2>4, <3>1, <4>1
      <3>2. ASSUME worker[c].phase = "connected", NEW o \in Outcomes,
                   Send([type |-> "TurnCount", generation |-> worker[c].generation,
                         turns |-> pump[c].base + Len(worker[c].ended), outcome |-> o])
            PROVE  FenceInv'
        <4> DEFINE m == [type |-> "TurnCount", generation |-> worker[c].generation,
                         turns |-> pump[c].base + Len(worker[c].ended), outcome |-> o]
        <4>1. m \in Messages
          BY <1>1, <1>13, <3>2, TypesByPart
             DEF ThreadTypes, WorkerTypes, WorkerType, PumpTypes, Messages
        <4> QED
          BY <2>4, <3>2, <4>1 DEF Alive
      <3>3. \A o \in {"Other"} \cup {worker[c].ended[n] :
                          n \in {pump[c].seen + 1} \cap {Len(worker[c].ended)}} :
                Len(worker[c].ended) > pump[c].seen => o \in Outcomes
        BY <1>1, <1>13, TypesByPart
           DEF ThreadTypes, WorkerTypes, WorkerType, PumpTypes, Outcomes
      <3>4. CASE UNCHANGED inbox
        BY <2>3, <3>4
      <3> QED
        BY <2>6, <3>1, <3>2, <3>3, <3>4 DEF Pump
    <2> QED
      BY <1>13, <2>3, <2>5, <2>6 DEF TurnEnds, Dies
  <1> QED
    BY <1>4, <1>6, <1>7, <1>8, <1>9, <1>10, <1>11, <1>12, <1>13 DEF Next

\* The fence holds from the start, when nothing has been sent (Manager::create, recovery).
LEMMA FenceHolds == Spec => []FenceInv
  <1>1. Init => FenceInv
    <2> SUFFICES ASSUME Init PROVE FenceInv
      OBVIOUS
    <2>1. Counts = {}
      BY DEF Init, Counts, ToSet
    <2>2. \A c \in Channels : /\ worker[c].generation = 0
                              /\ lifecycle = "Archived" => worker[c].phase = "none"
      BY DEF Init, Started, Unstarted
    <2> QED
      BY <2>1, <2>2 DEF Init, FenceInv, Alive
  <1>2. TypeOK /\ FenceInv /\ [Next]_vars => FenceInv'
    BY FenceStep
  <1> QED
    BY <1>1, <1>2, LifecycleTypes, PTL DEF Spec

\* What an archived session must not lose or gain.
frozen == <<generation, channel, busy, turns, promptVars, activeDelivery, pendingDeliveries>>

\* While a session stays archived, commands are refused and what its old channels still
\* send is of a generation before its own.
LEMMA FrozenStep ==
    ASSUME TypeOK, DeliveryInv, FenceInv, [Next]_vars,
           lifecycle = "Archived", lifecycle' = "Archived"
    PROVE  UNCHANGED frozen
  <1>1. activeDelivery = Idle
    BY DEF DeliveryInv, DeliveriesAccounted
  <1>2. CASE UNCHANGED vars
    BY <1>2 DEF vars, sessionVars, deliveryVars, frozen
  <1>3. CASE Prompt \/ Steer
    BY <1>3 DEF Prompt, Steer, Admit
  <1>4. CASE \E d \in Deliveries : CogDelivery(d)
    BY <1>4 DEF CogDelivery, frozen
  <1>5. CASE Cancel
    BY <1>1, <1>5 DEF Cancel, promptVars, frozen
  <1>6. CASE Restart \/ Archive \/ Unarchive \/ Close
    BY <1>6 DEF Restart, Archive, Unarchive, Close
  <1>7. CASE Receive
    <2>1. PICK m \in ToSet(inbox) : /\ m = Head(inbox)
                                    /\ \/ Publish(m.channel)
                                       \/ LostAgent(m.generation)
                                       \/ m.type = "TurnCount" /\ TurnCount(m)
      <3>1. Head(inbox) \in ToSet(inbox)
        BY <1>7, TypesByPart, TailElements DEF Receive, ThreadTypes
      <3> QED
        BY <1>7, <3>1 DEF Receive
    <2>2. CASE Publish(m.channel)
      BY <2>2 DEF Publish, sessionVars, deliveryVars, frozen
    <2>3. CASE LostAgent(m.generation)
      BY <2>3 DEF LostAgent, sessionVars, deliveryVars, frozen
    <2>4. CASE m.type = "TurnCount" /\ TurnCount(m)
      <3>1. m \in Messages
        BY <2>1, TypesByPart DEF ThreadTypes, ToSet
      <3>2. m.generation # generation
        BY <2>4, <3>1, MessageFields, TypesByPart DEF FenceInv, Counts, SessionTypes
      <3> QED
        BY <2>4, <3>2 DEF TurnCount, sessionVars, deliveryVars, frozen
    <2> QED
      BY <2>1, <2>2, <2>3, <2>4
  <1>8. CASE \E c \in Channels : SpawnEnds(c) \/ TurnEnds(c) \/ Dies(c) \/ Pump(c)
    BY <1>8 DEF SpawnEnds, TurnEnds, Dies, Pump, sessionVars, deliveryVars, frozen
  <1> QED
    BY <1>2, <1>3, <1>4, <1>5, <1>6, <1>7, <1>8 DEF Next

\* Until it is unarchived or closed, nothing moves an archived session ("Archive is a
\* real resource boundary", do_set_archived).
THEOREM ArchiveHolds == Spec => ArchivedIsFrozen
  <1>1. TypeOK /\ DeliveryInv /\ FenceInv /\ [Next]_vars =>
            [lifecycle = "Archived" /\ lifecycle' = "Archived" =>
                UNCHANGED <<generation, channel, busy, turns, promptVars, activeDelivery,
                            pendingDeliveries>>]_vars
    BY FrozenStep DEF frozen
  <1> QED
    BY <1>1, LifecycleTypes, DeliveriesInv, FenceHolds, PTL DEF Spec, ArchivedIsFrozen


(***************************************************************************)
(* The prompts: where each is, and in which order they were handed over.   *)
(***************************************************************************)

PublishOf(c) == [type |-> "Publish", channel |-> c]

\* The actor is asked to publish a channel at most once, and hands a channel nothing
\* before it has published it.
InletInv ==
    /\ \A c \in Channels :
          /\ \/ worker[c].phase \in {"none", "spawning"}
             \/ PublishOf(c) \in ToSet(inbox)
             => c # channel /\ worker[c].handed = << >>
          /\ worker[c].phase \in {"none", "spawning"} => PublishOf(c) \notin ToSet(inbox)
    /\ \A i, j \in 1 .. Len(inbox) :
          inbox[i].type = "Publish" /\ inbox[i] = inbox[j] => i = j

\* A step of the actor's threads that sends at most one message (publish_channel).
LEMMA InletSend ==
    ASSUME TypeOK, InletInv, NEW m \in Messages, inbox' = Append(inbox, m),
           channel' = channel,
           \A c \in Channels :
               /\ worker'[c].handed = worker[c].handed
               /\ worker'[c].phase \in {"none", "spawning"} =>
                      worker[c].phase \in {"none", "spawning"} /\ m # PublishOf(c)
               /\ m = PublishOf(c) => worker[c].phase = "spawning",
           m.type = "Publish" => m.channel \in Channels /\ m = PublishOf(m.channel)
    PROVE  InletInv'
  <1>1. inbox \in Seq(Messages)
    BY TypesByPart DEF ThreadTypes
  <1>2. ToSet(inbox') = ToSet(inbox) \cup {m}
    BY <1>1, AppendElements
  <1>3. \A c \in Channels :
            /\ \/ worker'[c].phase \in {"none", "spawning"}
               \/ PublishOf(c) \in ToSet(inbox')
               => c # channel' /\ worker'[c].handed = << >>
            /\ worker'[c].phase \in {"none", "spawning"} => PublishOf(c) \notin ToSet(inbox')
    BY <1>2 DEF InletInv
  <1>4. m.type = "Publish" => m \notin ToSet(inbox)
    BY DEF InletInv
  <1>5. \A i, j \in 1 .. Len(inbox') :
            inbox'[i].type = "Publish" /\ inbox'[i] = inbox'[j] => i = j
    <2>1. /\ Len(inbox) \in Nat /\ DOMAIN inbox = 1 .. Len(inbox)
          /\ Len(inbox') = Len(inbox) + 1 /\ inbox'[Len(inbox) + 1] = m
          /\ \A i \in 1 .. Len(inbox) : inbox'[i] = inbox[i]
      BY <1>1
    <2>2. \A i \in 1 .. Len(inbox) : inbox[i] \in ToSet(inbox)
      BY <2>1 DEF ToSet
    <2>3. \A i \in 1 .. Len(inbox') : i \in 1 .. Len(inbox) \/ i = Len(inbox) + 1
      BY <2>1
    <2> QED
      BY <1>4, <2>1, <2>2, <2>3 DEF InletInv
  <1> QED
    BY <1>3, <1>5 DEF InletInv

\* A step of the actor that sends nothing.
LEMMA InletKept ==
    ASSUME InletInv, inbox' = inbox, channel' \in {channel, NoChannel},
           NoChannel \notin Channels,
           \A c \in Channels :
               \/ /\ worker'[c].handed = worker[c].handed \/ c = channel
                  /\ worker'[c].phase \in {"none", "spawning"} =>
                         worker[c].phase \in {"none", "spawning"}
               \/ worker[c].phase = "none" /\ worker'[c].handed = << >>
    PROVE  InletInv'
  BY DEF InletInv

\* The actor takes a message.
LEMMA InletTaken ==
    ASSUME TypeOK, inbox # << >>, inbox' = Tail(inbox),
           \A i, j \in 1 .. Len(inbox) :
               inbox[i].type = "Publish" /\ inbox[i] = inbox[j] => i = j
    PROVE  /\ ToSet(inbox') \subseteq ToSet(inbox)
           /\ Head(inbox).type = "Publish" => Head(inbox) \notin ToSet(inbox')
           /\ \A i, j \in 1 .. Len(inbox') :
                 inbox'[i].type = "Publish" /\ inbox'[i] = inbox'[j] => i = j
  <1>1. inbox \in Seq(Messages)
    BY TypesByPart DEF ThreadTypes
  <1>2. /\ Len(inbox) \in Nat /\ Len(inbox) > 0 /\ Len(inbox') = Len(inbox) - 1
        /\ DOMAIN inbox = 1 .. Len(inbox) /\ DOMAIN inbox' = 1 .. Len(inbox) - 1
        /\ Head(inbox) = inbox[1]
        /\ \A i \in 1 .. Len(inbox) - 1 : inbox'[i] = inbox[i + 1]
    BY <1>1
  <1>3. \A i \in 1 .. Len(inbox) - 1 : i + 1 \in 1 .. Len(inbox) /\ i + 1 # 1
    BY <1>2
  <1>4. 1 \in 1 .. Len(inbox)
    BY <1>2
  <1>5. Head(inbox).type = "Publish" => Head(inbox) \notin ToSet(inbox')
    BY <1>2, <1>3, <1>4 DEF ToSet
  <1>6. ToSet(inbox') \subseteq ToSet(inbox)
    BY <1>2, <1>3 DEF ToSet
  <1>7. \A i, j \in 1 .. Len(inbox') :
            inbox'[i].type = "Publish" /\ inbox'[i] = inbox'[j] => i = j
    <2> SUFFICES ASSUME NEW i \in 1 .. Len(inbox'), NEW j \in 1 .. Len(inbox'),
                        inbox'[i].type = "Publish", inbox'[i] = inbox'[j]
                 PROVE  i = j
      OBVIOUS
    <2>1. i + 1 = j + 1
      BY <1>2, <1>3
    <2> QED
      BY <1>2, <2>1
  <1> QED
    BY <1>5, <1>6, <1>7

\* Only a spawn thread asks for a publication, and only a publication or the live
\* channel hands anything over.
LEMMA InletStep ==
    ASSUME TypeOK, InletInv, [Next]_vars
    PROVE  InletInv'
  <1>1. /\ SessionTypes /\ inbox \in Seq(Messages) /\ worker \in WorkerTypes
        /\ NoChannel \notin Channels
    BY TypesByPart DEF ThreadTypes, NoChannel, Channels
  <1>2. ASSUME inbox' = inbox, channel' \in {channel, NoChannel}, worker' = worker
        PROVE  InletInv'
    BY <1>1, <1>2, InletKept
  <1>3. ASSUME inbox' = inbox, channel' = channel, NEW items, channel \in Channels,
               worker' = [worker EXCEPT ![channel].handed = items]
        PROVE  InletInv'
    <2>1. \A c \in Channels :
              /\ worker'[c].handed = worker[c].handed \/ c = channel
              /\ worker'[c].phase = worker[c].phase
      BY <1>1, <1>3 DEF WorkerTypes, WorkerType
    <2> QED
      BY <1>1, <1>3, <2>1, InletKept
  <1>4. ASSUME inbox' = inbox, channel' \in {channel, NoChannel}, NEW b \in Channels, Spare(b),
               NEW g \in Nat, worker' = [worker EXCEPT ![b] = Started(g)]
        PROVE  InletInv'
    <2>1. \A c \in Channels :
              \/ worker'[c] = worker[c]
              \/ worker[c].phase = "none" /\ worker'[c].handed = << >>
      BY <1>1, <1>4 DEF Spare, Started, WorkerTypes
    <2> QED
      BY <1>1, <1>4, <2>1, InletKept
  <1>5. CASE UNCHANGED vars
    BY <1>2, <1>5 DEF vars, sessionVars
  <1>6. CASE Prompt \/ Steer
    <2>1. PICK p \in Prompts, steer \in {FALSE, steering} : Admit(p, steer)
      BY <1>6 DEF Prompt, Steer
    <2>2. inbox' = inbox
      BY <2>1 DEF Admit
    <2>3. CASE /\ CanSend /\ UNCHANGED channel
               /\ worker' = [worker EXCEPT ![channel].handed = Append(@, PromptItem(p, steer))]
      <3>1. channel \in Channels
        BY <1>1, <2>3 DEF SessionTypes, CanSend
      <3> QED
        BY <1>3, <2>2, <2>3, <3>1
    <2>4. CASE UNCHANGED worker /\ channel' \in {channel, NoChannel}
      BY <1>2, <2>2, <2>4
    <2> QED
      BY <2>1, <2>3, <2>4 DEF Admit, Terminalize
  <1>7. CASE \E d \in Deliveries : CogDelivery(d)
    <2>1. PICK d \in Deliveries : CogDelivery(d)
      BY <1>7
    <2>2. UNCHANGED <<inbox, channel>>
      BY <2>1 DEF CogDelivery
    <2>3. CASE CanSend /\ Start(d, SteerNow, turns)
      <3>1. channel \in Channels
        BY <1>1, <2>3 DEF SessionTypes, CanSend
      <3> QED
        BY <1>3, <2>2, <2>3, <3>1 DEF Start
    <2>4. CASE UNCHANGED worker
      BY <1>2, <2>2, <2>4
    <2> QED
      BY <2>1, <2>3, <2>4 DEF CogDelivery
  <1>8. CASE Cancel \/ Archive \/ Close
    BY <1>2, <1>8 DEF Cancel, Archive, Close
  <1>9. CASE Restart \/ Unarchive
    <2>1. PICK c \in Channels, g \in {generation, generation + 1} :
              Spare(c) /\ worker' = [worker EXCEPT ![c] = Started(g)]
      BY <1>9 DEF Restart, Unarchive
    <2>2. generation \in Nat /\ generation + 1 \in Nat
      BY <1>1 DEF SessionTypes
    <2> QED
      BY <1>4, <1>9, <2>1, <2>2 DEF Restart, Unarchive
  <1>10. CASE Receive
    <2> DEFINE m == Head(inbox)
    <2>1. /\ inbox # << >> /\ inbox' = Tail(inbox) /\ m \in Messages /\ m \in ToSet(inbox)
          /\ m.type = "Publish" => m.channel \in Channels /\ m = PublishOf(m.channel)
      <3>1. inbox # << >> /\ inbox' = Tail(inbox)
        BY <1>10 DEF Receive
      <3>2. m \in Messages /\ m \in ToSet(inbox)
        BY <1>1, <3>1, TailElements
      <3> HIDE DEF m
      <3>3. m.type = "Publish" => m.channel \in Channels /\ m = PublishOf(m.channel)
        BY <3>2 DEF Messages, PublishOf
      <3> QED
        BY <3>1, <3>2, <3>3
    <2>2. /\ ToSet(inbox') \subseteq ToSet(inbox)
          /\ m.type = "Publish" => m \notin ToSet(inbox')
          /\ \A i, j \in 1 .. Len(inbox') :
                inbox'[i].type = "Publish" /\ inbox'[i] = inbox'[j] => i = j
      BY <2>1, InletTaken DEF InletInv
    <2> HIDE DEF m
    <2>3. ASSUME channel' \in {channel, NoChannel},
                 \A c \in Channels :
                    /\ worker'[c].handed = worker[c].handed \/ c = channel
                    /\ worker'[c].phase \in {"none", "spawning"} =>
                           worker[c].phase \in {"none", "spawning"}
          PROVE  InletInv'
      BY <1>1, <2>2, <2>3 DEF InletInv
    <2>4. CASE m.type = "Publish" /\ Publish(m.channel)
      <3> DEFINE b == m.channel
      <3>1. /\ b \in Channels /\ PublishOf(b) \in ToSet(inbox)
            /\ PublishOf(b) \notin ToSet(inbox')
            /\ worker[b].phase \notin {"none", "spawning"}
        BY <2>1, <2>2, <2>4 DEF InletInv
      <3>2. CASE channel' = b /\ \E k \in 0 .. Len(pendingPrompts) : Flush(b, k)
        <4>1. PICK k \in 0 .. Len(pendingPrompts) : Flush(b, k)
          BY <3>2
        <4>2. \A c \in Channels : c # b => worker'[c] = worker[c]
          BY <1>1, <4>1 DEF Flush, HandOver, WorkerTypes
        <4>3. worker'[b].phase \in {"dead", worker[b].phase}
          BY <1>1, <3>1, <4>1 DEF Flush, HandOver, WorkerTypes, WorkerType
        <4> HIDE DEF b
        <4>4. \A c \in Channels : PublishOf(c) \in ToSet(inbox') => c # b
          BY <3>1
        <4>5. \A c \in Channels :
                 /\ \/ worker'[c].phase \in {"none", "spawning"}
                    \/ PublishOf(c) \in ToSet(inbox')
                    => c # channel' /\ worker'[c].handed = << >>
                 /\ worker'[c].phase \in {"none", "spawning"} =>
                        PublishOf(c) \notin ToSet(inbox')
          BY <2>2, <3>1, <3>2, <4>2, <4>3, <4>4 DEF InletInv
        <4> QED
          BY <2>2, <4>5 DEF InletInv
      <3>3. CASE worker' = [worker EXCEPT ![b].phase = "dead"] /\ channel' = channel
        <4>1. \A c \in Channels : /\ worker'[c].handed = worker[c].handed
                                  /\ worker'[c].phase \in {worker[c].phase, "dead"}
          BY <1>1, <3>3 DEF WorkerTypes, WorkerType
        <4> QED
          BY <2>3, <3>3, <4>1
      <3> QED
        BY <2>4, <3>2, <3>3 DEF Publish, sessionVars
    <2>5. CASE LostAgent(m.generation)
      BY <2>3, <2>5 DEF LostAgent, Terminalize, sessionVars
    <2>6. CASE TurnCount(m)
      <3>1. channel' = channel
        BY <2>6 DEF TurnCount, sessionVars
      <3>2. CASE CanSend /\ Start(Head(pendingDeliveries), FALSE, m.turns)
        <4>1. \A c \in Channels :
                  /\ worker'[c].handed = worker[c].handed \/ c = channel
                  /\ worker'[c].phase = worker[c].phase
          BY <1>1, <3>2 DEF Start, WorkerTypes, WorkerType
        <4> QED
          BY <2>3, <3>1, <4>1
      <3>3. CASE UNCHANGED worker
        BY <2>3, <3>1, <3>3
      <3> QED
        BY <2>6, <3>2, <3>3 DEF TurnCount
    <2> QED
      BY <1>10, <2>4, <2>5, <2>6 DEF Receive, m
  <1>11. CASE \E c \in Channels : SpawnEnds(c) \/ TurnEnds(c) \/ Dies(c) \/ Pump(c)
    <2>1. PICK c \in Channels : SpawnEnds(c) \/ TurnEnds(c) \/ Dies(c) \/ Pump(c)
      BY <1>11
    <2>2. channel' = channel
      BY <2>1 DEF SpawnEnds, TurnEnds, Dies, Pump, sessionVars
    <2>3. \A b \in Channels :
              /\ worker'[b].handed = worker[b].handed
              /\ worker'[b].phase \in {"none", "spawning"} =>
                     worker[b].phase \in {"none", "spawning"} /\ ~ (SpawnEnds(c) /\ b = c)
      BY <1>1, <2>1 DEF SpawnEnds, TurnEnds, Dies, Pump, WorkerTypes, WorkerType
    <2>4. CASE SpawnEnds(c)
      <3>1. PICK m \in {PublishOf(c), [type |-> "SpawnFailed", generation |-> worker[c].generation]} :
                inbox' = Append(inbox, m)
        BY <2>4 DEF SpawnEnds, Send, PublishOf
      <3>2. m \in Messages /\ (m.type = "Publish" => m = PublishOf(c) /\ m.channel = c)
        BY <1>1, <3>1 DEF Messages, PublishOf, WorkerTypes, WorkerType
      <3>3. \A b \in Channels : m = PublishOf(b) => b = c
        BY <3>1 DEF PublishOf
      <3>4. worker[c].phase = "spawning"
        BY <2>4 DEF SpawnEnds
      <3> QED
        BY <2>2, <2>3, <2>4, <3>1, <3>2, <3>3, <3>4, InletSend
    <2>5. CASE UNCHANGED inbox
      BY <1>1, <2>2, <2>3, <2>5, InletKept
    <2>6. CASE \E m \in Messages : m.type # "Publish" /\ inbox' = Append(inbox, m)
      <3>1. PICK m \in Messages : m.type # "Publish" /\ inbox' = Append(inbox, m)
        BY <2>6
      <3>2. \A b \in Channels : m # PublishOf(b)
        BY <3>1 DEF PublishOf
      <3> QED
        BY <2>2, <2>3, <3>1, <3>2, InletSend
    <2>7. CASE TurnEnds(c) \/ Dies(c)
      BY <2>5, <2>7 DEF TurnEnds, Dies
    <2>8. CASE Pump(c)
      <3>1. CASE Send([type |-> "AgentDisconnected", generation |-> worker[c].generation])
        <4>1. [type |-> "AgentDisconnected", generation |-> worker[c].generation] \in Messages
          BY <1>1 DEF Messages, WorkerTypes, WorkerType
        <4> QED
          BY <2>6, <3>1, <4>1 DEF Send
      <3>2. ASSUME NEW o \in {"Other"} \cup
                      {worker[c].ended[n] : n \in {pump[c].seen + 1} \cap {Len(worker[c].ended)}},
                   Len(worker[c].ended) > pump[c].seen,
                   Send([type |-> "TurnCount", generation |-> worker[c].generation,
                         turns |-> pump[c].base + Len(worker[c].ended), outcome |-> o])
            PROVE  InletInv'
        <4>1. /\ worker[c].generation \in Nat /\ worker[c].ended \in Seq(Outcomes)
              /\ pump[c].base \in Nat /\ pump[c].seen \in Nat
          BY <1>1, TypesByPart DEF ThreadTypes, WorkerTypes, WorkerType, PumpTypes
        <4>2. o \in Outcomes
          BY <3>2, <4>1 DEF Outcomes
        <4>3. pump[c].base + Len(worker[c].ended) \in Nat
          <5>1. Len(worker[c].ended) \in Nat
            BY <4>1, LenProperties
          <5> QED
            BY <4>1, <5>1
        <4>4. [type |-> "TurnCount", generation |-> worker[c].generation,
               turns |-> pump[c].base + Len(worker[c].ended), outcome |-> o] \in Messages
          BY <4>1, <4>2, <4>3 DEF Messages
        <4> QED
          BY <2>6, <3>2, <4>4 DEF Send
      <3> QED
        BY <2>5, <2>8, <3>1, <3>2 DEF Pump
    <2> QED
      BY <2>1, <2>4, <2>7, <2>8
  <1> QED
    BY <1>5, <1>6, <1>7, <1>8, <1>9, <1>10, <1>11 DEF Next

\* Prompt p is the i-th thing channel c was handed.
IsAt(c, i, p) ==
    /\ i \in 1 .. Len(worker[c].handed)
    /\ worker[c].handed[i].kind = "prompt"
    /\ worker[c].handed[i].id = p

\* A delivered prompt is at one place, and no other prompt is at any.
PlaceInv ==
    /\ \A c \in Channels : \A i \in 1 .. Len(worker[c].handed) :
          worker[c].handed[i].kind = "prompt" =>
              /\ worker[c].handed[i].id \in Prompts
              /\ fate[worker[c].handed[i].id] = "delivered"
    /\ \A p \in Prompts : fate[p] = "delivered" => \E c \in Channels, i \in Nat : IsAt(c, i, p)
    /\ \A p \in Prompts : \A b, c \in Channels : \A i, j \in Nat :
          IsAt(b, i, p) /\ IsAt(c, j, p) => b = c /\ i = j

\* Prompts are numbered as they are admitted, and wait in that order.
NumberInv ==
    /\ \A p, q \in Prompts : p < q /\ fate[q] # "unsent" => fate[p] # "unsent"
    /\ \A i, j \in 1 .. Len(pendingPrompts) : i < j => pendingPrompts[i] < pendingPrompts[j]

PromptInv == PlaceInv /\ NumberInv /\ KeepsSubmissionOrder

\* A step that hands no prompt over keeps every prompt's place and the order of each
\* channel's prompts; a delivery may be handed over.
LEMMA PlacesKept ==
    ASSUME TypeOK, PlaceInv, KeepsSubmissionOrder, fate' \in [Prompts -> Fates],
           \A p \in Prompts : fate'[p] = "delivered" <=> fate[p] = "delivered",
           \A c \in Channels :
              \/ worker'[c].handed = worker[c].handed
              \/ \E item \in Items : /\ item.kind = "delivery"
                                     /\ worker'[c].handed = Append(worker[c].handed, item)
    PROVE  PlaceInv' /\ KeepsSubmissionOrder'
  <1>1. \A c \in Channels : worker[c].handed \in Seq(Items)
    BY TypesByPart DEF ThreadTypes, WorkerTypes, WorkerType
  <1>2. \A c \in Channels :
            /\ Len(worker[c].handed) \in Nat /\ Len(worker'[c].handed) \in Nat
            /\ DOMAIN worker'[c].handed = 1 .. Len(worker'[c].handed)
            /\ DOMAIN worker[c].handed = 1 .. Len(worker[c].handed)
            /\ Len(worker[c].handed) <= Len(worker'[c].handed)
            /\ \A i \in 1 .. Len(worker[c].handed) : worker'[c].handed[i] = worker[c].handed[i]
            /\ \A i \in 1 .. Len(worker'[c].handed) :
                  \/ i \in 1 .. Len(worker[c].handed)
                  \/ worker'[c].handed[i].kind = "delivery"
    <2> DEFINE Grows(old, new) ==
                  /\ Len(old) \in Nat /\ Len(new) \in Nat
                  /\ DOMAIN new = 1 .. Len(new) /\ DOMAIN old = 1 .. Len(old)
                  /\ Len(old) <= Len(new)
                  /\ \A i \in 1 .. Len(old) : new[i] = old[i]
                  /\ \A i \in 1 .. Len(new) : i \in 1 .. Len(old) \/ new[i].kind = "delivery"
    <2>1. \A old \in Seq(Items) : Grows(old, old)
      OBVIOUS
    <2>2. \A old \in Seq(Items), item \in Items :
              item.kind = "delivery" => Grows(old, Append(old, item))
      OBVIOUS
    <2> HIDE DEF Grows
    <2>3. \A c \in Channels : Grows(worker[c].handed, worker'[c].handed)
      BY <1>1, <2>1, <2>2
    <2> QED
      BY <2>3 DEF Grows
  <1>3. \A c \in Channels, p \in Prompts : \A i \in Nat : (IsAt(c, i, p))' <=> IsAt(c, i, p)
    BY <1>2 DEF IsAt
  <1>4. \A c \in Channels : \A i \in 1 .. Len(worker'[c].handed) :
            worker'[c].handed[i].kind = "prompt" =>
                i \in 1 .. Len(worker[c].handed) /\ worker'[c].handed[i] = worker[c].handed[i]
    BY <1>2
  <1>5. PlaceInv'
    <2>1. \A c \in Channels : \A i \in 1 .. Len(worker'[c].handed) :
             worker'[c].handed[i].kind = "prompt" =>
                 /\ worker'[c].handed[i].id \in Prompts
                 /\ fate'[worker'[c].handed[i].id] = "delivered"
      BY <1>4 DEF PlaceInv
    <2>2. \A p \in Prompts : fate'[p] = "delivered" =>
             \E c \in Channels, i \in Nat : (IsAt(c, i, p))'
      BY <1>3 DEF PlaceInv
    <2>3. \A p \in Prompts : \A b, c \in Channels : \A i, j \in Nat :
              (IsAt(b, i, p))' /\ (IsAt(c, j, p))' => b = c /\ i = j
      BY <1>3 DEF PlaceInv
    <2> QED
      BY <2>1, <2>2, <2>3 DEF PlaceInv
  <1>6. KeepsSubmissionOrder'
    BY <1>2, <1>4 DEF KeepsSubmissionOrder
  <1> QED
    BY <1>5, <1>6

\* A prompt sent at once is the latest of all (enqueue_prompt).
LEMMA PlaceAdded ==
    ASSUME TypeOK, PromptInv, NEW c \in Channels, NEW p \in Prompts, NEW steer \in BOOLEAN,
           Fresh(p), fate' = [fate EXCEPT ![p] = "delivered"],
           worker' = [worker EXCEPT ![c].handed = Append(@, PromptItem(p, steer))]
    PROVE  PlaceInv' /\ KeepsSubmissionOrder'
  <1> DEFINE n == Len(worker[c].handed)
  <1>1. /\ \A b \in Channels : worker[b].handed \in Seq(Items)
        /\ PromptItem(p, steer) \in Items /\ fate \in [Prompts -> Fates] /\ fate[p] = "unsent"
    BY TypesByPart
       DEF ThreadTypes, WorkerTypes, WorkerType, PromptTypes, PromptItem, Items, Prompts, Fresh
  <1>2. /\ worker'[c].handed = Append(worker[c].handed, PromptItem(p, steer))
        /\ \A b \in Channels : b # c => worker'[b].handed = worker[b].handed
    BY TypesByPart DEF ThreadTypes, WorkerTypes, WorkerType
  <1>3. /\ \A b \in Channels : /\ Len(worker[b].handed) \in Nat
                               /\ DOMAIN worker[b].handed = 1 .. Len(worker[b].handed)
        /\ DOMAIN worker'[c].handed = 1 .. n + 1 /\ Len(worker'[c].handed) = n + 1
        /\ worker'[c].handed[n + 1] = PromptItem(p, steer)
        /\ \A i \in 1 .. n : worker'[c].handed[i] = worker[c].handed[i]
    BY <1>1, <1>2
  <1>4. PromptItem(p, steer).kind = "prompt" /\ PromptItem(p, steer).id = p
    BY DEF PromptItem
  <1>5. \A b \in Channels : \A i \in 1 .. Len(worker'[b].handed) :
            \/ i \in 1 .. Len(worker[b].handed) /\ worker'[b].handed[i] = worker[b].handed[i]
            \/ b = c /\ i = n + 1 /\ worker'[b].handed[i] = PromptItem(p, steer)
    BY <1>2, <1>3
  <1>6. \A b \in Channels : \A i \in 1 .. Len(worker[b].handed) :
            worker[b].handed[i].kind = "prompt" => worker[b].handed[i].id < p
    <2> SUFFICES ASSUME NEW b \in Channels, NEW i \in 1 .. Len(worker[b].handed),
                        worker[b].handed[i].kind = "prompt"
                 PROVE  worker[b].handed[i].id < p
      OBVIOUS
    <2>1. worker[b].handed[i].id \in Prompts /\ fate[worker[b].handed[i].id] = "delivered"
      BY DEF PromptInv, PlaceInv
    <2>2. worker[b].handed[i].id # p /\ ~ (p < worker[b].handed[i].id)
      BY <1>1, <2>1 DEF PromptInv, NumberInv
    <2> QED
      BY <2>1, <2>2 DEF Prompts
  <1>7. \A b \in Channels, q \in Prompts : \A i \in Nat :
            (IsAt(b, i, q))' <=> IsAt(b, i, q) \/ (b = c /\ i = n + 1 /\ q = p)
    <2> SUFFICES ASSUME NEW b \in Channels, NEW q \in Prompts, NEW i \in Nat
                 PROVE  (IsAt(b, i, q))' <=> IsAt(b, i, q) \/ (b = c /\ i = n + 1 /\ q = p)
      OBVIOUS
    <2> HIDE DEF n
    <2>1. CASE b = c
      <3>1. n \in Nat /\ n = Len(worker[c].handed)
        BY <1>3 DEF n
      <3>2. i \in 1 .. n + 1 <=> i \in 1 .. n \/ i = n + 1
        BY <3>1
      <3>3. ~ (n + 1 \in 1 .. n)
        BY <3>1
      <3> QED
        BY <1>3, <1>4, <2>1, <3>1, <3>2, <3>3 DEF IsAt
    <2>2. CASE b # c
      BY <1>2, <2>2 DEF IsAt
    <2> QED
      BY <2>1, <2>2
  <1>8. \A b \in Channels : \A i \in Nat : ~ IsAt(b, i, p)
    BY <1>1 DEF IsAt, PromptInv, PlaceInv
  <1>9. PlaceInv'
    <2>1. \A b \in Channels : \A i \in 1 .. Len(worker'[b].handed) :
             worker'[b].handed[i].kind = "prompt" =>
                 /\ worker'[b].handed[i].id \in Prompts
                 /\ fate'[worker'[b].handed[i].id] = "delivered"
      BY <1>1, <1>4, <1>5 DEF PromptInv, PlaceInv
    <2>2. \A q \in Prompts : fate'[q] = "delivered" =>
             \E b \in Channels, i \in Nat : (IsAt(b, i, q))'
      <3>1. PICK k \in Nat : k = n + 1
        BY <1>3
      <3> HIDE DEF n
      <3>2. \A q \in Prompts : q # p => fate'[q] = fate[q]
        BY <1>1
      <3>3. (IsAt(c, k, p))'
        BY <1>7, <3>1
      <3> QED
        BY <1>7, <3>1, <3>2, <3>3 DEF PromptInv, PlaceInv
    <2>3. \A q \in Prompts : \A a, b \in Channels : \A i, j \in Nat :
              (IsAt(a, i, q))' /\ (IsAt(b, j, q))' => a = b /\ i = j
      <3> HIDE DEF n
      <3> QED
        BY <1>7, <1>8 DEF PromptInv, PlaceInv
    <2> QED
      BY <2>1, <2>2, <2>3 DEF PlaceInv
  <1>10. KeepsSubmissionOrder'
    <2> SUFFICES ASSUME NEW b \in Channels,
                        NEW i \in DOMAIN worker'[b].handed, NEW j \in DOMAIN worker'[b].handed,
                        i < j,
                        worker'[b].handed[i].kind = "prompt",
                        worker'[b].handed[j].kind = "prompt"
                 PROVE  worker'[b].handed[i].id < worker'[b].handed[j].id
      BY DEF KeepsSubmissionOrder
    <2>1. CASE b # c
      BY <1>2, <2>1 DEF PromptInv, KeepsSubmissionOrder
    <2>2. CASE b = c /\ j \in 1 .. n
      BY <1>3, <2>2 DEF PromptInv, KeepsSubmissionOrder
    <2>3. CASE b = c /\ j = n + 1
      <3>1. i \in 1 .. n
        BY <1>3, <2>3
      <3> HIDE DEF n
      <3> QED
        BY <1>3, <1>4, <1>6, <2>3, <3>1 DEF n
    <2> QED
      BY <1>3, <2>1, <2>2, <2>3
  <1> QED
    BY <1>9, <1>10

\* The prompts that waited are the first a channel is handed, in their order; those it
\* dies before are not handed over at all (apply_channel_state).
LEMMA PlacesFlushed ==
    ASSUME TypeOK, PromptInv, QueueWaitsForAChannel, NEW c \in Channels,
           NEW k \in 0 .. Len(pendingPrompts), Flush(c, k), worker[c].handed = << >>
    PROVE  PlaceInv' /\ KeepsSubmissionOrder'
  <1> DEFINE q == pendingPrompts
  <1>1. /\ q \in Seq(Prompts) /\ fate \in [Prompts -> Fates] /\ worker \in WorkerTypes
        /\ Len(q) \in Nat /\ DOMAIN q = 1 .. Len(q) /\ k \in Nat /\ k <= Len(q)
        /\ \A i \in 1 .. k : i \in 1 .. Len(q) /\ q[i] \in Prompts
    BY TypesByPart DEF ThreadTypes, PromptTypes
  <1>2. \A b \in Channels : b # c => worker'[b].handed = worker[b].handed
    BY <1>1 DEF Flush, HandOver, WorkerTypes
  <1>3. worker'[c].handed = << >> \o FirstItems(q, k)
    BY <1>1 DEF Flush, HandOver, WorkerTypes, WorkerType
  <1>4. /\ Len(worker'[c].handed) = k /\ DOMAIN worker'[c].handed = 1 .. k
        /\ \A i \in 1 .. k : worker'[c].handed[i] = PromptItem(q[i], FALSE)
    <2>1. \A i \in 1 .. k : PromptItem(q[i], FALSE) \in Items
      BY <1>1 DEF PromptItem, Items, Prompts
    <2> DEFINE t == FirstItems(q, k)
    <2>2. t \in [1 .. k -> Items] /\ \A i \in 1 .. k : t[i] = PromptItem(q[i], FALSE)
      BY <2>1 DEF FirstItems
    <2> HIDE DEF t
    <2>3. t \in Seq(Items) /\ Len(t) = k
      BY <1>1, <2>2, SeqDef
    <2>4. << >> \o t = t
      BY <2>3
    <2> QED
      BY <1>3, <2>2, <2>3, <2>4 DEF t
  <1>5. \A i \in 1 .. k : /\ worker'[c].handed[i].kind = "prompt"
                          /\ worker'[c].handed[i].id = q[i]
                          /\ q[i] \in Prompts /\ q[i] \in Nat
    <2> TAKE i \in 1 .. k
    <2>1. worker'[c].handed[i] = [kind |-> "prompt", id |-> q[i], steer |-> FALSE]
      BY Zenon, <1>4 DEF PromptItem
    <2>2. worker'[c].handed[i].kind = "prompt" /\ worker'[c].handed[i].id = q[i]
      BY <2>1
    <2>3. q[i] \in Prompts
      BY <1>1
    <2>4. q[i] \in Nat
      BY <2>3 DEF Prompts
    <2> QED
      BY <2>2, <2>3, <2>4
  <1>6. ToSet(SubSeq(q, 1, k)) = {q[i] : i \in 1 .. k}
    <2> DEFINE t == SubSeq(q, 1, k)
    <2>1. Len(t) = k /\ DOMAIN t = 1 .. k /\ \A i \in 1 .. k : t[i] = q[i]
      BY <1>1
    <2> HIDE DEF t
    <2> QED
      BY <2>1 DEF ToSet, t
  <1>7. /\ \A p \in Prompts : fate[p] = "queued" <=> p \in ToSet(q)
        /\ \A i \in 1 .. k : q[i] \in ToSet(q)
    BY <1>1 DEF QueueWaitsForAChannel, ToSet
  <1>8. \A p \in Prompts : fate'[p] = "delivered" <=>
            fate[p] = "delivered" \/ \E i \in 1 .. k : p = q[i]
    BY <1>6, <1>7 DEF Flush, FlushedFates
  <1>9. \A i, j \in 1 .. k : i < j => q[i] < q[j]
    BY <1>1 DEF PromptInv, NumberInv
  <1>10. \A i, j \in 1 .. k : q[i] = q[j] => i = j
    <2> SUFFICES ASSUME NEW i \in 1 .. k, NEW j \in 1 .. k, q[i] = q[j], i # j
                 PROVE  FALSE
      OBVIOUS
    <2>1. i < j \/ j < i
      BY <1>1
    <2>2. q[i] \in Nat /\ ~ (q[i] < q[j]) /\ ~ (q[j] < q[i])
      BY <1>1 DEF Prompts
    <2> QED
      BY <1>9, <2>1, <2>2
  <1> HIDE DEF q
  <1>11. \A b \in Channels, p \in Prompts : \A i \in Nat :
            (IsAt(b, i, p))' <=>
                (b # c /\ IsAt(b, i, p)) \/ (b = c /\ i \in 1 .. k /\ q[i] = p)
    <2> SUFFICES ASSUME NEW b \in Channels, NEW p \in Prompts, NEW i \in Nat
                 PROVE  (IsAt(b, i, p))' <=>
                            (b # c /\ IsAt(b, i, p)) \/ (b = c /\ i \in 1 .. k /\ q[i] = p)
      OBVIOUS
    <2>1. CASE b = c
      BY <1>1, <1>4, <1>5, <2>1 DEF IsAt
    <2>2. CASE b # c
      BY <1>2, <2>2 DEF IsAt
    <2> QED
      BY <2>1, <2>2
  <1>12. \A p \in Prompts : (\E i \in 1 .. k : p = q[i]) => fate[p] # "delivered"
    BY <1>7
  <1>13. PlaceInv'
    <2>1. \A b \in Channels : \A i \in 1 .. Len(worker'[b].handed) :
             worker'[b].handed[i].kind = "prompt" =>
                 /\ worker'[b].handed[i].id \in Prompts
                 /\ fate'[worker'[b].handed[i].id] = "delivered"
      <3> SUFFICES ASSUME NEW b \in Channels, NEW i \in 1 .. Len(worker'[b].handed),
                          worker'[b].handed[i].kind = "prompt"
                   PROVE  /\ worker'[b].handed[i].id \in Prompts
                          /\ fate'[worker'[b].handed[i].id] = "delivered"
        OBVIOUS
      <3>1. CASE b = c
        BY <1>1, <1>4, <1>5, <1>8, <3>1
      <3>2. CASE b # c
        BY <1>2, <1>8, <3>2 DEF PromptInv, PlaceInv
      <3> QED
        BY <3>1, <3>2
    <2>2. \A p \in Prompts : fate'[p] = "delivered" =>
             \E b \in Channels, i \in Nat : (IsAt(b, i, p))'
      <3> SUFFICES ASSUME NEW p \in Prompts, fate'[p] = "delivered"
                   PROVE  \E b \in Channels, i \in Nat : (IsAt(b, i, p))'
        OBVIOUS
      <3>1. CASE \E i \in 1 .. k : p = q[i]
        <4>1. PICK i \in 1 .. k : p = q[i]
          BY <3>1
        <4>2. i \in Nat
          OBVIOUS
        <4> QED
          BY <1>11, <4>1, <4>2
      <3>2. CASE fate[p] = "delivered"
        <4>1. PICK b \in Channels, i \in Nat : IsAt(b, i, p)
          BY <3>2 DEF PromptInv, PlaceInv
        <4>2. b # c
          BY <4>1 DEF IsAt
        <4> QED
          BY <1>11, <4>1, <4>2
      <3> QED
        BY <1>8, <3>1, <3>2
    <2>3. \A p \in Prompts : \A a, b \in Channels : \A i, j \in Nat :
              (IsAt(a, i, p))' /\ (IsAt(b, j, p))' => a = b /\ i = j
      <3> SUFFICES ASSUME NEW p \in Prompts, NEW a \in Channels, NEW b \in Channels,
                          NEW i \in Nat, NEW j \in Nat, (IsAt(a, i, p))', (IsAt(b, j, p))'
                   PROVE  a = b /\ i = j
        OBVIOUS
      <3>1. \A e \in Channels, h \in Nat : IsAt(e, h, p) => fate[p] = "delivered"
        BY DEF IsAt, PromptInv, PlaceInv
      <3>2. CASE a = c /\ b = c
        BY <1>10, <1>11, <3>2
      <3>3. CASE a # c /\ b # c
        BY <1>11, <3>3 DEF PromptInv, PlaceInv
      <3>4. CASE (a = c /\ b # c) \/ (a # c /\ b = c)
        <4>1. \E h \in 1 .. k : p = q[h]
          BY <1>11, <3>4
        <4>2. fate[p] = "delivered"
          BY <1>11, <3>1, <3>4
        <4> QED
          BY <1>12, <4>1, <4>2
      <3> QED
        BY <3>2, <3>3, <3>4
    <2> QED
      BY <2>1, <2>2, <2>3 DEF PlaceInv
  <1>14. KeepsSubmissionOrder'
    <2> SUFFICES ASSUME NEW b \in Channels,
                        NEW i \in DOMAIN worker'[b].handed, NEW j \in DOMAIN worker'[b].handed,
                        i < j,
                        worker'[b].handed[i].kind = "prompt",
                        worker'[b].handed[j].kind = "prompt"
                 PROVE  worker'[b].handed[i].id < worker'[b].handed[j].id
      BY DEF KeepsSubmissionOrder
    <2>1. CASE b # c
      BY <1>2, <2>1 DEF PromptInv, KeepsSubmissionOrder
    <2>2. CASE b = c
      BY <1>1, <1>4, <1>5, <1>9, <2>2
    <2> QED
      BY <2>1, <2>2
  <1> QED
    BY <1>13, <1>14

\* Only the next prompt leaves "unsent", and the queue keeps its order or is emptied.
LEMMA NumbersKept ==
    ASSUME TypeOK, NumberInv, fate' \in [Prompts -> Fates],
           \A p \in Prompts : fate'[p] = "unsent" => fate[p] = "unsent",
           \A p \in Prompts : fate[p] = "unsent" /\ fate'[p] # "unsent" => Fresh(p),
           pendingPrompts' \in {pendingPrompts, << >>}
    PROVE  NumberInv'
  <1>1. \A p, q \in Prompts : p < q /\ fate'[q] # "unsent" => fate'[p] # "unsent"
    BY DEF NumberInv, Fresh
  <1>2. \A i, j \in 1 .. Len(pendingPrompts') :
            i < j => pendingPrompts'[i] < pendingPrompts'[j]
    <2>1. CASE pendingPrompts' = pendingPrompts
      BY <2>1 DEF NumberInv
    <2>2. CASE pendingPrompts' = << >>
      <3>1. Len(<< >>) = 0
        OBVIOUS
      <3> QED
        BY <2>2, <3>1
    <2> QED
      BY <2>1, <2>2
  <1> QED
    BY <1>1, <1>2 DEF NumberInv

\* Finishing the queued prompts delivers none, and no prompt is unsent again.
LEMMA FinishKeeps ==
    ASSUME TypeOK, QueueWaitsForAChannel, NEW f \in [Prompts -> Fates],
           NEW outcome \in {"rejected", "cancelled", "closed"},
           f = fate \/ \E p \in Prompts : Fresh(p) /\ f = [fate EXCEPT ![p] = "rejected"],
           fate' = Finished(f, outcome)
    PROVE  /\ fate' \in [Prompts -> Fates]
           /\ \A p \in Prompts : fate'[p] = "delivered" <=> fate[p] = "delivered"
           /\ \A p \in Prompts : fate'[p] = "unsent" => fate[p] = "unsent"
           /\ \A p \in Prompts : fate[p] = "unsent" /\ fate'[p] # "unsent" => Fresh(p)
  <1>1. fate' \in [Prompts -> Fates]
    BY FinishTypes DEF Fates
  <1>2. /\ fate \in [Prompts -> Fates]
        /\ \A p \in ToSet(pendingPrompts) : p \in Prompts => fate[p] = "queued"
    BY TypesByPart DEF PromptTypes, QueueWaitsForAChannel
  <1>3. \A p \in Prompts : \/ f[p] = fate[p]
                           \/ Fresh(p) /\ fate[p] = "unsent" /\ f[p] = "rejected"
    BY <1>2 DEF Fresh
  <1>4. \A p \in Prompts : \/ fate'[p] = f[p]
                           \/ fate[p] = "queued" /\ fate'[p] = outcome
    BY <1>2 DEF Finished
  <1>5. outcome # "delivered" /\ outcome # "unsent"
    OBVIOUS
  <1> QED
    BY <1>1, <1>2, <1>3, <1>4, <1>5

\* Every step keeps each prompt in its place and the prompts in their order.
LEMMA PromptStep ==
    ASSUME TypeOK, QueueWaitsForAChannel, InletInv, PromptInv, [Next]_vars
    PROVE  PromptInv'
  <1>1. /\ SessionTypes /\ pendingPrompts \in Seq(Prompts) /\ fate \in [Prompts -> Fates]
        /\ inbox \in Seq(Messages) /\ worker \in WorkerTypes
        /\ NoChannel \notin Channels /\ steering \in BOOLEAN
    BY TypesByPart DEF PromptTypes, ThreadTypes, NoChannel, Channels
  <1>2. PlaceInv /\ NumberInv /\ KeepsSubmissionOrder
    BY DEF PromptInv
  <1>3. ASSUME \A c \in Channels : worker'[c].handed = worker[c].handed,
               fate' \in [Prompts -> Fates],
               \A p \in Prompts : fate'[p] = "delivered" <=> fate[p] = "delivered",
               \A p \in Prompts : fate'[p] = "unsent" => fate[p] = "unsent",
               \A p \in Prompts : fate[p] = "unsent" /\ fate'[p] # "unsent" => Fresh(p),
               pendingPrompts' \in {pendingPrompts, << >>}
        PROVE  PromptInv'
    <2>1. NumberInv'
      BY <1>2, <1>3, NumbersKept
    <2>2. PlaceInv' /\ KeepsSubmissionOrder'
      BY <1>2, <1>3, PlacesKept
    <2> QED
      BY <2>1, <2>2 DEF PromptInv
  <1>4. ASSUME UNCHANGED promptVars, \A c \in Channels : worker'[c].handed = worker[c].handed
        PROVE  PromptInv'
    BY <1>1, <1>3, <1>4 DEF promptVars
  <1>5. ASSUME UNCHANGED promptVars, NEW c \in Channels, NEW item \in Items,
               item.kind = "delivery",
               worker' = [worker EXCEPT ![c].handed = Append(@, item)]
        PROVE  PromptInv'
    <2>1. \A b \in Channels :
              \/ worker'[b].handed = worker[b].handed
              \/ worker'[b].handed = Append(worker[b].handed, item)
      BY <1>1, <1>5 DEF WorkerTypes, WorkerType
    <2>2. PlaceInv' /\ KeepsSubmissionOrder'
      BY <1>1, <1>2, <1>5, <2>1, PlacesKept DEF promptVars
    <2>3. NumberInv'
      BY <1>1, <1>2, <1>5, NumbersKept DEF promptVars
    <2> QED
      BY <2>2, <2>3 DEF PromptInv
  <1>6. ASSUME NEW outcome \in {"rejected", "cancelled", "closed"},
               fate' = Finished(fate, outcome), pendingPrompts' = << >>, worker' = worker
        PROVE  PromptInv'
    BY <1>1, <1>3, <1>6, FinishKeeps
  <1>7. CASE UNCHANGED vars
    BY <1>4, <1>7 DEF vars
  <1>8. CASE Prompt \/ Steer
    <2>1. PICK p \in Prompts, steer \in BOOLEAN : Admit(p, steer)
      BY <1>1, <1>8 DEF Prompt, Steer
    <2>2. Fresh(p) /\ fate[p] = "unsent"
      BY <2>1 DEF Admit, Fresh
    <2>3. CASE /\ CanSend /\ fate' = [fate EXCEPT ![p] = "delivered"]
               /\ worker' = [worker EXCEPT ![channel].handed = Append(@, PromptItem(p, steer))]
               /\ UNCHANGED pendingPrompts
      <3>1. channel \in Channels
        BY <1>1, <2>3 DEF SessionTypes, CanSend
      <3>2. PlaceInv' /\ KeepsSubmissionOrder'
        BY <2>2, <2>3, <3>1, PlaceAdded
      <3>3. NumberInv'
        <4>1. /\ fate' \in [Prompts -> Fates]
              /\ \A q \in Prompts : fate'[q] = "unsent" => fate[q] = "unsent"
              /\ \A q \in Prompts : fate[q] = "unsent" /\ fate'[q] # "unsent" => q = p
          BY <1>1, <2>3 DEF Fates
        <4> QED
          BY <1>2, <2>2, <2>3, <4>1, NumbersKept
      <3> QED
        BY <3>2, <3>3 DEF PromptInv
    <2>4. CASE /\ pendingPrompts' = Append(pendingPrompts, p)
               /\ fate' = [fate EXCEPT ![p] = "queued"]
               /\ UNCHANGED worker
      <3>1. /\ fate' \in [Prompts -> Fates]
            /\ \A q \in Prompts : fate'[q] = "delivered" <=> fate[q] = "delivered"
            /\ \A q \in Prompts : q # p => fate'[q] = fate[q]
            /\ fate'[p] = "queued"
        BY <1>1, <2>2, <2>4 DEF Fates
      <3>2. PlaceInv' /\ KeepsSubmissionOrder'
        BY <1>2, <2>4, <3>1, PlacesKept
      <3>3. \A q, r \in Prompts : q < r /\ fate'[r] # "unsent" => fate'[q] # "unsent"
        BY <1>2, <2>2, <3>1 DEF NumberInv, Fresh
      <3> DEFINE n == Len(pendingPrompts)
      <3>4. /\ n \in Nat /\ Len(pendingPrompts') = n + 1 /\ pendingPrompts'[n + 1] = p
            /\ DOMAIN pendingPrompts = 1 .. n
            /\ \A i \in 1 .. n : /\ pendingPrompts'[i] = pendingPrompts[i]
                                 /\ pendingPrompts[i] \in Prompts
        BY <1>1, <2>4
      <3>5. \A i \in 1 .. n : pendingPrompts[i] < p
        <4> SUFFICES ASSUME NEW i \in 1 .. n
                     PROVE  pendingPrompts[i] < p
          OBVIOUS
        <4>1. pendingPrompts[i] \in Prompts /\ fate[pendingPrompts[i]] = "queued"
          BY <3>4 DEF QueueWaitsForAChannel, ToSet
        <4>2. pendingPrompts[i] # p /\ ~ (p < pendingPrompts[i])
          BY <1>2, <2>2, <4>1 DEF NumberInv
        <4> QED
          BY <4>1, <4>2 DEF Prompts
      <3>6. \A i, j \in 1 .. Len(pendingPrompts') :
                i < j => pendingPrompts'[i] < pendingPrompts'[j]
        <4> HIDE DEF n
        <4> SUFFICES ASSUME NEW i \in 1 .. n + 1, NEW j \in 1 .. n + 1, i < j
                     PROVE  pendingPrompts'[i] < pendingPrompts'[j]
          BY <3>4
        <4>1. i \in 1 .. n /\ (j \in 1 .. n \/ j = n + 1)
          BY <3>4
        <4>2. \A g, h \in 1 .. n : g < h => pendingPrompts[g] < pendingPrompts[h]
          BY <1>2 DEF NumberInv, n
        <4> QED
          BY <3>4, <3>5, <4>1, <4>2
      <3> QED
        BY <3>2, <3>3, <3>6 DEF PromptInv, NumberInv
    <2>5. CASE Terminalize([fate EXCEPT ![p] = "rejected"]) /\ UNCHANGED worker
      <3> DEFINE f == [fate EXCEPT ![p] = "rejected"]
      <3>1. /\ f \in [Prompts -> Fates] /\ fate' = Finished(f, "rejected")
            /\ pendingPrompts' = << >>
        BY <1>1, <2>5 DEF Terminalize, Fates
      <3>2. f = fate \/ \E q \in Prompts : Fresh(q) /\ f = [fate EXCEPT ![q] = "rejected"]
        BY <2>2
      <3> HIDE DEF f
      <3>3. /\ fate' \in [Prompts -> Fates]
            /\ \A q \in Prompts : fate'[q] = "delivered" <=> fate[q] = "delivered"
            /\ \A q \in Prompts : fate'[q] = "unsent" => fate[q] = "unsent"
            /\ \A q \in Prompts : fate[q] = "unsent" /\ fate'[q] # "unsent" => Fresh(q)
        BY <3>1, <3>2, FinishKeeps
      <3> QED
        BY <1>3, <2>5, <3>1, <3>3
    <2> QED
      BY <2>1, <2>3, <2>4, <2>5 DEF Admit
  <1>9. ASSUME NEW d \in Deliveries, NEW steer \in BOOLEAN, NEW t, Start(d, steer, t), CanSend,
               UNCHANGED promptVars
        PROVE  PromptInv'
    <2>1. channel \in Channels
      BY <1>1, <1>9 DEF SessionTypes, CanSend
    <2>2. DeliveryItem(d, steer) \in Items
      BY DEF DeliveryItem, Items, Deliveries
    <2>3. DeliveryItem(d, steer).kind = "delivery"
      BY DEF DeliveryItem
    <2> DEFINE item == DeliveryItem(d, steer)
    <2>4. worker' = [worker EXCEPT ![channel].handed = Append(@, item)]
      BY <1>9 DEF Start
    <2> HIDE DEF item
    <2>5. item \in Items /\ item.kind = "delivery"
      BY <2>2, <2>3 DEF item
    <2> QED
      BY <1>5, <1>9, <2>1, <2>4, <2>5
  <1>10. CASE \E d \in Deliveries : CogDelivery(d)
    <2>1. PICK d \in Deliveries : CogDelivery(d)
      BY <1>10
    <2>2. UNCHANGED promptVars
      BY <2>1 DEF CogDelivery
    <2>3. CASE CanSend /\ Start(d, SteerNow, turns)
      <3>1. SteerNow \in BOOLEAN
        BY DEF SteerNow
      <3> QED
        BY <1>9, <2>2, <2>3, <3>1
    <2>4. CASE UNCHANGED worker
      BY <1>4, <2>2, <2>4
    <2> QED
      BY <2>1, <2>3, <2>4 DEF CogDelivery
  <1>11. CASE Cancel
    <2>1. CASE fate' = Finished(fate, "cancelled") /\ pendingPrompts' = << >>
      BY <1>6, <1>11, <2>1 DEF Cancel
    <2>2. CASE UNCHANGED promptVars
      BY <1>4, <1>11, <2>2 DEF Cancel
    <2> QED
      BY <1>11, <2>1, <2>2 DEF Cancel
  <1>12. CASE Archive \/ Close
    <2>1. /\ \E outcome \in {"cancelled", "closed"} : fate' = Finished(fate, outcome)
          /\ pendingPrompts' = << >> /\ worker' = worker
      BY <1>12 DEF Archive, Close
    <2> QED
      BY <1>6, <2>1
  <1>13. CASE Restart \/ Unarchive
    <2>1. PICK c \in Channels, g \in {generation, generation + 1} :
              Spare(c) /\ worker' = [worker EXCEPT ![c] = Started(g)]
      BY <1>13 DEF Restart, Unarchive
    <2>2. worker[c].handed = << >>
      BY <2>1 DEF Spare, InletInv
    <2>3. \A b \in Channels : worker'[b].handed = worker[b].handed
      BY <1>1, <2>1, <2>2 DEF Started, WorkerTypes
    <2> QED
      BY <1>4, <1>13, <2>3 DEF Restart, Unarchive
  <1>14. CASE Receive
    <2> DEFINE m == Head(inbox)
    <2>1. m \in Messages /\ m \in ToSet(inbox)
      BY <1>1, <1>14, TailElements DEF Receive
    <2> HIDE DEF m
    <2>2. CASE m.type = "Publish" /\ Publish(m.channel)
      <3> DEFINE b == m.channel
      <3>1. b \in Channels /\ m = PublishOf(b)
        BY <2>1, <2>2 DEF Messages, PublishOf
      <3>2. worker[b].handed = << >>
        BY <2>1, <3>1 DEF InletInv
      <3>3. CASE \E k \in 0 .. Len(pendingPrompts) : Flush(b, k)
        <4>1. PICK k \in 0 .. Len(pendingPrompts) : Flush(b, k)
          BY <3>3
        <4> HIDE DEF b
        <4>2. PlaceInv' /\ KeepsSubmissionOrder'
          BY <3>1, <3>2, <4>1, PlacesFlushed
        <4>3. NumberInv'
          <5>1. /\ fate' = FlushedFates(k) /\ pendingPrompts' = << >>
            BY <4>1 DEF Flush
          <5>2. /\ fate' \in [Prompts -> Fates]
                /\ \A p \in Prompts : fate'[p] \in {fate[p], "delivered", "rejected"}
            BY <1>1, <5>1 DEF FlushedFates, Fates
          <5>3. ToSet(SubSeq(pendingPrompts, 1, k)) \subseteq ToSet(pendingPrompts)
            <6>1. 1 \in 1 .. Len(pendingPrompts) + 1 /\ Len(pendingPrompts) \in Nat
              BY <1>1
            <6> QED
              BY <1>1, <6>1, ElementsPart
          <5>4. \A p \in Prompts : fate'[p] # fate[p] => fate[p] = "queued"
            BY <5>1, <5>3 DEF FlushedFates, QueueWaitsForAChannel
          <5> QED
            BY <1>2, <5>1, <5>2, <5>4, NumbersKept
        <4> QED
          BY <4>2, <4>3 DEF PromptInv
      <3>4. CASE worker' = [worker EXCEPT ![b].phase = "dead"] /\ UNCHANGED promptVars
        <4>1. \A c \in Channels : worker'[c].handed = worker[c].handed
          BY <1>1, <3>4 DEF WorkerTypes, WorkerType
        <4> QED
          BY <1>4, <3>4, <4>1
      <3> QED
        BY <2>2, <3>3, <3>4 DEF Publish
    <2>3. CASE LostAgent(m.generation)
      BY <1>4, <1>6, <2>3 DEF LostAgent, Terminalize
    <2>4. CASE m.type = "TurnCount" /\ TurnCount(m)
      <3>1. UNCHANGED promptVars
        BY <2>4 DEF TurnCount
      <3>2. CASE /\ pendingDeliveries # << >> /\ CanSend
                 /\ Start(Head(pendingDeliveries), FALSE, m.turns)
        <4>1. Head(pendingDeliveries) \in Deliveries
          BY <3>2, TypesByPart DEF DeliveryTypes
        <4> QED
          BY <1>9, <3>1, <3>2, <4>1
      <3>3. CASE UNCHANGED worker
        BY <1>4, <3>1, <3>3
      <3> QED
        BY <2>4, <3>2, <3>3 DEF TurnCount
    <2> QED
      BY <1>14, <2>2, <2>3, <2>4 DEF Receive, m
  <1>15. CASE \E c \in Channels : SpawnEnds(c) \/ TurnEnds(c) \/ Dies(c) \/ Pump(c)
    <2>1. PICK c \in Channels : SpawnEnds(c) \/ TurnEnds(c) \/ Dies(c) \/ Pump(c)
      BY <1>15
    <2>2. UNCHANGED promptVars
      BY <2>1 DEF SpawnEnds, TurnEnds, Dies, Pump
    <2>3. \A b \in Channels : worker'[b].handed = worker[b].handed
      <3>1. CASE \E phase : worker' = [worker EXCEPT ![c].phase = phase]
        BY <1>1, <3>1 DEF WorkerTypes, WorkerType
      <3>2. CASE \E ended : worker' = [worker EXCEPT ![c].ended = ended]
        BY <1>1, <3>2 DEF WorkerTypes, WorkerType
      <3>3. CASE UNCHANGED worker
        BY <3>3
      <3> QED
        BY <2>1, <3>1, <3>2, <3>3 DEF SpawnEnds, TurnEnds, Dies, Pump
    <2> QED
      BY <1>4, <2>2, <2>3
  <1> QED
    BY <1>7, <1>8, <1>10, <1>11, <1>12, <1>13, <1>14, <1>15 DEF Next
\* Where every prompt is, and in which order they are, at all times.
LEMMA PromptsInv == Spec => [](InletInv /\ PromptInv)
  <1>1. Init => InletInv /\ PromptInv
    <2> SUFFICES ASSUME Init
                 PROVE  InletInv /\ PromptInv
      OBVIOUS
    <2>1. TypeOK
      BY InitTypes
    <2>2. /\ \A c \in Channels : worker[c].handed = << >>
          /\ channel = NoChannel /\ NoChannel \notin Channels /\ inbox = << >>
      <3>1. \A c \in Channels : worker[c] \in {Started(0), Unstarted}
        BY DEF Init
      <3>2. Started(0).handed = << >> /\ Unstarted.handed = << >>
        BY DEF Started, Unstarted
      <3>3. NoChannel \notin Channels
        BY DEF NoChannel, Channels
      <3> QED
        BY <3>1, <3>2, <3>3 DEF Init
    <2>3. Len(<< >>) = 0 /\ ToSet(<< >>) = {} /\ DOMAIN << >> = {}
      BY DEF ToSet
    <2>4. InletInv
      BY <2>2, <2>3 DEF InletInv
    <2>5. pendingPrompts \in Seq(Prompts) /\ fate \in [Prompts -> {"queued", "unsent"}]
      BY <2>1, TypesByPart DEF Init, PromptTypes
    <2>6. PlaceInv
      BY <2>2, <2>3, <2>5 DEF PlaceInv, IsAt
    <2>7. \A p, q \in Prompts : p < q /\ fate[q] # "unsent" => fate[p] # "unsent"
      <3>1. Len(pendingPrompts) \in Nat
        BY <2>5
      <3> QED
        BY <3>1, PromptsAssumption DEF Init, Prompts
    <2>8. \A i, j \in 1 .. Len(pendingPrompts) : i < j => pendingPrompts[i] < pendingPrompts[j]
      <3>1. PICK n \in 0 .. MaxRecovered : pendingPrompts = [i \in 1 .. n |-> i]
        BY DEF Init
      <3>2. Len(pendingPrompts) = n
        BY <3>1
      <3> QED
        BY <3>1, <3>2
    <2>9. KeepsSubmissionOrder
      BY <2>2, <2>3 DEF KeepsSubmissionOrder
    <2> QED
      BY <2>4, <2>6, <2>7, <2>8, <2>9 DEF PromptInv, NumberInv
  <1>2. TypeOK /\ QueueWaitsForAChannel /\ InletInv /\ PromptInv /\ [Next]_vars
            => (InletInv /\ PromptInv)'
    BY InletStep, PromptStep
  <1> QED
    BY <1>1, <1>2, LifecycleTypes, QueuedPromptsAreWaiting, PTL DEF Spec

\* Across flushes, restarts and failed spawns a prompt is handed to one agent, once,
\* exactly when its submitter is told so (enqueue_prompt, apply_channel_state).
THEOREM PromptsAreHandedOverOnce == Spec => []HandedOverOnce
  <1>1. TypeOK /\ PromptInv => HandedOverOnce
    <2> SUFFICES ASSUME TypeOK, PromptInv, NEW p \in Prompts
                 PROVE  Cardinality(HandedAt(p)) = (IF fate[p] = "delivered" THEN 1 ELSE 0)
      BY DEF HandedOverOnce
    <2>1. \A c \in Channels : DOMAIN worker[c].handed = 1 .. Len(worker[c].handed)
      BY TypesByPart DEF ThreadTypes, WorkerTypes, WorkerType
    <2>2. \A at : at \in HandedAt(p) <=>
              \E c \in Channels, i \in Nat : at = <<c, i>> /\ IsAt(c, i, p)
      <3> DEFINE D(c) == {j \in DOMAIN worker[c].handed : worker[c].handed[j].kind = "prompt"
                                                         /\ worker[c].handed[j].id = p}
      <3>1. \A c \in Channels : \A j : j \in D(c) <=> j \in Nat /\ IsAt(c, j, p)
        <4> TAKE c \in Channels
        <4>1. DOMAIN worker[c].handed = 1 .. Len(worker[c].handed)
          BY <2>1
        <4>2. \A j \in 1 .. Len(worker[c].handed) : j \in Nat
          OBVIOUS
        <4> QED
          BY <4>1, <4>2 DEF IsAt
      <3>2. HandedAt(p) = UNION {{<<c, i>> : i \in D(c)} : c \in Channels}
        BY Zenon DEF HandedAt
      <3> HIDE DEF D
      <3>3. \A at : at \in HandedAt(p) <=> \E c \in Channels : \E i \in D(c) : at = <<c, i>>
        <4> DEFINE F(c) == {<<c, i>> : i \in D(c)}
        <4>1. \A c, at : at \in F(c) <=> \E i \in D(c) : at = <<c, i>>
          OBVIOUS
        <4>2. HandedAt(p) = UNION {F(c) : c \in Channels}
          BY Zenon, <3>2
        <4> HIDE DEF F
        <4>3. \A at : at \in HandedAt(p) <=> \E c \in Channels : at \in F(c)
          BY <4>2
        <4> QED
          BY Zenon, <4>1, <4>3
      <3> QED
        BY Zenon, <3>1, <3>3
    <2>3. CASE fate[p] = "delivered"
      <3>1. PICK c \in Channels, i \in Nat : IsAt(c, i, p)
        BY <2>3 DEF PromptInv, PlaceInv
      <3>2. \A b \in Channels, j \in Nat : IsAt(b, j, p) => b = c /\ j = i
        BY <3>1 DEF PromptInv, PlaceInv
      <3>3. HandedAt(p) = {<<c, i>>}
        BY <2>2, <3>1, <3>2
      <3> QED
        BY <2>3, <3>3, FS_Singleton
    <2>4. CASE fate[p] # "delivered"
      <3>1. \A c \in Channels, i \in Nat : ~ IsAt(c, i, p)
        BY <2>4 DEF IsAt, PromptInv, PlaceInv
      <3>2. HandedAt(p) = {}
        BY <2>2, <3>1
      <3> QED
        BY <2>4, <3>2, FS_EmptySet
    <2> QED
      BY <2>3, <2>4
  <1> QED
    BY <1>1, LifecycleTypes, PromptsInv, PTL

\* An agent is given prompts in the order they were submitted (apply_channel_state,
\* "before any future prompt races in").
THEOREM SubmissionOrderIsKept == Spec => []KeepsSubmissionOrder
  <1>1. PromptInv => KeepsSubmissionOrder
    BY DEF PromptInv
  <1> QED
    BY <1>1, PromptsInv, PTL
=============================================================================
