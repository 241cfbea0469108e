------------------------ MODULE ClientRequest_proofs ------------------------
(***************************************************************************)
(* For any number of calling threads and of requests fired without waiting: *)
(* the types, that no call is handed another request's response, and that   *)
(* the client shuts its socket down only after what was fired is written.   *)
(*                                                                          *)
(* The routing rests on the ids: one is drawn once, and whatever carries it *)
(* - the frame in the queue, on the wire, in the server's hands, and the    *)
(* response - carries the request it was drawn for (Tagged).                *)
(***************************************************************************)
EXTENDS ClientRequest, TLAPS

\* What carries an id carries the request the id was drawn for.
Tagged(S) ==
    {fr \in S : /\ 0 < fr.id /\ fr.id < nextId
                /\ \A c \in Calls : id[c] = fr.id => fr.of = c}

\* No id is drawn twice; none is drawn before the call registers.
IdsAreOwn ==
    /\ 0 < nextId
    /\ \A c \in Calls : stage[c] \in {"new", "checked"} => id[c] = 0
    /\ \A c \in Calls : stage[c] \in {"registered", "waiting"} => id[c] # 0
    /\ \A c, d \in Calls : id[c] = id[d] /\ id[c] # 0 => c = d

\* Everything under way is tagged.
WiresAreTagged ==
    /\ queue \in Seq(Tagged(Frames))
    /\ toServer \in Seq(Tagged(Frames))
    /\ serving \subseteq Tagged(Frames)
    /\ toClient \in Seq(Tagged(Responses))

\* A call that has its response has registered, and has no slot left.
SlotIsSpent ==
    \A d \in delivered :
        /\ stage[d[1]] \notin {"new", "checked"}
        /\ \A slot \in pending : slot.call # d[1]

RouteInv == IdsAreOwn /\ WiresAreTagged /\ SlotIsSpent /\ RoutedToItsCaller

-----------------------------------------------------------------------------
(* Sequences.                                                               *)

\* A sequence over a set is one over a larger set.
LEMMA SeqGrows ==
    ASSUME NEW A, NEW B, A \subseteq B, NEW s \in Seq(A)
    PROVE  s \in Seq(B)
  OBVIOUS

\* What the ends of a sequence and its extension hold.
LEMMA SeqEnds ==
    ASSUME NEW A, NEW s \in Seq(A)
    PROVE  /\ \A e \in A : Append(s, e) \in Seq(A)
           /\ s # << >> => Head(s) \in A /\ Tail(s) \in Seq(A)
  OBVIOUS

-----------------------------------------------------------------------------
(* Types.                                                                   *)

\* Every operation keeps the types, and every drawn id below next_id.
THEOREM ClientTypes == Spec => []TypeOK
<1> DEFINE Stages == {"new", "checked", "registered", "waiting",
                      "answered", "failed", "expired"}
<1>1. Init => TypeOK
  <2> SUFFICES ASSUME Init PROVE TypeOK
    OBVIOUS
  <2>1. /\ queue \in Seq(Frames) /\ toServer \in Seq(Frames)
        /\ toClient \in Seq(Responses)
    BY DEF Init
  <2>2. /\ stage \in [Calls -> Stages] /\ id \in [Calls -> Nat] /\ nextId \in Nat
        /\ \A c \in Calls : id[c] < nextId
    BY DEF Init
  <2> QED
    BY <2>1, <2>2 DEF Init, TypeOK
<1>2. TypeOK /\ [Next]_vars => TypeOK'
  <2> SUFFICES ASSUME TypeOK, [Next]_vars PROVE TypeOK'
    OBVIOUS
  <2> USE DEF TypeOK
  <2>1. ASSUME NEW c \in Calls, Check(c) PROVE TypeOK'
    BY <2>1 DEF Check, Goes, threadVars, wireVars, history
  <2>2. ASSUME NEW c \in Calls, Register(c) PROVE TypeOK'
    <3>1. [id |-> nextId, call |-> c] \in Slots
      BY DEF Slots
    <3>2. pending' \subseteq Slots
      BY <2>2, <3>1 DEF Register, RegisterAs, Without
    <3>3. stage' \in [Calls -> Stages] /\ late' \subseteq Calls
      BY <2>2 DEF Register, RegisterAs, Goes
    <3>4. id' \in [Calls -> Nat] /\ nextId' \in Nat /\ \A d \in Calls : id'[d] < nextId'
      BY <2>2 DEF Register, RegisterAs
    <3> QED
      BY <2>2, <3>2, <3>3, <3>4 DEF Register, RegisterAs, threadVars, wireVars
  <2>3. ASSUME NEW c \in Calls, Send(c) PROVE TypeOK'
    <3>1. [id |-> id[c], of |-> c] \in Frames
      BY DEF Frames, Requests
    <3>2. queue' \in Seq(Frames) /\ pending' \subseteq Slots
      BY <2>3, <3>1, SeqEnds DEF Send, Without
    <3>3. stage' \in [Calls -> Stages]
      BY <2>3 DEF Send, Goes
    <3> QED
      BY <2>3, <3>2, <3>3 DEF Send, threadVars, wireVars, history
  <2>4. ASSUME NEW c \in Calls, Return(c) \/ Disconnected(c) \/ Expire(c) PROVE TypeOK'
    <3>1. stage' \in [Calls -> Stages] /\ pending' \subseteq Slots
      BY <2>4 DEF Return, Disconnected, Expire, Goes, Without
    <3> QED
      BY <2>4, <3>1 DEF Return, Disconnected, Expire, threadVars, wireVars, history
  <2>5. ASSUME NEW f \in Fires, Fire(f) PROVE TypeOK'
    <3>1. [id |-> nextId, of |-> f] \in Frames
      BY DEF Frames, Requests
    <3>2. queue' \in Seq(Frames)
      BY <2>5, <3>1, SeqEnds DEF Fire
    <3>3. nextId' \in Nat /\ \A d \in Calls : id'[d] < nextId'
      BY <2>5 DEF Fire
    <3> QED
      BY <2>5, <3>2, <3>3 DEF Fire, threadVars, wireVars
  <2>6. CASE Drop
    BY <2>6 DEF Drop, threadVars, wireVars, history
  <2>7. CASE WriterStep
    <3>1. CASE Write
      <4>1. Head(queue) \in Frames /\ queue' \in Seq(Frames)
        BY <3>1, SeqEnds DEF Write
      <4>2. Head(queue).of \in Requests /\ Append(toServer, Head(queue)) \in Seq(Frames)
        BY <4>1, SeqEnds DEF Frames
      <4>3. /\ toServer' \in Seq(Frames) /\ written' \subseteq Requests
            /\ connected' \in BOOLEAN
            /\ writer' \in {"running", "leaving", "shut", "cleared", "gone"}
        BY <3>1, <4>2 DEF Write
      <4> QED
        BY <3>1, <4>1, <4>3 DEF Write
    <3>2. CASE StopWriting \/ ShutDown
      BY <3>2 DEF StopWriting, ShutDown, clientVars, wireVars, history
    <3>3. CASE WriterFailsPending
      BY <3>3 DEF WriterFailsPending, wireVars, history
    <3>4. CASE WriterEnds
      <4>1. queue' \in Seq(Frames)
        BY <3>4 DEF WriterEnds
      <4> QED
        BY <3>4, <4>1 DEF WriterEnds, wireVars, history
    <3> QED
      BY <2>7, <3>1, <3>2, <3>3, <3>4 DEF WriterStep
  <2>8. CASE ReaderStep
    <3>1. CASE Read
      <4>1. Head(toClient) \in Responses /\ toClient' \in Seq(Responses)
        BY <3>1, SeqEnds DEF Read
      <4>2. Head(toClient).of \in Requests
        BY <4>1 DEF Responses
      <4>3. pending' \subseteq Slots
        BY <3>1 DEF Read
      <4>4. delivered' \subseteq Calls \X Requests
        BY <3>1, <4>2 DEF Read, Slots
      <4> QED
        BY <3>1, <4>1, <4>3, <4>4 DEF Read, threadVars, history
    <3>2. CASE StopReading \/ ReaderFailsPending
      BY <3>2 DEF StopReading, ReaderFailsPending, wireVars, history
    <3> QED
      BY <2>8, <3>1, <3>2 DEF ReaderStep
  <2>9. CASE HandlerStep \/ Tear \/ Notify \/ Evict \/ Close \/ PumpIsGone
    <3>1. CASE Serve
      <4>1. Head(toServer) \in Frames /\ toServer' \in Seq(Frames)
        BY <3>1, SeqEnds DEF Serve
      <4> QED
        BY <3>1, <4>1 DEF Serve, clientVars, threadVars, history
    <3>2. CASE Respond
      <4>1. PICK request \in serving :
              IF clientShut \/ serverEnd = "write_shut"
              THEN /\ serverEnd' = "closed"
                   /\ UNCHANGED <<toClient, dangling, garbled>>
              ELSE /\ toClient' = Append(toClient, [id |-> request.id, of |-> request.of,
                                                    whole |-> ~ dangling])
                   /\ garbled' = IF dangling THEN garbled \cup {request.of} ELSE garbled
                   /\ dangling' = FALSE
                   /\ UNCHANGED serverEnd
        BY <3>2 DEF Respond
      <4>2. request.id \in Nat /\ request.of \in Requests
        BY DEF Frames
      <4>3. [id |-> request.id, of |-> request.of, whole |-> ~ dangling] \in Responses
        BY <4>2 DEF Responses
      <4>4. toClient' \in Seq(Responses) /\ garbled' \subseteq Requests
            /\ dangling' \in BOOLEAN /\ serverEnd' \in {"open", "write_shut", "closed"}
        BY <4>1, <4>2, <4>3, SeqEnds
      <4> QED
        BY <3>2, <4>4 DEF Respond, clientVars, threadVars
    <3>3. CASE CloseAtEof \/ Tear \/ Notify \/ Evict \/ Close \/ PumpIsGone
      BY <3>3 DEF CloseAtEof, Tear, Notify, Evict, Close, PumpIsGone,
                  clientVars, threadVars, wireVars, history
    <3> QED
      BY <2>9, <3>1, <3>2, <3>3 DEF HandlerStep
  <2>10. CASE UNCHANGED vars
    BY <2>10 DEF vars, clientVars, threadVars, wireVars, history
  <2> QED
    BY <2>1, <2>2, <2>3, <2>4, <2>5, <2>6, <2>7, <2>8, <2>9, <2>10
       DEF Next, CallerStep
<1> QED
  BY <1>1, <1>2, PTL DEF Spec
-----------------------------------------------------------------------------
(* Routing.                                                                 *)

\* An id is drawn by Register, or passed over by Fire; nothing else moves next_id.
LEMMA IdsStep ==
    ASSUME TypeOK, IdsAreOwn, [Next]_vars
    PROVE  /\ IdsAreOwn'
           /\ nextId <= nextId'
           /\ \A c \in Calls : id'[c] = id[c] \/ id'[c] = nextId
  <1> USE DEF IdsAreOwn, TypeOK
  <1>1. ASSUME NEW c \in Calls, Register(c)
        PROVE  /\ IdsAreOwn' /\ nextId <= nextId'
               /\ \A d \in Calls : id'[d] = id[d] \/ id'[d] = nextId
    <2>1. /\ nextId' = nextId + 1 /\ id'[c] = nextId
          /\ stage'[c] = "registered" /\ stage[c] = "checked"
          /\ \A d \in Calls : d # c => id'[d] = id[d] /\ stage'[d] = stage[d]
      BY <1>1 DEF Register, RegisterAs, Goes
    <2>2. /\ nextId \in Nat /\ 0 < nextId
          /\ \A d \in Calls : id[d] \in Nat /\ id[d] < nextId
      OBVIOUS
    <2>3. \A d, e \in Calls : id'[d] = id'[e] /\ id'[d] # 0 => d = e
      <3> TAKE d, e \in Calls
      <3> HAVE id'[d] = id'[e] /\ id'[d] # 0
      <3>1. CASE d = c
        <4>1. e = c
          BY <2>1, <2>2, <3>1
        <4> QED
          BY <3>1, <4>1
      <3>2. CASE d # c
        <4>1. e # c
          BY <2>1, <2>2, <3>2
        <4> QED
          BY <2>1, <3>2, <4>1
      <3> QED
        BY <3>1, <3>2
    <2>4. /\ \A d \in Calls : stage'[d] \in {"new", "checked"} => id'[d] = 0
          /\ \A d \in Calls : stage'[d] \in {"registered", "waiting"} => id'[d] # 0
      BY <2>1, <2>2
    <2>5. nextId' > 0 /\ nextId <= nextId' /\ \A d \in Calls : id'[d] = id[d] \/ id'[d] = nextId
      BY <2>1, <2>2
    <2> QED
      BY <2>3, <2>4, <2>5
  <1>2. ASSUME NEW c \in Calls,
               Check(c) \/ Send(c) \/ Return(c) \/ Disconnected(c) \/ Expire(c)
        PROVE  /\ IdsAreOwn' /\ nextId <= nextId'
               /\ \A d \in Calls : id'[d] = id[d] \/ id'[d] = nextId
    <2>1. UNCHANGED <<id, nextId>>
      BY <1>2 DEF Check, Send, Return, Disconnected, Expire
    <2>2. /\ \A d \in Calls : d # c => stage'[d] = stage[d]
          /\ \/ stage[c] = "new" /\ stage'[c] \in {"checked", "failed"}
             \/ stage[c] \in {"registered", "waiting"} /\ stage'[c] \notin {"new", "checked"}
      BY <1>2 DEF Check, Send, Return, Disconnected, Expire, Goes
    <2> QED
      BY <2>1, <2>2
  <1>3. ASSUME NEW f \in Fires, Fire(f)
        PROVE  /\ IdsAreOwn' /\ nextId <= nextId'
               /\ \A d \in Calls : id'[d] = id[d] \/ id'[d] = nextId
    BY <1>3 DEF Fire
  <1>4. CASE UNCHANGED <<id, nextId, stage>>
    BY <1>4
  <1>5. Drop \/ WriterStep \/ ReaderStep \/ HandlerStep \/ Tear \/ Notify \/ Evict \/ Close
            \/ PumpIsGone \/ UNCHANGED vars
        => UNCHANGED <<id, nextId, stage>>
    BY DEF Drop, WriterStep, Write, StopWriting, ShutDown, WriterFailsPending, WriterEnds,
           ReaderStep, Read, StopReading, ReaderFailsPending, HandlerStep, Serve, Respond,
           CloseAtEof, Tear, Notify, Evict, Close, PumpIsGone, vars, clientVars
  <1> QED
    BY <1>1, <1>2, <1>3, <1>4, <1>5 DEF Next, CallerStep

\* What is tagged stays so as further ids are drawn.
LEMMA StillTagged ==
    ASSUME TypeOK, TypeOK', nextId <= nextId',
           \A c \in Calls : id'[c] = id[c] \/ id'[c] = nextId,
           NEW S, \A fr \in S : fr.id \in Nat
    PROVE  Tagged(S) \subseteq Tagged(S)'
  <1> SUFFICES ASSUME NEW fr \in Tagged(S) PROVE fr \in Tagged(S)'
    OBVIOUS
  <1>1. fr \in S /\ fr.id \in Nat /\ 0 < fr.id /\ fr.id < nextId
    BY DEF Tagged
  <1>2. nextId \in Nat /\ nextId' \in Nat
    BY DEF TypeOK
  <1>3. ASSUME NEW c \in Calls, id'[c] = fr.id PROVE fr.of = c
    <2>1. id'[c] # nextId
      BY <1>1, <1>2, <1>3
    <2> QED
      BY <1>3, <2>1 DEF Tagged
  <1> QED
    BY <1>1, <1>2, <1>3 DEF Tagged

\* The frame of a call that draws or has drawn its id is tagged; the server answers
\* with the id it was asked under, and the wires only pass on what they hold.
LEMMA WiresStep ==
    ASSUME TypeOK, TypeOK', IdsAreOwn, WiresAreTagged, [Next]_vars
    PROVE  WiresAreTagged'
  <1>1. /\ nextId <= nextId'
        /\ \A c \in Calls : id'[c] = id[c] \/ id'[c] = nextId
    BY IdsStep
  <1>2. Tagged(Frames) \subseteq Tagged(Frames)'
    BY <1>1, StillTagged DEF Frames
  <1>3. Tagged(Responses) \subseteq Tagged(Responses)'
    BY <1>1, StillTagged DEF Responses
  <1>4. /\ queue \in Seq(Tagged(Frames)') /\ toServer \in Seq(Tagged(Frames)')
        /\ serving \subseteq Tagged(Frames)' /\ toClient \in Seq(Tagged(Responses)')
    BY <1>2, <1>3, SeqGrows DEF WiresAreTagged
  <1>5. ASSUME NEW c \in Calls, Send(c) PROVE WiresAreTagged'
    <2>1. UNCHANGED <<id, nextId, toServer, toClient, serving>>
      BY <1>5 DEF Send, wireVars
    <2>2. stage[c] = "registered"
      BY <1>5 DEF Send, Goes
    <2>3. [id |-> id[c], of |-> c] \in Tagged(Frames)
      <3>1. id[c] \in Nat /\ id[c] # 0 /\ id[c] < nextId
        BY <2>2 DEF IdsAreOwn, TypeOK
      <3>2. \A d \in Calls : id[d] = id[c] => d = c
        BY <3>1 DEF IdsAreOwn
      <3> QED
        BY <3>1, <3>2 DEF Tagged, Frames, Requests
    <2>4. [id |-> id[c], of |-> c] \in Tagged(Frames)'
      BY <1>2, <2>3
    <2>5. queue' \in Seq(Tagged(Frames)')
      BY <1>5, <1>4, <2>4, SeqEnds DEF Send
    <2> QED
      BY <1>4, <2>1, <2>5 DEF WiresAreTagged
  <1>6. ASSUME NEW f \in Fires, Fire(f) PROVE WiresAreTagged'
    <2>1. UNCHANGED <<id, toServer, toClient, serving>> /\ nextId' = nextId + 1
      BY <1>6 DEF Fire, wireVars
    <2>2. [id |-> nextId, of |-> f] \in Tagged(Frames)'
      <3>1. nextId \in Nat /\ 0 < nextId /\ \A c \in Calls : id[c] < nextId /\ id[c] \in Nat
        BY DEF TypeOK, IdsAreOwn
      <3>2. \A c \in Calls : id'[c] # nextId
        BY <2>1, <3>1
      <3> QED
        BY <2>1, <3>1, <3>2 DEF Tagged, Frames, Requests
    <2>3. queue' \in Seq(Tagged(Frames)')
      BY <1>6, <1>4, <2>2, SeqEnds DEF Fire
    <2> QED
      BY <1>4, <2>1, <2>3 DEF WiresAreTagged
  <1>7. CASE Write
    <2>1. queue # << >> /\ queue' = Tail(queue) /\ UNCHANGED <<toClient, serving>>
      BY <1>7 DEF Write
    <2>2. Head(queue) \in Tagged(Frames)' /\ queue' \in Seq(Tagged(Frames)')
      BY <1>4, <2>1, SeqEnds
    <2>3. Append(toServer, Head(queue)) \in Seq(Tagged(Frames)')
      BY <1>4, <2>2, SeqEnds
    <2>4. toServer' \in Seq(Tagged(Frames)')
      BY <1>7, <1>4, <2>3 DEF Write
    <2> QED
      BY <1>4, <2>1, <2>2, <2>4 DEF WiresAreTagged
  <1>8. CASE WriterEnds
    <2>1. queue' = << >> /\ UNCHANGED <<toServer, toClient, serving>>
      BY <1>8 DEF WriterEnds, wireVars
    <2>2. queue' \in Seq(Tagged(Frames)')
      BY <2>1
    <2> QED
      BY <1>4, <2>1, <2>2 DEF WiresAreTagged
  <1>9. CASE Read
    <2>1. toClient # << >> /\ toClient' = Tail(toClient) /\ UNCHANGED <<queue, toServer, serving>>
      BY <1>9 DEF Read
    <2>2. toClient' \in Seq(Tagged(Responses)')
      BY <1>4, <2>1, SeqEnds
    <2> QED
      BY <1>4, <2>1, <2>2 DEF WiresAreTagged
  <1>10. CASE Serve
    <2>1. /\ toServer # << >> /\ toServer' = Tail(toServer) /\ serving' = {Head(toServer)}
          /\ UNCHANGED <<queue, toClient>>
      BY <1>10 DEF Serve, clientVars
    <2>2. Head(toServer) \in Tagged(Frames)' /\ toServer' \in Seq(Tagged(Frames)')
      BY <1>4, <2>1, SeqEnds
    <2> QED
      BY <1>4, <2>1, <2>2 DEF WiresAreTagged
  <1>11. CASE Respond
    <2>1. UNCHANGED <<id, nextId, queue, toServer>> /\ serving' = {}
      BY <1>11 DEF Respond, clientVars
    <2>2. \/ toClient' = toClient
          \/ \E request \in serving : toClient' = Append(toClient,
                [id |-> request.id, of |-> request.of, whole |-> ~ dangling])
      BY <1>11 DEF Respond
    <2>3. ASSUME NEW request \in serving
          PROVE  [id |-> request.id, of |-> request.of, whole |-> ~ dangling]
                    \in Tagged(Responses)
      <3>1. request \in Frames /\ request \in Tagged(Frames)
        BY DEF WiresAreTagged, TypeOK
      <3>2. request.id \in Nat /\ request.of \in Requests
        BY <3>1 DEF Frames
      <3>3. [id |-> request.id, of |-> request.of, whole |-> ~ dangling] \in Responses
        BY <3>2 DEF Responses, TypeOK
      <3> QED
        BY <3>1, <3>3 DEF Tagged
    <2>4. toClient' \in Seq(Tagged(Responses)')
      BY <1>3, <1>4, <2>2, <2>3, SeqEnds
    <2> QED
      BY <1>4, <2>1, <2>4 DEF WiresAreTagged
  <1>12. CASE serving' \in {serving, {}} /\ UNCHANGED <<queue, toServer, toClient>>
    BY <1>4, <1>12 DEF WiresAreTagged
  <1>13. ASSUME NEW c \in Calls,
                Check(c) \/ Register(c) \/ Return(c) \/ Disconnected(c) \/ Expire(c)
         PROVE  serving' \in {serving, {}} /\ UNCHANGED <<queue, toServer, toClient>>
    BY <1>13 DEF Check, Register, RegisterAs, Return, Disconnected, Expire, wireVars
  <1>14. Drop \/ StopWriting \/ ShutDown \/ WriterFailsPending \/ StopReading
            \/ ReaderFailsPending \/ CloseAtEof \/ Tear \/ Notify \/ Evict \/ Close
            \/ PumpIsGone \/ UNCHANGED vars
         => serving' \in {serving, {}} /\ UNCHANGED <<queue, toServer, toClient>>
    BY DEF Drop, StopWriting, ShutDown, WriterFailsPending, StopReading, ReaderFailsPending,
           CloseAtEof, Tear, Notify, Evict, Close, PumpIsGone, vars, clientVars, wireVars
  <1> QED
    BY <1>5, <1>6, <1>7, <1>8, <1>9, <1>10, <1>11, <1>12, <1>13, <1>14
       DEF Next, CallerStep, WriterStep, ReaderStep, HandlerStep

\* Slots follow their calls, and a response finds the slot of the call it is for.
LEMMA SlotsStep ==
    ASSUME TypeOK, IdsAreOwn, WiresAreTagged, SlotIsSpent, RoutedToItsCaller, [Next]_vars
    PROVE  SlotIsSpent' /\ RoutedToItsCaller'
  <1>1. ASSUME NEW c \in Calls, Register(c) PROVE SlotIsSpent' /\ RoutedToItsCaller'
    <2>1. /\ stage[c] = "checked" /\ stage'[c] = "registered" /\ id'[c] = nextId
          /\ \A d \in Calls : d # c => id'[d] = id[d] /\ stage'[d] = stage[d]
          /\ delivered' = delivered
          /\ pending' = Without(nextId) \cup {[id |-> nextId, call |-> c]}
      BY <1>1 DEF Register, RegisterAs, Goes, TypeOK
    <2>2. \A slot \in pending : slot.call # c /\ slot.call \in Calls
      BY <2>1 DEF RoutedToItsCaller, TypeOK, Slots
    <2>3. \A d \in delivered : d[1] # c /\ d[1] \in Calls
      BY <2>1 DEF SlotIsSpent, TypeOK
    <2>4. \A slot \in pending' :
            slot \in pending \/ (slot.id = nextId /\ slot.call = c)
      BY <2>1 DEF Without
    <2>5. SlotIsSpent'
      BY <2>1, <2>3, <2>4 DEF SlotIsSpent
    <2>6. RoutedToItsCaller'
      BY <2>1, <2>2, <2>4 DEF RoutedToItsCaller
    <2> QED
      BY <2>5, <2>6
  <1>2. ASSUME NEW c \in Calls,
               Check(c) \/ Send(c) \/ Return(c) \/ Disconnected(c) \/ Expire(c)
        PROVE  SlotIsSpent' /\ RoutedToItsCaller'
    <2>1. /\ id' = id /\ delivered' = delivered /\ pending' \subseteq pending
          /\ \A d \in Calls : d # c => stage'[d] = stage[d]
          /\ stage[c] # "checked" /\ (stage'[c] \in {"new", "checked"} => stage[c] = "new")
      BY <1>2 DEF Check, Send, Return, Disconnected, Expire, Goes, Without, TypeOK
    <2>2. \A slot \in pending' :
            slot.call = c => stage'[c] \in {"registered", "waiting"}
      <3>1. CASE Check(c)
        BY <3>1 DEF Check, Goes, RoutedToItsCaller
      <3>2. CASE Send(c)
        BY <3>2 DEF Send, Goes, TypeOK, RoutedToItsCaller, Without
      <3>3. CASE Return(c)
        BY <3>3 DEF Return, Answered, SlotIsSpent
      <3>4. CASE Disconnected(c) \/ Expire(c)
        BY <3>4 DEF Disconnected, Expire, Without, RoutedToItsCaller
      <3> QED
        BY <1>2, <3>1, <3>2, <3>3, <3>4
    <2>3. \A slot \in pending : slot.call \in Calls
      BY DEF TypeOK, Slots
    <2>4. \A d \in delivered : d[1] \in Calls
      BY DEF TypeOK
    <2>5. SlotIsSpent'
      BY <2>1, <2>4 DEF SlotIsSpent
    <2>6. RoutedToItsCaller'
      BY <2>1, <2>2, <2>3 DEF RoutedToItsCaller
    <2> QED
      BY <2>5, <2>6
  <1>3. CASE Read
    <2> DEFINE line == Head(toClient)
               slots == {slot \in pending : line.whole /\ slot.id = line.id}
    <2>1. /\ toClient # << >> /\ UNCHANGED <<stage, id>>
          /\ pending' = pending \ slots
          /\ delivered' = delivered \cup {<<slot.call, line.of>> : slot \in slots}
      BY <1>3 DEF Read
    <2>2. line \in Tagged(Responses)
      BY <2>1, SeqEnds DEF WiresAreTagged
    <2>3. \A slot \in pending : /\ slot.call \in Calls /\ id[slot.call] = slot.id
                                /\ stage[slot.call] \in {"registered", "waiting"}
      BY DEF TypeOK, Slots, RoutedToItsCaller
    <2>4. \A slot \in slots : slot.call = line.of
      BY <2>2, <2>3 DEF Tagged
    <2>5. \A d \in delivered' :
            d \in delivered \/ \E slot \in slots : d[1] = slot.call /\ d[2] = line.of
      BY <2>1
    <2>6. \A slot \in slots, other \in pending' : other.call # slot.call
      BY <2>1, <2>3
    <2>7. RoutedToItsCaller'
      BY <2>1, <2>3, <2>4, <2>5 DEF RoutedToItsCaller
    <2>8. SlotIsSpent'
      BY <2>1, <2>3, <2>5, <2>6 DEF SlotIsSpent
    <2> QED
      BY <2>7, <2>8
  <1>4. CASE pending' \in {pending, {}} /\ UNCHANGED <<stage, id, delivered>>
    BY <1>4 DEF SlotIsSpent, RoutedToItsCaller
  <1>5. (\E f \in Fires : Fire(f)) \/ Drop \/ WriterStep \/ StopReading \/ ReaderFailsPending
            \/ HandlerStep \/ Tear \/ Notify \/ Evict \/ Close \/ PumpIsGone
            \/ UNCHANGED vars
        => pending' \in {pending, {}} /\ UNCHANGED <<stage, id, delivered>>
    BY DEF Fire, Drop, WriterStep, Write, StopWriting, ShutDown, WriterFailsPending,
           WriterEnds, StopReading, ReaderFailsPending, HandlerStep, Serve, Respond,
           CloseAtEof, Tear, Notify, Evict, Close, PumpIsGone, vars, clientVars
  <1> QED
    BY <1>1, <1>2, <1>3, <1>4, <1>5 DEF Next, CallerStep, ReaderStep

\* However many threads share the connection, time out and are answered late, none is
\* handed the response to another one's request (request_response, the reader thread).
THEOREM ResponsesFindTheirCaller == Spec => []RoutedToItsCaller
<1>1. Init => RouteInv
  <2> SUFFICES ASSUME Init PROVE RouteInv
    OBVIOUS
  <2>1. IdsAreOwn
    BY DEF Init, IdsAreOwn
  <2>2. WiresAreTagged
    BY DEF Init, WiresAreTagged
  <2>3. SlotIsSpent /\ RoutedToItsCaller
    BY DEF Init, SlotIsSpent, RoutedToItsCaller
  <2> QED
    BY <2>1, <2>2, <2>3 DEF RouteInv
<1>2. TypeOK /\ TypeOK' /\ RouteInv /\ [Next]_vars => RouteInv'
  BY IdsStep, WiresStep, SlotsStep DEF RouteInv
<1>3. RouteInv => RoutedToItsCaller
  BY DEF RouteInv
<1> QED
  BY <1>1, <1>2, <1>3, ClientTypes, PTL DEF Spec

-----------------------------------------------------------------------------
(* What was fired is written.                                               *)

\* While the server reads, a fired request is written or in the queue; the writer
\* leaves its loop only once nothing can be fired any more and all of it is written.
FireInv ==
    /\ clientShut => writer \in {"shut", "cleared", "gone"}
    /\ serverEnd # "closed" =>
          \A f \in fired : f \in written \/ \E i \in 1 .. Len(queue) : queue[i].of = f
    /\ serverEnd # "closed" /\ writer # "running" => dropped /\ fired \subseteq written

\* Every step keeps FireInv.
LEMMA FireStep ==
    ASSUME TypeOK, FireInv, [Next]_vars
    PROVE  FireInv'
  <1> USE DEF FireInv
  <1>1. ASSUME NEW c \in Calls, Send(c) PROVE FireInv'
    <2>1. /\ UNCHANGED <<clientShut, writer, serverEnd, fired, written, dropped>>
      BY <1>1 DEF Send, threadVars, wireVars, history
    <2>2. queue' = queue \/ queue' = Append(queue, [id |-> id[c], of |-> c])
      BY <1>1 DEF Send
    <2>3. ASSUME NEW f, NEW i \in 1 .. Len(queue), queue[i].of = f
          PROVE  \E j \in 1 .. Len(queue') : queue'[j].of = f
      <3>1. i \in 1 .. Len(queue') /\ queue'[i] = queue[i]
        BY <2>2 DEF TypeOK
      <3> QED
        BY <2>3, <3>1
    <2> QED
      BY <2>1, <2>3
  <1>2. ASSUME NEW g \in Fires, Fire(g) PROVE FireInv'
    <2>1. /\ UNCHANGED <<clientShut, writer, serverEnd, written, dropped>>
          /\ ~ dropped /\ fired' = fired \cup {g}
          /\ queue' = Append(queue, [id |-> nextId, of |-> g])
      BY <1>2 DEF Fire, threadVars, wireVars
    <2>2. ASSUME NEW f, NEW i \in 1 .. Len(queue), queue[i].of = f
          PROVE  \E j \in 1 .. Len(queue') : queue'[j].of = f
      <3>1. i \in 1 .. Len(queue') /\ queue'[i] = queue[i]
        BY <2>1 DEF TypeOK
      <3> QED
        BY <2>2, <3>1
    <2>3. \E j \in 1 .. Len(queue') : queue'[j].of = g
      <3>1. /\ Len(queue) + 1 \in 1 .. Len(queue')
            /\ queue'[Len(queue) + 1] = [id |-> nextId, of |-> g]
        BY <2>1 DEF TypeOK
      <3> QED
        BY <3>1
    <2> QED
      BY <2>1, <2>2, <2>3
  <1>3. CASE Write
    <2>1. /\ writer = "running" /\ queue # << >> /\ queue' = Tail(queue)
          /\ UNCHANGED <<clientShut, serverEnd, fired, dropped>>
      BY <1>3 DEF Write
    <2>2. CASE serverEnd = "closed"
      BY <2>1, <2>2 DEF TypeOK
    <2>3. CASE serverEnd # "closed"
      <3>1. ~ clientShut
        BY <2>1
      <3>2. written' = written \cup {Head(queue).of} /\ writer' = writer
        BY <1>3, <2>3, <3>1 DEF Write
      <3>3. ASSUME NEW i \in 1 .. Len(queue), i # 1
            PROVE  \E j \in 1 .. Len(queue') : queue'[j] = queue[i]
        <4>1. i - 1 \in 1 .. Len(queue') /\ queue'[i - 1] = queue[i]
          BY <2>1, <3>3 DEF TypeOK
        <4> QED
          BY <4>1
      <3>4. Head(queue) = queue[1]
        BY <2>1 DEF TypeOK
      <3>5. \A f \in fired' :
              f \in written' \/ \E j \in 1 .. Len(queue') : queue'[j].of = f
        <4> TAKE f \in fired'
        <4>1. CASE f \in written
          BY <3>2, <4>1
        <4>2. CASE \E i \in 1 .. Len(queue) : queue[i].of = f
          <5>1. PICK i \in 1 .. Len(queue) : queue[i].of = f
            BY <4>2
          <5>2. CASE i = 1
            BY <3>2, <3>4, <5>1, <5>2
          <5>3. CASE i # 1
            <6>1. PICK j \in 1 .. Len(queue') : queue'[j] = queue[i]
              BY <3>3, <5>3
            <6> QED
              BY <5>1, <6>1
          <5> QED
            BY <5>2, <5>3
        <4> QED
          BY <2>1, <2>3, <4>1, <4>2
      <3> QED
        BY <2>1, <2>3, <3>1, <3>2, <3>5
    <2> QED
      BY <2>2, <2>3
  <1>4. CASE StopWriting
    <2>1. /\ queue = << >> /\ dropped /\ writer = "running" /\ writer' = "leaving"
          /\ UNCHANGED <<clientShut, serverEnd, fired, written, dropped, queue>>
      BY <1>4 DEF StopWriting, ChannelClosed, clientVars, wireVars, history
    <2>2. Len(queue) = 0
      BY <2>1
    <2>3. serverEnd # "closed" => fired \subseteq written
      BY <2>2 DEF TypeOK
    <2> QED
      BY <2>1, <2>3
  <1>5. CASE ShutDown \/ WriterFailsPending
    <2>1. /\ writer # "running" /\ writer' \in {"shut", "cleared"}
          /\ UNCHANGED <<serverEnd, fired, written, dropped, queue>>
      BY <1>5 DEF ShutDown, WriterFailsPending, clientVars, wireVars, history
    <2> QED
      BY <2>1
  <1>6. CASE WriterEnds
    <2>1. /\ writer = "cleared" /\ writer' = "gone"
          /\ UNCHANGED <<clientShut, serverEnd, fired, written, dropped>>
      BY <1>6 DEF WriterEnds, wireVars, history
    <2> QED
      BY <2>1
  <1>7. CASE /\ UNCHANGED <<clientShut, writer, fired, written, queue>>
             /\ dropped => dropped'
             /\ serverEnd = "closed" => serverEnd' = "closed"
    BY <1>7
  <1>8. ASSUME NEW c \in Calls,
               Check(c) \/ Register(c) \/ Return(c) \/ Disconnected(c) \/ Expire(c)
        PROVE  UNCHANGED <<clientShut, writer, fired, written, queue, dropped, serverEnd>>
    BY <1>8 DEF Check, Register, RegisterAs, Return, Disconnected, Expire,
                threadVars, wireVars, history
  <1>9. ReaderStep \/ Serve \/ Tear \/ Notify \/ PumpIsGone \/ UNCHANGED vars
          => UNCHANGED <<clientShut, writer, fired, written, queue, dropped, serverEnd>>
    BY DEF ReaderStep, Read, StopReading, ReaderFailsPending, Serve, Tear, Notify,
           PumpIsGone, vars, clientVars, threadVars, wireVars, history
  <1>10. Drop => /\ UNCHANGED <<clientShut, writer, fired, written, queue, serverEnd>>
                 /\ dropped'
    BY DEF Drop, threadVars, wireVars, history
  <1>11. Respond \/ CloseAtEof \/ Evict \/ Close
           => /\ UNCHANGED <<clientShut, writer, fired, written, queue, dropped>>
              /\ serverEnd = "closed" => serverEnd' = "closed"
    BY DEF Respond, CloseAtEof, Evict, Close, clientVars, threadVars, history
  <1> QED
    BY <1>1, <1>2, <1>3, <1>4, <1>5, <1>6, <1>7, <1>8, <1>9, <1>10, <1>11
       DEF Next, CallerStep, WriterStep, HandlerStep

\* The client, dropped or not, shuts its socket down only after every request it
\* accepted without waiting is on the wire, unless the server is gone (the writer
\* thread, request_fire, Drop).
THEOREM FiredBeforeShutdown == Spec => []FiredIsWritten
<1>1. Init => FireInv
  BY DEF Init, FireInv
<1>2. TypeOK /\ FireInv /\ [Next]_vars => FireInv'
  BY FireStep
<1>3. TypeOK /\ FireInv => FiredIsWritten
  BY DEF TypeOK, FireInv, FiredIsWritten
<1> QED
  BY <1>1, <1>2, <1>3, ClientTypes, PTL DEF Spec
=============================================================================
