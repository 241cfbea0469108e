--------------------------- MODULE ClientRequest ---------------------------
(***************************************************************************)
(* One connection between a client (session_client.rs) and the server's    *)
(* connection handler: requests that wait for their response in threads of *)
(* the client, requests fired without waiting, the client's writer and     *)
(* reader thread, and a server that answers one request at a time and may  *)
(* close the connection, or half of it, at any moment.                     *)
(*                                                                         *)
(* A frame is a line.  Notifications are left out but for what they do to  *)
(* the framing: a forwarder of the server that is stopped in the middle of *)
(* a write leaves an unended line, and the next frame is glued to it.      *)
(***************************************************************************)
EXTENDS Naturals, Sequences

CONSTANTS
    Calls, \* requests that wait for a response, one for each time one is made
    Fires  \* requests that do not

ASSUME RequestsAssumption == Calls \cap Fires = {}

Requests == Calls \cup Fires

VARIABLES
    stage,     \* where each call is
    id,        \* the request id it drew
    nextId,    \* next_id
    pending,   \* the slots of the pending map, [id, call]
    delivered, \* <<call, request>>: the call's channel was sent that one's response
    connected,
    dropped,   \* the client was dropped or replaced by a reconnect
    queue,     \* the request channel: frames to write
    writer,    \* the writer thread
    reader,    \* the reader thread

    toServer,  \* frames on their way to the server
    toClient,  \* responses on their way to the client
    clientShut,\* the client shut its socket down
    serverEnd, \* the server's side of it
    serving,   \* the request the handler works on, at most one
    dangling,  \* the last line to the client lacks its end

    fired,     \* history: fire-and-forget requests accepted
    written,   \* history: requests on the wire
    late,      \* history: calls registered after a thread failed the pending ones
    garbled    \* history: requests whose response was glued to an unended line

clientVars == <<stage, id, nextId, pending, delivered, connected, dropped, queue>>
threadVars == <<writer, reader>>
wireVars == <<toServer, toClient, clientShut, serverEnd, serving, dangling>>
history == <<fired, written, late, garbled>>
vars == <<clientVars, threadVars, wireVars, history>>

Frames == [id : Nat, of : Requests]
Responses == [id : Nat, of : Requests, whole : BOOLEAN]
Slots == [id : Nat, call : Calls]

\* The types, and that an id is drawn once: every id in use is below next_id.
TypeOK ==
    /\ stage \in [Calls -> {"new", "checked", "registered", "waiting",
                            "answered", "failed", "expired"}]
    /\ id \in [Calls -> Nat]
    /\ nextId \in Nat
    /\ pending \subseteq Slots
    /\ delivered \subseteq Calls \X Requests
    /\ connected \in BOOLEAN /\ dropped \in BOOLEAN
    /\ queue \in Seq(Frames)
    /\ writer \in {"running", "leaving", "shut", "cleared", "gone"}
    /\ reader \in {"running", "leaving", "gone"}
    /\ toServer \in Seq(Frames) /\ toClient \in Seq(Responses)
    /\ clientShut \in BOOLEAN
    /\ serverEnd \in {"open", "write_shut", "closed"}
    /\ serving \subseteq Frames
    /\ dangling \in BOOLEAN
    /\ fired \subseteq Fires /\ written \subseteq Requests
    /\ late \subseteq Calls /\ garbled \subseteq Requests
    /\ \A c \in Calls : id[c] < nextId

Init ==
    /\ stage = [c \in Calls |-> "new"]
    /\ id = [c \in Calls |-> 0]
    /\ nextId = 1
    /\ pending = {} /\ delivered = {}
    /\ connected = TRUE /\ dropped = FALSE
    /\ queue = << >>
    /\ writer = "running" /\ reader = "running"
    /\ toServer = << >> /\ toClient = << >>
    /\ clientShut = FALSE /\ serverEnd = "open"
    /\ serving = {} /\ dangling = FALSE
    /\ fired = {} /\ written = {} /\ late = {} /\ garbled = {}

(***************************************************************************)
(* The calling threads: request_response, request_fire.                    *)
(***************************************************************************)

Goes(c, from, to) == stage[c] = from /\ stage' = [stage EXCEPT ![c] = to]

Without(n) == {slot \in pending : slot.id # n}

\* The check at the head of request_response.
Check(c) ==
    /\ IF connected THEN Goes(c, "new", "checked") ELSE Goes(c, "new", "failed")
    /\ UNCHANGED <<id, nextId, pending, delivered, connected, dropped, queue,
                   threadVars, wireVars, history>>

\* The slots c inserts for the id it drew; an older slot of that id is replaced.
RegisterAs(c, n, next) ==
    /\ Goes(c, "checked", "registered")
    /\ id' = [id EXCEPT ![c] = n]
    /\ nextId' = next
    /\ pending' = Without(n) \cup {[id |-> n, call |-> c]}
    /\ late' = IF reader = "gone" \/ writer \in {"cleared", "gone"}
               THEN late \cup {c} ELSE late
    /\ UNCHANGED <<delivered, connected, dropped, queue, threadVars, wireVars,
                   fired, written, garbled>>

\* Mutant of Register: every handle counts for itself.
RegisterOwnId(c) == RegisterAs(c, 1, 2)

Register(c) == RegisterAs(c, nextId, nextId + 1)

\* The frame goes to the writer's channel, if that still exists.
Send(c) ==
    /\ IF writer = "gone"
       THEN /\ Goes(c, "registered", "failed")
            /\ pending' = Without(id[c])
            /\ UNCHANGED queue
       ELSE /\ Goes(c, "registered", "waiting")
            /\ queue' = Append(queue, [id |-> id[c], of |-> c])
            /\ UNCHANGED pending
    /\ UNCHANGED <<id, nextId, delivered, connected, dropped, threadVars, wireVars, history>>

Answered(c) == \E r \in Requests : <<c, r>> \in delivered

\* recv_timeout has the response.
Return(c) ==
    /\ Answered(c)
    /\ Goes(c, "waiting", "answered")
    /\ UNCHANGED <<id, nextId, pending, delivered, connected, dropped, queue,
                   threadVars, wireVars, history>>

\* Its slot, and with it the sender, is gone.
Disconnected(c) ==
    /\ ~ Answered(c)
    /\ \A slot \in pending : slot.call # c
    /\ Goes(c, "waiting", "failed")
    /\ pending' = Without(id[c])
    /\ connected' = FALSE
    /\ UNCHANGED <<id, nextId, delivered, dropped, queue, threadVars, wireVars, history>>

\* The timeout.
Expire(c) ==
    /\ ~ Answered(c)
    /\ Goes(c, "waiting", "expired")
    /\ pending' = Without(id[c])
    /\ UNCHANGED <<id, nextId, delivered, connected, dropped, queue,
                   threadVars, wireVars, history>>

\* request_fire.
Fire(f) ==
    /\ connected /\ ~ dropped
    /\ writer # "gone"
    /\ f \notin fired
    /\ nextId' = nextId + 1
    /\ queue' = Append(queue, [id |-> nextId, of |-> f])
    /\ fired' = fired \cup {f}
    /\ UNCHANGED <<stage, id, pending, delivered, connected, dropped,
                   threadVars, wireVars, written, late, garbled>>

\* Mutant of Drop: the socket is shut down at once.
DropAndShut ==
    /\ ~ dropped
    /\ dropped' = TRUE
    /\ connected' = FALSE
    /\ pending' = {}
    /\ clientShut' = TRUE
    /\ UNCHANGED <<stage, id, nextId, delivered, queue, threadVars,
                   toServer, toClient, serverEnd, serving, dangling, history>>

\* SessionServerClient::drop; a reconnect drops the old client too.
Drop ==
    /\ ~ dropped
    /\ dropped' = TRUE
    /\ connected' = FALSE
    /\ pending' = {}
    /\ UNCHANGED <<stage, id, nextId, delivered, queue, threadVars, wireVars, history>>

(***************************************************************************)
(* The writer thread.                                                      *)
(***************************************************************************)

\* Every sender of the channel is gone: the client's and those of the handles.
ChannelClosed ==
    dropped /\ \A c \in Calls : stage[c] \notin {"checked", "registered", "waiting"}

Write ==
    /\ writer = "running"
    /\ queue # << >>
    /\ queue' = Tail(queue)
    /\ IF clientShut \/ serverEnd = "closed"
       THEN /\ connected' = FALSE
            /\ writer' = "leaving"
            /\ UNCHANGED <<toServer, written>>
       ELSE /\ toServer' = Append(toServer, Head(queue))
            /\ written' = written \cup {Head(queue).of}
            /\ UNCHANGED <<connected, writer>>
    /\ UNCHANGED <<stage, id, nextId, pending, delivered, dropped, reader,
                   toClient, clientShut, serverEnd, serving, dangling, fired, late, garbled>>

\* recv fails once the channel is closed and drained.
StopWriting ==
    /\ writer = "running"
    /\ queue = << >> /\ ChannelClosed
    /\ writer' = "leaving"
    /\ UNCHANGED <<clientVars, reader, wireVars, history>>

ShutDown ==
    /\ writer = "leaving"
    /\ writer' = "shut"
    /\ clientShut' = TRUE
    /\ UNCHANGED <<clientVars, reader, toServer, toClient, serverEnd, serving, dangling, history>>

\* fail_all_pending, at the end of the writer.
WriterFailsPending ==
    /\ writer = "shut"
    /\ writer' = "cleared"
    /\ pending' = {}
    /\ UNCHANGED <<stage, id, nextId, delivered, connected, dropped, queue, reader,
                   wireVars, history>>

\* The thread's closure ends, and with it the channel's receiver.
WriterEnds ==
    /\ writer = "cleared"
    /\ writer' = "gone"
    /\ queue' = << >>
    /\ UNCHANGED <<stage, id, nextId, pending, delivered, connected, dropped, reader,
                   wireVars, history>>

(***************************************************************************)
(* The reader thread.                                                      *)
(***************************************************************************)

\* A response goes to the slot of its id; a line that does not parse is skipped.
Read ==
    /\ reader = "running"
    /\ toClient # << >>
    /\ toClient' = Tail(toClient)
    /\ LET line == Head(toClient)
           slots == {slot \in pending : line.whole /\ slot.id = line.id}
       IN  /\ pending' = pending \ slots
           /\ delivered' = delivered \cup {<<slot.call, line.of>> : slot \in slots}
    /\ UNCHANGED <<stage, id, nextId, connected, dropped, queue, threadVars,
                   toServer, clientShut, serverEnd, serving, dangling, history>>

\* End of file, or an error once the server is gone.
StopReading ==
    /\ reader = "running"
    /\ \/ toClient = << >> /\ (clientShut \/ serverEnd # "open")
       \/ serverEnd = "closed"
    /\ reader' = "leaving"
    /\ connected' = FALSE
    /\ UNCHANGED <<stage, id, nextId, pending, delivered, dropped, queue, writer,
                   wireVars, history>>

\* A notification finds that the pump dropped its receiver.
PumpIsGone ==
    /\ reader = "running"
    /\ serverEnd = "open" /\ ~ dangling
    /\ reader' = "leaving"
    /\ connected' = FALSE
    /\ UNCHANGED <<stage, id, nextId, pending, delivered, dropped, queue, writer,
                   wireVars, history>>

\* Mutant of ReaderFailsPending: who waits is left to its timeout.
ReaderJustEnds ==
    /\ reader = "leaving"
    /\ reader' = "gone"
    /\ UNCHANGED <<clientVars, writer, wireVars, history>>

\* fail_all_pending, at the end of the reader.
ReaderFailsPending ==
    /\ reader = "leaving"
    /\ reader' = "gone"
    /\ pending' = {}
    /\ UNCHANGED <<stage, id, nextId, delivered, connected, dropped, queue, writer,
                   wireVars, history>>

(***************************************************************************)
(* The server's side: handle_connection.                                   *)
(***************************************************************************)

\* The next request.
Serve ==
    /\ serverEnd # "closed" /\ serving = {}
    /\ toServer # << >>
    /\ serving' = {Head(toServer)}
    /\ toServer' = Tail(toServer)
    /\ UNCHANGED <<clientVars, threadVars, toClient, clientShut, serverEnd, dangling, history>>

\* Its response; a failed write ends the connection.
Respond ==
    /\ serverEnd # "closed"
    /\ \E request \in serving :
          IF clientShut \/ serverEnd = "write_shut"
          THEN /\ serverEnd' = "closed"
               /\ UNCHANGED <<toClient, dangling, garbled>>
          ELSE /\ toClient' = Append(toClient, [id |-> request.id, of |-> request.of,
                                                whole |-> ~ dangling])
               /\ garbled' = IF dangling THEN garbled \cup {request.of} ELSE garbled
               /\ dangling' = FALSE
               /\ UNCHANGED serverEnd
    /\ serving' = {}
    /\ UNCHANGED <<clientVars, threadVars, toServer, clientShut, fired, written, late>>

\* A forwarder's write times out half way, or an attach or a detach aborts the
\* forwarder in the middle of it.
Tear ==
    /\ serverEnd = "open" /\ ~ dangling
    /\ dangling' = TRUE
    /\ UNCHANGED <<clientVars, threadVars, toServer, toClient, clientShut, serverEnd,
                   serving, history>>

\* A notification is written: it, and not a response, is glued to the unended line.
Notify ==
    /\ serverEnd = "open" /\ dangling
    /\ dangling' = FALSE
    /\ UNCHANGED <<clientVars, threadVars, toServer, toClient, clientShut, serverEnd,
                   serving, history>>

\* The high-water disconnect shuts the write half.
Evict ==
    /\ serverEnd = "open"
    /\ serverEnd' = "write_shut"
    /\ UNCHANGED <<clientVars, threadVars, toServer, toClient, clientShut,
                   serving, dangling, history>>

\* The server dies, or a response write stalls.
Close ==
    /\ serverEnd # "closed"
    /\ serverEnd' = "closed"
    /\ serving' = {}
    /\ UNCHANGED <<clientVars, threadVars, toServer, toClient, clientShut, dangling, history>>

\* The read loop sees the client's end.
CloseAtEof ==
    /\ clientShut /\ toServer = << >> /\ serving = {}
    /\ Close

CallerStep(c) == Register(c) \/ Send(c) \/ Return(c) \/ Disconnected(c)

WriterStep == Write \/ StopWriting \/ ShutDown \/ WriterFailsPending \/ WriterEnds

ReaderStep == Read \/ StopReading \/ ReaderFailsPending

HandlerStep == Serve \/ Respond \/ CloseAtEof

Next ==
    \/ \E c \in Calls : Check(c) \/ CallerStep(c) \/ Expire(c)
    \/ \E f \in Fires : Fire(f)
    \/ Drop
    \/ WriterStep
    \/ ReaderStep
    \/ HandlerStep
    \/ Tear \/ Notify \/ Evict \/ Close \/ PumpIsGone

\* Threads and the handler run on; nobody has to call, to fire, to drop the client or
\* its pump or to break the connection, and no timeout has to fire.
Fairness ==
    /\ \A c \in Calls : WF_vars(CallerStep(c))
    /\ WF_vars(WriterStep) /\ WF_vars(ReaderStep) /\ WF_vars(HandlerStep)

Spec == Init /\ [][Next]_vars /\ Fairness

(***************************************************************************)
(* Properties.                                                             *)
(***************************************************************************)

\* A slot belongs to the call that drew its id and still waits, and no call is ever
\* handed the response to another request - not after a timeout, nor by a handle
\* that shares the connection ("two callers could steal each other's responses",
\* "a late response can never resurrect an already-timed-out entry").
RoutedToItsCaller ==
    /\ \A slot \in pending :
          id[slot.call] = slot.id /\ stage[slot.call] \in {"registered", "waiting"}
    /\ \A d \in delivered : d[1] = d[2]

\* A request fired before the client was dropped is on the wire before the client
\* shuts the socket down ("a fire-and-forget prompt sent just before drop").
FiredIsWritten ==
    clientShut /\ serverEnd # "closed" => fired \subseteq written

\* No call needs its timeout: none waits for ever, as it is answered or fails when the
\* connection does.  Two exceptions, both of which wait for it: a call that passed the check and
\* registered only after a thread had failed the pending ones, and one whose
\* response was glued to what an interrupted forwarder left.  (fail_all_pending.)
CallEnds ==
    <>[](\A c \in Calls : stage[c] = "waiting" => c \in late \cup garbled)
=============================================================================
