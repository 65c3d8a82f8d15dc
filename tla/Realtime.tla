------------------------------ MODULE Realtime ------------------------------
(***************************************************************************)
(* Realtime: one room of the realtime gateway (realtime/gateway.ts,        *)
(* catchup.ts) and a client that follows it over disconnections.  Live     *)
(* delivery is at most once: an event may never reach the room's stream,   *)
(* and a gateway may miss one that does.  The stream is bounded, and       *)
(* appending to it publishes in the same step.  The client is the one the  *)
(* reliability notes ask for: subscribe, then ask for what came after the  *)
(* last event processed, holding live events back until the answer.        *)
(***************************************************************************)
EXTENDS Integers, Sequences, FiniteSets, FiniteSetsExt

CONSTANTS
    Limit,       \* REALTIME_CATCHUP_LIMIT
    MaxEvents,   \* bound
    Budgets      \* what a behaviour may use up: [drops, expiries, faults]

\* What the constants may be; MCBackend assumes it of its instance.
RealtimeAssumption ==
    /\ Limit \in Nat \ {0} /\ MaxEvents \in Nat
    /\ \A b \in Budgets : {b.drops, b.expiries, b.faults} \subseteq Nat

VARIABLES
    published,   \* the events of the room so far, 1 .. published, in the rows they are about
    stream,      \* those that are in the stream
    heard,       \* how far the gateway's subscriber has come
    missed,      \* those that were not appended, or were published to a gateway that missed them
                 \* while the client was in the room
    socket,      \* the server's side: [connected, joined, refused], refused when the rate limit
                 \* dropped a request
    toServer,    \* the client's requests, in order
    toClient,    \* what the server sent, in order
    client,      \* [mode, last, known, held]: last event processed, what it knows, what it holds back
    budget

vars == <<published, stream, heard, missed, socket, toServer, toClient, client, budget>>

Spend(what) == budget[what] > 0 /\ budget' = [budget EXCEPT ![what] = @ - 1]

Off == [connected |-> FALSE, joined |-> FALSE, refused |-> FALSE]
Live(e) == [type |-> "live", id |-> e, events |-> {}, refresh |-> FALSE]
Answer(es, r) == [type |-> "answer", id |-> 0, events |-> es, refresh |-> r]
FirstIs(queue, type) == queue # <<>> /\ queue[1].type = type

-----------------------------------------------------------------------------
(* The server. *)

\* publishRoomEvent: the stream keeps the last Limit events.
PublishRoomEvent ==
    /\ published < MaxEvents
    /\ published' = published + 1
    /\ stream' = {published'} \cup (IF Cardinality(stream) < Limit THEN stream
                                    ELSE {e \in stream : \E d \in stream : d < e})
    /\ UNCHANGED <<heard, missed, socket, toServer, toClient, client, budget>>

\* bufferEvent logs a failed append and drops it: the event is in the rows only.
AppendFails ==
    /\ published < MaxEvents /\ Spend("faults")
    /\ published' = published + 1
    /\ missed' = missed \cup {published'}
    /\ UNCHANGED <<stream, heard, socket, toServer, toClient, client>>

\* The stream expires after an hour without events.
StreamExpires ==
    /\ stream # {} /\ Spend("expiries")
    /\ stream' = {}
    /\ UNCHANGED <<published, heard, missed, socket, toServer, toClient, client>>

\* The gateway's subscriber passes an event to the sockets in the room.
Relay ==
    /\ heard < published
    /\ heard' = heard + 1
    /\ toClient' = IF socket.joined /\ heard' \notin missed THEN Append(toClient, Live(heard')) ELSE toClient
    /\ UNCHANGED <<published, stream, missed, socket, toServer, client, budget>>

\* Its connection to redis is away, and what is published meanwhile is not kept for it.
Miss ==
    /\ heard < published /\ socket.joined /\ Spend("faults")
    /\ heard' = heard + 1
    /\ missed' = missed \cup {heard'}
    /\ UNCHANGED <<published, stream, socket, toServer, toClient, client>>

\* subscribe:notifications, subscribe:creator, subscribe:leaderboard.
Join ==
    /\ FirstIs(toServer, "subscribe")
    /\ socket' = [socket EXCEPT !.joined = TRUE]
    /\ toServer' = Tail(toServer)
    /\ UNCHANGED <<published, stream, heard, missed, toClient, client, budget>>

\* guardEventRate: the handler returns, and nothing answers the request.
Refuse ==
    /\ toServer # <<>> /\ Spend("faults")
    /\ socket' = [socket EXCEPT !.refused = TRUE]
    /\ toServer' = Tail(toServer)
    /\ UNCHANGED <<published, stream, heard, missed, toClient, client>>

\* As if a cursor that is not in the stream had nothing after it.
CatchUpSilent(last) == Answer({e \in stream : e > last}, FALSE)

\* catchUp: what follows the cursor, which has to be in the stream.
CatchUp(last) ==
    IF last \in stream THEN Answer({e \in stream : e > last}, FALSE) ELSE Answer({}, TRUE)

\* The realtime:catchup handler: of a room the socket is in; a failure asks for a refresh too.
HandleCatchup ==
    /\ FirstIs(toServer, "catchup")
    /\ \/ /\ toClient' = Append(toClient, IF socket.joined THEN CatchUp(toServer[1].last)
                                          ELSE Answer({}, TRUE))
          /\ UNCHANGED budget
       \/ /\ Spend("faults")
          /\ toClient' = Append(toClient, Answer({}, TRUE))
    /\ toServer' = Tail(toServer)
    /\ UNCHANGED <<published, stream, heard, missed, socket, client>>

\* The connection breaks, or scheduleTokenExpiry ends it: what was on its way is lost.
Disconnect ==
    /\ socket.connected /\ Spend("drops")
    /\ socket' = Off
    /\ toServer' = <<>> /\ toClient' = <<>>
    /\ client' = [client EXCEPT !.mode = "off", !.held = {}]
    /\ UNCHANGED <<published, stream, heard, missed>>

-----------------------------------------------------------------------------
(* The client of the reliability notes. *)

\* A client with no cursor (0) asks for nothing it could miss: it refreshes.
Connect ==
    /\ ~socket.connected
    /\ socket' = [Off EXCEPT !.connected = TRUE]
    /\ toServer' = << [type |-> "subscribe", last |-> 0], [type |-> "catchup", last |-> client.last] >>
    /\ client' = [client EXCEPT !.mode = "replay"]
    /\ UNCHANGED <<published, stream, heard, missed, toClient, budget>>

\* Events in order, those it has left out.
Apply(c, es) == [c EXCEPT !.known = @ \cup es, !.last = Max({@} \cup es)]

\* The answer, then what was held back; or a refresh, which reads all there is.
TakeAnswer ==
    /\ FirstIs(toClient, "answer")
    /\ LET m == toClient[1]
           base == IF m.refresh THEN [client EXCEPT !.known = 1..published] ELSE client IN
       client' = [Apply(base, m.events \cup client.held) EXCEPT !.mode = "live", !.held = {}]
    /\ toClient' = Tail(toClient)
    /\ UNCHANGED <<published, stream, heard, missed, socket, toServer, budget>>

TakeLive ==
    /\ FirstIs(toClient, "live")
    /\ client' = IF client.mode = "replay" THEN [client EXCEPT !.held = @ \cup {toClient[1].id}]
                 ELSE Apply(client, {toClient[1].id})
    /\ toClient' = Tail(toClient)
    /\ UNCHANGED <<published, stream, heard, missed, socket, toServer, budget>>

Quiet == UNCHANGED vars

-----------------------------------------------------------------------------
Init ==
    /\ published = 0 /\ stream = {} /\ heard = 0 /\ missed = {}
    /\ socket = Off
    /\ toServer = <<>> /\ toClient = <<>>
    /\ client = [mode |-> "off", last |-> 0, known |-> {}, held |-> {}]
    /\ budget \in Budgets

Next ==
    \/ PublishRoomEvent \/ AppendFails \/ StreamExpires \/ Relay \/ Miss \/ Join \/ Refuse
    \/ HandleCatchup \/ Disconnect \/ Connect \/ TakeAnswer \/ TakeLive \/ Quiet

\* The gateway and the client go on, and the client connects again.
Spec ==
    /\ Init /\ [][Next]_vars
    /\ WF_vars(Relay \/ Join \/ HandleCatchup \/ Connect \/ TakeAnswer \/ TakeLive)

-----------------------------------------------------------------------------
(* Properties. *)

TypeOK ==
    /\ {published, heard, client.last} \subseteq 0..MaxEvents
    /\ stream \cup missed \cup client.known \cup client.held \subseteq 1..MaxEvents
    /\ socket \in [connected : BOOLEAN, joined : BOOLEAN, refused : BOOLEAN]
    /\ client.mode \in {"off", "replay", "live"}

\* Below an event it knows a client lacks only what was missed live or never appended: trimming,
\* expiry, disconnections and what crosses the answer add no gap (catchup.ts:53-63,
\* gateway.ts:146-164).
GapsForCause ==
    \A e \in client.known : \A d \in 1..e : d \in client.known \cup missed

\* Every other event becomes known, once the connection stays and no request of it was refused.
UpToDate == socket.refused \/ 1..published \subseteq client.known \cup missed
EveryEventArrives == <>[]UpToDate

=============================================================================
