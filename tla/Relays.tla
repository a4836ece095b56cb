------------------------------- MODULE Relays -------------------------------
(***************************************************************************)
(* Requests relayed over the gateway's WebSocket: an action or a view the  *)
(* gateway asks of a console, the live stream of a console's terminal that *)
(* a Mini App watches, and the notification an agent asks of the gateway.  *)
(* Each end keeps a map of pending requests with a timer per request; an   *)
(* answer is matched by its identity alone, whichever socket brings it.    *)
(* One client with one console is modelled, over successive sockets.       *)
(***************************************************************************)
EXTENDS Naturals, Sequences, SequencesExt, FiniteSets

CONSTANTS Calls,      \* one-shot requests: an action, a view, a resize
          Streams,    \* live streams, one per visit of the Mini App
          Notices,    \* agent notifications
          Sockets,    \* the client's connections, numbered
          MaxEvents,  \* bound on the terminal output sent on one stream
          MaxRequests,  \* bound on the requests of one behaviour
          NoSocket

ASSUME RelaysAssumption ==
  /\ Sockets \subseteq Nat /\ IsFiniteSet(Sockets) /\ NoSocket \notin Sockets
  /\ MaxEvents \in Nat /\ MaxRequests \in Nat

Requests == [kind : {"call"}, of : Calls] \cup [kind : {"notify"}, of : Notices]
              \cup [kind : {"subscribe", "unsubscribe"}, of : Streams]

Subscribe(v) == [kind |-> "subscribe", of |-> v]
Unsubscribe(v) == [kind |-> "unsubscribe", of |-> v]

Settled == {"ok", "error", "timeout", "refused", "shutdown"}

VARIABLES
  promise,           \* what the caller of each request has been told
  connectedClients,  \* greeted sockets in the order of the Map
  connectedClientsByUuid, \* the socket of the client's latest hello
  near,              \* the gateway's end of a socket
  liveStreamHandlers,
  viewer,            \* the Mini App visit behind a stream (http.ts)
  stopped,           \* the gateway service is stopping
  wsClient,          \* the client's current socket
  far,               \* the client's end of a socket
  working,           \* requests whose handler is running, and where
  localLiveStreamSubscriptions,
  done,              \* requests that have taken effect
  sent,              \* events sent so far on a stream
  down, up,          \* messages in flight to the client, whose handlers run
                     \* side by side whatever their order, and to the gateway
  cut                \* streams a closing socket has taken from their viewer

gateway == <<connectedClients, connectedClientsByUuid, near, liveStreamHandlers,
             viewer, stopped, cut>>
client == <<wsClient, far, localLiveStreamSubscriptions, sent>>
wires == <<down, up>>
relaysVars == <<promise, gateway, client, working, done, wires>>

Messages ==
  [type : {"hello"}] \cup [type : {"event"}, of : Streams]
    \cup [type : {"request"}, r : Requests]
    \cup [type : {"answer"}, r : Requests, ok : BOOLEAN]

Answer(r, ok) == [type |-> "answer", r |-> r, ok |-> ok]

RelaysTypeOK ==
  /\ promise \in [Requests -> {"unsent", "pending"} \cup Settled]
  /\ connectedClients \in Seq(Sockets)
  /\ connectedClientsByUuid \in Sockets \cup {NoSocket}
  /\ near \in [Sockets -> {"none", "open", "closed"}]
  /\ liveStreamHandlers \subseteq Streams
  /\ viewer \in [Streams -> {"none", "opening", "open", "gone", "closed"}]
  /\ stopped \in BOOLEAN
  /\ cut \subseteq Streams
  /\ wsClient \in Sockets \cup {NoSocket}
  /\ far \in [Sockets -> {"new", "connecting", "open", "closed"}]
  /\ localLiveStreamSubscriptions \subseteq Streams
  /\ sent \in [Streams -> 0..MaxEvents]
  /\ working \subseteq Requests \X Sockets
  /\ done \subseteq Requests
  /\ down \in [Sockets -> SUBSET Messages]
  /\ up \in [Sockets -> Seq(Messages)]

RelaysInit ==
  /\ promise = [r \in Requests |-> "unsent"]
  /\ connectedClients = <<>>
  /\ connectedClientsByUuid = NoSocket
  /\ near = [s \in Sockets |-> "none"]
  /\ liveStreamHandlers = {}
  /\ viewer = [v \in Streams |-> "none"]
  /\ stopped = FALSE
  /\ cut = {}
  /\ wsClient = NoSocket
  /\ far = [s \in Sockets |-> "new"]
  /\ localLiveStreamSubscriptions = {}
  /\ sent = [v \in Streams |-> 0]
  /\ working = {}
  /\ done = {}
  /\ down = [s \in Sockets |-> {}]
  /\ up = [s \in Sockets |-> <<>>]

-----------------------------------------------------------------------------
(* Connections.                                                            *)

(* The reconnect timer takes the next socket unless one is in use.          *)
startGatewayWsClient(s) ==
  /\ wsClient = NoSocket /\ ~stopped
  /\ far[s] = "new" /\ \A t \in Sockets : t < s => far[t] # "new"
  /\ far' = [far EXCEPT ![s] = "connecting"]
  /\ wsClient' = s
  /\ UNCHANGED <<promise, gateway, localLiveStreamSubscriptions, sent, working,
                 done, wires>>

Opened(s) ==
  /\ far[s] = "connecting" /\ ~stopped
  /\ far' = [far EXCEPT ![s] = "open"]
  /\ near' = [near EXCEPT ![s] = "open"]
  /\ UNCHANGED <<promise, connectedClients, connectedClientsByUuid,
                 liveStreamHandlers, viewer, stopped, cut, wsClient,
                 localLiveStreamSubscriptions, sent, working, done, wires>>

(* The hello of the open event, or a refresh of it: both come after awaits,  *)
(* so a notification may be sent first.  At most one is in flight.           *)
sendClientHello(s) ==
  /\ far[s] = "open" /\ wsClient = s
  /\ \A i \in DOMAIN up[s] : up[s][i].type # "hello"
  /\ up' = [up EXCEPT ![s] = Append(@, [type |-> "hello"])]
  /\ UNCHANGED <<promise, gateway, client, working, done, down>>

(* The client's end goes: an error, or the heartbeat found no pong.  What it *)
(* had sent may still arrive; what was on its way to it is lost.             *)
(* Bound: only while another socket is left to follow.                       *)
ClientSocketCloses(s) ==
  /\ far[s] \in {"connecting", "open"}
  /\ near[s] = "closed" \/ stopped \/ \E t \in Sockets : t > s
  /\ far' = [far EXCEPT ![s] = "closed"]
  /\ wsClient' = IF wsClient = s THEN NoSocket ELSE wsClient
  /\ down' = [down EXCEPT ![s] = {}]
  /\ UNCHANGED <<promise, gateway, localLiveStreamSubscriptions, sent, working,
                 done, up>>

(* delete of a Map: a key has one entry.                                     *)
Without(q, s) ==
  IF Contains(q, s) THEN RemoveAt(q, CHOOSE i \in DOMAIN q : q[i] = s) ELSE q

(* The by-uuid entry when s closes and left remain.                          *)
Successor_none(s, left) ==
  IF connectedClientsByUuid = s THEN NoSocket ELSE connectedClientsByUuid

Successor(s, left) ==
  IF connectedClientsByUuid # s THEN connectedClientsByUuid
  ELSE IF left = <<>> THEN NoSocket ELSE Head(left)

(* The gateway's close handler.  It ends the streams of the client, not those *)
(* of the socket.                                                            *)
GatewaySocketCloses(s) ==
  LET left == Without(connectedClients, s) IN
  /\ near[s] = "open"
  /\ far[s] = "closed" \/ \E t \in Sockets : t > s
  /\ near' = [near EXCEPT ![s] = "closed"]
  /\ connectedClients' = left
  /\ IF Contains(connectedClients, s)
     THEN /\ connectedClientsByUuid' = Successor(s, left)
          /\ cut' = cut \cup liveStreamHandlers
          /\ liveStreamHandlers' = {}
     ELSE UNCHANGED <<connectedClientsByUuid, cut, liveStreamHandlers>>
  /\ up' = [up EXCEPT ![s] = <<>>]
  /\ UNCHANGED <<promise, viewer, stopped, client, working, done, down>>

(* closeGatewayWsResources on the gateway: every pending request is rejected *)
(* and every stream forgotten; the sockets are closed.                       *)
closeGatewayWsResources ==
  /\ ~stopped
  /\ stopped' = TRUE
  /\ promise' = [r \in Requests |->
       IF promise[r] = "pending" /\ r.kind # "notify" THEN "shutdown" ELSE promise[r]]
  /\ liveStreamHandlers' = {}
  /\ cut' = cut \cup liveStreamHandlers
  /\ near' = [s \in Sockets |-> IF near[s] = "open" THEN "closed" ELSE near[s]]
  /\ connectedClients' = <<>>
  /\ connectedClientsByUuid' = NoSocket
  /\ up' = [s \in Sockets |-> <<>>]
  /\ viewer' = [v \in Streams |->
       IF promise[Subscribe(v)] = "pending" THEN "closed" ELSE viewer[v]]
  /\ UNCHANGED <<client, working, done, down>>

-----------------------------------------------------------------------------
(* The gateway asks.                                                       *)

findConnectedSocketForSession ==
  IF connectedClients = <<>> THEN NoSocket ELSE Head(connectedClients)

(* Bound: the requests of one behaviour.                                     *)
MayAsk(r) ==
  /\ promise[r] = "unsent"
  /\ Cardinality({q \in Requests : promise[q] # "unsent"}) < MaxRequests

(* The promise is refused at once without an open socket; otherwise the      *)
(* pending record and its timer are set before the frame is sent.            *)
Ask(r, s) ==
  IF s = NoSocket
  THEN /\ promise' = [promise EXCEPT ![r] = "refused"]
       /\ UNCHANGED down
  ELSE /\ promise' = [promise EXCEPT ![r] = "pending"]
       /\ down' = IF far[s] # "open" THEN down
                  ELSE [down EXCEPT ![s] = @ \cup {[type |-> "request", r |-> r]}]

(* With a session_id the first socket that lists it, without one the socket  *)
(* of the latest hello.                                                      *)
requestClientAction(r) ==
  /\ r.kind = "call" /\ MayAsk(r) /\ ~stopped
  /\ \E s \in {findConnectedSocketForSession, connectedClientsByUuid} : Ask(r, s)
  /\ UNCHANGED <<gateway, client, working, done, up>>

(* A Mini App opens the live socket: the handler is set before the request.  *)
openLiveRelayStream(v) ==
  /\ viewer[v] = "none" /\ MayAsk(Subscribe(v)) /\ ~stopped
  /\ Ask(Subscribe(v), findConnectedSocketForSession)
  /\ IF findConnectedSocketForSession = NoSocket
     THEN viewer' = [viewer EXCEPT ![v] = "closed"] /\ UNCHANGED liveStreamHandlers
     ELSE /\ viewer' = [viewer EXCEPT ![v] = "opening"]
          /\ liveStreamHandlers' = liveStreamHandlers \cup {v}
  /\ UNCHANGED <<connectedClients, connectedClientsByUuid, near, stopped, cut,
                 client, working, done, up>>

(* The Mini App leaves.  While the stream is still opening relayStreamClose  *)
(* is not known yet, so the cleanup has nothing to close.                    *)
ViewerLeaves(v) ==
  \/ /\ viewer[v] = "opening"
     /\ viewer' = [viewer EXCEPT ![v] = "gone"]
     /\ UNCHANGED <<promise, connectedClients, connectedClientsByUuid, near,
                    liveStreamHandlers, stopped, cut, client, working, done, wires>>
  \/ /\ viewer[v] = "open" /\ MayAsk(Unsubscribe(v))
     /\ viewer' = [viewer EXCEPT ![v] = "closed"]
     /\ liveStreamHandlers' = liveStreamHandlers \ {v}
     /\ Ask(Unsubscribe(v), findConnectedSocketForSession)
     /\ UNCHANGED <<connectedClients, connectedClientsByUuid, near, stopped, cut,
                    client, working, done, up>>

(* What the caller of a settled request does next: openLiveRelayStream drops *)
(* its handler when the request failed.                                      *)
Settle_keepsHandler(r, outcome) ==
  /\ promise' = [promise EXCEPT ![r] = outcome]
  /\ viewer' = IF r.kind # "subscribe" THEN viewer
               ELSE [viewer EXCEPT ![r.of] =
                       IF outcome # "ok" THEN "closed"
                       ELSE IF @ = "opening" THEN "open" ELSE @]
  /\ UNCHANGED liveStreamHandlers

Settle(r, outcome) ==
  /\ promise' = [promise EXCEPT ![r] = outcome]
  /\ IF r.kind # "subscribe" THEN UNCHANGED <<viewer, liveStreamHandlers>>
     ELSE IF outcome = "ok"
     THEN /\ viewer' = [viewer EXCEPT ![r.of] = IF @ = "opening" THEN "open" ELSE @]
          /\ UNCHANGED liveStreamHandlers
     ELSE /\ viewer' = [viewer EXCEPT ![r.of] = "closed"]
          /\ liveStreamHandlers' = liveStreamHandlers \ {r.of}

Timeout_whileConnected(r) ==
  /\ promise[r] = "pending" /\ connectedClients # <<>>
  /\ Settle(r, "timeout")
  /\ UNCHANGED <<connectedClients, connectedClientsByUuid, near, stopped, cut,
                 client, working, done, wires>>

(* LIVE_REQUEST_TIMEOUT_MS: the record goes and the caller is told.          *)
Timeout(r) ==
  /\ promise[r] = "pending"
  /\ Settle(r, "timeout")
  /\ UNCHANGED <<connectedClients, connectedClientsByUuid, near, stopped, cut,
                 client, working, done, wires>>

-----------------------------------------------------------------------------
(* The gateway hears.                                                      *)

Hears(s, type) ==
  /\ near[s] = "open" /\ up[s] # <<>> /\ Head(up[s]).type = type
  /\ up' = [up EXCEPT ![s] = Tail(@)]

handleHello(s) ==
  /\ Hears(s, "hello")
  /\ connectedClients' = IF Contains(connectedClients, s) THEN connectedClients
                         ELSE Append(connectedClients, s)
  /\ connectedClientsByUuid' = s
  /\ UNCHANGED <<promise, near, liveStreamHandlers, viewer, stopped, cut, client,
                 working, done, down>>

handleAnswer_late(s) ==
  LET m == Head(up[s]) IN
  /\ Hears(s, "answer")
  /\ Settle(m.r, IF m.ok THEN "ok" ELSE "error")
  /\ UNCHANGED <<connectedClients, connectedClientsByUuid, near, stopped, cut,
                 client, working, done, down>>

(* live_response and action_response: an answer nobody waits for is dropped. *)
handleAnswer(s) ==
  LET m == Head(up[s]) IN
  /\ Hears(s, "answer")
  /\ IF promise[m.r] = "pending" THEN Settle(m.r, IF m.ok THEN "ok" ELSE "error")
     ELSE UNCHANGED <<promise, viewer, liveStreamHandlers>>
  /\ UNCHANGED <<connectedClients, connectedClientsByUuid, near, stopped, cut,
                 client, working, done, down>>

(* live_stream_event: onEvent of the stream's handler, if it still has one.  *)
handleStreamEvent(s) ==
  /\ Hears(s, "event")
  /\ UNCHANGED <<promise, gateway, client, working, done, down>>

(* agent_notification_request: only from a socket whose hello lists the      *)
(* session.  The notification is sent through Telegram, which may fail, and  *)
(* the answer goes back on the socket that asked.                            *)
handleAgentNotification(s) ==
  LET r == Head(up[s]).r IN
  /\ Hears(s, "request")
  /\ IF Contains(connectedClients, s)
     THEN working' = working \cup {<<r, s>>} /\ UNCHANGED down
     ELSE /\ down' = IF far[s] # "open" THEN down
                     ELSE [down EXCEPT ![s] = @ \cup {Answer(r, FALSE)}]
          /\ UNCHANGED working
  /\ UNCHANGED <<promise, gateway, client, done>>

sendForGatewaySession(r, s) ==
  /\ <<r, s>> \in working /\ r.kind = "notify"
  /\ working' = working \ {<<r, s>>}
  /\ \E ok \in BOOLEAN :
       /\ done' = IF ok THEN done \cup {r} ELSE done
       /\ down' = IF near[s] # "open" \/ far[s] # "open" THEN down
                  ELSE [down EXCEPT ![s] = @ \cup {Answer(r, ok)}]
  /\ UNCHANGED <<promise, gateway, client, up>>

-----------------------------------------------------------------------------
(* The client.                                                             *)

(* this.wsClient?.send: whichever socket is current.  Without one the frame  *)
(* is dropped, and send on a socket that is still connecting throws.         *)
Throws == wsClient # NoSocket /\ far[wsClient] = "connecting"
SentUp(m) ==
  IF wsClient = NoSocket \/ Throws \/ near[wsClient] # "open" THEN up
  ELSE [up EXCEPT ![wsClient] = Append(@, m)]

publishAgentNotification(r) ==
  /\ r.kind = "notify" /\ MayAsk(r)
  /\ IF wsClient = NoSocket \/ Throws
     THEN promise' = [promise EXCEPT ![r] = "refused"] /\ UNCHANGED up
     ELSE /\ promise' = [promise EXCEPT ![r] = "pending"]
          /\ up' = SentUp([type |-> "request", r |-> r])
  /\ UNCHANGED <<gateway, client, working, done, down>>

(* The handler of a request starts; several run side by side.                *)
handleRequest(s) ==
  /\ far[s] = "open"
  /\ \E m \in down[s] : /\ m.type = "request"
                        /\ down' = [down EXCEPT ![s] = @ \ {m}]
                        /\ working' = working \cup {<<m.r, s>>}
  /\ UNCHANGED <<promise, gateway, client, done, up>>

handleNotificationAnswer(s) ==
  /\ far[s] = "open"
  /\ \E m \in down[s] :
       /\ m.type = "answer"
       /\ down' = [down EXCEPT ![s] = @ \ {m}]
       /\ promise' = IF promise[m.r] # "pending" THEN promise
                     ELSE [promise EXCEPT ![m.r] = IF m.ok THEN "ok" ELSE "error"]
  /\ UNCHANGED <<gateway, client, working, done, up>>

processCall_errorAsResult(r, s) ==
  /\ <<r, s>> \in working /\ r.kind = "call"
  /\ working' = working \ {<<r, s>>}
  /\ \E ok \in BOOLEAN : done' = IF ok THEN done \cup {r} ELSE done
  /\ up' = SentUp(Answer(r, TRUE))
  /\ UNCHANGED <<promise, gateway, client, down>>

(* The action or view runs and answers.  Should the answer throw, the error  *)
(* handler's own answer throws as well.                                      *)
processCall(r, s) ==
  /\ <<r, s>> \in working /\ r.kind = "call"
  /\ working' = working \ {<<r, s>>}
  /\ \E ok \in BOOLEAN :
       /\ done' = IF ok THEN done \cup {r} ELSE done
       /\ up' = SentUp(Answer(r, ok))
  /\ UNCHANGED <<promise, gateway, client, down>>

(* The stream_id of the payload, the key of the client's map.                *)
StreamOf(r) == r.of

(* After the awaits of stream_subscribe: the snapshot is sent, and if that   *)
(* throws nothing is subscribed and the answer throws too.                   *)
processSubscribe(r, s) ==
  /\ <<r, s>> \in working /\ r.kind = "subscribe"
  /\ working' = working \ {<<r, s>>}
  /\ \/ /\ ~Throws
        /\ localLiveStreamSubscriptions' = localLiveStreamSubscriptions \cup {StreamOf(r)}
        /\ done' = done \cup {r}
        /\ up' = SentUp(Answer(r, TRUE))
     \/ /\ up' = SentUp(Answer(r, FALSE))
        /\ UNCHANGED <<localLiveStreamSubscriptions, done>>
  /\ UNCHANGED <<promise, gateway, wsClient, far, sent, down>>

processUnsubscribe_keeps(r, s) ==
  /\ <<r, s>> \in working /\ r.kind = "unsubscribe"
  /\ working' = working \ {<<r, s>>}
  /\ done' = done \cup {r}
  /\ up' = SentUp(Answer(r, TRUE))
  /\ UNCHANGED <<promise, gateway, client, down>>

processUnsubscribe(r, s) ==
  /\ <<r, s>> \in working /\ r.kind = "unsubscribe"
  /\ working' = working \ {<<r, s>>}
  /\ localLiveStreamSubscriptions' = localLiveStreamSubscriptions \ {StreamOf(r)}
  /\ done' = done \cup {r}
  /\ up' = SentUp(Answer(r, TRUE))
  /\ UNCHANGED <<promise, gateway, wsClient, far, sent, down>>

(* The terminal writes: its subscriber sends what it wrote.                  *)
onData(v) ==
  /\ v \in localLiveStreamSubscriptions /\ sent[v] < MaxEvents
  /\ sent' = [sent EXCEPT ![v] = @ + 1]
  /\ up' = SentUp([type |-> "event", of |-> v])
  /\ UNCHANGED <<promise, gateway, wsClient, far, localLiveStreamSubscriptions,
                 working, done, down>>

-----------------------------------------------------------------------------
Connections ==
  \/ \E s \in Sockets : startGatewayWsClient(s) \/ Opened(s) \/ sendClientHello(s)
                          \/ ClientSocketCloses(s) \/ GatewaySocketCloses(s)
  \/ closeGatewayWsResources

Asking ==
  \/ \E r \in Requests : requestClientAction(r) \/ publishAgentNotification(r)
                           \/ Timeout(r)
  \/ \E v \in Streams : openLiveRelayStream(v) \/ ViewerLeaves(v) \/ onData(v)

Handling ==
  \E s \in Sockets :
    \/ handleHello(s) \/ handleAnswer(s) \/ handleStreamEvent(s)
    \/ handleAgentNotification(s) \/ handleRequest(s) \/ handleNotificationAnswer(s)
    \/ \E r \in Requests : sendForGatewaySession(r, s) \/ processCall(r, s)
                             \/ processSubscribe(r, s) \/ processUnsubscribe(r, s)

RelaysNext == Connections \/ Asking \/ Handling

RelaysSpec == RelaysInit /\ [][RelaysNext]_relaysVars

(* A timer that was armed fires.  Nothing else is assumed of the system.     *)
RelaysFairSpec == RelaysSpec /\ \A r \in Requests : WF_relaysVars(Timeout(r))

-----------------------------------------------------------------------------
(* Properties.                                                             *)

(* Whatever the sockets do, a caller is told "ok" only of a request that     *)
(* took effect, and is refused or given an error only when it did not.       *)
(* After a timeout or a shutdown nothing is known.                           *)
AnswersAreTrue ==
  \A r \in Requests : /\ promise[r] = "ok" => r \in done
                      /\ promise[r] \in {"refused", "error"} => r \notin done

(* A client with a greeted socket is reachable by its client_uuid as well as *)
(* by its session, over any order of hellos and closes of several sockets.   *)
(* A stream handler belongs to a Mini App that is opening or watching, or    *)
(* left while it was opening; and one that watches has its handler and its   *)
(* subscription on the client, unless a closing socket took them.            *)
RoutesMatchPeers ==
  /\ IF connectedClients = <<>> THEN connectedClientsByUuid = NoSocket
     ELSE Contains(connectedClients, connectedClientsByUuid)
  /\ \A v \in Streams :
       /\ v \in liveStreamHandlers => viewer[v] \in {"opening", "open", "gone"}
       /\ viewer[v] = "open" /\ v \notin cut =>
            v \in liveStreamHandlers /\ v \in localLiveStreamSubscriptions

(* Once the client has confirmed an unsubscribe, no subscription of that     *)
(* stream is left on the terminal, and none comes back.                      *)
ClosedStreamIsReleased ==
  \A v \in Streams : promise[Unsubscribe(v)] = "ok" =>
    v \notin localLiveStreamSubscriptions

(* What a caller has been told stands: an answer after the timeout, or a     *)
(* timer after the answer, changes nothing.                                  *)
ToldOnce ==
  [][\A r \in Requests : promise[r] \in Settled => promise'[r] = promise[r]]_relaysVars

(* Every request is settled, though the console is gone and the socket that  *)
(* carried it is half open: no caller waits for ever.                        *)
EveryRequestSettles ==
  \A r \in Requests : promise[r] = "pending" ~> promise[r] \in Settled
=============================================================================
