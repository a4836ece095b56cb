------------------------ MODULE GatewayServicesProofs ------------------------
(***************************************************************************)
(* The gateway's relays, OAuth facade and temporary file links, for any    *)
(* number of sockets, requests, logins, calls and downloads.               *)
(*                                                                         *)
(* Relays: a caller is told once and truly, a client is found by the       *)
(* routes, and a live stream's subscription matches its viewer.  None of   *)
(* it is inductive: an answer is true because the frame it came in was     *)
(* queued when the request had the effect it reports, so Truth follows a   *)
(* request through the queues, and OnePlace says that it is in one of them *)
(* at most; a subscription is the viewer's because no unsubscribe is under *)
(* way while it watches, which Watched ties to the viewer's stages.        *)
(*                                                                         *)
(* OAuth: GrantSpentOnce needs LoginInv, that a login whose browser has    *)
(* come back is gone, so that no other return passes, and CodeInv, that a  *)
(* code somebody was let past the check with is gone and stays so, because *)
(* the callback or form it belongs to cannot issue it again.               *)
(*                                                                         *)
(* File links: the file of a returned link is there because its upload was *)
(* stored under a record that is still listed, and only records that are   *)
(* no longer listed lose their files.                                      *)
(***************************************************************************)
EXTENDS MCGatewayServices, TLAPS, FiniteSetTheorems, SequenceTheorems

-----------------------------------------------------------------------------
(* The requests relayed over the gateway's sockets.                         *)

Request(r) == [type |-> "request", r |-> r]
PromiseStates == {"unsent", "pending"} \cup Settled

LEMMA RequestKinds ==
  /\ \A r \in Requests : r.kind \in {"call", "notify", "subscribe", "unsubscribe"}
  /\ \A v \in Streams : Subscribe(v) \in Requests /\ Unsubscribe(v) \in Requests
  /\ \A r \in Requests : r.kind = "subscribe" => r.of \in Streams /\ r = Subscribe(r.of)
  /\ \A r \in Requests : r.kind = "unsubscribe" => r.of \in Streams /\ r = Unsubscribe(r.of)
  BY DEF Requests, Subscribe, Unsubscribe

LEMMA FrameTypes ==
  /\ [type |-> "hello"] \in Messages
  /\ \A v \in Streams : [type |-> "event", of |-> v] \in Messages
  /\ \A r \in Requests : Request(r) \in Messages
  /\ \A r \in Requests, ok \in BOOLEAN : Answer(r, ok) \in Messages
  BY DEF Messages, Request, Answer

LEMMA FrameParts ==
  ASSUME NEW m \in Messages
  PROVE  /\ m.type = "request" => m.r \in Requests /\ m = Request(m.r)
         /\ m.type = "answer" => m.r \in Requests /\ m.ok \in BOOLEAN /\ m = Answer(m.r, m.ok)
<1>1. CASE m \in [type : {"hello"}] \cup [type : {"event"}, of : Streams]
  BY <1>1
<1>2. CASE m \in [type : {"request"}, r : Requests]
  BY <1>2 DEF Request
<1>3. CASE m \in [type : {"answer"}, r : Requests, ok : BOOLEAN]
  BY <1>3 DEF Answer
<1> QED
  BY <1>1, <1>2, <1>3 DEF Messages

\* Removing the one entry that a key of a Map has.
Keyed(q) == \A i, j \in DOMAIN q : q[i] = q[j] => i = j

LEMMA KeyRemoved ==
  ASSUME NEW q \in Seq(Sockets), Keyed(q), NEW s \in Sockets
  PROVE  /\ Without(q, s) \in Seq(Sockets) /\ Keyed(Without(q, s))
         /\ \A t : Contains(Without(q, s), t) <=> Contains(q, t) /\ t # s
<1>1. CASE ~Contains(q, s)
  BY <1>1 DEF Without, Contains, Keyed
<1>2. CASE Contains(q, s)
  <2> DEFINE k == CHOOSE i \in DOMAIN q : q[i] = s
             p == SubSeq(q, 1, k - 1)
             z == SubSeq(q, k + 1, Len(q))
  <2>1. k \in 1..Len(q) /\ q[k] = s
    BY <1>2 DEF Contains
  <2>2. Without(q, s) = p \o z
    BY <1>2 DEF Without, RemoveAt
  <2> HIDE DEF k
  <2>3. p \in Seq(Sockets) /\ Len(p) = k - 1 /\ \A i \in 1..k - 1 : p[i] = q[i]
    BY <2>1
  <2>4. z \in Seq(Sockets) /\ Len(z) = Len(q) - k /\ \A i \in 1..Len(q) - k : z[i] = q[k + i]
    BY <2>1
  <2> DEFINE w == p \o z
  <2> HIDE DEF p, z
  <2>5. /\ w \in Seq(Sockets) /\ Len(w) = Len(q) - 1
        /\ \A i \in 1..Len(q) - 1 : w[i] = IF i < k THEN q[i] ELSE q[i + 1]
    <3>1. /\ w \in Seq(Sockets) /\ Len(w) = Len(p) + Len(z)
          /\ \A i \in 1..Len(p) + Len(z) : w[i] = IF i <= Len(p) THEN p[i] ELSE z[i - Len(p)]
      BY <2>3, <2>4, ConcatProperties
    <3>2. ASSUME NEW i \in 1..Len(q) - 1 PROVE w[i] = IF i < k THEN q[i] ELSE q[i + 1]
      <4>1. i \in 1..Len(p) + Len(z)
        BY <2>1, <2>3, <2>4
      <4>2. CASE i < k
        BY <2>1, <2>3, <3>1, <4>1, <4>2
      <4>3. CASE ~(i < k)
        <5>1. i - Len(p) \in 1..Len(q) - k /\ k + (i - Len(p)) = i + 1
          BY <2>1, <2>3, <4>3
        <5> QED
          BY <2>1, <2>3, <2>4, <3>1, <4>1, <4>3, <5>1
      <4> QED
        BY <4>2, <4>3
    <3> QED
      BY <2>1, <2>3, <2>4, <3>1, <3>2
  <2> HIDE DEF w
  <2>6. DOMAIN w = 1..Len(q) - 1 /\ DOMAIN q = 1..Len(q) /\ Len(q) \in Nat
    BY <2>5
  <2>7. Keyed(w)
    <3> SUFFICES ASSUME NEW i \in 1..Len(q) - 1, NEW j \in 1..Len(q) - 1, w[i] = w[j]
                 PROVE  i = j
      BY <2>6 DEF Keyed
    <3> DEFINE f(n) == IF n < k THEN n ELSE n + 1
    <3>1. w[i] = q[f(i)] /\ w[j] = q[f(j)] /\ f(i) \in 1..Len(q) /\ f(j) \in 1..Len(q)
      BY <2>1, <2>5, <2>6
    <3>2. f(i) = f(j)
      BY <2>6, <3>1 DEF Keyed
    <3> QED
      BY <2>1, <2>6, <3>2
  <2>8. ASSUME NEW t, Contains(w, t) PROVE Contains(q, t) /\ t # s
    <3>1. PICK i \in 1..Len(q) - 1 : w[i] = t
      BY <2>5, <2>8 DEF Contains
    <3>2. \E j \in 1..Len(q) : j # k /\ q[j] = t
      BY <2>1, <2>5, <2>6, <3>1
    <3> QED
      BY <2>1, <2>6, <3>2 DEF Contains, Keyed
  <2>9. ASSUME NEW t, Contains(q, t), t # s PROVE Contains(w, t)
    <3>1. PICK j \in 1..Len(q) : q[j] = t /\ j # k
      BY <2>1, <2>9 DEF Contains
    <3>2. CASE j < k
      BY <2>1, <2>5, <2>6, <3>1, <3>2 DEF Contains
    <3>3. CASE j > k
      <4>1. j - 1 \in 1..Len(q) - 1 /\ w[j - 1] = t
        BY <2>1, <2>5, <2>6, <3>1, <3>3
      <4> QED
        BY <2>5, <4>1 DEF Contains
    <3> QED
      BY <2>1, <3>1, <3>2, <3>3, <2>6
  <2> QED
    BY <2>2, <2>5, <2>7, <2>8, <2>9 DEF w
<1> QED
  BY <1>1, <1>2

\* Reading and writing one end's queue.
LEMMA UpGrows ==
  ASSUME up \in [Sockets -> Seq(Messages)], NEW s \in Sockets, NEW m \in Messages,
         up' = [up EXCEPT ![s] = Append(@, m)]
  PROVE  /\ up' \in [Sockets -> Seq(Messages)]
         /\ \A t \in Sockets : t # s => up'[t] = up[t]
         /\ DOMAIN up'[s] = DOMAIN up[s] \cup {Len(up[s]) + 1}
         /\ Len(up[s]) + 1 \notin DOMAIN up[s]
         /\ \A i \in DOMAIN up[s] : up'[s][i] = up[s][i]
         /\ up'[s][Len(up[s]) + 1] = m
  OBVIOUS

LEMMA UpHeard ==
  ASSUME up \in [Sockets -> Seq(Messages)], NEW s \in Sockets, up[s] # <<>>,
         up' = [up EXCEPT ![s] = Tail(@)]
  PROVE  /\ up' \in [Sockets -> Seq(Messages)]
         /\ \A t \in Sockets : t # s => up'[t] = up[t]
         /\ 1 \in DOMAIN up[s] /\ Head(up[s]) = up[s][1] /\ Head(up[s]) \in Messages
         /\ DOMAIN up'[s] \subseteq Nat
         /\ \A i \in DOMAIN up'[s] : i + 1 \in DOMAIN up[s] /\ i + 1 # 1 /\ up'[s][i] = up[s][i + 1]
<1> DEFINE q == up[s]
<1>1. q \in Seq(Messages) /\ q # <<>> /\ up'[s] = Tail(q)
  OBVIOUS
<1>2. /\ Tail(q) \in Seq(Messages) /\ Len(Tail(q)) = Len(q) - 1 /\ Len(q) \in Nat
      /\ Head(q) = q[1] /\ Head(q) \in Messages /\ Len(q) > 0
      /\ \A i \in 1..Len(q) - 1 : Tail(q)[i] = q[i + 1]
  BY <1>1
<1>3. DOMAIN Tail(q) = 1..Len(q) - 1 /\ DOMAIN q = 1..Len(q)
  BY <1>1, <1>2
<1> QED
  BY <1>1, <1>2, <1>3

LEMMA DownGrows ==
  ASSUME down \in [Sockets -> SUBSET Messages], NEW s \in Sockets, NEW m \in Messages,
         down' = [down EXCEPT ![s] = @ \cup {m}]
  PROVE  /\ down' \in [Sockets -> SUBSET Messages]
         /\ \A t \in Sockets : t # s => down'[t] = down[t]
         /\ down'[s] = down[s] \cup {m}
  OBVIOUS

LEMMA SentUpwards ==
  ASSUME RelaysTypeOK, NEW m \in Messages
  PROVE  /\ SentUp(m) \in [Sockets -> Seq(Messages)]
         /\ \/ SentUp(m) = up
            \/ \E s \in Sockets : SentUp(m) = [up EXCEPT ![s] = Append(@, m)]
<1>1. up \in [Sockets -> Seq(Messages)] /\ wsClient \in Sockets \cup {NoSocket}
  BY DEF RelaysTypeOK
<1>2. ASSUME NEW s \in Sockets
      PROVE  [up EXCEPT ![s] = Append(@, m)] \in [Sockets -> Seq(Messages)]
  BY <1>1
<1> QED
  BY <1>1, <1>2 DEF SentUp

-----------------------------------------------------------------------------
(* The types.                                                               *)

LEMMA RelaysStart == RelaysInit => RelaysTypeOK
<1> SUFFICES ASSUME RelaysInit PROVE RelaysTypeOK
  OBVIOUS
<1>1. /\ promise \in [Requests -> PromiseStates] /\ near \in [Sockets -> {"none", "open", "closed"}]
      /\ viewer \in [Streams -> {"none", "opening", "open", "gone", "closed"}]
      /\ far \in [Sockets -> {"new", "connecting", "open", "closed"}]
  BY DEF RelaysInit, PromiseStates
<1>2. sent \in [Streams -> 0..MaxEvents]
  BY RelaysAssumption DEF RelaysInit
<1>3. down \in [Sockets -> SUBSET Messages] /\ up \in [Sockets -> Seq(Messages)]
  BY DEF RelaysInit
<1>4. /\ connectedClients = <<>> /\ connectedClientsByUuid = NoSocket /\ wsClient = NoSocket
      /\ liveStreamHandlers = {} /\ cut = {} /\ localLiveStreamSubscriptions = {}
      /\ working = {} /\ done = {} /\ stopped = FALSE
  BY DEF RelaysInit
<1>5. connectedClients \in Seq(Sockets)
  BY <1>4
<1> QED
  BY <1>1, <1>2, <1>3, <1>4, <1>5 DEF RelaysTypeOK, PromiseStates

\* Where the gateway's side of a step keeps its types.
LEMMA ConnectionsTyped ==
  ASSUME RelaysTypeOK, Keyed(connectedClients), Connections
  PROVE  RelaysTypeOK'
<1>1. ASSUME NEW s \in Sockets, startGatewayWsClient(s) PROVE RelaysTypeOK'
  BY <1>1 DEF startGatewayWsClient, RelaysTypeOK, gateway, wires
<1>2. ASSUME NEW s \in Sockets, Opened(s) PROVE RelaysTypeOK'
  BY <1>2 DEF Opened, RelaysTypeOK, wires
<1>3. ASSUME NEW s \in Sockets, sendClientHello(s) PROVE RelaysTypeOK'
  <2>1. up' \in [Sockets -> Seq(Messages)]
    BY <1>3, FrameTypes, UpGrows DEF sendClientHello, RelaysTypeOK
  <2> QED
    BY <1>3, <2>1 DEF sendClientHello, RelaysTypeOK, gateway, client
<1>4. ASSUME NEW s \in Sockets, ClientSocketCloses(s) PROVE RelaysTypeOK'
  BY <1>4 DEF ClientSocketCloses, RelaysTypeOK, gateway
<1>5. ASSUME NEW s \in Sockets, GatewaySocketCloses(s) PROVE RelaysTypeOK'
  <2> DEFINE left == Without(connectedClients, s)
  <2>1. left \in Seq(Sockets)
    BY KeyRemoved DEF RelaysTypeOK
  <2>2. up' \in [Sockets -> Seq(Messages)]
    BY <1>5 DEF GatewaySocketCloses, RelaysTypeOK
  <2>3. Successor(s, left) \in Sockets \cup {NoSocket}
    BY <2>1 DEF Successor, RelaysTypeOK
  <2> HIDE DEF left
  <2>4. connectedClients' = left /\ connectedClientsByUuid' \in Sockets \cup {NoSocket}
    BY <1>5, <2>3 DEF GatewaySocketCloses, RelaysTypeOK, left
  <2> QED
    BY <1>5, <2>1, <2>2, <2>4 DEF GatewaySocketCloses, RelaysTypeOK, client
<1>6. CASE closeGatewayWsResources
  <2>1. promise' \in [Requests -> PromiseStates]
    BY <1>6 DEF closeGatewayWsResources, RelaysTypeOK, PromiseStates, Settled
  <2>2. viewer' \in [Streams -> {"none", "opening", "open", "gone", "closed"}]
    BY <1>6 DEF closeGatewayWsResources, RelaysTypeOK
  <2>3. up' \in [Sockets -> Seq(Messages)] /\ connectedClients' \in Seq(Sockets)
    BY <1>6 DEF closeGatewayWsResources
  <2>4. near' \in [Sockets -> {"none", "open", "closed"}]
    BY <1>6 DEF closeGatewayWsResources, RelaysTypeOK
  <2> QED
    BY <1>6, <2>1, <2>2, <2>3, <2>4
       DEF closeGatewayWsResources, RelaysTypeOK, client, PromiseStates
<1> QED
  BY <1>1, <1>2, <1>3, <1>4, <1>5, <1>6 DEF Connections

LEMMA AskTyped ==
  ASSUME RelaysTypeOK, NEW r \in Requests, NEW s \in Sockets \cup {NoSocket}, Ask(r, s)
  PROVE  /\ promise' = [promise EXCEPT ![r] = IF s = NoSocket THEN "refused" ELSE "pending"]
         /\ promise' \in [Requests -> PromiseStates]
         /\ down' \in [Sockets -> SUBSET Messages]
         /\ \/ down' = down
            \/ s \in Sockets /\ down' = [down EXCEPT ![s] = @ \cup {Request(r)}]
<1>1. promise' = [promise EXCEPT ![r] = IF s = NoSocket THEN "refused" ELSE "pending"]
  BY DEF Ask
<1>2. promise' \in [Requests -> PromiseStates]
  BY <1>1 DEF RelaysTypeOK, PromiseStates, Settled
<1>3. \/ down' = down
      \/ s \in Sockets /\ down' = [down EXCEPT ![s] = @ \cup {Request(r)}]
  BY DEF Ask, Request
<1>4. down' \in [Sockets -> SUBSET Messages]
  BY <1>3, FrameTypes, DownGrows DEF RelaysTypeOK
<1> QED
  BY <1>1, <1>2, <1>3, <1>4

LEMMA SettleTyped ==
  ASSUME RelaysTypeOK, NEW r \in Requests, NEW o \in Settled, Settle(r, o)
  PROVE  /\ promise' \in [Requests -> PromiseStates]
         /\ viewer' \in [Streams -> {"none", "opening", "open", "gone", "closed"}]
         /\ liveStreamHandlers' \subseteq Streams
<1>1. promise' \in [Requests -> PromiseStates]
  BY DEF Settle, RelaysTypeOK, PromiseStates
<1>2. CASE r.kind # "subscribe"
  BY <1>1, <1>2 DEF Settle, RelaysTypeOK
<1>3. CASE r.kind = "subscribe"
  BY <1>1, <1>3, RequestKinds DEF Settle, RelaysTypeOK
<1> QED
  BY <1>2, <1>3

LEMMA AskingTyped ==
  ASSUME RelaysTypeOK, Asking
  PROVE  RelaysTypeOK'
<1>0. /\ findConnectedSocketForSession \in Sockets \cup {NoSocket}
      /\ connectedClientsByUuid \in Sockets \cup {NoSocket}
  BY DEF findConnectedSocketForSession, RelaysTypeOK
<1>1. ASSUME NEW r \in Requests, requestClientAction(r) PROVE RelaysTypeOK'
  <2>1. promise' \in [Requests -> PromiseStates] /\ down' \in [Sockets -> SUBSET Messages]
    BY <1>0, <1>1, AskTyped DEF requestClientAction
  <2> QED
    BY <1>1, <2>1 DEF requestClientAction, RelaysTypeOK, gateway, client, PromiseStates
<1>2. ASSUME NEW r \in Requests, publishAgentNotification(r) PROVE RelaysTypeOK'
  <2>1. promise' \in [Requests -> PromiseStates]
    BY <1>2 DEF publishAgentNotification, RelaysTypeOK, PromiseStates, Settled
  <2>2. up' \in [Sockets -> Seq(Messages)]
    BY <1>2, FrameTypes, SentUpwards DEF publishAgentNotification, RelaysTypeOK, Request
  <2> QED
    BY <1>2, <2>1, <2>2 DEF publishAgentNotification, RelaysTypeOK, gateway, client, PromiseStates
<1>3. ASSUME NEW r \in Requests, Timeout(r) PROVE RelaysTypeOK'
  BY <1>3, SettleTyped DEF Timeout, Settled, RelaysTypeOK, client, wires, PromiseStates
<1>4. ASSUME NEW v \in Streams, openLiveRelayStream(v) PROVE RelaysTypeOK'
  <2>1. promise' \in [Requests -> PromiseStates] /\ down' \in [Sockets -> SUBSET Messages]
    BY <1>0, <1>4, AskTyped, RequestKinds DEF openLiveRelayStream
  <2> QED
    BY <1>4, <2>1 DEF openLiveRelayStream, RelaysTypeOK, client, PromiseStates
<1>5. ASSUME NEW v \in Streams, ViewerLeaves(v) PROVE RelaysTypeOK'
  <2>1. promise' \in [Requests -> PromiseStates] /\ down' \in [Sockets -> SUBSET Messages]
    BY <1>0, <1>5, AskTyped, RequestKinds DEF ViewerLeaves, RelaysTypeOK, wires, PromiseStates
  <2> QED
    BY <1>5, <2>1 DEF ViewerLeaves, RelaysTypeOK, client, wires, PromiseStates
<1>6. ASSUME NEW v \in Streams, onData(v) PROVE RelaysTypeOK'
  <2>1. up' \in [Sockets -> Seq(Messages)]
    BY <1>6, FrameTypes, SentUpwards DEF onData
  <2>2. sent' \in [Streams -> 0..MaxEvents]
    BY <1>6, RelaysAssumption DEF onData, RelaysTypeOK
  <2> QED
    BY <1>6, <2>1, <2>2 DEF onData, RelaysTypeOK, gateway
<1> QED
  BY <1>1, <1>2, <1>3, <1>4, <1>5, <1>6 DEF Asking

\* What one end hears is a message of its kind.
LEMMA HeardTyped ==
  ASSUME RelaysTypeOK, NEW s \in Sockets, NEW k, Hears(s, k)
  PROVE  /\ up' \in [Sockets -> Seq(Messages)]
         /\ Head(up[s]) \in Messages /\ Head(up[s]).type = k
         /\ k = "request" => Head(up[s]).r \in Requests /\ Head(up[s]) = Request(Head(up[s]).r)
         /\ k = "answer" => /\ Head(up[s]).r \in Requests /\ Head(up[s]).ok \in BOOLEAN
                            /\ Head(up[s]) = Answer(Head(up[s]).r, Head(up[s]).ok)
<1>1. up' \in [Sockets -> Seq(Messages)] /\ Head(up[s]) \in Messages
  BY UpHeard DEF Hears, RelaysTypeOK
<1> QED
  BY <1>1, FrameParts DEF Hears

LEMMA HandlingTyped ==
  ASSUME RelaysTypeOK, Handling
  PROVE  RelaysTypeOK'
<1>1. ASSUME NEW s \in Sockets, handleHello(s) PROVE RelaysTypeOK'
  <2>1. connectedClients' \in Seq(Sockets)
    BY <1>1 DEF handleHello, RelaysTypeOK
  <2> QED
    BY <1>1, <2>1, HeardTyped DEF handleHello, RelaysTypeOK, client
<1>2. ASSUME NEW s \in Sockets, handleAnswer(s) PROVE RelaysTypeOK'
  <2> DEFINE m == Head(up[s])
  <2>1. up' \in [Sockets -> Seq(Messages)] /\ m.r \in Requests
    BY <1>2, HeardTyped DEF handleAnswer
  <2>2. /\ promise' \in [Requests -> PromiseStates]
        /\ viewer' \in [Streams -> {"none", "opening", "open", "gone", "closed"}]
        /\ liveStreamHandlers' \subseteq Streams
    <3>1. CASE promise[m.r] = "pending"
      <4>1. (IF m.ok THEN "ok" ELSE "error") \in Settled
        BY DEF Settled
      <4> QED
        BY <1>2, <2>1, <3>1, <4>1, SettleTyped DEF handleAnswer
    <3> QED
      BY <1>2, <3>1 DEF handleAnswer, RelaysTypeOK, PromiseStates
  <2> QED
    BY <1>2, <2>1, <2>2 DEF handleAnswer, RelaysTypeOK, client, PromiseStates
<1>3. ASSUME NEW s \in Sockets, handleStreamEvent(s) PROVE RelaysTypeOK'
  BY <1>3, HeardTyped DEF handleStreamEvent, RelaysTypeOK, client, gateway
<1>4. ASSUME NEW s \in Sockets, handleAgentNotification(s) PROVE RelaysTypeOK'
  <2>1. up' \in [Sockets -> Seq(Messages)] /\ Head(up[s]).r \in Requests
    BY <1>4, HeardTyped DEF handleAgentNotification
  <2>2. Answer(Head(up[s]).r, FALSE) \in Messages
    BY <2>1, FrameTypes
  <2>3. down' \in [Sockets -> SUBSET Messages]
    <3>1. \/ down' = down
          \/ down' = [down EXCEPT ![s] = @ \cup {Answer(Head(up[s]).r, FALSE)}]
      BY <1>4 DEF handleAgentNotification
    <3> QED
      BY <2>2, <3>1, DownGrows DEF RelaysTypeOK
  <2>4. working' \subseteq Requests \X Sockets
    <3>1. working' \in {working, working \cup {<<Head(up[s]).r, s>>}}
      BY <1>4 DEF handleAgentNotification
    <3> QED
      BY <2>1, <3>1 DEF RelaysTypeOK
  <2> QED
    BY <1>4, <2>1, <2>3, <2>4 DEF handleAgentNotification, RelaysTypeOK, client, gateway
<1>5. ASSUME NEW s \in Sockets, handleRequest(s) PROVE RelaysTypeOK'
  <2>1. down' \in [Sockets -> SUBSET Messages] /\ working' \subseteq Requests \X Sockets
    BY <1>5, FrameParts DEF handleRequest, RelaysTypeOK
  <2> QED
    BY <1>5, <2>1 DEF handleRequest, RelaysTypeOK, client, gateway
<1>6. ASSUME NEW s \in Sockets, handleNotificationAnswer(s) PROVE RelaysTypeOK'
  <2>1. down' \in [Sockets -> SUBSET Messages] /\ promise' \in [Requests -> PromiseStates]
    BY <1>6, FrameParts DEF handleNotificationAnswer, RelaysTypeOK, PromiseStates, Settled
  <2> QED
    BY <1>6, <2>1 DEF handleNotificationAnswer, RelaysTypeOK, client, gateway, PromiseStates
<1>7. ASSUME NEW s \in Sockets, NEW r \in Requests, sendForGatewaySession(r, s)
      PROVE  RelaysTypeOK'
  <2>1. down' \in [Sockets -> SUBSET Messages]
    BY <1>7, FrameTypes DEF sendForGatewaySession, RelaysTypeOK
  <2> QED
    BY <1>7, <2>1 DEF sendForGatewaySession, RelaysTypeOK, client, gateway
<1>8. ASSUME NEW s \in Sockets, NEW r \in Requests,
             processCall(r, s) \/ processSubscribe(r, s) \/ processUnsubscribe(r, s)
      PROVE  RelaysTypeOK'
  <2>1. up' \in [Sockets -> Seq(Messages)]
    BY <1>8, FrameTypes, SentUpwards DEF processCall, processSubscribe, processUnsubscribe
  <2>2. working' \subseteq Requests \X Sockets /\ done' \subseteq Requests
    <3>1. working' = working \ {<<r, s>>} /\ done' \in {done, done \cup {r}}
      BY <1>8 DEF processCall, processSubscribe, processUnsubscribe
    <3> QED
      BY <3>1 DEF RelaysTypeOK
  <2>3. localLiveStreamSubscriptions' \subseteq Streams
    <3>1. r.kind = "subscribe" => r.of \in Streams
      BY RequestKinds
    <3>2. \/ UNCHANGED localLiveStreamSubscriptions
          \/ localLiveStreamSubscriptions' = localLiveStreamSubscriptions \ {r.of}
          \/ /\ r.kind = "subscribe"
             /\ localLiveStreamSubscriptions' = localLiveStreamSubscriptions \cup {r.of}
      BY <1>8 DEF processCall, processSubscribe, processUnsubscribe, StreamOf, client
    <3> QED
      BY <3>1, <3>2 DEF RelaysTypeOK
  <2> QED
    BY <1>8, <2>1, <2>2, <2>3
       DEF processCall, processSubscribe, processUnsubscribe, RelaysTypeOK, gateway, client
<1> QED
  BY <1>1, <1>2, <1>3, <1>4, <1>5, <1>6, <1>7, <1>8 DEF Handling

-----------------------------------------------------------------------------
(* The routes to a client, and what its callers are told.                   *)

\* The by-uuid entry is the key of a greeted socket, as long as there is one.
Routed ==
  /\ Keyed(connectedClients)
  /\ IF connectedClients = <<>> THEN connectedClientsByUuid = NoSocket
     ELSE Contains(connectedClients, connectedClientsByUuid)

LEMMA GreetedJoins ==
  ASSUME NEW q \in Seq(Sockets), Keyed(q), NEW s \in Sockets, ~Contains(q, s)
  PROVE  /\ Keyed(Append(q, s)) /\ Append(q, s) # <<>> /\ Contains(Append(q, s), s)
<1> DEFINE w == Append(q, s)
<1>1. /\ DOMAIN w = 1..Len(q) + 1 /\ DOMAIN q = 1..Len(q) /\ Len(q) \in Nat
      /\ \A i \in 1..Len(q) : w[i] = q[i]
      /\ w[Len(q) + 1] = s /\ w # <<>> /\ Len(w) = Len(q) + 1
  OBVIOUS
<1>2. \A i \in 1..Len(q) : q[i] # s
  BY DEF Contains
<1> HIDE DEF w
<1>3. Keyed(w)
  <2> SUFFICES ASSUME NEW i \in 1..Len(q) + 1, NEW j \in 1..Len(q) + 1, w[i] = w[j]
               PROVE  i = j
    BY <1>1 DEF Keyed
  <2>1. CASE i \in 1..Len(q) /\ j \in 1..Len(q)
    BY <1>1, <2>1 DEF Keyed
  <2>2. CASE i = Len(q) + 1 \/ j = Len(q) + 1
    BY <1>1, <1>2, <2>2
  <2> QED
    BY <1>1, <2>1, <2>2
<1>4. Contains(w, s)
  BY <1>1 DEF Contains
<1> QED
  BY <1>1, <1>3, <1>4 DEF w

LEMMA RoutedStep ==
  ASSUME RelaysTypeOK, Routed, [RelaysNext]_relaysVars
  PROVE  Routed'
<1>1. ASSUME UNCHANGED <<connectedClients, connectedClientsByUuid>> PROVE Routed'
  BY <1>1 DEF Routed
<1>2. ASSUME NEW s \in Sockets, GatewaySocketCloses(s) PROVE Routed'
  <2> DEFINE left == Without(connectedClients, s)
  <2>1. /\ left \in Seq(Sockets) /\ Keyed(left)
        /\ \A t : Contains(left, t) <=> Contains(connectedClients, t) /\ t # s
    BY KeyRemoved DEF RelaysTypeOK, Routed
  <2>2. connectedClients' = left
    BY <1>2 DEF GatewaySocketCloses
  <2>3. CASE ~Contains(connectedClients, s)
    <3>1. left = connectedClients /\ connectedClientsByUuid' = connectedClientsByUuid
      BY <1>2, <2>3 DEF GatewaySocketCloses, Without
    <3> QED
      BY <2>2, <3>1 DEF Routed
  <2>4. CASE Contains(connectedClients, s)
    <3>1. connectedClientsByUuid' = Successor(s, left) /\ connectedClients # <<>>
      BY <1>2, <2>4 DEF GatewaySocketCloses, Contains
    <3>2. left # <<>> => Contains(left, Head(left))
      BY <2>1 DEF Contains
    <3>3. left = <<>> => ~Contains(left, connectedClientsByUuid)
      BY DEF Contains
    <3> HIDE DEF left
    <3> QED
      BY <2>1, <2>2, <3>1, <3>2, <3>3 DEF Routed, Successor
  <2> QED
    BY <2>3, <2>4
<1>3. CASE closeGatewayWsResources
  BY <1>3 DEF closeGatewayWsResources, Routed, Keyed
<1>4. ASSUME NEW s \in Sockets, handleHello(s) PROVE Routed'
  <2>1. CASE Contains(connectedClients, s)
    <3>1. connectedClients # <<>>
      BY <2>1 DEF Contains
    <3> QED
      BY <1>4, <2>1, <3>1 DEF handleHello, Routed
  <2>2. CASE ~Contains(connectedClients, s)
    BY <1>4, <2>2, GreetedJoins DEF handleHello, Routed, RelaysTypeOK
  <2> QED
    BY <2>1, <2>2
<1>5. CASE UNCHANGED relaysVars
  BY <1>1, <1>5 DEF relaysVars, gateway
<1>6. ASSUME NEW s \in Sockets,
             startGatewayWsClient(s) \/ Opened(s) \/ sendClientHello(s) \/ ClientSocketCloses(s)
      PROVE  Routed'
  BY <1>1, <1>6 DEF startGatewayWsClient, Opened, sendClientHello, ClientSocketCloses, gateway
<1>7. CASE Asking
  BY <1>1, <1>7 DEF Asking, requestClientAction, publishAgentNotification, Timeout,
                    openLiveRelayStream, ViewerLeaves, onData, gateway
<1>8. ASSUME NEW s \in Sockets,
             \/ handleAnswer(s) \/ handleStreamEvent(s) \/ handleAgentNotification(s)
             \/ handleRequest(s) \/ handleNotificationAnswer(s)
      PROVE  Routed'
  BY <1>1, <1>8 DEF handleAnswer, handleStreamEvent, handleAgentNotification, handleRequest,
                    handleNotificationAnswer, gateway
<1>9. ASSUME NEW s \in Sockets, NEW r \in Requests,
             \/ sendForGatewaySession(r, s) \/ processCall(r, s)
             \/ processSubscribe(r, s) \/ processUnsubscribe(r, s)
      PROVE  Routed'
  BY <1>1, <1>9 DEF sendForGatewaySession, processCall, processSubscribe, processUnsubscribe,
                    gateway
<1> QED
  BY <1>2, <1>3, <1>4, <1>5, <1>6, <1>7, <1>8, <1>9
     DEF RelaysNext, Connections, Handling

RelaysSound == RelaysTypeOK /\ Routed

LEMMA RelaysSoundStart == RelaysInit => RelaysSound
<1>1. RelaysInit => Routed
  BY DEF RelaysInit, Routed, Keyed
<1> QED
  BY <1>1, RelaysStart DEF RelaysSound

LEMMA RelaysSoundStep == RelaysSound /\ [RelaysNext]_relaysVars => RelaysSound'
<1> SUFFICES ASSUME RelaysSound, [RelaysNext]_relaysVars PROVE RelaysSound'
  OBVIOUS
<1>1. CASE RelaysNext
  BY <1>1, ConnectionsTyped, AskingTyped, HandlingTyped, RoutedStep
     DEF RelaysNext, RelaysSound, Routed
<1>2. CASE UNCHANGED relaysVars
  <2>1. RelaysTypeOK'
    BY <1>2 DEF relaysVars, gateway, client, wires, RelaysSound, RelaysTypeOK
  <2> QED
    BY <2>1, RoutedStep DEF RelaysSound
<1> QED
  BY <1>1, <1>2

\* What a step may tell a caller: it asks, or it settles what was pending.
LEMMA TellsOnce ==
  ASSUME RelaysTypeOK, [RelaysNext]_relaysVars, NEW r \in Requests
  PROVE  \/ promise'[r] = promise[r]
         \/ promise[r] = "unsent" /\ promise'[r] \in {"pending", "refused"}
         \/ promise[r] = "pending" /\ promise'[r] \in Settled \ {"refused"}
<1> DEFINE Tells == \/ promise'[r] = promise[r]
                    \/ promise[r] = "unsent" /\ promise'[r] \in {"pending", "refused"}
                    \/ promise[r] = "pending" /\ promise'[r] \in Settled \ {"refused"}
<1> SUFFICES Tells
  OBVIOUS
<1>0. promise \in [Requests -> PromiseStates]
  BY DEF RelaysTypeOK, PromiseStates
<1>1. ASSUME NEW q \in Requests, NEW s, Ask(q, s), MayAsk(q) PROVE Tells
  BY <1>0, <1>1 DEF Ask, MayAsk
<1>2. ASSUME NEW q \in Requests, NEW o \in Settled \ {"refused"}, promise[q] = "pending", Settle(q, o)
      PROVE  Tells
  BY <1>0, <1>2 DEF Settle
<1>3. CASE Connections
  BY <1>0, <1>3 DEF Connections, startGatewayWsClient, Opened, sendClientHello,
         ClientSocketCloses, GatewaySocketCloses, closeGatewayWsResources, Settled
<1>4. ASSUME NEW q \in Requests, requestClientAction(q) PROVE Tells
  BY <1>1, <1>4 DEF requestClientAction
<1>5. ASSUME NEW q \in Requests, publishAgentNotification(q) PROVE Tells
  BY <1>0, <1>5 DEF publishAgentNotification, MayAsk
<1>6. ASSUME NEW q \in Requests, Timeout(q) PROVE Tells
  BY <1>2, <1>6 DEF Timeout, Settled
<1>7. ASSUME NEW v \in Streams, openLiveRelayStream(v) \/ ViewerLeaves(v) \/ onData(v)
      PROVE  Tells
  BY <1>1, <1>7, RequestKinds DEF openLiveRelayStream, ViewerLeaves, onData
<1>8. ASSUME NEW s \in Sockets, handleAnswer(s) PROVE Tells
  <2>1. Head(up[s]).r \in Requests
    BY <1>8, HeardTyped DEF handleAnswer
  <2> QED
    BY <1>2, <1>8, <2>1 DEF handleAnswer, Settled
<1>9. ASSUME NEW s \in Sockets, handleNotificationAnswer(s) PROVE Tells
  <2>1. PICK m \in down[s] :
          /\ m.type = "answer"
          /\ promise' = IF promise[m.r] # "pending" THEN promise
                        ELSE [promise EXCEPT ![m.r] = IF m.ok THEN "ok" ELSE "error"]
    BY <1>9 DEF handleNotificationAnswer
  <2> QED
    BY <1>0, <2>1 DEF Settled
<1>10. ASSUME NEW s \in Sockets,
              \/ handleHello(s) \/ handleStreamEvent(s) \/ handleAgentNotification(s)
             \/ handleRequest(s)
             \/ \E q \in Requests : \/ sendForGatewaySession(q, s) \/ processCall(q, s)
                                    \/ processSubscribe(q, s) \/ processUnsubscribe(q, s)
      PROVE  Tells
  BY <1>10 DEF handleHello, handleStreamEvent, handleAgentNotification, handleRequest,
        sendForGatewaySession, processCall, processSubscribe, processUnsubscribe
<1>11. CASE UNCHANGED relaysVars
  BY <1>11 DEF relaysVars
<1> HIDE DEF Tells
<1>12. Asking => Tells
  BY <1>4, <1>5, <1>6, <1>7 DEF Asking
<1>13. Handling => Tells
  <2> SUFFICES ASSUME Handling PROVE Tells
    OBVIOUS
  <2>1. PICK s \in Sockets :
          \/ handleHello(s) \/ handleAnswer(s) \/ handleStreamEvent(s)
          \/ handleAgentNotification(s) \/ handleRequest(s) \/ handleNotificationAnswer(s)
          \/ \E q \in Requests : \/ sendForGatewaySession(q, s) \/ processCall(q, s)
                                 \/ processSubscribe(q, s) \/ processUnsubscribe(q, s)
    BY Zenon DEF Handling
  <2> QED
    BY <1>8, <1>9, <1>10, <2>1
<1> QED
  BY <1>3, <1>11, <1>12, <1>13 DEF RelaysNext

\* A caller is told once, whichever of the answer, the timer and the shutdown
\* comes first and whatever comes after it.
THEOREM CallersAreToldOnce == RelaysSpec => ToldOnce
<1>1. RelaysSound /\ [RelaysNext]_relaysVars
        => [\A r \in Requests : promise[r] \in Settled => promise'[r] = promise[r]]_relaysVars
  <2> SUFFICES ASSUME RelaysSound, [RelaysNext]_relaysVars, NEW r \in Requests,
                      promise[r] \in Settled
               PROVE  promise'[r] = promise[r]
    OBVIOUS
  <2> QED
    BY TellsOnce DEF RelaysSound, Settled
<1> QED
  BY <1>1, RelaysSoundStart, RelaysSoundStep, PTL DEF RelaysSpec, ToldOnce

-----------------------------------------------------------------------------
(* Where a request is, and what its answers say.                            *)

Queued(m, s) == \E i \in DOMAIN up[s] : up[s][i] = m

\* A request on its way or in its handler.
Underway(r) ==
  \E s \in Sockets : Request(r) \in down[s] \/ <<r, s>> \in working \/ Queued(Request(r), s)

\* An answer of r on its way, over whichever socket.
Answered(r, ok) ==
  \E s \in Sockets : Answer(r, ok) \in down[s] \/ Queued(Answer(r, ok), s)

\* A request is in one place: no socket carries it twice and it runs once.
OnePlace ==
  \A r \in Requests, s, t \in Sockets :
    /\ Request(r) \in down[s] /\ Request(r) \in down[t] => s = t
    /\ <<r, s>> \in working /\ <<r, t>> \in working => s = t
    /\ Request(r) \in down[s] => r.kind # "notify" /\ <<r, t>> \notin working
    /\ \A i \in DOMAIN up[s] : up[s][i] = Request(r) =>
         /\ r.kind = "notify" /\ <<r, t>> \notin working
         /\ \A j \in DOMAIN up[t] : up[t][j] = Request(r) => s = t /\ i = j

\* A request under way has had no effect and no answer; an answer says whether
\* it took effect.
Truth ==
  \A r \in Requests :
    /\ Underway(r) => /\ r \notin done /\ promise[r] \in {"pending", "timeout", "shutdown"}
                      /\ ~Answered(r, TRUE) /\ ~Answered(r, FALSE)
    /\ Answered(r, TRUE) => r \in done
    /\ Answered(r, FALSE) => r \notin done
    /\ promise[r] = "unsent" =>
         r \notin done /\ ~Answered(r, TRUE) /\ ~Answered(r, FALSE)
    /\ promise[r] = "ok" => r \in done
    /\ promise[r] \in {"refused", "error"} => r \notin done

\* What a step does with r, as far as Truth can tell: r sets out when it is asked,
\* takes effect when it ends, and an answer begins there.
Flows(r) ==
  /\ Underway(r)' => Underway(r) \/ (promise[r] = "unsent" /\ promise'[r] = "pending")
  /\ \A ok \in BOOLEAN : Answered(r, ok)' =>
       Answered(r, ok) \/ (Underway(r) /\ ~Underway(r)' /\ (ok <=> r \in done'))
  /\ r \in done => r \in done'
  /\ r \in done' => r \in done \/ (Underway(r) /\ ~Underway(r)')

\* What a step tells the caller of r, and on what grounds.
Grounds(r) ==
  \/ promise'[r] = promise[r]
  \/ promise[r] = "unsent" /\ promise'[r] \in {"pending", "refused"}
  \/ promise[r] = "pending" /\ promise'[r] \in {"timeout", "shutdown"}
  \/ promise[r] = "pending" /\ promise'[r] = "ok" /\ Answered(r, TRUE)
  \/ promise[r] = "pending" /\ promise'[r] = "error" /\ Answered(r, FALSE)

LEMMA TruthFlows ==
  ASSUME Truth, \A r \in Requests : Flows(r) /\ Grounds(r)
  PROVE  Truth'
<1> SUFFICES ASSUME NEW r \in Requests
             PROVE  /\ Underway(r)' =>
                         /\ r \notin done' /\ promise'[r] \in {"pending", "timeout", "shutdown"}
                         /\ ~Answered(r, TRUE)' /\ ~Answered(r, FALSE)'
                    /\ Answered(r, TRUE)' => r \in done'
                    /\ Answered(r, FALSE)' => r \notin done'
                    /\ promise'[r] = "unsent" =>
                         r \notin done' /\ ~Answered(r, TRUE)' /\ ~Answered(r, FALSE)'
                    /\ promise'[r] = "ok" => r \in done'
                    /\ promise'[r] \in {"refused", "error"} => r \notin done'
  BY DEF Truth
<1>1. Flows(r) /\ Grounds(r)
  OBVIOUS
<1>2. /\ Underway(r) => /\ r \notin done /\ promise[r] \in {"pending", "timeout", "shutdown"}
                        /\ ~Answered(r, TRUE) /\ ~Answered(r, FALSE)
      /\ Answered(r, TRUE) => r \in done
      /\ Answered(r, FALSE) => r \notin done
      /\ promise[r] = "unsent" =>
           r \notin done /\ ~Answered(r, TRUE) /\ ~Answered(r, FALSE)
      /\ promise[r] = "ok" => r \in done
      /\ promise[r] \in {"refused", "error"} => r \notin done
  BY DEF Truth
<1>3. /\ Underway(r)' => Underway(r) \/ (promise[r] = "unsent" /\ promise'[r] = "pending")
      /\ Answered(r, TRUE)' =>
           Answered(r, TRUE) \/ (Underway(r) /\ ~Underway(r)' /\ r \in done')
      /\ Answered(r, FALSE)' =>
           Answered(r, FALSE) \/ (Underway(r) /\ ~Underway(r)' /\ r \notin done')
      /\ r \in done => r \in done'
      /\ r \in done' => r \in done \/ (Underway(r) /\ ~Underway(r)')
  BY <1>1 DEF Flows
<1> QED
  BY <1>1, <1>2, <1>3 DEF Grounds

LEMMA FramesDiffer ==
  /\ \A r, q : Request(r) = Request(q) => r = q
  /\ \A r, q, a, b : Answer(r, a) = Answer(q, b) => r = q /\ a = b
  /\ \A r, q, a : Request(r) # Answer(q, a)
  /\ \A r, a : Request(r).type = "request" /\ Answer(r, a).type = "answer"
<1>1. \A r : Request(r).type = "request" /\ Request(r).r = r
  BY DEF Request
<1>2. \A r, a : Answer(r, a).type = "answer" /\ Answer(r, a).r = r /\ Answer(r, a).ok = a
  BY DEF Answer
<1> QED
  BY <1>1, <1>2

-----------------------------------------------------------------------------
(* What a step may do to the wires, kind by kind.                           *)

LEMMA QueuedOnce ==
  ASSUME OnePlace, NEW r \in Requests, NEW s \in Sockets, NEW t \in Sockets,
         NEW i \in DOMAIN up[s], NEW j \in DOMAIN up[t],
         up[s][i] = Request(r), up[t][j] = Request(r)
  PROVE  s = t /\ i = j
  BY DEF OnePlace

\* Messages are lost, or the first is heard; nothing is added.
Heard ==
  \E d \in [Sockets -> {0, 1}] : \A s \in Sockets : \A i \in DOMAIN up'[s] :
    /\ i \in Nat /\ i + d[s] \in DOMAIN up[s]
    /\ up'[s][i] = up[s][i + d[s]]
Drops == Heard /\ \A s \in Sockets : down'[s] \subseteq down[s]

LEMMA DroppedFlows ==
  ASSUME OnePlace, UNCHANGED <<working, done>>, Drops
  PROVE  OnePlace' /\ \A r \in Requests : Flows(r)
<1>1. PICK d \in [Sockets -> {0, 1}] : \A s \in Sockets : \A i \in DOMAIN up'[s] :
        i \in Nat /\ i + d[s] \in DOMAIN up[s] /\ up'[s][i] = up[s][i + d[s]]
  BY DEF Drops, Heard
<1>2. \A s \in Sockets : \A m : Queued(m, s)' => Queued(m, s)
  BY <1>1 DEF Queued
<1>3. \A r \in Requests : Flows(r)
  BY <1>2 DEF Flows, Underway, Answered, Drops
<1>4. OnePlace'
  <2> SUFFICES ASSUME NEW r \in Requests, NEW s \in Sockets, NEW t \in Sockets
               PROVE  /\ Request(r) \in down'[s] /\ Request(r) \in down'[t] => s = t
                      /\ <<r, s>> \in working' /\ <<r, t>> \in working' => s = t
                      /\ Request(r) \in down'[s] => r.kind # "notify" /\ <<r, t>> \notin working'
                      /\ \A i \in DOMAIN up'[s] : up'[s][i] = Request(r) =>
                           /\ r.kind = "notify" /\ <<r, t>> \notin working'
                           /\ \A j \in DOMAIN up'[t] : up'[t][j] = Request(r) => s = t /\ i = j
    BY DEF OnePlace, Request
  <2>1. /\ Request(r) \in down'[s] /\ Request(r) \in down'[t] => s = t
        /\ <<r, s>> \in working' /\ <<r, t>> \in working' => s = t
        /\ Request(r) \in down'[s] => r.kind # "notify" /\ <<r, t>> \notin working'
    BY DEF OnePlace, Drops
  <2>2. ASSUME NEW i \in DOMAIN up'[s], up'[s][i] = Request(r)
        PROVE  /\ r.kind = "notify" /\ <<r, t>> \notin working'
               /\ \A j \in DOMAIN up'[t] : up'[t][j] = Request(r) => s = t /\ i = j
    <3>1. i \in Nat /\ i + d[s] \in DOMAIN up[s] /\ up[s][i + d[s]] = Request(r)
      BY <1>1, <2>2
    <3>2. r.kind = "notify" /\ <<r, t>> \notin working'
      BY <3>1 DEF OnePlace
    <3>3. ASSUME NEW j \in DOMAIN up'[t], up'[t][j] = Request(r) PROVE s = t /\ i = j
      <4>1. j \in Nat /\ j + d[t] \in DOMAIN up[t] /\ up[t][j + d[t]] = Request(r)
        BY <1>1, <3>3
      <4>2. s = t /\ i + d[s] = j + d[t]
        BY <3>1, <4>1 DEF OnePlace
      <4> QED
        BY <3>1, <4>1, <4>2
    <3> QED
      BY <3>2, <3>3
  <2> QED
    BY <2>1, <2>2
<1> QED
  BY <1>3, <1>4

\* The queues that a step empties or reads from drop messages.
LEMMA QueuesHeard ==
  ASSUME up \in [Sockets -> Seq(Messages)],
         \/ \A s \in Sockets : up'[s] \in {up[s], <<>>}
         \/ \E s \in Sockets : up[s] # <<>> /\ up' = [up EXCEPT ![s] = Tail(@)]
  PROVE  Heard
<1>1. CASE \A s \in Sockets : up'[s] \in {up[s], <<>>}
  <2> DEFINE d == [s \in Sockets |-> 0]
  <2>1. d \in [Sockets -> {0, 1}]
    OBVIOUS
  <2>2. \A s \in Sockets : \A i \in DOMAIN up'[s] :
          i \in Nat /\ i + d[s] \in DOMAIN up[s] /\ up'[s][i] = up[s][i + d[s]]
    <3> SUFFICES ASSUME NEW s \in Sockets, NEW i \in DOMAIN up'[s]
                 PROVE  i \in Nat /\ i + 0 \in DOMAIN up[s] /\ up'[s][i] = up[s][i + 0]
      OBVIOUS
    <3>1. up'[s] = up[s]
      BY <1>1
    <3>2. DOMAIN up[s] \subseteq Nat
      OBVIOUS
    <3> QED
      BY <3>1, <3>2
  <2> HIDE DEF d
  <2> QED
    BY <2>1, <2>2 DEF Heard
<1>2. ASSUME NEW t \in Sockets, up[t] # <<>>, up' = [up EXCEPT ![t] = Tail(@)] PROVE Heard
  <2> DEFINE d == [s \in Sockets |-> IF s = t THEN 1 ELSE 0]
  <2>1. d \in [Sockets -> {0, 1}]
    OBVIOUS
  <2>2. \A s \in Sockets : \A i \in DOMAIN up'[s] :
          i \in Nat /\ i + d[s] \in DOMAIN up[s] /\ up'[s][i] = up[s][i + d[s]]
    <3> SUFFICES ASSUME NEW s \in Sockets, NEW i \in DOMAIN up'[s]
                 PROVE  i \in Nat /\ i + d[s] \in DOMAIN up[s] /\ up'[s][i] = up[s][i + d[s]]
      OBVIOUS
    <3>1. CASE s = t
      BY <1>2, <3>1, UpHeard
    <3>2. CASE s # t
      <4>1. up'[s] = up[s] /\ d[s] = 0 /\ DOMAIN up[s] \subseteq Nat
        BY <1>2, <3>2
      <4> QED
        BY <4>1
    <3> QED
      BY <3>1, <3>2
  <2> HIDE DEF d
  <2> QED
    BY <2>1, <2>2 DEF Heard
<1> QED
  BY <1>1, <1>2

\* One message more goes up, at most.
Adds(m) ==
  \E s, k : \A t \in Sockets : \A i \in DOMAIN up'[t] :
    \/ i \in DOMAIN up[t] /\ up'[t][i] = up[t][i]
    \/ t = s /\ i = k /\ up'[t][i] = m

LEMMA SentUpAdds ==
  ASSUME RelaysTypeOK, NEW m \in Messages,
         up' = SentUp(m) \/ \E s \in Sockets : up' = [up EXCEPT ![s] = Append(@, m)]
  PROVE  Adds(m)
<1>1. CASE up' = up
  BY <1>1 DEF Adds
<1>2. ASSUME NEW s \in Sockets, up' = [up EXCEPT ![s] = Append(@, m)] PROVE Adds(m)
  <2>1. \A t \in Sockets : \A i \in DOMAIN up'[t] :
          \/ i \in DOMAIN up[t] /\ up'[t][i] = up[t][i]
          \/ t = s /\ i = Len(up[s]) + 1 /\ up'[t][i] = m
    BY <1>2, UpGrows DEF RelaysTypeOK
  <2> QED
    BY <2>1 DEF Adds
<1> QED
  BY <1>1, <1>2, SentUpwards

\* A message that asks nothing leaves every request where it is.
LEMMA SaidOnePlace ==
  ASSUME OnePlace, working' \subseteq working,
         \A s \in Sockets, q \in Requests : Request(q) \in down'[s] => Request(q) \in down[s],
         \/ UNCHANGED up
         \/ \E m : Adds(m) /\ \A q \in Requests : m # Request(q)
  PROVE  OnePlace' /\ \A q \in Requests : Underway(q)' => Underway(q)
<1>1. \A s \in Sockets, q \in Requests : \A i \in DOMAIN up'[s] :
        up'[s][i] = Request(q) => i \in DOMAIN up[s] /\ up[s][i] = Request(q)
  BY DEF Adds
<1>2. \A q \in Requests : Underway(q)' => Underway(q)
  BY <1>1 DEF Underway, Queued, Request
<1>3. OnePlace'
  <2> SUFFICES ASSUME NEW r \in Requests, NEW s \in Sockets, NEW t \in Sockets
               PROVE  /\ Request(r) \in down'[s] /\ Request(r) \in down'[t] => s = t
                      /\ <<r, s>> \in working' /\ <<r, t>> \in working' => s = t
                      /\ Request(r) \in down'[s] => r.kind # "notify" /\ <<r, t>> \notin working'
                      /\ \A i \in DOMAIN up'[s] : up'[s][i] = Request(r) =>
                           /\ r.kind = "notify" /\ <<r, t>> \notin working'
                           /\ \A j \in DOMAIN up'[t] : up'[t][j] = Request(r) => s = t /\ i = j
    BY DEF OnePlace, Request
  <2> QED
    BY <1>1 DEF OnePlace
<1> QED
  BY <1>2, <1>3

LEMMA SaidFlows ==
  ASSUME OnePlace, UNCHANGED <<working, done, down>>, NEW m, Adds(m),
         \A q \in Requests, ok \in BOOLEAN : m # Request(q) /\ m # Answer(q, ok)
  PROVE  OnePlace' /\ \A q \in Requests : Flows(q)
<1>1. \A s \in Sockets, q \in Requests, ok \in BOOLEAN :
        Queued(Answer(q, ok), s)' => Queued(Answer(q, ok), s)
  BY DEF Adds, Queued, Answer
<1> QED
  BY <1>1, SaidOnePlace DEF Flows, Answered

\* A request that is asked is in the one place where the step put it.
LEMMA AskedFlows ==
  ASSUME OnePlace, UNCHANGED <<working, done>>, NEW r \in Requests, ~Underway(r),
         promise[r] = "unsent", promise'[r] = "pending",
         \/ /\ UNCHANGED up /\ r.kind # "notify"
            /\ \E s \in Sockets : \A t \in Sockets :
                 down'[t] = IF t = s THEN down[t] \cup {Request(r)} ELSE down[t]
         \/ UNCHANGED down /\ r.kind = "notify" /\ Adds(Request(r))
  PROVE  OnePlace' /\ \A q \in Requests : Flows(q)
<1>0. \A s \in Sockets : \A m : m # Request(r) =>
        /\ \A i \in DOMAIN up'[s] : up'[s][i] = m => i \in DOMAIN up[s] /\ up[s][i] = m
        /\ m \in down'[s] => m \in down[s]
  <2>1. CASE UNCHANGED up /\ \E s \in Sockets : \A t \in Sockets :
               down'[t] = IF t = s THEN down[t] \cup {Request(r)} ELSE down[t]
    BY <2>1
  <2>2. CASE UNCHANGED down /\ Adds(Request(r))
    BY <2>2 DEF Adds
  <2> QED
    BY <2>1, <2>2
<1>1. \A s \in Sockets, q \in Requests, ok \in BOOLEAN :
        /\ Queued(Answer(q, ok), s)' => Queued(Answer(q, ok), s)
        /\ Answer(q, ok) \in down'[s] => Answer(q, ok) \in down[s]
  BY <1>0, FramesDiffer DEF Queued, Answer
<1>2. \A s \in Sockets, q \in Requests : q # r =>
        /\ \A i \in DOMAIN up'[s] :
             up'[s][i] = Request(q) => i \in DOMAIN up[s] /\ up[s][i] = Request(q)
        /\ Request(q) \in down'[s] => Request(q) \in down[s]
  BY <1>0, FramesDiffer
<1>3. ASSUME NEW q \in Requests, q # r, Underway(q)' PROVE Underway(q)
  <2>1. PICK s \in Sockets : \/ Request(q) \in down'[s] \/ <<q, s>> \in working'
                             \/ \E i \in DOMAIN up'[s] : up'[s][i] = Request(q)
    BY <1>3 DEF Underway, Queued, Request
  <2> QED
    BY <1>2, <1>3, <2>1 DEF Underway, Queued
<1>4. \A q \in Requests : Flows(q)
  BY <1>1, <1>3 DEF Flows, Answered
<1>5. \A s \in Sockets : /\ Request(r) \notin down[s] /\ <<r, s>> \notin working
                         /\ \A i \in DOMAIN up[s] : up[s][i] # Request(r)
  BY DEF Underway, Queued
<1>6. OnePlace'
  <2> SUFFICES ASSUME NEW q \in Requests, NEW s \in Sockets, NEW t \in Sockets
               PROVE  /\ Request(q) \in down'[s] /\ Request(q) \in down'[t] => s = t
                      /\ <<q, s>> \in working' /\ <<q, t>> \in working' => s = t
                      /\ Request(q) \in down'[s] => q.kind # "notify" /\ <<q, t>> \notin working'
                      /\ \A i \in DOMAIN up'[s] : up'[s][i] = Request(q) =>
                           /\ q.kind = "notify" /\ <<q, t>> \notin working'
                           /\ \A j \in DOMAIN up'[t] : up'[t][j] = Request(q) => s = t /\ i = j
    BY DEF OnePlace, Request
  <2>1. CASE q # r
    BY <1>2, <2>1 DEF OnePlace
  <2>2. CASE q = r
    BY <1>5, <2>2 DEF Adds
  <2> QED
    BY <2>1, <2>2
<1> QED
  BY <1>4, <1>6

\* The handler of a request starts where the request was.
LEMMA StartedFlows ==
  ASSUME OnePlace, UNCHANGED done, NEW r \in Requests, NEW s \in Sockets, Drops,
         working' = working \cup {<<r, s>>}, Underway(r),
         \A t \in Sockets : /\ Request(r) \notin down'[t] /\ <<r, t>> \notin working
                            /\ \A i \in DOMAIN up'[t] : up'[t][i] # Request(r)
  PROVE  OnePlace' /\ \A q \in Requests : Flows(q)
<1>1. PICK d \in [Sockets -> {0, 1}] : \A t \in Sockets : \A i \in DOMAIN up'[t] :
        i \in Nat /\ i + d[t] \in DOMAIN up[t] /\ up'[t][i] = up[t][i + d[t]]
  BY DEF Drops, Heard
<1>2. \A t \in Sockets : \A m : Queued(m, t)' => Queued(m, t)
  BY <1>1 DEF Queued
<1>3. \A t \in Sockets, q \in Requests : <<q, t>> \in working' /\ q # r => <<q, t>> \in working
  OBVIOUS
<1>4. \A q \in Requests : Flows(q)
  BY <1>2, <1>3 DEF Flows, Underway, Answered, Drops
<1>5. OnePlace'
  <2> SUFFICES ASSUME NEW q \in Requests, NEW t \in Sockets, NEW u \in Sockets
               PROVE  /\ Request(q) \in down'[t] /\ Request(q) \in down'[u] => t = u
                      /\ <<q, t>> \in working' /\ <<q, u>> \in working' => t = u
                      /\ Request(q) \in down'[t] => q.kind # "notify" /\ <<q, u>> \notin working'
                      /\ \A i \in DOMAIN up'[t] : up'[t][i] = Request(q) =>
                           /\ q.kind = "notify" /\ <<q, u>> \notin working'
                           /\ \A j \in DOMAIN up'[u] : up'[u][j] = Request(q) => t = u /\ i = j
    BY DEF OnePlace, Request
  <2>1. CASE q = r
    BY <2>1
  <2>2. CASE q # r
    <3>1. /\ Request(q) \in down'[t] /\ Request(q) \in down'[u] => t = u
          /\ <<q, t>> \in working' /\ <<q, u>> \in working' => t = u
          /\ Request(q) \in down'[t] => q.kind # "notify" /\ <<q, u>> \notin working'
      BY <1>3, <2>2 DEF OnePlace, Drops
    <3>2. ASSUME NEW i \in DOMAIN up'[t], up'[t][i] = Request(q)
          PROVE  /\ q.kind = "notify" /\ <<q, u>> \notin working'
                 /\ \A j \in DOMAIN up'[u] : up'[u][j] = Request(q) => t = u /\ i = j
      <4>1. i \in Nat /\ i + d[t] \in DOMAIN up[t] /\ up[t][i + d[t]] = Request(q)
        <5>1. i \in Nat /\ i + d[t] \in DOMAIN up[t] /\ up'[t][i] = up[t][i + d[t]]
          BY <1>1
        <5> QED
          BY <3>2, <5>1
      <4>2. q.kind = "notify" /\ <<q, u>> \notin working'
        <5>1. q.kind = "notify" /\ <<q, u>> \notin working
          BY <4>1 DEF OnePlace
        <5> QED
          BY <1>3, <2>2, <5>1
      <4>3. ASSUME NEW j \in DOMAIN up'[u], up'[u][j] = Request(q) PROVE t = u /\ i = j
        <5>1. j \in Nat /\ j + d[u] \in DOMAIN up[u] /\ up[u][j + d[u]] = Request(q)
          <6>1. j \in Nat /\ j + d[u] \in DOMAIN up[u] /\ up'[u][j] = up[u][j + d[u]]
            BY <1>1
          <6> QED
            BY <4>3, <6>1
        <5>2. t = u /\ i + d[t] = j + d[u]
          BY <4>1, <5>1 DEF OnePlace
        <5> QED
          BY <4>1, <5>1, <5>2
      <4> QED
        BY <4>2, <4>3
    <3> QED
      BY <3>1, <3>2
  <2> QED
    BY <2>1, <2>2
<1> QED
  BY <1>4, <1>5

\* A request that ends was in one place, which it leaves.
LEMMA EndedFlows ==
  ASSUME OnePlace, NEW r \in Requests, NEW s \in Sockets, NEW ok \in BOOLEAN,
         <<r, s>> \in working, working' = working \ {<<r, s>>},
         done' = IF ok THEN done \cup {r} ELSE done, r \notin done,
         \/ UNCHANGED up /\ \A t \in Sockets : down'[t] \subseteq down[t] \cup {Answer(r, ok)}
         \/ UNCHANGED down /\ Adds(Answer(r, ok))
  PROVE  OnePlace' /\ \A q \in Requests : Flows(q)
<1>1. \A t \in Sockets, q \in Requests : Request(q) \in down'[t] => Request(q) \in down[t]
  BY FramesDiffer
<1>2. OnePlace' /\ \A q \in Requests : Underway(q)' => Underway(q)
  <2>1. working' \subseteq working
    OBVIOUS
  <2>2. UNCHANGED up \/ (Adds(Answer(r, ok)) /\ \A q \in Requests : Answer(r, ok) # Request(q))
    BY FramesDiffer
  <2> QED
    BY <1>1, <2>1, <2>2, SaidOnePlace
<1>3. Underway(r) /\ ~Underway(r)'
  <2>1. \A t \in Sockets : /\ Request(r) \notin down[t]
                           /\ \A i \in DOMAIN up[t] : up[t][i] # Request(r)
                           /\ <<r, t>> \notin working'
    BY DEF OnePlace
  <2>2. \A t \in Sockets : \A i \in DOMAIN up'[t] : up'[t][i] # Request(r)
    BY <2>1, FramesDiffer DEF Adds
  <2> QED
    BY <1>1, <2>1, <2>2 DEF Underway, Queued, Request
<1>4. \A t \in Sockets, q \in Requests, b \in BOOLEAN :
        Answer(q, b) \in down'[t] \/ Queued(Answer(q, b), t)' =>
          \/ Answer(q, b) \in down[t] \/ Queued(Answer(q, b), t)
          \/ q = r /\ b = ok
  BY FramesDiffer DEF Adds, Queued, Answer
<1>5. \A q \in Requests, b \in BOOLEAN :
        Answered(q, b)' => Answered(q, b) \/ (q = r /\ b = ok)
  BY <1>4 DEF Answered, Answer
<1>6. r \in done' <=> ok
  OBVIOUS
<1> QED
  BY <1>2, <1>3, <1>5, <1>6 DEF Flows

\* A notification that is refused at once leaves the queue and is answered so.
Refuses(r, no) ==
  \A t \in Sockets : /\ down'[t] \subseteq down[t] \cup {Answer(r, no)}
                     /\ Request(r) \notin down[t] /\ <<r, t>> \notin working
                     /\ \A i \in DOMAIN up'[t] : up'[t][i] # Request(r)

LEMMA RefusedFlows ==
  ASSUME OnePlace, UNCHANGED <<working, done>>, NEW r \in Requests, r \notin done,
         NEW no \in BOOLEAN, ~no,
         Underway(r),
         Refuses(r, no), Heard
  PROVE  OnePlace' /\ \A q \in Requests : Flows(q)
<1>1. PICK d \in [Sockets -> {0, 1}] : \A t \in Sockets : \A i \in DOMAIN up'[t] :
        i \in Nat /\ i + d[t] \in DOMAIN up[t] /\ up'[t][i] = up[t][i + d[t]]
  BY DEF Heard
<1>2. \A t \in Sockets : \A m : Queued(m, t)' => Queued(m, t)
  BY <1>1 DEF Queued
<1>0. \A t \in Sockets : \A m : m # Answer(r, no) /\ m \in down'[t] => m \in down[t]
  BY DEF Refuses
<1>3. \A t \in Sockets, q \in Requests : Request(q) \in down'[t] => Request(q) \in down[t]
  BY <1>0, FramesDiffer
<1>4. \A q \in Requests : Underway(q)' => Underway(q)
  BY <1>2, <1>3 DEF Underway, Request
<1>5. ~Underway(r)'
  BY <1>3 DEF Refuses, Underway, Queued, Request
<1>6. \A q \in Requests, b \in BOOLEAN :
        Answered(q, b)' => Answered(q, b) \/ (q = r /\ b = no)
  <2> SUFFICES ASSUME NEW q \in Requests, NEW b \in BOOLEAN, Answered(q, b)', q # r \/ b # no
               PROVE  Answered(q, b)
    OBVIOUS
  <2>1. PICK t \in Sockets : Answer(q, b) \in down'[t] \/ Queued(Answer(q, b), t)'
    BY DEF Answered, Answer
  <2>2. Answer(q, b) # Answer(r, no)
    BY FramesDiffer
  <2> QED
    BY <1>0, <1>2, <2>1, <2>2 DEF Answered
<1>7. \A q \in Requests : Flows(q)
  BY <1>4, <1>5, <1>6 DEF Flows
<1>8. OnePlace'
  <2> SUFFICES ASSUME NEW q \in Requests, NEW t \in Sockets, NEW u \in Sockets
               PROVE  /\ Request(q) \in down'[t] /\ Request(q) \in down'[u] => t = u
                      /\ <<q, t>> \in working' /\ <<q, u>> \in working' => t = u
                      /\ Request(q) \in down'[t] => q.kind # "notify" /\ <<q, u>> \notin working'
                      /\ \A i \in DOMAIN up'[t] : up'[t][i] = Request(q) =>
                           /\ q.kind = "notify" /\ <<q, u>> \notin working'
                           /\ \A j \in DOMAIN up'[u] : up'[u][j] = Request(q) => t = u /\ i = j
    BY DEF OnePlace, Request
  <2>1. /\ Request(q) \in down'[t] /\ Request(q) \in down'[u] => t = u
        /\ <<q, t>> \in working' /\ <<q, u>> \in working' => t = u
        /\ Request(q) \in down'[t] => q.kind # "notify" /\ <<q, u>> \notin working'
    BY <1>3 DEF OnePlace
  <2>2. ASSUME NEW i \in DOMAIN up'[t], up'[t][i] = Request(q)
        PROVE  /\ q.kind = "notify" /\ <<q, u>> \notin working'
               /\ \A j \in DOMAIN up'[u] : up'[u][j] = Request(q) => t = u /\ i = j
    <3>1. i \in Nat /\ i + d[t] \in DOMAIN up[t] /\ up[t][i + d[t]] = Request(q)
      <4>1. i \in Nat /\ i + d[t] \in DOMAIN up[t] /\ up'[t][i] = up[t][i + d[t]]
        BY <1>1
      <4> QED
        BY <2>2, <4>1
    <3>2. q.kind = "notify" /\ <<q, u>> \notin working'
      BY <3>1 DEF OnePlace
    <3>3. ASSUME NEW j \in DOMAIN up'[u], up'[u][j] = Request(q) PROVE t = u /\ i = j
      <4>1. j \in Nat /\ j + d[u] \in DOMAIN up[u] /\ up'[u][j] = up[u][j + d[u]]
        BY <1>1
      <4>2. up[u][j + d[u]] = Request(q)
        BY <3>3, <4>1
      <4>3. t = u /\ i + d[t] = j + d[u]
        BY <3>1, <4>1, <4>2, QueuedOnce
      <4> QED
        BY <3>1, <4>1, <4>3
    <3> QED
      BY <3>2, <3>3
  <2> QED
    BY <2>1, <2>2
<1> QED
  BY <1>7, <1>8

-----------------------------------------------------------------------------
(* The same of every action.                                                *)

Honestly == OnePlace' /\ \A q \in Requests : Flows(q)

LEMMA QuietFlows ==
  ASSUME RelaysTypeOK, OnePlace, UNCHANGED <<working, done>>,
         \A s \in Sockets : down'[s] \subseteq down[s],
         \/ \A s \in Sockets : up'[s] \in {up[s], <<>>}
         \/ \E s \in Sockets : up[s] # <<>> /\ up' = [up EXCEPT ![s] = Tail(@)]
  PROVE  Honestly
  BY QueuesHeard, DroppedFlows DEF RelaysTypeOK, Drops, Honestly

LEMMA ConnectionsFlow ==
  ASSUME RelaysTypeOK, OnePlace, Connections
  PROVE  Honestly
<1>1. ASSUME UNCHANGED <<working, done, wires>> PROVE Honestly
  BY <1>1, QuietFlows DEF wires
<1>2. ASSUME NEW s \in Sockets, startGatewayWsClient(s) \/ Opened(s) PROVE Honestly
  BY <1>1, <1>2 DEF startGatewayWsClient, Opened
<1>3. ASSUME NEW s \in Sockets, sendClientHello(s) PROVE Honestly
  <2>1. Adds([type |-> "hello"])
    BY <1>3, SentUpAdds, FrameTypes DEF sendClientHello
  <2>2. \A q \in Requests, ok \in BOOLEAN :
          [type |-> "hello"] # Request(q) /\ [type |-> "hello"] # Answer(q, ok)
    BY DEF Request, Answer
  <2> QED
    BY <1>3, <2>1, <2>2, SaidFlows DEF sendClientHello, Honestly
<1>4. ASSUME NEW s \in Sockets, ClientSocketCloses(s) PROVE Honestly
  <2>1. \A t \in Sockets : down'[t] \subseteq down[t]
    BY <1>4 DEF ClientSocketCloses, RelaysTypeOK
  <2> QED
    BY <1>4, <2>1, QuietFlows DEF ClientSocketCloses
<1>5. ASSUME NEW s \in Sockets, GatewaySocketCloses(s) PROVE Honestly
  <2>1. \A t \in Sockets : up'[t] \in {up[t], <<>>}
    BY <1>5 DEF GatewaySocketCloses, RelaysTypeOK
  <2> QED
    BY <1>5, <2>1, QuietFlows DEF GatewaySocketCloses
<1>6. CASE closeGatewayWsResources
  BY <1>6, QuietFlows DEF closeGatewayWsResources
<1> QED
  BY <1>2, <1>3, <1>4, <1>5, <1>6 DEF Connections

LEMMA AskFlows ==
  ASSUME RelaysTypeOK, OnePlace, Truth, UNCHANGED <<working, done, up>>,
         NEW r \in Requests, r.kind # "notify", MayAsk(r),
         NEW s \in Sockets \cup {NoSocket}, Ask(r, s)
  PROVE  Honestly
<1>1. promise[r] = "unsent" /\ ~Underway(r)
  BY DEF MayAsk, Truth
<1>2. CASE down' = down
  BY <1>2, QuietFlows
<1>3. CASE down' # down
  <2>1. s \in Sockets /\ promise'[r] = "pending"
    BY <1>3 DEF Ask, RelaysTypeOK
  <2>2. down' = [down EXCEPT ![s] = @ \cup {Request(r)}]
    BY <1>3, AskTyped
  <2>3. \A t \in Sockets : down'[t] = IF t = s THEN down[t] \cup {Request(r)} ELSE down[t]
    BY <2>1, <2>2 DEF RelaysTypeOK
  <2> QED
    BY <1>1, <2>1, <2>3, AskedFlows DEF Honestly
<1> QED
  BY <1>2, <1>3

LEMMA AskingFlows ==
  ASSUME RelaysTypeOK, OnePlace, Truth, Asking
  PROVE  Honestly
<1>0. /\ findConnectedSocketForSession \in Sockets \cup {NoSocket}
      /\ connectedClientsByUuid \in Sockets \cup {NoSocket}
  BY DEF findConnectedSocketForSession, RelaysTypeOK
<1>1. ASSUME NEW r \in Requests, requestClientAction(r) PROVE Honestly
  BY <1>0, <1>1, AskFlows DEF requestClientAction
<1>2. ASSUME NEW r \in Requests, publishAgentNotification(r) PROVE Honestly
  <2>1. CASE UNCHANGED up
    BY <1>2, <2>1, QuietFlows DEF publishAgentNotification
  <2>2. CASE ~UNCHANGED up
    <3>1. /\ promise[r] = "unsent" /\ promise'[r] = "pending" /\ r.kind = "notify"
          /\ up' = SentUp(Request(r)) /\ UNCHANGED <<working, done, down>>
      BY <1>2, <2>2 DEF publishAgentNotification, MayAsk, RelaysTypeOK, Request
    <3>2. ~Underway(r)
      BY <3>1 DEF Truth
    <3>3. Adds(Request(r))
      BY <3>1, SentUpAdds, FrameTypes
    <3> QED
      BY <3>1, <3>2, <3>3, AskedFlows DEF Honestly
  <2> QED
    BY <2>1, <2>2
<1>3. ASSUME NEW r \in Requests, Timeout(r) PROVE Honestly
  BY <1>3, QuietFlows DEF Timeout, wires
<1>4. ASSUME NEW v \in Streams, openLiveRelayStream(v) PROVE Honestly
  <2>1. Subscribe(v).kind # "notify" /\ Subscribe(v) \in Requests
    BY RequestKinds DEF Subscribe
  <2> QED
    BY <1>0, <1>4, <2>1, AskFlows DEF openLiveRelayStream
<1>5. ASSUME NEW v \in Streams, ViewerLeaves(v) PROVE Honestly
  <2>1. Unsubscribe(v).kind # "notify" /\ Unsubscribe(v) \in Requests
    BY RequestKinds DEF Unsubscribe
  <2>2. CASE UNCHANGED <<working, done, wires>>
    BY <2>2, QuietFlows DEF wires
  <2>3. CASE /\ MayAsk(Unsubscribe(v)) /\ Ask(Unsubscribe(v), findConnectedSocketForSession)
             /\ UNCHANGED <<working, done, up>>
    BY <1>0, <2>1, <2>3, AskFlows
  <2> QED
    BY <1>5, <2>2, <2>3 DEF ViewerLeaves
<1>6. ASSUME NEW v \in Streams, onData(v) PROVE Honestly
  <2> DEFINE m == [type |-> "event", of |-> v]
  <2>1. m \in Messages /\ up' = SentUp(m)
    BY <1>6, FrameTypes DEF onData
  <2>2. \A q \in Requests, ok \in BOOLEAN : m # Request(q) /\ m # Answer(q, ok)
    BY DEF Request, Answer
  <2> HIDE DEF m
  <2>3. Adds(m)
    BY <2>1, SentUpAdds
  <2> QED
    BY <1>6, <2>2, <2>3, SaidFlows DEF onData, Honestly
<1> QED
  BY <1>1, <1>2, <1>3, <1>4, <1>5, <1>6 DEF Asking

LEMMA StartingFlows ==
  ASSUME RelaysTypeOK, OnePlace, Truth, NEW s \in Sockets,
         handleRequest(s) \/ handleAgentNotification(s)
  PROVE  Honestly
<1>1. CASE handleRequest(s)
  <2>1. PICK m \in down[s] : /\ m.type = "request"
                             /\ down' = [down EXCEPT ![s] = @ \ {m}]
                             /\ working' = working \cup {<<m.r, s>>}
    BY <1>1 DEF handleRequest
  <2> DEFINE r == m.r
  <2>2. r \in Requests /\ m = Request(r) /\ UNCHANGED <<done, up>>
    BY <1>1, <2>1, FrameParts DEF handleRequest, RelaysTypeOK
  <2> HIDE DEF r
  <2>3. /\ down'[s] = down[s] \ {Request(r)}
        /\ \A t \in Sockets : t # s => down'[t] = down[t]
    BY <2>1, <2>2 DEF RelaysTypeOK
  <2>4. Drops
    BY <2>2, <2>3, QueuesHeard DEF Drops, RelaysTypeOK
  <2>5. \A t \in Sockets : /\ Request(r) \notin down'[t] /\ <<r, t>> \notin working
                           /\ \A i \in DOMAIN up'[t] : up'[t][i] # Request(r)
    BY <2>1, <2>2, <2>3 DEF OnePlace
  <2>6. Underway(r) /\ working' = working \cup {<<r, s>>}
    BY <2>1, <2>2 DEF Underway, r
  <2> QED
    BY <2>2, <2>4, <2>5, <2>6, StartedFlows DEF Honestly
<1>2. CASE handleAgentNotification(s)
  <2> DEFINE r == Head(up[s]).r
  <2>1. r \in Requests /\ Head(up[s]) = Request(r) /\ UNCHANGED done
    BY <1>2, HeardTyped DEF handleAgentNotification
  <2>2. up[s] # <<>> /\ up' = [up EXCEPT ![s] = Tail(@)]
    BY <1>2 DEF handleAgentNotification, Hears
  <2>3. \/ working' = working \cup {<<r, s>>} /\ down' = down
        \/ working' = working /\ down' = down
        \/ working' = working /\ down' = [down EXCEPT ![s] = @ \cup {Answer(r, FALSE)}]
    BY <1>2 DEF handleAgentNotification
  <2> HIDE DEF r
  <2>4. 1 \in DOMAIN up[s] /\ up[s][1] = Request(r)
    BY <2>1, <2>2, UpHeard DEF RelaysTypeOK
  <2>5. \A t \in Sockets : /\ Request(r) \notin down[t] /\ <<r, t>> \notin working
    BY <2>1, <2>4 DEF OnePlace
  <2>6. \A t \in Sockets : \A i \in DOMAIN up'[t] : up'[t][i] # Request(r)
    <3> SUFFICES ASSUME NEW t \in Sockets, NEW i \in DOMAIN up'[t], up'[t][i] = Request(r)
                 PROVE  FALSE
      OBVIOUS
    <3>1. CASE t = s
      <4>1. i + 1 \in DOMAIN up[s] /\ i + 1 # 1 /\ up'[s][i] = up[s][i + 1]
        BY <2>2, <3>1, UpHeard DEF RelaysTypeOK
      <4>2. up[s][i + 1] = Request(r)
        BY <3>1, <4>1
      <4> QED
        BY <2>1, <2>4, <4>1, <4>2, QueuedOnce
    <3>2. CASE t # s
      <4>1. i \in DOMAIN up[t] /\ up[t][i] = Request(r)
        BY <2>2, <3>2 DEF RelaysTypeOK
      <4> QED
        BY <2>1, <2>4, <3>2, <4>1, QueuedOnce
    <3> QED
      BY <3>1, <3>2
  <2>7. Heard
    BY <2>2, QueuesHeard DEF RelaysTypeOK
  <2>8. Underway(r)
    BY <2>4 DEF Underway, Queued
  <2>9. CASE working' = working \cup {<<r, s>>} /\ down' = down
    BY <2>1, <2>5, <2>6, <2>7, <2>8, <2>9, StartedFlows DEF Drops, Honestly
  <2>10. CASE working' = working /\ down' = down
    BY <2>1, <2>2, <2>10, QuietFlows
  <2>11. CASE working' = working /\ down' = [down EXCEPT ![s] = @ \cup {Answer(r, FALSE)}]
    <3>1. PICK no \in BOOLEAN : ~no /\ no = FALSE
      OBVIOUS
    <3>2. Refuses(r, no)
      BY <2>5, <2>6, <2>11, <3>1 DEF Refuses, RelaysTypeOK
    <3>3. r \notin done
      BY <2>1, <2>8 DEF Truth
    <3> QED
      BY <2>1, <2>7, <2>8, <2>11, <3>1, <3>2, <3>3, RefusedFlows DEF Honestly
  <2> QED
    BY <2>3, <2>9, <2>10, <2>11
<1> QED
  BY <1>1, <1>2

LEMMA EndingFlows ==
  ASSUME RelaysTypeOK, OnePlace, Truth, NEW s \in Sockets, NEW r \in Requests,
         \/ sendForGatewaySession(r, s) \/ processCall(r, s)
         \/ processSubscribe(r, s) \/ processUnsubscribe(r, s)
  PROVE  Honestly
<1>1. <<r, s>> \in working /\ working' = working \ {<<r, s>>}
  BY DEF sendForGatewaySession, processCall, processSubscribe, processUnsubscribe
<1>2. r \notin done
  <2>1. Underway(r)
    BY <1>1 DEF Underway
  <2> QED
    BY <2>1 DEF Truth
<1>3. CASE sendForGatewaySession(r, s)
  <2>1. PICK ok \in BOOLEAN :
          /\ done' = IF ok THEN done \cup {r} ELSE done
          /\ down' = IF near[s] # "open" \/ far[s] # "open" THEN down
                     ELSE [down EXCEPT ![s] = @ \cup {Answer(r, ok)}]
    BY <1>3 DEF sendForGatewaySession
  <2>2. \A t \in Sockets : down'[t] \subseteq down[t] \cup {Answer(r, ok)}
    BY <2>1 DEF RelaysTypeOK
  <2>3. UNCHANGED up
    BY <1>3 DEF sendForGatewaySession
  <2> QED
    BY <1>1, <1>2, <2>1, <2>2, <2>3, EndedFlows DEF Honestly
<1>4. CASE processCall(r, s) \/ processSubscribe(r, s) \/ processUnsubscribe(r, s)
  <2>1. PICK ok \in BOOLEAN : /\ done' = IF ok THEN done \cup {r} ELSE done
                              /\ up' = SentUp(Answer(r, ok))
    BY <1>4 DEF processCall, processSubscribe, processUnsubscribe
  <2>2. UNCHANGED down
    BY <1>4 DEF processCall, processSubscribe, processUnsubscribe
  <2>3. Adds(Answer(r, ok))
    BY <2>1, FrameTypes, SentUpAdds
  <2> QED
    BY <1>1, <1>2, <2>1, <2>2, <2>3, EndedFlows DEF Honestly
<1> QED
  BY <1>3, <1>4

LEMMA HandlingFlows ==
  ASSUME RelaysTypeOK, OnePlace, Truth, Handling
  PROVE  Honestly
<1>1. ASSUME NEW s \in Sockets, handleHello(s) \/ handleAnswer(s) \/ handleStreamEvent(s)
      PROVE  Honestly
  <2>1. up[s] # <<>> /\ up' = [up EXCEPT ![s] = Tail(@)]
    BY <1>1 DEF handleHello, handleAnswer, handleStreamEvent, Hears
  <2>2. UNCHANGED <<working, done, down>>
    BY <1>1 DEF handleHello, handleAnswer, handleStreamEvent
  <2> QED
    BY <2>1, <2>2, QuietFlows
<1>2. ASSUME NEW s \in Sockets, handleNotificationAnswer(s) PROVE Honestly
  <2>1. \A t \in Sockets : down'[t] \subseteq down[t]
    BY <1>2 DEF handleNotificationAnswer, RelaysTypeOK
  <2>2. UNCHANGED <<working, done, up>>
    BY <1>2 DEF handleNotificationAnswer
  <2> QED
    BY <2>1, <2>2, QuietFlows
<1> QED
  BY <1>1, <1>2, StartingFlows, EndingFlows DEF Handling

\* A caller is told "ok" or "error" only by an answer that says so.
LEMMA TellsTruth ==
  ASSUME RelaysTypeOK, [RelaysNext]_relaysVars, NEW r \in Requests
  PROVE  Grounds(r)
<1>0. promise \in [Requests -> PromiseStates]
  BY DEF RelaysTypeOK, PromiseStates
<1>1. CASE promise'[r] \notin {"ok", "error"} \/ promise'[r] = promise[r]
  BY <1>1, TellsOnce DEF Grounds, Settled
<1>2. CASE promise'[r] \in {"ok", "error"} /\ promise'[r] # promise[r]
  <2>1. promise[r] = "pending"
    BY <1>2, TellsOnce
  <2>2. ASSUME NEW s \in Sockets, handleAnswer(s) PROVE Grounds(r)
    <3> DEFINE m == Head(up[s])
    <3>1. m.r \in Requests /\ m.ok \in BOOLEAN /\ m = Answer(m.r, m.ok)
      BY <2>2, HeardTyped DEF handleAnswer
    <3>2. Queued(m, s)
      BY <2>2, UpHeard DEF handleAnswer, Hears, Queued, RelaysTypeOK
    <3>3. r = m.r /\ promise'[r] = IF m.ok THEN "ok" ELSE "error"
      BY <1>0, <1>2, <2>2, <3>1 DEF handleAnswer, Settle
    <3> HIDE DEF m
    <3>4. \E ok \in BOOLEAN : ok = m.ok /\ Answered(r, ok)
      BY <3>1, <3>2, <3>3 DEF Answered
    <3> QED
      BY <2>1, <3>3, <3>4 DEF Grounds
  <2>3. ASSUME NEW s \in Sockets, handleNotificationAnswer(s) PROVE Grounds(r)
    <3>1. PICK m \in down[s] :
            /\ m.type = "answer"
            /\ promise' = IF promise[m.r] # "pending" THEN promise
                          ELSE [promise EXCEPT ![m.r] = IF m.ok THEN "ok" ELSE "error"]
      BY <2>3 DEF handleNotificationAnswer
    <3>2. m.r \in Requests /\ m.ok \in BOOLEAN /\ m = Answer(m.r, m.ok)
      BY <3>1, FrameParts DEF RelaysTypeOK
    <3>3. r = m.r /\ promise'[r] = IF m.ok THEN "ok" ELSE "error"
      BY <1>0, <1>2, <3>1, <3>2
    <3>4. \E ok \in BOOLEAN : ok = m.ok /\ Answered(r, ok)
      BY <3>1, <3>2, <3>3 DEF Answered
    <3> QED
      BY <2>1, <3>3, <3>4 DEF Grounds
  <2>4. CASE Connections
    BY <1>0, <1>2, <2>4 DEF Connections, startGatewayWsClient, Opened, sendClientHello,
         ClientSocketCloses, GatewaySocketCloses, closeGatewayWsResources
  <2>5. ASSUME NEW q \in Requests, Timeout(q) PROVE Grounds(r)
    BY <1>0, <1>2, <2>5 DEF Timeout, Settle
  <2>6. ASSUME NEW q \in Requests, NEW s, Ask(q, s) PROVE Grounds(r)
    BY <1>0, <1>2, <2>6 DEF Ask
  <2>7. ASSUME NEW q \in Requests, requestClientAction(q) \/ publishAgentNotification(q)
        PROVE  Grounds(r)
    BY <1>0, <1>2, <2>6, <2>7 DEF requestClientAction, publishAgentNotification
  <2>8. ASSUME NEW v \in Streams, openLiveRelayStream(v) \/ ViewerLeaves(v) \/ onData(v)
        PROVE  Grounds(r)
    BY <1>2, <2>6, <2>8, RequestKinds DEF openLiveRelayStream, ViewerLeaves, onData
  <2>9. ASSUME NEW s \in Sockets,
               \/ handleHello(s) \/ handleStreamEvent(s) \/ handleAgentNotification(s)
               \/ handleRequest(s)
        PROVE  Grounds(r)
    BY <1>2, <2>9 DEF handleHello, handleStreamEvent, handleAgentNotification, handleRequest
  <2>10. ASSUME NEW s \in Sockets, NEW q \in Requests,
                \/ sendForGatewaySession(q, s) \/ processCall(q, s)
                \/ processSubscribe(q, s) \/ processUnsubscribe(q, s)
         PROVE  Grounds(r)
    BY <1>2, <2>10 DEF sendForGatewaySession, processCall, processSubscribe, processUnsubscribe
  <2>11. CASE UNCHANGED relaysVars
    BY <1>2, <2>11 DEF relaysVars
  <2>12. CASE Asking
    BY <2>5, <2>7, <2>8, <2>12 DEF Asking
  <2>13. CASE Handling
    BY <2>2, <2>3, <2>9, <2>10, <2>13 DEF Handling
  <2> QED
    BY <2>4, <2>11, <2>12, <2>13 DEF RelaysNext
<1> QED
  BY <1>1, <1>2

LEMMA TruthStep ==
  ASSUME RelaysTypeOK, OnePlace, Truth, [RelaysNext]_relaysVars
  PROVE  OnePlace' /\ Truth'
<1>1. Honestly
  <2>1. CASE UNCHANGED relaysVars
    BY <2>1, QuietFlows DEF relaysVars, wires
  <2> QED
    BY <2>1, ConnectionsFlow, AskingFlows, HandlingFlows DEF RelaysNext
<1> QED
  BY <1>1, TellsTruth, TruthFlows DEF Honestly

LEMMA TruthStart == RelaysInit => OnePlace /\ Truth
<1> SUFFICES ASSUME RelaysInit PROVE OnePlace /\ Truth
  OBVIOUS
<1>1. /\ \A s \in Sockets : down[s] = {} /\ up[s] = <<>> /\ DOMAIN up[s] = {}
      /\ working = {} /\ done = {}
      /\ \A r \in Requests : promise[r] = "unsent"
  BY DEF RelaysInit
<1>2. OnePlace
  BY <1>1 DEF OnePlace
<1>3. \A r \in Requests : ~Underway(r) /\ \A ok \in BOOLEAN : ~Answered(r, ok)
  BY <1>1 DEF Underway, Answered, Queued
<1> QED
  BY <1>1, <1>2, <1>3 DEF Truth

Relayed == RelaysSound /\ OnePlace /\ Truth

LEMMA RelayedStart == RelaysInit => Relayed
  BY RelaysSoundStart, TruthStart DEF Relayed

LEMMA RelayedStep == Relayed /\ [RelaysNext]_relaysVars => Relayed'
  BY RelaysSoundStep, TruthStep DEF Relayed, RelaysSound

\* Whatever the sockets do, a caller is told "ok" only of a request that took
\* effect and is refused or given an error only when it did not: for any number
\* of requests over any number of sockets that are lost and follow each other.
THEOREM CallersHearTheTruth == RelaysSpec => []AnswersAreTrue
<1>1. Relayed => AnswersAreTrue
  BY DEF Relayed, Truth, AnswersAreTrue
<1> QED
  BY <1>1, RelayedStart, RelayedStep, PTL DEF RelaysSpec

-----------------------------------------------------------------------------
(* The streams of the Mini App.                                             *)

\* How far a visit v has come agrees with its handler and with what its two
\* requests have been told.
Visit(v, handlers, stage, taken, subscribe, unsubscribe) ==
  /\ v \in handlers => stage \in {"opening", "open", "gone"}
  /\ stage \in {"opening", "open"} /\ v \notin taken => v \in handlers
  /\ stage = "opening" => subscribe = "pending"
  /\ stage = "open" => subscribe = "ok" /\ unsubscribe = "unsent"
  /\ unsubscribe # "unsent" => subscribe = "ok" /\ stage = "closed"

Watched ==
  \A v \in Streams :
    Visit(v, liveStreamHandlers, viewer[v], cut, promise[Subscribe(v)], promise[Unsubscribe(v)])

\* The terminal's subscriptions follow the requests that took effect.
Subscribed ==
  \A v \in Streams :
    /\ Subscribe(v) \in done /\ promise[Unsubscribe(v)] = "unsent" =>
         v \in localLiveStreamSubscriptions
    /\ Unsubscribe(v) \in done => v \notin localLiveStreamSubscriptions

LEMMA WatchedNext ==
  ASSUME \A v \in Streams :
           Visit(v, liveStreamHandlers', viewer'[v], cut', promise'[Subscribe(v)],
                 promise'[Unsubscribe(v)])
  PROVE  Watched'
  BY DEF Watched, Subscribe, Unsubscribe

LEMMA StreamsStart == RelaysInit => Watched /\ Subscribed
  BY RequestKinds DEF RelaysInit, Watched, Visit, Subscribed

LEMMA SubscribedStep ==
  ASSUME Relayed, Watched, Subscribed, [RelaysNext]_relaysVars
  PROVE  Subscribed'
<1>0. RelaysTypeOK /\ Truth
  BY DEF Relayed, RelaysSound
<1>1. \A v \in Streams : promise'[Unsubscribe(v)] = "unsent" => promise[Unsubscribe(v)] = "unsent"
  BY <1>0, TellsOnce, RequestKinds DEF Settled
<1>2. ASSUME UNCHANGED <<done, localLiveStreamSubscriptions>> PROVE Subscribed'
  BY <1>1, <1>2 DEF Subscribed, Subscribe, Unsubscribe
<1>3. ASSUME NEW s \in Sockets, NEW r \in Requests,
             sendForGatewaySession(r, s) \/ processCall(r, s)
      PROVE  Subscribed'
  <2>1. /\ UNCHANGED localLiveStreamSubscriptions /\ done' \in {done, done \cup {r}}
        /\ r.kind \notin {"subscribe", "unsubscribe"}
    BY <1>3 DEF sendForGatewaySession, processCall, client
  <2>2. \A v \in Streams : Subscribe(v) # r /\ Unsubscribe(v) # r
    BY <2>1 DEF Subscribe, Unsubscribe
  <2> QED
    BY <1>1, <2>1, <2>2 DEF Subscribed, Subscribe, Unsubscribe
<1>4. ASSUME NEW s \in Sockets, NEW r \in Requests, processSubscribe(r, s) PROVE Subscribed'
  <2>1. r = Subscribe(r.of) /\ r.of \in Streams /\ <<r, s>> \in working
    BY <1>4, RequestKinds DEF processSubscribe
  <2>2. promise[r] # "ok"
    BY <1>0, <2>1 DEF Truth, Underway
  <2>3. Unsubscribe(r.of) \notin done
    <3>1. promise[Unsubscribe(r.of)] = "unsent"
      BY <2>1, <2>2 DEF Watched, Visit
    <3> QED
      BY <1>0, <2>1, <3>1, RequestKinds DEF Truth
  <2>4. \A v \in Streams : /\ Subscribe(v) = r => v = r.of
                           /\ Unsubscribe(v) # r
    BY <2>1 DEF Subscribe, Unsubscribe
  <2>5. \/ UNCHANGED <<done, localLiveStreamSubscriptions>>
        \/ /\ done' = done \cup {r}
           /\ localLiveStreamSubscriptions' = localLiveStreamSubscriptions \cup {r.of}
    BY <1>4 DEF processSubscribe, StreamOf
  <2> QED
    BY <1>1, <1>2, <2>3, <2>4, <2>5 DEF Subscribed, Subscribe, Unsubscribe
<1>5. ASSUME NEW s \in Sockets, NEW r \in Requests, processUnsubscribe(r, s) PROVE Subscribed'
  <2>1. r = Unsubscribe(r.of) /\ r.of \in Streams /\ <<r, s>> \in working
    BY <1>5, RequestKinds DEF processUnsubscribe
  <2>2. promise[r] # "unsent" /\ UNCHANGED promise
    BY <1>0, <1>5, <2>1 DEF Truth, Underway, processUnsubscribe
  <2>3. \A v \in Streams : /\ Unsubscribe(v) = r <=> v = r.of
                           /\ Subscribe(v) # r
    BY <2>1 DEF Subscribe, Unsubscribe
  <2>4. /\ done' = done \cup {r}
        /\ localLiveStreamSubscriptions' = localLiveStreamSubscriptions \ {r.of}
    BY <1>5 DEF processUnsubscribe, StreamOf
  <2> QED
    BY <2>1, <2>2, <2>3, <2>4 DEF Subscribed, Subscribe, Unsubscribe
<1>6. CASE Connections \/ Asking
  BY <1>2, <1>6
     DEF Connections, startGatewayWsClient, Opened, sendClientHello, ClientSocketCloses,
         GatewaySocketCloses, closeGatewayWsResources, Asking, requestClientAction,
         publishAgentNotification, Timeout, openLiveRelayStream, ViewerLeaves, onData, client
<1>7. ASSUME NEW s \in Sockets,
             \/ handleHello(s) \/ handleAnswer(s) \/ handleStreamEvent(s)
             \/ handleAgentNotification(s) \/ handleRequest(s) \/ handleNotificationAnswer(s)
      PROVE  Subscribed'
  BY <1>2, <1>7
     DEF handleHello, handleAnswer, handleStreamEvent, handleAgentNotification, handleRequest,
         handleNotificationAnswer, client
<1>8. CASE UNCHANGED relaysVars
  BY <1>2, <1>8 DEF relaysVars, client
<1> QED
  BY <1>3, <1>4, <1>5, <1>6, <1>7, <1>8 DEF RelaysNext, Handling

\* Only a notification is answered by the gateway.
NoticesBelow ==
  \A s \in Sockets, r \in Requests, ok \in BOOLEAN :
    Answer(r, ok) \in down[s] => r.kind = "notify"

LEMMA NoticesBelowStep ==
  ASSUME Relayed, NoticesBelow, [RelaysNext]_relaysVars
  PROVE  NoticesBelow'
<1>0. RelaysTypeOK /\ OnePlace /\ down \in [Sockets -> SUBSET Messages]
  BY DEF Relayed, RelaysSound, RelaysTypeOK
<1>1. ASSUME \A s \in Sockets, r \in Requests, ok \in BOOLEAN :
               Answer(r, ok) \in down'[s] => Answer(r, ok) \in down[s] \/ r.kind = "notify"
      PROVE  NoticesBelow'
  BY <1>1 DEF NoticesBelow, Answer
<1>2. ASSUME \A s \in Sockets : down'[s] \subseteq down[s] PROVE NoticesBelow'
  BY <1>1, <1>2
<1>3. ASSUME NEW r \in Requests, NEW s \in Sockets \cup {NoSocket}, Ask(r, s) PROVE NoticesBelow'
  <2>1. \A t \in Sockets : down'[t] \subseteq down[t] \cup {Request(r)}
    BY <1>0, <1>3, AskTyped
  <2> QED
    BY <1>1, <2>1, FramesDiffer
<1>4. CASE Connections
  BY <1>0, <1>2, <1>4
     DEF Connections, startGatewayWsClient, Opened, sendClientHello, ClientSocketCloses,
         GatewaySocketCloses, closeGatewayWsResources, wires
<1>5. CASE Asking
  <2>1. /\ findConnectedSocketForSession \in Sockets \cup {NoSocket}
        /\ connectedClientsByUuid \in Sockets \cup {NoSocket}
    BY <1>0 DEF findConnectedSocketForSession, RelaysTypeOK
  <2>2. UNCHANGED down => NoticesBelow'
    BY <1>2
  <2>3. ASSUME NEW r \in Requests,
               requestClientAction(r) \/ publishAgentNotification(r) \/ Timeout(r)
        PROVE  NoticesBelow'
    BY <1>3, <2>1, <2>2, <2>3
       DEF requestClientAction, publishAgentNotification, Timeout, wires
  <2>4. ASSUME NEW v \in Streams, openLiveRelayStream(v) \/ ViewerLeaves(v) \/ onData(v)
        PROVE  NoticesBelow'
    BY <1>3, <2>1, <2>2, <2>4, RequestKinds
       DEF openLiveRelayStream, ViewerLeaves, onData, wires
  <2> QED
    BY <1>5, <2>3, <2>4 DEF Asking
<1>6. ASSUME NEW s \in Sockets,
             \/ handleHello(s) \/ handleAnswer(s) \/ handleStreamEvent(s)
             \/ handleRequest(s) \/ handleNotificationAnswer(s)
      PROVE  NoticesBelow'
  <2>1. \A t \in Sockets : down'[t] \subseteq down[t]
    BY <1>0, <1>6
       DEF handleHello, handleAnswer, handleStreamEvent, handleRequest, handleNotificationAnswer
  <2> QED
    BY <1>2, <2>1
<1>7. ASSUME NEW s \in Sockets, handleAgentNotification(s) PROVE NoticesBelow'
  <2> DEFINE r == Head(up[s]).r
  <2>1. r \in Requests /\ Head(up[s]) = Request(r)
    BY <1>0, <1>7, HeardTyped DEF handleAgentNotification
  <2>2. PICK no \in BOOLEAN : \A t \in Sockets : down'[t] \subseteq down[t] \cup {Answer(r, no)}
    BY <1>0, <1>7 DEF handleAgentNotification
  <2> HIDE DEF r
  <2>3. 1 \in DOMAIN up[s] /\ up[s][1] = Request(r)
    BY <1>0, <1>7, <2>1, UpHeard DEF handleAgentNotification, Hears, RelaysTypeOK
  <2>4. r.kind = "notify"
    BY <1>0, <2>1, <2>3 DEF OnePlace
  <2> QED
    BY <1>1, <2>2, <2>4, FramesDiffer
<1>8. ASSUME NEW s \in Sockets, NEW r \in Requests, sendForGatewaySession(r, s)
      PROVE  NoticesBelow'
  <2>1. PICK ok \in BOOLEAN : \A t \in Sockets : down'[t] \subseteq down[t] \cup {Answer(r, ok)}
    BY <1>0, <1>8 DEF sendForGatewaySession
  <2> QED
    BY <1>1, <1>8, <2>1, FramesDiffer DEF sendForGatewaySession
<1>9. ASSUME NEW s \in Sockets, NEW r \in Requests,
             processCall(r, s) \/ processSubscribe(r, s) \/ processUnsubscribe(r, s)
      PROVE  NoticesBelow'
  BY <1>2, <1>9 DEF processCall, processSubscribe, processUnsubscribe
<1>10. CASE UNCHANGED relaysVars
  BY <1>2, <1>10 DEF relaysVars, wires
<1> QED
  BY <1>4, <1>5, <1>6, <1>7, <1>8, <1>9, <1>10 DEF RelaysNext, Handling

LEMMA SettledWatch ==
  ASSUME RelaysTypeOK, Watched, NEW r \in Requests, NEW o \in Settled,
         promise[r] = "pending", Settle(r, o), UNCHANGED cut
  PROVE  Watched'
<1>1. promise' = [promise EXCEPT ![r] = o] /\ promise \in [Requests -> PromiseStates]
  BY DEF Settle, RelaysTypeOK, PromiseStates
<1>2. \A v \in Streams : /\ Subscribe(v) \in Requests /\ Unsubscribe(v) \in Requests
                         /\ Subscribe(v) # Unsubscribe(v)
  BY RequestKinds DEF Subscribe, Unsubscribe
<1>3. o \notin {"unsent", "pending"}
  BY DEF Settled
<1>4. CASE r.kind # "subscribe"
  <2>1. \A v \in Streams : Subscribe(v) # r
    BY <1>4 DEF Subscribe
  <2>2. UNCHANGED <<viewer, liveStreamHandlers>>
    BY <1>4 DEF Settle
  <2>3. \A v \in Streams : /\ promise'[Subscribe(v)] = promise[Subscribe(v)]
                           /\ promise'[Unsubscribe(v)] = "unsent" <=>
                                promise[Unsubscribe(v)] = "unsent"
    BY <1>1, <1>2, <1>3, <2>1
  <2> QED
    BY <2>2, <2>3, WatchedNext DEF Watched, Visit
<1>5. CASE r.kind = "subscribe"
  <2>1. r.of \in Streams /\ r = Subscribe(r.of)
    BY <1>5, RequestKinds
  <2>2. \A v \in Streams : Subscribe(v) = r <=> v = r.of
    BY <2>1 DEF Subscribe
  <2>3. \A v \in Streams :
          /\ promise'[Unsubscribe(v)] = promise[Unsubscribe(v)]
          /\ promise'[Subscribe(v)] = IF v = r.of THEN o ELSE promise[Subscribe(v)]
    <3>1. \A v \in Streams : Unsubscribe(v) # r
      BY <1>5 DEF Unsubscribe
    <3> QED
      BY <1>1, <1>2, <2>2, <3>1
  <2>4. promise[Unsubscribe(r.of)] = "unsent" /\ viewer[r.of] # "open"
    BY <2>1 DEF Watched, Visit
  <2>5. \A v \in Streams :
          /\ viewer'[v] = IF v # r.of THEN viewer[v]
                          ELSE IF o # "ok" THEN "closed"
                          ELSE IF viewer[v] = "opening" THEN "open" ELSE viewer[v]
          /\ v \in liveStreamHandlers' <=> v \in liveStreamHandlers /\ (v # r.of \/ o = "ok")
    BY <1>5, <2>1 DEF Settle, RelaysTypeOK
  <2> QED
    BY <1>3, <2>3, <2>4, <2>5, WatchedNext DEF Watched, Visit
<1> QED
  BY <1>4, <1>5

LEMMA WatchedStep ==
  ASSUME Relayed, NoticesBelow, Watched, [RelaysNext]_relaysVars
  PROVE  Watched'
<1>0. RelaysTypeOK /\ promise \in [Requests -> PromiseStates]
  BY DEF Relayed, RelaysSound, RelaysTypeOK, PromiseStates
<1>1. ASSUME UNCHANGED <<viewer, liveStreamHandlers, cut>>,
             \A v \in Streams : /\ promise'[Subscribe(v)] = promise[Subscribe(v)]
                                /\ promise'[Unsubscribe(v)] = promise[Unsubscribe(v)]
      PROVE  Watched'
  BY <1>1, WatchedNext DEF Watched, Visit
<1>2. /\ \A v \in Streams : Subscribe(v) \in Requests /\ Unsubscribe(v) \in Requests
      /\ \A v, w : /\ Subscribe(v) # Unsubscribe(w)
                   /\ Subscribe(v) = Subscribe(w) => v = w
                   /\ Unsubscribe(v) = Unsubscribe(w) => v = w
      /\ \A v : Subscribe(v).kind = "subscribe" /\ Unsubscribe(v).kind = "unsubscribe"
  <2>1. \A v : /\ Subscribe(v).kind = "subscribe" /\ Unsubscribe(v).kind = "unsubscribe"
               /\ Subscribe(v).of = v /\ Unsubscribe(v).of = v
    BY DEF Subscribe, Unsubscribe
  <2> QED
    BY <2>1, RequestKinds
<1>3. ASSUME NEW r \in Requests, requestClientAction(r) \/ publishAgentNotification(r)
      PROVE  Watched'
  <2>1. \A q \in Requests : q # r => promise'[q] = promise[q]
    BY <1>0, <1>3 DEF requestClientAction, publishAgentNotification, Ask
  <2>2. r.kind \in {"call", "notify"} /\ UNCHANGED <<viewer, liveStreamHandlers, cut>>
    BY <1>3 DEF requestClientAction, publishAgentNotification, gateway
  <2> QED
    BY <1>1, <1>2, <2>1, <2>2
<1>4. ASSUME NEW r \in Requests, Timeout(r) PROVE Watched'
  BY <1>0, <1>4, SettledWatch DEF Timeout, Settled
<1>5. ASSUME NEW s \in Sockets, handleAnswer(s) PROVE Watched'
  <2>1. Head(up[s]).r \in Requests
    BY <1>0, <1>5, HeardTyped DEF handleAnswer
  <2>2. (IF Head(up[s]).ok THEN "ok" ELSE "error") \in Settled
    BY DEF Settled
  <2> QED
    BY <1>0, <1>1, <1>5, <2>1, <2>2, SettledWatch DEF handleAnswer
<1>6. ASSUME NEW s \in Sockets, handleNotificationAnswer(s) PROVE Watched'
  <2>1. PICK m \in down[s] :
          /\ m.type = "answer"
          /\ promise' = IF promise[m.r] # "pending" THEN promise
                        ELSE [promise EXCEPT ![m.r] = IF m.ok THEN "ok" ELSE "error"]
    BY <1>6 DEF handleNotificationAnswer
  <2>2. m.r \in Requests /\ m.ok \in BOOLEAN /\ m = Answer(m.r, m.ok)
    BY <1>0, <2>1, FrameParts DEF RelaysTypeOK
  <2>3. m.r.kind = "notify"
    BY <2>1, <2>2 DEF NoticesBelow
  <2>4. \A q \in Requests : q.kind # "notify" => promise'[q] = promise[q]
    BY <1>0, <2>1, <2>3
  <2>5. UNCHANGED <<viewer, liveStreamHandlers, cut>>
    BY <1>6 DEF handleNotificationAnswer, gateway
  <2> QED
    BY <1>1, <1>2, <2>4, <2>5
<1>7. ASSUME NEW v \in Streams, openLiveRelayStream(v) PROVE Watched'
  <2> DEFINE s == findConnectedSocketForSession
             o == IF s = NoSocket THEN "refused" ELSE "pending"
  <2>1. viewer[v] = "none" /\ promise[Subscribe(v)] = "unsent" /\ UNCHANGED cut
    BY <1>7 DEF openLiveRelayStream, MayAsk
  <2>2. promise[Unsubscribe(v)] = "unsent"
    BY <2>1 DEF Watched, Visit
  <2>3. promise' = [promise EXCEPT ![Subscribe(v)] = o]
    BY <1>7 DEF openLiveRelayStream, Ask
  <2>4. \A w \in Streams : /\ promise'[Unsubscribe(w)] = promise[Unsubscribe(w)]
                           /\ promise'[Subscribe(w)] = IF w = v THEN o ELSE promise[Subscribe(w)]
    BY <1>0, <1>2, <2>3
  <2>5. \A w \in Streams :
          /\ viewer'[w] = IF w # v THEN viewer[w]
                          ELSE IF o = "refused" THEN "closed" ELSE "opening"
          /\ w \in liveStreamHandlers' <=>
               w \in liveStreamHandlers \/ (w = v /\ o = "pending")
    BY <1>0, <1>7 DEF openLiveRelayStream, RelaysTypeOK
  <2>6. o \in {"refused", "pending"}
    OBVIOUS
  <2> HIDE DEF o
  <2> QED
    BY <2>1, <2>2, <2>4, <2>5, <2>6, WatchedNext DEF Watched, Visit
<1>8. ASSUME NEW v \in Streams, ViewerLeaves(v) PROVE Watched'
  <2>1. CASE /\ viewer[v] = "opening" /\ viewer' = [viewer EXCEPT ![v] = "gone"]
             /\ UNCHANGED <<promise, liveStreamHandlers, cut>>
    BY <1>0, <2>1, WatchedNext DEF Watched, Visit, RelaysTypeOK
  <2>2. CASE /\ viewer[v] = "open" /\ MayAsk(Unsubscribe(v))
             /\ viewer' = [viewer EXCEPT ![v] = "closed"]
             /\ liveStreamHandlers' = liveStreamHandlers \ {v}
             /\ Ask(Unsubscribe(v), findConnectedSocketForSession)
             /\ UNCHANGED cut
    <3>1. \A q \in Requests : q # Unsubscribe(v) => promise'[q] = promise[q]
      BY <1>0, <2>2 DEF Ask
    <3>2. \A w \in Streams : /\ promise'[Subscribe(w)] = promise[Subscribe(w)]
                             /\ w # v => promise'[Unsubscribe(w)] = promise[Unsubscribe(w)]
      BY <1>2, <3>1
    <3>3. promise[Subscribe(v)] = "ok"
      BY <2>2 DEF Watched, Visit
    <3>4. \A w \in Streams :
            /\ viewer'[w] = IF w = v THEN "closed" ELSE viewer[w]
            /\ w \in liveStreamHandlers' <=> w \in liveStreamHandlers /\ w # v
      BY <1>0, <2>2 DEF RelaysTypeOK
    <3> QED
      BY <2>2, <3>2, <3>3, <3>4, WatchedNext DEF Watched, Visit
  <2> QED
    BY <1>8, <2>1, <2>2 DEF ViewerLeaves
<1>9. CASE closeGatewayWsResources
  <2>1. \A r \in Requests : promise'[r] =
          IF promise[r] = "pending" /\ r.kind # "notify" THEN "shutdown" ELSE promise[r]
    BY <1>9 DEF closeGatewayWsResources
  <2>2. \A v \in Streams :
          /\ viewer'[v] = IF promise[Subscribe(v)] = "pending" THEN "closed" ELSE viewer[v]
          /\ v \in cut' <=> v \in cut \/ v \in liveStreamHandlers
          /\ v \notin liveStreamHandlers'
    BY <1>9 DEF closeGatewayWsResources
  <2>3. \A v \in Streams :
          /\ promise'[Subscribe(v)] = IF promise[Subscribe(v)] = "pending" THEN "shutdown"
                                      ELSE promise[Subscribe(v)]
          /\ promise'[Unsubscribe(v)] = "unsent" <=> promise[Unsubscribe(v)] = "unsent"
    BY <1>2, <2>1
  <2> QED
    BY <2>2, <2>3, WatchedNext DEF Watched, Visit
<1>10. ASSUME NEW s \in Sockets, GatewaySocketCloses(s) PROVE Watched'
  <2>1. /\ UNCHANGED <<promise, viewer>>
        /\ \/ UNCHANGED <<cut, liveStreamHandlers>>
           \/ cut' = cut \cup liveStreamHandlers /\ liveStreamHandlers' = {}
    BY <1>10 DEF GatewaySocketCloses
  <2> QED
    BY <2>1, WatchedNext DEF Watched, Visit
<1>11. ASSUME NEW s \in Sockets,
             \/ startGatewayWsClient(s) \/ Opened(s) \/ sendClientHello(s)
             \/ ClientSocketCloses(s)
             \/ handleHello(s) \/ handleStreamEvent(s) \/ handleAgentNotification(s)
             \/ handleRequest(s)
       PROVE Watched'
  BY <1>1, <1>11
     DEF startGatewayWsClient, Opened, sendClientHello, ClientSocketCloses, gateway,
         handleHello, handleStreamEvent, handleAgentNotification, handleRequest
<1>12. ASSUME NEW s \in Sockets, NEW r \in Requests,
              \/ sendForGatewaySession(r, s) \/ processCall(r, s)
              \/ processSubscribe(r, s) \/ processUnsubscribe(r, s)
       PROVE  Watched'
  BY <1>1, <1>12
     DEF sendForGatewaySession, processCall, processSubscribe, processUnsubscribe, gateway
<1>13. ASSUME UNCHANGED relaysVars \/ \E v \in Streams : onData(v) PROVE Watched'
  BY <1>1, <1>13 DEF relaysVars, gateway, onData
<1>14. CASE Connections
  BY <1>9, <1>10, <1>11, <1>14 DEF Connections
<1>15. CASE Asking
  BY <1>3, <1>4, <1>7, <1>8, <1>13, <1>15 DEF Asking
<1>16. CASE Handling
  BY <1>5, <1>6, <1>11, <1>12, <1>16 DEF Handling
<1> QED
  BY <1>13, <1>14, <1>15, <1>16 DEF RelaysNext

RelaysInv == Relayed /\ NoticesBelow /\ Watched /\ Subscribed

LEMMA RelaysInvStart == RelaysInit => RelaysInv
<1>1. RelaysInit => NoticesBelow
  BY DEF RelaysInit, NoticesBelow
<1> QED
  BY <1>1, RelayedStart, StreamsStart DEF RelaysInv

LEMMA RelaysInvStep == RelaysInv /\ [RelaysNext]_relaysVars => RelaysInv'
  BY RelayedStep, NoticesBelowStep, WatchedStep, SubscribedStep DEF RelaysInv

\* A client with a greeted socket is found by its client_uuid, and a Mini App that
\* watches has its handler and its subscription unless a closing socket took them.
THEOREM RoutesAreKept == RelaysSpec => []RoutesMatchPeers
<1>1. RelaysInv => RoutesMatchPeers
  <2> SUFFICES ASSUME RelaysInv, NEW v \in Streams
               PROVE  /\ Routed
                      /\ v \in liveStreamHandlers => viewer[v] \in {"opening", "open", "gone"}
                      /\ viewer[v] = "open" /\ v \notin cut =>
                           v \in liveStreamHandlers /\ v \in localLiveStreamSubscriptions
    BY DEF RelaysInv, Relayed, RelaysSound, RoutesMatchPeers, Routed
  <2>1. viewer[v] = "open" => Subscribe(v) \in done /\ promise[Unsubscribe(v)] = "unsent"
    BY RequestKinds DEF RelaysInv, Relayed, Watched, Visit, Truth
  <2> QED
    BY <2>1 DEF RelaysInv, Relayed, RelaysSound, Watched, Visit, Subscribed
<1> QED
  BY <1>1, RelaysInvStart, RelaysInvStep, PTL DEF RelaysSpec

\* Once the client has confirmed an unsubscribe no subscription is left, and none
\* comes back: no subscribe of that stream is still under way.
THEOREM ClosedStreamsStayReleased == RelaysSpec => []ClosedStreamIsReleased
<1>1. RelaysInv => ClosedStreamIsReleased
  BY RequestKinds DEF RelaysInv, Relayed, Truth, Subscribed, ClosedStreamIsReleased
<1> QED
  BY <1>1, RelaysInvStart, RelaysInvStep, PTL DEF RelaysSpec

-----------------------------------------------------------------------------
(* The OAuth facade.                                                         *)

Passed(k) == callback[k] \in {"verifying", "approving"} \/ code[k] # "none"

LoginInv ==
  /\ \A k \in Callbacks : callback[k] # "done" => code[k] = "none"
  /\ \A k \in Callbacks : Passed(k) => callbackOf[k] \in Logins /\ login[callbackOf[k]] = "gone"
  /\ \A j, k \in Callbacks : Passed(j) /\ Passed(k) /\ callbackOf[j] = callbackOf[k] => j = k

CodeInv ==
  /\ \A x \in Exchanges :
       exchange[x] \in {"reading", "deleting", "creating"} => presented[x] \in Exchanges
  /\ \A x \in Granted : presented[x] \in Codes => code[presented[x]] = "gone"
  /\ \A x, y \in Granted : presented[x] = presented[y] /\ presented[x] \in Codes => x = y

TokenInv ==
  /\ \A x \in Exchanges : exchange[x] = "idle" => presented[x] = NoGrant
  /\ HeldTokenIsGood

OAuthInv == OAuthTypeOK /\ LoginInv /\ CodeInv /\ TokenInv

-----------------------------------------------------------------------------
(* Helpers: what purging and issuing do to the codes.                        *)

LEMMA PurgeCodes ==
  ASSUME OAuthTypeOK, NEW now
  PROVE  /\ purgeExpiredCodes(now) \in [Codes -> {"none", "live", "gone"}]
         /\ \A g \in Codes : /\ purgeExpiredCodes(now)[g] = "none" <=> code[g] = "none"
                             /\ code[g] = "gone" => purgeExpiredCodes(now)[g] = "gone"
  BY DEF OAuthTypeOK, purgeExpiredCodes

LEMMA PurgeLogins ==
  ASSUME OAuthTypeOK, NEW now
  PROVE  /\ purgeExpiredTelegramLogins(now) \in [Logins -> {"none", "pending", "gone"}]
         /\ \A l \in Logins : login[l] = "gone" => purgeExpiredTelegramLogins(now)[l] = "gone"
  BY DEF OAuthTypeOK, purgeExpiredTelegramLogins

LEMMA IssuedType ==
  ASSUME OAuthTypeOK, NEW g \in Codes, NEW now \in 0..MaxClock, issueCode(g, now)
  PROVE  /\ code' \in [Codes -> {"none", "live", "gone"}]
         /\ codeExpiresAt' \in [Codes -> Times]
         /\ code'[g] = "live"
         /\ \A h \in Codes \ {g} : /\ code'[h] = "none" <=> code[h] = "none"
                                   /\ code[h] = "gone" => code'[h] = "gone"
<1>1. now + CodeTtl \in Times
  BY OAuthAssumption DEF Times
<1>2. /\ code' = [purgeExpiredCodes(now) EXCEPT ![g] = "live"]
      /\ codeExpiresAt' = [codeExpiresAt EXCEPT ![g] = now + CodeTtl]
  BY DEF issueCode
<1> HIDE DEF Codes
<1> QED BY <1>1, <1>2, PurgeCodes DEF OAuthTypeOK

-----------------------------------------------------------------------------
(* The types.                                                                *)

LEMMA OAuthInitType == OAuthInit => OAuthTypeOK
<1> SUFFICES ASSUME OAuthInit PROVE OAuthTypeOK
  OBVIOUS
<1>1. 0 \in Times /\ 0 \in 0..MaxClock /\ 0 \in 0..MaxAttempts /\ 0 \in 0..MaxOAuthRestarts
  BY OAuthAssumption DEF Times
<1>2. /\ callback \in [Callbacks -> CallbackStates]
      /\ exchange \in [Exchanges -> ExchangeStates]
  BY DEF OAuthInit, CallbackStates, ExchangeStates
<1> QED BY <1>1, <1>2 DEF OAuthInit, OAuthTypeOK

LEMMA FormsKeepTypes ==
  ASSUME OAuthTypeOK,
         tick \/ wrongMagicToken \/ oauthRestart \/ \E f \in Forms : rightMagicToken(f)
  PROVE  OAuthTypeOK'
<1> USE DEF logins, callbacks, codes, requests
<1>1. CASE tick
  <2>1. clock' \in 0..MaxClock
    BY <1>1, OAuthAssumption DEF tick, OAuthTypeOK
  <2> QED BY <1>1, <2>1 DEF tick, OAuthTypeOK
<1>2. CASE wrongMagicToken
  <2>1. recordFailedAttempt \in [count : 0..MaxAttempts, since : 0..MaxClock]
    <3>1. CASE WindowOver \/ failedAttempts.count = 0
      BY <3>1, OAuthAssumption DEF recordFailedAttempt, OAuthTypeOK
    <3>2. CASE ~(WindowOver \/ failedAttempts.count = 0)
      <4>1. failedAttempts.count + 1 \in 0..MaxAttempts
        BY <1>2, <3>2, OAuthAssumption DEF wrongMagicToken, isRateLimited, OAuthTypeOK
      <4>2. recordFailedAttempt = [failedAttempts EXCEPT !.count = failedAttempts.count + 1]
        BY <3>2 DEF recordFailedAttempt
      <4> QED BY <4>1, <4>2 DEF OAuthTypeOK
    <3> QED BY <3>1, <3>2
  <2> QED BY <1>2, <2>1 DEF wrongMagicToken, OAuthTypeOK
<1>3. CASE oauthRestart
  <2>1. oauthRestarts' \in 0..MaxOAuthRestarts
    BY <1>3, OAuthAssumption DEF oauthRestart, OAuthTypeOK
  <2>2. failedAttempts' \in [count : 0..MaxAttempts, since : 0..MaxClock]
    BY <1>3, OAuthAssumption DEF oauthRestart
  <2>3. callback' \in [Callbacks -> CallbackStates]
    BY <1>3 DEF oauthRestart, OAuthTypeOK, CallbackStates
  <2>4. exchange' \in [Exchanges -> ExchangeStates]
    BY <1>3 DEF oauthRestart, OAuthTypeOK, ExchangeStates
  <2>5. code' \in [Codes -> {"none", "live", "gone"}]
    BY <1>3 DEF oauthRestart, OAuthTypeOK
  <2>6. login' \in [Logins -> {"none", "pending", "gone"}]
    BY <1>3 DEF oauthRestart, OAuthTypeOK
  <2> QED BY <1>3, <2>1, <2>2, <2>3, <2>4, <2>5, <2>6 DEF oauthRestart, OAuthTypeOK
<1>4. ASSUME NEW f \in Forms, rightMagicToken(f) PROVE OAuthTypeOK'
  <2>1. /\ code' \in [Codes -> {"none", "live", "gone"}]
        /\ codeExpiresAt' \in [Codes -> Times]
    BY <1>4, IssuedType DEF rightMagicToken, Codes, OAuthTypeOK
  <2>2. failedAttempts' \in [count : 0..MaxAttempts, since : 0..MaxClock]
    BY <1>4, OAuthAssumption DEF rightMagicToken
  <2> QED BY <1>4, <2>1, <2>2 DEF rightMagicToken, OAuthTypeOK
<1> QED BY <1>1, <1>2, <1>3, <1>4

LEMMA LoginsKeepTypes ==
  ASSUME OAuthTypeOK, NEW l \in Logins,
         telegramLogin(l) \/ \E k \in Callbacks : telegramCallback(k, l)
  PROVE  OAuthTypeOK'
<1> USE DEF callbacks, codes, requests
<1>1. CASE telegramLogin(l)
  <2>1. clock + LoginTtl \in Times
    BY OAuthAssumption DEF Times, OAuthTypeOK
  <2> QED BY <1>1, <2>1, PurgeLogins DEF telegramLogin, OAuthTypeOK
<1>2. ASSUME NEW k \in Callbacks, telegramCallback(k, l) PROVE OAuthTypeOK'
  BY <1>2, PurgeLogins DEF telegramCallback, OAuthTypeOK, CallbackStates
<1> QED BY <1>1, <1>2

LEMMA CallbacksKeepTypes ==
  ASSUME OAuthTypeOK, NEW k \in Callbacks,
         identityVerified(k) \/ loginRefused(k) \/ loginApproved(k)
  PROVE  OAuthTypeOK'
<1> USE DEF logins, requests
<1>1. CASE identityVerified(k)
  BY <1>1 DEF identityVerified, OAuthTypeOK, CallbackStates, codes
<1>2. CASE loginRefused(k)
  BY <1>2 DEF loginRefused, OAuthTypeOK, CallbackStates, codes
<1>3. CASE loginApproved(k)
  <2>1. /\ code' \in [Codes -> {"none", "live", "gone"}]
        /\ codeExpiresAt' \in [Codes -> Times]
    <3>1. k \in Codes /\ calledAt[k] \in 0..MaxClock
      BY DEF Codes, OAuthTypeOK
    <3> QED BY <1>3, <3>1, IssuedType DEF loginApproved
  <2> QED BY <1>3, <2>1 DEF loginApproved, OAuthTypeOK, CallbackStates
<1> QED BY <1>1, <1>2, <1>3

ExchangeStep(x) ==
  \/ \E g \in Codes, matches \in BOOLEAN : exchangeCode(x, g, matches)
  \/ \E t \in Exchanges : presentRefreshToken(x, t)
  \/ \E matches \in BOOLEAN : getRefreshToken(x, matches)
  \/ deleteRefreshToken(x) \/ issueRefreshToken(x) \/ storeFails(x)

LEMMA ExchangesKeepTypes ==
  ASSUME OAuthTypeOK, NEW x \in Exchanges, ExchangeStep(x)
  PROVE  OAuthTypeOK'
<1> USE DEF OAuthTypeOK, Responded, ExchangeStates, logins, callbacks
<1>1. ASSUME NEW g \in Codes, NEW matches \in BOOLEAN, exchangeCode(x, g, matches)
      PROVE  OAuthTypeOK'
  <2>1. code' \in [Codes -> {"none", "live", "gone"}]
    <3> DEFINE left == purgeExpiredCodes(clock)
    <3>1. left \in [Codes -> {"none", "live", "gone"}]
      BY PurgeCodes
    <3>2. code' = [left EXCEPT ![g] = "gone"] \/ code' = left
      BY <1>1 DEF exchangeCode
    <3> HIDE DEF left
    <3> QED BY <3>1, <3>2
  <2>2. exchange' \in [Exchanges -> ExchangeStates]
    BY <1>1 DEF exchangeCode
  <2> QED BY <1>1, <2>1, <2>2 DEF exchangeCode
<1>2. ASSUME NEW t \in Exchanges, presentRefreshToken(x, t) PROVE OAuthTypeOK'
  BY <1>2 DEF presentRefreshToken, codes
<1>3. ASSUME NEW matches \in BOOLEAN, getRefreshToken(x, matches) PROVE OAuthTypeOK'
  BY <1>3 DEF getRefreshToken, codes
<1>4. CASE deleteRefreshToken(x)
  BY <1>4 DEF deleteRefreshToken, codes
<1>5. CASE issueRefreshToken(x)
  BY <1>5 DEF issueRefreshToken, codes
<1>6. CASE storeFails(x)
  BY <1>6 DEF storeFails, codes
<1> QED BY <1>1, <1>2, <1>3, <1>4, <1>5, <1>6 DEF ExchangeStep

LEMMA OAuthTypeStep == OAuthTypeOK /\ [OAuthNext]_oauthVars => OAuthTypeOK'
<1> SUFFICES ASSUME OAuthTypeOK, [OAuthNext]_oauthVars PROVE OAuthTypeOK'
  OBVIOUS
<1>1. CASE UNCHANGED oauthVars
  BY <1>1 DEF oauthVars, logins, callbacks, codes, requests, OAuthTypeOK
<1> QED
  BY <1>1, FormsKeepTypes, LoginsKeepTypes, CallbacksKeepTypes, ExchangesKeepTypes
     DEF OAuthNext, ExchangeStep

-----------------------------------------------------------------------------
(* LoginInv.                                                                 *)

(* A step that returns no browser, approves nothing, starts no login and     *)
(* issues no callback's code.                                                *)
LEMMA LoginInvKept ==
  ASSUME LoginInv,
         callbackOf' = callbackOf,
         \A k \in Callbacks : /\ callback'[k] = callback[k] \/ callback'[k] = "done"
                              /\ code'[k] = "none" <=> code[k] = "none",
         \A l \in Logins : login[l] = "gone" => login'[l] = "gone"
  PROVE  LoginInv'
  BY DEF LoginInv, Passed

LEMMA LoginStep ==
  OAuthTypeOK /\ LoginInv /\ [OAuthNext]_oauthVars => LoginInv'
<1> SUFFICES ASSUME OAuthTypeOK, LoginInv, [OAuthNext]_oauthVars PROVE LoginInv'
  OBVIOUS
<1> USE DEF logins, callbacks, codes
<1>1. CASE tick \/ wrongMagicToken \/ UNCHANGED oauthVars
  BY <1>1, LoginInvKept DEF tick, wrongMagicToken, oauthVars
<1>2. CASE oauthRestart
  <2>1. \A k \in Callbacks : /\ callback'[k] = callback[k] \/ callback'[k] = "done"
                             /\ code'[k] = "none" <=> code[k] = "none"
    BY <1>2 DEF oauthRestart, OAuthTypeOK, Codes
  <2>2. \A l \in Logins : login[l] = "gone" => login'[l] = "gone"
    BY <1>2 DEF oauthRestart, OAuthTypeOK
  <2> QED BY <1>2, <2>1, <2>2, LoginInvKept DEF oauthRestart
<1>3. ASSUME NEW f \in Forms, rightMagicToken(f) PROVE LoginInv'
  <2>1. \A k \in Callbacks : code'[k] = "none" <=> code[k] = "none"
    BY <1>3, IssuedType, OAuthAssumption DEF rightMagicToken, Codes, OAuthTypeOK
  <2> QED BY <1>3, <2>1, LoginInvKept DEF rightMagicToken
<1>4. ASSUME NEW l \in Logins, telegramLogin(l) PROVE LoginInv'
  <2>1. \A m \in Logins : login[m] = "gone" => login'[m] = "gone"
    BY <1>4, PurgeLogins DEF telegramLogin, OAuthTypeOK
  <2> QED BY <1>4, <2>1, LoginInvKept DEF telegramLogin
<1>5. ASSUME NEW l \in Logins, NEW k \in Callbacks, telegramCallback(k, l) PROVE LoginInv'
  <2>1. \A m \in Logins : login[m] = "gone" => login'[m] = "gone"
    BY <1>5, PurgeLogins DEF telegramCallback
  <2>2. login'[l] = "gone" /\ code' = code
    BY <1>5, PurgeLogins DEF telegramCallback
  <2>3. /\ callbackOf'[k] = l
        /\ \A j \in Callbacks \ {k} : /\ callback'[j] = callback[j]
                                      /\ callbackOf'[j] = callbackOf[j]
    BY <1>5 DEF telegramCallback, OAuthTypeOK
  <2>4. \A j \in Callbacks \ {k} : Passed(j)' <=> Passed(j)
    BY <2>2, <2>3 DEF Passed
  <2>5. code[k] = "none"
    BY <1>5 DEF telegramCallback, LoginInv
  <2>6. Passed(k)' => login[l] = "pending"
    BY <1>5, <2>2, <2>5 DEF Passed, telegramCallback, OAuthTypeOK
  <2>7. ASSUME NEW j \in Callbacks \ {k}, Passed(j)', Passed(k)' PROVE callbackOf'[j] # l
    BY <2>3, <2>4, <2>6, <2>7 DEF LoginInv
  <2>8. \A i, j \in Callbacks :
          Passed(i)' /\ Passed(j)' /\ callbackOf'[i] = callbackOf'[j] => i = j
    BY <2>3, <2>4, <2>7 DEF LoginInv
  <2>9. \A j \in Callbacks :
          Passed(j)' => callbackOf'[j] \in Logins /\ login'[callbackOf'[j]] = "gone"
    BY <2>1, <2>2, <2>3, <2>4 DEF LoginInv
  <2>10. \A j \in Callbacks : callback'[j] # "done" => code'[j] = "none"
    BY <2>2, <2>3, <2>5 DEF LoginInv
  <2> QED BY <2>8, <2>9, <2>10 DEF LoginInv
<1>6. ASSUME NEW k \in Callbacks, identityVerified(k) PROVE LoginInv'
  BY <1>6 DEF identityVerified, LoginInv, Passed, OAuthTypeOK
<1>7. ASSUME NEW k \in Callbacks, loginRefused(k) PROVE LoginInv'
  BY <1>7, LoginInvKept DEF loginRefused, OAuthTypeOK
<1>8. ASSUME NEW k \in Callbacks, loginApproved(k) PROVE LoginInv'
  <2>1. /\ code'[k] = "live"
        /\ \A j \in Callbacks \ {k} : code'[j] = "none" <=> code[j] = "none"
    <3>1. k \in Codes /\ calledAt[k] \in 0..MaxClock
      BY DEF Codes, OAuthTypeOK
    <3> QED BY <1>8, <3>1, IssuedType DEF loginApproved, Codes
  <2>2. \A j \in Callbacks : callback'[j] = IF j = k THEN "done" ELSE callback[j]
    BY <1>8 DEF loginApproved, OAuthTypeOK
  <2>3. \A j \in Callbacks : Passed(j)' <=> Passed(j)
    BY <1>8, <2>1, <2>2 DEF Passed, loginApproved
  <2> QED BY <1>8, <2>1, <2>2, <2>3 DEF LoginInv, loginApproved
<1>9. ASSUME NEW x \in Exchanges, ExchangeStep(x) PROVE LoginInv'
  <2>1. ASSUME NEW g \in Codes, NEW matches \in BOOLEAN, exchangeCode(x, g, matches)
        PROVE  LoginInv'
    <3>1. \A k \in Callbacks : code'[k] = "none" <=> code[k] = "none"
      <4> DEFINE left == purgeExpiredCodes(clock)
      <4>1. /\ left \in [Codes -> {"none", "live", "gone"}]
            /\ \A h \in Codes : left[h] = "none" <=> code[h] = "none"
        BY PurgeCodes
      <4>2. code' = left \/ (left[g] = "live" /\ code' = [left EXCEPT ![g] = "gone"])
        BY <2>1 DEF exchangeCode
      <4> HIDE DEF left
      <4> QED BY <4>1, <4>2 DEF Codes
    <3> QED BY <2>1, <3>1, LoginInvKept DEF exchangeCode
  <2> QED
    BY <1>9, <2>1, LoginInvKept
       DEF ExchangeStep, presentRefreshToken, getRefreshToken, deleteRefreshToken,
           issueRefreshToken, storeFails
<1> QED BY <1>1, <1>2, <1>3, <1>4, <1>5, <1>6, <1>7, <1>8, <1>9 DEF OAuthNext, ExchangeStep

-----------------------------------------------------------------------------
(* CodeInv.                                                                  *)

(* A step that lets nobody past the check of a code.                         *)
LEMMA CodeInvKept ==
  ASSUME CodeInv, presented' = presented,
         \A x \in Exchanges :
           \/ exchange'[x] = exchange[x]
           \/ exchange'[x] \in {"refused", "error"}
           \/ exchange[x] = "issuing" /\ exchange'[x] = "answered"
           \/ presented[x] \in Exchanges /\ exchange'[x] \in {"deleting", "creating", "answered"},
         \A g \in Codes : code[g] = "gone" => code'[g] = "gone"
  PROVE  CodeInv'
<1>1. \A x \in Exchanges : presented[x] \in Codes => presented[x] \notin Exchanges
  BY OAuthAssumption DEF Codes
<1>2. \A x \in Granted' : presented[x] \in Codes => x \in Granted
  BY <1>1 DEF Granted
<1> QED BY <1>2 DEF CodeInv, Granted

LEMMA CodeStep ==
  OAuthTypeOK /\ LoginInv /\ CodeInv /\ [OAuthNext]_oauthVars => CodeInv'
<1> SUFFICES ASSUME OAuthTypeOK, LoginInv, CodeInv, [OAuthNext]_oauthVars PROVE CodeInv'
  OBVIOUS
<1> USE DEF logins, callbacks, codes, requests
<1>1. CASE tick \/ wrongMagicToken \/ UNCHANGED oauthVars
  BY <1>1, CodeInvKept DEF tick, wrongMagicToken, oauthVars
<1>2. CASE oauthRestart
  <2>1. \A g \in Codes : code[g] = "gone" => code'[g] = "gone"
    BY <1>2 DEF oauthRestart, OAuthTypeOK
  <2>2. \A x \in Exchanges : exchange'[x] = exchange[x] \/ exchange'[x] = "error"
    BY <1>2 DEF oauthRestart, OAuthTypeOK
  <2> QED BY <1>2, <2>1, <2>2, CodeInvKept DEF oauthRestart
<1>3. ASSUME NEW f \in Forms, rightMagicToken(f) PROVE CodeInv'
  <2>1. f \in Codes /\ clock \in 0..MaxClock
    BY DEF Codes, OAuthTypeOK
  <2>2. \A g \in Codes : code[g] = "gone" => code'[g] = "gone"
    BY <1>3, <2>1, IssuedType DEF rightMagicToken
  <2> QED BY <1>3, <2>2, CodeInvKept DEF rightMagicToken
<1>4. ASSUME NEW l \in Logins, telegramLogin(l) \/ \E k \in Callbacks : telegramCallback(k, l)
      PROVE  CodeInv'
  BY <1>4, CodeInvKept DEF telegramLogin, telegramCallback
<1>5. ASSUME NEW k \in Callbacks, identityVerified(k) \/ loginRefused(k) PROVE CodeInv'
  BY <1>5, CodeInvKept DEF identityVerified, loginRefused
<1>6. ASSUME NEW k \in Callbacks, loginApproved(k) PROVE CodeInv'
  <2>1. /\ k \in Codes /\ calledAt[k] \in 0..MaxClock
        /\ code[k] = "none"
    BY <1>6 DEF Codes, OAuthTypeOK, loginApproved, LoginInv
  <2>2. \A g \in Codes : code[g] = "gone" => code'[g] = "gone"
    BY <1>6, <2>1, IssuedType DEF loginApproved
  <2> QED BY <1>6, <2>2, CodeInvKept DEF loginApproved
<1>7. ASSUME NEW x \in Exchanges, NEW g \in Codes, NEW matches \in BOOLEAN,
             exchangeCode(x, g, matches)
      PROVE  CodeInv'
  <2> DEFINE left == purgeExpiredCodes(clock)
  <2>1. /\ left \in [Codes -> {"none", "live", "gone"}]
        /\ \A h \in Codes : code[h] = "gone" => left[h] = "gone"
    BY PurgeCodes
  <2>2. \/ /\ left[g] = "live" /\ code' = [left EXCEPT ![g] = "gone"]
           /\ exchange' = [exchange EXCEPT ![x] = "issuing"]
        \/ /\ code' = left
           /\ exchange' = [exchange EXCEPT ![x] = "refused"]
    BY <1>7 DEF exchangeCode, Responded
  <2> HIDE DEF left
  <2>3. \A h \in Codes : code[h] = "gone" => code'[h] = "gone"
    BY <2>1, <2>2
  <2>4. /\ exchange[x] = "idle" /\ presented'[x] = g
        /\ \A y \in Exchanges \ {x} : exchange'[y] = exchange[y] /\ presented'[y] = presented[y]
    BY <1>7, <2>2 DEF exchangeCode, OAuthTypeOK
  <2>5. \A y \in Exchanges \ {x} : y \in Granted' <=> y \in Granted
    BY <2>4 DEF Granted
  <2>6. x \in Granted' => left[g] = "live" /\ code'[g] = "gone"
    BY <2>1, <2>2 DEF Granted, OAuthTypeOK
  <2>7. ASSUME NEW y \in Granted \ {x}, x \in Granted' PROVE presented[y] # g
    BY <2>1, <2>6, <2>7 DEF CodeInv
  <2>8. \A y \in Exchanges : exchange'[y] \in {"reading", "deleting", "creating"}
                               => presented'[y] \in Exchanges
    BY <2>2, <2>4 DEF CodeInv, OAuthTypeOK
  <2>9. \A y \in Granted' : presented'[y] \in Codes => code'[presented'[y]] = "gone"
    BY <2>3, <2>4, <2>5, <2>6 DEF CodeInv, Granted
  <2>10. \A y, z \in Granted' :
           presented'[y] = presented'[z] /\ presented'[y] \in Codes => y = z
    BY <2>4, <2>5, <2>7 DEF CodeInv, Granted
  <2> QED BY <2>8, <2>9, <2>10 DEF CodeInv
<1>8. ASSUME NEW x \in Exchanges, NEW t \in Exchanges, presentRefreshToken(x, t)
      PROVE  CodeInv'
  <2>1. /\ exchange'[x] = "reading" /\ presented'[x] = t /\ code' = code
        /\ \A y \in Exchanges \ {x} : exchange'[y] = exchange[y] /\ presented'[y] = presented[y]
    BY <1>8 DEF presentRefreshToken, Responded, OAuthTypeOK
  <2>2. \A y \in Granted' : y \in Granted /\ presented'[y] = presented[y]
    BY <2>1 DEF Granted
  <2> QED BY <2>1, <2>2 DEF CodeInv
<1>9. ASSUME NEW x \in Exchanges,
             \/ \E matches \in BOOLEAN : getRefreshToken(x, matches)
             \/ deleteRefreshToken(x) \/ issueRefreshToken(x) \/ storeFails(x)
      PROVE  CodeInv'
  BY <1>9, CodeInvKept
     DEF getRefreshToken, deleteRefreshToken, issueRefreshToken, storeFails, Responded,
         OAuthTypeOK, CodeInv
<1> QED BY <1>1, <1>2, <1>3, <1>4, <1>5, <1>6, <1>7, <1>8, <1>9 DEF OAuthNext

-----------------------------------------------------------------------------
(* TokenInv.                                                                 *)

(* A step that answers nobody, shows nothing and deletes nothing.            *)
LEMMA TokenInvKept ==
  ASSUME TokenInv, presented' = presented, refreshTokens' = refreshTokens,
         \A x \in Exchanges : /\ exchange'[x] = "idle" => exchange[x] = "idle"
                              /\ exchange'[x] = "answered" => exchange[x] = "answered"
  PROVE  TokenInv'
  BY DEF TokenInv, HeldTokenIsGood

LEMMA TokenStep == OAuthTypeOK /\ TokenInv /\ [OAuthNext]_oauthVars => TokenInv'
<1> SUFFICES ASSUME OAuthTypeOK, TokenInv, [OAuthNext]_oauthVars PROVE TokenInv'
  OBVIOUS
<1> USE DEF logins, callbacks, codes, requests
<1>1. CASE \/ tick \/ wrongMagicToken \/ UNCHANGED oauthVars
           \/ \E f \in Forms : rightMagicToken(f)
           \/ \E l \in Logins : telegramLogin(l) \/ \E k \in Callbacks : telegramCallback(k, l)
           \/ \E k \in Callbacks : identityVerified(k) \/ loginRefused(k) \/ loginApproved(k)
  BY <1>1, TokenInvKept
     DEF tick, wrongMagicToken, oauthVars, rightMagicToken, telegramLogin, telegramCallback,
         identityVerified, loginRefused, loginApproved
<1>2. CASE oauthRestart
  BY <1>2, TokenInvKept DEF oauthRestart, OAuthTypeOK
<1>3. ASSUME NEW x \in Exchanges, exchange[x] = "idle", NEW p, p # NoGrant,
             presented' = [presented EXCEPT ![x] = p], refreshTokens' = refreshTokens,
             NEW state \in {"issuing", "refused", "reading"},
             exchange' = [exchange EXCEPT ![x] = state]
      PROVE  TokenInv'
  <2>1. presented[x] = NoGrant
    BY <1>3 DEF TokenInv
  <2>2. \A y \in Exchanges : presented[y] # presented'[y] => y = x
    BY <1>3 DEF OAuthTypeOK
  <2>3. \A t \in Exchanges : (\E y \in Exchanges : presented[y] = t)
                               => \E y \in Exchanges : presented'[y] = t
    BY <2>1, <2>2, OAuthAssumption
  <2>4. \A y \in Exchanges : exchange'[y] \in {"idle", "answered"}
                               => exchange'[y] = exchange[y] /\ presented'[y] = presented[y]
    BY <1>3 DEF OAuthTypeOK
  <2> QED BY <1>3, <2>3, <2>4 DEF TokenInv, HeldTokenIsGood
<1>4. ASSUME NEW x \in Exchanges, NEW g \in Codes, NEW matches \in BOOLEAN,
             exchangeCode(x, g, matches)
      PROVE  TokenInv'
  <2>1. g # NoGrant
    BY OAuthAssumption
  <2>2. \E state \in {"issuing", "refused"} : exchange' = [exchange EXCEPT ![x] = state]
    BY <1>4 DEF exchangeCode, Responded
  <2> QED BY <1>3, <1>4, <2>1, <2>2 DEF exchangeCode
<1>5. ASSUME NEW x \in Exchanges, NEW t \in Exchanges, presentRefreshToken(x, t)
      PROVE  TokenInv'
  <2>1. t # NoGrant
    BY OAuthAssumption
  <2> QED BY <1>3, <1>5, <2>1 DEF presentRefreshToken, Responded
<1>6. ASSUME NEW x \in Exchanges,
             (\E matches \in BOOLEAN : getRefreshToken(x, matches)) \/ storeFails(x)
      PROVE  TokenInv'
  BY <1>6, TokenInvKept DEF getRefreshToken, storeFails, Responded, OAuthTypeOK
<1>7. ASSUME NEW x \in Exchanges, deleteRefreshToken(x) PROVE TokenInv'
  BY <1>7 DEF deleteRefreshToken, Responded, OAuthTypeOK, TokenInv, HeldTokenIsGood
<1>8. ASSUME NEW x \in Exchanges, issueRefreshToken(x) PROVE TokenInv'
  BY <1>8 DEF issueRefreshToken, Responded, OAuthTypeOK, TokenInv, HeldTokenIsGood
<1> QED BY <1>1, <1>2, <1>4, <1>5, <1>6, <1>7, <1>8 DEF OAuthNext

-----------------------------------------------------------------------------
LEMMA OAuthInvariant == OAuthSpec => []OAuthInv
<1>1. OAuthInit => OAuthInv
  BY OAuthInitType
     DEF OAuthInit, OAuthInv, LoginInv, Passed, CodeInv, Granted, TokenInv, HeldTokenIsGood, Codes
<1>2. OAuthInv /\ [OAuthNext]_oauthVars => OAuthInv'
  BY OAuthTypeStep, LoginStep, CodeStep, TokenStep DEF OAuthInv
<1> QED BY <1>1, <1>2, PTL DEF OAuthSpec

(* The state keeps its types, and an address never has more failures on      *)
(* record than the limit.                                                    *)
THEOREM OAuthTypes == OAuthSpec => []OAuthTypeOK
<1>1. OAuthInv => OAuthTypeOK
  BY DEF OAuthInv
<1> QED BY OAuthInvariant, <1>1, PTL

(* A login gives at most one code, and a code at most one answer.            *)
THEOREM GrantsAreSpentOnce == OAuthSpec => []GrantSpentOnce
<1>1. OAuthInv => GrantSpentOnce
  BY DEF OAuthInv, LoginInv, Passed, CodeInv, GrantSpentOnce
<1> QED BY OAuthInvariant, <1>1, PTL

(* A refresh token that has been answered and not shown is stored.           *)
THEOREM HeldTokensAreGood == OAuthSpec => []HeldTokenIsGood
<1>1. OAuthInv => HeldTokenIsGood
  BY DEF OAuthInv, TokenInv
<1> QED BY OAuthInvariant, <1>1, PTL

-----------------------------------------------------------------------------
(* Temporary file links.                                                     *)

CallState(g) == call[g].state
Linked(g) == call[g].kind # "base64" /\ CallState(g) \in {"reading", "returned"} /\ g \notin expired

CallRecords ==
  [Gets -> [kind : {"url", "image", "base64"}, source : Gets \cup {NoGet},
            state : {"none", "invoked", "reading", "returned", "failing",
                     "failed", "lost"}]]

LinkTypes ==
  /\ call \in CallRecords
  /\ cacheKey \in Gets \cup {NoGet}
  /\ {listed, ready, expired, partialPath, filePath, removing} \subseteq SUBSET Gets
  /\ upload \in [Gets -> {"none", "accepted", "streaming", "renamed", "stored", "failed"}]
  /\ linkRestarts \in 0..MaxLinkRestarts

ListedInv ==
  /\ \A g \in listed : CallState(g) # "none"
  /\ \A g \in removing : g \notin listed /\ CallState(g) # "none"

UploadInv ==
  /\ \A g \in Gets : CallState(g) = "none" => upload[g] = "none"
  /\ \A g \in ready : upload[g] = "stored"
  /\ \A g \in listed : upload[g] \in {"renamed", "stored"} => g \in filePath

LinkedInv == \A g \in Gets : Linked(g) => g \in listed /\ g \in ready

LinkInv == LinkTypes /\ ListedInv /\ UploadInv /\ LinkedInv

-----------------------------------------------------------------------------
(* One lemma for each group of actions.                                      *)

LEMMA LinkInit == FileLinksInit => LinkInv
<1> SUFFICES ASSUME FileLinksInit PROVE LinkInv
  OBVIOUS
<1>1. \A g \in Gets : CallState(g) = "none"
  BY DEF FileLinksInit, CallState
<1>2. LinkTypes
  <2>1. call \in CallRecords
    BY DEF FileLinksInit, CallRecords
  <2> QED BY <2>1, FileLinksAssumption DEF FileLinksInit, LinkTypes
<1> QED BY <1>1, <1>2 DEF FileLinksInit, LinkInv, ListedInv, UploadInv, LinkedInv, Linked

(* The record of a call after a step that gives it a state, or a source too. *)
CallIs(g, to) ==
  /\ call' \in CallRecords
  /\ \A h \in Gets : /\ call'[h].kind = call[h].kind
                     /\ call'[h].state = IF h = g THEN to ELSE call[h].state

CallStates == {"invoked", "reading", "returned", "failing", "failed"}

LEMMA CallStateStep ==
  ASSUME call \in CallRecords, NEW g \in Gets, NEW to \in CallStates,
         call' = [call EXCEPT ![g].state = to]
  PROVE  CallIs(g, to)
  BY DEF CallRecords, CallIs, CallStates

LEMMA SourceStep ==
  ASSUME call \in CallRecords, NEW g \in Gets, NEW to \in CallStates, NEW source \in Gets \cup {NoGet},
         call' = [call EXCEPT ![g].state = to, ![g].source = source]
  PROVE  CallIs(g, to)
  BY DEF CallRecords, CallIs, CallStates

LEMMA SourceFirstStep ==
  ASSUME call \in CallRecords, NEW g \in Gets, NEW to \in CallStates,
         call' = [call EXCEPT ![g].source = NoGet, ![g].state = to]
  PROVE  CallIs(g, to)
  BY DEF CallRecords, CallIs, CallStates

LEMMA CallsKeepLinks ==
  ASSUME LinkInv, NEW g \in Gets,
         \/ createTicket(g) \/ getBase64(g) \/ uploadAnswered(g) \/ uploadNotAnswered(g)
         \/ (\E accepted \in BOOLEAN : contentRead(g, accepted)) \/ discard(g)
  PROVE  LinkInv'
<1> USE DEF others, records, disk
<1>1. ASSUME createTicket(g) PROVE LinkInv'
  <2>1. call' = [call EXCEPT ![g].state = "invoked"]
    BY <1>1 DEF createTicket, Becoming
  <2>2. CallIs(g, "invoked")
    BY <2>1, CallStateStep DEF LinkInv, LinkTypes, CallStates
  <2>3. g \notin removing /\ upload[g] = "none"
    BY <1>1 DEF createTicket, LinkInv, ListedInv, UploadInv, CallState
  <2> QED
    BY <1>1, <2>2, <2>3
       DEF createTicket, CallIs, LinkInv, ListedInv, UploadInv, LinkedInv, Linked, CallState, LinkTypes
<1>2. ASSUME NEW to \in {"reading", "returned", "failing", "failed"},
             CallState(g) # "none", UNCHANGED <<records, others>>,
             CallIs(g, to),
             Linked(g)' => Linked(g) \/ (g \in listed /\ g \in ready)
      PROVE  LinkInv'
  BY <1>2 DEF CallIs, LinkInv, ListedInv, UploadInv, LinkedInv, Linked, CallState, LinkTypes
<1>3. ASSUME getBase64(g) PROVE LinkInv'
  <2>1. PICK to \in {"reading", "returned"}, source \in Gets \cup {NoGet} :
          call' = [call EXCEPT ![g].state = to, ![g].source = source]
    BY <1>3 DEF getBase64, LinkInv, LinkTypes
  <2>2. CallIs(g, to)
    BY <2>1, SourceStep DEF LinkInv, LinkTypes, CallStates
  <2>3. call[g].kind = "base64" /\ call[g].state = "none"
    BY <1>3 DEF getBase64
  <2>4. g \notin listed /\ g \notin removing /\ upload[g] = "none"
    BY <2>3 DEF LinkInv, ListedInv, UploadInv, CallState
  <2>5. g \notin ready
    BY <2>4 DEF LinkInv, UploadInv
  <2>6. UNCHANGED <<listed, removing, cacheKey, ready, expired, upload, partialPath, filePath,
                    linkRestarts>>
    BY <1>3 DEF getBase64
  <2>7. LinkTypes'
    BY <2>2, <2>6 DEF CallIs, LinkInv, LinkTypes
  <2>8. ListedInv' /\ UploadInv'
    BY <2>2, <2>4, <2>5, <2>6 DEF CallIs, LinkInv, ListedInv, UploadInv, CallState, LinkTypes
  <2>9. LinkedInv'
    BY <2>2, <2>3, <2>6 DEF CallIs, LinkInv, LinkedInv, Linked, CallState
  <2> QED BY <2>7, <2>8, <2>9 DEF LinkInv
<1>4. ASSUME uploadAnswered(g) PROVE LinkInv'
  <2>1. PICK to \in {"reading", "returned", "failing"}, source \in Gets \cup {NoGet} :
          /\ call' = [call EXCEPT ![g].state = to, ![g].source = source]
          /\ to # "failing" => g \in listed /\ Usable(g)
    <3> DEFINE source == IF call[g].kind = "image" /\ Hit THEN cacheKey ELSE NoGet
    <3>1. source \in Gets \cup {NoGet}
      BY DEF LinkInv, LinkTypes
    <3>2. CASE g \notin listed \/ ~Usable(g)
      <4>1. call' = [call EXCEPT ![g].state = "failing", ![g].source = source]
        BY <1>4, <3>2 DEF uploadAnswered
      <4> QED BY <3>1, <4>1
    <3>3. CASE g \in listed /\ Usable(g)
      <4>1. CASE call[g].kind = "url"
        <5>1. call' = [call EXCEPT ![g].state = "returned", ![g].source = source]
          BY <1>4, <3>3, <4>1 DEF uploadAnswered
        <5> QED BY <3>1, <3>3, <5>1
      <4>2. CASE call[g].kind # "url"
        <5>1. call' = [call EXCEPT ![g].state = IF Hit THEN "reading" ELSE "failing",
                                   ![g].source = source]
          BY <1>4, <3>3, <4>2 DEF uploadAnswered
        <5> QED BY <3>1, <3>3, <5>1
      <4> QED BY <4>1, <4>2
    <3> QED BY <3>2, <3>3
  <2>2. CallIs(g, to)
    BY <2>1, SourceStep DEF LinkInv, LinkTypes, CallStates
  <2>3. CallState(g) # "none" /\ UNCHANGED <<records, others>>
    BY <1>4 DEF uploadAnswered, CallState
  <2>4. Linked(g)' => g \in listed /\ g \in ready
    BY <2>1, <2>2 DEF CallIs, Linked, CallState, Usable
  <2> QED BY <1>2, <2>2, <2>3, <2>4
<1>5. ASSUME uploadNotAnswered(g) PROVE LinkInv'
  <2>1. CallIs(g, "failing")
    BY <1>5, CallStateStep DEF uploadNotAnswered, Becoming, LinkInv, LinkTypes, CallStates
  <2>2. CallState(g) # "none" /\ UNCHANGED <<records, others>>
    BY <1>5 DEF uploadNotAnswered, CallState
  <2>3. ~Linked(g)'
    BY <2>1 DEF CallIs, Linked, CallState
  <2> QED BY <1>2, <2>1, <2>2, <2>3
<1>6. ASSUME NEW accepted \in BOOLEAN, contentRead(g, accepted) PROVE LinkInv'
  <2>1. PICK to \in {"returned", "failing", "failed"} :
          call' = [call EXCEPT ![g].source = NoGet, ![g].state = to]
    <3>1. CASE call[g].source \in filePath /\ accepted
      BY <1>6, <3>1 DEF contentRead
    <3>2. CASE ~(call[g].source \in filePath /\ accepted)
      BY <1>6, <3>2 DEF contentRead
    <3> QED BY <3>1, <3>2
  <2>2. CallIs(g, to)
    BY <2>1, SourceFirstStep DEF LinkInv, LinkTypes, CallStates
  <2>3. CallState(g) = "reading" /\ UNCHANGED <<records, others>>
    BY <1>6 DEF contentRead, CallState
  <2>4. Linked(g)' => Linked(g)
    BY <2>2, <2>3 DEF CallIs, Linked, CallState
  <2> QED BY <1>2, <2>2, <2>3, <2>4
<1>7. ASSUME discard(g) PROVE LinkInv'
  <2>1. call' = [call EXCEPT ![g].state = "failed"] /\ CallState(g) = "failing" /\ UNCHANGED others
    BY <1>7 DEF discard, Becoming, CallState
  <2>2. CallIs(g, "failed")
    BY <2>1, CallStateStep DEF LinkInv, LinkTypes, CallStates
  <2>3. \/ UNCHANGED records
        \/ /\ g \in listed /\ listed' = listed \ {g} /\ removing' = removing \cup {g}
           /\ cacheKey' \in {cacheKey, NoGet}
    BY <1>7 DEF discard, deleteRecord
  <2>4. LinkTypes'
    BY <2>1, <2>2, <2>3 DEF CallIs, LinkInv, LinkTypes
  <2>5. ListedInv'
    BY <2>1, <2>2, <2>3 DEF CallIs, LinkInv, ListedInv, CallState, LinkTypes
  <2>6. UploadInv' /\ LinkedInv'
    BY <2>1, <2>2, <2>3 DEF CallIs, LinkInv, UploadInv, LinkedInv, Linked, CallState, LinkTypes
  <2> QED BY <2>4, <2>5, <2>6 DEF LinkInv
<1> QED BY <1>1, <1>3, <1>4, <1>5, <1>6, <1>7

LEMMA UploadsKeepLinks ==
  ASSUME LinkInv, NEW g \in Gets,
         handleUpload(g) \/ partialOpened(g) \/ renamed(g) \/ uploadFails(g) \/ uploadStored(g)
  PROVE  LinkInv'
<1> USE DEF LinkInv, LinkTypes, ListedInv, UploadInv, LinkedInv, Linked, CallState, Putting, records, disk
<1>1. CASE handleUpload(g)
  BY <1>1 DEF handleUpload
<1>2. CASE partialOpened(g)
  BY <1>2 DEF partialOpened
<1>3. CASE renamed(g)
  BY <1>3 DEF renamed
<1>4. CASE uploadFails(g)
  BY <1>4 DEF uploadFails
<1>5. CASE uploadStored(g)
  BY <1>5 DEF uploadStored
<1> QED BY <1>1, <1>2, <1>3, <1>4, <1>5

LEMMA RecordsKeepLinks ==
  ASSUME LinkInv, NEW g \in Gets, expire(g) \/ cleanupExpired(g) \/ filesRemoved(g)
  PROVE  LinkInv'
<1> USE DEF LinkInv, LinkTypes, ListedInv, UploadInv, LinkedInv, Linked, CallState, records, disk
<1>1. CASE expire(g)
  BY <1>1 DEF expire
<1>2. CASE cleanupExpired(g)
  BY <1>2 DEF cleanupExpired, deleteRecord
<1>3. CASE filesRemoved(g)
  BY <1>3 DEF filesRemoved
<1> QED BY <1>1, <1>2, <1>3

LEMMA RestartKeepsLinks ==
  ASSUME LinkInv, linkStoreRestart
  PROVE  LinkInv'
<1>1. \A g \in Gets : \/ CallState(g) = "none" /\ call'[g] = call[g] /\ upload'[g] = "none"
                      \/ call'[g] = [call[g] EXCEPT !.state = "lost", !.source = NoGet]
  BY DEF linkStoreRestart, LinkInv, LinkTypes, UploadInv, CallState
<1>2. \A g \in Gets : \/ CallState(g)' = "none" /\ upload'[g] = "none"
                      \/ CallState(g)' = "lost"
  BY <1>1 DEF CallState, LinkInv, LinkTypes, CallRecords
<1>3. LinkTypes'
  <2>1. linkRestarts' \in 0..MaxLinkRestarts
    <3>1. linkRestarts < MaxLinkRestarts /\ linkRestarts' = linkRestarts + 1
      BY DEF linkStoreRestart
    <3> QED BY <3>1, FileLinksAssumption DEF LinkInv, LinkTypes
  <2>2. upload' \in [Gets -> {"none", "accepted", "streaming", "renamed", "stored", "failed"}]
    BY DEF linkStoreRestart
  <2>3. call' \in CallRecords
    <3> DEFINE Call == [kind : {"url", "image", "base64"}, source : Gets \cup {NoGet},
                        state : {"none", "invoked", "reading", "returned", "failing",
                                 "failed", "lost"}]
    <3>1. \A g \in Gets : call[g] \in Call
      BY DEF LinkInv, LinkTypes, CallRecords
    <3>2. \A g \in Gets : call'[g] \in Call
      BY <1>1, <3>1
    <3>3. call' = [g \in Gets |-> call'[g]]
      BY DEF linkStoreRestart
    <3> HIDE DEF Call
    <3>4. call' \in [Gets -> Call]
      BY <3>2, <3>3
    <3> QED BY <3>4 DEF Call, CallRecords
  <2> QED BY <2>1, <2>2, <2>3 DEF linkStoreRestart, LinkTypes
<1> QED
  BY <1>2, <1>3 DEF linkStoreRestart, LinkInv, ListedInv, UploadInv, LinkedInv, Linked, CallState

LEMMA LinkStep == LinkInv /\ [FileLinksNext]_fileLinksVars => LinkInv'
<1> SUFFICES ASSUME LinkInv, [FileLinksNext]_fileLinksVars PROVE LinkInv'
  OBVIOUS
<1>1. CASE \/ UNCHANGED fileLinksVars
           \/ \E d \in Downloads : \/ downloaded(d) \/ downloadFails(d)
                                   \/ \E g \in Gets : handleDownload(d, g)
  BY <1>1
     DEF fileLinksVars, records, disk, downloaded, downloadFails, handleDownload, LinkInv, LinkTypes,
         ListedInv, UploadInv, LinkedInv, Linked, CallState
<1> QED
  BY <1>1, CallsKeepLinks, UploadsKeepLinks, RecordsKeepLinks, RestartKeepsLinks
     DEF FileLinksNext

-----------------------------------------------------------------------------
(* The downloads of a record.                                                *)

Counted(g) == {d \in Downloads : download[d].of = g /\ download[d].state # "failed"}

CountInv ==
  /\ download \in [Downloads -> [of : Gets \cup {NoGet},
                                 state : {"none", "streaming", "done", "failed"}]]
  /\ \A d \in Downloads : /\ download[d].state = "none" => download[d].of = NoGet
                          /\ download[d].state = "streaming" => download[d].of \in Gets
  /\ downloadCount \in [Gets -> 0..MaxDownloads]
  /\ \A g \in Gets : downloadCount[g] = Cardinality(Counted(g))

LEMMA CountedIsFinite == \A g \in Gets : IsFiniteSet(Counted(g))
  BY FileLinksAssumption, FS_Subset DEF Counted

LEMMA CountInit == FileLinksInit => CountInv
<1> SUFFICES ASSUME FileLinksInit PROVE CountInv
  OBVIOUS
<1>1. \A g \in Gets : Counted(g) = {}
  BY FileLinksAssumption DEF FileLinksInit, Counted
<1>2. \A d \in Downloads : download[d] = [of |-> NoGet, state |-> "none"]
  BY DEF FileLinksInit
<1>3. download \in [Downloads -> [of : Gets \cup {NoGet},
                                 state : {"none", "streaming", "done", "failed"}]]
  BY DEF FileLinksInit
<1>4. 0 \in 0..MaxDownloads
  BY FileLinksAssumption
<1>5. downloadCount = [g \in Gets |-> 0]
  BY DEF FileLinksInit
<1> QED BY <1>1, <1>2, <1>3, <1>4, <1>5, FS_EmptySet DEF CountInv

LEMMA CountStep == CountInv /\ [FileLinksNext]_fileLinksVars => CountInv'
<1> SUFFICES ASSUME CountInv, [FileLinksNext]_fileLinksVars PROVE CountInv'
  OBVIOUS
<1>1. CASE UNCHANGED <<downloadCount, download>>
  BY <1>1 DEF CountInv, Counted
<1>2. ASSUME NEW d \in Downloads, NEW g \in Gets, handleDownload(d, g) PROVE CountInv'
  <2>1. /\ downloadCount' = [downloadCount EXCEPT ![g] = downloadCount[g] + 1]
        /\ downloadCount[g] < MaxDownloads
        /\ download[d].of = NoGet
        /\ download' = [download EXCEPT ![d] = [of |-> g, state |-> "streaming"]]
    BY <1>2 DEF handleDownload, CountInv
  <2>2. /\ d \notin Counted(g) /\ Counted(g)' = Counted(g) \cup {d}
        /\ \A h \in Gets \ {g} : Counted(h)' = Counted(h)
    BY <2>1, FileLinksAssumption DEF CountInv, Counted
  <2>3. Cardinality(Counted(g)') = Cardinality(Counted(g)) + 1
    BY <2>2, CountedIsFinite, FS_AddElement
  <2>4. downloadCount' \in [Gets -> 0..MaxDownloads]
    BY <2>1, FileLinksAssumption DEF CountInv
  <2>5. \A h \in Gets : downloadCount'[h] = Cardinality(Counted(h)')
    BY <2>1, <2>2, <2>3 DEF CountInv
  <2> QED BY <2>1, <2>4, <2>5 DEF CountInv
<1>3. ASSUME NEW d \in Downloads, downloaded(d) PROVE CountInv'
  <2>1. \A g \in Gets : Counted(g)' = Counted(g)
    BY <1>3 DEF downloaded, CountInv, Counted
  <2> QED BY <1>3, <2>1 DEF downloaded, CountInv
<1>4. ASSUME NEW d \in Downloads, downloadFails(d) PROVE CountInv'
  <2>0. PICK g \in Gets : g = download[d].of
    BY <1>4 DEF downloadFails, CountInv
  <2>1. /\ d \in Counted(g)
        /\ downloadCount' = [downloadCount EXCEPT ![g] = downloadCount[g] - 1]
        /\ download' = [download EXCEPT ![d].state = "failed"]
    BY <1>4, <2>0 DEF downloadFails, CountInv, Counted
  <2>2. /\ Counted(g)' = Counted(g) \ {d}
        /\ \A h \in Gets \ {g} : Counted(h)' = Counted(h)
    BY <2>0, <2>1 DEF CountInv, Counted
  <2>3. Cardinality(Counted(g)') = Cardinality(Counted(g)) - 1 /\ Cardinality(Counted(g)) > 0
    BY <2>1, <2>2, CountedIsFinite, FS_RemoveElement, FS_CardinalityType, FS_EmptySet
  <2>4. downloadCount' \in [Gets -> 0..MaxDownloads]
    BY <2>1, <2>3, FileLinksAssumption DEF CountInv
  <2>5. ASSUME NEW h \in Gets PROVE downloadCount'[h] = Cardinality(Counted(h)')
    <3>1. CASE h = g
      <4>1. downloadCount'[h] = downloadCount[g] - 1 /\ downloadCount[g] = Cardinality(Counted(g))
        BY <2>1, <3>1 DEF CountInv
      <4>2. Counted(h)' = Counted(g)'
        BY <3>1 DEF Counted
      <4> QED BY <2>3, <4>1, <4>2
    <3>2. CASE h # g
      <4>1. downloadCount'[h] = downloadCount[h] /\ downloadCount[h] = Cardinality(Counted(h))
        BY <2>1, <3>2 DEF CountInv
      <4> QED BY <2>2, <3>2, <4>1
    <3> QED BY <3>1, <3>2
  <2>6. /\ download' \in [Downloads -> [of : Gets \cup {NoGet},
                                        state : {"none", "streaming", "done", "failed"}]]
        /\ \A e \in Downloads : /\ download'[e].state = "none" => download'[e].of = NoGet
                                /\ download'[e].state = "streaming" => download'[e].of \in Gets
    BY <2>1 DEF CountInv
  <2> QED BY <2>4, <2>5, <2>6 DEF CountInv
<1>5. CASE linkStoreRestart
  <2>1. \A d \in Downloads : download'[d] = IF download[d].state = "none" THEN download[d]
                                            ELSE [of |-> NoGet, state |-> "failed"]
    BY <1>5 DEF linkStoreRestart
  <2>2. \A g \in Gets : Counted(g)' = {}
    BY <2>1, FileLinksAssumption DEF CountInv, Counted
  <2>3. \A g \in Gets : downloadCount'[g] = 0
    BY <1>5 DEF linkStoreRestart
  <2>4. downloadCount' \in [Gets -> 0..MaxDownloads]
    <3>1. 0 \in 0..MaxDownloads
      BY FileLinksAssumption
    <3>2. downloadCount' = [g \in Gets |-> 0]
      BY <1>5 DEF linkStoreRestart
    <3> QED BY <3>1, <3>2
  <2>5. download' \in [Downloads -> [of : Gets \cup {NoGet},
                                     state : {"none", "streaming", "done", "failed"}]]
    BY <1>5 DEF linkStoreRestart, CountInv
  <2>6. \A g \in Gets : downloadCount'[g] = Cardinality(Counted(g)')
    BY <2>2, <2>3, FS_EmptySet
  <2>7. \A d \in Downloads : /\ download'[d].state = "none" => download'[d].of = NoGet
                             /\ download'[d].state # "streaming"
    BY <2>1 DEF CountInv
  <2> QED BY <2>4, <2>5, <2>6, <2>7 DEF CountInv
<1> QED
  BY <1>1, <1>2, <1>3, <1>4, <1>5
     DEF FileLinksNext, fileLinksVars, others, createTicket, getBase64, uploadAnswered,
         uploadNotAnswered, contentRead, discard, handleUpload, partialOpened, renamed,
         uploadFails, uploadStored, expire, cleanupExpired, filesRemoved

-----------------------------------------------------------------------------
LEMMA FileLinksInvariant == FileLinksSpec => [](LinkInv /\ CountInv)
<1>1. LinkInv /\ CountInv /\ [FileLinksNext]_fileLinksVars => LinkInv' /\ CountInv'
  BY LinkStep, CountStep
<1> QED BY LinkInit, CountInit, <1>1, PTL DEF FileLinksSpec

LEMMA LinksTyped == LinkInv /\ CountInv => FileLinksTypeOK
  BY DEF LinkInv, LinkTypes, CallRecords, CountInv, Counted, FileLinksTypeOK

(* The state keeps its types, and the count that admits a download is the    *)
(* number of those under way or done.                                        *)
THEOREM FileLinkTypes == FileLinksSpec => []FileLinksTypeOK
  BY FileLinksInvariant, LinksTyped, PTL

(* A link that was returned serves its file until it expires.                *)
THEOREM LinksServeTheirFiles == FileLinksSpec => []LinkServesFile
<1>1. LinkInv => LinkServesFile
  BY DEF LinkInv, LinkTypes, ListedInv, UploadInv, LinkedInv, Linked, CallState, LinkServesFile, Usable
<1> QED BY FileLinksInvariant, <1>1, PTL

-----------------------------------------------------------------------------
(* The three in one run: a step of the run is a step of one of them, and     *)
(* leaves the other two alone.                                               *)

LEMMA ServicesParts ==
  [ServicesNext]_serviceVars =>
    /\ [RelaysNext]_relaysVars /\ [OAuthNext]_oauthVars /\ [FileLinksNext]_fileLinksVars
<1>1. UNCHANGED serviceVars => UNCHANGED <<relaysVars, oauthVars, fileLinksVars>>
  BY DEF serviceVars
<1>2. ServicesNext =>
        /\ [RelaysNext]_relaysVars /\ [OAuthNext]_oauthVars /\ [FileLinksNext]_fileLinksVars
  BY DEF ServicesNext, InRelays, InOAuth, InLinks
<1> QED
  BY <1>1, <1>2

\* The state of each component keeps its types, whichever of them takes steps.
THEOREM GatewayServicesTypes == ServicesSpec => []ServicesTypeOK
<1> DEFINE Inv == RelaysSound /\ OAuthTypeOK /\ LinkInv /\ CountInv
<1>1. ServicesInit => Inv
  BY RelaysSoundStart, OAuthInitType, LinkInit, CountInit DEF ServicesInit
<1>2. Inv /\ [ServicesNext]_serviceVars => Inv'
  BY ServicesParts, RelaysSoundStep, OAuthTypeStep, LinkStep, CountStep
<1>3. Inv => ServicesTypeOK
  BY LinksTyped DEF ServicesTypeOK, RelaysSound
<1> QED
  BY <1>1, <1>2, <1>3, PTL DEF ServicesSpec
=============================================================================
