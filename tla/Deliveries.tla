------------------------------ MODULE Deliveries ------------------------------
(***************************************************************************)
(* Store-and-forward of partner notes from the gateway to the client of    *)
(* the target console: the rows of gateway_deliveries, the client's        *)
(* successive WebSockets, the copies and the acknowledgements on them, and *)
(* the client's xchange records.                                           *)
(* (gateway.service.ts, gateway-socket.service.ts,                         *)
(* gateway-delivery.service.ts, xchange/sqliteRecordStore.ts.)             *)
(*                                                                         *)
(* One target client with one console.  A note's name is its place in      *)
(* created_at order.  A socket's name is its place in the order in which   *)
(* the client opened them.  Between two awaits a handler runs alone.       *)
(***************************************************************************)
EXTENDS Naturals, Sequences, FiniteSets

CONSTANTS Notes,              \* deliveries, numbered by created_at
          Sockets,            \* the client's connections, numbered
          PollLimit,          \* the limit of pollDeliveries
          MaxConsoleChanges,  \* bound: how often the console comes and goes
          NoSocket

ASSUME ParameterAssumption ==
  /\ IsFiniteSet(Notes) /\ Notes \subseteq Nat
  /\ IsFiniteSet(Sockets) /\ Sockets \subseteq Nat
  /\ PollLimit \in Nat \ {0} /\ MaxConsoleChanges \in Nat
  /\ NoSocket \notin Sockets

VARIABLES
  status,      \* gateway_deliveries.status
  pending,     \* notifications of a note the broker or the caller still owes
  near,        \* the gateway's end of a socket
  registered,  \* connectedClients: the console the last hello listed
  greeting,    \* hello handlers that have not reached pollDeliveries
  updating,    \* ack and fail handlers that have not written the row
  far,         \* the client's end of a socket
  link,        \* the connection below it still carries data
  wsClient,    \* the client's current socket
  snapshot,    \* wsHelloSessionToolsSnapshot
  copies,      \* delivery events on their way to the client
  upstream,    \* messages on their way to the gateway
  console,     \* the target session exists in the client's session store
  changes,
  writing,     \* materializations in progress
  record,      \* the note's row of xchange_records
  outcomes,    \* history: how the copies handled so far have ended
  missed       \* history: notes an error or a dead socket hid from the client

gateway == <<status, pending, near, registered, greeting, updating>>
client == <<far, wsClient, snapshot, console, changes, writing, record>>
transport == <<link, copies, upstream>>
vars == <<gateway, client, transport, outcomes, missed>>

Outcomes == {"delivered", "failed"}
\* What a hello tells about the target console, or that there was none.
Listings == {"none", "bare", "console"}

Hello(listing) == [type |-> "hello", listing |-> listing]
Update(n, o) == [type |-> "update", note |-> n, outcome |-> o]
Messages == [type : {"hello"}, listing : {"bare", "console"}]
              \cup [type : {"update"}, note : Notes, outcome : Outcomes]

TypeOK ==
  /\ status \in [Notes -> {"absent", "queued"} \cup Outcomes]
  /\ pending \in [Notes -> Nat]
  /\ near \in [Sockets -> {"none", "open", "closed"}]
  /\ registered \in [Sockets -> Listings]
  /\ greeting \in [Sockets -> Nat]
  /\ updating \in [Notes -> [Outcomes -> Nat]]
  /\ far \in [Sockets -> {"new", "connecting", "open", "greeted", "closed"}]
  /\ link \in [Sockets -> {"down", "up"}]
  /\ wsClient \in Sockets \cup {NoSocket}
  /\ snapshot \in Listings
  /\ copies \in [Sockets -> [Notes -> Nat]]
  /\ upstream \in [Sockets -> Seq(Messages)]
  /\ console \in BOOLEAN
  /\ changes \in Nat
  /\ writing \in [Notes -> Nat]
  /\ record \in [Notes -> {"none", "new", "read"}]
  /\ outcomes \in [Notes -> SUBSET Outcomes]
  /\ missed \subseteq Notes

\* Tables of counters.
More(f, i, j) == [f EXCEPT ![i] = [f[i] EXCEPT ![j] = @ + 1]]
Less(f, i, j) == [f EXCEPT ![i] = [f[i] EXCEPT ![j] = @ - 1]]
NoCopies == [n \in Notes |-> 0]
NoUpdates == [n \in Notes |-> [o \in Outcomes |-> 0]]

Init ==
  /\ status = [n \in Notes |-> "absent"]
  /\ pending = [n \in Notes |-> 0]
  /\ near = [s \in Sockets |-> "none"]
  /\ registered = [s \in Sockets |-> "none"]
  /\ greeting = [s \in Sockets |-> 0]
  /\ updating = NoUpdates
  /\ far = [s \in Sockets |-> "new"]
  /\ link = [s \in Sockets |-> "down"]
  /\ wsClient = NoSocket
  /\ snapshot = "none"
  /\ copies = [s \in Sockets |-> NoCopies]
  /\ upstream = [s \in Sockets |-> <<>>]
  /\ console \in BOOLEAN
  /\ changes = 0
  /\ writing = [n \in Notes |-> 0]
  /\ record = [n \in Notes |-> "none"]
  /\ outcomes = [n \in Notes |-> {}]
  /\ missed = {}

-----------------------------------------------------------------------------
(* The gateway.                                                             *)

Queued == {n \in Notes : status[n] = "queued"}

\* findConnectedSocketForSession: the first of connectedClients, which keeps
\* the order of the first hellos, that lists the console and looks open.
TargetSocket ==
  LET listing == {s \in Sockets : registered[s] = "console" /\ near[s] = "open"}
  IN IF listing = {} THEN NoSocket
     ELSE CHOOSE s \in listing : \A t \in listing : s <= t

\* The row is inserted, then announced: through the broker or, when publish
\* returns false, by a direct call.  A broker delivers twice if its channel
\* closes before the ack, and a publish that returns false is sent all the
\* same; a publish on a closed channel throws and nothing is announced.
sendPartnerNoteRecord(n) ==
  /\ status[n] = "absent"
  /\ \A m \in Notes : m < n => status[m] # "absent"
  /\ status' = [status EXCEPT ![n] = "queued"]
  /\ \E k \in 0..2 :
       /\ pending' = [pending EXCEPT ![n] = k]
       /\ missed' = IF k = 0 THEN missed \cup {n} ELSE missed
  /\ UNCHANGED <<near, registered, greeting, updating, client, transport, outcomes>>

\* Without a socket the note stays queued for the next hello.
notifyDeliveryQueued(n) ==
  /\ pending[n] > 0
  /\ pending' = [pending EXCEPT ![n] = @ - 1]
  /\ IF TargetSocket # NoSocket /\ link[TargetSocket] = "up"
     THEN /\ copies' = More(copies, TargetSocket, n)
          /\ UNCHANGED missed
     ELSE /\ missed' = IF TargetSocket = NoSocket THEN missed ELSE missed \cup {n}
          /\ UNCHANGED copies
  /\ UNCHANGED <<status, near, registered, greeting, updating, client, link,
                 upstream, outcomes>>

\* Next message of a socket; its handler runs up to the first await.
Receives(s) == near[s] = "open" /\ upstream[s] # <<>>
Consume(s) == upstream' = [upstream EXCEPT ![s] = Tail(@)]

receiveHello_onlyTheFirst(s) ==
  /\ Receives(s) /\ Head(upstream[s]).type = "hello"
  /\ Consume(s)
  /\ registered' = [registered EXCEPT ![s] = Head(upstream[s]).listing]
  /\ greeting' = IF registered[s] = "none" THEN [greeting EXCEPT ![s] = @ + 1]
                 ELSE greeting
  /\ UNCHANGED <<status, pending, near, updating, client, link, copies, outcomes,
                 missed>>
receiveHello(s) ==
  /\ Receives(s) /\ Head(upstream[s]).type = "hello"
  /\ Consume(s)
  /\ registered' = [registered EXCEPT ![s] = Head(upstream[s]).listing]
  /\ greeting' = [greeting EXCEPT ![s] = @ + 1]
  /\ UNCHANGED <<status, pending, near, updating, client, link, copies, outcomes,
                 missed>>

\* delivery_ack and delivery_fail need the hello of their own socket.
receiveUpdate(s) ==
  /\ Receives(s) /\ Head(upstream[s]).type = "update"
  /\ Consume(s)
  /\ LET u == Head(upstream[s])
     IN updating' = IF registered[s] = "none" THEN updating
                    ELSE More(updating, u.note, u.outcome)
  /\ UNCHANGED <<status, pending, near, registered, greeting, client, link, copies,
                 outcomes, missed>>

\* The rows a poll returns: the oldest queued ones.
Older(n) == {m \in Queued : m < n}
Batch == {n \in Queued : Cardinality(Older(n)) < PollLimit}

\* History: the notes that have a full batch of older ones before them.
Overflow == {n \in Queued : Cardinality(Older(n)) >= PollLimit}

\* The hello handler polls, whether or not its socket is still there.
pollDeliveries(s) ==
  /\ greeting[s] > 0
  /\ greeting' = [greeting EXCEPT ![s] = @ - 1]
  /\ IF near[s] = "open" /\ link[s] = "up"
     THEN /\ copies' = [copies EXCEPT ![s] =
                          [n \in Notes |-> IF n \in Batch THEN @[n] + 1 ELSE @[n]]]
          /\ missed' = (missed \ Batch) \cup Overflow
     ELSE UNCHANGED <<copies, missed>>
  /\ UNCHANGED <<status, pending, near, registered, updating, client, link,
                 upstream, outcomes>>

\* syncLiveConsoles, a notification or the poll itself throws.
helloFails(s) ==
  /\ greeting[s] > 0
  /\ greeting' = [greeting EXCEPT ![s] = @ - 1]
  /\ missed' = missed \cup Queued
  /\ UNCHANGED <<status, pending, near, registered, updating, client, transport,
                 outcomes>>

\* ackDeliveriesRecord, failDeliveriesRecord: whatever the row says.
settle(n, o) ==
  /\ updating[n][o] > 0
  /\ updating' = Less(updating, n, o)
  /\ status' = [status EXCEPT ![n] = o]
  /\ UNCHANGED <<pending, near, registered, greeting, client, transport, outcomes,
                 missed>>

settleFails(n, o) ==
  /\ updating[n][o] > 0
  /\ updating' = Less(updating, n, o)
  /\ missed' = missed \cup {n}
  /\ UNCHANGED <<status, pending, near, registered, greeting, client, transport,
                 outcomes>>

\* The close event of the gateway's end.
gatewayCloses(s) ==
  /\ near[s] = "open" /\ link[s] = "down"
  /\ near' = [near EXCEPT ![s] = "closed"]
  /\ registered' = [registered EXCEPT ![s] = "none"]
  /\ UNCHANGED <<status, pending, greeting, updating, client, transport, outcomes,
                 missed>>

\* The gateway dies and is back: rows and what the broker keeps survive.
gatewayRestarts ==
  /\ \E s \in Sockets : near[s] = "open"
  /\ \A s \in Sockets : near[s] = "open" => \E t \in Sockets : t > s
  /\ near' = [s \in Sockets |-> IF near[s] = "open" THEN "closed" ELSE near[s]]
  /\ registered' = [s \in Sockets |-> "none"]
  /\ greeting' = [s \in Sockets |-> 0]
  /\ updating' = NoUpdates
  /\ pending' \in {pending, NoCopies}
  /\ link' = [s \in Sockets |-> IF near[s] = "open" THEN "down" ELSE link[s]]
  /\ copies' = [s \in Sockets |-> NoCopies]
  /\ upstream' = [s \in Sockets |-> <<>>]
  /\ UNCHANGED <<status, client, outcomes, missed>>

-----------------------------------------------------------------------------
(* The connection.  At most one loss per socket but the last.               *)

Break(s) ==
  /\ link' = [link EXCEPT ![s] = "down"]
  /\ copies' = [copies EXCEPT ![s] = NoCopies]
  /\ upstream' = [upstream EXCEPT ![s] = <<>>]

Expendable(s) == \E t \in Sockets : t > s

\* A dead peer, a missed heartbeat, a hello that cannot be sent.
connectionLost(s) ==
  /\ link[s] = "up" /\ Expendable(s)
  /\ Break(s)
  /\ UNCHANGED <<gateway, client, outcomes, missed>>

-----------------------------------------------------------------------------
(* The client.                                                              *)

\* A socket that is closed does not stand in the way of a new one.
ensureGatewayWsClientIsReusable == wsClient \in Sockets => far[wsClient] = "closed"

startGatewayWsClient(s) ==
  /\ ensureGatewayWsClientIsReusable
  /\ far[s] = "new" /\ \A t \in Sockets : t < s => far[t] # "new"
  /\ far' = [far EXCEPT ![s] = "connecting"]
  /\ wsClient' = s
  /\ UNCHANGED <<gateway, snapshot, console, changes, writing, record, transport,
                 outcomes, missed>>

connects(s) ==
  /\ far[s] = "connecting"
  /\ far' = [far EXCEPT ![s] = "open"]
  /\ near' = [near EXCEPT ![s] = "open"]
  /\ link' = [link EXCEPT ![s] = "up"]
  /\ UNCHANGED <<status, pending, registered, greeting, updating, wsClient, snapshot,
                 console, changes, writing, record, copies, upstream, outcomes, missed>>

\* The error and close events, of a refused connection or of a lost one.
clientCloses(s) ==
  /\ \/ far[s] = "connecting" /\ Expendable(s)
     \/ far[s] \in {"open", "greeted"} /\ link[s] = "down"
  /\ far' = [far EXCEPT ![s] = "closed"]
  /\ wsClient' = IF wsClient = s THEN NoSocket ELSE wsClient
  /\ UNCHANGED <<gateway, snapshot, console, changes, writing, record, transport,
                 outcomes, missed>>

clientRestarts(s) ==
  /\ wsClient = s /\ link[s] = "up" /\ Expendable(s)
  /\ far' = [far EXCEPT ![s] = "closed"]
  /\ wsClient' = NoSocket
  /\ snapshot' = "none"
  /\ writing' = NoCopies
  /\ Break(s)
  /\ UNCHANGED <<gateway, console, changes, record, outcomes, missed>>

Listing == IF console THEN "console" ELSE "bare"
IsOpen(s) == s # NoSocket /\ far[s] \in {"open", "greeted"}

\* A send on a socket that is not open throws or is dropped.
Sent(s, msg) == IF IsOpen(s) /\ link[s] = "up"
                THEN [upstream EXCEPT ![s] = Append(@, msg)]
                ELSE upstream

\* The hello of the open event.
sendClientHello_whenChanged(s) ==
  /\ far[s] = "open"
  /\ far' = [far EXCEPT ![s] = "greeted"]
  /\ snapshot' = Listing
  /\ upstream' = IF snapshot = Listing THEN upstream ELSE Sent(s, Hello(Listing))
  /\ UNCHANGED <<gateway, wsClient, console, changes, writing, record, link, copies,
                 outcomes, missed>>
sendClientHello(s) ==
  /\ far[s] = "open"
  /\ far' = [far EXCEPT ![s] = "greeted"]
  /\ snapshot' = Listing
  /\ upstream' = Sent(s, Hello(Listing))
  /\ UNCHANGED <<gateway, wsClient, console, changes, writing, record, link, copies,
                 outcomes, missed>>

\* The identity refresh: another hello when the sessions have changed.
refreshClientHello ==
  /\ IsOpen(wsClient)
  /\ snapshot # Listing
  /\ snapshot' = Listing
  /\ upstream' = Sent(wsClient, Hello(Listing))
  /\ UNCHANGED <<gateway, far, wsClient, console, changes, writing, record, link,
                 copies, outcomes, missed>>

consoleChanges ==
  /\ changes < MaxConsoleChanges
  /\ changes' = changes + 1
  /\ console' = ~console
  /\ UNCHANGED <<gateway, far, wsClient, snapshot, writing, record, transport,
                 outcomes, missed>>

\* The report goes to the current socket, not to the one the copy came by.
Report(n, o) ==
  /\ outcomes' = [outcomes EXCEPT ![n] = @ \cup {o}]
  /\ upstream' = Sent(wsClient, Update(n, o))

\* materializeIncomingDelivery looks the session up first; a note for a session
\* that is not there is skipped, and acknowledged.
receiveDelivery_skips(s, n) ==
  /\ far[s] \in {"open", "greeted"} /\ copies[s][n] > 0
  /\ copies' = Less(copies, s, n)
  /\ IF console
     THEN /\ writing' = [writing EXCEPT ![n] = @ + 1]
          /\ UNCHANGED <<upstream, outcomes>>
     ELSE /\ Report(n, "skipped")
          /\ UNCHANGED writing
  /\ UNCHANGED <<gateway, far, wsClient, snapshot, console, changes, record, link,
                 missed>>
receiveDelivery_ackFirst(s, n) ==
  /\ far[s] \in {"open", "greeted"} /\ copies[s][n] > 0
  /\ copies' = Less(copies, s, n)
  /\ writing' = IF console THEN [writing EXCEPT ![n] = @ + 1] ELSE writing
  /\ upstream' = Sent(wsClient, Update(n, "delivered"))
  /\ UNCHANGED <<gateway, far, wsClient, snapshot, console, changes, record, link,
                 missed, outcomes>>
receiveDelivery(s, n) ==
  /\ far[s] \in {"open", "greeted"} /\ copies[s][n] > 0
  /\ copies' = Less(copies, s, n)
  /\ IF console
     THEN /\ writing' = [writing EXCEPT ![n] = @ + 1]
          /\ UNCHANGED <<upstream, outcomes>>
     ELSE /\ Report(n, "delivered")
          /\ UNCHANGED writing
  /\ UNCHANGED <<gateway, far, wsClient, snapshot, console, changes, record, link,
                 missed>>

\* The record is replaced whole: a record that was read is new again.
materialize(n) ==
  /\ writing[n] > 0
  /\ writing' = [writing EXCEPT ![n] = @ - 1]
  /\ record' = [record EXCEPT ![n] = "new"]
  /\ Report(n, "delivered")
  /\ UNCHANGED <<gateway, far, wsClient, snapshot, console, changes, link, copies,
                 missed>>

materializeFails(n) ==
  /\ writing[n] > 0
  /\ writing' = [writing EXCEPT ![n] = @ - 1]
  /\ Report(n, "failed")
  /\ UNCHANGED <<gateway, far, wsClient, snapshot, console, changes, record, link,
                 copies, missed>>

markXchangeRecordRead(n) ==
  /\ record[n] = "new"
  /\ record' = [record EXCEPT ![n] = "read"]
  /\ UNCHANGED <<gateway, far, wsClient, snapshot, console, changes, writing,
                 transport, outcomes, missed>>

-----------------------------------------------------------------------------
Handlers(n) ==
  \/ notifyDeliveryQueued(n)
  \/ \E o \in Outcomes : settle(n, o) \/ settleFails(n, o)
  \/ \E s \in Sockets : receiveDelivery(s, n)
  \/ materialize(n) \/ materializeFails(n)

Connection(s) ==
  \/ startGatewayWsClient(s) \/ connects(s) \/ sendClientHello(s) \/ clientCloses(s)
  \/ receiveHello(s) \/ receiveUpdate(s) \/ pollDeliveries(s) \/ helloFails(s)

Environment ==
  \/ \E n \in Notes : sendPartnerNoteRecord(n) \/ markXchangeRecordRead(n)
  \/ \E s \in Sockets : gatewayCloses(s) \/ connectionLost(s) \/ clientRestarts(s)
  \/ gatewayRestarts
  \/ consoleChanges

Next ==
  \/ Environment
  \/ \E n \in Notes : Handlers(n)
  \/ \E s \in Sockets : Connection(s)
  \/ refreshClientHello

Spec == Init /\ [][Next]_vars

(* Handlers and timers run; connections need not break and, as the gateway   *)
(* sends no heartbeat of its own, it need not notice when they do.           *)
Fairness ==
  /\ \A n \in Notes : WF_vars(Handlers(n))
  /\ \A s \in Sockets : WF_vars(Connection(s))
  /\ WF_vars(refreshClientHello)

FairSpec == Spec /\ Fairness

-----------------------------------------------------------------------------
(* Properties.                                                              *)

(* The gateway's row follows what became of a copy on the client, over any   *)
(* loss, duplicate, restart or late report: Deliveries implements the        *)
(* contract.                                                                 *)
Contract == INSTANCE DeliveryContract WITH Notes <- Notes,
                                          status <- status, outcomes <- outcomes
KeepsContract == Contract!Spec

(* The client is connected, its hello has been answered and lists the target *)
(* console.                                                                  *)
Ready(s) ==
  /\ wsClient = s /\ far[s] = "greeted" /\ link[s] = "up" /\ near[s] = "open"
  /\ registered[s] = "console" /\ greeting[s] = 0
  /\ \A i \in DOMAIN upstream[s] : upstream[s][i].type # "hello"

UpdateOnItsWay(s, n) ==
  \E i \in DOMAIN upstream[s] : upstream[s][i].type = "update" /\ upstream[s][i].note = n

UnderWay(s, n) ==
  \/ pending[n] > 0 \/ copies[s][n] > 0 \/ writing[n] > 0
  \/ UpdateOnItsWay(s, n) \/ \E o \in Outcomes : updating[n][o] > 0

(* No note slips between its announcement and the poll of a hello, whichever *)
(* comes first: a queued note of a connected client is on its way there or   *)
(* back, unless an error, the poll's limit or a dead socket hid it.          *)
NothingForgotten ==
  \A s \in Sockets, n \in Notes :
    Ready(s) /\ status[n] = "queued" => n \in missed \/ UnderWay(s, n)

(* Through every reconnect a queued note is settled in the end, while the    *)
(* console stays listed and nothing hid the note.                            *)
QueuedIsSettled ==
  \A n \in Notes :
    status[n] = "queued" ~>
      \/ status[n] \in Outcomes \/ n \in missed
      \/ wsClient # NoSocket /\ registered[wsClient] = "bare"
=============================================================================
