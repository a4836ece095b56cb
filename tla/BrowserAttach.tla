----------------------------- MODULE BrowserAttach -----------------------------
(***************************************************************************)
(* The connection of one browser extension to the BrowserAttachServer of a *)
(* console.  The extension keeps one variable for its socket, a reconnect  *)
(* timer and an alarm; connect() awaits twice before it opens a socket, so *)
(* calls of it overlap.  The server keeps the socket of each instance and  *)
(* the registry entry that the browser tools look up.  A closed socket's   *)
(* name is used again.                                                     *)
(***************************************************************************)
EXTENDS Naturals, FiniteSets

CONSTANTS AttachSockets, \* sockets between the two
          Connects,    \* calls of connect() that overlap
          MaxToggles,  \* bound on uses of the panel's switch
          MaxFaults,   \* bound on broken links, restarts, bad settings and coincidences
          NoAttachSocket

ASSUME BrowserAttachAssumption ==
  /\ IsFiniteSet(AttachSockets) /\ NoAttachSocket \notin AttachSockets
  /\ MaxToggles \in Nat /\ MaxFaults \in Nat

VARIABLES
  enabled,           \* attach_connection_enabled in the extension's storage
  manualDisconnect,
  socket,            \* the extension's one socket variable
  readyState,        \* of each socket, in the extension
  attachTimer,       \* reconnectTimer
  connecting,        \* calls of connect(): what each awaits
  network,           \* the network between the two ends
  hellos,            \* hello messages on their way
  peer,              \* a socket at the server
  greeted,           \* sockets whose instanceId is set
  socketsByInstanceId,
  listed,            \* the instance is in the registry
  listening,         \* the server is running
  newest,            \* history: the socket whose hello was handled last
  toggles, faults

attachVars == <<enabled, manualDisconnect, socket, readyState, attachTimer, connecting, network,
                hellos, peer, greeted, socketsByInstanceId, listed, listening, newest,
                toggles, faults>>
extension == <<enabled, manualDisconnect, socket, attachTimer, connecting>>
server == <<peer, greeted, socketsByInstanceId, listed, listening, newest>>
attachBounds == <<toggles, faults>>

BrowserAttachTypeOK ==
  /\ enabled \in BOOLEAN /\ manualDisconnect \in BOOLEAN /\ attachTimer \in BOOLEAN
  /\ socket \in AttachSockets \cup {NoAttachSocket}
  /\ readyState \in [AttachSockets -> {"none", "connecting", "open", "closing"}]
  /\ connecting \in [Connects -> {"idle", "settings", "status"}]
  /\ network \in [AttachSockets -> {"up", "dead"}]
  /\ hellos \in [AttachSockets -> 0..Cardinality(AttachSockets)]
  /\ peer \in [AttachSockets -> {"none", "open", "closing"}]
  /\ greeted \subseteq AttachSockets
  /\ socketsByInstanceId \in AttachSockets \cup {NoAttachSocket}
  /\ newest \in AttachSockets \cup {NoAttachSocket}
  /\ listed \in BOOLEAN /\ listening \in BOOLEAN
  /\ toggles \in 0..MaxToggles /\ faults \in 0..MaxFaults

OneConnects(k) == [c \in Connects |-> IF c = k THEN "settings" ELSE "idle"]

BrowserAttachInit ==
  /\ enabled \in BOOLEAN /\ manualDisconnect = FALSE
  /\ socket = NoAttachSocket /\ readyState = [s \in AttachSockets |-> "none"]
  /\ attachTimer = FALSE
  /\ \E k \in Connects : connecting = OneConnects(k)
  /\ network = [s \in AttachSockets |-> "up"] /\ hellos = [s \in AttachSockets |-> 0]
  /\ peer = [s \in AttachSockets |-> "none"] /\ greeted = {}
  /\ socketsByInstanceId = NoAttachSocket /\ listed = FALSE
  /\ listening \in BOOLEAN
  /\ newest = NoAttachSocket
  /\ toggles = 0 /\ faults = 0

-----------------------------------------------------------------------------
(* The extension.                                                           *)

isSocketOpenOrConnecting ==
  socket # NoAttachSocket /\ readyState[socket] \in {"open", "connecting"}
Free(s) == readyState[s] = "none" /\ peer[s] = "none"

\* socket.close(): its close event comes later.
Closed(s) == [readyState EXCEPT ![s] = IF @ = "none" THEN @ ELSE "closing"]

\* A call of connect(), which asks for the settings first.
BeginsConnect ==
  \E k \in Connects :
    connecting[k] = "idle" /\ connecting' = [connecting EXCEPT ![k] = "settings"]

\* Storage answers in order, so that what it read is what the listeners know.
\* The timers are cleared before the status is awaited.
connect(k) ==
  /\ connecting[k] = "settings"
  /\ manualDisconnect' = ~enabled
  /\ IF enabled /\ isSocketOpenOrConnecting
     THEN connecting' = [connecting EXCEPT ![k] = "idle"] /\ UNCHANGED attachTimer
     ELSE /\ connecting' = [connecting EXCEPT ![k] = IF enabled THEN "status" ELSE "idle"]
          /\ attachTimer' = FALSE
  /\ UNCHANGED <<enabled, socket, readyState, network, hellos, server, attachBounds>>

\* Whatever the socket variable holds by now.
opensSocket(k, s) ==
  /\ connecting[k] = "status"
  /\ connecting' = [connecting EXCEPT ![k] = "idle"]
  /\ Free(s)
  /\ socket' = s
  /\ readyState' = [readyState EXCEPT ![s] = "connecting"]
  /\ network' = [network EXCEPT ![s] = "up"] /\ hellos' = [hellos EXCEPT ![s] = 0]
  /\ UNCHANGED <<enabled, manualDisconnect, attachTimer, server, attachBounds>>

scheduleReconnect == attachTimer' = (attachTimer \/ ~manualDisconnect)

\* Host and port make no URL; the user corrects them.
badSettings(k) ==
  /\ connecting[k] = "status" /\ faults < MaxFaults
  /\ faults' = faults + 1
  /\ connecting' = [connecting EXCEPT ![k] = "idle"]
  /\ socket' = NoAttachSocket
  /\ scheduleReconnect
  /\ UNCHANGED <<enabled, manualDisconnect, readyState, network, hellos, server, toggles>>

\* What connect() awaits, and a local server's answer to it, do not outlast the
\* three seconds of the timer.
NoneConnects ==
  /\ \A k \in Connects : connecting[k] = "idle"
  /\ \A s \in AttachSockets : readyState[s] # "connecting"

reconnectFires ==
  /\ attachTimer /\ NoneConnects
  /\ attachTimer' = FALSE
  /\ BeginsConnect
  /\ UNCHANGED <<enabled, manualDisconnect, socket, readyState, network, hellos, server,
                 attachBounds>>

\* The alarm has its own half minute, and seldom meets a call under way.
keepaliveAlarm ==
  /\ ~manualDisconnect /\ ~isSocketOpenOrConnecting
  /\ \/ NoneConnects /\ UNCHANGED faults
     \/ ~NoneConnects /\ faults < MaxFaults /\ faults' = faults + 1
  /\ BeginsConnect
  /\ UNCHANGED <<enabled, manualDisconnect, socket, readyState, attachTimer, network, hellos,
                 server, toggles>>

\* The listener says hello over what the socket variable holds.
socketOpens(s) ==
  /\ readyState[s] = "connecting" /\ listening
  /\ readyState' = [readyState EXCEPT ![s] = "open"]
  /\ hellos' = IF socket # NoAttachSocket /\ readyState'[socket] = "open"
               THEN [hellos EXCEPT ![socket] = @ + 1] ELSE hellos
  /\ peer' = [peer EXCEPT ![s] = "open"]
  /\ UNCHANGED <<extension, network, greeted, socketsByInstanceId, listed, listening, newest,
                 attachBounds>>

\* The error event closes what the socket variable holds.
socketRefused(s) ==
  /\ readyState[s] = "connecting" /\ ~listening
  /\ readyState' = IF socket = NoAttachSocket THEN [readyState EXCEPT ![s] = "closing"]
                   ELSE [Closed(socket) EXCEPT ![s] = "closing"]
  /\ UNCHANGED <<extension, network, hellos, server, attachBounds>>

\* The other end has closed it, or has not answered for long.
socketEnds(s) ==
  /\ readyState[s] = "open" /\ (peer[s] # "open" \/ network[s] = "dead")
  /\ readyState' = [readyState EXCEPT ![s] = "closing"]
  /\ UNCHANGED <<extension, network, hellos, server, attachBounds>>

\* The close event, whichever socket the variable holds.
closeEvent(s) ==
  /\ readyState[s] = "closing"
  /\ readyState' = [readyState EXCEPT ![s] = "none"]
  /\ socket' = NoAttachSocket
  /\ scheduleReconnect
  /\ UNCHANGED <<enabled, manualDisconnect, connecting, network, hellos, server, attachBounds>>

\* storage.onChanged for the switch of the panel.
toggle ==
  /\ toggles < MaxToggles
  /\ toggles' = toggles + 1
  /\ enabled' = ~enabled
  /\ manualDisconnect' = enabled
  /\ attachTimer' = (~enabled /\ attachTimer)
  /\ IF socket # NoAttachSocket THEN readyState' = Closed(socket) /\ UNCHANGED connecting
     ELSE IF enabled THEN UNCHANGED <<readyState, connecting>>
     ELSE BeginsConnect /\ UNCHANGED readyState
  /\ UNCHANGED <<socket, network, hellos, server, faults>>

\* Another host or port, or the same ones saved again.
settingsChanged ==
  /\ toggles < MaxToggles
  /\ toggles' = toggles + 1
  /\ IF socket # NoAttachSocket THEN readyState' = Closed(socket) /\ UNCHANGED connecting
     ELSE IF manualDisconnect THEN UNCHANGED <<readyState, connecting>>
     ELSE BeginsConnect /\ UNCHANGED readyState
  /\ UNCHANGED <<enabled, manualDisconnect, socket, attachTimer, network, hellos,
                 server, faults>>

\* The browser ends the service worker; its script runs anew at the next alarm.
workerRestarts ==
  /\ faults < MaxFaults
  /\ faults' = faults + 1
  /\ manualDisconnect' = FALSE /\ socket' = NoAttachSocket /\ attachTimer' = FALSE
  /\ readyState' = [s \in AttachSockets |-> "none"]
  /\ \E k \in Connects : connecting' = OneConnects(k)
  /\ UNCHANGED <<enabled, network, hellos, server, toggles>>

-----------------------------------------------------------------------------
(* The server.                                                              *)

\* The newer connection of an instance replaces the older.
handleInstanceHello(s) ==
  /\ peer[s] = "open" /\ network[s] = "up" /\ hellos[s] > 0
  /\ hellos' = [hellos EXCEPT ![s] = @ - 1]
  /\ IF s \in greeted
     THEN /\ peer' = [peer EXCEPT ![s] = "closing"]
          /\ UNCHANGED <<greeted, socketsByInstanceId, listed, newest>>
     ELSE /\ peer' = [x \in AttachSockets |->
                       IF x = socketsByInstanceId THEN "closing" ELSE peer[x]]
          /\ greeted' = greeted \cup {s}
          /\ socketsByInstanceId' = s /\ listed' = TRUE
          /\ newest' = s
  /\ UNCHANGED <<extension, readyState, network, listening, attachBounds>>

\* A socket over which nothing comes: the heartbeats use the socket variable.
\* 45 seconds outlast the 3 of the reconnect timer and all that is under way.
Quiet ==
  /\ ~attachTimer /\ NoneConnects
  /\ \A s \in AttachSockets : readyState[s] # "closing" /\ (network[s] = "up" => hellos[s] = 0)

reapStaleSockets(s) ==
  /\ peer[s] = "open" /\ Quiet
  /\ network[s] = "dead" \/ socket # s \/ readyState[s] # "open"
  /\ peer' = [peer EXCEPT ![s] = "closing"]
  /\ UNCHANGED <<extension, readyState, network, hellos, greeted, socketsByInstanceId,
                 listed, listening, newest, attachBounds>>

\* The close handler removes the instance, whichever socket it has.
socketClosed_unconditional(s) ==
  /\ peer[s] # "none"
  /\ peer[s] = "closing" \/ readyState[s] \in {"none", "closing"}
  /\ peer' = [peer EXCEPT ![s] = "none"]
  /\ greeted' = greeted \ {s}
  /\ newest' = IF newest = s THEN NoAttachSocket ELSE newest
  /\ IF s \in greeted
     THEN socketsByInstanceId' = NoAttachSocket /\ listed' = FALSE
     ELSE UNCHANGED <<socketsByInstanceId, listed>>
  /\ UNCHANGED <<extension, readyState, network, hellos, listening, attachBounds>>

\* The close handler removes only what is its own.
socketClosed(s) ==
  /\ peer[s] # "none"
  /\ peer[s] = "closing" \/ readyState[s] \in {"none", "closing"}
  /\ peer' = [peer EXCEPT ![s] = "none"]
  /\ greeted' = greeted \ {s}
  /\ newest' = IF newest = s THEN NoAttachSocket ELSE newest
  /\ IF s \in greeted /\ socketsByInstanceId = s
     THEN socketsByInstanceId' = NoAttachSocket /\ listed' = FALSE
     ELSE UNCHANGED <<socketsByInstanceId, listed>>
  /\ UNCHANGED <<extension, readyState, network, hellos, listening, attachBounds>>

linkBreaks(s) ==
  /\ faults < MaxFaults /\ network[s] = "up" /\ readyState[s] = "open"
  /\ faults' = faults + 1
  /\ network' = [network EXCEPT ![s] = "dead"]
  /\ UNCHANGED <<extension, readyState, hellos, server, toggles>>

stop ==
  /\ listening /\ faults < MaxFaults
  /\ faults' = faults + 1
  /\ listening' = FALSE
  /\ peer' = [s \in AttachSockets |-> "none"] /\ greeted' = {}
  /\ socketsByInstanceId' = NoAttachSocket /\ listed' = FALSE /\ newest' = NoAttachSocket
  /\ UNCHANGED <<extension, readyState, network, hellos, toggles>>

start ==
  /\ ~listening
  /\ listening' = TRUE
  /\ UNCHANGED <<extension, readyState, network, hellos, peer, greeted, socketsByInstanceId,
                 listed, newest, attachBounds>>

-----------------------------------------------------------------------------
ConnectSteps(k) == connect(k) \/ \E s \in AttachSockets : opensSocket(k, s)
SocketSteps(s) ==
  \/ socketOpens(s) \/ socketRefused(s) \/ socketEnds(s) \/ closeEvent(s)
  \/ handleInstanceHello(s) \/ reapStaleSockets(s) \/ socketClosed(s)
TimerSteps == reconnectFires \/ (NoneConnects /\ keepaliveAlarm)

BrowserAttachNext ==
  \/ \E k \in Connects : ConnectSteps(k) \/ badSettings(k)
  \/ \E s \in AttachSockets : SocketSteps(s) \/ linkBreaks(s)
  \/ reconnectFires \/ keepaliveAlarm \/ toggle \/ settingsChanged \/ workerRestarts
  \/ stop \/ start

\* Timers and alarms fire, events are delivered, a stopped server comes back.
BrowserAttachSpec ==
  /\ BrowserAttachInit /\ [][BrowserAttachNext]_attachVars
  /\ \A k \in Connects : WF_attachVars(ConnectSteps(k))
  /\ \A s \in AttachSockets : WF_attachVars(SocketSteps(s))
  /\ WF_attachVars(TimerSteps) /\ WF_attachVars(start)

-----------------------------------------------------------------------------
(***************************************************************************)
(* Properties.                                                             *)
(***************************************************************************)

\* The socket whose hello was handled last is the one the tools find, until it
\* closes itself: neither the late close of the socket before it nor its own
\* replacement takes the instance away (browserAttachServer.ts:192-206, 598).
NewestIsListed ==
  /\ newest # NoAttachSocket => socketsByInstanceId = newest /\ listed
  /\ listed => socketsByInstanceId # NoAttachSocket /\ peer[socketsByInstanceId] # "none"

\* The tools find a socket of the instance that works.
Attached ==
  /\ listed /\ peer[socketsByInstanceId] = "open"
  /\ readyState[socketsByInstanceId] = "open" /\ network[socketsByInstanceId] = "up"

\* An enabled extension gets attached, over dead links, restarts of either
\* side, overlapping connects and forgotten sockets (background.js:875, 1788);
\* or forgotten sockets have used up the names that the instance has for them.
EnabledAttaches == enabled ~> (Attached \/ ~enabled \/ []~\E s \in AttachSockets : Free(s))
=============================================================================
