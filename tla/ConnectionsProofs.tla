--------------------------- MODULE ConnectionsProofs ---------------------------
(***************************************************************************)
(* The browser extension's connection, for every number of sockets and of  *)
(* overlapping connects, and the types of both components that keep a      *)
(* connection up.                                                          *)
(***************************************************************************)
EXTENDS DeliveriesProofs, MCConnections

-----------------------------------------------------------------------------
(* The instance that the tools find.                                        *)

\* What the listing rests on: an entry is of a greeted socket, a greeted socket
\* is at the server.
ListingKept ==
  /\ socketsByInstanceId # NoAttachSocket => socketsByInstanceId \in greeted
  /\ listed <=> socketsByInstanceId # NoAttachSocket
  /\ newest # NoAttachSocket => newest = socketsByInstanceId
  /\ greeted \subseteq {s \in AttachSockets : peer[s] # "none"}
  /\ peer \in [AttachSockets -> {"none", "open", "closing"}]

LEMMA ListingStart == BrowserAttachInit => ListingKept
  BY DEF BrowserAttachInit, ListingKept

LEMMA ListingSame ==
  ASSUME ListingKept, UNCHANGED <<peer, greeted, socketsByInstanceId, listed, newest>>
  PROVE  ListingKept'
  BY DEF ListingKept

LEMMA ServerListing ==
  ASSUME ListingKept, NEW s \in AttachSockets,
         socketOpens(s) \/ handleInstanceHello(s) \/ reapStaleSockets(s) \/ socketClosed(s)
  PROVE  ListingKept'
<1>0. NoAttachSocket \notin AttachSockets
  BY BrowserAttachAssumption
<1>1. CASE socketOpens(s)
  BY <1>0, <1>1 DEF socketOpens, extension, ListingKept
<1>2. CASE handleInstanceHello(s)
  BY <1>0, <1>2 DEF handleInstanceHello, extension, ListingKept
<1>3. CASE reapStaleSockets(s)
  BY <1>0, <1>3 DEF reapStaleSockets, extension, ListingKept
<1>4. CASE socketClosed(s)
  BY <1>0, <1>4 DEF socketClosed, extension, ListingKept
<1> QED
  BY <1>1, <1>2, <1>3, <1>4

LEMMA ListingStep == ListingKept /\ [BrowserAttachNext]_attachVars => ListingKept'
<1> SUFFICES ASSUME ListingKept, [BrowserAttachNext]_attachVars PROVE ListingKept'
  OBVIOUS
<1>1. ASSUME NEW k \in Connects, ConnectSteps(k) \/ badSettings(k) PROVE ListingKept'
  BY <1>1, ListingSame DEF ConnectSteps, connect, opensSocket, badSettings, server
<1>2. ASSUME NEW s \in AttachSockets, SocketSteps(s) \/ linkBreaks(s) PROVE ListingKept'
  <2>1. CASE socketRefused(s) \/ socketEnds(s) \/ closeEvent(s) \/ linkBreaks(s)
    BY <2>1, ListingSame DEF socketRefused, socketEnds, closeEvent, linkBreaks, server
  <2> QED
    BY <1>2, <2>1, ServerListing DEF SocketSteps
<1>3. CASE reconnectFires \/ keepaliveAlarm \/ toggle \/ settingsChanged \/ workerRestarts
  BY <1>3, ListingSame
     DEF reconnectFires, keepaliveAlarm, toggle, settingsChanged, workerRestarts, server
<1>4. CASE stop
  BY <1>4 DEF stop, ListingKept
<1>5. CASE start \/ UNCHANGED attachVars
  BY <1>5, ListingSame DEF start, attachVars
<1> QED
  BY <1>1, <1>2, <1>3, <1>4, <1>5 DEF BrowserAttachNext

\* The socket whose hello was handled last is the one the tools find until it
\* closes itself, for any number of sockets that overlap and of restarts
\* (browserAttachServer.ts:192-206, 598).
THEOREM NewestStaysListed == BrowserAttachSpec => []NewestIsListed
<1>1. ListingKept => NewestIsListed
  BY BrowserAttachAssumption DEF ListingKept, NewestIsListed
<1> QED
  BY <1>1, ListingStart, ListingStep, PTL DEF BrowserAttachSpec

-----------------------------------------------------------------------------
(* The types of the extension's connection.                                 *)

Opening == {x \in AttachSockets : readyState[x] = "connecting"}

\* Each socket that opens says one hello over the extension's current socket,
\* and no socket is born while another stays the current one.
HellosBounded ==
  socket \in AttachSockets => hellos[socket] + Cardinality(Opening) <= Cardinality(AttachSockets)

LEMMA OpeningCounted ==
  /\ IsFiniteSet(Opening) /\ Cardinality(Opening) \in Nat
  /\ Cardinality(AttachSockets) \in Nat
  /\ Cardinality(Opening) <= Cardinality(AttachSockets)
<1>1. Opening \subseteq AttachSockets
  BY DEF Opening
<1> QED
  BY <1>1, BrowserAttachAssumption, FS_Subset, FS_CardinalityType

LEMMA FewerOpening ==
  ASSUME Opening' \subseteq Opening
  PROVE  Cardinality(Opening') \in Nat /\ Cardinality(Opening') <= Cardinality(Opening)
  BY OpeningCounted, FS_Subset, FS_CardinalityType

LEMMA OneOpens ==
  ASSUME NEW s \in Opening, Opening' = Opening \ {s}
  PROVE  Cardinality(Opening') = Cardinality(Opening) - 1
  BY OpeningCounted, FS_RemoveElement

Bounded == BrowserAttachTypeOK /\ HellosBounded

LEMMA OneTyped ==
  \A k \in Connects : OneConnects(k) \in [Connects -> {"idle", "settings", "status"}]
  BY DEF OneConnects

LEMMA BoundedStart == BrowserAttachInit => Bounded
<1> SUFFICES ASSUME BrowserAttachInit PROVE Bounded
  OBVIOUS
<1>1. connecting \in [Connects -> {"idle", "settings", "status"}]
  BY OneTyped DEF BrowserAttachInit
<1>2. hellos \in [AttachSockets -> 0..Cardinality(AttachSockets)]
  BY OpeningCounted DEF BrowserAttachInit
<1>3. HellosBounded
  BY BrowserAttachAssumption DEF BrowserAttachInit, HellosBounded
<1>4. /\ readyState \in [AttachSockets -> {"none", "connecting", "open", "closing"}]
      /\ network \in [AttachSockets -> {"up", "dead"}]
      /\ peer \in [AttachSockets -> {"none", "open", "closing"}]
  BY DEF BrowserAttachInit
<1>5. /\ socket = NoAttachSocket /\ socketsByInstanceId = NoAttachSocket
      /\ newest = NoAttachSocket /\ greeted = {}
      /\ enabled \in BOOLEAN /\ listening \in BOOLEAN /\ manualDisconnect = FALSE
      /\ attachTimer = FALSE /\ listed = FALSE
  BY DEF BrowserAttachInit
<1>6. toggles \in 0..MaxToggles /\ faults \in 0..MaxFaults
  BY BrowserAttachAssumption DEF BrowserAttachInit
<1> QED
  BY <1>1, <1>2, <1>3, <1>4, <1>5, <1>6 DEF Bounded, BrowserAttachTypeOK

\* A step that says no hello and starts no socket.
LEMMA NoHello ==
  ASSUME Bounded, BrowserAttachTypeOK', UNCHANGED hellos, Opening' \subseteq Opening,
         socket' \in {socket, NoAttachSocket}
  PROVE  HellosBounded'
<1>1. ASSUME socket \in AttachSockets
      PROVE  hellos[socket] + Cardinality(Opening') <= Cardinality(AttachSockets)
  <2>1. hellos[socket] \in Nat
    BY <1>1, OpeningCounted DEF Bounded, BrowserAttachTypeOK
  <2> QED
    BY <1>1, <2>1, FewerOpening, OpeningCounted DEF Bounded, HellosBounded
<1>2. socket' \in AttachSockets => socket' = socket
  BY BrowserAttachAssumption
<1> QED
  BY <1>1, <1>2 DEF HellosBounded

LEMMA ExtensionBounded ==
  ASSUME Bounded,
         \/ \E k \in Connects : connect(k) \/ badSettings(k)
         \/ reconnectFires \/ keepaliveAlarm \/ toggle \/ settingsChanged \/ workerRestarts
         \/ \E s \in AttachSockets : socketRefused(s) \/ socketEnds(s) \/ closeEvent(s)
  PROVE  Bounded'
<1> USE DEF Bounded
<1>1. UNCHANGED hellos
  BY DEF connect, badSettings, reconnectFires, keepaliveAlarm, toggle, settingsChanged,
         workerRestarts, socketRefused, socketEnds, closeEvent
<1>2. socket' \in {socket, NoAttachSocket}
  BY DEF connect, badSettings, reconnectFires, keepaliveAlarm, toggle, settingsChanged,
         workerRestarts, socketRefused, socketEnds, closeEvent, extension
<1>3. BrowserAttachTypeOK'
  <2>1. ASSUME NEW k \in Connects, connect(k) PROVE BrowserAttachTypeOK'
    BY <2>1 DEF connect, BrowserAttachTypeOK, server, attachBounds
  <2>2. ASSUME NEW k \in Connects, badSettings(k) PROVE BrowserAttachTypeOK'
    BY <2>2, BrowserAttachAssumption
       DEF badSettings, BrowserAttachTypeOK, server, scheduleReconnect
  <2>3. CASE reconnectFires
    BY <2>3 DEF reconnectFires, BrowserAttachTypeOK, server, attachBounds, BeginsConnect
  <2>4. CASE keepaliveAlarm
    BY <2>4, BrowserAttachAssumption
       DEF keepaliveAlarm, BrowserAttachTypeOK, server, BeginsConnect
  <2>5. CASE toggle
    BY <2>5, BrowserAttachAssumption
       DEF toggle, BrowserAttachTypeOK, server, BeginsConnect, Closed
  <2>6. CASE settingsChanged
    BY <2>6, BrowserAttachAssumption
       DEF settingsChanged, BrowserAttachTypeOK, server, BeginsConnect, Closed
  <2>7. CASE workerRestarts
    <3>1. connecting' \in [Connects -> {"idle", "settings", "status"}]
      BY <2>7, OneTyped DEF workerRestarts
    <3>2. faults' \in 0..MaxFaults
      BY <2>7, BrowserAttachAssumption DEF workerRestarts, BrowserAttachTypeOK
    <3> QED
      BY <2>7, <3>1, <3>2 DEF workerRestarts, BrowserAttachTypeOK, server
  <2>8. ASSUME NEW s \in AttachSockets, socketRefused(s) \/ socketEnds(s) \/ closeEvent(s)
        PROVE  BrowserAttachTypeOK'
    BY <2>8 DEF socketRefused, socketEnds, closeEvent, BrowserAttachTypeOK, server,
                attachBounds, extension, Closed, scheduleReconnect
  <2> QED
    BY <2>1, <2>2, <2>3, <2>4, <2>5, <2>6, <2>7, <2>8
<1>4. Opening' \subseteq Opening
  BY DEF Opening, connect, badSettings, reconnectFires, keepaliveAlarm, toggle,
         settingsChanged, workerRestarts, socketRefused, socketEnds, closeEvent, Closed,
         BrowserAttachTypeOK
<1> QED
  BY <1>1, <1>2, <1>3, <1>4, NoHello

LEMMA OpensBounded ==
  ASSUME Bounded, NEW k \in Connects, NEW s \in AttachSockets, opensSocket(k, s)
  PROVE  Bounded'
<1>1. BrowserAttachTypeOK'
  BY OpeningCounted DEF Bounded, opensSocket, BrowserAttachTypeOK, server, attachBounds, Free
<1>2. socket' = s /\ hellos'[s] = 0
  BY DEF Bounded, opensSocket, BrowserAttachTypeOK
<1>3. Opening' \subseteq AttachSockets
  BY DEF Opening
<1>4. Cardinality(Opening') \in Nat /\ Cardinality(Opening') <= Cardinality(AttachSockets)
  BY <1>3, BrowserAttachAssumption, FS_Subset, FS_CardinalityType
<1> QED
  BY <1>1, <1>2, <1>4, OpeningCounted DEF Bounded, HellosBounded

LEMMA SocketOpensBounded ==
  ASSUME Bounded, NEW s \in AttachSockets, socketOpens(s)
  PROVE  Bounded'
<1> DEFINE N == Cardinality(AttachSockets)
<1>1. s \in Opening /\ Opening' = Opening \ {s}
  BY DEF Bounded, BrowserAttachTypeOK, socketOpens, Opening
<1>2. Cardinality(Opening') = Cardinality(Opening) - 1
  BY <1>1, OneOpens
<1>3. UNCHANGED socket
  BY DEF socketOpens, extension
<1>4. /\ hellos \in [AttachSockets -> 0..N] /\ N \in Nat /\ Cardinality(Opening) \in Nat
      /\ socket \in AttachSockets => hellos[socket] + Cardinality(Opening) <= N
  BY OpeningCounted DEF Bounded, BrowserAttachTypeOK, HellosBounded
<1>5. Cardinality(Opening) >= 1
  BY <1>2, <1>4, FewerOpening, <1>1
<1>6. \/ hellos' = hellos
      \/ socket \in AttachSockets /\ hellos' = [hellos EXCEPT ![socket] = @ + 1]
  BY DEF socketOpens, Bounded, BrowserAttachTypeOK
<1> HIDE DEF N
<1>7. /\ hellos' \in [AttachSockets -> 0..N]
      /\ socket \in AttachSockets => hellos'[socket] + Cardinality(Opening') <= N
  BY <1>2, <1>4, <1>5, <1>6
<1>8. BrowserAttachTypeOK'
  <2>1. hellos' \in [AttachSockets -> 0..Cardinality(AttachSockets)]
    BY <1>7 DEF N
  <2> QED
    BY <2>1 DEF Bounded, socketOpens, BrowserAttachTypeOK, extension, attachBounds
<1> QED
  BY <1>3, <1>7, <1>8 DEF Bounded, HellosBounded, N

LEMMA ServerBounded ==
  ASSUME Bounded,
         \/ \E s \in AttachSockets : reapStaleSockets(s) \/ socketClosed(s) \/ linkBreaks(s)
         \/ stop \/ start
  PROVE  Bounded'
<1> USE DEF Bounded
<1>1. UNCHANGED <<hellos, socket, readyState>>
  BY DEF reapStaleSockets, socketClosed, linkBreaks, stop, start, extension
<1>2. BrowserAttachTypeOK'
  <2>1. ASSUME NEW s \in AttachSockets, reapStaleSockets(s) \/ socketClosed(s)
        PROVE  BrowserAttachTypeOK'
    BY <2>1 DEF reapStaleSockets, socketClosed, BrowserAttachTypeOK, extension, attachBounds
  <2>2. ASSUME stop \/ \E s \in AttachSockets : linkBreaks(s) PROVE faults' \in 0..MaxFaults
    BY <2>2, BrowserAttachAssumption DEF stop, linkBreaks, BrowserAttachTypeOK
  <2>3. CASE stop
    BY <2>2, <2>3 DEF stop, BrowserAttachTypeOK, extension
  <2>4. ASSUME NEW s \in AttachSockets, linkBreaks(s) PROVE BrowserAttachTypeOK'
    BY <2>2, <2>4 DEF linkBreaks, BrowserAttachTypeOK, extension, server
  <2>5. CASE start
    BY <2>5 DEF start, BrowserAttachTypeOK, extension, attachBounds
  <2> QED
    BY <2>1, <2>3, <2>4, <2>5
<1>3. Opening' \subseteq Opening
  BY <1>1 DEF Opening
<1> QED
  BY <1>1, <1>2, <1>3, NoHello

LEMMA HelloBounded ==
  ASSUME Bounded, NEW s \in AttachSockets, handleInstanceHello(s)
  PROVE  Bounded'
<1> DEFINE N == Cardinality(AttachSockets)
<1>1. UNCHANGED <<readyState, socket>>
  BY DEF handleInstanceHello, extension
<1>2. Opening' = Opening
  BY <1>1 DEF Opening
<1>3. /\ hellos \in [AttachSockets -> 0..N] /\ N \in Nat /\ Cardinality(Opening) \in Nat
      /\ socket \in AttachSockets => hellos[socket] + Cardinality(Opening) <= N
  BY OpeningCounted DEF Bounded, BrowserAttachTypeOK, HellosBounded
<1>4. hellos[s] > 0 /\ hellos' = [hellos EXCEPT ![s] = @ - 1]
  BY DEF handleInstanceHello
<1> HIDE DEF N
<1>5. /\ hellos' \in [AttachSockets -> 0..N]
      /\ socket \in AttachSockets => hellos'[socket] + Cardinality(Opening) <= N
  BY <1>3, <1>4
<1>6. BrowserAttachTypeOK'
  <2>1. hellos' \in [AttachSockets -> 0..Cardinality(AttachSockets)]
    BY <1>5 DEF N
  <2> QED
    BY <2>1 DEF Bounded, handleInstanceHello, BrowserAttachTypeOK, extension, attachBounds
<1> QED
  BY <1>1, <1>2, <1>5, <1>6 DEF Bounded, HellosBounded, N

LEMMA BoundedStep == Bounded /\ [BrowserAttachNext]_attachVars => Bounded'
<1> SUFFICES ASSUME Bounded, [BrowserAttachNext]_attachVars PROVE Bounded'
  OBVIOUS
<1>1. CASE UNCHANGED attachVars
  BY <1>1 DEF attachVars, Bounded, BrowserAttachTypeOK, HellosBounded, Opening
<1> QED
  BY <1>1, ExtensionBounded, OpensBounded, SocketOpensBounded, ServerBounded, HelloBounded
     DEF BrowserAttachNext, ConnectSteps, SocketSteps

-----------------------------------------------------------------------------
(* The run of both components.                                              *)

\* What each component's own specification lets its state do.
LEMMA ConnectionsParts ==
  /\ ConnectionsInit => Init /\ BrowserAttachInit
  /\ [ConnectionsNext]_serviceVars => [Next]_vars /\ [BrowserAttachNext]_attachVars
  BY DEF ConnectionsInit, ConnectionsNext, serviceVars, InNotes, InAttach

\* Both components keep their types: no counter leaves its bound, and the hellos
\* of one socket are no more than there are sockets.
THEOREM ConnectionTypes == ConnectionsSpec => []ConnectionsTypeOK
<1>1. Bounded => BrowserAttachTypeOK
  BY DEF Bounded
<1> QED
  BY <1>1, TypesStart, TypesStep, BoundedStart, BoundedStep, ConnectionsParts, PTL
     DEF ConnectionsSpec, ConnectionsTypeOK
=============================================================================
