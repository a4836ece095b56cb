--------------------------- MODULE DeliveriesProofs ---------------------------
(***************************************************************************)
(* Deliveries implements DeliveryContract for every number of notes and    *)
(* connections, every poll limit, and any losses, duplicates and restarts. *)
(***************************************************************************)
EXTENDS Deliveries, TLAPS, WellFoundedInduction, FiniteSetTheorems

USE DEF gateway, client, transport

\* What every step of an implementation proof needs to know of the messages.
Uplinks == [Sockets -> Seq(Messages)]

\* Every report in the messages up follows an outcome in oc.
Faithful(up, oc) ==
  \A s \in Sockets : \A i \in DOMAIN up[s] :
    up[s][i].type = "update" => up[s][i].outcome \in oc[up[s][i].note]

-----------------------------------------------------------------------------
(* The socket a notification is sent to.                                    *)

\* A set of naturals has a least element.
Below == {ss \in Nat \X Nat : ss[1] < ss[2]}

LEMMA LeastNumber ==
  ASSUME NEW S, S \subseteq Nat, S # {}
  PROVE  \E t \in S : \A u \in S : t <= u
<1>1. OpToRel(<, Nat) = Below
  BY Zenon DEF OpToRel, Below
<1>2. IsWellFoundedOn(Below, Nat)
  BY <1>1, NatLessThanWellFounded, Zenon
<1>3. PICK t \in S : \A u \in S : ~(<<u, t>> \in Below)
  BY <1>2, WFMin, Zenon
<1>4. \A u \in S : ~(u < t)
  BY <1>3 DEF Below
<1> QED
  BY <1>4

\* The target socket is one that lists the console, if any does.
LEMMA TargetListed ==
  /\ TargetSocket \in Sockets \cup {NoSocket}
  /\ TargetSocket # NoSocket => near[TargetSocket] = "open"
  /\ \A s \in Sockets : registered[s] = "console" /\ near[s] = "open"
                          => TargetSocket # NoSocket
<1> DEFINE listing == {s \in Sockets : registered[s] = "console" /\ near[s] = "open"}
<1>1. CASE listing = {}
  BY <1>1 DEF TargetSocket
<1>2. CASE listing # {}
  <2>1. \E t \in listing : \A u \in listing : t <= u
    BY <1>2, ParameterAssumption, LeastNumber
  <2>2. TargetSocket \in listing
    BY <1>2, <2>1 DEF TargetSocket
  <2> QED
    BY <2>2, ParameterAssumption
<1> QED
  BY <1>1, <1>2

-----------------------------------------------------------------------------
(* Messages.                                                                *)

LEMMA MessageTypes ==
  /\ \A l \in {"bare", "console"} : Hello(l) \in Messages
  /\ \A n \in Notes, o \in Outcomes : Update(n, o) \in Messages
BY DEF Hello, Update, Messages

LEMMA SentTyped ==
  ASSUME TypeOK, NEW s \in Sockets \cup {NoSocket}, NEW msg \in Messages
  PROVE  Sent(s, msg) \in Uplinks
<1>1. CASE ~(IsOpen(s) /\ link[s] = "up")
  BY <1>1 DEF Sent, TypeOK, Uplinks
<1>2. CASE IsOpen(s) /\ link[s] = "up"
  <2>1. s \in Sockets /\ upstream[s] \in Seq(Messages)
    BY <1>2 DEF IsOpen, TypeOK
  <2>2. Append(upstream[s], msg) \in Seq(Messages)
    BY <2>1
  <2> QED
    BY <1>2, <2>1, <2>2 DEF Sent, TypeOK, Uplinks
<1> QED
  BY <1>1, <1>2

LEMMA SentFaithful ==
  ASSUME TypeOK, NEW s \in Sockets \cup {NoSocket}, NEW msg \in Messages,
         NEW oc, Faithful(upstream, oc),
         msg.type = "update" => msg.outcome \in oc[msg.note]
  PROVE  Faithful(Sent(s, msg), oc)
<1>1. CASE ~(IsOpen(s) /\ link[s] = "up")
  BY <1>1 DEF Sent
<1>2. CASE IsOpen(s) /\ link[s] = "up"
  <2>1. s \in Sockets /\ upstream \in Uplinks
    BY <1>2 DEF IsOpen, TypeOK, Uplinks
  <2> DEFINE up == Sent(s, msg)
  <2>2. /\ up[s] = Append(upstream[s], msg)
        /\ \A t \in Sockets : t # s => up[t] = upstream[t]
    BY <1>2, <2>1 DEF Sent, Uplinks
  <2>3. upstream[s] \in Seq(Messages)
    BY <2>1 DEF Uplinks
  <2> HIDE DEF up
  <2>4. \A i \in DOMAIN up[s] :
          \/ up[s][i] = msg
          \/ i \in DOMAIN upstream[s] /\ up[s][i] = upstream[s][i]
    <3>1. \A q \in Seq(Messages) :
            /\ DOMAIN Append(q, msg) = 1..(Len(q) + 1) /\ DOMAIN q = 1..Len(q)
            /\ Append(q, msg)[Len(q) + 1] = msg
            /\ \A i \in 1..Len(q) : Append(q, msg)[i] = q[i]
      OBVIOUS
    <3>2. \A q \in Seq(Messages) : Len(q) \in Nat
      OBVIOUS
    <3> QED
      BY <2>2, <2>3, <3>1, <3>2
  <2>5. Faithful(up, oc)
    BY <2>1, <2>2, <2>4 DEF Faithful
  <2> QED
    BY <2>5 DEF up
<1> QED
  BY <1>1, <1>2

\* Taking the next message.
LEMMA Consumed ==
  ASSUME TypeOK, NEW s \in Sockets, Receives(s), Consume(s)
  PROVE  /\ Head(upstream[s]) \in Messages
         /\ 1 \in DOMAIN upstream[s] /\ Head(upstream[s]) = upstream[s][1]
         /\ upstream' \in Uplinks
         /\ \A oc : Faithful(upstream, oc) => Faithful(upstream', oc)
<1>1. upstream[s] \in Seq(Messages) /\ upstream[s] # <<>>
  BY DEF TypeOK, Receives
<1>2. Head(upstream[s]) \in Messages /\ Tail(upstream[s]) \in Seq(Messages)
  BY <1>1
<1>3. 1 \in DOMAIN upstream[s] /\ Head(upstream[s]) = upstream[s][1]
  BY <1>1
<1>4. /\ upstream'[s] = Tail(upstream[s])
      /\ \A t \in Sockets : t # s => upstream'[t] = upstream[t]
      /\ upstream' \in Uplinks
  BY <1>2 DEF Consume, TypeOK, Uplinks
<1>5. \A i \in DOMAIN upstream'[s] :
        i + 1 \in DOMAIN upstream[s] /\ upstream'[s][i] = upstream[s][i + 1]
  BY <1>1, <1>4
<1>6. ASSUME NEW oc, Faithful(upstream, oc)
      PROVE  Faithful(upstream', oc)
  <2>1. ASSUME NEW i \in DOMAIN upstream'[s], upstream'[s][i].type = "update"
        PROVE  upstream'[s][i].outcome \in oc[upstream'[s][i].note]
    <3>1. i + 1 \in DOMAIN upstream[s] /\ upstream'[s][i] = upstream[s][i + 1]
      BY <1>5, <2>1
    <3>2. upstream[s][i + 1].type = "update"
      BY <2>1, <3>1
    <3> QED
      BY <1>6, <3>1, <3>2 DEF Faithful
  <2> QED
    BY <1>4, <1>6, <2>1 DEF Faithful
<1> QED
  BY <1>2, <1>3, <1>4, <1>6

-----------------------------------------------------------------------------
(* Type correctness.                                                        *)

LEMMA TypesStart == Init => TypeOK
BY ParameterAssumption DEF Init, TypeOK, Listings, Outcomes, NoUpdates, NoCopies, Messages

\* A table of counters, one of which goes up or down by one.
LEMMA CountersTyped ==
  ASSUME NEW S, NEW T, NEW f \in [S -> [T -> Nat]], NEW s \in S, NEW t \in T
  PROVE  /\ More(f, s, t) \in [S -> [T -> Nat]]
         /\ f[s][t] > 0 => Less(f, s, t) \in [S -> [T -> Nat]]
<1>1. f[s] \in [T -> Nat] /\ f[s][t] \in Nat
  OBVIOUS
<1>2. [f[s] EXCEPT ![t] = @ + 1] \in [T -> Nat]
  BY <1>1
<1>3. f[s][t] > 0 => [f[s] EXCEPT ![t] = @ - 1] \in [T -> Nat]
  BY <1>1
<1> QED
  BY <1>2, <1>3 DEF More, Less

LEMMA CounterTyped ==
  ASSUME NEW S, NEW f \in [S -> Nat], NEW s \in S
  PROVE  /\ [f EXCEPT ![s] = @ + 1] \in [S -> Nat]
         /\ f[s] > 0 => [f EXCEPT ![s] = @ - 1] \in [S -> Nat]
OBVIOUS

\* The counters of the two programs.
LEMMA CountsTyped ==
  ASSUME TypeOK
  PROVE  /\ \A s \in Sockets, n \in Notes :
              /\ More(copies, s, n) \in [Sockets -> [Notes -> Nat]]
              /\ copies[s][n] > 0 => Less(copies, s, n) \in [Sockets -> [Notes -> Nat]]
         /\ \A n \in Notes, o \in Outcomes :
              /\ More(updating, n, o) \in [Notes -> [Outcomes -> Nat]]
              /\ updating[n][o] > 0 => Less(updating, n, o) \in [Notes -> [Outcomes -> Nat]]
         /\ \A n \in Notes :
              /\ pending[n] > 0 => [pending EXCEPT ![n] = @ - 1] \in [Notes -> Nat]
              /\ [writing EXCEPT ![n] = @ + 1] \in [Notes -> Nat]
              /\ writing[n] > 0 => [writing EXCEPT ![n] = @ - 1] \in [Notes -> Nat]
         /\ \A s \in Sockets :
              /\ [greeting EXCEPT ![s] = @ + 1] \in [Sockets -> Nat]
              /\ greeting[s] > 0 => [greeting EXCEPT ![s] = @ - 1] \in [Sockets -> Nat]
<1>1. /\ copies \in [Sockets -> [Notes -> Nat]]
      /\ updating \in [Notes -> [Outcomes -> Nat]]
      /\ pending \in [Notes -> Nat] /\ writing \in [Notes -> Nat]
      /\ greeting \in [Sockets -> Nat]
  BY DEF TypeOK
<1>2. ASSUME NEW s \in Sockets, NEW n \in Notes
      PROVE  /\ More(copies, s, n) \in [Sockets -> [Notes -> Nat]]
             /\ copies[s][n] > 0 => Less(copies, s, n) \in [Sockets -> [Notes -> Nat]]
  BY <1>1, CountersTyped, Zenon
<1>3. ASSUME NEW n \in Notes, NEW o \in Outcomes
      PROVE  /\ More(updating, n, o) \in [Notes -> [Outcomes -> Nat]]
             /\ updating[n][o] > 0 => Less(updating, n, o) \in [Notes -> [Outcomes -> Nat]]
  BY <1>1, CountersTyped, Zenon
<1>4. ASSUME NEW n \in Notes
      PROVE  /\ pending[n] > 0 => [pending EXCEPT ![n] = @ - 1] \in [Notes -> Nat]
             /\ [writing EXCEPT ![n] = @ + 1] \in [Notes -> Nat]
             /\ writing[n] > 0 => [writing EXCEPT ![n] = @ - 1] \in [Notes -> Nat]
  BY <1>1, CounterTyped, Zenon
<1>5. ASSUME NEW s \in Sockets
      PROVE  /\ [greeting EXCEPT ![s] = @ + 1] \in [Sockets -> Nat]
             /\ greeting[s] > 0 => [greeting EXCEPT ![s] = @ - 1] \in [Sockets -> Nat]
  BY <1>1, CounterTyped, Zenon
<1> QED
  BY <1>2, <1>3, <1>4, <1>5

LEMMA GatewayTypes ==
  ASSUME TypeOK
  PROVE  /\ \A n \in Notes :
              /\ sendPartnerNoteRecord(n) \/ notifyDeliveryQueued(n) => TypeOK'
              /\ \A o \in Outcomes : settle(n, o) \/ settleFails(n, o) => TypeOK'
         /\ \A s \in Sockets :
              /\ receiveHello(s) \/ receiveUpdate(s) => TypeOK'
              /\ pollDeliveries(s) \/ helloFails(s) \/ gatewayCloses(s) => TypeOK'
         /\ gatewayRestarts => TypeOK'
<1>1. ASSUME NEW n \in Notes, sendPartnerNoteRecord(n) PROVE TypeOK'
  BY <1>1 DEF sendPartnerNoteRecord, TypeOK
<1>2. ASSUME NEW n \in Notes, notifyDeliveryQueued(n) PROVE TypeOK'
  <2>1. CASE TargetSocket # NoSocket /\ link[TargetSocket] = "up"
    <3>1. TargetSocket \in Sockets
      BY <2>1, TargetListed
    <3>2. copies' \in [Sockets -> [Notes -> Nat]]
      <4>1. copies' = More(copies, TargetSocket, n)
        BY <1>2, <2>1 DEF notifyDeliveryQueued
      <4>2. More(copies, TargetSocket, n) \in [Sockets -> [Notes -> Nat]]
        BY <3>1, CountsTyped, Zenon
      <4> QED
        BY <4>1, <4>2
    <3> QED
      BY <1>2, <2>1, <3>2 DEF notifyDeliveryQueued, TypeOK
  <2>2. CASE ~(TargetSocket # NoSocket /\ link[TargetSocket] = "up")
    BY <1>2, <2>2 DEF notifyDeliveryQueued, TypeOK
  <2> QED
    BY <2>1, <2>2
<1>3. ASSUME NEW n \in Notes, NEW o \in Outcomes, settle(n, o) \/ settleFails(n, o)
      PROVE  TypeOK'
  <2>1. updating' \in [Notes -> [Outcomes -> Nat]]
    BY <1>3, CountsTyped DEF settle, settleFails, TypeOK
  <2> QED
    BY <1>3, <2>1 DEF settle, settleFails, TypeOK
<1>4. ASSUME NEW s \in Sockets, receiveHello(s) PROVE TypeOK'
  <2>1. upstream' \in Uplinks /\ Head(upstream[s]) \in Messages
    BY <1>4, Consumed DEF receiveHello
  <2>2. registered' \in [Sockets -> Listings]
    <3>1. Head(upstream[s]).listing \in Listings
      BY <1>4, <2>1 DEF receiveHello, Messages, Listings
    <3> QED
      BY <1>4, <3>1 DEF receiveHello, TypeOK
  <2>3. greeting' \in [Sockets -> Nat]
    BY <1>4, CountsTyped DEF receiveHello
  <2> QED
    BY <1>4, <2>1, <2>2, <2>3 DEF receiveHello, TypeOK, Uplinks
<1>5. ASSUME NEW s \in Sockets, receiveUpdate(s) PROVE TypeOK'
  <2> DEFINE u == Head(upstream[s])
  <2>1. upstream' \in Uplinks /\ u \in Messages
    BY <1>5, Consumed DEF receiveUpdate
  <2>2. u.note \in Notes /\ u.outcome \in Outcomes
    BY <1>5, <2>1 DEF receiveUpdate, Messages
  <2>3. updating' \in [Notes -> [Outcomes -> Nat]]
    BY <1>5, <2>2, CountsTyped DEF receiveUpdate, TypeOK
  <2> QED
    BY <1>5, <2>1, <2>3 DEF receiveUpdate, TypeOK, Uplinks
<1>6. ASSUME NEW s \in Sockets, pollDeliveries(s) PROVE TypeOK'
  <2>1. copies' \in [Sockets -> [Notes -> Nat]]
    <3> DEFINE sent == [n \in Notes |-> IF n \in Batch THEN copies[s][n] + 1
                                       ELSE copies[s][n]]
    <3>1. sent \in [Notes -> Nat]
      BY DEF TypeOK
    <3>2. copies' = [copies EXCEPT ![s] = sent] \/ copies' = copies
      BY <1>6 DEF pollDeliveries
    <3> QED
      BY <3>1, <3>2 DEF TypeOK
  <2>3. greeting' \in [Sockets -> Nat]
    BY <1>6, CountsTyped DEF pollDeliveries
  <2>2. missed' \subseteq Notes
    BY <1>6 DEF pollDeliveries, TypeOK, Overflow, Queued
  <2> QED
    BY <1>6, <2>1, <2>2, <2>3 DEF pollDeliveries, TypeOK
<1>7. ASSUME NEW s \in Sockets, helloFails(s) PROVE TypeOK'
  <2>1. greeting' \in [Sockets -> Nat]
    BY <1>7, CountsTyped DEF helloFails
  <2> QED
    BY <1>7, <2>1 DEF helloFails, TypeOK, Queued
<1>9. ASSUME NEW s \in Sockets, gatewayCloses(s) PROVE TypeOK'
  BY <1>9 DEF gatewayCloses, TypeOK, Listings
<1>8. ASSUME gatewayRestarts PROVE TypeOK'
  BY <1>8 DEF gatewayRestarts, TypeOK, NoUpdates, NoCopies, Listings
<1> QED
  BY <1>1, <1>2, <1>3, <1>4, <1>5, <1>6, <1>7, <1>8, <1>9

LEMMA ReportTyped ==
  ASSUME TypeOK, NEW n \in Notes, NEW o \in Outcomes, Report(n, o)
  PROVE  upstream' \in Uplinks /\ outcomes' \in [Notes -> SUBSET Outcomes]
<1>1. wsClient \in Sockets \cup {NoSocket}
  BY DEF TypeOK
<1> QED
  BY <1>1, MessageTypes, SentTyped DEF Report, TypeOK

LEMMA ClientTypes ==
  ASSUME TypeOK
  PROVE  /\ \A n \in Notes :
              /\ materialize(n) \/ materializeFails(n) => TypeOK'
              /\ markXchangeRecordRead(n) => TypeOK'
              /\ \A s \in Sockets : receiveDelivery(s, n) => TypeOK'
         /\ \A s \in Sockets :
              /\ startGatewayWsClient(s) \/ connects(s) \/ clientCloses(s) => TypeOK'
              /\ connectionLost(s) \/ clientRestarts(s) => TypeOK'
              /\ sendClientHello(s) => TypeOK'
         /\ refreshClientHello \/ consoleChanges => TypeOK'
<1>1. ASSUME NEW n \in Notes, materialize(n) \/ materializeFails(n) PROVE TypeOK'
  <2>1. \E o \in Outcomes : Report(n, o)
    BY <1>1 DEF materialize, materializeFails, Outcomes
  <2>2. upstream' \in Uplinks /\ outcomes' \in [Notes -> SUBSET Outcomes]
    BY <2>1, ReportTyped
  <2>3. writing' \in [Notes -> Nat]
    BY <1>1, CountsTyped DEF materialize, materializeFails
  <2> QED
    BY <1>1, <2>2, <2>3 DEF materialize, materializeFails, TypeOK, Uplinks
<1>2. ASSUME NEW n \in Notes, markXchangeRecordRead(n) PROVE TypeOK'
  BY <1>2 DEF markXchangeRecordRead, TypeOK
<1>3. ASSUME NEW n \in Notes, NEW s \in Sockets, receiveDelivery(s, n) PROVE TypeOK'
  <2>1. copies' \in [Sockets -> [Notes -> Nat]]
    BY <1>3, CountsTyped DEF receiveDelivery, TypeOK
  <2>2. CASE console
    <3>1. writing' \in [Notes -> Nat]
      BY <1>3, <2>2, CountsTyped DEF receiveDelivery
    <3> QED
      BY <1>3, <2>1, <2>2, <3>1 DEF receiveDelivery, TypeOK
  <2>3. CASE ~console
    <3>1. upstream' \in Uplinks /\ outcomes' \in [Notes -> SUBSET Outcomes]
      BY <1>3, <2>3, ReportTyped DEF receiveDelivery, Outcomes
    <3> QED
      BY <1>3, <2>1, <2>3, <3>1 DEF receiveDelivery, TypeOK, Uplinks
  <2> QED
    BY <2>2, <2>3
<1>4. ASSUME NEW s \in Sockets, startGatewayWsClient(s) \/ connects(s) \/ clientCloses(s)
      PROVE  TypeOK'
  BY <1>4 DEF startGatewayWsClient, connects, clientCloses, TypeOK
<1>5. ASSUME NEW s \in Sockets, connectionLost(s) \/ clientRestarts(s) PROVE TypeOK'
  <2>1. NoCopies \in [Notes -> Nat] /\ <<>> \in Seq(Messages)
    BY DEF NoCopies
  <2>2. Break(s)
    BY <1>5 DEF connectionLost, clientRestarts
  <2>3. copies' \in [Sockets -> [Notes -> Nat]] /\ upstream' \in Uplinks
    BY <2>1, <2>2 DEF Break, TypeOK, Uplinks
  <2>4. link' \in [Sockets -> {"down", "up"}]
    BY <2>2 DEF Break, TypeOK
  <2>5. /\ far' \in [Sockets -> {"new", "connecting", "open", "greeted", "closed"}]
        /\ writing' \in [Notes -> Nat]
        /\ wsClient' \in Sockets \cup {NoSocket} /\ snapshot' \in Listings
    BY <1>5, <2>1 DEF connectionLost, clientRestarts, TypeOK, Listings
  <2> QED
    BY <1>5, <2>3, <2>4, <2>5 DEF connectionLost, clientRestarts, TypeOK, Uplinks
<1>6. ASSUME NEW s \in Sockets, sendClientHello(s) PROVE TypeOK'
  <2>1. Listing \in {"bare", "console"}
    BY DEF Listing
  <2>2. upstream' \in Uplinks
    BY <1>6, <2>1, MessageTypes, SentTyped DEF sendClientHello
  <2> QED
    BY <1>6, <2>1, <2>2 DEF sendClientHello, TypeOK, Listings, Uplinks
<1>7. ASSUME refreshClientHello PROVE TypeOK'
  <2>1. Listing \in {"bare", "console"} /\ wsClient \in Sockets \cup {NoSocket}
    BY DEF Listing, TypeOK
  <2>2. upstream' \in Uplinks
    BY <1>7, <2>1, MessageTypes, SentTyped DEF refreshClientHello
  <2> QED
    BY <1>7, <2>1, <2>2 DEF refreshClientHello, TypeOK, Listings, Uplinks
<1>8. ASSUME consoleChanges PROVE TypeOK'
  BY <1>8 DEF consoleChanges, TypeOK
<1> QED
  BY <1>1, <1>2, <1>3, <1>4, <1>5, <1>6, <1>7, <1>8

LEMMA TypesStep == TypeOK /\ [Next]_vars => TypeOK'
<1> SUFFICES ASSUME TypeOK, [Next]_vars PROVE TypeOK'
  OBVIOUS
<1>1. CASE Next
  BY <1>1, GatewayTypes, ClientTypes
  DEF Next, Environment, Handlers, Connection
<1>2. CASE UNCHANGED vars
  BY <1>2 DEF vars, TypeOK
<1> QED
  BY <1>1, <1>2

\* Every reachable state of the deliveries is well typed.
THEOREM DeliveryTypes == Spec => []TypeOK
  BY TypesStart, TypesStep, PTL DEF Spec

-----------------------------------------------------------------------------
(* The refinement.  What makes it inductive: a copy, a notification and a    *)
(* materialization stand for a row that exists, and a report, on its way or  *)
(* being written, for an outcome that happened.                              *)

Traced ==
  /\ \A n \in Notes : pending[n] > 0 \/ writing[n] > 0 => status[n] # "absent"
  /\ \A s \in Sockets, n \in Notes : copies[s][n] > 0 => status[n] # "absent"

Honest ==
  /\ \A n \in Notes, o \in Outcomes : updating[n][o] > 0 => o \in outcomes[n]
  /\ Faithful(upstream, outcomes)

IInv == TypeOK /\ Traced /\ Honest

\* Rows only leave "absent" and outcomes only accumulate.
LEMMA FaithfulLater ==
  ASSUME NEW up \in Uplinks, NEW oc, NEW later, Faithful(up, oc),
         \A n \in Notes : oc[n] \subseteq later[n]
  PROVE  Faithful(up, later)
<1> SUFFICES ASSUME NEW s \in Sockets, NEW i \in DOMAIN up[s], up[s][i].type = "update"
             PROVE  up[s][i].outcome \in later[up[s][i].note]
  BY DEF Faithful
<1>1. up[s] \in Seq(Messages)
  BY DEF Uplinks
<1>2. up[s][i] \in Messages
  BY <1>1
<1>3. up[s][i].note \in Notes
  BY <1>2 DEF Messages
<1> QED
  BY <1>3 DEF Faithful

LEMMA TracedStart == Init => Traced /\ Honest
<1> SUFFICES ASSUME Init PROVE Traced /\ Honest
  OBVIOUS
<1>1. Traced
  BY DEF Init, Traced, NoCopies
<1>2. \A n \in Notes, o \in Outcomes : ~(updating[n][o] > 0)
  BY DEF Init, NoUpdates
<1>3. \A s \in Sockets : DOMAIN upstream[s] = {}
  BY DEF Init
<1> QED
  BY <1>1, <1>2, <1>3 DEF Honest, Faithful

\* What a step that is not the contract's business has to show.
LEMMA Stutters ==
  ASSUME UNCHANGED <<status, outcomes>>
  PROVE  [Contract!Next]_(Contract!vars)
BY DEF Contract!vars

\* One counter goes up; no other is affected.
LEMMA MoreMoves ==
  ASSUME NEW S, NEW T, NEW f, f \in [S -> [T -> Nat]], NEW s \in S, NEW t \in T
  PROVE  \A a \in S, b \in T : More(f, s, t)[a][b] > 0 => f[a][b] > 0 \/ (a = s /\ b = t)
<1> DEFINE g == [f[s] EXCEPT ![t] = f[s][t] + 1]
<1>1. f[s] \in [T -> Nat]
  OBVIOUS
<1>2. \A b \in T : b # t => g[b] = f[s][b]
  BY <1>1
<1>3. \A r : \A a \in S : [f EXCEPT ![s] = r][a] = IF a = s THEN r ELSE f[a]
  OBVIOUS
<1>4. \A a \in S : More(f, s, t)[a] = IF a = s THEN g ELSE f[a]
  BY <1>3, Zenon DEF More
<1> QED
  BY <1>2, <1>4

\* One counter goes down; no other is affected.
LEMMA LessMoves ==
  ASSUME NEW S, NEW T, NEW f, f \in [S -> [T -> Nat]], NEW s \in S, NEW t \in T
  PROVE  \A a \in S, b \in T : Less(f, s, t)[a][b] > 0 => f[a][b] > 0
<1> DEFINE g == [f[s] EXCEPT ![t] = f[s][t] - 1]
<1>1. f[s] \in [T -> Nat]
  OBVIOUS
<1>2. \A b \in T : g[b] > 0 => f[s][b] > 0
  BY <1>1
<1>3. \A r : \A a \in S : [f EXCEPT ![s] = r][a] = IF a = s THEN r ELSE f[a]
  OBVIOUS
<1>4. \A a \in S : Less(f, s, t)[a] = IF a = s THEN g ELSE f[a]
  BY <1>3, Zenon DEF Less
<1> HIDE DEF g
<1> QED
  BY <1>2, <1>4

\* What every step keeps.
Keeps == Traced' /\ Honest' /\ [Contract!Next]_(Contract!vars)

LEMMA GatewaySteps ==
  ASSUME IInv
  PROVE  /\ \A n \in Notes :
              /\ sendPartnerNoteRecord(n) \/ notifyDeliveryQueued(n) => Keeps
              /\ \A o \in Outcomes : settle(n, o) \/ settleFails(n, o) => Keeps
         /\ \A s \in Sockets :
              /\ receiveHello(s) \/ receiveUpdate(s) => Keeps
              /\ pollDeliveries(s) \/ helloFails(s) \/ gatewayCloses(s) => Keeps
         /\ gatewayRestarts => Keeps
<1> USE DEF IInv
<1>1. ASSUME NEW n \in Notes, sendPartnerNoteRecord(n) PROVE Keeps
  <2>1. Traced'
    BY <1>1 DEF sendPartnerNoteRecord, Traced, TypeOK
  <2>2. Honest'
    BY <1>1 DEF sendPartnerNoteRecord, Honest, Faithful
  <2>3. Contract!Enqueue(n)
    BY <1>1 DEF sendPartnerNoteRecord, Contract!Enqueue
  <2> QED
    BY <2>1, <2>2, <2>3 DEF Keeps, Contract!Next
<1>2. ASSUME NEW n \in Notes, notifyDeliveryQueued(n) PROVE Keeps
  <2>1. UNCHANGED <<status, outcomes, updating, upstream, writing>>
    BY <1>2 DEF notifyDeliveryQueued
  <2>2. \A m \in Notes : pending'[m] > 0 => pending[m] > 0
    BY <1>2 DEF notifyDeliveryQueued, TypeOK
  <2>3. \A s \in Sockets, m \in Notes : copies'[s][m] > 0 => copies[s][m] > 0 \/ m = n
    <3>1. CASE TargetSocket # NoSocket /\ link[TargetSocket] = "up"
      <4>1. TargetSocket \in Sockets
        BY <3>1, TargetListed
      <4>2. copies' = More(copies, TargetSocket, n)
        BY <1>2, <3>1 DEF notifyDeliveryQueued
      <4>3. copies \in [Sockets -> [Notes -> Nat]]
        BY DEF TypeOK
      <4>4. ASSUME NEW s \in Sockets, NEW m \in Notes,
                   More(copies, TargetSocket, n)[s][m] > 0
            PROVE  copies[s][m] > 0 \/ m = n
        BY <4>1, <4>3, <4>4, MoreMoves
      <4> QED
        BY <4>2, <4>4
    <3>2. CASE ~(TargetSocket # NoSocket /\ link[TargetSocket] = "up")
      BY <1>2, <3>2 DEF notifyDeliveryQueued
    <3> QED
      BY <3>1, <3>2
  <2>4. status[n] # "absent"
    BY <1>2 DEF notifyDeliveryQueued, Traced
  <2>5. Traced'
    BY <2>1, <2>2, <2>3, <2>4 DEF Traced
  <2> QED
    BY <2>1, <2>5, Stutters DEF Keeps, Honest, Faithful
<1>3. ASSUME NEW n \in Notes, NEW o \in Outcomes, settle(n, o) \/ settleFails(n, o)
      PROVE  Keeps
  <2>1. updating[n][o] > 0 /\ updating' = Less(updating, n, o)
    BY <1>3 DEF settle, settleFails
  <2>2. o \in outcomes[n]
    BY <2>1 DEF Honest
  <2>3. /\ UNCHANGED <<pending, writing, copies, upstream, outcomes>>
        /\ status' = [status EXCEPT ![n] = o] \/ status' = status
    BY <1>3 DEF settle, settleFails
  <2>4. Traced'
    BY <2>3 DEF Traced, TypeOK, Outcomes
  <2>5. \A m \in Notes, p \in Outcomes : updating'[m][p] > 0 => updating[m][p] > 0
    <3>1. updating \in [Notes -> [Outcomes -> Nat]]
      BY DEF TypeOK
    <3>2. \A m \in Notes, p \in Outcomes :
            Less(updating, n, o)[m][p] > 0 => updating[m][p] > 0
      BY <3>1, LessMoves
    <3> QED
      BY <2>1, <3>2
  <2>6. Honest'
    BY <2>3, <2>5 DEF Honest, Faithful
  <2>7. Contract!Settle(n, o) \/ UNCHANGED <<status, outcomes>>
    BY <2>2, <2>3 DEF Contract!Settle
  <2>8. [Contract!Next]_(Contract!vars)
    BY <2>7 DEF Contract!Next, Contract!vars, Contract!Outcomes, Outcomes
  <2> QED
    BY <2>4, <2>6, <2>8 DEF Keeps
<1>4. ASSUME NEW s \in Sockets, receiveHello(s) PROVE Keeps
  <2>1. Faithful(upstream', outcomes)
    BY <1>4, Consumed DEF receiveHello, Honest
  <2> QED
    BY <1>4, <2>1, Stutters DEF receiveHello, Keeps, Traced, Honest
<1>5. ASSUME NEW s \in Sockets, receiveUpdate(s) PROVE Keeps
  <2> DEFINE u == Head(upstream[s])
  <2>1. /\ u \in Messages /\ u = upstream[s][1] /\ 1 \in DOMAIN upstream[s]
        /\ Faithful(upstream', outcomes)
    BY <1>5, Consumed DEF receiveUpdate, Honest
  <2>2. /\ u.type = "update" /\ u.note \in Notes /\ u.outcome \in Outcomes
        /\ u.outcome \in outcomes[u.note]
    BY <1>5, <2>1 DEF receiveUpdate, Messages, Honest, Faithful
  <2>3. updating' = updating \/ updating' = More(updating, u.note, u.outcome)
    BY <1>5 DEF receiveUpdate
  <2> HIDE DEF u
  <2>4. \A m \in Notes, p \in Outcomes :
          updating'[m][p] > 0 => updating[m][p] > 0 \/ (m = u.note /\ p = u.outcome)
    <3>1. updating \in [Notes -> [Outcomes -> Nat]]
      BY DEF TypeOK
    <3>2. \A n \in Notes, o \in Outcomes : \A m \in Notes, p \in Outcomes :
            More(updating, n, o)[m][p] > 0 => updating[m][p] > 0 \/ (m = n /\ p = o)
      BY <3>1, MoreMoves
    <3> QED
      BY <2>2, <2>3, <3>2
  <2>5. UNCHANGED <<status, outcomes, pending, copies, writing>>
    BY <1>5 DEF receiveUpdate
  <2>6. Honest'
    BY <2>1, <2>2, <2>4, <2>5 DEF Honest
  <2> QED
    BY <2>5, <2>6, Stutters DEF Keeps, Traced
<1>6. ASSUME NEW s \in Sockets, pollDeliveries(s) PROVE Keeps
  <2>1. UNCHANGED <<status, outcomes, updating, upstream, writing, pending>>
    BY <1>6 DEF pollDeliveries
  <2>2. \A t \in Sockets, m \in Notes : copies'[t][m] > 0 => copies[t][m] > 0 \/ m \in Batch
    <3> DEFINE sent == [m \in Notes |-> IF m \in Batch THEN copies[s][m] + 1
                                       ELSE copies[s][m]]
    <3>1. copies' = [copies EXCEPT ![s] = sent] \/ copies' = copies
      BY <1>6 DEF pollDeliveries
    <3>2. \A m \in Notes : m \notin Batch => sent[m] = copies[s][m]
      OBVIOUS
    <3> HIDE DEF sent
    <3> QED
      BY <3>1, <3>2 DEF TypeOK
  <2>3. \A m \in Batch : status[m] # "absent"
    BY DEF Batch, Queued
  <2> QED
    BY <2>1, <2>2, <2>3, Stutters DEF Keeps, Traced, Honest, Faithful
<1>7. ASSUME NEW s \in Sockets, helloFails(s) \/ gatewayCloses(s) PROVE Keeps
  <2>1. UNCHANGED <<status, outcomes, updating, upstream, writing, pending, copies>>
    BY <1>7 DEF helloFails, gatewayCloses
  <2> QED
    BY <2>1, Stutters DEF Keeps, Traced, Honest, Faithful
<1>8. ASSUME gatewayRestarts PROVE Keeps
  <2>1. UNCHANGED <<status, outcomes, writing>> /\ pending' \in {pending, NoCopies}
    BY <1>8 DEF gatewayRestarts
  <2>2. \A s \in Sockets, n \in Notes : ~(copies'[s][n] > 0)
    BY <1>8 DEF gatewayRestarts, NoCopies
  <2>3. \A n \in Notes, o \in Outcomes : ~(updating'[n][o] > 0)
    BY <1>8 DEF gatewayRestarts, NoUpdates
  <2>4. \A s \in Sockets : DOMAIN upstream'[s] = {}
    BY <1>8 DEF gatewayRestarts
  <2>5. Traced'
    BY <2>1, <2>2 DEF Traced, NoCopies
  <2> QED
    BY <2>1, <2>3, <2>4, <2>5, Stutters DEF Keeps, Honest, Faithful
<1> QED
  BY <1>1, <1>2, <1>3, <1>4, <1>5, <1>6, <1>7, <1>8

LEMMA ReportKeeps ==
  ASSUME TypeOK, Honest, NEW n \in Notes, NEW o \in Outcomes, Report(n, o),
         status[n] # "absent", UNCHANGED <<status, updating>>
  PROVE  Honest' /\ [Contract!Next]_(Contract!vars)
<1>1. outcomes' = [outcomes EXCEPT ![n] = @ \cup {o}]
  BY DEF Report
<1>2. /\ \A m \in Notes : outcomes[m] \subseteq outcomes'[m]
      /\ o \in outcomes'[n]
  BY <1>1 DEF TypeOK
<1>3. Faithful(upstream', outcomes')
  <2>1. Faithful(upstream, outcomes')
    BY <1>2, FaithfulLater DEF Honest, TypeOK, Uplinks
  <2>2. /\ Update(n, o) \in Messages /\ Update(n, o).type = "update"
        /\ Update(n, o).outcome \in outcomes'[Update(n, o).note]
    BY <1>2, MessageTypes DEF Update
  <2>3. wsClient \in Sockets \cup {NoSocket}
    BY DEF TypeOK
  <2>4. Faithful(Sent(wsClient, Update(n, o)), outcomes')
    BY <2>1, <2>2, <2>3, SentFaithful, Zenon
  <2> QED
    BY <2>4 DEF Report
<1>4. Honest'
  BY <1>2, <1>3 DEF Honest
<1>5. Contract!Handle(n, o)
  BY <1>1 DEF Contract!Handle
<1> QED
  BY <1>4, <1>5 DEF Contract!Next, Contract!Outcomes, Outcomes

LEMMA ClientSteps ==
  ASSUME IInv
  PROVE  /\ \A n \in Notes :
              /\ materialize(n) \/ materializeFails(n) => Keeps
              /\ markXchangeRecordRead(n) => Keeps
              /\ \A s \in Sockets : receiveDelivery(s, n) => Keeps
         /\ \A s \in Sockets :
              /\ startGatewayWsClient(s) \/ connects(s) \/ clientCloses(s) => Keeps
              /\ connectionLost(s) \/ clientRestarts(s) => Keeps
              /\ sendClientHello(s) => Keeps
         /\ refreshClientHello \/ consoleChanges => Keeps
<1> USE DEF IInv
<1>1. ASSUME NEW n \in Notes, materialize(n) \/ materializeFails(n) PROVE Keeps
  <2>1. /\ UNCHANGED <<status, pending, copies, updating>>
        /\ writing[n] > 0 /\ writing' = [writing EXCEPT ![n] = @ - 1]
    BY <1>1 DEF materialize, materializeFails
  <2>2. PICK o \in Outcomes : Report(n, o)
    BY <1>1 DEF materialize, materializeFails, Outcomes
  <2>3. \A m \in Notes : writing'[m] > 0 => writing[m] > 0
    BY <2>1 DEF TypeOK
  <2>4. Traced'
    BY <2>1, <2>3 DEF Traced
  <2>5. status[n] # "absent"
    BY <2>1 DEF Traced
  <2> QED
    BY <2>1, <2>2, <2>4, <2>5, ReportKeeps DEF Keeps
<1>2. ASSUME NEW n \in Notes, NEW s \in Sockets, receiveDelivery(s, n) PROVE Keeps
  <2>1. /\ UNCHANGED <<status, pending, updating>>
        /\ copies[s][n] > 0 /\ copies' = Less(copies, s, n)
    BY <1>2 DEF receiveDelivery
  <2>2. \A t \in Sockets, m \in Notes : copies'[t][m] > 0 => copies[t][m] > 0
    <3>1. copies \in [Sockets -> [Notes -> Nat]]
      BY DEF TypeOK
    <3>2. \A t \in Sockets, m \in Notes : Less(copies, s, n)[t][m] > 0 => copies[t][m] > 0
      BY <3>1, LessMoves
    <3> QED
      BY <2>1, <3>2
  <2>3. status[n] # "absent"
    BY <2>1 DEF Traced
  <2>4. \A m \in Notes : writing'[m] > 0 => writing[m] > 0 \/ m = n
    BY <1>2 DEF receiveDelivery, TypeOK
  <2>5. Traced'
    BY <2>1, <2>2, <2>3, <2>4 DEF Traced
  <2>6. CASE console
    <3>1. UNCHANGED <<upstream, outcomes>>
      BY <1>2, <2>6 DEF receiveDelivery
    <3> QED
      BY <2>1, <2>5, <3>1, Stutters DEF Keeps, Honest, Faithful
  <2>7. CASE ~console
    <3>1. Report(n, "delivered") /\ "delivered" \in Outcomes
      BY <1>2, <2>7 DEF receiveDelivery, Outcomes
    <3> QED
      BY <2>1, <2>3, <2>5, <3>1, ReportKeeps DEF Keeps
  <2> QED
    BY <2>6, <2>7
<1>3. ASSUME NEW n \in Notes, markXchangeRecordRead(n) PROVE Keeps
  BY <1>3, Stutters DEF markXchangeRecordRead, Keeps, Traced, Honest, Faithful
<1>4. ASSUME NEW s \in Sockets, startGatewayWsClient(s) \/ connects(s) \/ clientCloses(s)
      PROVE  Keeps
  <2>1. UNCHANGED <<status, outcomes, updating, upstream, writing, pending, copies>>
    BY <1>4 DEF startGatewayWsClient, connects, clientCloses
  <2> QED
    BY <2>1, Stutters DEF Keeps, Traced, Honest, Faithful
<1>5. ASSUME NEW s \in Sockets, connectionLost(s) \/ clientRestarts(s) PROVE Keeps
  <2>1. Break(s) /\ UNCHANGED <<status, outcomes, updating, pending>>
    BY <1>5 DEF connectionLost, clientRestarts
  <2>2. \A t \in Sockets, n \in Notes : copies'[t][n] > 0 => copies[t][n] > 0
    BY <2>1 DEF Break, NoCopies, TypeOK
  <2>3. \A n \in Notes : writing'[n] > 0 => writing[n] > 0
    BY <1>5 DEF connectionLost, clientRestarts, NoCopies
  <2>4. /\ \A t \in Sockets : t # s => upstream'[t] = upstream[t]
        /\ DOMAIN upstream'[s] = {}
    BY <2>1 DEF Break, TypeOK
  <2>5. Faithful(upstream', outcomes)
    BY <2>4 DEF Honest, Faithful
  <2> QED
    BY <2>1, <2>2, <2>3, <2>5, Stutters DEF Keeps, Traced, Honest
<1>6. ASSUME NEW s \in Sockets \cup {NoSocket}, upstream' = Sent(s, Hello(Listing)),
             UNCHANGED <<status, outcomes, updating, writing, pending, copies>>
      PROVE  Keeps
  <2>1. Hello(Listing) \in Messages /\ Hello(Listing).type # "update"
    BY MessageTypes DEF Listing, Hello
  <2>2. Faithful(upstream', outcomes)
    BY <1>6, <2>1, SentFaithful DEF Honest
  <2> QED
    BY <1>6, <2>2, Stutters DEF Keeps, Traced, Honest
<1>7. ASSUME NEW s \in Sockets, sendClientHello(s) PROVE Keeps
  BY <1>6, <1>7 DEF sendClientHello
<1>8. ASSUME refreshClientHello PROVE Keeps
  <2>1. wsClient \in Sockets \cup {NoSocket}
    BY DEF TypeOK
  <2> QED
    BY <1>6, <1>8, <2>1 DEF refreshClientHello
<1>9. ASSUME consoleChanges PROVE Keeps
  BY <1>9, Stutters DEF consoleChanges, Keeps, Traced, Honest, Faithful
<1> QED
  BY <1>1, <1>2, <1>3, <1>4, <1>5, <1>7, <1>8, <1>9

LEMMA StepKeeps == IInv /\ [Next]_vars => Keeps
<1> SUFFICES ASSUME IInv, [Next]_vars PROVE Keeps
  OBVIOUS
<1>1. CASE Next
  BY <1>1, GatewaySteps, ClientSteps DEF Next, Environment, Handlers, Connection
<1>2. CASE UNCHANGED vars
  <2>1. UNCHANGED <<status, outcomes, updating, upstream, writing, pending, copies>>
    BY <1>2 DEF vars
  <2> QED
    BY <2>1, Stutters DEF IInv, Keeps, Traced, Honest, Faithful
<1> QED
  BY <1>1, <1>2

\* A notification, a copy or a report never concerns a note that was not
\* queued, and a report never invents an outcome.
THEOREM ReportsAreHonest == Spec => [](Traced /\ Honest)
<1>1. IInv /\ [Next]_vars => (Traced /\ Honest)'
  BY StepKeeps DEF Keeps
<1> QED
  BY <1>1, TracedStart, DeliveryTypes, PTL DEF Spec, IInv

\* The gateway's row follows what became of a copy on the client, over any
\* loss, duplicate, restart or late report.
THEOREM DeliveriesKeepContract == Spec => KeepsContract
<1>1. Init => Contract!Init
  BY DEF Init, Contract!Init
<1>2. IInv /\ [Next]_vars => [Contract!Next]_(Contract!vars)
  BY StepKeeps DEF Keeps
<1> QED
  BY <1>1, <1>2, DeliveryTypes, ReportsAreHonest, PTL
  DEF Spec, IInv, KeepsContract, Contract!Spec

-----------------------------------------------------------------------------
(* No note slips between its announcement and the poll of a hello.          *)

\* One connection carries data: that of the client's current socket.  The
\* gateway knows a console only by a hello on a socket it holds open.
OneLink ==
  \A s \in Sockets :
    /\ far[s] \in {"connecting", "open", "greeted"} => wsClient = s
    /\ link[s] = "up" => far[s] \in {"open", "greeted"}
    /\ far[s] \in {"new", "connecting"} => near[s] = "none"
    /\ near[s] # "open" => registered[s] = "none"

\* The gateway has polled for the client's current socket since the last hello.
Polled(s) ==
  /\ wsClient = s /\ link[s] = "up" /\ near[s] = "open"
  /\ registered[s] = "console" /\ greeting[s] = 0

\* NothingForgotten as soon as the gateway has polled, whatever else the client
\* still sends.
Noticed ==
  \A s \in Sockets, n \in Notes :
    Polled(s) /\ status[n] = "queued" => n \in missed \/ UnderWay(s, n)

LEMMA LinksStart == Init => OneLink /\ Noticed
BY DEF Init, OneLink, Noticed, Polled

LEMMA LinksStep == TypeOK /\ OneLink /\ [Next]_vars => OneLink'
<1> SUFFICES ASSUME TypeOK, OneLink, [Next]_vars PROVE OneLink'
  OBVIOUS
<1>1. ASSUME UNCHANGED <<far, wsClient, link, near, registered>> PROVE OneLink'
  BY <1>1 DEF OneLink
<1>2. ASSUME NEW n \in Notes, Handlers(n) PROVE OneLink'
  BY <1>1, <1>2 DEF Handlers, notifyDeliveryQueued, settle, settleFails, receiveDelivery,
                    materialize, materializeFails
<1>3. ASSUME NEW s \in Sockets, receiveHello(s) \/ receiveUpdate(s) \/ pollDeliveries(s) \/ helloFails(s)
      PROVE  OneLink'
  BY <1>1, <1>3 DEF receiveHello, receiveUpdate, pollDeliveries, helloFails, OneLink,
                    Receives, TypeOK
<1>4. ASSUME NEW s \in Sockets, startGatewayWsClient(s) PROVE OneLink'
  BY <1>4 DEF startGatewayWsClient, ensureGatewayWsClientIsReusable, OneLink, TypeOK
<1>5. ASSUME NEW s \in Sockets, connects(s) PROVE OneLink'
  BY <1>5 DEF connects, OneLink, TypeOK
<1>6. ASSUME NEW s \in Sockets, sendClientHello(s) PROVE OneLink'
  BY <1>6 DEF sendClientHello, OneLink, TypeOK
<1>7. ASSUME NEW s \in Sockets, clientCloses(s) PROVE OneLink'
  BY <1>7, ParameterAssumption DEF clientCloses, OneLink, TypeOK
<1>8. ASSUME NEW s \in Sockets, gatewayCloses(s) \/ connectionLost(s) \/ clientRestarts(s)
      PROVE  OneLink'
  BY <1>8, ParameterAssumption
  DEF gatewayCloses, connectionLost, clientRestarts, Break, OneLink, TypeOK
<1>9. ASSUME gatewayRestarts PROVE OneLink'
  BY <1>9 DEF gatewayRestarts, OneLink, TypeOK
<1>10. ASSUME NEW n \in Notes, sendPartnerNoteRecord(n) \/ markXchangeRecordRead(n)
       PROVE  OneLink'
  BY <1>1, <1>10 DEF sendPartnerNoteRecord, markXchangeRecordRead
<1>11. ASSUME refreshClientHello \/ consoleChanges \/ UNCHANGED vars PROVE OneLink'
  BY <1>1, <1>11 DEF refreshClientHello, consoleChanges, vars
<1> QED
  BY <1>2, <1>3, <1>4, <1>5, <1>6, <1>7, <1>8, <1>9, <1>10, <1>11
  DEF Next, Environment, Connection

\* A message that is sent keeps those before it, and goes up if it can.
LEMMA SentArrives ==
  ASSUME TypeOK, NEW s \in Sockets \cup {NoSocket}, NEW msg \in Messages,
         upstream' = Sent(s, msg)
  PROVE  /\ \A t \in Sockets, n \in Notes : UpdateOnItsWay(t, n) => UpdateOnItsWay(t, n)'
         /\ IsOpen(s) /\ link[s] = "up" /\ msg.type = "update"
              => UpdateOnItsWay(s, msg.note)'
<1>1. CASE ~(IsOpen(s) /\ link[s] = "up")
  BY <1>1 DEF Sent, UpdateOnItsWay
<1>2. CASE IsOpen(s) /\ link[s] = "up"
  <2>1. s \in Sockets /\ upstream[s] \in Seq(Messages)
    BY <1>2 DEF IsOpen, TypeOK
  <2>2. /\ upstream'[s] = Append(upstream[s], msg)
        /\ \A t \in Sockets : t # s => upstream'[t] = upstream[t]
    BY <1>2, <2>1 DEF Sent, TypeOK
  <2>3. /\ Len(upstream[s]) \in Nat
        /\ DOMAIN upstream[s] = 1..Len(upstream[s])
        /\ DOMAIN upstream'[s] = 1..(Len(upstream[s]) + 1)
        /\ upstream'[s][Len(upstream[s]) + 1] = msg
        /\ \A i \in 1..Len(upstream[s]) : upstream'[s][i] = upstream[s][i]
    BY <2>1, <2>2
  <2>4. ASSUME NEW n \in Notes, UpdateOnItsWay(s, n) PROVE UpdateOnItsWay(s, n)'
    BY <2>3, <2>4 DEF UpdateOnItsWay
  <2>5. msg.type = "update" => UpdateOnItsWay(s, msg.note)'
    BY <2>3 DEF UpdateOnItsWay
  <2>6. \A t \in Sockets, n \in Notes : t # s /\ UpdateOnItsWay(t, n) => UpdateOnItsWay(t, n)'
    BY <2>2 DEF UpdateOnItsWay
  <2> QED
    BY <2>4, <2>5, <2>6
<1> QED
  BY <1>1, <1>2

\* A message that is taken leaves those behind it.
LEMMA TakenAway ==
  ASSUME TypeOK, NEW s \in Sockets, Receives(s), Consume(s)
  PROVE  \A t \in Sockets, n \in Notes :
           UpdateOnItsWay(t, n) =>
             \/ UpdateOnItsWay(t, n)'
             \/ t = s /\ Head(upstream[s]).type = "update" /\ Head(upstream[s]).note = n
<1>1. upstream[s] \in Seq(Messages) /\ upstream[s] # <<>>
  BY DEF TypeOK, Receives
<1>2. /\ upstream'[s] = Tail(upstream[s])
      /\ \A t \in Sockets : t # s => upstream'[t] = upstream[t]
  BY DEF Consume, TypeOK
<1>3. \A i \in DOMAIN upstream[s] :
        \/ i = 1
        \/ i - 1 \in DOMAIN upstream'[s] /\ upstream'[s][i - 1] = upstream[s][i]
  BY <1>1, <1>2
<1>4. upstream[s][1] = Head(upstream[s])
  BY <1>1
<1>5. ASSUME NEW n \in Notes, UpdateOnItsWay(s, n)
      PROVE  \/ UpdateOnItsWay(s, n)'
             \/ Head(upstream[s]).type = "update" /\ Head(upstream[s]).note = n
  <2>1. PICK i \in DOMAIN upstream[s] : upstream[s][i].type = "update" /\ upstream[s][i].note = n
    BY <1>5 DEF UpdateOnItsWay
  <2> QED
    BY <1>3, <1>4, <2>1 DEF UpdateOnItsWay
<1>6. \A t \in Sockets, n \in Notes : t # s /\ UpdateOnItsWay(t, n) => UpdateOnItsWay(t, n)'
  BY <1>2 DEF UpdateOnItsWay
<1> QED
  BY <1>5, <1>6

\* What a step must do to a note that is noticed: leave every sign of it, or put
\* another in its place.
Signs(s, n) == n \in missed \/ UnderWay(s, n)

LEMMA SignsKept ==
  ASSUME NEW s \in Sockets, NEW n \in Notes, Signs(s, n),
         n \in missed => Signs(s, n)',
         pending[n] > 0 => Signs(s, n)',
         copies[s][n] > 0 => Signs(s, n)',
         writing[n] > 0 => Signs(s, n)',
         UpdateOnItsWay(s, n) => Signs(s, n)',
         \A o \in Outcomes : updating[n][o] > 0 => Signs(s, n)'
  PROVE  Signs(s, n)'
BY DEF Signs, UnderWay

LEMMA MoreStays ==
  ASSUME NEW S, NEW T, NEW f, f \in [S -> [T -> Nat]], NEW s \in S, NEW t \in T
  PROVE  /\ \A a \in S, b \in T : f[a][b] > 0 => More(f, s, t)[a][b] > 0
         /\ More(f, s, t)[s][t] > 0
<1> DEFINE g == [f[s] EXCEPT ![t] = f[s][t] + 1]
<1>1. f[s] \in [T -> Nat] /\ f[s][t] \in Nat
  OBVIOUS
<1>2. g[t] > 0 /\ \A b \in T : b # t => g[b] = f[s][b]
  BY <1>1
<1>3. More(f, s, t) = [f EXCEPT ![s] = g]
  BY DEF More
<1> HIDE DEF g
<1>4. More(f, s, t)[s] = g /\ \A a \in S : a # s => More(f, s, t)[a] = f[a]
  BY <1>3
<1> QED
  BY <1>2, <1>4

LEMMA LessStays ==
  ASSUME NEW S, NEW T, NEW f, f \in [S -> [T -> Nat]], NEW s \in S, NEW t \in T
  PROVE  \A a \in S, b \in T : f[a][b] > 0 /\ ~(a = s /\ b = t) => Less(f, s, t)[a][b] > 0
<1> DEFINE g == [f[s] EXCEPT ![t] = f[s][t] - 1]
<1>1. f[s] \in [T -> Nat]
  OBVIOUS
<1>2. \A b \in T : b # t => g[b] = f[s][b]
  BY <1>1
<1>3. Less(f, s, t) = [f EXCEPT ![s] = g]
  BY DEF Less
<1> HIDE DEF g
<1>4. Less(f, s, t)[s] = g /\ \A a \in S : a # s => Less(f, s, t)[a] = f[a]
  BY <1>3
<1> QED
  BY <1>2, <1>4

LEMMA GatewayNotices ==
  ASSUME TypeOK, OneLink, Noticed
  PROVE  /\ \A n \in Notes :
              /\ sendPartnerNoteRecord(n) \/ notifyDeliveryQueued(n) => Noticed'
              /\ \A o \in Outcomes : settle(n, o) \/ settleFails(n, o) => Noticed'
         /\ \A s \in Sockets :
              /\ receiveHello(s) \/ receiveUpdate(s) => Noticed'
              /\ pollDeliveries(s) \/ helloFails(s) \/ gatewayCloses(s) => Noticed'
         /\ gatewayRestarts => Noticed'
<1> SUFFICES ASSUME NEW s \in Sockets, NEW n \in Notes, Polled(s)', status'[n] = "queued",
                    \/ \E m \in Notes : \/ sendPartnerNoteRecord(m) \/ notifyDeliveryQueued(m)
                                        \/ \E o \in Outcomes : settle(m, o) \/ settleFails(m, o)
                    \/ \E t \in Sockets : \/ receiveHello(t) \/ receiveUpdate(t)
                                          \/ pollDeliveries(t) \/ helloFails(t) \/ gatewayCloses(t)
                    \/ gatewayRestarts
             PROVE  Signs(s, n)'
  BY DEF Noticed, Signs
<1>0. Polled(s) /\ status[n] = "queued" => Signs(s, n)
  BY DEF Noticed, Signs
<1>1. ASSUME NEW m \in Notes, sendPartnerNoteRecord(m) PROVE Signs(s, n)'
  <2>1. PICK k \in 0..2 : /\ pending' = [pending EXCEPT ![m] = k]
                          /\ missed' = IF k = 0 THEN missed \cup {m} ELSE missed
    BY <1>1 DEF sendPartnerNoteRecord
  <2>2. UNCHANGED <<near, registered, greeting, updating, wsClient, link, copies, writing, upstream>>
    BY <1>1 DEF sendPartnerNoteRecord
  <2>3. CASE m = n
    BY <2>1, <2>3 DEF Signs, UnderWay, TypeOK
  <2>4. CASE m # n
    <3>1. status[n] = "queued" /\ Polled(s)
      BY <1>1, <2>2, <2>4 DEF sendPartnerNoteRecord, Polled, TypeOK
    <3>2. pending'[n] = pending[n] /\ missed \subseteq missed'
      BY <2>1, <2>4 DEF TypeOK
    <3> QED
      BY <1>0, <2>2, <3>1, <3>2 DEF Signs, UnderWay, UpdateOnItsWay
  <2> QED
    BY <2>3, <2>4
<1>2. ASSUME NEW m \in Notes, notifyDeliveryQueued(m) PROVE Signs(s, n)'
  <2>1. /\ UNCHANGED <<status, near, registered, greeting, updating, wsClient, link,
                       writing, upstream>>
        /\ pending[m] > 0 /\ pending' = [pending EXCEPT ![m] = @ - 1]
    BY <1>2 DEF notifyDeliveryQueued
  <2>2. Polled(s) /\ status[n] = "queued"
    BY <2>1 DEF Polled
  <2>3. /\ TargetSocket \in Sockets /\ near[TargetSocket] = "open"
        /\ TargetSocket # NoSocket
    BY <2>2, TargetListed DEF Polled
  <2>4. m # n => pending'[n] = pending[n]
    BY <2>1 DEF TypeOK
  <2>5. CASE link[TargetSocket] = "up"
    <3>1. TargetSocket = s
      BY <2>2, <2>3, <2>5 DEF OneLink, Polled
    <3>2. copies' = More(copies, s, m) /\ missed' = missed
      BY <1>2, <2>3, <2>5, <3>1 DEF notifyDeliveryQueued
    <3>3. copies \in [Sockets -> [Notes -> Nat]]
      BY DEF TypeOK
    <3>4. /\ copies[s][n] > 0 => copies'[s][n] > 0
          /\ copies'[s][m] > 0
      BY <3>2, <3>3, MoreStays
    <3> QED
      BY <1>0, <2>1, <2>2, <2>4, <3>2, <3>4 DEF Signs, UnderWay, UpdateOnItsWay
  <2>6. CASE link[TargetSocket] # "up"
    <3>1. missed' = missed \cup {m} /\ copies' = copies
      BY <1>2, <2>3, <2>6 DEF notifyDeliveryQueued
    <3> QED
      BY <1>0, <2>1, <2>2, <2>4, <3>1 DEF Signs, UnderWay, UpdateOnItsWay
  <2> QED
    BY <2>5, <2>6
<1>3. ASSUME NEW m \in Notes, NEW o \in Outcomes, settle(m, o) \/ settleFails(m, o)
      PROVE  Signs(s, n)'
  <2>1. /\ updating[m][o] > 0 /\ updating' = Less(updating, m, o)
        /\ UNCHANGED <<pending, near, registered, greeting, wsClient, link, copies,
                       writing, upstream>>
        /\ missed \subseteq missed'
    BY <1>3 DEF settle, settleFails
  <2>2. updating \in [Notes -> [Outcomes -> Nat]]
    BY DEF TypeOK
  <2>3. m # n => \A p \in Outcomes : updating[n][p] > 0 => updating'[n][p] > 0
    BY <2>1, <2>2, LessStays
  <2>4. CASE m = n
    <3>1. ~settle(m, o)
      BY <2>4 DEF settle, TypeOK, Outcomes
    <3> QED
      BY <1>3, <2>4, <3>1 DEF settleFails, Signs
  <2>5. CASE m # n
    <3>1. Polled(s) /\ status[n] = "queued"
      BY <1>3, <2>1, <2>5 DEF settle, settleFails, Polled, TypeOK
    <3> QED
      BY <1>0, <2>1, <2>3, <2>5, <3>1 DEF Signs, UnderWay, UpdateOnItsWay
  <2> QED
    BY <2>4, <2>5
<1>4. ASSUME NEW t \in Sockets, receiveHello(t) PROVE Signs(s, n)'
  <2>1. /\ UNCHANGED <<status, near, wsClient, link, pending, copies, writing, updating, missed>>
        /\ Receives(t) /\ Consume(t) /\ Head(upstream[t]).type # "update"
    BY <1>4 DEF receiveHello
  <2>2. t # s
    BY <1>4 DEF receiveHello, Polled, TypeOK
  <2>3. Polled(s) /\ status[n] = "queued"
    BY <1>4, <2>1, <2>2 DEF receiveHello, Polled, TypeOK
  <2>4. UpdateOnItsWay(s, n) => UpdateOnItsWay(s, n)'
    BY <2>1, TakenAway
  <2> QED
    BY <1>0, <2>1, <2>3, <2>4 DEF Signs, UnderWay
<1>5. ASSUME NEW t \in Sockets, receiveUpdate(t) PROVE Signs(s, n)'
  <2>1. /\ UNCHANGED <<status, near, wsClient, link, pending, copies, writing, registered,
                       greeting, missed>>
        /\ Receives(t) /\ Consume(t) /\ Head(upstream[t]).type = "update"
    BY <1>5 DEF receiveUpdate
  <2>2. Polled(s) /\ status[n] = "queued"
    BY <2>1 DEF Polled
  <2> DEFINE u == Head(upstream[t])
  <2>3. u.note \in Notes /\ u.outcome \in Outcomes
    BY <2>1, Consumed DEF Messages
  <2>4. updating \in [Notes -> [Outcomes -> Nat]]
    BY DEF TypeOK
  <2>5. \/ updating' = updating /\ registered[t] = "none"
        \/ updating' = More(updating, u.note, u.outcome)
    BY <1>5 DEF receiveUpdate
  <2>6. /\ \A o \in Outcomes : updating[n][o] > 0 => updating'[n][o] > 0
        /\ registered[t] # "none" => updating'[u.note][u.outcome] > 0
    BY <2>3, <2>4, <2>5, MoreStays
  <2>7. UpdateOnItsWay(s, n) =>
          UpdateOnItsWay(s, n)' \/ (t = s /\ u.note = n)
    BY <2>1, TakenAway
  <2>8. registered[s] # "none"
    BY <2>2 DEF Polled
  <2> QED
    BY <1>0, <2>1, <2>2, <2>3, <2>6, <2>7, <2>8 DEF Signs, UnderWay
<1>6. ASSUME NEW t \in Sockets, pollDeliveries(t) PROVE Signs(s, n)'
  <2>1. UNCHANGED <<status, near, wsClient, link, pending, writing, registered, updating, upstream>>
    BY <1>6 DEF pollDeliveries
  <2>2. n \in Queued
    BY <2>1 DEF Queued
  <2>3. near[s] = "open" /\ link[s] = "up" /\ wsClient = s
    BY <2>1 DEF Polled
  <2>4. CASE near[t] = "open" /\ link[t] = "up"
    <3>1. t = s
      BY <2>3, <2>4 DEF OneLink
    <3>2. missed' = (missed \ Batch) \cup Overflow
      BY <1>6, <2>4 DEF pollDeliveries
    <3> DEFINE sent == [p \in Notes |-> IF p \in Batch THEN copies[s][p] + 1 ELSE copies[s][p]]
    <3>3. copies' = [copies EXCEPT ![s] = sent]
      BY <1>6, <2>4, <3>1 DEF pollDeliveries
    <3>4. copies'[s] = sent
      BY <3>3 DEF TypeOK
    <3>5. CASE n \in Batch
      <4>1. copies'[s][n] = copies[s][n] + 1 /\ copies[s][n] \in Nat
        BY <3>4, <3>5 DEF TypeOK
      <4> QED
        BY <4>1 DEF Signs, UnderWay
    <3>6. CASE n \notin Batch
      <4>1. n \in Overflow
        <5>1. IsFiniteSet(Older(n))
          BY ParameterAssumption, FS_Subset DEF Older, Queued
        <5>2. Cardinality(Older(n)) \in Nat
          BY <5>1, FS_CardinalityType
        <5> QED
          BY <2>2, <3>6, <5>2, ParameterAssumption DEF Batch, Overflow
      <4> QED
        BY <3>2, <4>1 DEF Signs
    <3> QED
      BY <3>5, <3>6
  <2>5. CASE ~(near[t] = "open" /\ link[t] = "up")
    <3>1. UNCHANGED <<copies, missed>> /\ t # s
      BY <1>6, <2>3, <2>5 DEF pollDeliveries
    <3>2. Polled(s) /\ status[n] = "queued"
      BY <1>6, <2>1, <3>1 DEF pollDeliveries, Polled, TypeOK
    <3> QED
      BY <1>0, <2>1, <3>1, <3>2 DEF Signs, UnderWay, UpdateOnItsWay
  <2> QED
    BY <2>4, <2>5
<1>7. ASSUME NEW t \in Sockets, helloFails(t) PROVE Signs(s, n)'
  BY <1>7 DEF helloFails, Queued, Signs
<1>8. ASSUME NEW t \in Sockets, gatewayCloses(t) PROVE Signs(s, n)'
  <2>1. /\ UNCHANGED <<status, wsClient, link, pending, copies, writing, greeting, updating,
                       upstream, missed>>
        /\ t # s
    BY <1>8 DEF gatewayCloses, Polled, TypeOK
  <2>2. Polled(s) /\ status[n] = "queued"
    BY <1>8, <2>1 DEF gatewayCloses, Polled, TypeOK
  <2> QED
    BY <1>0, <2>1, <2>2 DEF Signs, UnderWay, UpdateOnItsWay
<1>9. ASSUME gatewayRestarts PROVE FALSE
  BY <1>9 DEF gatewayRestarts, Polled, TypeOK
<1> QED
  BY <1>1, <1>2, <1>3, <1>4, <1>5, <1>6, <1>7, <1>8, <1>9

\* A report of a client whose gateway has polled goes up to the gateway.
LEMMA ReportNoticed ==
  ASSUME TypeOK, OneLink, NEW s \in Sockets, Polled(s), NEW m \in Notes, NEW o \in Outcomes,
         Report(m, o)
  PROVE  /\ UpdateOnItsWay(s, m)'
         /\ \A n \in Notes : UpdateOnItsWay(s, n) => UpdateOnItsWay(s, n)'
<1>1. wsClient = s /\ IsOpen(s) /\ link[s] = "up"
  BY ParameterAssumption DEF Polled, OneLink, IsOpen
<1>2. upstream' = Sent(s, Update(m, o)) /\ Update(m, o) \in Messages
  BY <1>1, MessageTypes DEF Report
<1>3. Update(m, o).type = "update" /\ Update(m, o).note = m
  BY DEF Update
<1> QED
  BY <1>1, <1>2, <1>3, SentArrives

LEMMA ClientNotices ==
  ASSUME TypeOK, OneLink, Noticed
  PROVE  /\ \A n \in Notes :
              /\ materialize(n) \/ materializeFails(n) => Noticed'
              /\ markXchangeRecordRead(n) => Noticed'
              /\ \A s \in Sockets : receiveDelivery(s, n) => Noticed'
         /\ \A s \in Sockets :
              /\ startGatewayWsClient(s) \/ connects(s) \/ clientCloses(s) => Noticed'
              /\ connectionLost(s) \/ clientRestarts(s) => Noticed'
              /\ sendClientHello(s) => Noticed'
         /\ refreshClientHello \/ consoleChanges => Noticed'
<1> SUFFICES ASSUME NEW s \in Sockets, NEW n \in Notes, Polled(s)', status'[n] = "queued",
                    \/ \E m \in Notes : \/ materialize(m) \/ materializeFails(m)
                                        \/ markXchangeRecordRead(m)
                                        \/ \E t \in Sockets : receiveDelivery(t, m)
                    \/ \E t \in Sockets : \/ startGatewayWsClient(t) \/ connects(t)
                                          \/ clientCloses(t) \/ connectionLost(t)
                                          \/ clientRestarts(t) \/ sendClientHello(t)
                    \/ refreshClientHello \/ consoleChanges
             PROVE  Signs(s, n)'
  BY DEF Noticed, Signs
<1>0. Polled(s) /\ status[n] = "queued" => Signs(s, n)
  BY DEF Noticed, Signs
<1>1. ASSUME NEW m \in Notes, materialize(m) \/ materializeFails(m) PROVE Signs(s, n)'
  <2>1. /\ UNCHANGED <<gateway, wsClient, link, copies, missed>>
        /\ writing' = [writing EXCEPT ![m] = @ - 1]
    BY <1>1 DEF materialize, materializeFails
  <2>2. PICK o \in Outcomes : Report(m, o)
    BY <1>1 DEF materialize, materializeFails, Outcomes
  <2>3. Polled(s) /\ status[n] = "queued"
    BY <2>1 DEF Polled
  <2>4. /\ UpdateOnItsWay(s, m)'
        /\ UpdateOnItsWay(s, n) => UpdateOnItsWay(s, n)'
    BY <2>2, <2>3, ReportNoticed
  <2>5. n # m => writing'[n] = writing[n]
    BY <2>1 DEF TypeOK
  <2> QED
    BY <1>0, <2>1, <2>3, <2>4, <2>5 DEF Signs, UnderWay
<1>2. ASSUME NEW m \in Notes, NEW t \in Sockets, receiveDelivery(t, m) PROVE Signs(s, n)'
  <2>1. /\ UNCHANGED <<gateway, wsClient, link, missed>>
        /\ copies' = Less(copies, t, m)
    BY <1>2 DEF receiveDelivery
  <2>2. Polled(s) /\ status[n] = "queued"
    BY <2>1 DEF Polled
  <2>3. copies \in [Sockets -> [Notes -> Nat]]
    BY DEF TypeOK
  <2>4. copies[s][n] > 0 => copies'[s][n] > 0 \/ (t = s /\ m = n)
    BY <2>1, <2>3, LessStays
  <2>5. CASE console
    <3>1. writing' = [writing EXCEPT ![m] = @ + 1] /\ upstream' = upstream
      BY <1>2, <2>5 DEF receiveDelivery
    <3>2. writing'[m] > 0 /\ (writing[n] > 0 => writing'[n] > 0)
      BY <3>1 DEF TypeOK
    <3> QED
      BY <1>0, <2>1, <2>2, <2>4, <3>1, <3>2 DEF Signs, UnderWay, UpdateOnItsWay
  <2>6. CASE ~console
    <3>1. Report(m, "delivered") /\ "delivered" \in Outcomes /\ writing' = writing
      BY <1>2, <2>6 DEF receiveDelivery, Outcomes
    <3>2. /\ UpdateOnItsWay(s, m)'
          /\ UpdateOnItsWay(s, n) => UpdateOnItsWay(s, n)'
      BY <2>2, <3>1, ReportNoticed
    <3> QED
      BY <1>0, <2>1, <2>2, <2>4, <3>1, <3>2 DEF Signs, UnderWay
  <2> QED
    BY <2>5, <2>6
<1>3. ASSUME UNCHANGED <<gateway, wsClient, link, copies, upstream, writing, missed>>
      PROVE  Signs(s, n)'
  BY <1>0, <1>3 DEF Signs, Polled, UnderWay, UpdateOnItsWay
<1>4. ASSUME NEW m \in Notes, markXchangeRecordRead(m) PROVE Signs(s, n)'
  BY <1>3, <1>4 DEF markXchangeRecordRead
<1>5. ASSUME NEW t \in Sockets, startGatewayWsClient(t) PROVE FALSE
  BY <1>5 DEF startGatewayWsClient, Polled, OneLink
<1>6. ASSUME NEW t \in Sockets, connects(t) PROVE Signs(s, n)'
  <2>1. registered[t] = "none"
    BY <1>6 DEF connects, OneLink
  <2>2. /\ t # s
        /\ UNCHANGED <<status, wsClient, registered, greeting, pending, copies, writing,
                       updating, upstream, missed>>
    BY <1>6, <2>1 DEF connects, Polled
  <2>3. Polled(s) /\ status[n] = "queued"
    BY <1>6, <2>2 DEF connects, Polled, TypeOK
  <2> QED
    BY <1>0, <2>2, <2>3 DEF Signs, UnderWay, UpdateOnItsWay
<1>7. ASSUME NEW t \in Sockets, clientCloses(t) PROVE Signs(s, n)'
  <2>1. UNCHANGED wsClient
    BY <1>7, ParameterAssumption DEF clientCloses, Polled
  <2> QED
    BY <1>3, <1>7, <2>1 DEF clientCloses
<1>8. ASSUME NEW t \in Sockets, connectionLost(t) PROVE Signs(s, n)'
  <2>1. /\ t # s /\ copies'[s] = copies[s] /\ upstream'[s] = upstream[s]
        /\ link'[s] = link[s]
    BY <1>8 DEF connectionLost, Break, Polled, TypeOK
  <2>2. UNCHANGED <<gateway, wsClient, writing, missed>>
    BY <1>8 DEF connectionLost
  <2> QED
    BY <1>0, <2>1, <2>2 DEF Signs, Polled, UnderWay, UpdateOnItsWay
<1>9. ASSUME NEW t \in Sockets, clientRestarts(t) PROVE FALSE
  BY <1>9, ParameterAssumption DEF clientRestarts, Polled
<1>10. ASSUME NEW t \in Sockets \cup {NoSocket}, upstream' = Sent(t, Hello(Listing)),
              UNCHANGED <<gateway, wsClient, link, copies, writing, missed>>
       PROVE  Signs(s, n)'
  <2>1. Hello(Listing) \in Messages
    BY MessageTypes DEF Listing
  <2>2. UpdateOnItsWay(s, n) => UpdateOnItsWay(s, n)'
    BY <1>10, <2>1, SentArrives
  <2> QED
    BY <1>0, <1>10, <2>2 DEF Signs, Polled, UnderWay
<1>11. ASSUME NEW t \in Sockets, sendClientHello(t) PROVE Signs(s, n)'
  BY <1>10, <1>11 DEF sendClientHello
<1>12. ASSUME refreshClientHello PROVE Signs(s, n)'
  <2>1. wsClient \in Sockets \cup {NoSocket}
    BY DEF TypeOK
  <2> QED
    BY <1>10, <1>12, <2>1 DEF refreshClientHello
<1>13. ASSUME consoleChanges PROVE Signs(s, n)'
  BY <1>3, <1>13 DEF consoleChanges
<1> QED
  BY <1>1, <1>2, <1>4, <1>5, <1>6, <1>7, <1>8, <1>9, <1>11, <1>12, <1>13

\* No note slips between its announcement and the poll of a hello: a queued note
\* of a client the gateway has greeted is on its way there or back, unless an
\* error, the poll's limit or a dead socket hid it.
THEOREM NoNoteSlips == Spec => []NothingForgotten
<1>1. TypeOK /\ OneLink /\ Noticed /\ [Next]_vars => Noticed'
  <2> SUFFICES ASSUME TypeOK, OneLink, Noticed, [Next]_vars PROVE Noticed'
    OBVIOUS
  <2>1. CASE Next
    BY <2>1, GatewayNotices, ClientNotices DEF Next, Environment, Handlers, Connection
  <2>2. CASE UNCHANGED vars
    BY <2>2 DEF vars, Noticed, Polled, UnderWay, UpdateOnItsWay
  <2> QED
    BY <2>1, <2>2
<1>2. Noticed => NothingForgotten
  BY DEF Noticed, NothingForgotten, Polled, Ready
<1> QED
  BY <1>1, <1>2, LinksStart, LinksStep, DeliveryTypes, PTL DEF Spec
=============================================================================
