-------------------------- MODULE LiveConsolesProofs --------------------------
(***************************************************************************)
(* Proofs about LiveConsoles, for any consoles, sockets and hellos: types, *)
(* and that handlers which run one after another keep the table exact.     *)
(***************************************************************************)
EXTENDS LiveConsoles, NaturalsInduction, WellFoundedInduction, TLAPS

\* What is so of a handler whatever the others do.
HandlerInv ==
  /\ \A h \in Hellos :
       /\ sync[h].pc # "new" =>
            sync[h].socket \in Sockets /\ near[sync[h].socket] # "new"
       /\ sync[h].pc = "delete" => sync[h].todo = sync[h].consoles
       /\ sync[h].pc \in {"lookUp", "write"} => sync[h].todo # {}
       /\ sync[h].pc = "done" => sync[h].todo = {}
       /\ sync[h].todo \subseteq sync[h].consoles
  /\ \A h, k \in Hellos : k < h /\ sync[h].pc # "new" => sync[k].pc # "new"
  /\ \A s \in Sockets : connectedClients[s] # None =>
       /\ near[s] = "open"
       /\ sync[connectedClients[s]].pc # "new"
       /\ sync[connectedClients[s]].socket = s
  /\ \A s \in removing : near[s] = "closed"

\* A handler is alone, and its hello is the newest and the socket's last.
Alone ==
  \A h \in Hellos : Running(h) =>
    /\ \A k \in Hellos : Running(k) => k = h
    /\ removing = {}
    /\ Newest(h)
    /\ connectedClients[sync[h].socket] = h

\* A row's socket is about to be removed or lists the console.
Founded(c) ==
  LET s == row[c].connection
  IN \/ s \in removing
     \/ /\ near[s] = "open" /\ connectedClients[s] # None
        /\ \/ c \in sync[connectedClients[s]].consoles
           \/ sync[connectedClients[s]].pc = "delete"

\* The newest hello has written what it is past.
Recorded(h) ==
  /\ sync[h].pc # "failed"
  /\ \/ sync[h].pc = "delete"
     \/ \A c \in sync[h].consoles \ sync[h].todo : row[c].connection = sync[h].socket

\* What a handler found is still so when it writes.
Fresh ==
  \A h \in Hellos : sync[h].pc = "write" =>
    sync[h].existing = row[First(sync[h].todo)].uuid

Exact ==
  /\ Alone
  /\ \A c \in Consoles : Routable(c) => Founded(c)
  /\ \A h \in Hellos : Newest(h) /\ Connected(h) => Recorded(h)
  /\ Fresh

Serial == collided = {} /\ ~spoiled
SerialInv == Serial => Exact

IInv == TypeOK /\ HandlerInv /\ SerialInv

-----------------------------------------------------------------------------
(* A listing has a first console: the naturals are well-founded.            *)
LEMMA MinExists ==
  ASSUME NEW T \in SUBSET Nat, T # {}
  PROVE  \E x \in T : \A y \in T : x <= y
<1>. DEFINE R == {p \in Nat \X Nat : p[1] < p[2]}
<1>1. IsWellFoundedOn(R, Nat)
  <2>1. IsWellFoundedOn(OpToRel(<, Nat), Nat)
    BY NatLessThanWellFounded
  <2>. QED BY <2>1 DEF OpToRel
<1>2. \A x, y \in Nat : <<y, x>> \in R <=> y < x
  OBVIOUS
<1>. HIDE DEF R
<1>3. PICK x \in T : \A y \in T : ~(<<y, x>> \in R)
  BY <1>1, WFMin
<1>4. \A y \in T : ~(y < x)
  BY <1>2, <1>3
<1>. QED BY <1>4

(* The console at hand is one of those left.                                *)
LEMMA FirstIsLeft ==
  ASSUME NEW todo \in SUBSET Consoles, todo # {}
  PROVE  First(todo) \in todo
<1>1. \E c \in todo : \A d \in todo : c <= d
  BY MinExists, ParameterAssumption
<1>. QED BY <1>1 DEF First

(* A write moves its own handler to the next console, and no other.         *)
LEMMA WrittenMoves ==
  ASSUME TypeOK, NEW h \in Hellos, sync[h].pc = "write", sync' = Written(h)
  PROVE  LET rest == sync[h].todo \ {First(sync[h].todo)}
         IN /\ sync'[h] = [pc |-> Looping(rest), socket |-> sync[h].socket,
                           consoles |-> sync[h].consoles, todo |-> rest,
                           existing |-> None]
            /\ \A k \in Hellos : k # h => sync'[k] = sync[k]
            /\ sync' \in [Hellos -> Handlers]
<1>. DEFINE rest == sync[h].todo \ {First(sync[h].todo)}
<1>1. sync[h] \in Handlers
  BY DEF TypeOK
<1>2. Looping(rest) \in {"done", "lookUp"}
  BY DEF Looping
<1>3. sync' = [sync EXCEPT ![h].pc = Looping(rest), ![h].todo = rest,
                           ![h].existing = None]
  BY DEF Written
<1>. HIDE DEF rest
<1>4. rest \in SUBSET Consoles
  BY <1>1 DEF rest, Handlers
<1>. DEFINE r == [pc |-> Looping(rest), socket |-> sync[h].socket,
                  consoles |-> sync[h].consoles, todo |-> rest, existing |-> None]
<1>5. sync'[h] = r
  BY <1>1, <1>3 DEF TypeOK, Handlers
<1>6. \A k \in Hellos : k # h => sync'[k] = sync[k]
  BY <1>3 DEF TypeOK
<1>7. r \in Handlers
  BY <1>1, <1>2, <1>4 DEF Handlers
<1>8. sync' = [k \in Hellos |-> sync'[k]]
  BY <1>3 DEF TypeOK
<1>9. \A k \in Hellos : sync'[k] \in Handlers
  BY <1>5, <1>6, <1>7 DEF TypeOK
<1>10. sync' \in [Hellos -> Handlers]
  BY <1>8, <1>9
<1>. QED BY <1>5, <1>6, <1>10 DEF rest

-----------------------------------------------------------------------------
(* Every step of a handler leaves the others, its socket and its listing     *)
(* alone, and takes from what it has to write at most what it writes.        *)
HandlerStep(h) ==
  /\ sync' \in [Hellos -> Handlers]
  /\ \A k \in Hellos : k # h => sync'[k] = sync[k]
  /\ sync'[h].socket = sync[h].socket
  /\ sync'[h].consoles = sync[h].consoles
  /\ sync'[h].todo \subseteq sync[h].todo
  /\ sync'[h].pc \in {"lookUp", "write", "done", "failed"}
  /\ sync'[h].pc \in {"lookUp", "write"} => sync'[h].todo # {}
  /\ sync'[h].pc = "done" => sync'[h].todo = {}

LEMMA HandlerSteps ==
  ASSUME TypeOK, HandlerInv, NEW h \in Hellos, Sync(h) \/ syncFails(h)
  PROVE  HandlerStep(h)
<1>. USE DEF HandlerStep
<1>1. sync[h] \in Handlers
  BY DEF TypeOK
<1>2. CASE deleteOwn(h)
  <2>1. sync' = [sync EXCEPT ![h].pc = Looping(sync[h].todo)]
    BY <1>2 DEF deleteOwn
  <2>2. Looping(sync[h].todo) = IF sync[h].todo = {} THEN "done" ELSE "lookUp"
    BY DEF Looping
  <2>. QED BY <1>1, <2>1, <2>2 DEF TypeOK, Handlers
<1>3. CASE lookUp(h)
  <2>. DEFINE found == row[First(sync[h].todo)].uuid
  <2>1. sync' = [sync EXCEPT ![h].pc = "write", ![h].existing = found]
    BY <1>3 DEF lookUp
  <2>2. sync[h].pc = "lookUp" /\ sync[h].todo # {} /\ sync[h].todo \in SUBSET Consoles
    BY <1>1, <1>3 DEF lookUp, HandlerInv, Handlers
  <2>3. First(sync[h].todo) \in Consoles
    BY <2>2, FirstIsLeft
  <2>4. found \in Hellos \cup {None}
    BY <2>3 DEF TypeOK, Rows, NoRow
  <2>. HIDE DEF found
  <2>. QED BY <1>1, <2>1, <2>2, <2>4 DEF TypeOK, Handlers
<1>4. CASE updateRow(h) \/ insertRow(h)
  <2>1. sync[h].pc = "write" /\ sync' = Written(h)
    BY <1>4 DEF updateRow, insertRow
  <2>. DEFINE rest == sync[h].todo \ {First(sync[h].todo)}
  <2>2. /\ sync'[h] = [pc |-> Looping(rest), socket |-> sync[h].socket,
                       consoles |-> sync[h].consoles, todo |-> rest, existing |-> None]
        /\ \A k \in Hellos : k # h => sync'[k] = sync[k]
        /\ sync' \in [Hellos -> Handlers]
    BY <2>1, WrittenMoves
  <2>3. Looping(rest) = IF rest = {} THEN "done" ELSE "lookUp"
    BY DEF Looping
  <2>4. rest \subseteq sync[h].todo
    OBVIOUS
  <2>. HIDE DEF rest
  <2>. QED BY <2>2, <2>3, <2>4
<1>5. CASE insertRefused(h) \/ syncFails(h)
  <2>1. sync' = [sync EXCEPT ![h].pc = "failed"]
    BY <1>5 DEF insertRefused, syncFails
  <2>. QED BY <1>1, <2>1 DEF TypeOK, Handlers
<1>. QED BY <1>2, <1>3, <1>4, <1>5 DEF Sync

(* The rows a handler's step leaves are rows, or none.                       *)
LEMMA RowsStayRows ==
  ASSUME TypeOK, HandlerInv, NEW h \in Hellos, Sync(h) \/ syncFails(h)
  PROVE  row' \in [Consoles -> Rows \cup {NoRow}]
<1>1. sync[h] \in Handlers
  BY DEF TypeOK
<1>2. sync[h].pc # "new" => sync[h].socket \in Sockets
  BY DEF HandlerInv
<1>3. CASE deleteOwn(h)
  BY <1>3 DEF deleteOwn, Without, TypeOK
<1>4. CASE updateRow(h)
  <2>. DEFINE c == First(sync[h].todo)
              r == IF row[c].uuid = sync[h].existing
                   THEN [uuid |-> row[c].uuid, connection |-> sync[h].socket]
                   ELSE row[c]
  <2>1. row' = [row EXCEPT ![c] = r]
    BY <1>4 DEF updateRow
  <2>2. sync[h].pc = "write" /\ sync[h].existing \in Hellos
    BY <1>1, <1>4 DEF updateRow, Handlers
  <2>3. c \in Consoles
    BY <1>1, <2>2, FirstIsLeft DEF HandlerInv, Handlers
  <2>4. r \in Rows \cup {NoRow}
    BY <1>2, <2>2, <2>3 DEF TypeOK, Rows
  <2>. HIDE DEF r, c
  <2>. QED BY <2>1, <2>4 DEF TypeOK
<1>5. CASE insertRow(h)
  <2>. DEFINE r == [uuid |-> h, connection |-> sync[h].socket]
  <2>1. row' = [row EXCEPT ![First(sync[h].todo)] = r]
    BY <1>5 DEF insertRow
  <2>2. r \in Rows
    BY <1>2, <1>5 DEF insertRow, Rows
  <2>. HIDE DEF r
  <2>. QED BY <2>1, <2>2 DEF TypeOK
<1>6. CASE lookUp(h) \/ insertRefused(h) \/ syncFails(h)
  BY <1>6 DEF lookUp, insertRefused, syncFails, TypeOK
<1>. QED BY <1>3, <1>4, <1>5, <1>6 DEF Sync

-----------------------------------------------------------------------------
(* receiveHello makes a fresh handler of a fresh hello.                      *)
LEMMA HelloSteps ==
  ASSUME TypeOK, NEW h \in Hellos, NEW s \in Sockets, NEW listed \in SUBSET Consoles,
         receiveHello(h, s, listed)
  PROVE  /\ sync' \in [Hellos -> Handlers]
         /\ sync'[h] = [pc |-> "delete", socket |-> s, consoles |-> listed,
                        todo |-> listed, existing |-> None]
         /\ \A k \in Hellos : k # h => sync'[k] = sync[k]
<1>. DEFINE r == [pc |-> "delete", socket |-> s, consoles |-> listed, todo |-> listed,
                  existing |-> None]
<1>1. sync' = [sync EXCEPT ![h] = r]
  BY DEF receiveHello
<1>2. r \in Handlers
  BY DEF Handlers
<1>. HIDE DEF r
<1>3. sync'[h] = r
  BY <1>1 DEF TypeOK
<1>. QED BY <1>1, <1>2, <1>3 DEF TypeOK, r

(* A restart ends the handlers that run.                                     *)
LEMMA RestartSteps ==
  ASSUME TypeOK, restart
  PROVE  /\ sync' \in [Hellos -> Handlers]
         /\ \A h \in Hellos : sync'[h] =
              IF Running(h) THEN [sync[h] EXCEPT !.pc = "failed"] ELSE sync[h]
<1>1. \A h \in Hellos : sync'[h] =
         IF Running(h) THEN [sync[h] EXCEPT !.pc = "failed"] ELSE sync[h]
  BY DEF restart
<1>2. \A h \in Hellos : sync[h] \in Handlers
  BY DEF TypeOK
<1>3. \A h \in Hellos : [sync[h] EXCEPT !.pc = "failed"] \in Handlers
  BY <1>2 DEF Handlers
<1>4. sync' = [h \in Hellos |-> sync'[h]]
  BY DEF restart
<1>. QED BY <1>1, <1>2, <1>3, <1>4

(* Types, and with them that a step of a handler meets only its own row.     *)
LEMMA TypesHold == TypeOK /\ HandlerInv /\ [Next]_vars => TypeOK'
<1>. SUFFICES ASSUME TypeOK, HandlerInv, [Next]_vars PROVE TypeOK'
  OBVIOUS
<1>1. CASE UNCHANGED vars
  BY <1>1 DEF vars, TypeOK
<1>2. ASSUME NEW s \in Sockets,
             \/ connection(s) \/ close(s) \/ removeLiveConsoles(s) \/ removalFails(s)
      PROVE  TypeOK'
  <2>1. CASE connection(s)
    BY <2>1 DEF connection, TypeOK
  <2>2. CASE close(s)
    BY <2>2 DEF close, TypeOK, Met
  <2>3. CASE removeLiveConsoles(s)
    BY <2>3 DEF removeLiveConsoles, TypeOK, Without
  <2>4. CASE removalFails(s)
    BY <2>4 DEF removalFails, TypeOK
  <2>. QED BY <1>2, <2>1, <2>2, <2>3, <2>4
<1>3. ASSUME NEW h \in Hellos, NEW s \in Sockets, NEW listed \in SUBSET Consoles,
             receiveHello(h, s, listed)
      PROVE  TypeOK'
  <2>1. sync' \in [Hellos -> Handlers]
    BY <1>3, HelloSteps
  <2>. QED BY <1>3, <2>1 DEF receiveHello, TypeOK, Met
<1>4. ASSUME NEW h \in Hellos, Sync(h) \/ syncFails(h)
      PROVE  TypeOK'
  <2>1. sync' \in [Hellos -> Handlers]
    BY <1>4, HandlerSteps DEF HandlerStep
  <2>2. row' \in [Consoles -> Rows \cup {NoRow}]
    BY <1>4, RowsStayRows
  <2>3. /\ UNCHANGED <<near, connectedClients, removing, collided>>
        /\ spoiled' \in {spoiled, TRUE}
    BY <1>4 DEF Sync, deleteOwn, lookUp, updateRow, insertRow, insertRefused, syncFails
  <2>. QED BY <2>1, <2>2, <2>3 DEF TypeOK
<1>5. CASE pruneGatewayState
  BY <1>5 DEF pruneGatewayState, TypeOK
<1>6. CASE restart
  <2>1. sync' \in [Hellos -> Handlers]
    BY <1>6, RestartSteps
  <2>. QED BY <1>6, <2>1 DEF restart, TypeOK
<1>. QED BY <1>1, <1>2, <1>3, <1>4, <1>5, <1>6 DEF Next

LEMMA HandlersHold == TypeOK /\ HandlerInv /\ [Next]_vars => HandlerInv'
<1>. SUFFICES ASSUME TypeOK, HandlerInv, [Next]_vars PROVE HandlerInv'
  OBVIOUS
<1>1. CASE UNCHANGED vars
  BY <1>1 DEF vars, HandlerInv
<1>2. ASSUME NEW s \in Sockets,
             \/ connection(s) \/ close(s) \/ removeLiveConsoles(s) \/ removalFails(s)
      PROVE  HandlerInv'
  <2>1. CASE connection(s)
    BY <2>1 DEF connection, TypeOK, HandlerInv
  <2>2. CASE close(s)
    BY <2>2 DEF close, TypeOK, HandlerInv
  <2>3. CASE removeLiveConsoles(s) \/ removalFails(s)
    BY <2>3 DEF removeLiveConsoles, removalFails, TypeOK, HandlerInv
  <2>. QED BY <1>2, <2>1, <2>2, <2>3
<1>3. ASSUME NEW h \in Hellos, NEW s \in Sockets, NEW listed \in SUBSET Consoles,
             receiveHello(h, s, listed)
      PROVE  HandlerInv'
  <2>1. /\ sync'[h] = [pc |-> "delete", socket |-> s, consoles |-> listed,
                       todo |-> listed, existing |-> None]
        /\ \A k \in Hellos : k # h => sync'[k] = sync[k]
    BY <1>3, HelloSteps
  <2>2. /\ sync[h].pc = "new" /\ near[s] = "open"
        /\ \A k \in Hellos : k < h => sync[k].pc # "new"
        /\ connectedClients' = [connectedClients EXCEPT ![s] = h]
        /\ UNCHANGED <<near, removing>>
    BY <1>3 DEF receiveHello
  <2>3. h # None
    BY ParameterAssumption
  <2>. QED BY <2>1, <2>2, <2>3 DEF TypeOK, HandlerInv
<1>4. ASSUME NEW h \in Hellos, Sync(h) \/ syncFails(h)
      PROVE  HandlerInv'
  <2>1. HandlerStep(h)
    BY <1>4, HandlerSteps
  <2>2. UNCHANGED <<near, connectedClients, removing>>
    BY <1>4 DEF Sync, deleteOwn, lookUp, updateRow, insertRow, insertRefused, syncFails
  <2>3. sync[h].pc # "new"
    BY <1>4 DEF Sync, deleteOwn, lookUp, updateRow, insertRow, insertRefused, syncFails,
                Running
  <2>. QED BY <2>1, <2>2, <2>3 DEF HandlerStep, HandlerInv, TypeOK
<1>5. CASE pruneGatewayState
  BY <1>5 DEF pruneGatewayState, HandlerInv
<1>6. CASE restart
  <2>1. \A h \in Hellos : sync'[h] =
          IF Running(h) THEN [sync[h] EXCEPT !.pc = "failed"] ELSE sync[h]
    BY <1>6, RestartSteps
  <2>2. \A h \in Hellos : sync[h] \in Handlers
    BY DEF TypeOK
  <2>3. \A h \in Hellos :
          /\ sync'[h].socket = sync[h].socket /\ sync'[h].consoles = sync[h].consoles
          /\ sync'[h].todo = sync[h].todo
          /\ sync'[h].pc = IF Running(h) THEN "failed" ELSE sync[h].pc
    BY <2>1, <2>2 DEF Handlers
  <2>4. /\ \A s \in Sockets : connectedClients'[s] = None
        /\ removing' = {}
        /\ \A s \in Sockets : near[s] # "new" => near'[s] # "new"
    BY <1>6 DEF restart
  <2>. QED BY <2>3, <2>4 DEF HandlerInv, Running
<1>. QED BY <1>1, <1>2, <1>3, <1>4, <1>5, <1>6 DEF Next

-----------------------------------------------------------------------------
(* While handlers do not meet, each step keeps the table exact.              *)
LEMMA ConnectionsKeepExact ==
  ASSUME IInv, NEW s \in Sockets, Serial,
         connection(s) \/ close(s) \/ removeLiveConsoles(s), Serial'
  PROVE  Exact'
<1>. USE DEF IInv
<1>0. Exact
  BY DEF SerialInv
<1>1. CASE connection(s)
  <2>1. /\ near[s] = "new" /\ near' = [near EXCEPT ![s] = "open"]
        /\ UNCHANGED <<connectedClients, sync, removing, row>>
    BY <1>1 DEF connection
  <2>2. Alone' /\ Fresh'
    BY <1>0, <2>1 DEF Alone, Running, Newest, Fresh, Exact
  <2>3. \A c \in Consoles : Routable(c)' => Founded(c)'
    <3>. SUFFICES ASSUME NEW c \in Consoles, Routable(c) PROVE Founded(c)'
      BY <2>1 DEF Routable
    <3>1. Founded(c) /\ row[c].connection \in Sockets
      BY <1>0 DEF Exact, Routable, TypeOK, Rows
    <3>. QED BY <2>1, <3>1 DEF Founded, TypeOK
  <2>4. \A h \in Hellos : (Newest(h) /\ Connected(h))' => Recorded(h)'
    BY <1>0, <2>1 DEF Exact, Newest, Connected, Recorded, TypeOK, HandlerInv
  <2>. QED BY <2>2, <2>3, <2>4 DEF Exact
<1>2. CASE close(s)
  <2>1. Idle
    BY <1>2 DEF close, Serial, Met
  <2>2. /\ near' = [near EXCEPT ![s] = "closed"]
        /\ connectedClients' = [connectedClients EXCEPT ![s] = None]
        /\ removing' = IF connectedClients[s] = None THEN removing ELSE removing \cup {s}
        /\ UNCHANGED <<sync, row>>
    BY <1>2 DEF close
  <2>3. Alone' /\ Fresh'
    BY <1>0, <2>1, <2>2 DEF Alone, Idle, Running, Fresh, Exact
  <2>4. \A c \in Consoles : Routable(c)' => Founded(c)'
    <3>. SUFFICES ASSUME NEW c \in Consoles, Routable(c) PROVE Founded(c)'
      BY <2>2 DEF Routable
    <3>1. Founded(c)
      BY <1>0 DEF Exact
    <3>2. row[c].connection \in Sockets
      BY DEF Routable, TypeOK, Rows
    <3>. QED BY <2>2, <3>1, <3>2 DEF Founded, TypeOK
  <2>5. \A h \in Hellos : (Newest(h) /\ Connected(h))' => Recorded(h)'
    BY <1>0, <2>2 DEF Exact, Newest, Connected, Recorded, TypeOK
  <2>. QED BY <2>3, <2>4, <2>5 DEF Exact
<1>3. CASE removeLiveConsoles(s)
  <2>1. /\ s \in removing /\ removing' = removing \ {s}
        /\ row' = Without(s)
        /\ UNCHANGED <<near, connectedClients, sync>>
    BY <1>3 DEF removeLiveConsoles
  <2>2. Idle
    BY <1>0, <2>1 DEF Exact, Alone, Idle
  <2>3. \A c \in Consoles :
          row'[c] = IF row[c].connection = s THEN NoRow ELSE row[c]
    BY <2>1 DEF Without
  <2>4. Alone' /\ Fresh'
    BY <2>1, <2>2 DEF Alone, Idle, Running, Fresh
  <2>5. \A c \in Consoles : Routable(c)' => Founded(c)'
    <3>. SUFFICES ASSUME NEW c \in Consoles, Routable(c)' PROVE Founded(c)'
      OBVIOUS
    <3>1. row[c].connection # s /\ row'[c] = row[c]
      BY <2>3 DEF Routable
    <3>2. Founded(c)
      BY <1>0, <3>1 DEF Exact, Routable
    <3>. QED BY <2>1, <3>1, <3>2 DEF Founded
  <2>6. \A h \in Hellos : (Newest(h) /\ Connected(h))' => Recorded(h)'
    <3>. SUFFICES ASSUME NEW h \in Hellos, Newest(h), Connected(h) PROVE Recorded(h)'
      BY <2>1 DEF Newest, Connected
    <3>1. sync[h].socket # s
      BY <2>1 DEF HandlerInv, Connected
    <3>2. Recorded(h)
      BY <1>0 DEF Exact
    <3>3. sync[h].consoles \subseteq Consoles
      BY DEF TypeOK, Handlers
    <3>. QED BY <2>1, <2>3, <3>1, <3>2, <3>3 DEF Recorded
  <2>. QED BY <2>4, <2>5, <2>6 DEF Exact
<1>. QED BY <1>1, <1>2, <1>3

LEMMA HelloKeepsExact ==
  ASSUME IInv, NEW h \in Hellos, NEW s \in Sockets, NEW listed \in SUBSET Consoles,
         Serial, receiveHello(h, s, listed), Serial'
  PROVE  Exact'
<1>. USE DEF IInv
<1>0. Exact
  BY DEF SerialInv
<1>1. Quiet
  BY DEF receiveHello, Met, Serial, Quiet
<1>2. /\ sync'[h] = [pc |-> "delete", socket |-> s, consoles |-> listed,
                     todo |-> listed, existing |-> None]
      /\ \A k \in Hellos : k # h => sync'[k] = sync[k]
  BY HelloSteps
<1>3. /\ sync[h].pc = "new" /\ near[s] = "open"
      /\ \A k \in Hellos : k < h => sync[k].pc # "new"
      /\ connectedClients' = [connectedClients EXCEPT ![s] = h]
      /\ UNCHANGED <<near, removing, row>>
  BY DEF receiveHello
<1>4. h # None /\ h \in Nat
  BY ParameterAssumption
<1>5. \A k \in Hellos : k > h => sync[k].pc = "new"
  BY <1>3, <1>4, ParameterAssumption DEF HandlerInv
<1>6. Newest(h)'
  BY <1>2, <1>4, <1>5, ParameterAssumption DEF Newest
<1>7. \A k \in Hellos : k # h => ~Newest(k)'
  BY <1>2, <1>3, <1>4, <1>5, ParameterAssumption DEF Newest
<1>8. \A k \in Hellos : k # h => ~Running(k)'
  BY <1>1, <1>2 DEF Running, Quiet, Idle
<1>9. Alone'
  BY <1>1, <1>2, <1>3, <1>6, <1>8 DEF Alone, Quiet, TypeOK
<1>10. Fresh'
  BY <1>2, <1>8 DEF Fresh, Running
<1>11. \A c \in Consoles : Routable(c)' => Founded(c)'
  <2>. SUFFICES ASSUME NEW c \in Consoles, Routable(c) PROVE Founded(c)'
    BY <1>3 DEF Routable
  <2>1. Founded(c)
    BY <1>0 DEF Exact
  <2>2. row[c].connection \in Sockets
    BY DEF Routable, TypeOK, Rows
  <2>3. CASE row[c].connection = s
    BY <1>2, <1>3, <1>4, <2>3 DEF Founded, TypeOK
  <2>4. CASE row[c].connection # s
    <3>. DEFINE t == row[c].connection
    <3>1. connectedClients'[t] = connectedClients[t]
      BY <1>3, <2>2, <2>4 DEF TypeOK
    <3>2. connectedClients[t] # None => connectedClients[t] \in Hellos /\ connectedClients[t] # h
      BY <1>3, <2>2 DEF HandlerInv, TypeOK
    <3>3. connectedClients[t] # None => sync'[connectedClients[t]] = sync[connectedClients[t]]
      BY <1>2, <3>2
    <3>. QED BY <1>3, <2>1, <3>1, <3>3 DEF Founded
  <2>. QED BY <2>3, <2>4
<1>12. \A k \in Hellos : (Newest(k) /\ Connected(k))' => Recorded(k)'
  BY <1>2, <1>7 DEF Recorded
<1>. QED BY <1>9, <1>10, <1>11, <1>12 DEF Exact

-----------------------------------------------------------------------------
LEMMA SyncKeepsExact ==
  ASSUME IInv, Serial, NEW h \in Hellos, Sync(h)
  PROVE  Exact'
<1>. USE DEF IInv
<1>. DEFINE s == sync[h].socket
            todo == sync[h].todo
            rest == todo \ {First(todo)}
<1>0. Exact
  BY DEF SerialInv
<1>1. /\ Running(h)
      /\ UNCHANGED <<near, connectedClients, removing>>
  BY DEF Sync, deleteOwn, lookUp, updateRow, insertRow, insertRefused, Running
<1>2. HandlerStep(h)
  BY HandlerSteps
<1>3. /\ \A k \in Hellos : Running(k) => k = h
      /\ removing = {}
      /\ Newest(h)
      /\ connectedClients[s] = h
  BY <1>0, <1>1 DEF Exact, Alone
<1>4. /\ s \in Sockets /\ near[s] = "open" /\ h # None
      /\ todo \subseteq sync[h].consoles /\ sync[h].consoles \subseteq Consoles
  <2>1. s \in Sockets
    BY <1>1 DEF HandlerInv, Running
  <2>2. h # None
    BY ParameterAssumption
  <2>3. near[s] = "open"
    BY <1>3, <2>1, <2>2 DEF HandlerInv
  <2>. QED BY <2>1, <2>2, <2>3 DEF HandlerInv, TypeOK, Handlers
<1>5. \A k \in Hellos : /\ Newest(k)' <=> Newest(k)
                        /\ Connected(k)' <=> Connected(k)
                        /\ Newest(k) => k = h
  <2>1. \A k \in Hellos : sync'[k].pc = "new" <=> sync[k].pc = "new"
    BY <1>1, <1>2 DEF HandlerStep, Running
  <2>2. \A k \in Hellos : sync'[k].socket = sync[k].socket
    BY <1>2 DEF HandlerStep
  <2>3. \A k \in Hellos : Newest(k)' <=> Newest(k)
    BY <2>1 DEF Newest
  <2>4. \A k \in Hellos : Connected(k)' <=> Connected(k)
    BY <1>1, <2>2 DEF Connected
  <2>5. \A k \in Hellos : Newest(k) => k = h
    BY <1>3, ParameterAssumption DEF Newest
  <2>. QED BY <2>3, <2>4, <2>5
<1>6. Alone'
  <2>1. \A k \in Hellos : Running(k)' => k = h
    BY <1>2, <1>3 DEF HandlerStep, Running
  <2>2. connectedClients'[sync'[h].socket] = h
    BY <1>1, <1>2, <1>3 DEF HandlerStep
  <2>. QED BY <1>1, <1>3, <1>5, <2>1, <2>2 DEF Alone
\* A row that the step leaves keeps its ground; one it writes has a new one.
<1>7. ASSUME NEW c \in Consoles,
             \/ row'[c] = row[c] /\ row[c].connection # s
             \/ row'[c].connection = s /\ c \in sync[h].consoles
             \/ row'[c] = row[c] /\ sync[h].pc # "delete"
             \/ row'[c] = NoRow,
             Routable(c)'
      PROVE  Founded(c)'
  <2>1. CASE row'[c].connection = s /\ c \in sync[h].consoles
    <3>1. sync'[h].consoles = sync[h].consoles
      BY <1>2 DEF HandlerStep
    <3>. QED BY <1>1, <1>3, <1>4, <2>1, <3>1 DEF Founded
  <2>2. ASSUME row'[c] = row[c], row[c].connection # s \/ sync[h].pc # "delete"
        PROVE  Founded(c)'
    <3>. DEFINE t == row[c].connection
    <3>1. Founded(c)
      BY <1>0, <1>7, <2>2 DEF Exact, Routable
    <3>2. t \in Sockets
      BY <1>7, <2>2 DEF Routable, TypeOK, Rows
    <3>3. near[t] = "open" /\ connectedClients[t] \in Hellos
      BY <1>3, <3>1, <3>2 DEF Founded, TypeOK
    <3>4. \/ c \in sync[connectedClients[t]].consoles
          \/ sync[connectedClients[t]].pc = "delete"
      BY <1>3, <3>1 DEF Founded
    <3>5. sync'[connectedClients[t]].consoles = sync[connectedClients[t]].consoles
      BY <1>2, <3>3 DEF HandlerStep
    <3>6. CASE connectedClients[t] = h
      <4>1. t = s
        BY <1>4, <3>2, <3>6 DEF HandlerInv
      <4>2. c \in sync[h].consoles
        BY <2>2, <3>4, <3>6, <4>1
      <4>. QED BY <1>1, <1>4, <2>2, <3>3, <3>5, <3>6, <4>2 DEF Founded
    <3>7. CASE connectedClients[t] # h
      <4>1. sync'[connectedClients[t]] = sync[connectedClients[t]]
        BY <1>2, <3>3, <3>7 DEF HandlerStep
      <4>2. connectedClients[t] # None
        BY <3>3, ParameterAssumption
      <4>. QED BY <1>1, <2>2, <3>3, <3>4, <4>1, <4>2 DEF Founded
    <3>. QED BY <3>6, <3>7
  <2>. QED BY <1>7, <2>1, <2>2 DEF Routable
<1>8. ASSUME Recorded(h)' PROVE \A k \in Hellos : (Newest(k) /\ Connected(k))' => Recorded(k)'
  BY <1>5, <1>8
<1>9. \A k \in Hellos : k # h => sync'[k].pc # "write"
  BY <1>2, <1>3 DEF HandlerStep, Running
<1>10. Connected(h) /\ Recorded(h)
  BY <1>0, <1>3, <1>4 DEF Exact, Connected
<1>11. CASE deleteOwn(h)
  <2>1. /\ sync[h].pc = "delete" /\ row' = Without(s)
        /\ sync' = [sync EXCEPT ![h].pc = Looping(sync[h].todo)]
    BY <1>11 DEF deleteOwn
  <2>2. \A c \in Consoles : row'[c] = IF row[c].connection = s THEN NoRow ELSE row[c]
    BY <2>1 DEF Without
  <2>3. sync'[h].pc \in {"lookUp", "done"} /\ sync'[h].todo = sync[h].consoles
    BY <2>1 DEF Looping, HandlerInv, TypeOK, Handlers
  <2>4. Recorded(h)'
    BY <1>2, <2>3 DEF Recorded, HandlerStep
  <2>5. Fresh'
    BY <1>9, <2>3 DEF Fresh
  <2>6. \A c \in Consoles : Routable(c)' => Founded(c)'
    BY <1>7, <2>2
  <2>. QED BY <1>6, <1>8, <2>4, <2>5, <2>6 DEF Exact
<1>12. CASE lookUp(h)
  <2>1. /\ sync[h].pc = "lookUp" /\ UNCHANGED row
        /\ sync' = [sync EXCEPT ![h].pc = "write", ![h].existing = row[First(todo)].uuid]
    BY <1>12 DEF lookUp
  <2>2. sync'[h].pc = "write" /\ sync'[h].todo = todo
        /\ sync'[h].existing = row[First(todo)].uuid
    BY <2>1 DEF TypeOK, Handlers
  <2>3. Recorded(h)'
    BY <1>2, <1>10, <2>1, <2>2 DEF Recorded, HandlerStep
  <2>4. Fresh'
    BY <1>9, <2>1, <2>2 DEF Fresh
  <2>5. \A c \in Consoles : Routable(c)' => Founded(c)'
    BY <1>7, <2>1
  <2>. QED BY <1>6, <1>8, <2>3, <2>4, <2>5 DEF Exact
<1>13. ASSUME sync[h].pc = "write"
       PROVE  /\ First(todo) \in todo /\ First(todo) \in Consoles
              /\ sync[h].existing = row[First(todo)].uuid
  BY <1>0, <1>4, <1>13, FirstIsLeft DEF Exact, Fresh, HandlerInv
<1>14. CASE updateRow(h) \/ insertRow(h)
  <2>1. sync[h].pc = "write" /\ sync' = Written(h)
    BY <1>14 DEF updateRow, insertRow
  <2>2. sync'[h].todo = rest /\ sync'[h].pc = Looping(rest)
    <3>1. sync'[h] = [pc |-> Looping(rest), socket |-> s, consoles |-> sync[h].consoles,
                      todo |-> rest, existing |-> None]
      BY <2>1, WrittenMoves
    <3>. QED BY <3>1
  <2>3. sync'[h].pc \in {"lookUp", "done"}
    BY <2>2 DEF Looping
  <2>4. /\ row'[First(todo)].connection = s
        /\ \A c \in Consoles : c # First(todo) => row'[c] = row[c]
    <3>1. First(todo) \in Consoles /\ sync[h].existing = row[First(todo)].uuid
      BY <1>13, <2>1
    <3>2. CASE updateRow(h)
      <4>1. row' = [row EXCEPT ![First(todo)] =
                      [uuid |-> row[First(todo)].uuid, connection |-> s]]
        BY <3>1, <3>2 DEF updateRow
      <4>. QED BY <3>1, <4>1 DEF TypeOK
    <3>3. CASE insertRow(h)
      <4>1. row' = [row EXCEPT ![First(todo)] = [uuid |-> h, connection |-> s]]
        BY <3>3 DEF insertRow
      <4>. QED BY <3>1, <4>1 DEF TypeOK
    <3>. QED BY <1>14, <3>2, <3>3
  <2>5. Recorded(h)'
    <3>1. \A c \in sync[h].consoles \ rest : row'[c].connection = s
      <4>1. \A c \in sync[h].consoles \ todo : row[c].connection = s
        BY <1>10, <2>1 DEF Recorded
      <4>2. First(todo) \in todo
        BY <1>13, <2>1
      <4>. QED BY <1>4, <2>4, <4>1, <4>2
    <3>. QED BY <1>2, <2>2, <2>3, <3>1 DEF Recorded, HandlerStep
  <2>6. Fresh'
    BY <1>9, <2>3 DEF Fresh
  <2>7. \A c \in Consoles : Routable(c)' => Founded(c)'
    <3>1. First(todo) \in sync[h].consoles
      BY <1>4, <1>13, <2>1
    <3>. QED BY <1>7, <2>1, <2>4, <3>1
  <2>. QED BY <1>6, <1>8, <2>5, <2>6, <2>7 DEF Exact
\* The index cannot refuse the row of a handler that is alone.
<1>15. ~insertRefused(h)
  <2>. SUFFICES ASSUME insertRefused(h) PROVE FALSE
    OBVIOUS
  <2>1. /\ sync[h].pc = "write" /\ sync[h].existing = None
        /\ row[First(todo)] # NoRow
    BY DEF insertRefused
  <2>2. row[First(todo)].uuid = None /\ First(todo) \in Consoles
    BY <1>13, <2>1
  <2>. QED BY <2>1, <2>2, ParameterAssumption DEF TypeOK, Rows
<1>. QED BY <1>11, <1>12, <1>14, <1>15 DEF Sync

-----------------------------------------------------------------------------
LEMMA SerialHolds == IInv /\ [Next]_vars => SerialInv'
<1>. SUFFICES ASSUME IInv, [Next]_vars, Serial' PROVE Exact'
  BY DEF SerialInv
<1>1. CASE UNCHANGED vars
  BY <1>1 DEF vars, IInv, SerialInv, Serial, Exact, Alone, Running, Newest, Connected,
              Recorded, Founded, Routable, Fresh
<1>2. CASE restart
  <2>1. \A h \in Hellos : sync'[h] =
          IF Running(h) THEN [sync[h] EXCEPT !.pc = "failed"] ELSE sync[h]
    BY <1>2, RestartSteps DEF IInv
  <2>2. \A h \in Hellos : sync[h] \in Handlers
    BY DEF IInv, TypeOK
  <2>3. \A h \in Hellos : ~Running(h)'
    BY <2>1, <2>2 DEF Handlers, Running
  <2>4. \A h \in Hellos : ~Connected(h)'
    BY <1>2 DEF restart, Connected
  <2>5. \A c \in Consoles : ~Routable(c)'
    BY <1>2 DEF restart, Routable
  <2>. QED BY <2>3, <2>4, <2>5 DEF Exact, Alone, Fresh, Running
<1>. SUFFICES ASSUME Next, ~restart PROVE Exact'
  BY <1>1, <1>2
<1>3. ASSUME NEW s \in Sockets,
             \/ connection(s) \/ close(s) \/ removeLiveConsoles(s) \/ removalFails(s)
      PROVE  Exact'
  <2>1. ~removalFails(s)
    BY DEF removalFails, Serial
  <2>2. Serial
    BY <1>3, <2>1 DEF connection, close, removeLiveConsoles, Serial, Met
  <2>. QED BY <1>3, <2>1, <2>2, ConnectionsKeepExact
<1>4. ASSUME NEW h \in Hellos, NEW s \in Sockets, NEW listed \in SUBSET Consoles,
             receiveHello(h, s, listed)
      PROVE  Exact'
  <2>1. Serial
    BY <1>4 DEF receiveHello, Serial, Met
  <2>. QED BY <1>4, <2>1, HelloKeepsExact
<1>5. ASSUME NEW h \in Hellos, Sync(h) \/ syncFails(h)
      PROVE  Exact'
  <2>1. ~syncFails(h)
    BY DEF syncFails, Serial
  <2>2. Serial
    BY <1>5, <2>1 DEF Sync, deleteOwn, lookUp, updateRow, insertRow, insertRefused, Serial
  <2>. QED BY <1>5, <2>1, <2>2, SyncKeepsExact
<1>6. CASE pruneGatewayState
  BY <1>6 DEF pruneGatewayState, Serial
<1>. QED BY <1>3, <1>4, <1>5, <1>6 DEF Next

LEMMA InitHolds == Init => IInv
<1>. SUFFICES ASSUME Init PROVE IInv
  OBVIOUS
<1>1. \A h \in Hellos : sync[h] = NotSent
  BY DEF Init
<1>2. NotSent \in Handlers
  BY DEF NotSent, Handlers
<1>3. TypeOK
  BY <1>1, <1>2 DEF Init, TypeOK
<1>4. HandlerInv
  BY <1>1 DEF Init, HandlerInv, NotSent
<1>5. Exact
  BY <1>1 DEF Init, Exact, Alone, Running, Newest, Routable, Fresh, NotSent
<1>. QED BY <1>3, <1>4, <1>5 DEF IInv, SerialInv

THEOREM IInvHolds == Spec => []IInv
<1>1. IInv /\ [Next]_vars => IInv'
  BY TypesHold, HandlersHold, SerialHolds DEF IInv
<1>. QED BY InitHolds, <1>1, PTL DEF Spec

(* The sockets, the handlers and the rows of gateway_live_consoles have their *)
(* types in every state.                                                      *)
THEOREM LiveConsoleTypes == Spec => []TypeOK
<1>1. IInv => TypeOK
  BY DEF IInv
<1>. QED BY IInvHolds, <1>1, PTL

(* However a client's sockets come, go and take over each other's consoles,   *)
(* handlers that do not meet leave gateway_live_consoles exact: no row without *)
(* an open socket that lists it, and no console of the newest hello missing.  *)
THEOREM SerialSyncsStayExact == Spec => []SerialSyncsAreExact
<1>1. IInv => SerialSyncsAreExact
  <2>. SUFFICES ASSUME IInv, Quiet, Serial PROVE NoGhosts /\ NewestIsListed
    BY DEF SerialSyncsAreExact, Serial
  <2>1. Exact
    BY DEF IInv, SerialInv
  <2>2. NoGhosts
    <3>. SUFFICES ASSUME NEW c \in Consoles, Routable(c)
                  PROVE  LET s == row[c].connection
                         IN /\ near[s] = "open" /\ connectedClients[s] # None
                            /\ c \in sync[connectedClients[s]].consoles
      BY DEF NoGhosts
    <3>. DEFINE s == row[c].connection
    <3>1. Founded(c) /\ s \in Sockets
      BY <2>1 DEF Exact, IInv, TypeOK, Routable, Rows
    <3>2. near[s] = "open" /\ connectedClients[s] \in Hellos
      BY <3>1 DEF Founded, Quiet, IInv, TypeOK
    <3>3. sync[connectedClients[s]].pc # "delete"
      BY <3>2 DEF Quiet, Idle, Running
    <3>. QED BY <3>1, <3>2, <3>3 DEF Founded, Quiet
  <2>3. NewestIsListed
    <3>. SUFFICES ASSUME NEW h \in Hellos, Newest(h), Connected(h)
                  PROVE  \A c \in sync[h].consoles : row[c].connection = sync[h].socket
      BY DEF NewestIsListed
    <3>1. Recorded(h)
      BY <2>1 DEF Exact
    <3>2. sync[h].pc = "done"
      BY <3>1 DEF Recorded, Newest, Quiet, Idle, Running, IInv, TypeOK, Handlers
    <3>3. sync[h].todo = {}
      BY <3>2 DEF IInv, HandlerInv
    <3>. QED BY <3>1, <3>2, <3>3 DEF Recorded
  <2>. QED BY <2>2, <2>3
<1>. QED BY IInvHolds, <1>1, PTL
=============================================================================
