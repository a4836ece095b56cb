----------------------------- MODULE LiveConsoles -----------------------------
(***************************************************************************)
(* Live presence: the rows of gateway_live_consoles that the hello and     *)
(* close handlers of one client's sockets write while they run at once.    *)
(* (gateway.service.ts, gateway-socket.service.ts.)                        *)
(*                                                                         *)
(* One client: every statement names its client_uuid or a connection_id,   *)
(* which is new for each socket and stands for it.  Consoles are numbered  *)
(* in the order of a hello's listing, hellos in the order of arrival.      *)
(* Each statement of a handler is a step, for every one is awaited.        *)
(***************************************************************************)
EXTENDS Naturals, FiniteSets

CONSTANTS Consoles, Sockets, Hellos, None

ASSUME ParameterAssumption ==
  /\ IsFiniteSet(Consoles) /\ Consoles \subseteq Nat
  /\ IsFiniteSet(Hellos) /\ Hellos \subseteq Nat
  /\ None \notin Hellos /\ None \notin Sockets

VARIABLES
  near,              \* the gateway's end of a socket
  connectedClients,  \* the socket's last hello
  sync,              \* syncLiveConsolesRecord, for each hello
  removing,          \* sockets whose removeLiveConsoles is still to run
  row,               \* gateway_live_consoles, unique in the console
  collided,          \* history: whether hellos met, and a hello with a close
  spoiled            \* history: a statement failed, or the table was wiped

vars == <<near, connectedClients, sync, removing, row, collided, spoiled>>

\* A row keeps the uuid of its insertion, here the inserting hello.
NoRow == [uuid |-> None, connection |-> None]
Rows == [uuid : Hellos, connection : Sockets]

\* A handler's locals: what it was sent, what it has yet to write, and the
\* row it found for the console at hand.
Handlers == [pc : {"new", "delete", "lookUp", "write", "done", "failed"},
             socket : Sockets \cup {None}, consoles : SUBSET Consoles,
             todo : SUBSET Consoles, existing : Hellos \cup {None}]
NotSent == [pc |-> "new", socket |-> None, consoles |-> {}, todo |-> {},
            existing |-> None]

TypeOK ==
  /\ near \in [Sockets -> {"new", "open", "closed"}]
  /\ connectedClients \in [Sockets -> Hellos \cup {None}]
  /\ sync \in [Hellos -> Handlers]
  /\ removing \subseteq Sockets
  /\ row \in [Consoles -> Rows \cup {NoRow}]
  /\ collided \subseteq {"hello", "close"}
  /\ spoiled \in BOOLEAN

\* started: the table is cleared before the gateway serves.
Init ==
  /\ near = [s \in Sockets |-> "new"]
  /\ connectedClients = [s \in Sockets |-> None]
  /\ sync = [h \in Hellos |-> NotSent]
  /\ removing = {}
  /\ row = [c \in Consoles |-> NoRow]
  /\ collided = {}
  /\ spoiled = FALSE

-----------------------------------------------------------------------------
Running(h) == sync[h].pc \in {"delete", "lookUp", "write"}
Idle == \A h \in Hellos : ~Running(h)
Quiet == Idle /\ removing = {}

Met(handler, running) == IF running THEN collided \cup {handler} ELSE collided

Without(s) == [c \in Consoles |-> IF row[c].connection = s THEN NoRow ELSE row[c]]

connection(s) ==
  /\ near[s] = "new"
  /\ near' = [near EXCEPT ![s] = "open"]
  /\ UNCHANGED <<connectedClients, sync, removing, row, collided, spoiled>>

\* The hello's handler up to its first await: the map, then the call.
receiveHello(h, s, consoles) ==
  /\ near[s] = "open"
  /\ sync[h].pc = "new" /\ \A k \in Hellos : k < h => sync[k].pc # "new"
  /\ connectedClients' = [connectedClients EXCEPT ![s] = h]
  /\ sync' = [sync EXCEPT ![h] = [pc |-> "delete", socket |-> s, consoles |-> consoles,
                                  todo |-> consoles, existing |-> None]]
  /\ collided' = Met("hello", ~Idle) \cup Met("close", removing # {})
  /\ UNCHANGED <<near, removing, row, spoiled>>

\* What is left of the loop over the listed consoles.
Looping(todo) == IF todo = {} THEN "done" ELSE "lookUp"
First(todo) == CHOOSE c \in todo : \A d \in todo : c <= d

\* DELETE ... WHERE connection_id.
deleteOwn(h) ==
  /\ sync[h].pc = "delete"
  /\ sync' = [sync EXCEPT ![h].pc = Looping(sync[h].todo)]
  /\ row' = Without(sync[h].socket)
  /\ UNCHANGED <<near, connectedClients, removing, collided, spoiled>>

lookUp(h) ==
  /\ sync[h].pc = "lookUp"
  /\ sync' = [sync EXCEPT ![h].pc = "write",
                          ![h].existing = row[First(sync[h].todo)].uuid]
  /\ UNCHANGED <<near, connectedClients, removing, row, collided, spoiled>>

Written(h) ==
  LET rest == sync[h].todo \ {First(sync[h].todo)}
  IN [sync EXCEPT ![h].pc = Looping(rest), ![h].todo = rest, ![h].existing = None]

\* UPDATE ... WHERE live_console_uuid: no row, no error, if it is gone.
updateRow(h) ==
  /\ sync[h].pc = "write" /\ sync[h].existing # None
  /\ row' = [row EXCEPT ![First(sync[h].todo)] =
               IF @.uuid = sync[h].existing
               THEN [uuid |-> @.uuid, connection |-> sync[h].socket] ELSE @]
  /\ sync' = Written(h)
  /\ UNCHANGED <<near, connectedClients, removing, collided, spoiled>>

insertRow(h) ==
  /\ sync[h].pc = "write" /\ sync[h].existing = None
  /\ row[First(sync[h].todo)] = NoRow
  /\ row' = [row EXCEPT ![First(sync[h].todo)] =
               [uuid |-> h, connection |-> sync[h].socket]]
  /\ sync' = Written(h)
  /\ UNCHANGED <<near, connectedClients, removing, collided, spoiled>>

\* The unique index refuses a second row of the console; the hello fails.
insertRefused(h) ==
  /\ sync[h].pc = "write" /\ sync[h].existing = None
  /\ row[First(sync[h].todo)] # NoRow
  /\ sync' = [sync EXCEPT ![h].pc = "failed"]
  /\ UNCHANGED <<near, connectedClients, removing, row, collided, spoiled>>

syncFails(h) ==
  /\ Running(h)
  /\ sync' = [sync EXCEPT ![h].pc = "failed"]
  /\ spoiled' = TRUE
  /\ UNCHANGED <<near, connectedClients, removing, row, collided>>

\* The close event: a socket that never said hello has nothing to remove.
close(s) ==
  /\ near[s] = "open"
  /\ near' = [near EXCEPT ![s] = "closed"]
  /\ connectedClients' = [connectedClients EXCEPT ![s] = None]
  /\ removing' = IF connectedClients[s] = None THEN removing ELSE removing \cup {s}
  /\ collided' = Met("close", ~Idle)
  /\ UNCHANGED <<sync, row, spoiled>>

removeLiveConsoles_ofTheClient(s) ==
  /\ s \in removing
  /\ removing' = removing \ {s}
  /\ row' = [c \in Consoles |-> NoRow]
  /\ UNCHANGED <<near, connectedClients, sync, collided, spoiled>>
removeLiveConsoles(s) ==
  /\ s \in removing
  /\ removing' = removing \ {s}
  /\ row' = Without(s)
  /\ UNCHANGED <<near, connectedClients, sync, collided, spoiled>>

removalFails(s) ==
  /\ s \in removing
  /\ removing' = removing \ {s}
  /\ spoiled' = TRUE
  /\ UNCHANGED <<near, connectedClients, sync, row, collided>>

\* Wipes the clients too: inserts fail (syncFails) until one registers anew.
pruneGatewayState ==
  /\ row' = [c \in Consoles |-> NoRow]
  /\ spoiled' = TRUE
  /\ UNCHANGED <<near, connectedClients, sync, removing, collided>>

\* The gateway dies and is back, with an empty table.
restart ==
  /\ near' = [s \in Sockets |-> IF near[s] = "open" THEN "closed" ELSE near[s]]
  /\ connectedClients' = [s \in Sockets |-> None]
  /\ sync' = [h \in Hellos |-> IF Running(h) THEN [sync[h] EXCEPT !.pc = "failed"]
                               ELSE sync[h]]
  /\ removing' = {}
  /\ row' = [c \in Consoles |-> NoRow]
  /\ collided' = {} /\ spoiled' = FALSE

-----------------------------------------------------------------------------
Sync(h) ==
  deleteOwn(h) \/ lookUp(h) \/ updateRow(h) \/ insertRow(h) \/ insertRefused(h)

Next ==
  \/ \E s \in Sockets : connection(s) \/ close(s)
  \/ \E s \in Sockets : removeLiveConsoles(s) \/ removalFails(s)
  \/ \E h \in Hellos, s \in Sockets, consoles \in SUBSET Consoles :
       receiveHello(h, s, consoles)
  \/ \E h \in Hellos : Sync(h) \/ syncFails(h)
  \/ pruneGatewayState \/ restart

Spec == Init /\ [][Next]_vars

-----------------------------------------------------------------------------
(* Properties.                                                              *)

\* resolveLiveConsoleRecord finds the console.
Routable(c) == row[c] # NoRow

Newest(h) ==
  sync[h].pc # "new" /\ \A k \in Hellos : sync[k].pc # "new" => k <= h
Connected(h) ==
  sync[h].socket \in Sockets /\ near[sync[h].socket] = "open"

(* As long as the handlers of a client's sockets run one after another, each *)
(* row is of a console that the last hello of an open socket lists, whatever *)
(* sockets took it over before.                                              *)
NoGhosts ==
  \A c \in Consoles : Routable(c) =>
    LET s == row[c].connection
    IN /\ near[s] = "open" /\ connectedClients[s] # None
       /\ c \in sync[connectedClients[s]].consoles

(* and every console of the client's newest hello is listed with the socket  *)
(* it came by, an older half-open socket's removal notwithstanding.          *)
NewestIsListed ==
  \A h \in Hellos : Newest(h) /\ Connected(h) =>
    \A c \in sync[h].consoles : row[c].connection = sync[h].socket

SerialSyncsAreExact == Quiet /\ collided = {} /\ ~spoiled => NoGhosts /\ NewestIsListed

(* What docs/DECISIONS.md says of every running console: once all handlers   *)
(* are done, none failed and no two hellos met, what the newest hello lists  *)
(* can be routed to.                                                         *)
RunningConsolesAreRoutable ==
  Quiet /\ ~spoiled /\ "hello" \notin collided =>
    \A h \in Hellos : Newest(h) /\ Connected(h) => \A c \in sync[h].consoles : Routable(c)
=============================================================================
