------------------------------- MODULE Broker -------------------------------
(***************************************************************************)
(* The gateway's link to RabbitMQ: connectRmq and its awaits, the events   *)
(* of every connection it has opened, the consumer of the durable queue    *)
(* and publishMessage.  Nothing keeps two attempts to connect from         *)
(* overlapping, and every connection, current or not, resets the same      *)
(* three fields when it goes.                                              *)
(***************************************************************************)
EXTENDS Naturals, FiniteSets

CONSTANTS Msgs,         \* what the gateway publishes, each once
          Attempts,     \* calls of connectRmq that reach the broker, numbered
          MaxFailures,  \* bound on failed dispatches
          MaxRestarts,  \* bound on restarts of the gateway process
          NoAttempt

ASSUME BrokerAssumption ==
  /\ Attempts \subseteq Nat /\ IsFiniteSet(Attempts) /\ NoAttempt \notin Attempts
  /\ MaxFailures \in Nat /\ MaxRestarts \in Nat

VARIABLES
  attempt,         \* a call of connectRmq and the connection it opened
  channel,         \* this.channel (with this.connection), by its attempt
  reconnectTimer,
  stopRequested,
  published,       \* what publishMessage returned
  awaited,         \* the attempt a publisher waits for
  message,         \* what has become of a message
  holder,          \* the consumer a queued message has been given to
  handling,        \* consumer callbacks that are running
  dispatched,      \* messages whose dispatch has succeeded at least once
  failures, restarts

process == <<attempt, channel, reconnectTimer, stopRequested>>
publishers == <<published, awaited>>
queue == <<message, holder>>
bounds == <<failures, restarts>>
brokerVars == <<process, publishers, queue, handling, dispatched, bounds>>

(* An attempt awaits connect and createChannel, then with its event handlers *)
(* attached the topology and consume; then it is the current channel.  A     *)
(* broken one is gone but its events have not been handled; a leaked one has *)
(* lost its channel and kept its connection, which nobody closes.            *)
InProgress == {"connecting", "open"}
Phases == {"none", "live", "broken", "leaked", "closed"} \cup InProgress
Answers == {"none", "awaiting", "true", "false", "error"}

(* The type of the state; a channel the service holds is alive, or its       *)
(* closing has still to be noticed.                                          *)
BrokerTypeOK ==
  /\ attempt \in [Attempts -> Phases]
  /\ channel \in Attempts \cup {NoAttempt}
  /\ channel # NoAttempt => attempt[channel] \in {"live", "broken"}
  /\ reconnectTimer \in BOOLEAN
  /\ stopRequested \in BOOLEAN
  /\ published \in [Msgs -> Answers]
  /\ awaited \in [Msgs -> Attempts \cup {NoAttempt}]
  /\ message \in [Msgs -> {"none", "queued", "acked", "lost"}]
  /\ holder \in [Msgs -> Attempts \cup {NoAttempt}]
  /\ handling \subseteq Msgs \X Attempts
  /\ dispatched \subseteq Msgs
  /\ failures \in 0..MaxFailures
  /\ restarts \in 0..MaxRestarts

(* The service starts and connects.                                          *)
BrokerInit ==
  /\ \E a \in Attempts : /\ \A b \in Attempts : a <= b
                         /\ attempt = [b \in Attempts |->
                              IF b = a THEN "connecting" ELSE "none"]
  /\ channel = NoAttempt
  /\ reconnectTimer = FALSE
  /\ stopRequested = FALSE
  /\ published = [m \in Msgs |-> "none"]
  /\ awaited = [m \in Msgs |-> NoAttempt]
  /\ message = [m \in Msgs |-> "none"]
  /\ holder = [m \in Msgs |-> NoAttempt]
  /\ handling = {}
  /\ dispatched = {}
  /\ failures = 0
  /\ restarts = 0

NextAttempt(a) ==
  attempt[a] = "none" /\ \A b \in Attempts : b < a => attempt[b] # "none"

(* Bound: something may break only while another attempt is left.            *)
Spare == \E a \in Attempts : attempt[a] = "none"

(* The broker takes back what a lost consumer had not acknowledged.          *)
Requeued(gone) ==
  [m \in Msgs |-> IF holder[m] \in gone THEN NoAttempt ELSE holder[m]]

-----------------------------------------------------------------------------
(* The timer fires.  connectRmq looks at the channel alone: an attempt in    *)
(* progress does not stop another one.                                       *)
reconnect(a) ==
  /\ reconnectTimer
  /\ NextAttempt(a)
  /\ reconnectTimer' = FALSE
  /\ attempt' = IF channel # NoAttempt \/ stopRequested THEN attempt
                ELSE [attempt EXCEPT ![a] = "connecting"]
  /\ UNCHANGED <<channel, stopRequested, publishers, queue, handling,
                 dispatched, bounds>>

channelCreated(a) ==
  /\ attempt[a] = "connecting"
  /\ attempt' = [attempt EXCEPT ![a] = "open"]
  /\ UNCHANGED <<channel, reconnectTimer, stopRequested, publishers, queue,
                 handling, dispatched, bounds>>

(* consume has been answered: the attempt becomes the channel whatever is    *)
(* there, and whether or not a stop was requested meanwhile.                 *)
subscribed(a) ==
  /\ attempt[a] = "open"
  /\ attempt' = [attempt EXCEPT ![a] = "live"]
  /\ channel' = a
  /\ UNCHANGED <<reconnectTimer, stopRequested, publishers, queue, handling,
                 dispatched, bounds>>

Armed == reconnectTimer \/ ~stopRequested

(* The catch of connectRmq.  closeRmq drops the timer and closes the current *)
(* channel, be it another attempt's; it waits for the answer, by which time  *)
(* the channel's own close event has scheduled the reconnect.                *)
connectFails(a) ==
  /\ attempt[a] \in InProgress /\ Spare
  /\ attempt' = [b \in Attempts |->
       IF b = channel \/ (b = a /\ attempt[a] = "open") THEN "broken"
       ELSE IF b = a THEN "closed" ELSE attempt[b]]
  /\ channel' = NoAttempt
  /\ reconnectTimer' = (channel = NoAttempt /\ Armed)
  /\ holder' = Requeued({channel})
  /\ UNCHANGED <<stopRequested, publishers, message, handling, dispatched,
                 bounds>>

(* The broker or the network ends a connection or its channel.               *)
connectionBreaks(a) ==
  /\ attempt[a] \in {"live", "leaked"} /\ Spare
  /\ attempt' = [attempt EXCEPT ![a] = "broken"]
  /\ holder' = Requeued({a})
  /\ UNCHANGED <<channel, reconnectTimer, stopRequested, publishers, message,
                 handling, dispatched, bounds>>

onDisconnected_ownOnly(a) ==
  /\ attempt[a] = "broken"
  /\ \E left \in {"closed", "leaked"} : attempt' = [attempt EXCEPT ![a] = left]
  /\ channel' = NoAttempt
  /\ reconnectTimer' = (reconnectTimer \/ (~stopRequested /\ channel = a))
  /\ UNCHANGED <<stopRequested, publishers, queue, handling, dispatched,
                 bounds>>

(* Its events are handled: whichever channel is current is forgotten.        *)
onDisconnected(a) ==
  /\ attempt[a] = "broken"
  /\ \E left \in {"closed", "leaked"} : attempt' = [attempt EXCEPT ![a] = left]
  /\ channel' = NoAttempt
  /\ reconnectTimer' = Armed
  /\ UNCHANGED <<stopRequested, publishers, queue, handling, dispatched,
                 bounds>>

(* stopped: only the current channel is closed.                              *)
closeRmq ==
  /\ ~stopRequested
  /\ stopRequested' = TRUE
  /\ reconnectTimer' = FALSE
  /\ attempt' = [a \in Attempts |-> IF a = channel THEN "broken" ELSE attempt[a]]
  /\ channel' = NoAttempt
  /\ holder' = Requeued({channel})
  /\ UNCHANGED <<publishers, message, handling, dispatched, bounds>>

(* The process dies and starts again: the queue is durable, nothing else is. *)
gatewayRestarts(a) ==
  /\ restarts < MaxRestarts /\ NextAttempt(a)
  /\ restarts' = restarts + 1
  /\ attempt' = [b \in Attempts |-> IF b = a THEN "connecting"
                                    ELSE IF attempt[b] = "none" THEN "none" ELSE "closed"]
  /\ channel' = NoAttempt
  /\ reconnectTimer' = FALSE
  /\ stopRequested' = FALSE
  /\ published' = [m \in Msgs |-> IF published[m] = "awaiting" THEN "error"
                                  ELSE published[m]]
  /\ awaited' = [m \in Msgs |-> NoAttempt]
  /\ holder' = Requeued(Attempts)
  /\ handling' = {}
  /\ UNCHANGED <<message, dispatched, failures>>

-----------------------------------------------------------------------------
(* channel.publish: the frame goes into the socket's buffer and the result   *)
(* tells only whether the buffer has room.  A broken connection takes the    *)
(* frame along; a closed channel throws.                                     *)
Published(m, c) ==
  IF attempt[c] = "live"
  THEN /\ message' = [message EXCEPT ![m] = "queued"]
       /\ \E room \in {"true", "false"} : published' = [published EXCEPT ![m] = room]
  ELSE /\ message' = [message EXCEPT ![m] = "lost"]
       /\ \E told \in {"true", "false", "error"} :
            published' = [published EXCEPT ![m] = told]

(* Without a channel the publisher connects first, beside whoever else does. *)
publishMessage(m) ==
  /\ published[m] = "none"
  /\ \/ /\ channel # NoAttempt
        /\ Published(m, channel)
        /\ UNCHANGED <<attempt, awaited>>
     \/ /\ channel = NoAttempt /\ stopRequested
        /\ published' = [published EXCEPT ![m] = "false"]
        /\ UNCHANGED <<message, attempt, awaited>>
     \/ /\ channel = NoAttempt /\ ~stopRequested
        /\ \E a \in Attempts : /\ NextAttempt(a)
                               /\ attempt' = [attempt EXCEPT ![a] = "connecting"]
                               /\ awaited' = [awaited EXCEPT ![m] = a]
        /\ published' = [published EXCEPT ![m] = "awaiting"]
        /\ UNCHANGED message
  /\ UNCHANGED <<channel, reconnectTimer, stopRequested, holder, handling,
                 dispatched, bounds>>

(* Its attempt is over: it publishes on whatever channel there is.           *)
publishResumes(m) ==
  /\ published[m] = "awaiting" /\ attempt[awaited[m]] \notin InProgress
  /\ awaited' = [awaited EXCEPT ![m] = NoAttempt]
  /\ IF channel = NoAttempt
     THEN published' = [published EXCEPT ![m] = "false"] /\ UNCHANGED message
     ELSE Published(m, channel)
  /\ UNCHANGED <<process, holder, handling, dispatched, bounds>>

consume_acksFirst(m, a) ==
  /\ message[m] = "queued" /\ holder[m] = NoAttempt /\ attempt[a] = "live"
  /\ message' = [message EXCEPT ![m] = "acked"]
  /\ handling' = handling \cup {<<m, a>>}
  /\ UNCHANGED <<process, publishers, holder, dispatched, bounds>>

(* A consumer takes a message; its callback runs.                            *)
consume(m, a) ==
  /\ message[m] = "queued" /\ holder[m] = NoAttempt /\ attempt[a] = "live"
  /\ holder' = [holder EXCEPT ![m] = a]
  /\ handling' = handling \cup {<<m, a>>}
  /\ UNCHANGED <<process, publishers, message, dispatched, bounds>>

(* The callback settles the message with the broker: on a channel that is    *)
(* gone ack and nack throw, and the broker already has the message again.    *)
Handled(m, a, outcome) ==
  /\ handling' = handling \ {<<m, a>>}
  /\ IF holder[m] = a
     THEN /\ message' = [message EXCEPT ![m] = outcome]
          /\ holder' = [holder EXCEPT ![m] = NoAttempt]
     ELSE UNCHANGED <<message, holder>>

(* dispatchMessage has pushed it.                                            *)
dispatchMessage(m, a) ==
  /\ <<m, a>> \in handling
  /\ Handled(m, a, "acked")
  /\ dispatched' = dispatched \cup {m}
  /\ UNCHANGED <<process, publishers, bounds>>

dispatchFails_dropped(m, a) ==
  /\ <<m, a>> \in handling /\ failures < MaxFailures
  /\ Handled(m, a, "acked")
  /\ failures' = failures + 1
  /\ UNCHANGED <<process, publishers, dispatched, restarts>>

(* It cannot be parsed or pushed: nack puts it back at once, however often.  *)
dispatchFails(m, a) ==
  /\ <<m, a>> \in handling /\ failures < MaxFailures
  /\ Handled(m, a, "queued")
  /\ failures' = failures + 1
  /\ UNCHANGED <<process, publishers, dispatched, restarts>>

-----------------------------------------------------------------------------
BrokerNext ==
  \/ \E a \in Attempts :
       \/ reconnect(a) \/ channelCreated(a) \/ subscribed(a) \/ connectFails(a)
       \/ connectionBreaks(a) \/ onDisconnected(a) \/ gatewayRestarts(a)
       \/ \E m \in Msgs : consume(m, a) \/ dispatchMessage(m, a) \/ dispatchFails(m, a)
  \/ \E m \in Msgs : publishMessage(m) \/ publishResumes(m)
  \/ closeRmq

BrokerSpec == BrokerInit /\ [][BrokerNext]_brokerVars

(* The process runs its timers, continuations and callbacks, and the broker  *)
(* answers and delivers.                                                     *)
BrokerSteps(a) ==
  \/ reconnect(a) \/ channelCreated(a) \/ subscribed(a) \/ onDisconnected(a)
  \/ \E m \in Msgs : consume(m, a) \/ dispatchMessage(m, a)

-----------------------------------------------------------------------------
(* Properties.                                                             *)

(* A service that has not been asked to stop always has a channel, an        *)
(* attempt under way, a timer for the next one or an event to come that sets *)
(* it, whatever attempts overlap and whichever of them close each other's    *)
(* channel.                                                                  *)
NeverGivesUp ==
  \/ stopRequested \/ channel # NoAttempt \/ reconnectTimer
  \/ \E a \in Attempts : attempt[a] \in InProgress \cup {"broken"}

(* The queue loses nothing: the broker drops a message only after a dispatch *)
(* of it has succeeded, over lost connections, orphaned consumers, failed    *)
(* dispatches and restarts.                                                  *)
AcknowledgedWasDispatched ==
  \A m \in Msgs : message[m] = "acked" => m \in dispatched

(* A message the queue has reaches the gateway's sockets, unless the service *)
(* is stopped.                                                               *)
QueuedIsDispatched ==
  \A m \in Msgs : message[m] = "queued" ~> (m \in dispatched \/ stopRequested)
=============================================================================
