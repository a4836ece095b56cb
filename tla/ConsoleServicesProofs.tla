------------------------ MODULE ConsoleServicesProofs ------------------------
(***************************************************************************)
(* The gateway's message broker, questions to a human and the turns of a   *)
(* console's agent, for any number of messages, questions, taps, starts,   *)
(* turns, failures and restarts.                                           *)
(*                                                                         *)
(* Broker: that it never stops trying and that the queue drops nothing     *)
(* that was not dispatched are inductive beside the types.                 *)
(*                                                                         *)
(* Human requests: an answer is heard because the request that set the     *)
(* waiter is still at the await that will look at it (LocalWaiters), and a *)
(* returned request is not the active one because only requests that have  *)
(* written the record and not closed it are (ActiveIsRunning).             *)
(*                                                                         *)
(* Agent turns: BusyHasTurn needs that a record no agent backs is empty,   *)
(* that a turn knows its record, and that a turn which ended before its    *)
(* submission returned leaves the record free until it does.               *)
(***************************************************************************)
EXTENDS MCConsoleServices, TLAPS, FiniteSetTheorems

-----------------------------------------------------------------------------
(* The message broker.                                                       *)

BrokerInv == BrokerTypeOK /\ NeverGivesUp /\ AcknowledgedWasDispatched

LEMMA BrokerInitInv == BrokerInit => BrokerInv
<1> SUFFICES ASSUME BrokerInit PROVE BrokerInv
  OBVIOUS
<1>1. PICK a \in Attempts : attempt = [b \in Attempts |-> IF b = a THEN "connecting" ELSE "none"]
  BY DEF BrokerInit
<1>2. BrokerTypeOK
  <2>1. attempt \in [Attempts -> Phases]
    BY <1>1 DEF Phases, InProgress
  <2>2. 0 \in 0..MaxFailures /\ 0 \in 0..MaxRestarts
    BY BrokerAssumption
  <2>3. published \in [Msgs -> Answers]
    BY DEF BrokerInit, Answers
  <2> QED BY <2>1, <2>2, <2>3 DEF BrokerInit, BrokerTypeOK
<1>3. NeverGivesUp /\ AcknowledgedWasDispatched
  BY <1>1 DEF BrokerInit, NeverGivesUp, AcknowledgedWasDispatched, InProgress
<1> QED BY <1>2, <1>3 DEF BrokerInv

(* What a lost consumer held is free again; nothing else changes hands.      *)
LEMMA RequeuedType ==
  ASSUME NEW gone, BrokerTypeOK
  PROVE  Requeued(gone) \in [Msgs -> Attempts \cup {NoAttempt}]
  BY DEF Requeued, BrokerTypeOK

-----------------------------------------------------------------------------
(* The types.                                                                *)

LEMMA AttemptsKeepTypes ==
  ASSUME BrokerTypeOK, NEW a \in Attempts,
         reconnect(a) \/ channelCreated(a) \/ subscribed(a) \/ connectFails(a)
           \/ connectionBreaks(a) \/ onDisconnected(a) \/ gatewayRestarts(a)
  PROVE  BrokerTypeOK'
<1> USE BrokerAssumption, RequeuedType
        DEF BrokerTypeOK, Phases, InProgress, publishers, queue, bounds, process
<1>1. CASE reconnect(a)
  BY <1>1 DEF reconnect, NextAttempt
<1>2. CASE channelCreated(a)
  BY <1>2 DEF channelCreated
<1>3. CASE subscribed(a)
  BY <1>3 DEF subscribed
<1>4. CASE connectFails(a)
  BY <1>4 DEF connectFails, Armed
<1>5. CASE connectionBreaks(a)
  BY <1>5 DEF connectionBreaks
<1>6. CASE onDisconnected(a)
  BY <1>6 DEF onDisconnected, Armed
<1>7. CASE gatewayRestarts(a)
  <2>1. restarts' \in 0..MaxRestarts
    BY <1>7 DEF gatewayRestarts
  <2>2. published' \in [Msgs -> Answers]
    BY <1>7 DEF gatewayRestarts, Answers
  <2> QED BY <1>7, <2>1, <2>2 DEF gatewayRestarts
<1> QED BY <1>1, <1>2, <1>3, <1>4, <1>5, <1>6, <1>7

LEMMA PublishedType ==
  ASSUME BrokerTypeOK, NEW m \in Msgs, NEW c \in Attempts, Published(m, c)
  PROVE  /\ message' \in [Msgs -> {"none", "queued", "acked", "lost"}]
         /\ published' \in [Msgs -> Answers]
  BY DEF BrokerTypeOK, Published, Answers

LEMMA MessagesKeepTypes ==
  ASSUME BrokerTypeOK, NEW m \in Msgs,
         \/ publishMessage(m) \/ publishResumes(m)
         \/ \E a \in Attempts : consume(m, a) \/ dispatchMessage(m, a) \/ dispatchFails(m, a)
  PROVE  BrokerTypeOK'
<1> USE BrokerAssumption DEF BrokerTypeOK, publishers, queue, bounds, process
<1>1. CASE publishMessage(m)
  <2>1. /\ message' \in [Msgs -> {"none", "queued", "acked", "lost"}]
        /\ published' \in [Msgs -> Answers]
    BY <1>1, PublishedType DEF publishMessage, Answers
  <2>2. /\ attempt' \in [Attempts -> Phases]
        /\ awaited' \in [Msgs -> Attempts \cup {NoAttempt}]
        /\ channel # NoAttempt => attempt'[channel] \in {"live", "broken"}
    BY <1>1 DEF publishMessage, NextAttempt, Phases, InProgress
  <2> QED BY <1>1, <2>1, <2>2 DEF publishMessage
<1>2. CASE publishResumes(m)
  <2>1. /\ message' \in [Msgs -> {"none", "queued", "acked", "lost"}]
        /\ published' \in [Msgs -> Answers]
    BY <1>2, PublishedType DEF publishResumes, Answers
  <2> QED BY <1>2, <2>1 DEF publishResumes
<1>3. ASSUME NEW a \in Attempts, consume(m, a) PROVE BrokerTypeOK'
  BY <1>3 DEF consume
<1>4. ASSUME NEW a \in Attempts, dispatchMessage(m, a) PROVE BrokerTypeOK'
  BY <1>4 DEF dispatchMessage, Handled
<1>5. ASSUME NEW a \in Attempts, dispatchFails(m, a) PROVE BrokerTypeOK'
  <2>1. failures' \in 0..MaxFailures
    BY <1>5 DEF dispatchFails
  <2> QED BY <1>5, <2>1 DEF dispatchFails, Handled
<1> QED BY <1>1, <1>2, <1>3, <1>4, <1>5

LEMMA BrokerTypeStep == BrokerTypeOK /\ [BrokerNext]_brokerVars => BrokerTypeOK'
<1> SUFFICES ASSUME BrokerTypeOK, [BrokerNext]_brokerVars PROVE BrokerTypeOK'
  OBVIOUS
<1>1. CASE closeRmq
  BY <1>1, RequeuedType, BrokerAssumption
     DEF closeRmq, BrokerTypeOK, publishers, bounds, Phases
<1>2. CASE UNCHANGED brokerVars
  BY <1>2 DEF brokerVars, process, publishers, queue, bounds, BrokerTypeOK
<1> QED BY <1>1, <1>2, AttemptsKeepTypes, MessagesKeepTypes DEF BrokerNext

-----------------------------------------------------------------------------
(* NeverGivesUp.  Whatever forgets the channel leaves a timer, or a broken   *)
(* connection whose event is still to come.                                  *)
LEMMA AttemptsNeverGiveUp ==
  ASSUME BrokerTypeOK, NeverGivesUp, NEW a \in Attempts,
         reconnect(a) \/ channelCreated(a) \/ subscribed(a) \/ connectFails(a)
           \/ connectionBreaks(a) \/ onDisconnected(a) \/ gatewayRestarts(a)
  PROVE  NeverGivesUp'
<1> USE BrokerAssumption DEF BrokerTypeOK, NeverGivesUp, InProgress
<1>1. CASE reconnect(a)
  BY <1>1 DEF reconnect
<1>2. CASE channelCreated(a)
  BY <1>2 DEF channelCreated
<1>3. CASE subscribed(a)
  BY <1>3 DEF subscribed
<1>4. CASE connectFails(a)
  <2>1. CASE channel = NoAttempt
    BY <1>4, <2>1 DEF connectFails, Armed
  <2>2. CASE channel # NoAttempt
    <3>1. channel \in Attempts /\ attempt'[channel] = "broken"
      BY <1>4, <2>2 DEF connectFails
    <3> QED BY <3>1
  <2> QED BY <2>1, <2>2
<1>5. CASE connectionBreaks(a)
  BY <1>5 DEF connectionBreaks
<1>6. CASE onDisconnected(a)
  BY <1>6 DEF onDisconnected, Armed
<1>7. CASE gatewayRestarts(a)
  BY <1>7 DEF gatewayRestarts
<1> QED BY <1>1, <1>2, <1>3, <1>4, <1>5, <1>6, <1>7

LEMMA NeverGivesUpStep ==
  BrokerTypeOK /\ NeverGivesUp /\ [BrokerNext]_brokerVars => NeverGivesUp'
<1> SUFFICES ASSUME BrokerTypeOK, NeverGivesUp, [BrokerNext]_brokerVars PROVE NeverGivesUp'
  OBVIOUS
<1>1. ASSUME NEW m \in Msgs, publishMessage(m) PROVE NeverGivesUp'
  BY <1>1 DEF publishMessage, NeverGivesUp, NextAttempt, InProgress, BrokerTypeOK
<1>2. ASSUME NEW m \in Msgs, publishResumes(m) PROVE NeverGivesUp'
  BY <1>2 DEF publishResumes, NeverGivesUp, process
<1>3. ASSUME NEW m \in Msgs, NEW a \in Attempts,
             consume(m, a) \/ dispatchMessage(m, a) \/ dispatchFails(m, a)
      PROVE  NeverGivesUp'
  BY <1>3 DEF consume, dispatchMessage, dispatchFails, NeverGivesUp, process
<1>4. CASE closeRmq
  BY <1>4 DEF closeRmq, NeverGivesUp
<1>5. CASE UNCHANGED brokerVars
  BY <1>5 DEF brokerVars, process, NeverGivesUp
<1> QED BY <1>1, <1>2, <1>3, <1>4, <1>5, AttemptsNeverGiveUp DEF BrokerNext

-----------------------------------------------------------------------------
(* AcknowledgedWasDispatched.  Only dispatchMessage acknowledges.            *)
LEMMA AcknowledgedStep ==
  BrokerTypeOK /\ AcknowledgedWasDispatched /\ [BrokerNext]_brokerVars
    => AcknowledgedWasDispatched'
<1> SUFFICES ASSUME BrokerTypeOK, AcknowledgedWasDispatched, [BrokerNext]_brokerVars
             PROVE  AcknowledgedWasDispatched'
  OBVIOUS
<1> USE DEF AcknowledgedWasDispatched, BrokerTypeOK
<1>1. ASSUME NEW a \in Attempts,
             reconnect(a) \/ channelCreated(a) \/ subscribed(a) \/ connectFails(a)
               \/ connectionBreaks(a) \/ onDisconnected(a) \/ gatewayRestarts(a)
      PROVE  AcknowledgedWasDispatched'
  BY <1>1 DEF reconnect, channelCreated, subscribed, connectFails, connectionBreaks,
              onDisconnected, gatewayRestarts, queue
<1>2. ASSUME NEW m \in Msgs, publishMessage(m) \/ publishResumes(m)
      PROVE  AcknowledgedWasDispatched'
  BY <1>2 DEF publishMessage, publishResumes, Published
<1>3. ASSUME NEW m \in Msgs, NEW a \in Attempts,
             consume(m, a) \/ dispatchMessage(m, a) \/ dispatchFails(m, a)
      PROVE  AcknowledgedWasDispatched'
  BY <1>3 DEF consume, dispatchMessage, dispatchFails, Handled
<1>4. CASE closeRmq \/ UNCHANGED brokerVars
  BY <1>4 DEF closeRmq, brokerVars, queue
<1> QED BY <1>1, <1>2, <1>3, <1>4 DEF BrokerNext

-----------------------------------------------------------------------------
LEMMA BrokerInvariant == BrokerSpec => []BrokerInv
<1>1. BrokerInv /\ [BrokerNext]_brokerVars => BrokerInv'
  BY BrokerTypeStep, NeverGivesUpStep, AcknowledgedStep DEF BrokerInv
<1> QED BY BrokerInitInv, <1>1, PTL DEF BrokerSpec

(* The state keeps its types, and a channel the service holds is alive or    *)
(* has a closing event to come.                                              *)
THEOREM BrokerTypes == BrokerSpec => []BrokerTypeOK
<1>1. BrokerInv => BrokerTypeOK
  BY DEF BrokerInv
<1> QED BY BrokerInvariant, <1>1, PTL

(* Until it is stopped the service has a channel or something that will make *)
(* it try again.                                                             *)
THEOREM BrokerNeverGivesUp == BrokerSpec => []NeverGivesUp
<1>1. BrokerInv => NeverGivesUp
  BY DEF BrokerInv
<1> QED BY BrokerInvariant, <1>1, PTL

(* The broker drops only messages that have been dispatched.                 *)
THEOREM NothingDroppedUnhandled == BrokerSpec => []AcknowledgedWasDispatched
<1>1. BrokerInv => AcknowledgedWasDispatched
  BY DEF BrokerInv
<1> QED BY BrokerInvariant, <1>1, PTL

-----------------------------------------------------------------------------
(* Questions to a human.                                                     *)

AskedStates ==
  {"none", "enqueuing", "queued", "checking", "returned", "lost"} \cup Running

(* The types, the loop's one request at a time apart.                        *)
HumanTypes ==
  /\ proxied \in BOOLEAN /\ connected \in BOOLEAN
  /\ mode \in {"queue", "reject"}
  /\ asked \in [Questions -> AskedStates]
  /\ result \in [Questions -> {"none", "answer", "timeout", "failed"}]
  /\ heard \in [Questions -> {"none", "answer", "timeout"}]
  /\ processQueue \in {"idle", "dequeuing", "running"}
  /\ requestQueue \in Seq(Questions)
  /\ activeRequest \in Questions \cup {NoQuestion}
  /\ waiter \in [Questions -> {"none", "open", "replied", "awaited"}]
  /\ gatewayWaiters \subseteq Questions /\ events \subseteq Questions
  /\ send \in [Questions -> {"none", "posted", "shown", "known"}]
  /\ tap \in [Taps -> {"none", "forwarding", "recorded", "stale", "unavailable", "inbox"}]
  /\ tapped \in [Taps -> Questions \cup {NoQuestion}]
  /\ \A t \in Taps : tap[t] \in {"forwarding", "recorded"} => tapped[t] \in Questions
  /\ storeFailures \in 0..MaxStoreFailures
  /\ askerRestarts \in 0..MaxAskerRestarts
  /\ drops \in 0..MaxDrops

(* The loop runs one request at a time, and knows of it.                     *)
LoopRunsOne ==
  mode = "queue" =>
    /\ \A r \in Questions : asked[r] # "checking"
    /\ \A r, q \in Questions : asked[r] \in Running /\ asked[q] \in Running => r = q
    /\ processQueue # "running" => \A r \in Questions : asked[r] \notin Running

(* The pending record is that of a request that has written it.              *)
ActiveIsRunning ==
  storeFailures = 0 =>
    \A r \in Questions : activeRequest = r => asked[r] \in Running \ {"creating"}

(* A waiter with a promise is that of a request that waits.                  *)
AwaitedWaits == \A r \in Questions : waiter[r] = "awaited" => asked[r] = "waiting"

(* Where the bot and the asker are one process, a request that has a waiter  *)
(* will look at it, and one that was told something looks no more.           *)
Awaits(r, state, what, told) ==
  /\ what \in {"open", "replied"} => state = "sent"
  /\ told # "none" => state \in {"resolving", "returned"}

LocalWaiters ==
  ~proxied =>
    /\ events = {}
    /\ \A t \in Taps : tap[t] # "forwarding"
    /\ storeFailures = 0 /\ askerRestarts = 0 =>
         /\ \A r \in Questions : Awaits(r, asked[r], waiter[r], heard[r])
         /\ \A t \in Taps : tap[t] = "recorded" =>
              heard[tapped[t]] = "answer" \/ waiter[tapped[t]] = "replied"

HumanInv ==
  HumanTypes /\ LoopRunsOne /\ AwaitedWaits /\ ActiveIsRunning /\ LocalWaiters

LEMMA HumanStart == HumanInit => HumanInv
<1> SUFFICES ASSUME HumanInit PROVE HumanInv
  OBVIOUS
<1>1. HumanTypes
  BY HumanAssumption DEF HumanInit, HumanTypes, AskedStates, Running
<1>2. LoopRunsOne
  BY DEF HumanInit, LoopRunsOne, Running
<1>3. ActiveIsRunning /\ AwaitedWaits
  BY HumanAssumption DEF HumanInit, ActiveIsRunning, AwaitedWaits
<1>4. LocalWaiters
  BY DEF HumanInit, LocalWaiters, Awaits
<1> QED
  BY <1>1, <1>2, <1>3, <1>4 DEF HumanInv

LEMMA AskersKeepTypes ==
  ASSUME HumanTypes, NEW r \in Questions,
         submit(r) \/ AskerSteps(r) \/ replyTimeout(r) \/ sendFails(r) \/ storeFailsUnder(r)
  PROVE  HumanTypes'
<1> USE HumanAssumption DEF HumanTypes, AskedStates, Running, Becomes, asker, relay, human
<1>1. CASE submit(r)
  BY <1>1 DEF submit
<1>2. CASE enqueued(r)
  BY <1>2 DEF enqueued
<1>3. CASE getActive(r)
  BY <1>3 DEF getActive, Return
<1>4. CASE createPending(r)
  BY <1>4 DEF createPending
<1>5. CASE messageShown(r)
  BY <1>5 DEF messageShown
<1>6. CASE waiterSet(r)
  BY <1>6 DEF waiterSet
<1>7. CASE requestPosted(r)
  BY <1>7 DEF requestPosted
<1>8. CASE waitForReply(r)
  BY <1>8 DEF waitForReply
<1>9. CASE resolvePending(r)
  BY <1>9 DEF resolvePending, Return
<1>10. CASE replyTimeout(r)
  BY <1>10 DEF replyTimeout, Resolved
<1>11. CASE sendFails(r)
  <2>1. drops' \in 0..MaxDrops
    BY <1>11 DEF sendFails
  <2>2. send' \in [Questions -> {"none", "posted", "shown", "known"}]
    BY <1>11 DEF sendFails
  <2> QED
    BY <1>11, <2>1, <2>2 DEF sendFails
<1>12. CASE storeFailsUnder(r)
  <2>1. storeFailures' \in 0..MaxStoreFailures
    BY <1>12 DEF storeFailsUnder, StoreFails
  <2>2. /\ asked' \in [Questions -> AskedStates]
        /\ result' \in [Questions -> {"none", "answer", "timeout", "failed"}]
    BY <1>12 DEF storeFailsUnder, Return
  <2>3. /\ requestQueue' \in Seq(Questions)
        /\ activeRequest' \in Questions \cup {NoQuestion}
        /\ processQueue' \in {"idle", "dequeuing", "running"}
    BY <1>12 DEF storeFailsUnder, Return
  <2> QED
    BY <1>12, <2>1, <2>2, <2>3 DEF storeFailsUnder
<1> QED
  BY <1>1, <1>2, <1>3, <1>4, <1>5, <1>6, <1>7, <1>8, <1>9, <1>10, <1>11, <1>12 DEF AskerSteps

(* What an answer does to the question it is for.                            *)
LEMMA ReplyEffect ==
  ASSUME HumanTypes, NEW r \in Questions, Reply(r)
  PROVE  /\ asked' \in [Questions -> AskedStates]
         /\ heard' \in [Questions -> {"none", "answer", "timeout"}]
         /\ waiter' \in [Questions -> {"none", "open", "replied", "awaited"}]
         /\ \A q \in Questions \ {r} :
              asked'[q] = asked[q] /\ heard'[q] = heard[q] /\ waiter'[q] = waiter[q]
         /\ waiter[r] = "none" =>
              asked'[r] = asked[r] /\ heard'[r] = heard[r] /\ waiter'[r] = waiter[r]
         /\ waiter[r] = "awaited" =>
              asked'[r] = "resolving" /\ heard'[r] = "answer" /\ waiter'[r] = "none"
         /\ waiter[r] \in {"open", "replied"} =>
              asked'[r] = asked[r] /\ heard'[r] = heard[r] /\ waiter'[r] = "replied"
<1> USE DEF HumanTypes, AskedStates, Running
<1>1. CASE waiter[r] = "none"
  BY <1>1 DEF Reply
<1>2. CASE waiter[r] = "awaited"
  <2>1. Resolved(r, "answer")
    BY <1>2 DEF Reply
  <2> QED
    BY <1>2, <2>1 DEF Resolved, Becomes
<1>3. CASE waiter[r] \in {"open", "replied"}
  BY <1>3 DEF Reply
<1> QED
  BY <1>1, <1>2, <1>3

LEMMA HumansKeepTypes ==
  ASSUME HumanTypes, NEW t \in Taps,
         \/ \E r \in Questions : handleRequestOptionCallback(t, r)
         \/ handleReply(t) \/ notifyTransportReply(t) \/ forwardFails(t)
  PROVE  HumanTypes'
<1> USE DEF asker, relay, human
<1>0. ASSUME NEW r \in Questions, Answered(t, r)
      PROVE  /\ asked' \in [Questions -> AskedStates]
             /\ heard' \in [Questions -> {"none", "answer", "timeout"}]
             /\ waiter' \in [Questions -> {"none", "open", "replied", "awaited"}]
             /\ tap' \in [Taps -> {"none", "forwarding", "recorded", "stale", "unavailable", "inbox"}]
             /\ tapped' \in [Taps -> Questions \cup {NoQuestion}]
             /\ \A s \in Taps : tap'[s] \in {"forwarding", "recorded"} => tapped'[s] \in Questions
  <2>1. /\ asked' \in [Questions -> AskedStates]
        /\ heard' \in [Questions -> {"none", "answer", "timeout"}]
        /\ waiter' \in [Questions -> {"none", "open", "replied", "awaited"}]
    BY <1>0, ReplyEffect DEF Answered, HumanTypes
  <2> QED
    BY <1>0, <2>1 DEF Answered, Told, HumanTypes
<1>00. ASSUME NEW r \in Questions \cup {NoQuestion}, NEW what \in {"stale", "inbox"},
              Told(t, r, what), UNCHANGED <<waiter, heard, asked>>
       PROVE  /\ asked' \in [Questions -> AskedStates]
             /\ heard' \in [Questions -> {"none", "answer", "timeout"}]
             /\ waiter' \in [Questions -> {"none", "open", "replied", "awaited"}]
             /\ tap' \in [Taps -> {"none", "forwarding", "recorded", "stale", "unavailable", "inbox"}]
             /\ tapped' \in [Taps -> Questions \cup {NoQuestion}]
             /\ \A s \in Taps : tap'[s] \in {"forwarding", "recorded"} => tapped'[s] \in Questions
  BY <1>00 DEF Told, HumanTypes
<1>1. ASSUME NEW r \in Questions, handleRequestOptionCallback(t, r) PROVE HumanTypes'
  <2> USE <1>1 DEF handleRequestOptionCallback
  <2>1. CASE r \in BotWaiters
    BY <1>0, <2>1 DEF HumanTypes
  <2>2. CASE r \notin BotWaiters
    BY <1>00, <2>2 DEF HumanTypes
  <2> QED
    BY <2>1, <2>2
<1>2. CASE handleReply(t)
  <2> USE <1>2 DEF handleReply
  <2>1. BotWaiters \subseteq Questions
    BY DEF BotWaiters, HumanTypes
  <2>2. CASE Cardinality(BotWaiters) = 1
    <3>1. PICK r \in BotWaiters : Answered(t, r)
      BY <2>2
    <3> QED
      BY <1>0, <2>1, <3>1 DEF HumanTypes
  <2>3. CASE Cardinality(BotWaiters) # 1
    BY <1>00, <2>3 DEF HumanTypes
  <2> QED
    BY <2>2, <2>3
<1>3. CASE notifyTransportReply(t)
  BY <1>3 DEF notifyTransportReply, HumanTypes
<1>4. CASE forwardFails(t)
  <2>1. drops' \in 0..MaxDrops
    BY <1>4, HumanAssumption DEF forwardFails, HumanTypes
  <2> QED
    BY <1>4, <2>1 DEF forwardFails, HumanTypes
<1> QED
  BY <1>1, <1>2, <1>3, <1>4

LEMMA LoopKeepsTypes ==
  ASSUME HumanTypes,
         \/ dequeueNext \/ dequeueFails \/ askerRestart \/ socketDrops \/ socketReturns
         \/ \E r \in Questions : handleGatewayTransportReplyEvent(r)
  PROVE  HumanTypes'
<1> USE DEF HumanTypes, asker, relay, human
<1>0. /\ requestQueue \in Seq(Questions)
      /\ requestQueue # <<>> => Tail(requestQueue) \in Seq(Questions)
  OBVIOUS
<1>1. CASE dequeueNext
  <2>1. requestQueue' \in Seq(Questions)
    BY ONLY <1>0, <1>1 DEF dequeueNext
  <2>2. asked' \in [Questions -> AskedStates]
    <3>1. requestQueue # <<>> => Head(requestQueue) \in Questions
      OBVIOUS
    <3> QED
      BY <1>1, <3>1 DEF dequeueNext, Becomes, AskedStates, Running
  <2> QED
    BY <1>1, <2>1, <2>2 DEF dequeueNext
<1>2. CASE dequeueFails
  <2>1. storeFailures' \in 0..MaxStoreFailures
    BY <1>2, HumanAssumption DEF dequeueFails, StoreFails
  <2>2. requestQueue' \in Seq(Questions)
    BY ONLY <1>0, <1>2 DEF dequeueFails
  <2> QED
    BY <1>2, <2>1, <2>2 DEF dequeueFails
<1>3. CASE askerRestart
  <2>1. askerRestarts' \in 0..MaxAskerRestarts
    BY <1>3, HumanAssumption DEF askerRestart
  <2>2. asked' \in [Questions -> AskedStates]
    BY <1>3 DEF askerRestart, AskedStates
  <2> QED
    BY <1>3, <2>1, <2>2 DEF askerRestart
<1>4. CASE socketDrops
  <2>1. drops' \in 0..MaxDrops
    BY <1>4, HumanAssumption DEF socketDrops
  <2> QED
    BY <1>4, <2>1 DEF socketDrops
<1>5. CASE socketReturns
  BY <1>5 DEF socketReturns
<1>6. ASSUME NEW r \in Questions, handleGatewayTransportReplyEvent(r) PROVE HumanTypes'
  BY <1>6, ReplyEffect DEF handleGatewayTransportReplyEvent
<1> QED
  BY <1>1, <1>2, <1>3, <1>4, <1>5, <1>6

LEMMA HumanTypesStep == HumanTypes /\ [HumanNext]_humanVars => HumanTypes'
<1> SUFFICES ASSUME HumanTypes, [HumanNext]_humanVars PROVE HumanTypes'
  OBVIOUS
<1>1. CASE UNCHANGED humanVars
  BY <1>1 DEF humanVars, asker, relay, human, HumanTypes
<1> QED
  BY <1>1, AskersKeepTypes, HumansKeepTypes, LoopKeepsTypes DEF HumanNext

LEMMA AskersKeepLoop ==
  ASSUME HumanTypes, LoopRunsOne, NEW r \in Questions,
         submit(r) \/ AskerSteps(r) \/ replyTimeout(r) \/ sendFails(r) \/ storeFailsUnder(r)
  PROVE  LoopRunsOne'
<1>0. asked \in [Questions -> AskedStates] /\ mode \in {"queue", "reject"}
  BY DEF HumanTypes
<1>1. ASSUME NEW to \in AskedStates, Becomes(r, to), mode' = mode,
             mode = "queue" => to # "checking",
             \/ asked[r] \notin Running /\ to \notin Running /\ (processQueue' = "running" <=> processQueue = "running")
             \/ asked[r] \in Running /\ to \in Running /\ processQueue' = processQueue
             \/ asked[r] \in Running /\ to \notin Running
             \/ mode = "reject"
      PROVE  LoopRunsOne'
  BY <1>0, <1>1 DEF LoopRunsOne, Becomes
<1>2. CASE UNCHANGED <<mode, asked, processQueue>>
  BY <1>2 DEF LoopRunsOne
<1> USE DEF AskedStates, Running
<1>3. CASE submit(r)
  BY <1>1, <1>3 DEF submit
<1>4. CASE enqueued(r)
  BY <1>0, <1>1, <1>4 DEF enqueued, HumanTypes
<1>5. CASE getActive(r)
  BY <1>0, <1>1, <1>5 DEF getActive, Return, LoopRunsOne
<1>6. CASE createPending(r)
  BY <1>1, <1>6 DEF createPending
<1>7. CASE messageShown(r)
  BY <1>2, <1>7 DEF messageShown, asker
<1>8. CASE waiterSet(r)
  BY <1>1, <1>2, <1>8 DEF waiterSet
<1>9. CASE requestPosted(r)
  BY <1>1, <1>9 DEF requestPosted
<1>10. CASE waitForReply(r)
  BY <1>1, <1>10 DEF waitForReply
<1>11. CASE resolvePending(r)
  BY <1>1, <1>11 DEF resolvePending, Return
<1>12. CASE replyTimeout(r)
  BY <1>1, <1>12 DEF replyTimeout, Resolved
<1>13. CASE sendFails(r)
  BY <1>1, <1>13 DEF sendFails
<1>14. CASE storeFailsUnder(r)
  BY <1>0, <1>1, <1>14 DEF storeFailsUnder, Return
<1> QED
  BY <1>3, <1>4, <1>5, <1>6, <1>7, <1>8, <1>9, <1>10, <1>11, <1>12, <1>13, <1>14 DEF AskerSteps

(* An answer moves the question it is for no further than to "resolving".    *)
LEMMA ReplyKeepsLoop ==
  ASSUME HumanTypes, LoopRunsOne, NEW r \in Questions, Reply(r), UNCHANGED <<mode, processQueue>>,
         AwaitedWaits
  PROVE  LoopRunsOne'
  BY ReplyEffect DEF LoopRunsOne, AwaitedWaits, Running, HumanTypes, AskedStates

LEMMA LoopStep == HumanTypes /\ AwaitedWaits /\ LoopRunsOne /\ [HumanNext]_humanVars => LoopRunsOne'
<1> SUFFICES ASSUME HumanTypes, AwaitedWaits, LoopRunsOne, [HumanNext]_humanVars PROVE LoopRunsOne'
  OBVIOUS
<1>1. CASE UNCHANGED <<mode, asked, processQueue>>
  BY <1>1 DEF LoopRunsOne
<1>2. ASSUME NEW t \in Taps, NEW r \in Questions, handleRequestOptionCallback(t, r) PROVE LoopRunsOne'
  BY <1>1, <1>2, ReplyKeepsLoop DEF handleRequestOptionCallback, Answered
<1>3. ASSUME NEW t \in Taps, handleReply(t) PROVE LoopRunsOne'
  <2>1. BotWaiters \subseteq Questions
    BY DEF BotWaiters, HumanTypes
  <2> QED
    BY <1>1, <1>3, <2>1, ReplyKeepsLoop DEF handleReply, Answered
<1>4. ASSUME NEW t \in Taps, notifyTransportReply(t) \/ forwardFails(t) PROVE LoopRunsOne'
  BY <1>1, <1>4 DEF notifyTransportReply, forwardFails, asker
<1>5. ASSUME NEW r \in Questions, handleGatewayTransportReplyEvent(r) PROVE LoopRunsOne'
  BY <1>5, ReplyKeepsLoop DEF handleGatewayTransportReplyEvent
<1>6. CASE dequeueNext
  <2>1. requestQueue # <<>> => Head(requestQueue) \in Questions
    BY DEF HumanTypes
  <2> QED
    BY <1>6, <2>1 DEF dequeueNext, LoopRunsOne, HumanTypes, AskedStates, Running, Becomes
<1>7. CASE dequeueFails
  BY <1>7 DEF dequeueFails, LoopRunsOne
<1>8. CASE askerRestart
  BY <1>8 DEF askerRestart, LoopRunsOne, HumanTypes, Running
<1>9. CASE socketDrops \/ socketReturns
  BY <1>1, <1>9 DEF socketDrops, socketReturns, asker
<1>10. CASE UNCHANGED humanVars
  BY <1>1, <1>10 DEF humanVars, asker
<1> QED
  BY <1>2, <1>3, <1>4, <1>5, <1>6, <1>7, <1>8, <1>9, <1>10, AskersKeepLoop DEF HumanNext

-----------------------------------------------------------------------------
LEMMA AwaitedStep == HumanTypes /\ AwaitedWaits /\ [HumanNext]_humanVars => AwaitedWaits'
<1> SUFFICES ASSUME HumanTypes, AwaitedWaits, [HumanNext]_humanVars PROVE AwaitedWaits'
  OBVIOUS
<1>0. asked \in [Questions -> AskedStates] /\ waiter \in [Questions -> {"none", "open", "replied", "awaited"}]
  BY DEF HumanTypes
<1>1. CASE UNCHANGED <<waiter, asked>>
  BY <1>1 DEF AwaitedWaits
<1>2. ASSUME NEW r \in Questions, Reply(r) PROVE AwaitedWaits'
  BY <1>0, <1>2, ReplyEffect DEF AwaitedWaits
<1>3. ASSUME NEW r \in Questions, NEW to, Becomes(r, to), asked[r] # "waiting", UNCHANGED waiter
      PROVE  AwaitedWaits'
  BY <1>0, <1>3 DEF AwaitedWaits, Becomes
<1>4. ASSUME NEW r \in Questions, NEW to, Becomes(r, to), NEW what, waiter' = [waiter EXCEPT ![r] = what],
             what = "awaited" => to = "waiting"
      PROVE  AwaitedWaits'
  BY <1>0, <1>4 DEF AwaitedWaits, Becomes
<1>5. ASSUME NEW r \in Questions,
             submit(r) \/ AskerSteps(r) \/ replyTimeout(r) \/ sendFails(r) \/ storeFailsUnder(r)
      PROVE  AwaitedWaits'
  <2>1. CASE submit(r)
    BY <1>3, <2>1 DEF submit
  <2>2. CASE enqueued(r)
    BY <1>3, <2>2 DEF enqueued
  <2>3. CASE getActive(r)
    BY <1>3, <2>3 DEF getActive, Return
  <2>4. CASE createPending(r)
    BY <1>3, <1>4, <2>4 DEF createPending
  <2>5. CASE messageShown(r)
    BY <1>1, <2>5 DEF messageShown, asker
  <2>6. CASE waiterSet(r)
    BY <1>1, <1>4, <2>6 DEF waiterSet
  <2>7. CASE requestPosted(r)
    BY <1>3, <2>7 DEF requestPosted
  <2>8. CASE waitForReply(r)
    BY <1>4, <2>8 DEF waitForReply
  <2>9. CASE resolvePending(r)
    BY <1>3, <2>9 DEF resolvePending, Return
  <2>10. CASE replyTimeout(r)
    BY <1>4, <2>10 DEF replyTimeout, Resolved
  <2>11. CASE sendFails(r)
    BY <1>4, <2>11 DEF sendFails
  <2>12. CASE storeFailsUnder(r)
    BY <1>3, <2>12 DEF storeFailsUnder, Return
  <2> QED
    BY <1>5, <2>1, <2>2, <2>3, <2>4, <2>5, <2>6, <2>7, <2>8, <2>9, <2>10, <2>11, <2>12 DEF AskerSteps
<1>6. ASSUME NEW t \in Taps, NEW r \in Questions, handleRequestOptionCallback(t, r) PROVE AwaitedWaits'
  BY <1>1, <1>2, <1>6 DEF handleRequestOptionCallback, Answered
<1>7. ASSUME NEW t \in Taps, handleReply(t) PROVE AwaitedWaits'
  <2>1. BotWaiters \subseteq Questions
    BY DEF BotWaiters, HumanTypes
  <2> QED
    BY <1>1, <1>2, <1>7, <2>1 DEF handleReply, Answered
<1>8. ASSUME NEW t \in Taps, notifyTransportReply(t) \/ forwardFails(t) PROVE AwaitedWaits'
  BY <1>1, <1>8 DEF notifyTransportReply, forwardFails, asker
<1>9. ASSUME NEW r \in Questions, handleGatewayTransportReplyEvent(r) PROVE AwaitedWaits'
  BY <1>2, <1>9 DEF handleGatewayTransportReplyEvent
<1>10. CASE dequeueNext
  <2>1. requestQueue # <<>> => Head(requestQueue) \in Questions
    BY DEF HumanTypes
  <2> QED
    BY <1>1, <1>3, <1>10, <2>1 DEF dequeueNext
<1>11. CASE dequeueFails
  BY <1>1, <1>11 DEF dequeueFails
<1>12. CASE askerRestart
  BY <1>12 DEF askerRestart, AwaitedWaits
<1>13. CASE socketDrops \/ socketReturns \/ UNCHANGED humanVars
  BY <1>1, <1>13 DEF socketDrops, socketReturns, humanVars, asker
<1> QED
  BY <1>5, <1>6, <1>7, <1>8, <1>9, <1>10, <1>11, <1>12, <1>13 DEF HumanNext

-----------------------------------------------------------------------------
LEMMA ActiveStep ==
  HumanTypes /\ AwaitedWaits /\ ActiveIsRunning /\ [HumanNext]_humanVars => ActiveIsRunning'
<1> SUFFICES ASSUME HumanTypes, AwaitedWaits, ActiveIsRunning, [HumanNext]_humanVars
             PROVE  ActiveIsRunning'
  OBVIOUS
<1>0. /\ asked \in [Questions -> AskedStates] /\ activeRequest \in Questions \cup {NoQuestion}
      /\ storeFailures \in Nat /\ NoQuestion \notin Questions
  BY HumanAssumption DEF HumanTypes
<1>1. CASE UNCHANGED <<asked, activeRequest, storeFailures>>
  BY <1>1 DEF ActiveIsRunning
<1>2. ASSUME NEW r \in Questions, NEW to, Becomes(r, to), UNCHANGED storeFailures,
             \/ /\ asked[r] \in Running \ {"creating"} => to \in Running \ {"creating"}
                /\ activeRequest' = activeRequest
             \/ activeRequest' = r /\ to = "sending"
             \/ activeRequest' = NoQuestion
      PROVE  ActiveIsRunning'
  BY <1>0, <1>2 DEF ActiveIsRunning, Becomes, Running
<1>3. CASE storeFailures' = storeFailures + 1
  BY <1>0, <1>3 DEF ActiveIsRunning
<1>4. ASSUME NEW r \in Questions, Reply(r), UNCHANGED <<activeRequest, storeFailures>>
      PROVE  ActiveIsRunning'
  <2>1. /\ \A q \in Questions \ {r} : asked'[q] = asked[q]
        /\ asked'[r] = asked[r] \/ asked'[r] = "resolving"
    BY <1>4, ReplyEffect DEF HumanTypes
  <2> QED
    BY <1>4, <2>1 DEF ActiveIsRunning, Running
<1>5. ASSUME NEW r \in Questions,
             submit(r) \/ AskerSteps(r) \/ replyTimeout(r) \/ sendFails(r) \/ storeFailsUnder(r)
      PROVE  ActiveIsRunning'
  <2> USE DEF Running
  <2>1. CASE submit(r)
    BY <1>2, <2>1 DEF submit
  <2>2. CASE enqueued(r)
    BY <1>2, <2>2 DEF enqueued
  <2>3. CASE getActive(r)
    BY <1>2, <2>3 DEF getActive, Return
  <2>4. CASE createPending(r)
    BY <1>2, <2>4 DEF createPending
  <2>5. CASE messageShown(r)
    BY <1>1, <2>5 DEF messageShown, asker
  <2>6. CASE waiterSet(r)
    BY <1>1, <1>2, <2>6 DEF waiterSet
  <2>7. CASE requestPosted(r)
    BY <1>2, <2>7 DEF requestPosted
  <2>8. CASE waitForReply(r)
    BY <1>2, <2>8 DEF waitForReply
  <2>9. CASE resolvePending(r)
    BY <1>2, <2>9 DEF resolvePending, Return
  <2>10. CASE replyTimeout(r)
    BY <1>2, <2>10 DEF replyTimeout, Resolved
  <2>11. CASE sendFails(r)
    BY <1>2, <2>11 DEF sendFails
  <2>12. CASE storeFailsUnder(r)
    BY <1>3, <2>12 DEF storeFailsUnder, StoreFails
  <2> QED
    BY <1>5, <2>1, <2>2, <2>3, <2>4, <2>5, <2>6, <2>7, <2>8, <2>9, <2>10, <2>11, <2>12 DEF AskerSteps
<1>6. ASSUME NEW t \in Taps, NEW r \in Questions, handleRequestOptionCallback(t, r)
      PROVE  ActiveIsRunning'
  BY <1>1, <1>4, <1>6 DEF handleRequestOptionCallback, Answered
<1>7. ASSUME NEW t \in Taps, handleReply(t) PROVE ActiveIsRunning'
  <2>1. BotWaiters \subseteq Questions
    BY DEF BotWaiters, HumanTypes
  <2> QED
    BY <1>1, <1>4, <1>7, <2>1 DEF handleReply, Answered
<1>8. ASSUME NEW t \in Taps, notifyTransportReply(t) \/ forwardFails(t) PROVE ActiveIsRunning'
  BY <1>1, <1>8 DEF notifyTransportReply, forwardFails, asker
<1>9. ASSUME NEW r \in Questions, handleGatewayTransportReplyEvent(r) PROVE ActiveIsRunning'
  BY <1>4, <1>9 DEF handleGatewayTransportReplyEvent
<1>10. CASE dequeueNext
  <2>1. requestQueue # <<>> => Head(requestQueue) \in Questions
    BY DEF HumanTypes
  <2> QED
    BY <1>1, <1>2, <1>10, <2>1 DEF dequeueNext, Running
<1>11. CASE dequeueFails
  BY <1>3, <1>11 DEF dequeueFails, StoreFails
<1>12. CASE askerRestart
  BY <1>0, <1>12 DEF askerRestart, ActiveIsRunning
<1>13. CASE socketDrops \/ socketReturns \/ UNCHANGED humanVars
  BY <1>1, <1>13 DEF socketDrops, socketReturns, humanVars, asker
<1> QED
  BY <1>5, <1>6, <1>7, <1>8, <1>9, <1>10, <1>11, <1>12, <1>13 DEF HumanNext

-----------------------------------------------------------------------------
NoFaults == storeFailures = 0 /\ askerRestarts = 0

(* A step of question r that leaves an answer it was given where it is.      *)
Kept(r) ==
  /\ \A q \in Questions \ {r} :
       asked'[q] = asked[q] /\ waiter'[q] = waiter[q] /\ heard'[q] = heard[q]
  /\ Awaits(r, asked[r], waiter[r], heard[r]) => Awaits(r, asked'[r], waiter'[r], heard'[r])
  /\ Awaits(r, asked[r], waiter[r], heard[r]) /\ (heard[r] = "answer" \/ waiter[r] = "replied") =>
       heard'[r] = "answer" \/ waiter'[r] = "replied"

LEMMA AskersKeepAnswers ==
  ASSUME HumanTypes, ~proxied, NEW r \in Questions,
         submit(r) \/ AskerSteps(r) \/ replyTimeout(r) \/ sendFails(r)
  PROVE  Kept(r) /\ UNCHANGED <<proxied, events, tap, tapped, storeFailures, askerRestarts>>
<1>0. /\ asked \in [Questions -> AskedStates] /\ heard \in [Questions -> {"none", "answer", "timeout"}]
      /\ waiter \in [Questions -> {"none", "open", "replied", "awaited"}]
  BY DEF HumanTypes
<1> USE <1>0 DEF Kept, Awaits, Becomes, relay, human
<1>1. CASE submit(r)
  BY <1>1 DEF submit
<1>2. CASE enqueued(r)
  BY <1>2 DEF enqueued
<1>3. CASE getActive(r)
  BY <1>3 DEF getActive, Return
<1>4. CASE createPending(r)
  BY <1>4 DEF createPending
<1>5. CASE messageShown(r)
  BY <1>5 DEF messageShown, asker
<1>6. CASE waiterSet(r)
  BY <1>6 DEF waiterSet
<1>7. CASE requestPosted(r)
  BY <1>7 DEF requestPosted
<1>8. CASE waitForReply(r)
  BY <1>8 DEF waitForReply
<1>9. CASE resolvePending(r)
  BY <1>9 DEF resolvePending, Return
<1>10. CASE replyTimeout(r)
  BY <1>10 DEF replyTimeout, Resolved
<1>11. CASE sendFails(r)
  BY <1>11 DEF sendFails
<1> QED
  BY <1>1, <1>2, <1>3, <1>4, <1>5, <1>6, <1>7, <1>8, <1>9, <1>10, <1>11 DEF AskerSteps

LEMMA LocalStep ==
  HumanTypes /\ AwaitedWaits /\ LocalWaiters /\ [HumanNext]_humanVars => LocalWaiters'
<1> SUFFICES ASSUME HumanTypes, AwaitedWaits, LocalWaiters, [HumanNext]_humanVars
             PROVE  LocalWaiters'
  OBVIOUS
<1>0. storeFailures \in Nat /\ askerRestarts \in Nat
  BY HumanAssumption DEF HumanTypes
<1>1. proxied' = proxied
  <2>1. ASSUME NEW r \in Questions,
               \/ submit(r) \/ AskerSteps(r) \/ replyTimeout(r) \/ sendFails(r)
               \/ storeFailsUnder(r) \/ handleGatewayTransportReplyEvent(r)
        PROVE  proxied' = proxied
    BY <2>1 DEF AskerSteps, submit, enqueued, getActive, createPending, messageShown, waiterSet,
         requestPosted, waitForReply, resolvePending, replyTimeout, sendFails, storeFailsUnder,
         handleGatewayTransportReplyEvent
  <2>2. ASSUME NEW t \in Taps,
               \/ \E r \in Questions : handleRequestOptionCallback(t, r)
               \/ handleReply(t) \/ notifyTransportReply(t) \/ forwardFails(t)
        PROVE  proxied' = proxied
    BY <2>2 DEF handleRequestOptionCallback, handleReply, notifyTransportReply, forwardFails
  <2> QED
    BY <2>1, <2>2 DEF HumanNext, humanVars, dequeueNext, dequeueFails, askerRestart, socketDrops,
                      socketReturns
<1>2. CASE proxied
  BY <1>1, <1>2 DEF LocalWaiters
<1>3. CASE ~proxied
  <2> USE <1>1, <1>3
  <2>0. /\ events = {} /\ \A t \in Taps : tap[t] # "forwarding"
        /\ NoFaults =>
             /\ \A r \in Questions : Awaits(r, asked[r], waiter[r], heard[r])
             /\ \A t \in Taps : tap[t] = "recorded" =>
                  heard[tapped[t]] = "answer" \/ waiter[tapped[t]] = "replied"
    BY DEF LocalWaiters, NoFaults
  <2>1. CASE ~NoFaults' /\ UNCHANGED <<events, tap>>
    BY <2>0, <2>1 DEF LocalWaiters, NoFaults
  <2>2. CASE UNCHANGED <<events, tap, tapped, asked, waiter, heard, storeFailures, askerRestarts>>
    BY <2>0, <2>2 DEF LocalWaiters, Awaits, NoFaults
  <2>3. ASSUME NEW r \in Questions, Kept(r),
               UNCHANGED <<events, tap, tapped, storeFailures, askerRestarts>>
        PROVE  LocalWaiters'
    <3>1. /\ events' = {} /\ \A t \in Taps : tap'[t] # "forwarding"
          /\ NoFaults' => NoFaults
      BY <2>0, <2>3 DEF NoFaults
    <3>2. ASSUME NoFaults, NEW q \in Questions PROVE Awaits(q, asked'[q], waiter'[q], heard'[q])
      BY <2>0, <2>3, <3>2 DEF Kept
    <3>3. ASSUME NoFaults, NEW t \in Taps, tap'[t] = "recorded"
          PROVE  heard'[tapped'[t]] = "answer" \/ waiter'[tapped'[t]] = "replied"
      <4>1. tap[t] = "recorded" /\ tapped'[t] = tapped[t] /\ tapped[t] \in Questions
        BY <2>3, <3>3 DEF HumanTypes
      <4> QED
        BY <2>0, <2>3, <3>3, <4>1 DEF Kept
    <3> QED
      BY <3>1, <3>2, <3>3 DEF LocalWaiters, NoFaults, Awaits
  <2>4. ASSUME NEW t \in Taps, NEW r \in BotWaiters, Answered(t, r),
               UNCHANGED <<events, storeFailures, askerRestarts>>
        PROVE  LocalWaiters'
    <3>0. /\ r \in Questions /\ waiter[r] \in {"open", "replied", "awaited"}
          /\ Reply(r) /\ Told(t, r, "recorded")
      BY <2>4 DEF BotWaiters, Answered, HumanTypes
    <3>1. /\ tap' = [tap EXCEPT ![t] = "recorded"] /\ tapped' = [tapped EXCEPT ![t] = r]
          /\ DOMAIN tap = Taps /\ DOMAIN tapped = Taps
      BY <3>0 DEF Told, HumanTypes
    <3>2. /\ \A q \in Questions \ {r} :
               asked'[q] = asked[q] /\ heard'[q] = heard[q] /\ waiter'[q] = waiter[q]
          /\ \/ asked'[r] = "resolving" /\ heard'[r] = "answer" /\ waiter'[r] = "none"
             \/ asked'[r] = asked[r] /\ heard'[r] = heard[r] /\ waiter'[r] = "replied"
                  /\ waiter[r] \in {"open", "replied"}
      BY <3>0, ReplyEffect
    <3>3. /\ events' = {} /\ \A s \in Taps : tap'[s] # "forwarding"
          /\ NoFaults' => NoFaults
      BY <2>0, <2>4, <3>1 DEF NoFaults
    <3>4. ASSUME NoFaults, NEW q \in Questions PROVE Awaits(q, asked'[q], waiter'[q], heard'[q])
      BY <2>0, <3>2, <3>4 DEF Awaits
    <3>5. ASSUME NoFaults, NEW s \in Taps, tap'[s] = "recorded"
          PROVE  heard'[tapped'[s]] = "answer" \/ waiter'[tapped'[s]] = "replied"
      <4>1. CASE s = t
        BY <3>1, <3>2, <4>1
      <4>2. CASE s # t
        <5>1. tap[s] = "recorded" /\ tapped'[s] = tapped[s] /\ tapped[s] \in Questions
          BY <3>1, <3>5, <4>2 DEF HumanTypes
        <5> QED
          BY <2>0, <3>2, <3>5, <5>1
      <4> QED
        BY <4>1, <4>2
    <3> QED
      BY <3>3, <3>4, <3>5 DEF LocalWaiters, NoFaults, Awaits
  <2>5. ASSUME NEW t \in Taps, NEW r, NEW what, Told(t, r, what), what \in {"stale", "inbox"},
               UNCHANGED <<waiter, heard, asked, events, storeFailures, askerRestarts>>
        PROVE  LocalWaiters'
    <3>1. /\ tap' = [tap EXCEPT ![t] = what] /\ tapped' = [tapped EXCEPT ![t] = r]
          /\ DOMAIN tap = Taps /\ DOMAIN tapped = Taps
      BY <2>5 DEF Told, HumanTypes
    <3> QED
      BY <2>0, <2>5, <3>1 DEF LocalWaiters, NoFaults, Awaits
  <2>6. ASSUME NEW r \in Questions, storeFailsUnder(r) PROVE LocalWaiters'
    BY <1>0, <2>1, <2>6 DEF storeFailsUnder, StoreFails, NoFaults, relay, human
  <2>7. ASSUME NEW r \in Questions,
               submit(r) \/ AskerSteps(r) \/ replyTimeout(r) \/ sendFails(r)
        PROVE  LocalWaiters'
    BY <2>3, <2>7, AskersKeepAnswers
  <2>8. ASSUME NEW t \in Taps, NEW r \in Questions, handleRequestOptionCallback(t, r)
        PROVE  LocalWaiters'
    BY <2>4, <2>5, <2>8 DEF handleRequestOptionCallback, relay
  <2>9. ASSUME NEW t \in Taps, handleReply(t) PROVE LocalWaiters'
    BY <2>4, <2>5, <2>9 DEF handleReply, relay
  <2>10. ASSUME NEW t \in Taps, notifyTransportReply(t) \/ forwardFails(t) PROVE LocalWaiters'
    BY <2>0, <2>10 DEF notifyTransportReply, forwardFails
  <2>11. ASSUME NEW r \in Questions, handleGatewayTransportReplyEvent(r) PROVE LocalWaiters'
    BY <2>0, <2>11 DEF handleGatewayTransportReplyEvent
  <2>12. CASE dequeueNext
    <3>1. requestQueue # <<>> => Head(requestQueue) \in Questions
      BY DEF HumanTypes
    <3>2. ASSUME requestQueue # <<>>, asked[Head(requestQueue)] = "queued",
                 Becomes(Head(requestQueue), "creating"), UNCHANGED <<waiter, heard>>
          PROVE  Kept(Head(requestQueue))
      BY <3>1, <3>2 DEF Kept, Awaits, Becomes, HumanTypes
    <3> QED
      BY <2>2, <2>3, <2>12, <3>1, <3>2 DEF dequeueNext, relay, human
  <2>13. CASE dequeueFails
    BY <1>0, <2>1, <2>13 DEF dequeueFails, StoreFails, NoFaults, relay, human
  <2>14. CASE askerRestart
    BY <1>0, <2>1, <2>14 DEF askerRestart, NoFaults, relay, human
  <2>15. CASE socketDrops
    BY <2>15 DEF socketDrops
  <2>16. CASE socketReturns \/ UNCHANGED humanVars
    BY <2>2, <2>16 DEF socketReturns, humanVars, asker, relay, human
  <2> QED
    BY <2>6, <2>7, <2>8, <2>9, <2>10, <2>11, <2>12, <2>13, <2>14, <2>15, <2>16 DEF HumanNext
<1> QED
  BY <1>2, <1>3

-----------------------------------------------------------------------------
LEMMA HumanStep == HumanInv /\ [HumanNext]_humanVars => HumanInv'
  BY HumanTypesStep, LoopStep, AwaitedStep, ActiveStep, LocalStep DEF HumanInv

LEMMA HumanTyped == HumanInv => HumanTypeOK
<1> SUFFICES ASSUME HumanInv PROVE HumanTypeOK
  OBVIOUS
<1>1. processQueue = "idle" => \A r \in Questions : mode = "queue" => asked[r] \notin Running
  BY DEF HumanInv, LoopRunsOne
<1> QED
  BY <1>1 DEF HumanInv, HumanTypes, AskedStates, HumanTypeOK

\* The state keeps its types, and the loop over the queue is idle only while no
\* queued request runs.
THEOREM HumanRequestTypes == HumanSpec => []HumanTypeOK
  BY HumanStart, HumanStep, HumanTyped, PTL DEF HumanSpec

\* The pending record is never that of a request whose caller has been told, in
\* either queue mode and for any number of questions, while the store does not fail.
THEOREM ReturnedQuestionsAreClosed == HumanSpec => []ReturnedIsNotActive
<1>1. HumanInv => ReturnedIsNotActive
  BY DEF HumanInv, ActiveIsRunning, ReturnedIsNotActive, Running
<1> QED
  BY <1>1, HumanStart, HumanStep, PTL DEF HumanSpec

\* In a process that runs its own bot, whoever was told "recorded" has answered a
\* question whose caller has the answer, or will find it when it looks.
THEOREM LocalAnswersAreHeard == HumanSpec => []LocalAnswerIsHeard
<1>1. HumanInv => LocalAnswerIsHeard
  <2> SUFFICES ASSUME HumanInv, ~proxied, NEW t \in Taps, tap[t] = "recorded",
                      storeFailures = 0, askerRestarts = 0
               PROVE  \/ heard[tapped[t]] = "answer" \/ tapped[t] \in events
                      \/ waiter[tapped[t]] = "replied" /\ asked[tapped[t]] \in {"sending", "sent"}
    BY DEF LocalAnswerIsHeard, RecordedIsHeard
  <2>1. tapped[t] \in Questions
    BY DEF HumanInv, HumanTypes
  <2> QED
    BY <2>1 DEF HumanInv, LocalWaiters, Awaits
<1> QED
  BY <1>1, HumanStart, HumanStep, PTL DEF HumanSpec

-----------------------------------------------------------------------------
(* The turns of an agent.                                                    *)

(* A record that no agent backs yet has nothing.                             *)
FreshStarts ==
  \A s \in Starts : starting[s] \in {"none", "preparing"} =>
    /\ current # s /\ appClient[s] = "none" /\ ~busy[s] /\ activeTurn[s] = NoTurn
    /\ \A t \in Turns : turn[t].of # s

(* A turn belongs to a record once it is submitted, and its submission       *)
(* returns after its answer.                                                 *)
TurnsHaveRecords ==
  \A t \in Turns : /\ turn[t].phase # "none" <=> turn[t].of # NoStart
                   /\ turn[t].phase \in {"none", "sent"} => ~turn[t].returned

(* What BusyHasTurn says of the record the console has, with the turn        *)
(* itself instead of a cardinality, and that a turn which ended before its   *)
(* submission returned leaves the record free until it does.                 *)
RecordIsBusy(s) ==
  /\ busy[s] <=> Unfinished(s) # {}
  /\ \A t, u \in Unfinished(s) : t = u
  /\ activeTurn[s] # NoTurn =>
       /\ busy[s] /\ activeTurn[s] \in Turns
       /\ Pending(activeTurn[s]) /\ turn[activeTurn[s]].of = s
  /\ \A t \in Turns : turn[t].of = s /\ turn[t].phase = "settled" /\ ~turn[t].returned => ~busy[s]

CurrentIsBusy == \A s \in Starts : current = s => RecordIsBusy(s)

(* A turn whose end was told has no progress to tell.                        *)
ToldIsStopped ==
  \A t \in Turns : reported[t] # "none" => progress[t].relay = "stopped"

AgentInv ==
  AgentTurnsTypeOK /\ FreshStarts /\ TurnsHaveRecords /\ CurrentIsBusy /\ ToldIsStopped

LEMMA AgentInitInv == AgentTurnsInit => AgentInv
<1> SUFFICES ASSUME AgentTurnsInit PROVE AgentInv
  OBVIOUS
<1>1. AgentTurnsTypeOK
  <2>1. 0 \in 0..FailedPolls /\ 0 \in 0..EmptyPolls /\ 0 \in 0..MaxUpdates /\ 0 \in 0..MaxPollFailures
    BY AgentTurnsAssumption
  <2> QED BY <2>1, AgentTurnsAssumption DEF AgentTurnsInit, AgentTurnsTypeOK
<1>2. FreshStarts /\ TurnsHaveRecords /\ CurrentIsBusy /\ ToldIsStopped
  BY AgentTurnsAssumption DEF AgentTurnsInit, FreshStarts, TurnsHaveRecords, CurrentIsBusy,
     ToldIsStopped
<1> QED BY <1>1, <1>2 DEF AgentInv

-----------------------------------------------------------------------------
(* The types.                                                                *)

TurnRecords ==
  [of : Starts \cup {NoStart}, ended : BOOLEAN,
   phase : {"none", "sent", "pending", "settled"}, returned : BOOLEAN]
PollRecords ==
  [timer : BOOLEAN, inFlight : BOOLEAN, failures : 0..FailedPolls, empty : 0..EmptyPolls]
ProgressRecords == [relay : {"idle", "timer", "stopped"}, sent : 0..MaxUpdates]

(* What the steps write of a turn and of its poll is well typed.             *)
LEMMA TurnWritten ==
  ASSUME turn \in [Turns -> TurnRecords], NEW t \in Turns
  PROVE  /\ [turn EXCEPT ![t].returned = TRUE] \in [Turns -> TurnRecords]
         /\ [turn EXCEPT ![t].ended = TRUE] \in [Turns -> TurnRecords]
         /\ [turn EXCEPT ![t].phase = "pending"] \in [Turns -> TurnRecords]
         /\ [turn EXCEPT ![t].phase = "settled"] \in [Turns -> TurnRecords]
         /\ [turn EXCEPT ![t].phase = "settled", ![t].returned = TRUE] \in [Turns -> TurnRecords]
  BY DEF TurnRecords

LEMMA PollWritten ==
  ASSUME poll \in [Turns -> PollRecords], NEW t \in Turns,
         NEW n \in 0..FailedPolls, NEW e \in 0..EmptyPolls
  PROVE  /\ [poll EXCEPT ![t].timer = TRUE] \in [Turns -> PollRecords]
         /\ [poll EXCEPT ![t].timer = FALSE, ![t].inFlight = FALSE] \in [Turns -> PollRecords]
         /\ [poll EXCEPT ![t].timer = FALSE, ![t].inFlight = TRUE] \in [Turns -> PollRecords]
         /\ [poll EXCEPT ![t].inFlight = FALSE, ![t].timer = TRUE, ![t].failures = n]
               \in [Turns -> PollRecords]
         /\ [poll EXCEPT ![t].empty = e] \in [Turns -> PollRecords]
  BY DEF PollRecords

LEMMA PollStopped ==
  ASSUME NEW p \in PollRecords
  PROVE  [p EXCEPT !.timer = FALSE, !.inFlight = FALSE] \in PollRecords
  BY DEF PollRecords

LEMMA RejectAllType ==
  ASSUME AgentTurnsTypeOK, NEW s \in Starts, NEW record, RejectAll(s, record)
  PROVE  /\ appClient' \in [Starts -> {"none", "open", "closed"}]
         /\ appClient'[s] = "closed" /\ \A r \in Starts : r # s => appClient'[r] = appClient[r]
         /\ busy' \in [Starts -> BOOLEAN]
         /\ activeTurn' \in [Starts -> Turns \cup {NoTurn}]
         /\ turn' \in [Turns -> TurnRecords]
         /\ poll' \in [Turns -> PollRecords]
         /\ progress' \in [Turns -> ProgressRecords]
         /\ served' = served
         /\ reported' \in [Turns -> {"none", "refused"} \cup Ends]
         /\ pollFailures' = pollFailures
<1> USE DEF AgentTurnsTypeOK, TurnRecords, PollRecords, ProgressRecords
<1> DEFINE lost == Unfinished(s)
           unanswered == {t \in lost : turn[t].phase = "sent"}
           over == unanswered # {} \/ (record = s /\ lost # {})
<1>1. /\ appClient' = [appClient EXCEPT ![s] = "closed"]
      /\ served' = served /\ pollFailures' = pollFailures
  BY DEF RejectAll
<1>2. /\ busy' = [busy EXCEPT ![s] = @ /\ ~over]
      /\ activeTurn' = [activeTurn EXCEPT ![s] = IF over THEN NoTurn ELSE @]
  BY DEF RejectAll
<1>3. turn' = [t \in Turns |-> IF t \in lost
                 THEN [turn[t] EXCEPT !.phase = "settled", !.returned = @ \/ t \in unanswered]
                 ELSE turn[t]]
  BY DEF RejectAll
<1>4. poll' = [t \in Turns |-> IF t \in lost
                 THEN [poll[t] EXCEPT !.timer = FALSE, !.inFlight = FALSE] ELSE poll[t]]
  BY DEF RejectAll
<1>5. progress' = [t \in Turns |-> IF turn[t].of = s
                     THEN [progress[t] EXCEPT !.relay = "stopped"] ELSE progress[t]]
  BY DEF RejectAll
<1>6. reported' = [t \in Turns |-> CASE t \in unanswered -> "refused"
                                     [] t \in lost \ unanswered -> "failed"
                                     [] OTHER -> reported[t]]
  BY DEF RejectAll
<1>7. busy' \in [Starts -> BOOLEAN]
  <2> HIDE DEF over
  <2> QED BY <1>2
<1>8. activeTurn' \in [Starts -> Turns \cup {NoTurn}]
  <2> HIDE DEF over
  <2> QED BY <1>2
<1>9. /\ poll' \in [Turns -> PollRecords]
      /\ progress' \in [Turns -> ProgressRecords]
  <2>1. ASSUME NEW t \in Turns
        PROVE  /\ [poll[t] EXCEPT !.timer = FALSE, !.inFlight = FALSE] \in PollRecords
               /\ poll[t] \in PollRecords
    <3>1. poll \in [Turns -> PollRecords]
      BY DEF AgentTurnsTypeOK, PollRecords
    <3> HIDE DEF PollRecords, AgentTurnsTypeOK
    <3> QED BY <3>1, PollStopped
  <2>2. ASSUME NEW t \in Turns
        PROVE  /\ [progress[t] EXCEPT !.relay = "stopped"] \in ProgressRecords
               /\ progress[t] \in ProgressRecords
    OBVIOUS
  <2> HIDE DEF lost, AgentTurnsTypeOK, TurnRecords, PollRecords, ProgressRecords
  <2>3. poll' \in [Turns -> PollRecords]
    BY <1>4, <2>1
  <2>4. progress' \in [Turns -> ProgressRecords]
    BY <1>5, <2>2
  <2> QED BY <2>3, <2>4
<1>10. reported' \in [Turns -> {"none", "refused"} \cup Ends]
  <2> HIDE DEF lost, unanswered
  <2> QED BY <1>6 DEF Ends
<1>11. turn' \in [Turns -> TurnRecords]
  <2>1. turn \in [Turns -> TurnRecords]
    BY DEF AgentTurnsTypeOK
  <2>2. ASSUME NEW t \in Turns, NEW b \in BOOLEAN
        PROVE  /\ [turn[t] EXCEPT !.phase = "settled", !.returned = b] \in TurnRecords
               /\ turn[t] \in TurnRecords /\ turn[t].returned \in BOOLEAN
    <3> turn[t] \in TurnRecords
      BY <2>1
    <3> QED BY DEF TurnRecords
  <2> HIDE DEF lost, unanswered, AgentTurnsTypeOK, TurnRecords
  <2>3. ASSUME NEW t \in Turns
        PROVE  [turn[t] EXCEPT !.phase = "settled", !.returned = @ \/ t \in unanswered] \in TurnRecords
    <3> DEFINE b == turn[t].returned \/ t \in unanswered
    <3>1. b \in BOOLEAN
      OBVIOUS
    <3> HIDE DEF b
    <3>2. [turn[t] EXCEPT !.phase = "settled", !.returned = b] \in TurnRecords
      BY <2>2, <3>1
    <3> QED BY <3>2 DEF b
  <2> QED BY <1>3, <2>2, <2>3
<1> QED BY <1>1, <1>7, <1>8, <1>9, <1>10, <1>11

LEMMA SettleTurnType ==
  ASSUME AgentTurnsTypeOK, NEW t \in Turns, NEW end \in Ends, settleTurn(t, end)
  PROVE  /\ busy' \in [Starts -> BOOLEAN]
         /\ activeTurn' \in [Starts -> Turns \cup {NoTurn}]
         /\ turn' \in [Turns -> TurnRecords]
         /\ poll' \in [Turns -> PollRecords]
         /\ progress' \in [Turns -> ProgressRecords]
         /\ reported' \in [Turns -> {"none", "refused"} \cup Ends]
<1>1. turn \in [Turns -> TurnRecords] /\ poll \in [Turns -> PollRecords]
  BY DEF AgentTurnsTypeOK, TurnRecords, PollRecords
<1>2. turn' \in [Turns -> TurnRecords]
  BY <1>1, TurnWritten DEF settleTurn
<1>3. 0 \in 0..FailedPolls /\ 0 \in 0..EmptyPolls
  BY AgentTurnsAssumption
<1>4. poll' \in [Turns -> PollRecords]
  BY <1>1, <1>3, PollWritten DEF settleTurn
<1>5. progress' \in [Turns -> ProgressRecords]
  BY DEF settleTurn, AgentTurnsTypeOK, ProgressRecords
<1> QED BY <1>2, <1>4, <1>5 DEF settleTurn, AgentTurnsTypeOK

LEMMA StartsKeepTypes ==
  ASSUME AgentInv, NEW s \in Starts,
         \/ startAgent(s) \/ appServerReady(s) \/ notReady(s) \/ threadStarted(s)
         \/ startFails(s) \/ finish(s) \/ handleDisconnect(s) \/ stopTurn(s)
  PROVE  AgentTurnsTypeOK'
<1> USE AgentTurnsAssumption DEF AgentInv, AgentTurnsTypeOK, TurnRecords, PollRecords, ProgressRecords, turnState, unmoved
<1>1. CASE startAgent(s)
  BY <1>1 DEF startAgent
<1>2. CASE appServerReady(s)
  BY <1>2 DEF appServerReady
<1>3. CASE notReady(s)
  BY <1>3 DEF notReady, FreshStarts
<1>4. CASE threadStarted(s)
  BY <1>4 DEF threadStarted
<1>5. CASE startFails(s)
  BY <1>5, RejectAllType DEF startFails
<1>6. CASE finish(s)
  BY <1>6, RejectAllType DEF finish
<1>7. CASE handleDisconnect(s)
  BY <1>7, RejectAllType DEF handleDisconnect
<1>8. CASE stopTurn(s)
  BY <1>8 DEF stopTurn, Ends
<1> QED BY <1>1, <1>2, <1>3, <1>4, <1>5, <1>6, <1>7, <1>8

LEMMA TurnsKeepTypes ==
  ASSUME AgentInv, NEW t \in Turns,
         \/ submissionReturns(t) \/ (\E text \in BOOLEAN : turnCompleted(t, text))
         \/ submitMessage(t) \/ serverStarts(t) \/ turnStarted(t) \/ turnStartFails(t)
         \/ onProgress(t) \/ progressTimer(t) \/ pollTurn(t) \/ pollFails(t)
         \/ \E end \in Ends : serverEnds(t, end)
         \/ \E seen \in {"running"} \cup Ends, text \in BOOLEAN : pollAnswered(t, seen, text)
  PROVE  AgentTurnsTypeOK'
<1>0. AgentTurnsTypeOK /\ turn \in [Turns -> TurnRecords] /\ poll \in [Turns -> PollRecords]
  BY DEF AgentInv, AgentTurnsTypeOK, TurnRecords, PollRecords
<1>z. 0 \in 0..FailedPolls /\ 0 \in 0..EmptyPolls
  BY AgentTurnsAssumption
<1>r. SUFFICES /\ turn' \in [Turns -> TurnRecords]
               /\ poll' \in [Turns -> PollRecords]
               /\ /\ busy' \in [Starts -> BOOLEAN]
                  /\ activeTurn' \in [Starts -> Turns \cup {NoTurn}]
                  /\ progress' \in [Turns -> ProgressRecords]
                  /\ served' \in [Turns -> {"none", "running"} \cup Ends]
                  /\ reported' \in [Turns -> {"none", "refused"} \cup Ends]
                  /\ pollFailures' \in 0..MaxPollFailures
               /\ UNCHANGED <<starting, current, appClient>>
  BY <1>0 DEF AgentTurnsTypeOK, TurnRecords, PollRecords, ProgressRecords
<1> USE DEF unmoved
<1>1. CASE submissionReturns(t)
  BY <1>0, <1>1, TurnWritten DEF submissionReturns, AgentTurnsTypeOK, ProgressRecords
<1>2. ASSUME NEW text \in BOOLEAN, turnCompleted(t, text) PROVE <1>r!1
  <2>1. CASE settleTurn(t, served[t])
    <3>1. served[t] \in Ends
      BY <1>2 DEF turnCompleted
    <3> QED BY <1>0, <1>2, <2>1, <3>1, SettleTurnType DEF turnCompleted, AgentTurnsTypeOK
  <2>2. CASE ~settleTurn(t, served[t])
    <3>1. /\ turn' = [turn EXCEPT ![t].ended = TRUE] /\ poll' = [poll EXCEPT ![t].timer = TRUE]
          /\ UNCHANGED <<unmoved, served, busy, activeTurn, progress, reported>>
      BY <1>2, <2>2 DEF turnCompleted
    <3> QED BY <1>0, <1>z, <3>1, TurnWritten, PollWritten DEF AgentTurnsTypeOK, ProgressRecords
  <2> QED BY <2>1, <2>2
<1>3. CASE submitMessage(t)
  BY <1>0, <1>3 DEF submitMessage, AgentTurnsTypeOK, ProgressRecords, TurnRecords
<1>4. CASE serverStarts(t)
  BY <1>0, <1>4 DEF serverStarts, AgentTurnsTypeOK, ProgressRecords
<1>5. CASE turnStarted(t)
  BY <1>0, <1>z, <1>5, TurnWritten, PollWritten DEF turnStarted, AgentTurnsTypeOK, ProgressRecords
<1>6. CASE turnStartFails(t)
  <2>1. busy' \in [Starts -> BOOLEAN]
    BY <1>0, <1>6 DEF turnStartFails, AgentTurnsTypeOK
  <2>2. turn' \in [Turns -> TurnRecords]
    BY <1>0, <1>6, TurnWritten DEF turnStartFails
  <2>3. /\ progress' \in [Turns -> ProgressRecords]
        /\ reported' \in [Turns -> {"none", "refused"} \cup Ends]
    BY <1>0, <1>6 DEF turnStartFails, AgentTurnsTypeOK, ProgressRecords
  <2> QED BY <1>0, <1>6, <2>1, <2>2, <2>3 DEF turnStartFails, AgentTurnsTypeOK
<1>7. CASE onProgress(t)
  BY <1>0, <1>7 DEF onProgress, AgentTurnsTypeOK, ProgressRecords
<1>8. CASE progressTimer(t)
  BY <1>0, <1>8, AgentTurnsAssumption DEF progressTimer, AgentTurnsTypeOK, ProgressRecords
<1>9. CASE pollTurn(t)
  BY <1>0, <1>z, <1>9, PollWritten DEF pollTurn, AgentTurnsTypeOK, ProgressRecords
<1>10. CASE pollFails(t)
  <2>1. pollFailures' \in 0..MaxPollFailures /\ UNCHANGED <<starting, current, appClient, served>>
    BY <1>0, <1>10, AgentTurnsAssumption DEF pollFails, AgentTurnsTypeOK
  <2>2. CASE settleTurn(t, "completed")
    <3>1. "completed" \in Ends
      BY DEF Ends
    <3> QED BY <1>0, <2>1, <2>2, <3>1, SettleTurnType DEF AgentTurnsTypeOK
  <2>3. CASE ~settleTurn(t, "completed")
    <3> DEFINE count == poll[t].failures + 1
               n == IF count < FailedPolls THEN count ELSE FailedPolls
    <3>1. n \in 0..FailedPolls
      BY <1>0, AgentTurnsAssumption DEF PollRecords
    <3>2. /\ poll' = [poll EXCEPT ![t].inFlight = FALSE, ![t].timer = TRUE, ![t].failures = n]
          /\ UNCHANGED <<busy, activeTurn, turn, progress, reported>>
      BY <1>10, <2>3 DEF pollFails
    <3> HIDE DEF n
    <3>3. poll' \in [Turns -> PollRecords]
      BY <1>0, <1>z, <3>1, <3>2, PollWritten
    <3> QED BY <1>0, <2>1, <3>2, <3>3 DEF AgentTurnsTypeOK, ProgressRecords
  <2> QED BY <2>2, <2>3
<1>11. ASSUME NEW end \in Ends, serverEnds(t, end) PROVE <1>r!1
  BY <1>0, <1>11 DEF serverEnds, AgentTurnsTypeOK, ProgressRecords
<1>12. ASSUME NEW seen \in {"running"} \cup Ends, NEW text \in BOOLEAN, pollAnswered(t, seen, text)
       PROVE <1>r!1
  <2> DEFINE again == [poll EXCEPT ![t].inFlight = FALSE, ![t].timer = TRUE, ![t].failures = 0]
  <2>1. again \in [Turns -> PollRecords] /\ again[t].empty = poll[t].empty
    <3>1. again \in [Turns -> PollRecords]
      BY <1>0, <1>z, PollWritten
    <3>2. again[t].empty = poll[t].empty
      BY <1>0 DEF PollRecords
    <3> QED BY <3>1, <3>2
  <2>2. UNCHANGED <<unmoved, served>> /\ seen \in {"running", served[t]}
    BY <1>12 DEF pollAnswered
  <2>3. CASE settleTurn(t, seen) /\ seen # "running"
    <3>1. seen \in Ends
      BY <2>3
    <3> QED BY <1>0, <2>2, <2>3, <3>1, SettleTurnType DEF AgentTurnsTypeOK
  <2>4. CASE /\ seen = "running" /\ poll' = again
             /\ UNCHANGED <<busy, activeTurn, turn, progress, reported>>
    BY <1>0, <2>1, <2>2, <2>4 DEF AgentTurnsTypeOK, ProgressRecords
  <2>5. CASE /\ poll[t].empty < EmptyPolls /\ poll' = [again EXCEPT ![t].empty = @ + 1]
             /\ UNCHANGED <<busy, activeTurn, turn, progress, reported>>
    <3>1. poll[t].empty + 1 \in 0..EmptyPolls
      BY <1>0, <2>5, AgentTurnsAssumption DEF PollRecords
    <3>2. poll' \in [Turns -> PollRecords]
      <4> HIDE DEF again
      <4> QED BY <2>1, <2>5, <3>1 DEF PollRecords
    <3> QED BY <1>0, <2>2, <2>5, <3>2 DEF AgentTurnsTypeOK, ProgressRecords
  <2> QED BY <1>12, <2>3, <2>4, <2>5 DEF pollAnswered
<1> QED BY <1>1, <1>2, <1>3, <1>4, <1>5, <1>6, <1>7, <1>8, <1>9, <1>10, <1>11, <1>12

-----------------------------------------------------------------------------
(* What the ends of turns do, turn by turn.                                  *)

LEMMA RejectAllEffect ==
  ASSUME AgentInv, NEW s \in Starts, NEW record, RejectAll(s, record)
  PROVE  /\ \A t \in Turns :
              /\ turn'[t].of = turn[t].of
              /\ t \in Unfinished(s) =>
                   /\ turn'[t].phase = "settled"
                   /\ turn'[t].returned <=> turn[t].returned \/ turn[t].phase = "sent"
              /\ t \notin Unfinished(s) => turn'[t] = turn[t] /\ reported'[t] = reported[t]
              /\ turn[t].of = s => progress'[t].relay = "stopped"
              /\ turn[t].of # s => progress'[t] = progress[t]
              /\ progress'[t].sent = progress[t].sent
         /\ \A r \in Starts : r # s =>
              busy'[r] = busy[r] /\ activeTurn'[r] = activeTurn[r]
         /\ record = s /\ Unfinished(s) # {} => ~busy'[s] /\ activeTurn'[s] = NoTurn
         /\ Unfinished(s) = {} => busy' = busy /\ activeTurn' = activeTurn
<1> DEFINE lost == Unfinished(s)
           unanswered == {t \in lost : turn[t].phase = "sent"}
           over == unanswered # {} \/ (record = s /\ lost # {})
<1>0. /\ turn \in [Turns -> TurnRecords] /\ progress \in [Turns -> ProgressRecords]
      /\ busy \in [Starts -> BOOLEAN] /\ activeTurn \in [Starts -> Turns \cup {NoTurn}]
  BY DEF AgentInv, AgentTurnsTypeOK, TurnRecords, ProgressRecords
<1>1. ASSUME NEW t \in Turns
      PROVE  /\ turn'[t].of = turn[t].of
             /\ t \in lost => /\ turn'[t].phase = "settled"
                              /\ turn'[t].returned <=> turn[t].returned \/ turn[t].phase = "sent"
             /\ t \notin lost => turn'[t] = turn[t]
  <2>1. turn'[t] = IF t \in lost
                   THEN [turn[t] EXCEPT !.phase = "settled", !.returned = @ \/ t \in unanswered]
                   ELSE turn[t]
    BY DEF RejectAll
  <2>2. turn[t] \in TurnRecords
    BY <1>0
  <2>3. t \in unanswered <=> t \in lost /\ turn[t].phase = "sent"
    OBVIOUS
  <2> HIDE DEF lost, unanswered
  <2>4. CASE t \in lost
    <3> DEFINE b == turn[t].returned \/ t \in unanswered
    <3>1. turn'[t] = [turn[t] EXCEPT !.phase = "settled", !.returned = b]
      BY <2>1, <2>4
    <3> HIDE DEF b
    <3>2. turn'[t].of = turn[t].of /\ turn'[t].phase = "settled" /\ turn'[t].returned = b
      BY <3>1, <2>2 DEF TurnRecords
    <3> QED BY <3>2, <2>3, <2>4 DEF b
  <2> QED BY <2>1, <2>4
<1>2. ASSUME NEW t \in Turns PROVE t \notin lost => reported'[t] = reported[t]
  BY DEF RejectAll
<1>3. ASSUME NEW t \in Turns
      PROVE  /\ turn[t].of = s => progress'[t].relay = "stopped"
             /\ turn[t].of # s => progress'[t] = progress[t]
             /\ progress'[t].sent = progress[t].sent
  BY <1>0 DEF RejectAll, ProgressRecords
<1>4. /\ busy' = [busy EXCEPT ![s] = @ /\ ~over]
      /\ activeTurn' = [activeTurn EXCEPT ![s] = IF over THEN NoTurn ELSE @]
  BY DEF RejectAll
<1>5. \A r \in Starts : r # s => busy'[r] = busy[r] /\ activeTurn'[r] = activeTurn[r]
  <2> HIDE DEF over
  <2> QED BY <1>0, <1>4
<1>6. /\ over => ~busy'[s] /\ activeTurn'[s] = NoTurn
      /\ ~over => busy' = busy /\ activeTurn' = activeTurn
  <2> HIDE DEF over
  <2>1. busy'[s] = (busy[s] /\ ~over) /\ activeTurn'[s] = IF over THEN NoTurn ELSE activeTurn[s]
    BY <1>0, <1>4
  <2> QED BY <1>0, <1>4, <2>1
<1>7. /\ record = s /\ lost # {} => over
      /\ lost = {} => ~over
  OBVIOUS
<1> HIDE DEF over
<1> QED BY <1>1, <1>2, <1>3, <1>5, <1>6, <1>7

LEMMA SettleTurnEffect ==
  ASSUME AgentInv, NEW t \in Turns, NEW end \in Ends, settleTurn(t, end),
         turn[t].phase = "pending"
  PROVE  /\ \A u \in Turns : u # t =>
              turn'[u] = turn[u] /\ progress'[u] = progress[u] /\ reported'[u] = reported[u]
         /\ /\ turn'[t].of = turn[t].of /\ turn'[t].phase = "settled"
            /\ turn'[t].returned = turn[t].returned
            /\ progress'[t].relay = "stopped" /\ progress'[t].sent = progress[t].sent
         /\ \A r \in Starts : r # turn[t].of =>
              busy'[r] = busy[r] /\ activeTurn'[r] = activeTurn[r]
         /\ IF current = turn[t].of
            THEN ~busy'[current] /\ activeTurn'[current] = NoTurn
            ELSE busy' = busy /\ activeTurn' = activeTurn
         /\ turn[t].of \in Starts
<1>0. /\ turn \in [Turns -> TurnRecords] /\ progress \in [Turns -> ProgressRecords]
      /\ busy \in [Starts -> BOOLEAN] /\ activeTurn \in [Starts -> Turns \cup {NoTurn}]
      /\ reported \in [Turns -> {"none", "refused"} \cup Ends]
  BY DEF AgentInv, AgentTurnsTypeOK, TurnRecords, ProgressRecords
<1>1. turn[t].of \in Starts
  BY <1>0 DEF AgentInv, TurnsHaveRecords, TurnRecords
<1>2. /\ \A u \in Turns : u # t => turn'[u] = turn[u]
      /\ /\ turn'[t].of = turn[t].of /\ turn'[t].phase = "settled"
         /\ turn'[t].returned = turn[t].returned
  BY <1>0 DEF settleTurn, TurnRecords
<1>3. /\ \A u \in Turns : u # t => progress'[u] = progress[u] /\ reported'[u] = reported[u]
      /\ progress'[t].relay = "stopped" /\ progress'[t].sent = progress[t].sent
  BY <1>0 DEF settleTurn, ProgressRecords
<1>4. /\ \A r \in Starts : r # turn[t].of =>
           busy'[r] = busy[r] /\ activeTurn'[r] = activeTurn[r]
      /\ IF current = turn[t].of
         THEN ~busy'[current] /\ activeTurn'[current] = NoTurn
         ELSE busy' = busy /\ activeTurn' = activeTurn
  BY <1>0, <1>1 DEF settleTurn
<1> QED BY <1>1, <1>2, <1>3, <1>4

-----------------------------------------------------------------------------
(* The invariant.                                                            *)

(* A step that leaves a record and its turns alone.                          *)
LEMMA SameRecord ==
  ASSUME NEW r \in Starts, RecordIsBusy(r),
         \A t \in Turns : turn[t].of = r => turn'[t] = turn[t],
         \A t \in Turns : turn'[t].of = turn[t].of,
         busy'[r] = busy[r], activeTurn'[r] = activeTurn[r]
  PROVE  RecordIsBusy(r)'
<1>1. Unfinished(r)' = Unfinished(r)
  BY DEF Unfinished
<1> QED BY <1>1 DEF RecordIsBusy, Pending

AgentFacts == FreshStarts /\ TurnsHaveRecords /\ CurrentIsBusy /\ ToldIsStopped

LEMMA RejectAllKeeps ==
  ASSUME AgentInv, NEW s \in Starts, NEW record, RejectAll(s, record),
         starting[s] \notin {"none", "preparing"},
         \/ record = current /\ current' = current
         \/ current' = NoStart,
         \A r \in Starts : r # s => starting'[r] = starting[r],
         starting'[s] \notin {"none", "preparing"}
  PROVE  AgentFacts'
<1>0. /\ turn \in [Turns -> TurnRecords] /\ busy \in [Starts -> BOOLEAN]
      /\ current \in Starts \cup {NoStart} /\ NoStart \notin Starts
  BY AgentTurnsAssumption DEF AgentInv, AgentTurnsTypeOK, TurnRecords
<1>1. FreshStarts'
  <2> SUFFICES ASSUME NEW r \in Starts, starting'[r] \in {"none", "preparing"}
               PROVE  /\ current' # r /\ appClient'[r] = "none" /\ ~busy'[r] /\ activeTurn'[r] = NoTurn
                      /\ \A t \in Turns : turn'[t].of # r
    BY DEF FreshStarts
  <2>1. r # s /\ starting[r] \in {"none", "preparing"}
    OBVIOUS
  <2>2. /\ current # r /\ appClient[r] = "none" /\ ~busy[r] /\ activeTurn[r] = NoTurn
        /\ \A t \in Turns : turn[t].of # r
    BY <2>1 DEF AgentInv, FreshStarts
  <2>3. current' # r
    BY <1>0, <2>2
  <2>4. appClient'[r] = appClient[r]
    <3>1. AgentTurnsTypeOK
      BY DEF AgentInv
    <3> QED BY <2>1, <3>1, RejectAllType
  <2>5. /\ busy'[r] = busy[r] /\ activeTurn'[r] = activeTurn[r]
        /\ \A t \in Turns : turn'[t].of = turn[t].of
    BY <2>1, RejectAllEffect
  <2> QED BY <2>2, <2>3, <2>4, <2>5
<1>2. TurnsHaveRecords'
  BY <1>0, RejectAllEffect DEF AgentInv, TurnsHaveRecords, Unfinished
<1>3. CurrentIsBusy'
  <2> SUFFICES ASSUME NEW r \in Starts, current' = r
               PROVE  RecordIsBusy(r)'
    BY DEF CurrentIsBusy
  <2>1. record = r /\ current = r
    BY <1>0
  <2>0. RecordIsBusy(r)
    BY <2>1 DEF AgentInv, CurrentIsBusy
  <2>2. CASE r = s /\ Unfinished(s) # {}
    <3>1. ~busy'[s] /\ activeTurn'[s] = NoTurn
      BY <2>1, <2>2, RejectAllEffect
    <3>2. Unfinished(s)' = {}
      BY RejectAllEffect DEF Unfinished
    <3> QED BY <2>2, <3>1, <3>2 DEF RecordIsBusy
  <2>3. CASE r = s /\ Unfinished(s) = {}
    <3>1. busy' = busy /\ activeTurn' = activeTurn /\ \A t \in Turns : turn'[t] = turn[t]
      BY <2>3, RejectAllEffect
    <3> QED BY <2>0, <3>1, SameRecord
  <2>4. CASE r # s
    <3>1. /\ \A t \in Turns : turn[t].of = r => turn'[t] = turn[t]
          /\ \A t \in Turns : turn'[t].of = turn[t].of
          /\ busy'[r] = busy[r] /\ activeTurn'[r] = activeTurn[r]
      BY <2>4, RejectAllEffect DEF Unfinished
    <3> QED BY <2>0, <3>1, SameRecord
  <2> QED BY <2>2, <2>3, <2>4
<1>4. ToldIsStopped'
  BY RejectAllEffect DEF AgentInv, ToldIsStopped, Unfinished
<1> QED BY <1>1, <1>2, <1>3, <1>4 DEF AgentFacts

LEMMA SettleTurnKeeps ==
  ASSUME AgentInv, NEW t \in Turns, NEW end \in Ends, settleTurn(t, end), Pending(t),
         UNCHANGED <<starting, current, appClient>>
  PROVE  AgentFacts'
<1>0. /\ turn \in [Turns -> TurnRecords] /\ busy \in [Starts -> BOOLEAN]
      /\ current \in Starts \cup {NoStart} /\ NoStart \notin Starts
      /\ activeTurn \in [Starts -> Turns \cup {NoTurn}] /\ turn[t].phase = "pending"
  BY AgentTurnsAssumption DEF AgentInv, AgentTurnsTypeOK, TurnRecords, Pending
<1>1. FreshStarts'
  BY <1>0, SettleTurnEffect DEF AgentInv, FreshStarts
<1>2. TurnsHaveRecords'
  BY <1>0, SettleTurnEffect DEF AgentInv, TurnsHaveRecords
<1>3. CurrentIsBusy'
  <2>1. CASE current = turn[t].of
    <3>1. ~busy'[current] /\ activeTurn'[current] = NoTurn
      BY <1>0, <2>1, SettleTurnEffect
    <3>2. t \in Unfinished(current) /\ \A u \in Unfinished(current) : u = t
      BY <1>0, <2>1, SettleTurnEffect DEF AgentInv, CurrentIsBusy, RecordIsBusy, Unfinished
    <3>3. Unfinished(current)' = {}
      BY <1>0, <3>2, SettleTurnEffect DEF Unfinished
    <3> QED BY <3>1, <3>3 DEF CurrentIsBusy, RecordIsBusy
  <2>2. CASE current # turn[t].of
    <3>1. busy' = busy /\ activeTurn' = activeTurn
      BY <1>0, <2>2, SettleTurnEffect
    <3>2. \A u \in Turns : turn[u].of = current => turn'[u] = turn[u]
      BY <1>0, <2>2, SettleTurnEffect
    <3>3. \A u \in Turns : turn'[u].of = turn[u].of
      BY <1>0, SettleTurnEffect
    <3> QED BY <3>1, <3>2, <3>3, SameRecord DEF AgentInv, CurrentIsBusy
  <2> QED BY <2>1, <2>2
<1>4. ToldIsStopped'
  BY <1>0, SettleTurnEffect DEF AgentInv, ToldIsStopped
<1> QED BY <1>1, <1>2, <1>3, <1>4 DEF AgentFacts

LEMMA StartsKeepFacts ==
  ASSUME AgentInv, NEW s \in Starts,
         \/ startAgent(s) \/ appServerReady(s) \/ notReady(s) \/ threadStarted(s)
         \/ startFails(s) \/ finish(s) \/ handleDisconnect(s) \/ stopTurn(s)
  PROVE  AgentFacts'
<1>0. /\ starting \in [Starts -> {"none", "preparing", "waiting", "started", "failed"}]
      /\ appClient \in [Starts -> {"none", "open", "closed"}] /\ NoStart \notin Starts
  BY AgentTurnsAssumption DEF AgentInv, AgentTurnsTypeOK
<1>1. CASE startFails(s)
  BY <1>0, <1>1, RejectAllKeeps DEF startFails
<1>2. CASE finish(s)
  <2>1. starting[s] \notin {"none", "preparing"} /\ UNCHANGED starting
    BY <1>2 DEF finish, AgentInv, FreshStarts
  <2> QED BY <1>2, <2>1, RejectAllKeeps DEF finish
<1>3. CASE handleDisconnect(s)
  <2>1. starting[s] \notin {"none", "preparing"} /\ UNCHANGED starting
    BY <1>3 DEF handleDisconnect, AgentInv, FreshStarts
  <2> QED BY <1>3, <2>1, RejectAllKeeps DEF handleDisconnect
<1>4. CASE startAgent(s) \/ notReady(s) \/ threadStarted(s)
  <2>1. UNCHANGED <<current, appClient, turnState>>
    BY <1>4 DEF startAgent, notReady, threadStarted
  <2>2. FreshStarts'
    BY <1>0, <1>4, <2>1 DEF startAgent, notReady, threadStarted, AgentInv, FreshStarts, turnState
  <2> QED BY <2>1, <2>2 DEF AgentFacts, AgentInv, TurnsHaveRecords, CurrentIsBusy, RecordIsBusy,
          ToldIsStopped, turnState, Unfinished, Pending
<1>5. CASE appServerReady(s)
  <2>1. UNCHANGED turnState /\ current' = s
    BY <1>5 DEF appServerReady
  <2>2. FreshStarts'
    BY <1>0, <1>5, <2>1 DEF appServerReady, AgentInv, FreshStarts, turnState
  <2>3. CurrentIsBusy'
    BY <1>5, <2>1 DEF appServerReady, AgentInv, FreshStarts, CurrentIsBusy, RecordIsBusy,
       turnState, Unfinished, Pending
  <2> QED BY <2>1, <2>2, <2>3 DEF AgentFacts, AgentInv, TurnsHaveRecords, ToldIsStopped, turnState
<1>6. CASE stopTurn(s)
  BY <1>6 DEF stopTurn, unmoved, AgentFacts, AgentInv, FreshStarts, TurnsHaveRecords, CurrentIsBusy,
     RecordIsBusy, ToldIsStopped, Unfinished, Pending
<1> QED BY <1>1, <1>2, <1>3, <1>4, <1>5, <1>6

(* A step that leaves the records alone, and of the turns all that the       *)
(* invariant reads but for the end that was told.                            *)
LEMMA SameTurns ==
  ASSUME AgentInv, UNCHANGED <<starting, current, appClient, busy, activeTurn>>,
         \A t \in Turns : /\ turn'[t].of = turn[t].of /\ turn'[t].phase = turn[t].phase
                          /\ turn'[t].returned <=> turn[t].returned,
         \A t \in Turns : reported'[t] # "none" => progress'[t].relay = "stopped"
  PROVE  AgentFacts'
<1>1. FreshStarts' /\ TurnsHaveRecords' /\ ToldIsStopped'
  BY DEF AgentInv, FreshStarts, TurnsHaveRecords, ToldIsStopped
<1>2. ASSUME NEW r \in Starts, current = r PROVE RecordIsBusy(r)'
  <2>1. RecordIsBusy(r)
    BY <1>2 DEF AgentInv, CurrentIsBusy
  <2>2. Unfinished(r)' = Unfinished(r)
    BY DEF Unfinished
  <2> QED BY <2>1, <2>2 DEF RecordIsBusy, Pending
<1> QED BY <1>1, <1>2 DEF AgentFacts, CurrentIsBusy

LEMMA SubmitKeepsFacts ==
  ASSUME AgentInv, NEW t \in Turns, submitMessage(t), ~Resuming
  PROVE  AgentFacts'
<1> DEFINE ok == appClient[current] = "open"
<1>0. /\ turn \in [Turns -> TurnRecords] /\ progress \in [Turns -> ProgressRecords]
      /\ busy \in [Starts -> BOOLEAN] /\ reported \in [Turns -> {"none", "refused"} \cup Ends]
      /\ current \in Starts /\ NoStart \notin Starts
      /\ turn[t].phase = "none" /\ ~turn[t].returned /\ starting[current] = "started" /\ ~busy[current]
      /\ UNCHANGED <<starting, current, appClient, activeTurn>>
  BY AgentTurnsAssumption
     DEF AgentInv, AgentTurnsTypeOK, TurnRecords, ProgressRecords, TurnsHaveRecords, submitMessage, unmoved
<1>1. /\ \A u \in Turns : u # t => turn'[u] = turn[u]
      /\ turn'[t].of = current
      /\ turn'[t].phase = IF ok THEN "sent" ELSE "settled"
      /\ turn'[t].returned <=> ~ok
  BY <1>0 DEF submitMessage, TurnRecords
<1>2. /\ \A r \in Starts : r # current => busy'[r] = busy[r]
      /\ busy'[current] <=> ok
  BY <1>0 DEF submitMessage
<1>3. FreshStarts'
  BY <1>0, <1>1, <1>2 DEF AgentInv, FreshStarts
<1>4. TurnsHaveRecords'
  BY <1>0, <1>1 DEF AgentInv, TurnsHaveRecords
<1>5. RecordIsBusy(current)
  BY <1>0 DEF AgentInv, CurrentIsBusy
<1>6. Unfinished(current) = {} /\ activeTurn[current] = NoTurn
  BY <1>0, <1>5 DEF RecordIsBusy
<1>7. Unfinished(current)' = IF ok THEN {t} ELSE {}
  BY <1>0, <1>1, <1>6 DEF Unfinished
<1>8. \A u \in Turns : turn'[u].phase = "settled" => turn'[u].returned
  BY <1>0, <1>1 DEF Resuming
<1>9. ASSUME NEW r \in Starts, current = r PROVE RecordIsBusy(r)'
  <2>1. /\ Unfinished(r)' = IF ok THEN {t} ELSE {}
        /\ (busy'[r] <=> ok) /\ activeTurn'[r] = NoTurn
    BY <1>0, <1>2, <1>6, <1>7, <1>9
  <2>2. \A u \in Turns : ~(turn'[u].phase = "settled" /\ ~turn'[u].returned)
    BY <1>8
  <2>3. CASE ok
    BY <2>1, <2>2, <2>3 DEF RecordIsBusy
  <2>4. CASE ~ok
    BY <2>1, <2>2, <2>4 DEF RecordIsBusy
  <2> QED BY <2>3, <2>4
<1>10. ToldIsStopped'
  <2>1. CASE ok
    BY <2>1 DEF AgentInv, ToldIsStopped, submitMessage
  <2>2. CASE ~ok
    BY <1>0, <2>2 DEF AgentInv, ToldIsStopped, submitMessage, ProgressRecords
  <2> QED BY <2>1, <2>2
<1> QED BY <1>0, <1>3, <1>4, <1>9, <1>10 DEF AgentFacts, CurrentIsBusy

LEMMA StartFailsKeepsFacts ==
  ASSUME AgentInv, NEW t \in Turns, turnStartFails(t)
  PROVE  AgentFacts'
<1> DEFINE s == turn[t].of
<1>0. /\ turn \in [Turns -> TurnRecords] /\ progress \in [Turns -> ProgressRecords]
      /\ busy \in [Starts -> BOOLEAN] /\ reported \in [Turns -> {"none", "refused"} \cup Ends]
      /\ turn[t].phase = "sent" /\ UNCHANGED <<starting, current, appClient, activeTurn>>
  BY DEF AgentInv, AgentTurnsTypeOK, TurnRecords, ProgressRecords, turnStartFails, unmoved
<1>1. s \in Starts
  BY <1>0 DEF AgentInv, TurnsHaveRecords, TurnRecords
<1>2. /\ \A u \in Turns : u # t => turn'[u] = turn[u]
      /\ turn'[t].of = s /\ turn'[t].phase = "settled" /\ turn'[t].returned
  BY <1>0 DEF turnStartFails, TurnRecords
<1>3. ~busy'[s] /\ \A r \in Starts : r # s => busy'[r] = busy[r]
  BY <1>0, <1>1 DEF turnStartFails
<1>4. FreshStarts' /\ TurnsHaveRecords'
  BY <1>0, <1>1, <1>2, <1>3 DEF AgentInv, FreshStarts, TurnsHaveRecords
<1>5. ASSUME NEW r \in Starts, current = r PROVE RecordIsBusy(r)'
  <2>1. RecordIsBusy(r)
    BY <1>5 DEF AgentInv, CurrentIsBusy
  <2>2. CASE r = s
    <3>1. t \in Unfinished(s) /\ \A u \in Unfinished(s) : u = t
      BY <1>0, <2>1, <2>2 DEF RecordIsBusy, Unfinished
    <3>2. activeTurn[s] = NoTurn
      BY <1>0, <2>1, <2>2, <3>1 DEF RecordIsBusy, Pending, Unfinished
    <3>3. Unfinished(r)' = {}
      BY <1>2, <2>2, <3>1 DEF Unfinished
    <3> QED BY <1>0, <1>3, <2>2, <3>2, <3>3 DEF RecordIsBusy
  <2>3. CASE r # s
    BY <1>0, <1>2, <1>3, <2>1, <2>3, SameRecord
  <2> QED BY <2>2, <2>3
<1>6. ToldIsStopped'
  BY <1>0 DEF turnStartFails, AgentInv, ToldIsStopped, ProgressRecords
<1> QED BY <1>0, <1>4, <1>5, <1>6 DEF AgentFacts, CurrentIsBusy

LEMMA ReturnKeepsFacts ==
  ASSUME AgentInv, NEW t \in Turns, submissionReturns(t)
  PROVE  AgentFacts'
<1> DEFINE s == turn[t].of
<1>0. /\ turn \in [Turns -> TurnRecords] /\ activeTurn \in [Starts -> Turns \cup {NoTurn}]
      /\ turn[t].phase \in {"pending", "settled"} /\ ~turn[t].returned
      /\ UNCHANGED <<starting, current, appClient, busy, progress, reported>>
  BY DEF AgentInv, AgentTurnsTypeOK, TurnRecords, submissionReturns, unmoved
<1>1. s \in Starts
  BY <1>0 DEF AgentInv, TurnsHaveRecords, TurnRecords
<1>2. /\ \A u \in Turns : u # t => turn'[u] = turn[u]
      /\ turn'[t].of = s /\ turn'[t].phase = turn[t].phase /\ turn'[t].returned
  BY <1>0 DEF submissionReturns, TurnRecords
<1>3. /\ activeTurn'[s] = IF busy[s] THEN t ELSE activeTurn[s]
      /\ \A r \in Starts : r # s => activeTurn'[r] = activeTurn[r]
  BY <1>0, <1>1 DEF submissionReturns
<1>4. FreshStarts' /\ TurnsHaveRecords'
  BY <1>0, <1>1, <1>2, <1>3 DEF AgentInv, FreshStarts, TurnsHaveRecords
<1>5. ASSUME NEW r \in Starts, current = r PROVE RecordIsBusy(r)'
  <2>1. RecordIsBusy(r)
    BY <1>5 DEF AgentInv, CurrentIsBusy
  <2>2. CASE r = s
    <3>1. Unfinished(r)' = Unfinished(r)
      BY <1>0, <1>2 DEF Unfinished
    <3>2. busy[s] => turn[t].phase = "pending"
      BY <1>0, <2>1, <2>2 DEF RecordIsBusy
    <3>3. \A u \in Turns : turn'[u].of = turn[u].of /\ turn'[u].phase = turn[u].phase
      BY <1>2
    <3>4. \A u \in Turns : ~turn'[u].returned => ~turn[u].returned
      BY <1>2
    <3> QED BY <1>0, <1>3, <2>1, <2>2, <3>1, <3>2, <3>3, <3>4 DEF RecordIsBusy, Pending
  <2>3. CASE r # s
    BY <1>0, <1>2, <1>3, <2>1, <2>3, SameRecord
  <2> QED BY <2>2, <2>3
<1>6. ToldIsStopped'
  BY <1>0 DEF AgentInv, ToldIsStopped
<1> QED BY <1>0, <1>4, <1>5, <1>6 DEF AgentFacts, CurrentIsBusy

LEMMA StartedKeepsFacts ==
  ASSUME AgentInv, NEW t \in Turns, turnStarted(t)
  PROVE  AgentFacts'
<1>0. turn \in [Turns -> TurnRecords]
  BY DEF AgentInv, AgentTurnsTypeOK, TurnRecords
<1>1. /\ UNCHANGED <<starting, current, appClient, busy, activeTurn, progress, reported>>
      /\ turn[t].phase = "sent"
  BY DEF turnStarted, unmoved
<1>2. /\ \A u \in Turns : u # t => turn'[u] = turn[u]
      /\ turn'[t].of = turn[t].of /\ turn'[t].phase = "pending" /\ turn'[t].returned = turn[t].returned
  BY <1>0 DEF turnStarted, TurnRecords
<1>3. FreshStarts' /\ TurnsHaveRecords' /\ ToldIsStopped'
  <2>1. FreshStarts'
    BY <1>1, <1>2 DEF AgentInv, FreshStarts
  <2>2. TurnsHaveRecords'
    BY <1>1, <1>2 DEF AgentInv, TurnsHaveRecords
  <2>3. ToldIsStopped'
    BY <1>1 DEF AgentInv, ToldIsStopped
  <2> QED BY <2>1, <2>2, <2>3
<1>4. ASSUME NEW r \in Starts, current = r PROVE RecordIsBusy(r)'
  <2>1. RecordIsBusy(r)
    BY <1>4 DEF AgentInv, CurrentIsBusy
  <2>2. Unfinished(r)' = Unfinished(r)
    BY <1>1, <1>2 DEF Unfinished
  <2>3. \A u \in Turns : Pending(u) => Pending(u)'
    BY <1>2 DEF Pending
  <2>4. \A u \in Turns : /\ turn'[u].of = turn[u].of
                         /\ turn'[u].phase = "settled" => turn'[u] = turn[u]
    BY <1>2
  <2> QED BY <1>1, <2>1, <2>2, <2>3, <2>4 DEF RecordIsBusy, Pending
<1> QED BY <1>1, <1>3, <1>4 DEF AgentFacts, CurrentIsBusy

LEMMA TurnsKeepFacts ==
  ASSUME AgentInv, NEW t \in Turns,
         \/ submissionReturns(t) \/ (\E text \in BOOLEAN : turnCompleted(t, text))
         \/ (~Resuming /\ submitMessage(t))
         \/ serverStarts(t) \/ turnStarted(t) \/ turnStartFails(t)
         \/ onProgress(t) \/ progressTimer(t) \/ pollTurn(t) \/ pollFails(t)
         \/ \E end \in Ends : serverEnds(t, end)
         \/ \E seen \in {"running"} \cup Ends, text \in BOOLEAN : pollAnswered(t, seen, text)
  PROVE  AgentFacts'
<1>0. /\ turn \in [Turns -> TurnRecords] /\ progress \in [Turns -> ProgressRecords] /\ ToldIsStopped
      /\ current \in Starts \cup {NoStart}
  BY DEF AgentInv, AgentTurnsTypeOK, TurnRecords, ProgressRecords
<1>1. CASE UNCHANGED <<starting, current, appClient, busy, activeTurn, turn, progress, reported>>
  BY <1>0, <1>1, SameTurns DEF ToldIsStopped
<1>2. ASSUME NEW text \in BOOLEAN, turnCompleted(t, text) PROVE AgentFacts'
  <2>1. CASE settleTurn(t, served[t])
    BY <1>2, <2>1, SettleTurnKeeps DEF turnCompleted, unmoved
  <2>2. CASE ~settleTurn(t, served[t])
    <3>1. /\ turn' = [turn EXCEPT ![t].ended = TRUE]
          /\ UNCHANGED <<starting, current, appClient, busy, activeTurn, progress, reported>>
      BY <1>2, <2>2 DEF turnCompleted, unmoved
    <3>2. \A u \in Turns : /\ turn'[u].of = turn[u].of /\ turn'[u].phase = turn[u].phase
                           /\ turn'[u].returned <=> turn[u].returned
      BY <1>0, <3>1 DEF TurnRecords
    <3> QED BY <1>0, <3>1, <3>2, SameTurns DEF ToldIsStopped
  <2> QED BY <2>1, <2>2
<1>3. CASE onProgress(t) \/ progressTimer(t)
  <2>1. /\ UNCHANGED <<starting, current, appClient, busy, activeTurn, turn, reported>>
        /\ progress[t].relay # "stopped" /\ \A u \in Turns : u # t => progress'[u] = progress[u]
    BY <1>0, <1>3 DEF onProgress, progressTimer, unmoved
  <2> QED BY <1>0, <2>1, SameTurns DEF ToldIsStopped
<1>4. CASE pollFails(t)
  <2>1. "completed" \in Ends /\ Pending(t) /\ UNCHANGED <<starting, current, appClient>>
    BY <1>4 DEF pollFails, Ends
  <2>2. CASE settleTurn(t, "completed")
    BY <2>1, <2>2, SettleTurnKeeps
  <2>3. CASE ~settleTurn(t, "completed")
    BY <1>1, <1>4, <2>3 DEF pollFails
  <2> QED BY <2>2, <2>3
<1>5. ASSUME NEW seen \in {"running"} \cup Ends, NEW text \in BOOLEAN, pollAnswered(t, seen, text)
      PROVE AgentFacts'
  <2>1. Pending(t) /\ UNCHANGED <<starting, current, appClient>>
    BY <1>5 DEF pollAnswered, unmoved
  <2>2. CASE seen # "running" /\ settleTurn(t, seen)
    BY <2>1, <2>2, SettleTurnKeeps
  <2>3. CASE UNCHANGED <<busy, activeTurn, turn, progress, reported>>
    BY <1>1, <2>1, <2>3
  <2> QED BY <1>5, <2>2, <2>3 DEF pollAnswered
<1>6. CASE serverStarts(t) \/ pollTurn(t)
  BY <1>1, <1>6 DEF serverStarts, pollTurn, unmoved
<1>7. ASSUME NEW end \in Ends, serverEnds(t, end) PROVE AgentFacts'
  BY <1>1, <1>7 DEF serverEnds, unmoved
<1> QED BY <1>2, <1>3, <1>4, <1>5, <1>6, <1>7, SubmitKeepsFacts,
        StartedKeepsFacts, StartFailsKeepsFacts, ReturnKeepsFacts

LEMMA AgentStep == AgentInv /\ [AgentTurnsNext]_agentTurnsVars => AgentInv'
<1> SUFFICES ASSUME AgentInv, [AgentTurnsNext]_agentTurnsVars PROVE AgentInv'
  OBVIOUS
<1>1. AgentTurnsTypeOK' /\ AgentFacts' => AgentInv'
  BY DEF AgentInv, AgentFacts
<1>2. CASE UNCHANGED agentTurnsVars
  BY <1>2 DEF agentTurnsVars, AgentInv, AgentTurnsTypeOK, FreshStarts, TurnsHaveRecords, CurrentIsBusy,
     RecordIsBusy, ToldIsStopped, Unfinished, Pending
<1>3. CASE AgentTurnsNext
  BY <1>1, <1>3, StartsKeepTypes, TurnsKeepTypes, StartsKeepFacts, TurnsKeepFacts DEF AgentTurnsNext
<1> QED BY <1>2, <1>3

-----------------------------------------------------------------------------
(* The theorems.                                                             *)

(* The records of the agents, their turns, polls and relays are well typed   *)
(* in every state.                                                           *)
THEOREM AgentTurnTypes == AgentTurnsSpec => []AgentTurnsTypeOK
<1>1. AgentInv => AgentTurnsTypeOK
  BY DEF AgentInv
<1> QED BY <1>1, AgentInitInv, AgentStep, PTL DEF AgentTurnsSpec

LEMMA BusyRecord == AgentInv => BusyHasTurn
<1> SUFFICES ASSUME AgentInv, NEW s \in Starts, current = s
             PROVE  /\ busy[s] <=> Unfinished(s) # {}
                    /\ Cardinality(Unfinished(s)) <= 1
                    /\ activeTurn[s] # NoTurn =>
                         busy[s] /\ Pending(activeTurn[s]) /\ turn[activeTurn[s]].of = s
  BY DEF BusyHasTurn
<1>1. RecordIsBusy(s)
  BY DEF AgentInv, CurrentIsBusy
<1>2. Cardinality(Unfinished(s)) <= 1
  <2>1. CASE Unfinished(s) = {}
    BY <2>1, FS_EmptySet
  <2>2. CASE Unfinished(s) # {}
    <3>1. PICK t : t \in Unfinished(s)
      BY <2>2
    <3>2. Unfinished(s) = {t}
      BY <1>1, <3>1 DEF RecordIsBusy
    <3>3. Cardinality({t}) = 1
      BY FS_Singleton
    <3> QED BY <3>2, <3>3
  <2> QED BY <2>1, <2>2
<1> QED BY <1>1, <1>2 DEF RecordIsBusy

(* Whatever the order of answers, ends, failures and disconnects, and for    *)
(* any number of starts and messages: the console's record is busy exactly   *)
(* while its one turn is under way, and would interrupt no other.            *)
THEOREM RecordsAreBusyWithTurns == AgentTurnsSpec => []BusyHasTurn
BY AgentInitInv, AgentStep, BusyRecord, PTL DEF AgentTurnsSpec

(* The relay of a turn whose end was told never counts another update.       *)
THEOREM ToldTurnsAreSilent == AgentTurnsSpec => ProgressEndsWithTurn
<1>1. ASSUME AgentInv, [AgentTurnsNext]_agentTurnsVars
      PROVE  [\A t \in Turns : progress'[t].sent # progress[t].sent => reported[t] = "none"]_agentTurnsVars
  <2> SUFFICES ASSUME AgentTurnsNext, NEW t \in Turns, progress'[t].sent # progress[t].sent
               PROVE  reported[t] = "none"
    BY <1>1
  <2>0. /\ progress \in [Turns -> ProgressRecords] /\ AgentInv
        /\ reported[t] # "none" => progress[t].relay = "stopped"
    BY <1>1 DEF AgentInv, AgentTurnsTypeOK, ProgressRecords, ToldIsStopped
  <2> SUFFICES ASSUME progress[t].relay = "stopped" PROVE progress'[t].sent = progress[t].sent
    BY <2>0
  <2>1. ASSUME NEW u \in Turns, NEW end, settleTurn(u, end) PROVE progress'[t].sent = progress[t].sent
    BY <2>0, <2>1 DEF settleTurn, ProgressRecords
  <2>2. ASSUME NEW s \in Starts, NEW record, RejectAll(s, record) PROVE progress'[t].sent = progress[t].sent
    BY <2>0, <2>2 DEF RejectAll, ProgressRecords
  <2>3. ASSUME NEW s \in Starts,
               \/ startAgent(s) \/ appServerReady(s) \/ notReady(s) \/ threadStarted(s)
               \/ startFails(s) \/ finish(s) \/ handleDisconnect(s) \/ stopTurn(s)
        PROVE  progress'[t].sent = progress[t].sent
    BY <2>2, <2>3 DEF startAgent, appServerReady, notReady, threadStarted, startFails, finish,
       handleDisconnect, stopTurn, turnState
  <2>4. ASSUME NEW u \in Turns,
               \/ submissionReturns(u) \/ serverStarts(u) \/ turnStarted(u) \/ pollTurn(u)
               \/ \E end \in Ends : serverEnds(u, end)
        PROVE  progress'[t].sent = progress[t].sent
    BY <2>4 DEF submissionReturns, serverStarts, turnStarted, pollTurn, serverEnds
  <2>5. ASSUME NEW u \in Turns, submitMessage(u) \/ turnStartFails(u) \/ onProgress(u)
        PROVE  progress'[t].sent = progress[t].sent
    BY <2>0, <2>5 DEF submitMessage, turnStartFails, onProgress, ProgressRecords
  <2>6. ASSUME NEW u \in Turns, progressTimer(u) PROVE progress'[t].sent = progress[t].sent
    BY <2>0, <2>6 DEF progressTimer, ProgressRecords
  <2>7. ASSUME NEW u \in Turns, pollFails(u) PROVE progress'[t].sent = progress[t].sent
    BY <2>1, <2>7 DEF pollFails
  <2>8. ASSUME NEW u \in Turns, NEW text \in BOOLEAN, turnCompleted(u, text)
        PROVE  progress'[t].sent = progress[t].sent
    BY <2>1, <2>8 DEF turnCompleted
  <2>9. ASSUME NEW u \in Turns, NEW seen, NEW text \in BOOLEAN, pollAnswered(u, seen, text)
        PROVE  progress'[t].sent = progress[t].sent
    BY <2>1, <2>9 DEF pollAnswered
  <2> QED BY <2>3, <2>4, <2>5, <2>6, <2>7, <2>8, <2>9 DEF AgentTurnsNext
<1> QED BY <1>1, AgentInitInv, AgentStep, PTL DEF AgentTurnsSpec, ProgressEndsWithTurn

-----------------------------------------------------------------------------
(* The three in one run: a step of the run is a step of one of them, and     *)
(* leaves the other two alone.                                               *)

LEMMA ServicesParts ==
  [ServicesNext]_serviceVars =>
    [BrokerNext]_brokerVars /\ [HumanNext]_humanVars /\ [AgentTurnsNext]_agentTurnsVars
<1>1. UNCHANGED serviceVars => UNCHANGED <<brokerVars, humanVars, agentTurnsVars>>
  BY DEF serviceVars
<1>2. ServicesNext =>
        [BrokerNext]_brokerVars /\ [HumanNext]_humanVars /\ [AgentTurnsNext]_agentTurnsVars
  BY DEF ServicesNext, InBroker, InHuman, InTurns
<1> QED
  BY <1>1, <1>2

\* The state of each component keeps its types, whichever of them takes steps.
THEOREM ConsoleServicesTypes == ServicesSpec => []ServicesTypeOK
<1> DEFINE Inv == BrokerInv /\ HumanInv /\ AgentInv
<1>1. ServicesInit => Inv
  BY BrokerInitInv, HumanStart, AgentInitInv DEF ServicesInit
<1>2. BrokerInv /\ [BrokerNext]_brokerVars => BrokerInv'
  BY BrokerTypeStep, NeverGivesUpStep, AcknowledgedStep DEF BrokerInv
<1>3. Inv /\ [ServicesNext]_serviceVars => Inv'
  BY <1>2, ServicesParts, HumanStep, AgentStep
<1>4. Inv => ServicesTypeOK
  BY HumanTyped DEF ServicesTypeOK, BrokerInv, AgentInv
<1> QED
  BY <1>1, <1>3, <1>4, PTL DEF ServicesSpec
=============================================================================
