---------------------------- MODULE HumanRequests ----------------------------
(***************************************************************************)
(* Questions to a human over Telegram: the orchestrator that queues or     *)
(* rejects them, the record of the pending one, the waiters, and the       *)
(* human's taps and messages.  The process that asks either runs the bot   *)
(* itself or is a client behind a gateway that runs it: then the question  *)
(* is posted to the gateway, which keeps a waiter of its own, and an       *)
(* answer comes back as an event over the client's socket.                 *)
(***************************************************************************)
EXTENDS Naturals, Sequences, FiniteSets

CONSTANTS Questions, Taps,  \* requests; updates from the human
          MaxStoreFailures, MaxAskerRestarts, MaxDrops,  \* bounds on faults
          NoQuestion

ASSUME HumanAssumption ==
  /\ NoQuestion \notin Questions
  /\ MaxStoreFailures \in Nat /\ MaxAskerRestarts \in Nat /\ MaxDrops \in Nat

VARIABLES
  proxied,          \* the asker is a client behind a gateway
  mode,             \* the configured queue mode
  asked,            \* how far a request has come
  result,           \* what its caller was told
  heard,            \* what waitForReply has returned
  processQueue,     \* the loop over the queue
  requestQueue,     \* the store: ids waiting, and the id of the active one
  activeRequest,
  waiter,           \* the asker's waiters
  gatewayWaiters,   \* the gateway's, with the client to forward to
  send,             \* a question on its way to the human
  tap, tapped,      \* an update being handled, and its question
  events,           \* answers on their way to the client
  connected,        \* the client has a socket at the gateway
  storeFailures, askerRestarts, drops

asker == <<asked, result, heard, processQueue, requestQueue, activeRequest>>
relay == <<gatewayWaiters, send, events, connected, drops>>
human == <<tap, tapped>>
humanVars == <<proxied, mode, asker, waiter, relay, human, storeFailures, askerRestarts>>

Running == {"creating", "sending", "sent", "waiting", "resolving", "failing"}

HumanTypeOK ==
  /\ proxied \in BOOLEAN /\ connected \in BOOLEAN
  /\ mode \in {"queue", "reject"}
  /\ asked \in [Questions -> {"none", "enqueuing", "queued", "checking", "returned", "lost"}
                               \cup Running]
  /\ result \in [Questions -> {"none", "answer", "timeout", "failed"}]
  /\ heard \in [Questions -> {"none", "answer", "timeout"}]
  /\ processQueue \in {"idle", "dequeuing", "running"}
  /\ processQueue = "idle" => \A r \in Questions : mode = "queue" => asked[r] \notin Running
  /\ requestQueue \in Seq(Questions)
  /\ activeRequest \in Questions \cup {NoQuestion}
  /\ waiter \in [Questions -> {"none", "open", "replied", "awaited"}]
  /\ gatewayWaiters \subseteq Questions /\ events \subseteq Questions
  /\ send \in [Questions -> {"none", "posted", "shown", "known"}]
  /\ tap \in [Taps -> {"none", "forwarding", "recorded", "stale", "unavailable", "inbox"}]
  /\ tapped \in [Taps -> Questions \cup {NoQuestion}]
  /\ storeFailures \in 0..MaxStoreFailures
  /\ askerRestarts \in 0..MaxAskerRestarts
  /\ drops \in 0..MaxDrops

HumanInit ==
  /\ proxied \in BOOLEAN
  /\ mode \in {"queue", "reject"}
  /\ asked = [r \in Questions |-> "none"]
  /\ result = [r \in Questions |-> "none"]
  /\ heard = [r \in Questions |-> "none"]
  /\ processQueue = "idle"
  /\ requestQueue = <<>>
  /\ activeRequest = NoQuestion
  /\ waiter = [r \in Questions |-> "none"]
  /\ gatewayWaiters = {} /\ events = {}
  /\ send = [r \in Questions |-> "none"]
  /\ tap = [t \in Taps |-> "none"]
  /\ tapped = [t \in Taps |-> NoQuestion]
  /\ connected = TRUE
  /\ storeFailures = 0 /\ askerRestarts = 0 /\ drops = 0

-----------------------------------------------------------------------------
(* The orchestrator.  One action ends at each await.                         *)

Becomes(r, state) == asked' = [asked EXCEPT ![r] = state]

submit(r) ==
  /\ asked[r] = "none"
  /\ Becomes(r, IF mode = "queue" THEN "enqueuing" ELSE "checking")
  /\ UNCHANGED <<proxied, mode, result, heard, processQueue, requestQueue, activeRequest,
                 waiter, relay, human, storeFailures, askerRestarts>>

(* enqueue has returned, and processQueue is called.  The store answers in   *)
(* order: a loop that was told the queue is empty has ended by now.          *)
enqueued(r) ==
  /\ asked[r] = "enqueuing"
  /\ Becomes(r, "queued")
  /\ requestQueue' = Append(requestQueue, r)
  /\ processQueue' = IF processQueue = "idle" THEN "dequeuing" ELSE processQueue
  /\ UNCHANGED <<proxied, mode, result, heard, activeRequest, waiter, relay, human,
                 storeFailures, askerRestarts>>

(* An id without a job, whose enqueue failed after all, is skipped.          *)
dequeueNext ==
  /\ processQueue = "dequeuing"
  /\ IF requestQueue = <<>>
     THEN processQueue' = "idle" /\ UNCHANGED <<requestQueue, asked>>
     ELSE /\ requestQueue' = Tail(requestQueue)
          /\ IF asked[Head(requestQueue)] = "queued"
             THEN Becomes(Head(requestQueue), "creating") /\ processQueue' = "running"
             ELSE UNCHANGED <<asked, processQueue>>
  /\ UNCHANGED <<proxied, mode, result, heard, activeRequest, waiter, relay, human,
                 storeFailures, askerRestarts>>

(* The store, which a client has in memory and the others in Redis, fails.   *)
StoreFails ==
  /\ ~proxied /\ storeFailures < MaxStoreFailures
  /\ storeFailures' = storeFailures + 1

(* It fails under the loop, which pauses until the next request comes; an id *)
(* that was popped already is lost.                                          *)
dequeueFails ==
  /\ processQueue = "dequeuing" /\ StoreFails
  /\ processQueue' = "idle"
  /\ \/ requestQueue # <<>> /\ requestQueue' = Tail(requestQueue)
     \/ UNCHANGED requestQueue
  /\ UNCHANGED <<proxied, mode, asked, result, heard, activeRequest, waiter, relay, human,
                 askerRestarts>>

Return_once(r, told) ==
  /\ Becomes(r, "returned")
  /\ result' = [result EXCEPT ![r] = told]
  /\ processQueue' = "idle"

Return(r, told) ==
  /\ Becomes(r, "returned")
  /\ result' = [result EXCEPT ![r] = told]
  /\ processQueue' = IF mode = "queue" THEN "dequeuing" ELSE processQueue

(* reject mode: nothing is awaited between the check and createPending, but  *)
(* the check itself is.                                                      *)
getActive(r) ==
  /\ asked[r] = "checking"
  /\ IF activeRequest = NoQuestion
     THEN Becomes(r, "creating") /\ UNCHANGED <<result, processQueue>>
     ELSE Return(r, "failed")
  /\ UNCHANGED <<proxied, mode, heard, requestQueue, activeRequest, waiter, relay, human,
                 storeFailures, askerRestarts>>

(* The pending record is written and the question sent: through the gateway  *)
(* a waiter is there beforehand.                                             *)
createPending(r) ==
  /\ asked[r] = "creating"
  /\ Becomes(r, "sending")
  /\ activeRequest' = r
  /\ send' = [send EXCEPT ![r] = "posted"]
  /\ waiter' = IF proxied THEN [waiter EXCEPT ![r] = "open"] ELSE waiter
  /\ UNCHANGED <<proxied, mode, result, heard, processQueue, requestQueue, gatewayWaiters,
                 events, connected, drops, human, storeFailures, askerRestarts>>

(* The human sees it before its sender knows.                                *)
messageShown(r) ==
  /\ send[r] = "posted"
  /\ send' = [send EXCEPT ![r] = "shown"]
  /\ UNCHANGED <<proxied, mode, asker, waiter, gatewayWaiters, events, connected, drops,
                 human, storeFailures, askerRestarts>>

(* The bot's process has Telegram's answer and sets the waiter.              *)
waiterSet(r) ==
  /\ send[r] = "shown"
  /\ send' = [send EXCEPT ![r] = "known"]
  /\ IF proxied
     THEN gatewayWaiters' = gatewayWaiters \cup {r} /\ UNCHANGED <<waiter, asked>>
     ELSE /\ asked[r] = "sending"
          /\ waiter' = [waiter EXCEPT ![r] = "open"] /\ Becomes(r, "sent")
          /\ UNCHANGED gatewayWaiters
  /\ UNCHANGED <<proxied, mode, result, heard, processQueue, requestQueue, activeRequest,
                 events, connected, drops, human, storeFailures, askerRestarts>>

(* The gateway's answer to the post.                                         *)
requestPosted(r) ==
  /\ proxied /\ asked[r] = "sending" /\ send[r] = "known"
  /\ Becomes(r, "sent")
  /\ UNCHANGED <<proxied, mode, result, heard, processQueue, requestQueue, activeRequest,
                 waiter, relay, human, storeFailures, askerRestarts>>

(* The send fails; through the gateway also when only its answer is lost.    *)
sendFails(r) ==
  /\ asked[r] = "sending" /\ (proxied \/ send[r] = "posted") /\ drops < MaxDrops
  /\ drops' = drops + 1
  /\ Becomes(r, "failing")
  /\ waiter' = [waiter EXCEPT ![r] = "none"]
  /\ \E left \in {"none", send[r]} :
       send' = [send EXCEPT ![r] = IF send[r] = "posted" THEN left ELSE send[r]]
  /\ proxied \/ send'[r] = "none"
  /\ UNCHANGED <<proxied, mode, result, heard, processQueue, requestQueue, activeRequest,
                 gatewayWaiters, events, connected, human, storeFailures, askerRestarts>>

(* updatePending has returned: waitForReply finds an early answer, or waits. *)
waitForReply(r) ==
  /\ asked[r] = "sent"
  /\ IF waiter[r] = "replied"
     THEN /\ waiter' = [waiter EXCEPT ![r] = "none"]
          /\ heard' = [heard EXCEPT ![r] = "answer"]
          /\ Becomes(r, "resolving")
     ELSE /\ waiter' = [waiter EXCEPT ![r] = "awaited"]
          /\ Becomes(r, "waiting") /\ UNCHANGED heard
  /\ UNCHANGED <<proxied, mode, result, processQueue, requestQueue, activeRequest, relay,
                 human, storeFailures, askerRestarts>>

replyTimeout_keepsWaiter(r) ==
  /\ asked[r] = "waiting"
  /\ heard' = [heard EXCEPT ![r] = "timeout"]
  /\ waiter' = [waiter EXCEPT ![r] = "open"]
  /\ Becomes(r, "resolving")
  /\ UNCHANGED <<proxied, mode, result, processQueue, requestQueue, activeRequest, relay,
                 human, storeFailures, askerRestarts>>

(* The waiter's resolve, by its timer or by an answer.                       *)
Resolved(r, what) ==
  /\ heard' = [heard EXCEPT ![r] = what]
  /\ waiter' = [waiter EXCEPT ![r] = "none"]
  /\ Becomes(r, "resolving")

replyTimeout(r) ==
  /\ asked[r] = "waiting"
  /\ Resolved(r, "timeout")
  /\ UNCHANGED <<proxied, mode, result, processQueue, requestQueue, activeRequest, relay,
                 human, storeFailures, askerRestarts>>

resolvePending_answersOnly(r) ==
  /\ asked[r] \in {"resolving", "failing"}
  /\ activeRequest' = IF heard[r] = "answer" THEN NoQuestion ELSE activeRequest
  /\ Return(r, IF asked[r] = "failing" THEN "failed" ELSE heard[r])
  /\ UNCHANGED <<proxied, mode, heard, requestQueue, waiter, relay, human, storeFailures,
                 askerRestarts>>

(* The record is closed, whichever request is active, and the caller told.   *)
resolvePending(r) ==
  /\ asked[r] \in {"resolving", "failing"}
  /\ activeRequest' = NoQuestion
  /\ Return(r, IF asked[r] = "failing" THEN "failed" ELSE heard[r])
  /\ UNCHANGED <<proxied, mode, heard, requestQueue, waiter, relay, human, storeFailures,
                 askerRestarts>>

(* The store fails under a request.  Before the question is out its caller   *)
(* is told at once, the id or the active id perhaps written already; later   *)
(* the record is closed as failed, an answer in hand or not, and the waiter  *)
(* is left behind; and when that fails too the record stays active.          *)
storeFailsUnder(r) ==
  /\ StoreFails
  /\ \/ /\ asked[r] \in {"enqueuing", "checking"}
        /\ Becomes(r, "returned") /\ result' = [result EXCEPT ![r] = "failed"]
        /\ \/ asked[r] = "enqueuing" /\ requestQueue' = Append(requestQueue, r)
           \/ UNCHANGED requestQueue
        /\ UNCHANGED <<processQueue, activeRequest>>
     \/ /\ asked[r] \in {"creating", "failing"} /\ Return(r, "failed")
        /\ \/ asked[r] = "creating" /\ activeRequest' = r
           \/ UNCHANGED activeRequest
        /\ UNCHANGED requestQueue
     \/ /\ asked[r] \in {"sent", "resolving"} /\ Becomes(r, "failing")
        /\ UNCHANGED <<result, processQueue, requestQueue, activeRequest>>
  /\ UNCHANGED <<proxied, mode, heard, waiter, relay, human, askerRestarts>>

(* The asking process restarts, and clears what its store says is pending.   *)
askerRestart ==
  /\ askerRestarts < MaxAskerRestarts
  /\ askerRestarts' = askerRestarts + 1
  /\ asked' = [r \in Questions |-> IF asked[r] \in {"none", "returned"} THEN asked[r]
                                   ELSE "lost"]
  /\ processQueue' = "idle"
  /\ waiter' = [r \in Questions |-> "none"]
  /\ requestQueue' = <<>> /\ activeRequest' = NoQuestion
  /\ UNCHANGED <<proxied, mode, result, heard, relay, human, storeFailures>>

-----------------------------------------------------------------------------
(* The human, and the way back.                                              *)

(* The waiters of the process that runs the bot.                             *)
BotWaiters == IF proxied THEN gatewayWaiters ELSE {r \in Questions : waiter[r] # "none"}

(* An answer reaches a waiter of the asker: nobody waits any more, somebody  *)
(* waits, or will.                                                           *)
Reply(r) ==
  CASE waiter[r] = "none" -> UNCHANGED <<waiter, heard, asked>>
    [] waiter[r] = "awaited" -> Resolved(r, "answer")
    [] OTHER -> /\ waiter' = [waiter EXCEPT ![r] = "replied"]
                /\ UNCHANGED <<heard, asked>>

Told(t, r, what) ==
  /\ tap' = [tap EXCEPT ![t] = what]
  /\ tapped' = [tapped EXCEPT ![t] = r]

(* An answer to r: it is forwarded to the client, or recorded here.          *)
Answered(t, r) ==
  IF proxied THEN Told(t, r, "forwarding") /\ UNCHANGED <<waiter, heard, asked>>
             ELSE Told(t, r, "recorded") /\ Reply(r)

(* One taps an option, or writes a reply to the question.                    *)
handleRequestOptionCallback(t, r) ==
  /\ tap[t] = "none" /\ send[r] \in {"shown", "known"}
  /\ IF r \in BotWaiters THEN Answered(t, r)
     ELSE Told(t, r, "stale") /\ UNCHANGED <<waiter, heard, asked>>
  /\ UNCHANGED <<proxied, mode, result, processQueue, requestQueue, activeRequest, relay,
                 storeFailures, askerRestarts>>

(* A message that replies to nothing: with exactly one waiter left it is     *)
(* taken for the answer, else it goes to the console's inbox.                *)
handleReply(t) ==
  /\ tap[t] = "none"
  /\ IF Cardinality(BotWaiters) = 1 THEN \E r \in BotWaiters : Answered(t, r)
     ELSE Told(t, NoQuestion, "inbox") /\ UNCHANGED <<waiter, heard, asked>>
  /\ UNCHANGED <<proxied, mode, result, processQueue, requestQueue, activeRequest, relay,
                 storeFailures, askerRestarts>>

(* /transport/reply: without a socket of the client the answer is dropped,   *)
(* and the call succeeds all the same.                                       *)
notifyTransportReply(t) ==
  /\ tap[t] = "forwarding"
  /\ tap' = [tap EXCEPT ![t] = "recorded"]
  /\ gatewayWaiters' = gatewayWaiters \ {tapped[t]}
  /\ events' = IF connected THEN events \cup {tapped[t]} ELSE events
  /\ UNCHANGED <<proxied, mode, asker, waiter, send, connected, drops, tapped,
                 storeFailures, askerRestarts>>

forwardFails(t) ==
  /\ tap[t] = "forwarding" /\ drops < MaxDrops
  /\ drops' = drops + 1
  /\ tap' = [tap EXCEPT ![t] = "unavailable"]
  /\ UNCHANGED <<proxied, mode, asker, waiter, gatewayWaiters, send, events, connected,
                 tapped, storeFailures, askerRestarts>>

handleGatewayTransportReplyEvent(r) ==
  /\ r \in events
  /\ events' = events \ {r}
  /\ Reply(r)
  /\ UNCHANGED <<proxied, mode, result, processQueue, requestQueue, activeRequest,
                 gatewayWaiters, send, connected, drops, human, storeFailures,
                 askerRestarts>>

(* The client's socket closes, with what is in it, and opens again.          *)
socketDrops ==
  /\ proxied /\ connected /\ drops < MaxDrops
  /\ drops' = drops + 1
  /\ connected' = FALSE
  /\ \E kept \in SUBSET events : events' = kept
  /\ UNCHANGED <<proxied, mode, asker, waiter, gatewayWaiters, send, human, storeFailures,
                 askerRestarts>>

socketReturns ==
  /\ ~connected
  /\ connected' = TRUE
  /\ UNCHANGED <<proxied, mode, asker, waiter, gatewayWaiters, send, events, drops, human,
                 storeFailures, askerRestarts>>

-----------------------------------------------------------------------------
(* What the asking process and its store do once they can.                   *)
AskerSteps(r) ==
  \/ enqueued(r) \/ getActive(r) \/ createPending(r) \/ messageShown(r) \/ waiterSet(r)
  \/ requestPosted(r) \/ waitForReply(r) \/ resolvePending(r)

HumanNext ==
  \/ \E r \in Questions :
       \/ submit(r) \/ AskerSteps(r) \/ replyTimeout(r) \/ sendFails(r)
       \/ storeFailsUnder(r) \/ handleGatewayTransportReplyEvent(r)
  \/ \E t \in Taps :
       \/ \E r \in Questions : handleRequestOptionCallback(t, r)
       \/ handleReply(t) \/ notifyTransportReply(t) \/ forwardFails(t)
  \/ dequeueNext \/ dequeueFails \/ askerRestart \/ socketDrops \/ socketReturns

HumanSpec == HumanInit /\ [][HumanNext]_humanVars

-----------------------------------------------------------------------------
(* Properties.                                                             *)

(* Whoever answers is told "recorded" only for a question that is answered:  *)
(* its caller has the answer or is about to be given it, unless the store or *)
(* the asking process has failed.                                            *)
RecordedIsHeard ==
  \A t \in Taps : tap[t] = "recorded" /\ storeFailures = 0 /\ askerRestarts = 0
    => LET r == tapped[t]
       IN  \/ heard[r] = "answer" \/ r \in events
           \/ waiter[r] = "replied" /\ asked[r] \in {"sending", "sent"}

(* Where the bot and the asker are one process that holds.                   *)
LocalAnswerIsHeard == ~proxied => RecordedIsHeard

(* The pending record never outlives its request: when its caller has been   *)
(* told, the store no longer calls it active, unless the store failed.       *)
ReturnedIsNotActive ==
  storeFailures = 0 => \A r \in Questions : asked[r] = "returned" => activeRequest # r

(* Every request comes to an end though nobody answers and requests queue up *)
(* behind each other, unless the store failed under the loop, which pauses.  *)
EveryQuestionReturns ==
  \A r \in Questions :
    asked[r] # "none" ~> asked[r] \in {"returned", "lost"} \/ storeFailures > 0
=============================================================================
