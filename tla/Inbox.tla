------------------------------- MODULE Inbox -------------------------------
(***************************************************************************)
(* The external inbox of the gateway: rows of inbox_messages put by an     *)
(* integration, the worker that offers each of them to its recipient over  *)
(* Telegram, the "Inbox" menu that decides them without a prompt, and the  *)
(* approved message's way into the PTY of the bound console.               *)
(* (external-inbox.service.ts and inbox-worker.service.ts.)                *)
(*                                                                         *)
(* A task is one asynchronous activity of the gateway process: a run of    *)
(* runPollLoop (Loops) or one call of the action "resolve" (Taps).  Its pc *)
(* names the await it is at; between two awaits it runs alone.  There is   *)
(* one recipient and one route: every message has the same.                *)
(***************************************************************************)
EXTENDS Naturals, FiniteSets

CONSTANTS Messages,     \* inbox rows, by (source_integration, source_message_id)
          Consoles,     \* console sessions of the recipient's clients
          Loops,        \* concurrent runs of runPollLoop
          Taps,         \* concurrent menu decisions
          MaxAttempts,  \* MAX_ATTEMPTS
          MaxRestarts,  \* bound: restarts of the gateway process
          NoMessage, NoConsole

ASSUME ParameterAssumption ==
  /\ IsFiniteSet(Messages)
  /\ MaxAttempts \in Nat \ {0} /\ MaxRestarts \in Nat
  /\ NoMessage \notin Messages /\ NoConsole \notin Consoles
  /\ Loops \cap Taps = {}

VARIABLES row,       \* the table inbox_messages
          binding,   \* the route's row of inbox_route_bindings
          delivery,  \* console whose session gateway_messages.to_session_uuid names
          live,      \* the table gateway_live_consoles
          reachable, \* the recipient identity is bound and has a Telegram chat
          task,      \* the activities of the process
          timer,     \* pollTimer is armed
          restarts,
          saidYes,   \* history: the recipient pressed Approve for the message
          typed,     \* history: consoles the message's text was typed into
          lost       \* history: messages whose holder ended without writing the row

vars == <<row, binding, delivery, live, reachable, task, timer, restarts,
          saidYes, typed, lost>>
database == <<row, binding, delivery>>
history == <<saidYes, typed, lost>>

Tasks == Loops \cup Taps
Statuses == {"absent", "pending", "processing", "awaiting_route_binding", "offered",
             "deferred", "rejected", "delivering", "delivered",
             "no_live_session", "failed"}
\* status_reason, as far as the retry sweep can tell: its own literal or another
Reasons == {"other", "disconnected"}
\* createRequestId: a prompt is of one kind and belongs to one attempt
Requests == [kind : {"none", "bind", "offer"}, att : Nat]
NoRequest == [kind |-> "none", att |-> 0]
Decisions == {"none", "approve", "reject", "defer"}

\* Only a parked row's pending_request_id and only the status_reason of
\* "no_live_session" are ever read: elsewhere both are kept at a default.
Row == [status : Statuses, reason : Reasons, attempts : Nat, req : Requests,
        at : Nat]
ArrivedAt(n) == [status |-> "pending", reason |-> "other", req |-> NoRequest,
                 attempts |-> 0, at |-> n]
NewRow == [status |-> "absent", reason |-> "other", req |-> NoRequest,
           attempts |-> 0, at |-> 0]
ClaimedRow(r) == [status |-> "processing", reason |-> "other", req |-> NoRequest,
                  attempts |-> r.attempts + 1, at |-> r.at]
RowWith(r, status, reason) == [status |-> status, reason |-> reason, req |-> NoRequest,
                               attempts |-> r.attempts, at |-> r.at]
Written(r, status) == RowWith(r, status, "other")

\* where handleClaimedMessage, beginRouteBindingPrompt and deliverOffer can be
WorkPcs == {"lookup", "fail", "listConsoles", "parkBinding", "bindChosen",
            "precheck", "parkOffer", "caught"}
BindPcs == {"sendBinding", "awaitBinding", "resumeBinding", "fail", "caught"}
OfferPcs == {"sendOffer", "awaitOffer", "claimResolution", "caught"}
\* where resolveInboxMessage can be once it holds the row
ResolvePcs == {"decide", "recheck", "queue", "mark", "type", "enter", "done",
               "gone", "error"}
Pcs == {"idle", "claim"} \cup WorkPcs \cup BindPcs \cup OfferPcs \cup ResolvePcs

Task == [pc : Pcs, msg : Messages \cup {NoMessage}, att : Nat,
         console : Consoles \cup {NoConsole}, options : SUBSET Consoles,
         decision : Decisions]
NewTask(pc, msg, att, console, decision) ==
  [pc |-> pc, msg |-> msg, att |-> att, console |-> console, options |-> {},
   decision |-> decision]
NoTask == NewTask("idle", NoMessage, 0, NoConsole, "none")

TypeOK ==
  /\ row \in [Messages -> Row]
  /\ binding \in Consoles \cup {NoConsole}
  /\ delivery \in [Messages -> Consoles \cup {NoConsole}]
  /\ live \subseteq Consoles
  /\ reachable \in BOOLEAN
  /\ task \in [Tasks -> Task]
  /\ timer \in BOOLEAN
  /\ restarts \in Nat
  /\ saidYes \subseteq Messages
  /\ typed \in [Messages -> SUBSET Consoles]
  /\ lost \subseteq Messages

Init ==
  /\ row = [m \in Messages |-> NewRow]
  /\ binding = NoConsole
  /\ delivery = [m \in Messages |-> NoConsole]
  /\ live = {}
  /\ reachable = FALSE
  /\ task = [k \in Tasks |-> NoTask]
  /\ timer = TRUE
  /\ restarts = 0
  /\ saidYes = {}
  /\ typed = [m \in Messages |-> {}]
  /\ lost = {}

-----------------------------------------------------------------------------
(* The table: updateMessageStatus without and with an expected status.      *)

Holds(k, m) == task[k].msg = m

updateMessageStatus(m, status) == row' = [row EXCEPT ![m] = Written(@, status)]
Park(m, status, req) == row' = [row EXCEPT ![m].status = status, ![m].req = req]

Expects(m, status) == row[m].status = status
ExpectsRequest(m, status, req) == row[m].status = status /\ row[m].req = req

BindRequest(k) == [kind |-> "bind", att |-> task[k].att]
OfferRequest(k) == [kind |-> "offer", att |-> task[k].att]

\* The statuses claimMessageResolution takes a row from.
Claimable == {"pending", "processing", "offered", "awaiting_route_binding",
              "deferred", "no_live_session", "failed"}

\* A loop that is through with its message goes for the next, a tap ends.
Release(k) ==
  task' = [task EXCEPT ![k] =
             NewTask(IF k \in Loops THEN "claim" ELSE "idle",
                     NoMessage, 0, NoConsole, "none")]

Goto(k, pc) == task' = [task EXCEPT ![k].pc = pc]

\* A resolution that reports ok = FALSE: a loop sends the recipient a notice,
\* which can throw into processOneMessage; a tap returns it to the menu.
ReleaseRefused(k) ==
  \/ Release(k)
  \/ k \in Loops /\ Goto(k, "caught")

\* A row out of attempts has failed.
Budgeted(att, status) == IF att >= MaxAttempts THEN "failed" ELSE status

\* The console is not live: with attempts left, the row waits for the sweep.
giveUpOnConsole_unlessSpent(m, att) ==
  row' = IF att >= MaxAttempts THEN row
         ELSE [row EXCEPT ![m] = RowWith(@, "no_live_session", "disconnected")]
giveUpOnConsole(m, att) ==
  row' = [row EXCEPT ![m] = RowWith(@, Budgeted(att, "no_live_session"),
                              IF att >= MaxAttempts THEN "other" ELSE "disconnected")]

-----------------------------------------------------------------------------
(* The environment: integration, consoles, identity and route bindings.     *)

schedulePollSoon == timer' = TRUE

\* putMessageRecord: one row per source message.  The trigger's NOTIFY reaches
\* the worker only while its LISTEN connection is up.
putMessageRecord(m) ==
  /\ Expects(m, "absent")
  /\ LET place == 1 + Cardinality({n \in Messages : row[n].status # "absent"})
     IN row' = [row EXCEPT ![m] = ArrivedAt(place)]
  /\ schedulePollSoon \/ UNCHANGED timer
  /\ UNCHANGED <<binding, delivery, live, reachable, task, restarts, history>>

bindIdentityRecord ==
  /\ ~reachable
  /\ reachable' = TRUE
  /\ UNCHANGED <<database, live, task, timer, restarts, history>>

\* The tool inbox_bind_route: only a live console of the user can be bound.
bindRouteRecord(c) ==
  /\ reachable /\ c \in live
  /\ binding' = c
  /\ UNCHANGED <<row, delivery, live, reachable, task, timer, restarts, history>>

ConsoleConnects(c) ==
  /\ c \notin live
  /\ live' = live \cup {c}
  /\ UNCHANGED <<database, reachable, task, timer, restarts, history>>

ConsoleDisconnects(c) ==
  /\ c \in live
  /\ live' = live \ {c}
  /\ UNCHANGED <<database, reachable, task, timer, restarts, history>>

-----------------------------------------------------------------------------
(* runPollLoop and processOneMessage.                                       *)

\* A poll timer fires.  While a run waits for an answer, a notification or the
\* sweep arms the timer again and a second run starts beside it.
startPollLoop(l) ==
  /\ task[l].pc = "idle"
  /\ timer
  /\ timer' = FALSE
  /\ Goto(l, "claim")
  /\ UNCHANGED <<database, live, reachable, restarts, history>>

endPollLoop_unarmed(l) == task' = [task EXCEPT ![l] = NoTask] /\ UNCHANGED timer
\* The finally block.  (Two runs that end together leave two timers armed; one
\* stands for both.)
endPollLoop(l) ==
  /\ task' = [task EXCEPT ![l] = NoTask]
  /\ timer' = TRUE

Pending == {m \in Messages : row[m].status = "pending"}

claimNextPendingMessage(l) ==
  /\ task[l].pc = "claim"
  /\ \E m \in Pending :
       /\ \A n \in Pending : row[m].at <= row[n].at
       /\ row' = [row EXCEPT ![m] = ClaimedRow(@)]
       /\ task' = [task EXCEPT ![l] = NewTask("lookup", m, row[m].attempts + 1,
                                              NoConsole, "none")]
       /\ lost' = lost \ {m}
  /\ UNCHANGED <<binding, delivery, live, reachable, timer, restarts, saidYes,
                 typed>>

\* (A claim that throws ends the run in the same way; the next run repeats it.)
nothingPending(l) ==
  /\ task[l].pc = "claim" /\ Pending = {}
  /\ endPollLoop(l)
  /\ UNCHANGED <<database, live, reachable, restarts, history>>

\* A database, broker or Telegram call of the handler throws.
handlerThrows(l) ==
  /\ task[l].pc \in {"lookup", "fail", "listConsoles", "parkBinding", "sendBinding",
                     "resumeBinding", "precheck", "parkOffer", "sendOffer",
                     "claimResolution"}
  /\ Goto(l, "caught")
  /\ UNCHANGED <<database, live, reachable, timer, restarts, history>>

\* The row still waits for an answer to this task's own prompt.
ParkedBy(l, m) == \/ ExpectsRequest(m, "awaiting_route_binding", BindRequest(l))
                  \/ ExpectsRequest(m, "offered", OfferRequest(l))

\* processOneMessage's catch: the row is given back only if it is "processing".
catchHandlerError(l) == LET m == task[l].msg IN
  /\ task[l].pc = "caught"
  /\ IF Expects(m, "processing")
     THEN updateMessageStatus(m, Budgeted(task[l].att, "pending"))
     ELSE UNCHANGED row
  /\ lost' = IF ParkedBy(l, m) THEN lost \cup {m} ELSE lost
  /\ Release(l)
  /\ UNCHANGED <<binding, delivery, live, reachable, timer, restarts, saidYes,
                 typed>>

\* That write throws too: the loop ends and nothing gives the row back.
catchWriteFails(l) ==
  /\ task[l].pc = "caught"
  /\ lost' = lost \cup {task[l].msg}
  /\ endPollLoop(l)
  /\ UNCHANGED <<database, live, reachable, restarts, saidYes, typed>>

\* handleClaimedMessage: identity, contact and route are read.
handleClaimedMessage(l) ==
  /\ task[l].pc = "lookup"
  /\ task' = [task EXCEPT ![l].console = IF reachable THEN binding ELSE @,
                          ![l].pc = IF ~reachable THEN "fail"
                                    ELSE IF binding = NoConsole THEN "listConsoles"
                                    ELSE "precheck"]
  /\ UNCHANGED <<database, live, reachable, timer, restarts, history>>

\* The worker's writes of "failed" that name no expected status: unbound
\* identity, no contact, no console to bind, an answer that is no console,
\* a route that cannot be bound.
failUnconditionally(l) ==
  /\ task[l].pc = "fail"
  /\ updateMessageStatus(task[l].msg, "failed")
  /\ Release(l)
  /\ UNCHANGED <<binding, delivery, live, reachable, timer, restarts, history>>

-----------------------------------------------------------------------------
(* beginRouteBindingPrompt: the one-time console picker of an unbound route. *)

listLiveConsoles(l) ==
  /\ task[l].pc = "listConsoles"
  /\ task' = [task EXCEPT ![l] =
       [@ EXCEPT !.options = live, !.pc = IF live = {} THEN "fail" ELSE "parkBinding"]]
  /\ UNCHANGED <<database, live, reachable, timer, restarts, history>>

parkForBinding(l) == LET m == task[l].msg IN
  /\ task[l].pc = "parkBinding"
  /\ IF Expects(m, "processing")
     THEN /\ Park(m, "awaiting_route_binding", BindRequest(l))
          /\ Goto(l, "sendBinding")
     ELSE Release(l) /\ UNCHANGED row
  /\ UNCHANGED <<binding, delivery, live, reachable, timer, restarts, history>>

\* sendRichRequest registers the waiter after the message is out: an earlier
\* press of a button is answered "stale" and changes nothing.
sendPrompt(l) ==
  /\ \/ task[l].pc = "sendBinding" /\ Goto(l, "awaitBinding")
     \/ task[l].pc = "sendOffer" /\ Goto(l, "awaitOffer")
  /\ UNCHANGED <<database, live, reachable, timer, restarts, history>>

Picks(r, c, pc) == [r EXCEPT !.console = c, !.options = {}, !.pc = pc]

\* The recipient picks one of the listed consoles, or answers with other text.
answerBinding(l) ==
  /\ task[l].pc = "awaitBinding"
  /\ \/ \E c \in task[l].options :
          task' = [task EXCEPT ![l] = Picks(@, c, "resumeBinding")]
     \/ task' = [task EXCEPT ![l] = Picks(@, @.console, "fail")]
  /\ UNCHANGED <<database, live, reachable, timer, restarts, history>>

bindingTimesOut(l) == LET m == task[l].msg IN
  /\ task[l].pc = "awaitBinding"
  /\ IF ExpectsRequest(m, "awaiting_route_binding", BindRequest(l))
     THEN updateMessageStatus(m, "failed")
     ELSE UNCHANGED row
  /\ Release(l)
  /\ UNCHANGED <<binding, delivery, live, reachable, timer, restarts, history>>

resumeAfterBinding(l) == LET m == task[l].msg IN
  /\ task[l].pc = "resumeBinding"
  /\ IF ExpectsRequest(m, "awaiting_route_binding", BindRequest(l))
     THEN /\ updateMessageStatus(m, "processing")
          /\ Goto(l, "bindChosen")
     ELSE Release(l) /\ UNCHANGED row
  /\ UNCHANGED <<binding, delivery, live, reachable, timer, restarts, history>>

\* bindRouteRecord can throw, and does if the chosen console is no longer live.
bindChosenConsole(l) ==
  /\ task[l].pc = "bindChosen"
  /\ \/ task[l].console \in live /\ binding' = task[l].console /\ Goto(l, "precheck")
     \/ Goto(l, "fail") /\ UNCHANGED binding
  /\ UNCHANGED <<row, delivery, live, reachable, timer, restarts, history>>

-----------------------------------------------------------------------------
(* deliverOffer: precheck of the console, prompt, answer.                    *)

precheckConsole(l) == LET m == task[l].msg IN
  /\ task[l].pc = "precheck"
  /\ IF task[l].console \in live
     THEN Goto(l, "parkOffer") /\ UNCHANGED row
     ELSE /\ IF Expects(m, "processing")
             THEN giveUpOnConsole(m, task[l].att)
             ELSE UNCHANGED row
          /\ Release(l)
  /\ UNCHANGED <<binding, delivery, live, reachable, timer, restarts, history>>

parkForOffer(l) == LET m == task[l].msg IN
  /\ task[l].pc = "parkOffer"
  /\ IF Expects(m, "processing")
     THEN /\ Park(m, "offered", OfferRequest(l))
          /\ Goto(l, "sendOffer")
     ELSE Release(l) /\ UNCHANGED row
  /\ UNCHANGED <<binding, delivery, live, reachable, timer, restarts, history>>

\* Approve and Postpone are recognised by their labels; every other answer,
\* a free text included, is a rejection.
DecisionOf_twoButtons(answer) == IF answer = "Reject" THEN "reject" ELSE "approve"
DecisionOf(answer) == IF answer = "Approve" THEN "approve"
                      ELSE IF answer = "Postpone" THEN "defer" ELSE "reject"

\* The route is read again: it may have changed while the offer was on screen.
\* (It is never unbound: no code deletes a row of inbox_route_bindings.)
answerOffer(l) ==
  /\ task[l].pc = "awaitOffer"
  /\ \E answer \in {"Approve", "Postpone", "Reject"} :
       /\ task' = [task EXCEPT ![l].console = binding, ![l].pc = "claimResolution",
                               ![l].decision = DecisionOf(answer)]
       /\ saidYes' = IF answer = "Approve" THEN saidYes \cup {task[l].msg}
                     ELSE saidYes
  /\ UNCHANGED <<database, live, reachable, timer, restarts, typed, lost>>

offerTimesOut_wrongStatus(l) == LET m == task[l].msg IN
  /\ task[l].pc = "awaitOffer"
  /\ IF Expects(m, "processing") THEN updateMessageStatus(m, "failed") ELSE UNCHANGED row
  /\ Release(l)
  /\ UNCHANGED <<binding, delivery, live, reachable, timer, restarts, history>>
offerTimesOut(l) == LET m == task[l].msg IN
  /\ task[l].pc = "awaitOffer"
  /\ IF ExpectsRequest(m, "offered", OfferRequest(l))
     THEN updateMessageStatus(m, "failed")
     ELSE UNCHANGED row
  /\ Release(l)
  /\ UNCHANGED <<binding, delivery, live, reachable, timer, restarts, history>>

-----------------------------------------------------------------------------
(* The action "resolve": a decision pressed in the inbox menu.               *)

\* The row is read, the session selected in Telegram is bound to the route,
\* and resolveInboxMessage follows without a request id.
resolve(t, m, c, d) ==
  /\ task[t].pc = "idle"
  /\ row[m].status \notin {"absent", "delivered"}
  /\ reachable /\ c \in live
  /\ binding' = c
  /\ task' = [task EXCEPT ![t] = NewTask("claimResolution", m, 0, c, d)]
  /\ saidYes' = IF d = "approve" THEN saidYes \cup {m} ELSE saidYes
  /\ UNCHANGED <<row, delivery, live, reachable, timer, restarts, typed, lost>>

-----------------------------------------------------------------------------
(* resolveInboxMessage, on behalf of a loop or of a tap.                     *)

\* A loop may only take the row its own prompt is parked on.
Takes(k, m) == IF k \in Loops THEN ExpectsRequest(m, "offered", OfferRequest(k))
               ELSE row[m].status \in Claimable

claimMessageResolution(k) == LET m == task[k].msg IN
  /\ task[k].pc = "claimResolution"
  /\ IF Takes(k, m)
     THEN /\ updateMessageStatus(m, "delivering")
          /\ task' = [task EXCEPT ![k].att = row[m].attempts,
               ![k].pc = IF task[k].decision = "approve" THEN "recheck" ELSE "decide"]
          /\ lost' = lost \ {m}
     ELSE ReleaseRefused(k) /\ UNCHANGED <<row, lost>>
  /\ UNCHANGED <<binding, delivery, live, reachable, timer, restarts, saidYes, typed>>

writeDecision(k) ==
  /\ task[k].pc = "decide"
  /\ updateMessageStatus(task[k].msg,
       IF task[k].decision = "reject" THEN "rejected" ELSE "deferred")
  /\ Release(k)
  /\ UNCHANGED <<binding, delivery, live, reachable, timer, restarts, history>>

recheckConsole(k) == LET m == task[k].msg IN
  /\ task[k].pc = "recheck"
  /\ IF task[k].console \in live
     THEN Goto(k, "queue") /\ UNCHANGED row
     ELSE /\ giveUpOnConsole(m, task[k].att)
          /\ ReleaseRefused(k)
  /\ UNCHANGED <<binding, delivery, live, reachable, timer, restarts, history>>

\* createInboxDelivery: one xchange record per inbox row, for one console.
QueueableFor_any(m, c) == c \in Consoles
QueueableFor(m, c) == delivery[m] \in {NoConsole, c}

createInboxDelivery(k) == LET m == task[k].msg IN
  /\ task[k].pc = "queue"
  /\ IF QueueableFor(m, task[k].console)
     THEN delivery' = [delivery EXCEPT ![m] = task[k].console] /\ Goto(k, "mark")
     ELSE Goto(k, "error") /\ UNCHANGED delivery
  /\ UNCHANGED <<row, binding, live, reachable, timer, restarts, history>>

markDelivering(k) ==
  /\ task[k].pc = "mark"
  /\ updateMessageStatus(task[k].msg, "delivering")
  /\ Goto(k, "type")
  /\ UNCHANGED <<binding, delivery, live, reachable, timer, restarts, history>>

\* The live relay types the text; its answer may still be lost or late.
typeText(k) ==
  /\ task[k].pc = "type" /\ task[k].console \in live
  /\ typed' = [typed EXCEPT ![task[k].msg] = @ \cup {task[k].console}]
  /\ Goto(k, "enter") \/ Goto(k, "error")
  /\ UNCHANGED <<database, live, reachable, timer, restarts, saidYes, lost>>

pressEnter(k) ==
  /\ task[k].pc = "enter" /\ task[k].console \in live
  /\ Goto(k, "done")
  /\ UNCHANGED <<database, live, reachable, timer, restarts, history>>

\* The relay finds no socket for the console.
consoleNotConnected(k) ==
  /\ task[k].pc \in {"type", "enter"}
  /\ Goto(k, "gone")
  /\ UNCHANGED <<database, live, reachable, timer, restarts, history>>

\* Anything else thrown inside the try block.
deliveryThrows(k) ==
  /\ task[k].pc \in {"recheck", "queue", "mark", "type", "enter", "done"}
  /\ Goto(k, "error")
  /\ UNCHANGED <<database, live, reachable, timer, restarts, history>>

markDelivered(k) ==
  /\ task[k].pc = "done"
  /\ updateMessageStatus(task[k].msg, "delivered")
  /\ Release(k)
  /\ UNCHANGED <<binding, delivery, live, reachable, timer, restarts, history>>

catchDeliveryError(k) ==
  /\ task[k].pc \in {"gone", "error"}
  /\ updateMessageStatus(task[k].msg,
       IF task[k].pc = "gone" THEN "no_live_session" ELSE "failed")
  /\ ReleaseRefused(k)
  /\ UNCHANGED <<binding, delivery, live, reachable, timer, restarts, history>>

\* A write outside the try block throws: into processOneMessage, or to the menu.
decisionWriteFails(k) ==
  /\ task[k].pc \in {"decide", "gone", "error"}
  /\ lost' = lost \cup {task[k].msg}
  /\ IF k \in Loops THEN Goto(k, "caught") ELSE Release(k)
  /\ UNCHANGED <<database, live, reachable, timer, restarts, saidYes, typed>>

-----------------------------------------------------------------------------
(* The retry sweep, and a restart of the process.                            *)

Retryable_failedToo(m) == /\ row[m].status \in {"no_live_session", "failed"}
                          /\ row[m].attempts < MaxAttempts
Retryable(m) == /\ row[m].status = "no_live_session"
                /\ row[m].reason = "disconnected"
                /\ row[m].attempts < MaxAttempts

\* retryNoLiveSessionMessages with resetRetryableNoLiveSessionMessages.
retryNoLiveSessionMessages ==
  /\ \E m \in Messages : Retryable(m)
  /\ row' = [m \in Messages |->
               IF Retryable(m) THEN Written(row[m], "pending") ELSE row[m]]
  /\ schedulePollSoon
  /\ UNCHANGED <<binding, delivery, live, reachable, task, restarts, history>>

\* reconcileOrphanedMessages, which started() awaits before anything else runs.
Reconciled(r) ==
  IF r.status = "delivering" THEN Written(r, "failed")
  ELSE IF r.status \in {"processing", "offered", "awaiting_route_binding"}
  THEN Written(r, "pending")
  ELSE r

\* The process dies at any point and comes back: every task and waiter is gone.
restart ==
  /\ restarts < MaxRestarts
  /\ restarts' = restarts + 1
  /\ task' = [k \in Tasks |-> NoTask]
  /\ timer' = TRUE
  /\ row' = [m \in Messages |-> Reconciled(row[m])]
  /\ lost' = {}
  /\ UNCHANGED <<binding, delivery, live, reachable, saidYes, typed>>

-----------------------------------------------------------------------------
Environment ==
  \/ \E m \in Messages : putMessageRecord(m)
  \/ bindIdentityRecord
  \/ \E c \in Consoles : bindRouteRecord(c) \/ ConsoleConnects(c) \/ ConsoleDisconnects(c)
  \/ \E t \in Taps, m \in Messages, c \in Consoles, d \in Decisions \ {"none"} :
       resolve(t, m, c, d)

resolveInboxMessage(k) ==
  \/ claimMessageResolution(k) \/ writeDecision(k) \/ recheckConsole(k)
  \/ createInboxDelivery(k) \/ markDelivering(k) \/ typeText(k) \/ pressEnter(k)
  \/ consoleNotConnected(k) \/ deliveryThrows(k) \/ markDelivered(k)
  \/ catchDeliveryError(k) \/ decisionWriteFails(k)

recipientAnswers(l) == answerBinding(l) \/ answerOffer(l)

runPollLoop(l) ==
  \/ startPollLoop(l) \/ nothingPending(l) \/ claimNextPendingMessage(l)
  \/ handleClaimedMessage(l) \/ failUnconditionally(l)
  \/ listLiveConsoles(l) \/ parkForBinding(l) \/ sendPrompt(l)
  \/ bindingTimesOut(l) \/ resumeAfterBinding(l) \/ bindChosenConsole(l)
  \/ precheckConsole(l) \/ parkForOffer(l) \/ offerTimesOut(l)
  \/ handlerThrows(l) \/ catchHandlerError(l) \/ catchWriteFails(l)
  \/ resolveInboxMessage(l)

Next ==
  \/ Environment
  \/ \E l \in Loops : runPollLoop(l) \/ recipientAnswers(l)
  \/ \E t \in Taps : resolveInboxMessage(t)
  \/ retryNoLiveSessionMessages
  \/ restart

Spec == Init /\ [][Next]_vars

(* Timers fire, awaited calls return or throw, and a prompt that nobody      *)
(* answers times out; the recipient, the consoles and the integration owe    *)
(* nothing, and the process need not restart.                                *)
Fairness ==
  /\ \A l \in Loops : WF_vars(runPollLoop(l))
  /\ \A t \in Taps : WF_vars(resolveInboxMessage(t))
  /\ WF_vars(retryNoLiveSessionMessages)

FairSpec == Spec /\ Fairness

-----------------------------------------------------------------------------
(* Safety.                                                                   *)

ProcessedBy(k, m) == Holds(k, m) /\ task[k].pc \in WorkPcs
BindingBy(k, m) == /\ Holds(k, m) /\ task[k].pc \in BindPcs
                   /\ row[m].req = BindRequest(k)
OfferedBy(k, m) == /\ Holds(k, m) /\ task[k].pc \in OfferPcs
                   /\ row[m].req = OfferRequest(k)
ResolvedBy(k, m) == Holds(k, m) /\ task[k].pc \in ResolvePcs

(* A row in a transient status has an activity of this process that will     *)
(* still write it, unless its holder ended on a failed prompt or a failed    *)
(* write: a menu decision, the retry sweep, a stale waiter and a second poll *)
(* loop may all take the row over, but none of them strands it.              *)
ProcessingIsHeld == \A m \in Messages : row[m].status = "processing" =>
                      m \in lost \/ \E l \in Loops : ProcessedBy(l, m)
BindingIsHeld == \A m \in Messages : row[m].status = "awaiting_route_binding" =>
                   m \in lost \/ \E l \in Loops : BindingBy(l, m)
OfferIsHeld == \A m \in Messages : row[m].status = "offered" =>
                 m \in lost \/ \E l \in Loops : OfferedBy(l, m)
DeliveringIsHeld == \A m \in Messages : row[m].status = "delivering" =>
                      m \in lost \/ \E k \in Tasks : ResolvedBy(k, m)

NothingStranded == /\ ProcessingIsHeld /\ BindingIsHeld
                   /\ OfferIsHeld /\ DeliveringIsHeld

(* A message's text reaches a console only after the recipient pressed       *)
(* Approve for it: no timeout, postponement, free-text answer, retry or      *)
(* restart types it.                                                         *)
ApprovedBeforeTyped == \A m \in Messages : typed[m] # {} => m \in saidYes

(* Whoever decides and however often it is retried, a message's text is      *)
(* typed into one console only: the one its xchange record is queued for.    *)
TypedWhereQueued == \A m \in Messages : typed[m] \subseteq {delivery[m]}

(* A settled row is not handed back to the worker: a stale waiter, the       *)
(* catch of another attempt, the sweep and a restart leave it settled.       *)
Settled == {"rejected", "deferred", "delivered", "failed"}
InWork == {"pending", "processing", "awaiting_route_binding", "offered"}
SettledIsNotRequeued ==
  [][\A m \in Messages : row[m].status \in Settled => row'[m].status \notin InWork]_vars

(* external-inbox.service.ts, resetRetryableNoLiveSessionMessages: once the  *)
(* recipient has approved a message, and no press of a button is still being *)
(* taken, it is not offered again.                                           *)
NeverAskedAgain ==
  [][\A m \in saidYes :
       row'[m].status = "offered" =>
         \/ row[m].status = "offered"
         \/ \E k \in Tasks : Holds(k, m) /\ task[k].pc = "claimResolution"]_vars

(* external-inbox.service.ts, ACTIVE_INBOX_STATUSES: delivered and rejected  *)
(* are terminal outcomes.                                                    *)
TerminalOutcomes ==
  [][\A m \in Messages : row[m].status \in {"delivered", "rejected"} =>
       row'[m].status = row[m].status]_vars

(* Liveness.                                                                 *)

(* Polling alone drains the queue: a pending message is taken even when no   *)
(* notification arrives and an earlier message's prompt is left unanswered.  *)
PendingIsServed ==
  \A m \in Messages : row[m].status = "pending" ~> row[m].status # "pending"

(* A message that is being worked on or delivered gets an outcome, unless    *)
(* its holder ended without writing it.                                      *)
WorkEnds ==
  \A m \in Messages :
    row[m].status \in {"processing", "awaiting_route_binding", "offered", "delivering"} ~>
      (m \in lost \/ row[m].status \in Settled \cup {"pending", "no_live_session"})
=============================================================================
