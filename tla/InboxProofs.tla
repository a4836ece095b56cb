---------------------------- MODULE InboxProofs ----------------------------
(***************************************************************************)
(* Safety of the external inbox for every number of messages, consoles,    *)
(* poll loops, menu decisions, attempts and restarts: nothing is typed     *)
(* unapproved, no row is stranded in a transient status, and no settled    *)
(* row goes back into work.                                                *)
(***************************************************************************)
EXTENDS Inbox, FiniteSetTheorems, TLAPS

\* Where the activities can be: a tap only resolves, and a busy activity has a
\* message.
TaskShape ==
  /\ \A t \in Taps : task[t].pc \in {"idle", "claimResolution"} \cup ResolvePcs
  /\ \A k \in Tasks : task[k].pc \notin {"idle", "claim"} => task[k].msg \in Messages

TypeInv == TypeOK /\ TaskShape

-----------------------------------------------------------------------------
LEMMA Defaults == NoTask \in Task /\ NewRow \in Row /\ NoRequest \in Requests
<1>1. NoRequest \in Requests
  BY DEF NoRequest, Requests
<1>2. NewRow \in Row
  BY <1>1 DEF NewRow, ArrivedAt, Row, Statuses, Reasons
<1>3. NoTask \in Task
  BY DEF NoTask, NewTask, Task, Pcs, Decisions
<1> QED
  BY <1>1, <1>2, <1>3

LEMMA WrittenTyped ==
  ASSUME NEW r \in Row, NEW s \in Statuses
  PROVE  Written(r, s) \in Row
BY Defaults DEF Row, Written, RowWith, Reasons

\* The writes the actions make to the table keep it typed.
LEMMA WritesTyped ==
  ASSUME TypeOK, NEW m \in Messages
  PROVE  /\ \A s \in Statuses : updateMessageStatus(m, s) => row' \in [Messages -> Row]
         /\ \A s \in Statuses, req \in Requests : Park(m, s, req) => row' \in [Messages -> Row]
         /\ \A att \in Nat : giveUpOnConsole(m, att) => row' \in [Messages -> Row]
<1>1. row \in [Messages -> Row] /\ row[m] \in Row
  BY DEF TypeOK
<1>2. ASSUME NEW s \in Statuses, updateMessageStatus(m, s)
      PROVE  row' \in [Messages -> Row]
  BY <1>1, <1>2, WrittenTyped DEF updateMessageStatus
<1>3. ASSUME NEW s \in Statuses, NEW req \in Requests, Park(m, s, req)
      PROVE  row' \in [Messages -> Row]
  BY <1>1, <1>3 DEF Park, Row
<1>4. ASSUME NEW att \in Nat, giveUpOnConsole(m, att)
      PROVE  row' \in [Messages -> Row]
  <2>1. Budgeted(att, "no_live_session") \in Statuses
    BY DEF Budgeted, Statuses
  <2> QED
    BY <1>1, <1>4, <2>1, Defaults DEF giveUpOnConsole, RowWith, Row, Reasons
<1> QED
  BY <1>2, <1>3, <1>4

\* So do the moves the activities make.
LEMMA MovesTyped ==
  ASSUME TypeInv, NEW k \in Tasks
  PROVE  /\ Release(k) => TaskShape' /\ task' \in [Tasks -> Task]
         /\ \A pc \in Pcs :
              /\ task[k].msg \in Messages
              /\ k \in Taps => pc \in ResolvePcs
              /\ Goto(k, pc)
              => TaskShape' /\ task' \in [Tasks -> Task]
<1>1. task \in [Tasks -> Task] /\ NoTask \in Task
  BY Defaults DEF TypeInv, TypeOK
<1>2. ASSUME Release(k)
      PROVE  TaskShape' /\ task' \in [Tasks -> Task]
  <2>1. NewTask(IF k \in Loops THEN "claim" ELSE "idle", NoMessage, 0, NoConsole, "none")
          \in Task
    BY DEF NewTask, Task, Pcs, Decisions
  <2> QED
    BY <1>1, <1>2, <2>1, ParameterAssumption
    DEF Release, TypeInv, TaskShape, NewTask, Tasks
<1>3. ASSUME NEW pc \in Pcs, task[k].msg \in Messages, k \in Taps => pc \in ResolvePcs,
             Goto(k, pc)
      PROVE  TaskShape' /\ task' \in [Tasks -> Task]
  BY <1>1, <1>3 DEF Goto, TypeInv, TaskShape, Task, Tasks
<1> QED
  BY <1>2, <1>3

-----------------------------------------------------------------------------
LEMMA TypeInit == Init => TypeInv
<1> SUFFICES ASSUME Init PROVE TypeInv
  OBVIOUS
<1>1. TypeOK
  BY Defaults DEF Init, TypeOK
<1>2. TaskShape
  BY DEF Init, TaskShape, NoTask, NewTask, Tasks
<1> QED
  BY <1>1, <1>2 DEF TypeInv

LEMMA EnvironmentTyped ==
  ASSUME TypeInv, Environment
  PROVE  TypeInv'
<1>1. ASSUME NEW m \in Messages, putMessageRecord(m) PROVE TypeInv'
  <2>1. Cardinality({n \in Messages : row[n].status # "absent"}) \in Nat
    BY FS_Subset, FS_CardinalityType, ParameterAssumption
  <2>2. row' \in [Messages -> Row]
    BY <1>1, <2>1, Defaults DEF putMessageRecord, TypeInv, TypeOK, Row, ArrivedAt, Reasons, Statuses
  <2> QED
    BY <1>1, <2>2 DEF putMessageRecord, schedulePollSoon, history, TypeInv, TypeOK, TaskShape
<1>2. ASSUME bindIdentityRecord PROVE TypeInv'
  BY <1>2 DEF bindIdentityRecord, database, history, TypeInv, TypeOK, TaskShape
<1>3. ASSUME NEW c \in Consoles, bindRouteRecord(c) PROVE TypeInv'
  BY <1>3 DEF bindRouteRecord, history, TypeInv, TypeOK, TaskShape
<1>4. ASSUME NEW c \in Consoles, ConsoleConnects(c) \/ ConsoleDisconnects(c) PROVE TypeInv'
  BY <1>4 DEF ConsoleConnects, ConsoleDisconnects, database, history, TypeInv, TypeOK,
     TaskShape
<1>5. ASSUME NEW t \in Taps, NEW m \in Messages, NEW c \in Consoles,
             NEW d \in Decisions \ {"none"}, resolve(t, m, c, d)
      PROVE  TypeInv'
  <2>1. t \in Tasks /\ t \notin Loops
    BY ParameterAssumption DEF Tasks
  <2>2. task' \in [Tasks -> Task] /\ TaskShape'
    BY <1>5, <2>1, Defaults DEF resolve, TypeInv, TypeOK, TaskShape, Task, NewTask, Pcs, OfferPcs, Decisions
  <2> QED
    BY <1>5, <2>2 DEF resolve, history, TypeInv, TypeOK
<1> QED
  BY <1>1, <1>2, <1>3, <1>4, <1>5 DEF Environment


LEMMA ResolutionTyped ==
  ASSUME TypeInv, NEW k \in Tasks, resolveInboxMessage(k)
  PROVE  TypeInv'
<1> DEFINE m == task[k].msg
<1>0. /\ task[k] \in Task /\ task[k].att \in Nat
      /\ ResolvePcs \subseteq Pcs /\ "caught" \in Pcs
      /\ task[k].pc \in {"claimResolution"} \cup ResolvePcs => m \in Messages
  BY DEF TypeInv, TypeOK, TaskShape, Task, Pcs, WorkPcs, ResolvePcs
<1>1. ASSUME claimMessageResolution(k) PROVE TypeInv'
  <2>1. CASE Takes(k, m)
    <3>1. row' \in [Messages -> Row]
      BY <1>1, <1>0, <2>1, WritesTyped DEF claimMessageResolution, TypeInv, Statuses
    <3>2. row[m].attempts \in Nat
      BY <1>1, <1>0 DEF claimMessageResolution, TypeInv, TypeOK, Row
    <3>3. task' \in [Tasks -> Task] /\ TaskShape'
      BY <1>1, <1>0, <2>1, <3>2
      DEF claimMessageResolution, TypeInv, TypeOK, TaskShape, Task, ResolvePcs, Tasks
    <3> QED
      BY <1>1, <1>0, <2>1, <3>1, <3>3 DEF claimMessageResolution, TypeInv, TypeOK
  <2>2. CASE ~Takes(k, m)
    BY <1>1, <1>0, <2>2, MovesTyped, ParameterAssumption
    DEF claimMessageResolution, ReleaseRefused, TypeInv, TypeOK
  <2> QED
    BY <2>1, <2>2
<1>2. ASSUME writeDecision(k) PROVE TypeInv'
  BY <1>2, <1>0, MovesTyped, WritesTyped
  DEF writeDecision, history, TypeInv, TypeOK, Statuses, ResolvePcs
<1>3. ASSUME recheckConsole(k) PROVE TypeInv'
  BY <1>3, <1>0, MovesTyped, WritesTyped, ParameterAssumption
  DEF recheckConsole, ReleaseRefused, history, TypeInv, TypeOK, ResolvePcs
<1>4. ASSUME createInboxDelivery(k) PROVE TypeInv'
  BY <1>4, <1>0, MovesTyped
  DEF createInboxDelivery, QueueableFor, history, TypeInv, TypeOK, ResolvePcs, Task
<1>5. ASSUME markDelivering(k) PROVE TypeInv'
  BY <1>5, <1>0, MovesTyped, WritesTyped
  DEF markDelivering, history, TypeInv, TypeOK, Statuses, ResolvePcs
<1>6. ASSUME typeText(k) PROVE TypeInv'
  BY <1>6, <1>0, MovesTyped DEF typeText, database, TypeInv, TypeOK, ResolvePcs
<1>7. ASSUME pressEnter(k) \/ consoleNotConnected(k) \/ deliveryThrows(k) PROVE TypeInv'
  BY <1>7, <1>0, MovesTyped
  DEF pressEnter, consoleNotConnected, deliveryThrows, database, history, TypeInv, TypeOK,
      ResolvePcs
<1>8. ASSUME markDelivered(k) PROVE TypeInv'
  BY <1>8, <1>0, MovesTyped, WritesTyped
  DEF markDelivered, history, TypeInv, TypeOK, Statuses, ResolvePcs
<1>9. ASSUME catchDeliveryError(k) PROVE TypeInv'
  BY <1>9, <1>0, MovesTyped, WritesTyped, ParameterAssumption
  DEF catchDeliveryError, ReleaseRefused, history, TypeInv, TypeOK, Statuses, ResolvePcs
<1>10. ASSUME decisionWriteFails(k) PROVE TypeInv'
  BY <1>10, <1>0, MovesTyped, ParameterAssumption
  DEF decisionWriteFails, database, TypeInv, TypeOK, ResolvePcs
<1> QED
  BY <1>1, <1>2, <1>3, <1>4, <1>5, <1>6, <1>7, <1>8, <1>9, <1>10 DEF resolveInboxMessage


LEMMA PollLoopTyped ==
  ASSUME TypeInv, NEW k \in Loops, runPollLoop(k) \/ recipientAnswers(k)
  PROVE  TypeInv'
<1> DEFINE m == task[k].msg
<1>0. /\ k \in Tasks /\ k \notin Taps
      /\ task[k] \in Task /\ task[k].att \in Nat
      /\ WorkPcs \cup BindPcs \cup OfferPcs \subseteq Pcs
      /\ task[k].pc \notin {"idle", "claim"} => m \in Messages
  BY ParameterAssumption DEF TypeInv, TypeOK, TaskShape, Task, Pcs, Tasks
<1>1. ASSUME startPollLoop(k) PROVE TypeInv'
  <2>1. [task[k] EXCEPT !.pc = "claim"] \in Task
    BY <1>0 DEF Task, Pcs
  <2>2. task' \in [Tasks -> Task] /\ TaskShape'
    BY <1>1, <1>0, <2>1 DEF startPollLoop, Goto, TypeInv, TypeOK, TaskShape, Task
  <2> QED
    BY <1>1, <2>2 DEF startPollLoop, database, history, TypeInv, TypeOK
<1>2. ASSUME endPollLoop(k) PROVE task' \in [Tasks -> Task] /\ TaskShape' /\ timer' \in BOOLEAN
  BY <1>2, <1>0, Defaults DEF endPollLoop, NoTask, NewTask, TypeInv, TypeOK, TaskShape
<1>3. ASSUME nothingPending(k) \/ catchWriteFails(k) PROVE TypeInv'
  BY <1>3, <1>2, <1>0
  DEF nothingPending, catchWriteFails, database, history, TypeInv, TypeOK
<1>4. ASSUME claimNextPendingMessage(k) PROVE TypeInv'
  <2>1. PICK n \in Pending :
          /\ row' = [row EXCEPT ![n] = ClaimedRow(@)]
          /\ task' = [task EXCEPT ![k] = NewTask("lookup", n, row[n].attempts + 1,
                                                 NoConsole, "none")]
          /\ lost' = lost \ {n}
    BY <1>4 DEF claimNextPendingMessage
  <2>2. n \in Messages /\ row[n] \in Row /\ row[n].attempts \in Nat
    BY DEF Pending, TypeInv, TypeOK, Row
  <2>3. ClaimedRow(row[n]) \in Row
    BY <2>2, Defaults DEF ClaimedRow, Row, Statuses, Reasons
  <2>4. NewTask("lookup", n, row[n].attempts + 1, NoConsole, "none") \in Task
    BY <2>2, <1>0 DEF NewTask, Task, WorkPcs, Decisions
  <2>5. task' \in [Tasks -> Task] /\ TaskShape'
    BY <2>1, <2>2, <2>4, <1>0 DEF NewTask, TypeInv, TypeOK, TaskShape
  <2> QED
    BY <1>4, <2>1, <2>2, <2>3, <2>5 DEF claimNextPendingMessage, TypeInv, TypeOK
<1>5. ASSUME handlerThrows(k) PROVE TypeInv'
  BY <1>5, <1>0, MovesTyped
  DEF handlerThrows, database, history, TypeInv, TypeOK, WorkPcs
<1>6. ASSUME catchHandlerError(k) PROVE TypeInv'
  BY <1>6, <1>0, MovesTyped, WritesTyped
  DEF catchHandlerError, Budgeted, TypeInv, TypeOK, Statuses
<1>7. ASSUME handleClaimedMessage(k) PROVE TypeInv'
  BY <1>7, <1>0
  DEF handleClaimedMessage, database, history, TypeInv, TypeOK, TaskShape, Task, WorkPcs
<1>8. ASSUME failUnconditionally(k) PROVE TypeInv'
  BY <1>8, <1>0, MovesTyped, WritesTyped
  DEF failUnconditionally, history, TypeInv, TypeOK, Statuses
<1>9. ASSUME listLiveConsoles(k) PROVE TypeInv'
  <2> DEFINE r == [task[k] EXCEPT !.options = live,
                     !.pc = IF live = {} THEN "fail" ELSE "parkBinding"]
  <2>1. r \in Task /\ r.msg = m
    BY <1>0 DEF TypeInv, TypeOK, Task, WorkPcs
  <2>2. task[k].pc = "listConsoles" /\ task' = [task EXCEPT ![k] = r]
    BY <1>9 DEF listLiveConsoles, TypeInv, TypeOK
  <2>3. task' \in [Tasks -> Task] /\ TaskShape'
    BY <1>0, <2>1, <2>2 DEF TypeInv, TypeOK, TaskShape
  <2> QED
    BY <1>9, <2>3 DEF listLiveConsoles, database, history, TypeInv, TypeOK
<1>10. BindRequest(k) \in Requests /\ OfferRequest(k) \in Requests
  BY <1>0 DEF BindRequest, OfferRequest, Requests
<1>11. ASSUME parkForBinding(k) PROVE TypeInv'
  BY <1>11, <1>10, <1>0, MovesTyped, WritesTyped
  DEF parkForBinding, history, TypeInv, TypeOK, Statuses, BindPcs
<1>12. ASSUME sendPrompt(k) PROVE TypeInv'
  BY <1>12, <1>0, MovesTyped
  DEF sendPrompt, database, history, TypeInv, TypeOK, BindPcs, OfferPcs
<1>13. ASSUME answerBinding(k) PROVE TypeInv'
  <2>1. task[k].options \subseteq Consoles
    BY <1>0 DEF Task
  <2>2. \A c \in Consoles \cup {task[k].console}, pc \in {"resumeBinding", "fail"} :
          Picks(task[k], c, pc) \in Task /\ Picks(task[k], c, pc).msg = m
    BY <1>0 DEF Picks, Task, BindPcs
  <2>3. PICK c \in Consoles \cup {task[k].console}, pc \in {"resumeBinding", "fail"} :
          task' = [task EXCEPT ![k] = Picks(task[k], c, pc)]
    BY <1>13, <2>1, <1>0 DEF answerBinding, TypeInv, TypeOK
  <2>4. task[k].pc = "awaitBinding"
    BY <1>13 DEF answerBinding
  <2>5. task' \in [Tasks -> Task] /\ TaskShape'
    BY <1>0, <2>2, <2>3, <2>4 DEF TypeInv, TypeOK, TaskShape
  <2> QED
    BY <1>13, <2>5 DEF answerBinding, database, history, TypeInv, TypeOK
<1>14. ASSUME bindingTimesOut(k) \/ offerTimesOut(k) PROVE TypeInv'
  BY <1>14, <1>0, MovesTyped, WritesTyped
  DEF bindingTimesOut, offerTimesOut, history, TypeInv, TypeOK, Statuses
<1>15. ASSUME resumeAfterBinding(k) PROVE TypeInv'
  BY <1>15, <1>0, MovesTyped, WritesTyped
  DEF resumeAfterBinding, history, TypeInv, TypeOK, Statuses, WorkPcs
<1>16. ASSUME bindChosenConsole(k) PROVE TypeInv'
  BY <1>16, <1>0, MovesTyped
  DEF bindChosenConsole, history, TypeInv, TypeOK, WorkPcs
<1>17. ASSUME precheckConsole(k) PROVE TypeInv'
  BY <1>17, <1>0, MovesTyped, WritesTyped
  DEF precheckConsole, history, TypeInv, TypeOK, WorkPcs
<1>18. ASSUME parkForOffer(k) PROVE TypeInv'
  BY <1>18, <1>10, <1>0, MovesTyped, WritesTyped
  DEF parkForOffer, history, TypeInv, TypeOK, Statuses, OfferPcs
<1>19. ASSUME answerOffer(k) PROVE TypeInv'
  BY <1>19, <1>0
  DEF answerOffer, DecisionOf, Decisions, database, TypeInv, TypeOK, TaskShape, Task, OfferPcs
<1>20. ASSUME resolveInboxMessage(k) PROVE TypeInv'
  BY <1>20, <1>0, ResolutionTyped
<1> QED
  BY <1>1, <1>3, <1>4, <1>5, <1>6, <1>7, <1>8, <1>9, <1>11, <1>12, <1>13, <1>14, <1>15,
     <1>16, <1>17, <1>18, <1>19, <1>20
  DEF runPollLoop, recipientAnswers

LEMMA RestartTyped ==
  ASSUME TypeInv, retryNoLiveSessionMessages \/ restart
  PROVE  TypeInv'
<1>1. ASSUME retryNoLiveSessionMessages PROVE TypeInv'
  <2>1. \A m \in Messages : row[m] \in Row /\ Written(row[m], "pending") \in Row
    BY WrittenTyped DEF TypeInv, TypeOK, Statuses
  <2> QED
    BY <1>1, <2>1
    DEF retryNoLiveSessionMessages, schedulePollSoon, history, TypeInv, TypeOK, TaskShape
<1>2. ASSUME restart PROVE TypeInv'
  <2>1. \A m \in Messages : Reconciled(row[m]) \in Row
    BY WrittenTyped DEF TypeInv, TypeOK, Reconciled, Statuses
  <2> QED
    BY <1>2, <2>1, Defaults, ParameterAssumption
    DEF restart, NoTask, NewTask, TypeInv, TypeOK, TaskShape, Tasks
<1> QED
  BY <1>1, <1>2

LEMMA TypeStep == TypeInv /\ [Next]_vars => TypeInv'
<1> SUFFICES ASSUME TypeInv, [Next]_vars PROVE TypeInv'
  OBVIOUS
<1>1. CASE Environment
  BY <1>1, EnvironmentTyped
<1>2. ASSUME NEW l \in Loops, runPollLoop(l) \/ recipientAnswers(l) PROVE TypeInv'
  BY <1>2, PollLoopTyped
<1>3. ASSUME NEW t \in Taps, resolveInboxMessage(t) PROVE TypeInv'
  BY <1>3, ResolutionTyped DEF Tasks
<1>4. CASE retryNoLiveSessionMessages \/ restart
  BY <1>4, RestartTyped
<1>5. CASE UNCHANGED vars
  BY <1>5 DEF vars, TypeInv, TypeOK, TaskShape
<1> QED
  BY <1>1, <1>2, <1>3, <1>4, <1>5 DEF Next

\* The tables, the tasks and the histories keep their types, a menu decision
\* never runs a step of the worker, and a busy task always has a message.
THEOREM InboxTypes == Spec => []TypeOK
<1>1. Spec => []TypeInv
  BY TypeInit, TypeStep, PTL DEF Spec
<1> QED
  BY <1>1, PTL DEF TypeInv

-----------------------------------------------------------------------------
(* Approval and queueing.  The text is typed by an activity that carries the *)
(* recipient's approval and has queued the xchange record for its console;   *)
(* both facts are about the task, so they join the invariant.                *)

ApprovalCarried ==
  /\ \A k \in Tasks : task[k].decision = "approve" => task[k].msg \in saidYes
  /\ \A k \in Tasks : task[k].pc \in ResolvePcs \ {"decide"} => task[k].decision = "approve"

QueueCarried ==
  \A k \in Tasks :
    /\ task[k].pc = "queue" => task[k].console \in Consoles
    /\ task[k].pc \in {"mark", "type", "enter", "done"} =>
         delivery[task[k].msg] = task[k].console /\ task[k].console \in Consoles

ApprovalInv == /\ TypeInv /\ ApprovalCarried /\ QueueCarried
               /\ ApprovedBeforeTyped /\ TypedWhereQueued

\* What the moves do to the tasks.
LEMMA MovesEffect ==
  ASSUME TypeOK, NEW k \in Tasks
  PROVE  /\ Release(k) => /\ task'[k].decision = "none" /\ task'[k].pc \in {"idle", "claim"}
                          /\ \A j \in Tasks \ {k} : task'[j] = task[j]
         /\ \A pc \in Pcs : Goto(k, pc) =>
              /\ task'[k].pc = pc /\ task'[k].msg = task[k].msg
              /\ task'[k].decision = task[k].decision
              /\ task'[k].console = task[k].console /\ task'[k].att = task[k].att
              /\ \A j \in Tasks \ {k} : task'[j] = task[j]
<1>1. task \in [Tasks -> Task] /\ task[k] \in Task
  BY DEF TypeOK
<1> QED
  BY <1>1 DEF Release, Goto, NewTask, Task

\* A step that types and queues nothing and moves an activity outside the
\* resolution, or ends it, keeps the invariant.
LEMMA QuietStep ==
  ASSUME ApprovalInv, TypeInv',
         typed' = typed, delivery' = delivery, saidYes \subseteq saidYes',
         \A j \in Tasks :
           \/ task'[j] = task[j]
           \/ /\ task'[j].pc \notin ResolvePcs
              /\ \/ task'[j].decision = "none"
                 \/ /\ task'[j].decision = task[j].decision
                    /\ task'[j].msg = task[j].msg
                 \/ task'[j].msg \in saidYes'
  PROVE  ApprovalInv'
<1>1. ApprovalCarried'
  BY DEF ApprovalInv, ApprovalCarried
<1>2. QueueCarried'
  BY DEF ApprovalInv, QueueCarried, ResolvePcs
<1>3. ApprovedBeforeTyped' /\ TypedWhereQueued'
  BY DEF ApprovalInv, ApprovedBeforeTyped, TypedWhereQueued
<1> QED
  BY <1>1, <1>2, <1>3 DEF ApprovalInv

\* A step inside the resolution that types and queues nothing.
LEMMA ResolutionMove ==
  ASSUME ApprovalInv, TypeInv', NEW k \in Tasks, NEW pc \in ResolvePcs \ {"decide"},
         Goto(k, pc), task[k].pc \in ResolvePcs \ {"decide"},
         typed' = typed, delivery' = delivery, saidYes' = saidYes,
         pc = "queue" => task[k].console \in Consoles,
         pc \in {"mark", "type", "enter", "done"} =>
           task[k].pc \in {"mark", "type", "enter", "done"}
  PROVE  ApprovalInv'
<1>0. pc \in Pcs /\ TypeOK
  BY DEF Pcs, ApprovalInv, TypeInv
<1>1. /\ task'[k].pc = pc /\ task'[k].msg = task[k].msg
      /\ task'[k].decision = task[k].decision /\ task'[k].console = task[k].console
      /\ \A j \in Tasks \ {k} : task'[j] = task[j]
  BY <1>0, MovesEffect
<1>2. ApprovalCarried'
  BY <1>1 DEF ApprovalInv, ApprovalCarried
<1>3. QueueCarried'
  BY <1>1 DEF ApprovalInv, QueueCarried
<1>4. ApprovedBeforeTyped' /\ TypedWhereQueued'
  BY DEF ApprovalInv, ApprovedBeforeTyped, TypedWhereQueued
<1> QED
  BY <1>2, <1>3, <1>4 DEF ApprovalInv

LEMMA ApprovalResolution ==
  ASSUME ApprovalInv, TypeInv', NEW k \in Tasks, resolveInboxMessage(k)
  PROVE  ApprovalInv'
<1> DEFINE m == task[k].msg
<1>0. /\ TypeOK /\ task[k] \in Task
      /\ ResolvePcs \subseteq Pcs /\ "caught" \in Pcs /\ "caught" \notin ResolvePcs
      /\ {"idle", "claim"} \cap ResolvePcs = {}
      /\ task[k].pc \in {"claimResolution"} \cup ResolvePcs => m \in Messages
  BY DEF ApprovalInv, TypeInv, TypeOK, TaskShape, Pcs, WorkPcs, ResolvePcs
<1>1. ASSUME typed' = typed, delivery' = delivery, saidYes' = saidYes,
             Release(k) \/ Goto(k, "caught")
      PROVE  ApprovalInv'
  BY <1>1, <1>0, MovesEffect, QuietStep
<1>2. ASSUME claimMessageResolution(k) PROVE ApprovalInv'
  <2>1. CASE Takes(k, m)
    <3>1. /\ typed' = typed /\ delivery' = delivery /\ saidYes' = saidYes
          /\ task'[k].msg = m /\ task'[k].decision = task[k].decision
          /\ task'[k].pc = IF task[k].decision = "approve" THEN "recheck" ELSE "decide"
          /\ \A j \in Tasks \ {k} : task'[j] = task[j]
      BY <1>2, <1>0, <2>1 DEF claimMessageResolution, TypeOK, Task
    <3>2. ApprovalCarried' /\ QueueCarried'
      BY <3>1 DEF ApprovalInv, ApprovalCarried, QueueCarried
    <3>3. ApprovedBeforeTyped' /\ TypedWhereQueued'
      BY <3>1 DEF ApprovalInv, ApprovedBeforeTyped, TypedWhereQueued
    <3> QED
      BY <3>2, <3>3 DEF ApprovalInv
  <2>2. CASE ~Takes(k, m)
    BY <1>2, <2>2, <1>1 DEF claimMessageResolution, ReleaseRefused
  <2> QED
    BY <2>1, <2>2
<1>3. ASSUME writeDecision(k) \/ markDelivered(k) \/ catchDeliveryError(k)
      PROVE  ApprovalInv'
  BY <1>3, <1>1 DEF writeDecision, markDelivered, catchDeliveryError, ReleaseRefused, history
<1>4. ASSUME recheckConsole(k) PROVE ApprovalInv'
  <2>1. CASE task[k].console \in live
    BY <1>4, <1>0, <2>1, ResolutionMove DEF recheckConsole, history, TypeOK, ResolvePcs
  <2>2. CASE task[k].console \notin live
    BY <1>4, <2>2, <1>1 DEF recheckConsole, ReleaseRefused, history
  <2> QED
    BY <2>1, <2>2
<1>5. ASSUME createInboxDelivery(k) PROVE ApprovalInv'
  <2>1. CASE ~QueueableFor(m, task[k].console)
    BY <1>5, <2>1, ResolutionMove DEF createInboxDelivery, history, ResolvePcs
  <2>2. CASE QueueableFor(m, task[k].console)
    <3>1. /\ delivery' = [delivery EXCEPT ![m] = task[k].console] /\ Goto(k, "mark")
          /\ task[k].pc = "queue" /\ m \in Messages
          /\ typed' = typed /\ saidYes' = saidYes
      BY <1>5, <1>0, <2>2 DEF createInboxDelivery, history, ResolvePcs
    <3>2. /\ task'[k].pc = "mark" /\ task'[k].msg = m
          /\ task'[k].decision = task[k].decision /\ task'[k].console = task[k].console
          /\ \A j \in Tasks \ {k} : task'[j] = task[j]
      BY <3>1, <1>0, MovesEffect DEF ResolvePcs
    <3>3. task[k].console \in Consoles /\ delivery \in [Messages -> Consoles \cup {NoConsole}]
      BY <3>1, <1>0 DEF ApprovalInv, QueueCarried, TypeOK
    <3>4. ApprovalCarried'
      BY <3>1, <3>2 DEF ApprovalInv, ApprovalCarried, ResolvePcs
    <3>5. QueueCarried'
      BY <3>1, <3>2, <3>3, <2>2, ParameterAssumption
      DEF ApprovalInv, QueueCarried, QueueableFor
    <3>6. TypedWhereQueued'
      BY <3>1, <3>3, <2>2, <1>0, ParameterAssumption
      DEF ApprovalInv, TypedWhereQueued, QueueableFor, TypeOK
    <3>7. ApprovedBeforeTyped'
      BY <3>1 DEF ApprovalInv, ApprovedBeforeTyped
    <3> QED
      BY <3>4, <3>5, <3>6, <3>7 DEF ApprovalInv
  <2> QED
    BY <2>1, <2>2
<1>6. ASSUME markDelivering(k) \/ pressEnter(k) \/ consoleNotConnected(k) \/ deliveryThrows(k)
      PROVE  ApprovalInv'
  BY <1>6, ResolutionMove
  DEF markDelivering, pressEnter, consoleNotConnected, deliveryThrows, history, database,
      ResolvePcs
<1>7. ASSUME typeText(k) PROVE ApprovalInv'
  <2>1. /\ task[k].pc = "type" /\ m \in Messages
        /\ typed' = [typed EXCEPT ![m] = @ \cup {task[k].console}]
        /\ delivery' = delivery /\ saidYes' = saidYes
        /\ typed \in [Messages -> SUBSET Consoles]
    BY <1>7, <1>0 DEF typeText, database, TypeOK, ResolvePcs
  <2>2. PICK pc \in {"enter", "error"} : Goto(k, pc)
    BY <1>7 DEF typeText
  <2>3. /\ task'[k].pc = pc /\ task'[k].msg = m
        /\ task'[k].decision = task[k].decision /\ task'[k].console = task[k].console
        /\ \A j \in Tasks \ {k} : task'[j] = task[j]
    BY <2>2, <1>0, MovesEffect DEF ResolvePcs
  <2>4. m \in saidYes /\ delivery[m] = task[k].console
    BY <2>1 DEF ApprovalInv, ApprovalCarried, QueueCarried, ResolvePcs
  <2>5. ApprovalCarried' /\ QueueCarried'
    BY <2>1, <2>3 DEF ApprovalInv, ApprovalCarried, QueueCarried, ResolvePcs
  <2>6. ApprovedBeforeTyped' /\ TypedWhereQueued'
    BY <2>1, <2>4 DEF ApprovalInv, ApprovedBeforeTyped, TypedWhereQueued
  <2> QED
    BY <2>5, <2>6 DEF ApprovalInv
<1>8. ASSUME decisionWriteFails(k) PROVE ApprovalInv'
  BY <1>8, <1>1 DEF decisionWriteFails, database
<1> QED
  BY <1>2, <1>3, <1>4, <1>5, <1>6, <1>7, <1>8 DEF resolveInboxMessage

LEMMA ApprovalInit == Init => ApprovalInv
<1> SUFFICES ASSUME Init PROVE ApprovalInv
  OBVIOUS
<1>1. ApprovalCarried /\ QueueCarried
  BY DEF Init, ApprovalCarried, QueueCarried, NoTask, NewTask, ResolvePcs
<1>2. ApprovedBeforeTyped /\ TypedWhereQueued
  BY DEF Init, ApprovedBeforeTyped, TypedWhereQueued
<1> QED
  BY <1>1, <1>2, TypeInit DEF ApprovalInv

LEMMA ApprovalEnvironment ==
  ASSUME ApprovalInv, TypeInv', Environment
  PROVE  ApprovalInv'
<1>1. ASSUME NEW m \in Messages, putMessageRecord(m) PROVE ApprovalInv'
  BY <1>1, QuietStep DEF putMessageRecord, history
<1>2. CASE bindIdentityRecord
  BY <1>2, QuietStep DEF bindIdentityRecord, database, history
<1>3. ASSUME NEW c \in Consoles, bindRouteRecord(c) \/ ConsoleConnects(c) \/ ConsoleDisconnects(c)
      PROVE  ApprovalInv'
  BY <1>3, QuietStep
  DEF bindRouteRecord, ConsoleConnects, ConsoleDisconnects, database, history
<1>4. ASSUME NEW t \in Taps, NEW m \in Messages, NEW c \in Consoles,
             NEW d \in Decisions \ {"none"}, resolve(t, m, c, d)
      PROVE  ApprovalInv'
  <2>1. t \in Tasks /\ task \in [Tasks -> Task]
    BY DEF ApprovalInv, TypeInv, TypeOK, Tasks
  <2>2. /\ typed' = typed /\ delivery' = delivery
        /\ task'[t].pc = "claimResolution" /\ task'[t].msg = m /\ task'[t].decision = d
        /\ \A j \in Tasks \ {t} : task'[j] = task[j]
    BY <1>4, <2>1 DEF resolve, NewTask
  <2>3. saidYes' = IF d = "approve" THEN saidYes \cup {m} ELSE saidYes
    BY <1>4 DEF resolve
  <2>4. ApprovalCarried' /\ QueueCarried'
    BY <2>2, <2>3 DEF ApprovalInv, ApprovalCarried, QueueCarried, ResolvePcs
  <2>5. ApprovedBeforeTyped' /\ TypedWhereQueued'
    BY <2>2, <2>3 DEF ApprovalInv, ApprovedBeforeTyped, TypedWhereQueued
  <2> QED
    BY <2>4, <2>5 DEF ApprovalInv
<1> QED
  BY <1>1, <1>2, <1>3, <1>4 DEF Environment

LEMMA ApprovalPollLoop ==
  ASSUME ApprovalInv, TypeInv', NEW k \in Loops, runPollLoop(k) \/ recipientAnswers(k)
  PROVE  ApprovalInv'
<1> DEFINE m == task[k].msg
           outside == WorkPcs \cup BindPcs \cup OfferPcs \cup {"claim"}
<1>0. /\ k \in Tasks /\ TypeOK /\ task \in [Tasks -> Task] /\ task[k] \in Task
      /\ outside \subseteq Pcs /\ outside \cap ResolvePcs = {} /\ "idle" \notin ResolvePcs
  BY DEF ApprovalInv, TypeInv, TypeOK, Tasks, Pcs, WorkPcs, BindPcs, OfferPcs, ResolvePcs
<1> HIDE DEF outside
<1>1. ASSUME typed' = typed, delivery' = delivery, saidYes' = saidYes,
             \/ Release(k) \/ endPollLoop(k)
             \/ \E pc \in outside : Goto(k, pc)
      PROVE  ApprovalInv'
  <2>1. CASE Release(k)
    <3>1. /\ task'[k].decision = "none" /\ task'[k].pc \in {"idle", "claim"}
          /\ \A j \in Tasks \ {k} : task'[j] = task[j]
      BY <1>0, <2>1, MovesEffect
    <3>2. task'[k].pc \notin ResolvePcs
      BY <3>1 DEF ResolvePcs
    <3> QED
      BY <1>1, <3>1, <3>2, QuietStep
  <2>2. CASE endPollLoop(k)
    BY <1>1, <1>0, <2>2, QuietStep DEF endPollLoop, NoTask, NewTask
  <2>3. ASSUME NEW pc \in outside, Goto(k, pc) PROVE ApprovalInv'
    BY <1>1, <1>0, <2>3, MovesEffect, QuietStep
  <2> QED
    BY <1>1, <2>1, <2>2, <2>3
<1>2. CASE startPollLoop(k) \/ nothingPending(k) \/ catchWriteFails(k)
  BY <1>2, <1>1
  DEF startPollLoop, nothingPending, catchWriteFails, database, history, outside
<1>3. CASE claimNextPendingMessage(k)
  <2>1. PICK n \in Messages : task' = [task EXCEPT ![k] =
             NewTask("lookup", n, row[n].attempts + 1, NoConsole, "none")]
    BY <1>3 DEF claimNextPendingMessage, Pending
  <2>2. /\ task'[k].pc = "lookup" /\ task'[k].decision = "none"
        /\ \A j \in Tasks \ {k} : task'[j] = task[j]
    BY <2>1, <1>0 DEF NewTask
  <2> QED
    BY <1>3, <1>0, <2>2, QuietStep DEF claimNextPendingMessage, outside, WorkPcs
<1>4. CASE handlerThrows(k) \/ catchHandlerError(k) \/ failUnconditionally(k)
  BY <1>4, <1>1
  DEF handlerThrows, catchHandlerError, failUnconditionally, database, history, outside,
      WorkPcs
<1>5. CASE parkForBinding(k) \/ sendPrompt(k) \/ bindingTimesOut(k) \/ resumeAfterBinding(k)
  BY <1>5, <1>1
  DEF parkForBinding, sendPrompt, bindingTimesOut, resumeAfterBinding, database, history,
      outside, WorkPcs, BindPcs, OfferPcs
<1>6. CASE bindChosenConsole(k) \/ precheckConsole(k) \/ parkForOffer(k) \/ offerTimesOut(k)
  BY <1>6, <1>1
  DEF bindChosenConsole, precheckConsole, parkForOffer, offerTimesOut, database, history,
      outside, WorkPcs, OfferPcs
<1>7. ASSUME typed' = typed, delivery' = delivery, saidYes \subseteq saidYes',
             task'[k].pc \in outside, task'[k].msg = m,
             task'[k].decision = task[k].decision,
             \A j \in Tasks \ {k} : task'[j] = task[j]
      PROVE  ApprovalInv'
  BY <1>7, <1>0, QuietStep
<1>8. ASSUME typed' = typed, delivery' = delivery, saidYes' = saidYes,
             NEW r, task' = [task EXCEPT ![k] = r],
             r.pc \in outside, r.msg = m, r.decision = task[k].decision
      PROVE  ApprovalInv'
  <2>1. task'[k] = r /\ \A j \in Tasks \ {k} : task'[j] = task[j]
    BY <1>8, <1>0
  <2> QED
    BY <1>8, <1>7, <2>1
<1>9. CASE handleClaimedMessage(k)
  <2> DEFINE pc == IF ~reachable THEN "fail"
                   ELSE IF binding = NoConsole THEN "listConsoles" ELSE "precheck"
             r == [task[k] EXCEPT !.console = IF reachable THEN binding ELSE @, !.pc = pc]
  <2>1. r.pc \in outside /\ r.msg = m /\ r.decision = task[k].decision
    BY <1>0 DEF Task, outside, WorkPcs
  <2>2. task' = [task EXCEPT ![k] = r]
    BY <1>9, <1>0 DEF handleClaimedMessage, Task
  <2>3. typed' = typed /\ delivery' = delivery /\ saidYes' = saidYes
    BY <1>9 DEF handleClaimedMessage, database, history
  <2> QED
    BY <1>8, <2>1, <2>2, <2>3
<1>12. CASE listLiveConsoles(k)
  <2> DEFINE r == [task[k] EXCEPT !.options = live,
                     !.pc = IF live = {} THEN "fail" ELSE "parkBinding"]
  <2>1. r.pc \in outside /\ r.msg = m /\ r.decision = task[k].decision
    BY <1>0 DEF Task, outside, WorkPcs
  <2>2. task' = [task EXCEPT ![k] = r]
    BY <1>12, <1>0 DEF listLiveConsoles
  <2>3. typed' = typed /\ delivery' = delivery /\ saidYes' = saidYes
    BY <1>12 DEF listLiveConsoles, database, history
  <2> QED
    BY <1>8, <2>1, <2>2, <2>3
<1>13. CASE answerBinding(k)
  <2>1. PICK c \in task[k].options \cup {task[k].console}, pc \in {"resumeBinding", "fail"} :
          task' = [task EXCEPT ![k] = Picks(task[k], c, pc)]
    BY <1>13, <1>0 DEF answerBinding
  <2> DEFINE r == Picks(task[k], c, pc)
  <2>2. r.pc = pc /\ r.msg = m /\ r.decision = task[k].decision
    BY <1>0 DEF Picks, Task
  <2>3. typed' = typed /\ delivery' = delivery /\ saidYes' = saidYes
    BY <1>13 DEF answerBinding, database, history
  <2>4. r.pc \in outside
    BY <2>2 DEF outside, WorkPcs, BindPcs
  <2> HIDE DEF r
  <2> QED
    BY <1>8, <2>1, <2>2, <2>3, <2>4 DEF r
<1>10. CASE answerOffer(k)
  <2>1. PICK answer \in {"Approve", "Postpone", "Reject"} :
          /\ task' = [task EXCEPT ![k].console = binding, ![k].pc = "claimResolution",
                                  ![k].decision = DecisionOf(answer)]
          /\ saidYes' = IF answer = "Approve" THEN saidYes \cup {m} ELSE saidYes
    BY <1>10 DEF answerOffer
  <2>2. /\ task'[k].pc = "claimResolution" /\ task'[k].msg = m
        /\ task'[k].decision = DecisionOf(answer)
        /\ \A j \in Tasks \ {k} : task'[j] = task[j]
        /\ typed' = typed /\ delivery' = delivery
    BY <1>10, <1>0, <2>1 DEF answerOffer, database, Task
  <2>3. task'[k].decision = "approve" => m \in saidYes'
    BY <2>1, <2>2 DEF DecisionOf
  <2>4. saidYes \subseteq saidYes' /\ task'[k].pc \notin ResolvePcs
    BY <2>1, <2>2 DEF ResolvePcs
  <2>6. ApprovalCarried'
    BY <2>2, <2>3, <2>4 DEF ApprovalInv, ApprovalCarried
  <2>7. QueueCarried'
    BY <2>2, <2>4 DEF ApprovalInv, QueueCarried, ResolvePcs
  <2>5. ApprovedBeforeTyped' /\ TypedWhereQueued'
    BY <2>2, <2>4 DEF ApprovalInv, ApprovedBeforeTyped, TypedWhereQueued
  <2> QED
    BY <2>5, <2>6, <2>7 DEF ApprovalInv
<1>11. CASE resolveInboxMessage(k)
  BY <1>11, <1>0, ApprovalResolution
<1> QED
  BY <1>2, <1>3, <1>4, <1>5, <1>6, <1>9, <1>10, <1>11, <1>12, <1>13
  DEF runPollLoop, recipientAnswers

LEMMA ApprovalStep == ApprovalInv /\ [Next]_vars => ApprovalInv'
<1> SUFFICES ASSUME ApprovalInv, [Next]_vars PROVE ApprovalInv'
  OBVIOUS
<1>0. TypeInv'
  BY TypeStep DEF ApprovalInv
<1>1. CASE Environment
  BY <1>0, <1>1, ApprovalEnvironment
<1>2. ASSUME NEW l \in Loops, runPollLoop(l) \/ recipientAnswers(l) PROVE ApprovalInv'
  BY <1>0, <1>2, ApprovalPollLoop
<1>3. ASSUME NEW t \in Taps, resolveInboxMessage(t) PROVE ApprovalInv'
  BY <1>0, <1>3, ApprovalResolution DEF Tasks
<1>4. CASE retryNoLiveSessionMessages
  BY <1>0, <1>4, QuietStep DEF retryNoLiveSessionMessages, history
<1>5. CASE restart
  BY <1>0, <1>5, QuietStep DEF restart, NoTask, NewTask, ResolvePcs
<1>6. CASE UNCHANGED vars
  BY <1>0, <1>6, QuietStep DEF vars
<1> QED
  BY <1>1, <1>2, <1>3, <1>4, <1>5, <1>6 DEF Next

LEMMA ApprovalAlways == Spec => []ApprovalInv
BY ApprovalInit, ApprovalStep, PTL DEF Spec

\* However many loops, taps, retries and restarts there are, no text reaches a
\* console unless the recipient pressed Approve for that message.
THEOREM NothingTypedUnapproved == Spec => []ApprovedBeforeTyped
BY ApprovalAlways, PTL DEF ApprovalInv

\* Every console a message was typed into is the one its xchange record names.
THEOREM TypedOnlyWhereQueued == Spec => []TypedWhereQueued
BY ApprovalAlways, PTL DEF ApprovalInv

-----------------------------------------------------------------------------
(***************************************************************************)
(* Who holds a row in a transient status.                                  *)
(***************************************************************************)

Transient == {"processing", "awaiting_route_binding", "offered", "delivering"}

\* Activity k will still write the row of m.
HeldBy(k, m) ==
  \/ row[m].status = "processing" /\ k \in Loops /\ ProcessedBy(k, m)
  \/ row[m].status = "awaiting_route_binding" /\ k \in Loops /\ BindingBy(k, m)
  \/ row[m].status = "offered" /\ k \in Loops /\ OfferedBy(k, m)
  \/ row[m].status = "delivering" /\ ResolvedBy(k, m)

AllHeld == \A m \in Messages :
             row[m].status \in Transient => m \in lost \/ \E k \in Tasks : HeldBy(k, m)

HoldingInv == TypeInv /\ AllHeld

\* Where a holder can be.
HolderPcs == WorkPcs \cup BindPcs \cup OfferPcs \cup ResolvePcs

LEMMA HeldIsNothingStranded == AllHeld <=> NothingStranded
<1>1. AllHeld => NothingStranded
  BY DEF AllHeld, HeldBy, Transient, NothingStranded, ProcessingIsHeld, BindingIsHeld,
     OfferIsHeld, DeliveringIsHeld
<1>2. NothingStranded => AllHeld
  BY DEF AllHeld, HeldBy, Transient, NothingStranded, ProcessingIsHeld, BindingIsHeld,
     OfferIsHeld, DeliveringIsHeld, Tasks
<1> QED
  BY <1>1, <1>2

LEMMA HolderAt ==
  ASSUME NEW k, NEW m, HeldBy(k, m)
  PROVE  task[k].msg = m /\ task[k].pc \in HolderPcs
BY DEF HeldBy, ProcessedBy, BindingBy, OfferedBy, ResolvedBy, Holds, HolderPcs

\* One activity steps and writes at most the row of m: it ends up holding that
\* row, leaves it in no transient status, counts it as lost, or never held it.
LEMMA HolderStep ==
  ASSUME HoldingInv, NEW k \in Tasks, NEW m \in Messages,
         \A j \in Tasks \ {k} : task'[j] = task[j],
         \A n \in Messages \ {m} : row'[n] = row[n],
         \A n \in Messages \ {m} : ~HeldBy(k, n),
         lost \ {m} \subseteq lost',
         \/ row'[m].status \notin Transient
         \/ m \in lost'
         \/ HeldBy(k, m)'
         \/ row'[m] = row[m] /\ lost \subseteq lost' /\ ~HeldBy(k, m)
  PROVE  AllHeld'
<1>1. ASSUME NEW n \in Messages, NEW j \in Tasks \ {k}, HeldBy(j, n), row'[n] = row[n]
      PROVE  HeldBy(j, n)'
  BY <1>1 DEF HeldBy, ProcessedBy, BindingBy, OfferedBy, ResolvedBy, Holds, BindRequest,
     OfferRequest
<1>2. ASSUME NEW n \in Messages, row'[n].status \in Transient,
             row'[n] = row[n], ~HeldBy(k, n), n \in lost => n \in lost'
      PROVE  n \in lost' \/ \E j \in Tasks : HeldBy(j, n)'
  <2>1. n \in lost \/ \E j \in Tasks \ {k} : HeldBy(j, n)
    BY <1>2 DEF HoldingInv, AllHeld
  <2> QED
    BY <2>1, <1>1, <1>2
<1>3. ASSUME NEW n \in Messages \ {m}, row'[n].status \in Transient
      PROVE  n \in lost' \/ \E j \in Tasks : HeldBy(j, n)'
  BY <1>2, <1>3
<1>4. ASSUME row'[m].status \in Transient
      PROVE  m \in lost' \/ \E j \in Tasks : HeldBy(j, m)'
  BY <1>2, <1>4
<1> QED
  BY <1>3, <1>4 DEF AllHeld

\* The forms in which the actions of an activity use it.  m is its message.
LEMMA RowWrite ==
  ASSUME TypeOK, NEW m \in Messages
  PROVE  /\ \A s : updateMessageStatus(m, s) =>
               row'[m].status = s /\ \A n \in Messages \ {m} : row'[n] = row[n]
         /\ \A s, req : Park(m, s, req) =>
               /\ row'[m].status = s /\ row'[m].req = req
               /\ \A n \in Messages \ {m} : row'[n] = row[n]
         /\ \A att : giveUpOnConsole(m, att) =>
               /\ row'[m].status \in {"failed", "no_live_session"}
               /\ \A n \in Messages \ {m} : row'[n] = row[n]
<1>1. row \in [Messages -> Row] /\ row[m] \in Row
  BY DEF TypeOK
<1>2. \A s : updateMessageStatus(m, s) =>
         row'[m].status = s /\ \A n \in Messages \ {m} : row'[n] = row[n]
  BY <1>1 DEF updateMessageStatus, Written, RowWith
<1>3. \A s, req : Park(m, s, req) =>
         /\ row'[m].status = s /\ row'[m].req = req
         /\ \A n \in Messages \ {m} : row'[n] = row[n]
  BY <1>1 DEF Park, Row
<1>4. \A att : giveUpOnConsole(m, att) =>
         /\ row'[m].status \in {"failed", "no_live_session"}
         /\ \A n \in Messages \ {m} : row'[n] = row[n]
  BY <1>1 DEF giveUpOnConsole, RowWith, Budgeted
<1> QED
  BY <1>2, <1>3, <1>4

\* HolderStep for the message the activity has.
LEMMA OwnStep ==
  ASSUME HoldingInv, NEW k \in Tasks, NEW m \in Messages, task[k].msg = m,
         \A j \in Tasks \ {k} : task'[j] = task[j],
         \A n \in Messages \ {m} : row'[n] = row[n],
         lost \ {m} \subseteq lost',
         \/ row'[m].status \notin Transient
         \/ m \in lost'
         \/ HeldBy(k, m)'
         \/ row'[m] = row[m] /\ lost \subseteq lost' /\ ~HeldBy(k, m)
  PROVE  AllHeld'
<1>1. \A n \in Messages \ {m} : ~HeldBy(k, n)
  BY HolderAt
<1> QED
  BY <1>1, HolderStep

\* An activity that holds nothing moves to where it holds nothing.
LEMMA IdleStep ==
  ASSUME HoldingInv, NEW k \in Tasks, task[k].pc \notin HolderPcs,
         \A j \in Tasks \ {k} : task'[j] = task[j], row' = row, lost' = lost
  PROVE  AllHeld'
<1>1. \A n \in Messages : ~HeldBy(k, n)
  BY HolderAt
<1>2. ASSUME NEW m \in Messages, row'[m].status \in Transient
      PROVE  AllHeld'
  <2>1. \A n \in Messages \ {m} : row'[n] = row[n] /\ ~HeldBy(k, n)
    BY <1>1
  <2>2. lost \ {m} \subseteq lost' /\ lost \subseteq lost' /\ row'[m] = row[m] /\ ~HeldBy(k, m)
    BY <1>1
  <2> QED
    BY <2>1, <2>2, HolderStep
<1> QED
  BY <1>2 DEF AllHeld

LEMMA ResolutionHeld ==
  ASSUME HoldingInv, NEW k \in Tasks, resolveInboxMessage(k)
  PROVE  AllHeld'
<1>a. task[k].pc \in {"claimResolution"} \cup ResolvePcs
  BY DEF resolveInboxMessage, claimMessageResolution, writeDecision, recheckConsole,
     createInboxDelivery, markDelivering, typeText, pressEnter, consoleNotConnected,
     deliveryThrows, markDelivered, catchDeliveryError, decisionWriteFails, ResolvePcs
<1>b. PICK m \in Messages : task[k].msg = m
  BY <1>a DEF HoldingInv, TypeInv, TaskShape, ResolvePcs
<1>0. /\ TypeOK /\ TypeInv /\ task[k] \in Task /\ task[k].msg = m
      /\ ResolvePcs \subseteq Pcs /\ "caught" \in Pcs
  BY <1>b DEF HoldingInv, TypeInv, TypeOK, Pcs, WorkPcs, ResolvePcs
<1>1. /\ Release(k) => \A j \in Tasks \ {k} : task'[j] = task[j]
      /\ \A pc \in Pcs : Goto(k, pc) =>
           /\ task'[k].pc = pc /\ task'[k].msg = m /\ task'[k].att = task[k].att
           /\ \A j \in Tasks \ {k} : task'[j] = task[j]
  BY <1>0, MovesEffect
<1>2. ReleaseRefused(k) => \A j \in Tasks \ {k} : task'[j] = task[j]
  BY <1>0, <1>1 DEF ReleaseRefused
<1>3. ASSUME claimMessageResolution(k) PROVE AllHeld'
  <2>1. CASE Takes(k, m)
    <3>1. /\ task[k].pc = "claimResolution" /\ lost' = lost \ {m}
          /\ updateMessageStatus(m, "delivering")
      BY <1>0, <1>3, <2>1 DEF claimMessageResolution
    <3>2. /\ task'[k].msg = m /\ task'[k].pc \in ResolvePcs
          /\ \A j \in Tasks \ {k} : task'[j] = task[j]
      BY <1>3, <1>0, <2>1 DEF claimMessageResolution, TypeOK, Task, ResolvePcs
    <3>3. row'[m].status = "delivering" /\ \A n \in Messages \ {m} : row'[n] = row[n]
      BY <1>0, <3>1, RowWrite
    <3>4. HeldBy(k, m)'
      BY <3>2, <3>3 DEF HeldBy, ResolvedBy, Holds
    <3> QED
      BY <1>0, <3>1, <3>2, <3>3, <3>4, OwnStep
  <2>2. CASE ~Takes(k, m)
    <3>1. task[k].pc = "claimResolution" /\ row' = row /\ lost' = lost /\ ReleaseRefused(k)
      BY <1>0, <1>3, <2>2 DEF claimMessageResolution
    <3>2. ~HeldBy(k, m)
      BY <2>2, <3>1
      DEF HeldBy, ProcessedBy, BindingBy, OfferedBy, ResolvedBy, Takes, ExpectsRequest,
          WorkPcs, BindPcs, ResolvePcs
    <3> QED
      BY <1>0, <1>2, <3>1, <3>2, OwnStep
  <2> QED
    BY <2>1, <2>2
<1>4. ASSUME NEW s, updateMessageStatus(m, s), s \notin Transient,
             lost' = lost, Release(k) \/ ReleaseRefused(k)
      PROVE  AllHeld'
  <2>1. row'[m].status = s /\ \A n \in Messages \ {m} : row'[n] = row[n]
    BY <1>0, <1>4, RowWrite
  <2> QED
    BY <1>0, <1>1, <1>2, <1>4, <2>1, OwnStep
<1>5. ASSUME writeDecision(k) \/ markDelivered(k) \/ catchDeliveryError(k) PROVE AllHeld'
  BY <1>5, <1>4, <1>0
  DEF writeDecision, markDelivered, catchDeliveryError, history, Transient, ResolvePcs
\* Steps between two writes: the activity stays in the resolution.
<1>6. ASSUME task[k].pc \in ResolvePcs, NEW pc \in ResolvePcs, Goto(k, pc),
             row' = row \/ updateMessageStatus(m, "delivering"), lost' = lost
      PROVE  AllHeld'
  <2>1. \A n \in Messages \ {m} : row'[n] = row[n]
    BY <1>0, <1>6, RowWrite
  <2>2. row' = row \/ row'[m].status = "delivering"
    BY <1>0, <1>6, RowWrite
  <2>3. /\ task'[k].pc = pc /\ task'[k].msg = m
        /\ \A j \in Tasks \ {k} : task'[j] = task[j]
    BY <1>0, <1>1, <1>6
  <2>4. row'[m].status = "delivering" => HeldBy(k, m)'
    BY <1>6, <2>3 DEF HeldBy, ResolvedBy, Holds
  <2>5. row[m].status # "delivering" => ~HeldBy(k, m)
    BY <1>6
    DEF HeldBy, ProcessedBy, BindingBy, OfferedBy, ResolvePcs, WorkPcs, BindPcs, OfferPcs
  <2>6. HeldBy(k, m)' \/ (row' = row /\ ~HeldBy(k, m))
    BY <2>2, <2>4, <2>5
  <2> QED
    BY <1>0, <1>6, <2>1, <2>3, <2>6, OwnStep
<1>7. ASSUME recheckConsole(k) PROVE AllHeld'
  <2>1. CASE task[k].console \in live
    BY <1>0, <1>7, <1>6, <2>1 DEF recheckConsole, history, ResolvePcs
  <2>2. CASE task[k].console \notin live
    <3>1. lost' = lost /\ giveUpOnConsole(m, task[k].att) /\ ReleaseRefused(k)
      BY <1>7, <1>0, <2>2 DEF recheckConsole, history, ResolvePcs
    <3>2. /\ row'[m].status \in {"failed", "no_live_session"}
          /\ \A n \in Messages \ {m} : row'[n] = row[n]
      BY <1>0, <3>1, RowWrite
    <3> QED
      BY <1>0, <1>2, <3>1, <3>2, OwnStep DEF Transient
  <2> QED
    BY <2>1, <2>2
<1>8. ASSUME \/ createInboxDelivery(k) \/ typeText(k) \/ pressEnter(k)
             \/ consoleNotConnected(k) \/ deliveryThrows(k)
      PROVE  AllHeld'
  BY <1>0, <1>8, <1>6
  DEF createInboxDelivery, typeText, pressEnter, consoleNotConnected, deliveryThrows,
      history, database, ResolvePcs
<1>9. ASSUME markDelivering(k) PROVE AllHeld'
  BY <1>0, <1>9, <1>6 DEF markDelivering, history, ResolvePcs
<1>10. ASSUME decisionWriteFails(k) PROVE AllHeld'
  <2>1. row' = row /\ lost' = lost \cup {m}
    BY <1>10, <1>0 DEF decisionWriteFails, database, ResolvePcs
  <2>2. \A j \in Tasks \ {k} : task'[j] = task[j]
    BY <1>10, <1>0, <1>1 DEF decisionWriteFails
  <2> QED
    BY <1>0, <2>1, <2>2, OwnStep
<1> QED
  BY <1>3, <1>5, <1>7, <1>8, <1>9, <1>10 DEF resolveInboxMessage

\* The steps in which a run of the poll loop has a message of its own.
LEMMA HandlerHeld ==
  ASSUME HoldingInv, NEW k \in Loops, NEW m \in Messages, task[k].msg = m,
         \/ handleClaimedMessage(k) \/ failUnconditionally(k) \/ listLiveConsoles(k)
         \/ parkForBinding(k) \/ sendPrompt(k) \/ bindingTimesOut(k)
         \/ resumeAfterBinding(k) \/ bindChosenConsole(k) \/ precheckConsole(k)
         \/ parkForOffer(k) \/ offerTimesOut(k) \/ handlerThrows(k)
         \/ catchHandlerError(k) \/ catchWriteFails(k) \/ answerBinding(k) \/ answerOffer(k)
  PROVE  AllHeld'
<1>0. /\ TypeOK /\ k \in Tasks /\ task \in [Tasks -> Task] /\ task[k] \in Task
      /\ WorkPcs \cup BindPcs \cup OfferPcs \subseteq Pcs
  BY DEF HoldingInv, TypeInv, TypeOK, Tasks, Pcs
<1>1. /\ Release(k) => \A j \in Tasks \ {k} : task'[j] = task[j]
      /\ endPollLoop(k) => \A j \in Tasks \ {k} : task'[j] = task[j]
      /\ \A pc \in Pcs : Goto(k, pc) =>
           /\ task'[k].pc = pc /\ task'[k].msg = m /\ task'[k].att = task[k].att
           /\ \A j \in Tasks \ {k} : task'[j] = task[j]
  BY <1>0, MovesEffect DEF endPollLoop
\* The row is written with a status that needs no holder.
<1>2. ASSUME NEW s, updateMessageStatus(m, s), s \notin Transient, Release(k), lost \subseteq lost'
      PROVE  AllHeld'
  <2>1. row'[m].status = s /\ \A n \in Messages \ {m} : row'[n] = row[n]
    BY <1>0, <1>2, RowWrite
  <2> QED
    BY <1>0, <1>1, <1>2, <2>1, OwnStep
\* The row is not this activity's, and is left alone.
<1>3. ASSUME ~HeldBy(k, m), row' = row, lost' = lost, Release(k)
      PROVE  AllHeld'
  BY <1>0, <1>1, <1>3, OwnStep
\* The activity goes where it holds what it held.
<1>4. ASSUME row' = row, lost' = lost, task'[k].msg = m, task'[k].att = task[k].att,
             \A j \in Tasks \ {k} : task'[j] = task[j],
             task[k].pc \in WorkPcs => task'[k].pc \in WorkPcs,
             task[k].pc \in BindPcs => task'[k].pc \in BindPcs,
             task[k].pc \in OfferPcs => task'[k].pc \in OfferPcs,
             task[k].pc \notin ResolvePcs
      PROVE  AllHeld'
  <2>1. HeldBy(k, m) => HeldBy(k, m)'
    BY <1>4 DEF HeldBy, ProcessedBy, BindingBy, OfferedBy, ResolvedBy, Holds, BindRequest,
       OfferRequest
  <2> QED
    BY <1>0, <1>4, <2>1, OwnStep
<1>5. ASSUME NEW pc \in Pcs, Goto(k, pc), row' = row, lost' = lost,
             task[k].pc \in WorkPcs => pc \in WorkPcs,
             task[k].pc \in BindPcs => pc \in BindPcs,
             task[k].pc \in OfferPcs => pc \in OfferPcs,
             task[k].pc \notin ResolvePcs
      PROVE  AllHeld'
  BY <1>1, <1>4, <1>5
<1>6. CASE handleClaimedMessage(k)
  <2> DEFINE pc == IF ~reachable THEN "fail"
                   ELSE IF binding = NoConsole THEN "listConsoles" ELSE "precheck"
             r == [task[k] EXCEPT !.console = IF reachable THEN binding ELSE @, !.pc = pc]
  <2>1. /\ task' = [task EXCEPT ![k] = r] /\ task[k].pc = "lookup"
        /\ row' = row /\ lost' = lost
    BY <1>6, <1>0 DEF handleClaimedMessage, database, history, Task
  <2>2. r.pc \in WorkPcs /\ r.msg = m /\ r.att = task[k].att
    BY <1>0 DEF Task, WorkPcs
  <2>3. task'[k] = r /\ \A j \in Tasks \ {k} : task'[j] = task[j]
    BY <1>0, <2>1
  <2>4. task[k].pc \notin BindPcs \cup OfferPcs \cup ResolvePcs
    BY <2>1 DEF BindPcs, OfferPcs, ResolvePcs
  <2> QED
    BY <1>4, <2>1, <2>2, <2>3, <2>4
<1>7. CASE listLiveConsoles(k)
  <2> DEFINE r == [task[k] EXCEPT !.options = live,
                     !.pc = IF live = {} THEN "fail" ELSE "parkBinding"]
  <2>1. /\ task' = [task EXCEPT ![k] = r] /\ task[k].pc = "listConsoles"
        /\ row' = row /\ lost' = lost
    BY <1>7, <1>0 DEF listLiveConsoles, database, history
  <2>2. r.pc \in WorkPcs /\ r.msg = m /\ r.att = task[k].att
    BY <1>0 DEF Task, WorkPcs
  <2>3. task'[k] = r /\ \A j \in Tasks \ {k} : task'[j] = task[j]
    BY <1>0, <2>1
  <2>4. task[k].pc \notin BindPcs \cup OfferPcs \cup ResolvePcs
    BY <2>1 DEF BindPcs, OfferPcs, ResolvePcs
  <2> QED
    BY <1>4, <2>1, <2>2, <2>3, <2>4
<1>8. CASE answerBinding(k)
  <2>1. PICK c \in task[k].options \cup {task[k].console}, pc \in {"resumeBinding", "fail"} :
          task' = [task EXCEPT ![k] = Picks(task[k], c, pc)]
    BY <1>8, <1>0 DEF answerBinding
  <2> DEFINE r == Picks(task[k], c, pc)
  <2>2. r.pc = pc /\ r.msg = m /\ r.att = task[k].att
    BY <1>0 DEF Picks, Task
  <2> HIDE DEF r
  <2>3. task[k].pc = "awaitBinding" /\ row' = row /\ lost' = lost
    BY <1>8 DEF answerBinding, database, history
  <2>4. task'[k] = r /\ \A j \in Tasks \ {k} : task'[j] = task[j]
    BY <1>0, <2>1 DEF r
  <2>5. /\ task[k].pc \notin WorkPcs \cup OfferPcs \cup ResolvePcs
        /\ pc \in BindPcs
    BY <2>3 DEF BindPcs, OfferPcs, ResolvePcs, WorkPcs
  <2> QED
    BY <1>4, <2>2, <2>3, <2>4, <2>5
<1>9. CASE answerOffer(k)
  <2>1. PICK d : task' = [task EXCEPT ![k].console = binding, ![k].pc = "claimResolution",
                                      ![k].decision = d]
    BY <1>9 DEF answerOffer
  <2>2. /\ task'[k].pc = "claimResolution" /\ task'[k].msg = m
        /\ task'[k].att = task[k].att
        /\ \A j \in Tasks \ {k} : task'[j] = task[j]
    BY <1>0, <2>1 DEF Task
  <2>3. task[k].pc = "awaitOffer" /\ row' = row /\ lost' = lost
    BY <1>9 DEF answerOffer, database
  <2> QED
    BY <1>4, <2>2, <2>3 DEF WorkPcs, BindPcs, OfferPcs, ResolvePcs
<1>10. CASE sendPrompt(k) \/ handlerThrows(k)
  BY <1>10, <1>5, <1>0
  DEF sendPrompt, handlerThrows, database, history, WorkPcs, BindPcs, OfferPcs, ResolvePcs
<1>11. CASE bindChosenConsole(k)
  BY <1>11, <1>5, <1>0 DEF bindChosenConsole, history, WorkPcs, BindPcs, OfferPcs, ResolvePcs
<1>12. CASE failUnconditionally(k)
  BY <1>12, <1>2 DEF failUnconditionally, history, Transient
\* A prompt is parked on: the row and the activity name the same request.
<1>13. CASE parkForBinding(k)
  <2>1. CASE Expects(m, "processing")
    <3>1. Park(m, "awaiting_route_binding", BindRequest(k)) /\ Goto(k, "sendBinding") /\ lost' = lost
      BY <1>13, <2>1 DEF parkForBinding, history
    <3>2. /\ row'[m].status = "awaiting_route_binding" /\ row'[m].req = BindRequest(k)
          /\ \A n \in Messages \ {m} : row'[n] = row[n]
      BY <1>0, <3>1, RowWrite
    <3>3. /\ task'[k].pc = "sendBinding" /\ task'[k].msg = m /\ task'[k].att = task[k].att
          /\ \A j \in Tasks \ {k} : task'[j] = task[j]
      BY <1>0, <1>1, <3>1 DEF BindPcs
    <3>4. HeldBy(k, m)'
      BY <3>2, <3>3 DEF HeldBy, BindingBy, Holds, BindRequest, BindPcs
    <3> QED
      BY <1>0, <3>1, <3>2, <3>3, <3>4, OwnStep
  <2>2. CASE ~Expects(m, "processing")
    BY <1>13, <1>3, <2>2
    DEF parkForBinding, history, Expects, HeldBy, BindingBy, OfferedBy, ResolvedBy, BindPcs,
        OfferPcs, ResolvePcs
  <2> QED
    BY <2>1, <2>2
<1>14. CASE parkForOffer(k)
  <2>1. CASE Expects(m, "processing")
    <3>1. Park(m, "offered", OfferRequest(k)) /\ Goto(k, "sendOffer") /\ lost' = lost
      BY <1>14, <2>1 DEF parkForOffer, history
    <3>2. /\ row'[m].status = "offered" /\ row'[m].req = OfferRequest(k)
          /\ \A n \in Messages \ {m} : row'[n] = row[n]
      BY <1>0, <3>1, RowWrite
    <3>3. /\ task'[k].pc = "sendOffer" /\ task'[k].msg = m /\ task'[k].att = task[k].att
          /\ \A j \in Tasks \ {k} : task'[j] = task[j]
      BY <1>0, <1>1, <3>1 DEF OfferPcs
    <3>4. HeldBy(k, m)'
      BY <3>2, <3>3 DEF HeldBy, OfferedBy, Holds, OfferRequest, OfferPcs
    <3> QED
      BY <1>0, <3>1, <3>2, <3>3, <3>4, OwnStep
  <2>2. CASE ~Expects(m, "processing")
    BY <1>14, <1>3, <2>2
    DEF parkForOffer, history, Expects, HeldBy, BindingBy, OfferedBy, ResolvedBy, BindPcs,
        OfferPcs, ResolvePcs
  <2> QED
    BY <2>1, <2>2
<1>15. CASE resumeAfterBinding(k)
  <2>1. CASE ExpectsRequest(m, "awaiting_route_binding", BindRequest(k))
    <3>1. updateMessageStatus(m, "processing") /\ Goto(k, "bindChosen") /\ lost' = lost
      BY <1>15, <2>1 DEF resumeAfterBinding, history
    <3>2. row'[m].status = "processing" /\ \A n \in Messages \ {m} : row'[n] = row[n]
      BY <1>0, <3>1, RowWrite
    <3>3. /\ task'[k].pc = "bindChosen" /\ task'[k].msg = m
          /\ \A j \in Tasks \ {k} : task'[j] = task[j]
      BY <1>0, <1>1, <3>1 DEF WorkPcs
    <3>4. HeldBy(k, m)'
      BY <3>2, <3>3 DEF HeldBy, ProcessedBy, Holds, WorkPcs
    <3> QED
      BY <1>0, <3>1, <3>2, <3>3, <3>4, OwnStep
  <2>2. CASE ~ExpectsRequest(m, "awaiting_route_binding", BindRequest(k))
    BY <1>15, <1>3, <2>2
    DEF resumeAfterBinding, history, ExpectsRequest, HeldBy, ProcessedBy, BindingBy,
        OfferedBy, ResolvedBy, WorkPcs, OfferPcs, ResolvePcs
  <2> QED
    BY <2>1, <2>2
<1>16. CASE bindingTimesOut(k)
  BY <1>16, <1>2, <1>3
  DEF bindingTimesOut, history, ExpectsRequest, HeldBy, ProcessedBy, BindingBy, OfferedBy,
      ResolvedBy, WorkPcs, OfferPcs, ResolvePcs, Transient
<1>17. CASE offerTimesOut(k)
  BY <1>17, <1>2, <1>3
  DEF offerTimesOut, history, ExpectsRequest, HeldBy, ProcessedBy, BindingBy, OfferedBy,
      ResolvedBy, WorkPcs, BindPcs, ResolvePcs, Transient
<1>18. CASE precheckConsole(k)
  <2>1. CASE task[k].console \in live
    BY <1>18, <1>5, <1>0, <2>1
    DEF precheckConsole, history, WorkPcs, BindPcs, OfferPcs, ResolvePcs
  <2>2. CASE task[k].console \notin live /\ Expects(m, "processing")
    <3>1. giveUpOnConsole(m, task[k].att) /\ Release(k) /\ lost' = lost
      BY <1>18, <2>2 DEF precheckConsole, history
    <3>2. /\ row'[m].status \in {"failed", "no_live_session"}
          /\ \A n \in Messages \ {m} : row'[n] = row[n]
      BY <1>0, <3>1, RowWrite
    <3> QED
      BY <1>0, <1>1, <3>1, <3>2, OwnStep DEF Transient
  <2>3. CASE task[k].console \notin live /\ ~Expects(m, "processing")
    BY <1>18, <1>3, <2>3
    DEF precheckConsole, history, Expects, HeldBy, BindingBy, OfferedBy, ResolvedBy, BindPcs,
        OfferPcs, ResolvePcs
  <2> QED
    BY <2>1, <2>2, <2>3
<1>19. CASE catchHandlerError(k)
  <2>1. CASE Expects(m, "processing")
    BY <1>19, <1>2, <2>1
    DEF catchHandlerError, Budgeted, Transient, ParkedBy, Expects, ExpectsRequest
  <2>2. CASE ParkedBy(k, m)
    <3>1. row' = row /\ lost' = lost \cup {m} /\ Release(k)
      BY <1>19, <2>2 DEF catchHandlerError, ParkedBy, ExpectsRequest, Expects
    <3> QED
      BY <1>0, <1>1, <3>1, OwnStep
  <2>3. CASE ~Expects(m, "processing") /\ ~ParkedBy(k, m)
    <3>1. row' = row /\ lost' = lost /\ Release(k) /\ task[k].pc = "caught"
      BY <1>19, <2>3 DEF catchHandlerError
    <3>2. ~HeldBy(k, m)
      BY <3>1, <2>3 DEF HeldBy, BindingBy, OfferedBy, ResolvedBy, ResolvePcs, Expects,
         ParkedBy, ExpectsRequest
    <3> QED
      BY <1>3, <3>1, <3>2
  <2> QED
    BY <2>1, <2>2, <2>3
<1>20. CASE catchWriteFails(k)
  <2>1. row' = row /\ lost' = lost \cup {m} /\ endPollLoop(k)
    BY <1>20 DEF catchWriteFails, database
  <2> QED
    BY <1>0, <1>1, <2>1, OwnStep
<1> QED
  BY <1>6, <1>7, <1>8, <1>9, <1>10, <1>11, <1>12, <1>13, <1>14, <1>15, <1>16, <1>17, <1>18,
     <1>19, <1>20

LEMMA PollLoopHeld ==
  ASSUME HoldingInv, NEW k \in Loops, runPollLoop(k) \/ recipientAnswers(k)
  PROVE  AllHeld'
<1>0. /\ TypeOK /\ k \in Tasks /\ task \in [Tasks -> Task] /\ task[k] \in Task
      /\ {"idle", "claim"} \cap HolderPcs = {} /\ "claim" \in Pcs
  BY DEF HoldingInv, TypeInv, TypeOK, Tasks, Pcs, HolderPcs, WorkPcs, BindPcs, OfferPcs,
     ResolvePcs
<1>1. CASE startPollLoop(k)
  <2>1. task[k].pc = "idle" /\ row' = row /\ lost' = lost
    BY <1>1 DEF startPollLoop, database, history
  <2>2. \A j \in Tasks \ {k} : task'[j] = task[j]
    BY <1>0, <1>1, MovesEffect DEF startPollLoop
  <2> QED
    BY <1>0, <2>1, <2>2, IdleStep
<1>2. CASE nothingPending(k)
  <2>1. task[k].pc = "claim" /\ row' = row /\ lost' = lost
    BY <1>2 DEF nothingPending, database, history
  <2>2. \A j \in Tasks \ {k} : task'[j] = task[j]
    BY <1>0, <1>2 DEF nothingPending, endPollLoop
  <2> QED
    BY <1>0, <2>1, <2>2, IdleStep
<1>3. CASE claimNextPendingMessage(k)
  <2>1. PICK m \in Messages :
          /\ row' = [row EXCEPT ![m] = ClaimedRow(@)]
          /\ task' = [task EXCEPT ![k] = NewTask("lookup", m, row[m].attempts + 1,
                                                 NoConsole, "none")]
          /\ lost' = lost \ {m}
    BY <1>3 DEF claimNextPendingMessage, Pending
  <2>2. task[k].pc = "claim" /\ \A n \in Messages : ~HeldBy(k, n)
    BY <1>0, <1>3, HolderAt DEF claimNextPendingMessage
  <2>3. /\ row'[m].status = "processing" /\ \A n \in Messages \ {m} : row'[n] = row[n]
        /\ task'[k].msg = m /\ task'[k].pc = "lookup"
        /\ \A j \in Tasks \ {k} : task'[j] = task[j]
    BY <1>0, <2>1 DEF ClaimedRow, NewTask, TypeOK
  <2>4. HeldBy(k, m)'
    BY <2>3 DEF HeldBy, ProcessedBy, Holds, WorkPcs
  <2> QED
    BY <1>0, <2>1, <2>2, <2>3, <2>4, HolderStep
<1>4. CASE resolveInboxMessage(k)
  BY <1>0, <1>4, ResolutionHeld
<1>5. CASE \/ handleClaimedMessage(k) \/ failUnconditionally(k) \/ listLiveConsoles(k)
           \/ parkForBinding(k) \/ sendPrompt(k) \/ bindingTimesOut(k)
           \/ resumeAfterBinding(k) \/ bindChosenConsole(k) \/ precheckConsole(k)
           \/ parkForOffer(k) \/ offerTimesOut(k) \/ handlerThrows(k)
           \/ catchHandlerError(k) \/ catchWriteFails(k) \/ answerBinding(k) \/ answerOffer(k)
  <2>1. task[k].pc \notin {"idle", "claim"}
    BY <1>5 DEF handleClaimedMessage, failUnconditionally, listLiveConsoles, parkForBinding,
       sendPrompt, bindingTimesOut, resumeAfterBinding, bindChosenConsole, precheckConsole,
       parkForOffer, offerTimesOut, handlerThrows, catchHandlerError, catchWriteFails,
       answerBinding, answerOffer
  <2>2. PICK m \in Messages : task[k].msg = m
    BY <1>0, <2>1 DEF HoldingInv, TypeInv, TaskShape
  <2> QED
    BY <1>5, <2>2, HandlerHeld
<1> QED
  BY <1>1, <1>2, <1>3, <1>4, <1>5 DEF runPollLoop, recipientAnswers

\* Rows and activities that do not change stay held.
LEMMA SameTasks ==
  ASSUME HoldingInv, task' = task, lost' = lost,
         \A n \in Messages : row'[n] = row[n] \/ row'[n].status \notin Transient
  PROVE  AllHeld'
<1>1. \A n \in Messages, j \in Tasks : HeldBy(j, n) /\ row'[n] = row[n] => HeldBy(j, n)'
  BY DEF HeldBy, ProcessedBy, BindingBy, OfferedBy, ResolvedBy, Holds, BindRequest,
     OfferRequest
<1> QED
  BY <1>1 DEF HoldingInv, AllHeld

LEMMA EnvironmentHeld ==
  ASSUME HoldingInv, Environment
  PROVE  AllHeld'
<1>0. TypeOK /\ row \in [Messages -> Row]
  BY DEF HoldingInv, TypeInv, TypeOK
<1>1. ASSUME NEW m \in Messages, putMessageRecord(m) PROVE AllHeld'
  <2> DEFINE r == ArrivedAt(1 + Cardinality({n \in Messages : row[n].status # "absent"}))
  <2>1. row' = [row EXCEPT ![m] = r] /\ r.status = "pending"
    BY <1>1 DEF putMessageRecord, ArrivedAt
  <2> HIDE DEF r
  <2>2. \A n \in Messages : row'[n] = row[n] \/ row'[n].status \notin Transient
    BY <1>0, <2>1 DEF Transient
  <2> QED
    BY <1>1, <2>2, SameTasks DEF putMessageRecord, history
<1>2. ASSUME NEW c \in Consoles,
             \/ bindIdentityRecord \/ bindRouteRecord(c)
             \/ ConsoleConnects(c) \/ ConsoleDisconnects(c)
      PROVE  AllHeld'
  BY <1>2, SameTasks
  DEF bindIdentityRecord, bindRouteRecord, ConsoleConnects, ConsoleDisconnects, database,
      history
<1>3. CASE bindIdentityRecord
  BY <1>3, SameTasks DEF bindIdentityRecord, database, history
<1>4. ASSUME NEW t \in Taps, NEW m \in Messages, NEW c \in Consoles,
             NEW d \in Decisions \ {"none"}, resolve(t, m, c, d)
      PROVE  AllHeld'
  <2>1. /\ task[t].pc = "idle" /\ row' = row /\ lost' = lost
        /\ \A j \in Tasks \ {t} : task'[j] = task[j]
    BY <1>0, <1>4 DEF resolve, TypeOK
  <2>2. t \in Tasks /\ "idle" \notin HolderPcs
    BY DEF Tasks, HolderPcs, WorkPcs, BindPcs, OfferPcs, ResolvePcs
  <2> QED
    BY <2>1, <2>2, IdleStep
<1> QED
  BY <1>1, <1>2, <1>3, <1>4 DEF Environment

LEMMA HoldingStep == HoldingInv /\ [Next]_vars => HoldingInv'
<1> SUFFICES ASSUME HoldingInv, [Next]_vars PROVE AllHeld'
  BY TypeStep DEF HoldingInv
<1>1. CASE Environment
  BY <1>1, EnvironmentHeld
<1>2. ASSUME NEW l \in Loops, runPollLoop(l) \/ recipientAnswers(l) PROVE AllHeld'
  BY <1>2, PollLoopHeld
<1>3. ASSUME NEW t \in Taps, resolveInboxMessage(t) PROVE AllHeld'
  BY <1>3, ResolutionHeld DEF Tasks
<1>4. CASE retryNoLiveSessionMessages
  <2>1. \A n \in Messages : row'[n] = row[n] \/ row'[n].status = "pending"
    BY <1>4 DEF retryNoLiveSessionMessages, Written, RowWith
  <2> QED
    BY <1>4, <2>1, SameTasks DEF retryNoLiveSessionMessages, history, Transient
<1>5. CASE restart
  <2>1. \A n \in Messages : row'[n] = Reconciled(row[n])
    BY <1>5 DEF restart
  <2>2. \A r : Reconciled(r).status \notin Transient
    <3>1. \A r : Written(r, "failed").status = "failed" /\ Written(r, "pending").status = "pending"
      BY DEF Written, RowWith
    <3> QED
      BY <3>1 DEF Reconciled, Transient
  <2> QED
    BY <2>1, <2>2 DEF AllHeld
<1>6. CASE UNCHANGED vars
  BY <1>6, SameTasks DEF vars
<1> QED
  BY <1>1, <1>2, <1>3, <1>4, <1>5, <1>6 DEF Next

LEMMA HoldingInit == Init => HoldingInv
BY TypeInit DEF Init, HoldingInv, AllHeld, NewRow, Transient

\* Every row in a transient status has an activity that will still write it, or
\* one that ended on a failed prompt or a failed write: whatever loops, taps,
\* retries and restarts interleave, none of them loses another one's row.
THEOREM NoRowStranded == Spec => []NothingStranded
<1>1. Spec => []HoldingInv
  BY HoldingInit, HoldingStep, PTL DEF Spec
<1>2. HoldingInv => NothingStranded
  BY HeldIsNothingStranded DEF HoldingInv
<1> QED
  BY <1>1, <1>2, PTL

-----------------------------------------------------------------------------
(* Settled rows.                                                             *)

\* SettledIsNotRequeued for one step.
StaysOutOfWork ==
  \A m \in Messages : row[m].status \in Settled => row'[m].status \notin InWork

\* One row is written, and goes into work only from a status that is not settled.
LEMMA OneRowWritten ==
  ASSUME NEW m \in Messages, \A n \in Messages \ {m} : row'[n] = row[n],
         row'[m].status \in InWork => row[m].status \notin Settled
  PROVE  StaysOutOfWork
<1>1. Settled \cap InWork = {}
  BY DEF Settled, InWork
<1> QED
  BY <1>1 DEF StaysOutOfWork

LEMMA NoRowWritten == row' = row => StaysOutOfWork
BY DEF StaysOutOfWork, Settled, InWork

LEMMA PollLoopRequeues ==
  ASSUME TypeInv, NEW k \in Loops,
         (runPollLoop(k) /\ ~resolveInboxMessage(k)) \/ recipientAnswers(k)
  PROVE  StaysOutOfWork
<1> DEFINE m == task[k].msg
<1>0. /\ TypeOK /\ row \in [Messages -> Row] /\ k \in Tasks
      /\ task[k].pc \notin {"idle", "claim"} => m \in Messages
  BY DEF TypeInv, TypeOK, TaskShape, Tasks
<1>1. CASE \/ startPollLoop(k) \/ nothingPending(k) \/ handleClaimedMessage(k)
           \/ listLiveConsoles(k) \/ sendPrompt(k) \/ bindChosenConsole(k)
           \/ handlerThrows(k) \/ catchWriteFails(k) \/ answerBinding(k) \/ answerOffer(k)
  BY <1>1, NoRowWritten
  DEF startPollLoop, nothingPending, handleClaimedMessage, listLiveConsoles, sendPrompt,
      bindChosenConsole, handlerThrows, catchWriteFails, answerBinding, answerOffer, database
<1>2. CASE claimNextPendingMessage(k)
  <2>1. PICK n \in Messages : row' = [row EXCEPT ![n] = ClaimedRow(@)] /\ row[n].status = "pending"
    BY <1>2 DEF claimNextPendingMessage, Pending
  <2> QED
    BY <1>0, <2>1, OneRowWritten DEF Settled
<1>3. ASSUME NEW s, m \in Messages, updateMessageStatus(m, s),
             s \in InWork => row[m].status \notin Settled
      PROVE  StaysOutOfWork
  BY <1>0, <1>3, RowWrite, OneRowWritten
<1>4. CASE catchHandlerError(k)
  BY <1>0, <1>3, <1>4, NoRowWritten DEF catchHandlerError, Expects, Settled
<1>5. CASE failUnconditionally(k)
  BY <1>0, <1>3, <1>5 DEF failUnconditionally, InWork
<1>6. CASE parkForBinding(k) \/ parkForOffer(k)
  <2>1. CASE Expects(m, "processing")
    <3>1. PICK s, req : m \in Messages /\ Park(m, s, req)
      BY <1>0, <1>6, <2>1 DEF parkForBinding, parkForOffer
    <3> QED
      BY <1>0, <2>1, <3>1, RowWrite, OneRowWritten DEF Expects, Settled
  <2>2. CASE ~Expects(m, "processing")
    BY <1>6, <2>2, NoRowWritten DEF parkForBinding, parkForOffer
  <2> QED
    BY <2>1, <2>2
<1>7. CASE bindingTimesOut(k) \/ offerTimesOut(k)
  BY <1>0, <1>3, <1>7, NoRowWritten DEF bindingTimesOut, offerTimesOut, InWork
<1>8. CASE resumeAfterBinding(k)
  BY <1>0, <1>3, <1>8, NoRowWritten DEF resumeAfterBinding, ExpectsRequest, Settled
<1>9. CASE precheckConsole(k)
  <2>1. CASE row' = row
    BY <2>1, NoRowWritten
  <2>2. CASE row' # row
    <3>1. m \in Messages /\ giveUpOnConsole(m, task[k].att)
      BY <1>0, <1>9, <2>2 DEF precheckConsole
    <3> QED
      BY <1>0, <3>1, RowWrite, OneRowWritten DEF InWork
  <2> QED
    BY <2>1, <2>2
<1> QED
  BY <1>1, <1>2, <1>4, <1>5, <1>6, <1>7, <1>8, <1>9 DEF runPollLoop, recipientAnswers

LEMMA ResolutionRequeues ==
  ASSUME TypeInv, NEW k \in Tasks, resolveInboxMessage(k)
  PROVE  StaysOutOfWork
<1> DEFINE m == task[k].msg
<1>0. TypeOK /\ (task[k].pc \in {"claimResolution"} \cup ResolvePcs => m \in Messages)
  BY DEF TypeInv, TaskShape, ResolvePcs
<1>1. ASSUME NEW s, m \in Messages, updateMessageStatus(m, s), s \notin InWork
      PROVE  StaysOutOfWork
  BY <1>0, <1>1, RowWrite, OneRowWritten
<1>2. CASE claimMessageResolution(k)
  BY <1>0, <1>1, <1>2, NoRowWritten DEF claimMessageResolution, InWork
<1>3. CASE \/ writeDecision(k) \/ markDelivering(k) \/ markDelivered(k) \/ catchDeliveryError(k)
  BY <1>0, <1>1, <1>3
  DEF writeDecision, markDelivering, markDelivered, catchDeliveryError, InWork, ResolvePcs
<1>4. CASE recheckConsole(k)
  <2>1. CASE row' = row
    BY <2>1, NoRowWritten
  <2>2. CASE row' # row
    <3>1. m \in Messages /\ giveUpOnConsole(m, task[k].att)
      BY <1>0, <1>4, <2>2 DEF recheckConsole, ResolvePcs
    <3> QED
      BY <1>0, <3>1, RowWrite, OneRowWritten DEF InWork
  <2> QED
    BY <2>1, <2>2
<1>5. CASE \/ createInboxDelivery(k) \/ typeText(k) \/ pressEnter(k) \/ consoleNotConnected(k)
           \/ deliveryThrows(k) \/ decisionWriteFails(k)
  BY <1>5, NoRowWritten
  DEF createInboxDelivery, typeText, pressEnter, consoleNotConnected, deliveryThrows,
      decisionWriteFails, database
<1> QED
  BY <1>2, <1>3, <1>4, <1>5 DEF resolveInboxMessage

LEMMA NextRequeues == TypeInv /\ [Next]_vars => [StaysOutOfWork]_vars
<1> SUFFICES ASSUME TypeInv, [Next]_vars PROVE StaysOutOfWork
  OBVIOUS
<1>0. row \in [Messages -> Row]
  BY DEF TypeInv, TypeOK
<1>1. ASSUME NEW m \in Messages, putMessageRecord(m) PROVE StaysOutOfWork
  <2> DEFINE r == ArrivedAt(1 + Cardinality({n \in Messages : row[n].status # "absent"}))
  <2>1. row' = [row EXCEPT ![m] = r] /\ row[m].status = "absent"
    BY <1>1 DEF putMessageRecord, Expects
  <2> HIDE DEF r
  <2> QED
    BY <1>0, <2>1, OneRowWritten DEF Settled
<1>2. CASE Environment /\ row' = row
  BY <1>2, NoRowWritten
<1>3. CASE Environment /\ row' # row
  BY <1>1, <1>3
  DEF Environment, bindIdentityRecord, bindRouteRecord, ConsoleConnects, ConsoleDisconnects,
      resolve, database
<1>4. ASSUME NEW l \in Loops, runPollLoop(l) \/ recipientAnswers(l) PROVE StaysOutOfWork
  BY <1>4, PollLoopRequeues, ResolutionRequeues DEF Tasks
<1>5. ASSUME NEW t \in Taps, resolveInboxMessage(t) PROVE StaysOutOfWork
  BY <1>5, ResolutionRequeues DEF Tasks
<1>6. CASE retryNoLiveSessionMessages
  BY <1>6 DEF retryNoLiveSessionMessages, Retryable, StaysOutOfWork, Settled, InWork
<1>7. CASE restart
  BY <1>7 DEF restart, Reconciled, Written, RowWith, StaysOutOfWork, Settled, InWork
<1>8. CASE UNCHANGED vars
  BY <1>8, NoRowWritten DEF vars
<1> QED
  BY <1>2, <1>3, <1>4, <1>5, <1>6, <1>7, <1>8 DEF Next

\* A rejected, postponed, delivered or failed row is never given back to the
\* worker, whichever stale waiter, catch, sweep or restart runs later.
THEOREM SettledStaysOut == Spec => SettledIsNotRequeued
<1>1. Spec => []TypeInv
  BY TypeInit, TypeStep, PTL DEF Spec
<1>2. [StaysOutOfWork]_vars =>
        [\A m \in Messages : row[m].status \in Settled => row'[m].status \notin InWork]_vars
  BY DEF StaysOutOfWork
<1> QED
  BY <1>1, <1>2, NextRequeues, PTL DEF Spec, SettledIsNotRequeued

=============================================================================
