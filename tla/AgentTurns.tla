------------------------------ MODULE AgentTurns ------------------------------
(***************************************************************************)
(* Coding agents of one console: AgentRuntimeService.startAgent launches   *)
(* the agent's TUI in the terminal beside an app-server of its own, and    *)
(* every Telegram message is a turn of the TUI's thread.  The app-server   *)
(* answers turn/start, then announces the end of the turn; a poll of       *)
(* thread/read recovers an end whose announcement never came.  The server  *)
(* is external: it answers, announces or stays silent as it likes.         *)
(***************************************************************************)
EXTENDS Naturals, FiniteSets

CONSTANTS Starts, Turns,       \* calls of startAgent and of submitMessage
          MaxUpdates,          \* CODEX_PROGRESS_MAX_UPDATES (3)
          EmptyPolls,          \* polls that wait for a text (5)
          FailedPolls,         \* failures after which a text is not awaited (5)
          MaxPollFailures,     \* bound on failing polls
          MaxCalls,            \* bound on startAgent and submitMessage together
          NoStart, NoTurn

ASSUME AgentTurnsAssumption ==
  /\ NoStart \notin Starts /\ NoTurn \notin Turns
  /\ MaxUpdates \in Nat /\ EmptyPolls \in Nat /\ FailedPolls \in Nat \ {0}
  /\ MaxPollFailures \in Nat /\ MaxCalls \in Nat

VARIABLES
  starting,     \* how far a call of startAgent has come
  current,      \* runningBySessionId: whose record the console has
  appClient,    \* the app-server client of a start
  busy,         \* turnInProgress of its record
  activeTurn,   \* activeTurnId of its record
  turn,         \* client's side of a turn
  poll,         \* its poll: timer, request under way, the two counters
  progress,     \* its progress relay: "idle", "timer", "stopped", and count
  served,       \* what the app-server makes of it
  reported,     \* what the human was told
  pollFailures

agentTurnsVars == <<starting, current, appClient, busy, activeTurn, turn, poll,
                    progress, served, reported, pollFailures>>

Ends == {"completed", "interrupted", "failed"}

AgentTurnsTypeOK ==
  /\ starting \in [Starts -> {"none", "preparing", "waiting", "started", "failed"}]
  /\ current \in Starts \cup {NoStart}
  /\ appClient \in [Starts -> {"none", "open", "closed"}]
  /\ \A s \in Starts : starting[s] = "failed" => appClient[s] # "open" /\ current # s
  /\ busy \in [Starts -> BOOLEAN]
  /\ activeTurn \in [Starts -> Turns \cup {NoTurn}]
  /\ turn \in [Turns -> [of : Starts \cup {NoStart}, ended : BOOLEAN,
                         phase : {"none", "sent", "pending", "settled"},
                         returned : BOOLEAN]]
  /\ poll \in [Turns -> [timer : BOOLEAN, inFlight : BOOLEAN,
                         failures : 0..FailedPolls, empty : 0..EmptyPolls]]
  /\ progress \in [Turns -> [relay : {"idle", "timer", "stopped"}, sent : 0..MaxUpdates]]
  /\ served \in [Turns -> {"none", "running"} \cup Ends]
  /\ reported \in [Turns -> {"none", "refused"} \cup Ends]
  /\ pollFailures \in 0..MaxPollFailures

AgentTurnsInit ==
  /\ starting = [s \in Starts |-> "none"]
  /\ current = NoStart
  /\ appClient = [s \in Starts |-> "none"]
  /\ busy = [s \in Starts |-> FALSE]
  /\ activeTurn = [s \in Starts |-> NoTurn]
  /\ turn = [t \in Turns |-> [of |-> NoStart, ended |-> FALSE,
                              phase |-> "none", returned |-> FALSE]]
  /\ poll = [t \in Turns |-> [timer |-> FALSE, inFlight |-> FALSE,
                              failures |-> 0, empty |-> 0]]
  /\ progress = [t \in Turns |-> [relay |-> "idle", sent |-> 0]]
  /\ served = [t \in Turns |-> "none"]
  /\ reported = [t \in Turns |-> "none"]
  /\ pollFailures = 0

Open(t) == turn[t].of # NoStart /\ appClient[turn[t].of] = "open"
Pending(t) == turn[t].phase = "pending"
CallsMade == Cardinality({s \in Starts : starting[s] # "none"})
           + Cardinality({t \in Turns : turn[t].phase # "none"})
Unfinished(s) == {t \in Turns : turn[t].of = s /\ turn[t].phase \in {"sent", "pending"}}

\* submitTurn's answer has been handled, submitMessage has not yet resumed: a
\* promise chain, which only further frames of the same chunk can precede.
Resuming == \E t \in Turns : turn[t].phase \in {"pending", "settled"} /\ ~turn[t].returned

-----------------------------------------------------------------------------
(***************************************************************************)
(* Ends of turns.                                                          *)
(***************************************************************************)

\* handleDisconnect and close: every request is rejected, every pending turn
\* gets its onError; the callbacks look at the record the console has.
RejectAll(s, record) ==
  LET lost == Unfinished(s)
      unanswered == {t \in lost : turn[t].phase = "sent"}
  IN /\ appClient' = [appClient EXCEPT ![s] = "closed"]
     /\ turn' = [t \in Turns |-> IF t \in lost
                   THEN [turn[t] EXCEPT !.phase = "settled",
                                        !.returned = @ \/ t \in unanswered]
                   ELSE turn[t]]
     /\ reported' = [t \in Turns |-> CASE t \in unanswered -> "refused"
                                       [] t \in lost \ unanswered -> "failed"
                                       [] OTHER -> reported[t]]
     /\ poll' = [t \in Turns |-> IF t \in lost
                   THEN [poll[t] EXCEPT !.timer = FALSE, !.inFlight = FALSE] ELSE poll[t]]
     /\ progress' = [t \in Turns |-> IF turn[t].of = s
                       THEN [progress[t] EXCEPT !.relay = "stopped"] ELSE progress[t]]
     /\ LET over == unanswered # {} \/ (record = s /\ lost # {})
        IN /\ busy' = [busy EXCEPT ![s] = @ /\ ~over]
           /\ activeTurn' = [activeTurn EXCEPT ![s] = IF over THEN NoTurn ELSE @]
     /\ UNCHANGED <<served, pollFailures>>

\* settleTurn, with the callback of submitMessage that it calls.
settleTurn_relayRuns(t, end) ==
  LET s == turn[t].of
  IN /\ turn' = [turn EXCEPT ![t].phase = "settled"]
     /\ poll' = [poll EXCEPT ![t].timer = FALSE, ![t].inFlight = FALSE]
     /\ progress' = progress
     /\ reported' = [reported EXCEPT ![t] = end]
     /\ IF current = s
        THEN /\ busy' = [busy EXCEPT ![s] = FALSE]
             /\ activeTurn' = [activeTurn EXCEPT ![s] = NoTurn]
        ELSE UNCHANGED <<busy, activeTurn>>

settleTurn(t, end) ==
  LET s == turn[t].of
  IN /\ turn' = [turn EXCEPT ![t].phase = "settled"]
     /\ poll' = [poll EXCEPT ![t].timer = FALSE, ![t].inFlight = FALSE]
     /\ progress' = [progress EXCEPT ![t].relay = "stopped"]
     /\ reported' = [reported EXCEPT ![t] = end]
     /\ IF current = s
        THEN /\ busy' = [busy EXCEPT ![s] = FALSE]
             /\ activeTurn' = [activeTurn EXCEPT ![s] = NoTurn]
        ELSE UNCHANGED <<busy, activeTurn>>

-----------------------------------------------------------------------------
(***************************************************************************)
(* Starting and ending an agent.                                           *)
(***************************************************************************)

turnState == <<busy, activeTurn, turn, poll, progress, served, reported, pollFailures>>

\* startAgent, up to its first await.
startAgent(s) ==
  /\ starting[s] = "none" /\ current = NoStart /\ CallsMade < MaxCalls
  /\ starting' = [starting EXCEPT ![s] = "preparing"]
  /\ UNCHANGED <<current, appClient, turnState>>

\* startAppServer resolves: the record replaces whatever the console has.
appServerReady(s) ==
  /\ starting[s] = "preparing"
  /\ starting' = [starting EXCEPT ![s] = "waiting"]
  /\ appClient' = [appClient EXCEPT ![s] = "open"]
  /\ current' = s
  /\ UNCHANGED turnState

\* The session, its terminal or its app-server is not to be had.
notReady(s) ==
  /\ starting[s] = "preparing"
  /\ starting' = [starting EXCEPT ![s] = "failed"]
  /\ UNCHANGED <<current, appClient, turnState>>

\* thread/started names the TUI's thread: the record gets its appServer.
threadStarted(s) ==
  /\ starting[s] = "waiting" /\ appClient[s] = "open" /\ current = s
  /\ starting' = [starting EXCEPT ![s] = "started"]
  /\ UNCHANGED <<current, appClient, turnState>>

startFails_keepsBackend(s) ==
  /\ starting[s] = "waiting"
  /\ starting' = [starting EXCEPT ![s] = "failed"]
  /\ current' = NoStart
  /\ UNCHANGED <<appClient, turnState>>

\* startAgent's catch: the line was not sent, no thread came, the connection
\* broke or the console has another record by now.
startFails(s) ==
  /\ starting[s] = "waiting"
  /\ starting' = [starting EXCEPT ![s] = "failed"]
  /\ current' = NoStart
  /\ RejectAll(s, NoStart)

\* finish and stopTracking: the TUI's exit is seen, or the service stops.
finish(s) ==
  /\ current = s
  /\ current' = NoStart
  /\ RejectAll(s, NoStart)
  /\ UNCHANGED starting

\* The app-server's socket breaks under the client.
handleDisconnect(s) ==
  /\ appClient[s] = "open"
  /\ RejectAll(s, current)
  /\ UNCHANGED <<starting, current>>

-----------------------------------------------------------------------------
(***************************************************************************)
(* Turns.                                                                  *)
(***************************************************************************)

unmoved == <<starting, current, appClient, pollFailures>>

\* submitMessage, up to turn/start; at once refused on a closed connection.
submitMessage(t) ==
  /\ turn[t].phase = "none" /\ CallsMade < MaxCalls
  /\ current # NoStart /\ starting[current] = "started" /\ ~busy[current]
  /\ LET ok == appClient[current] = "open"
     IN /\ turn' = [turn EXCEPT ![t].of = current, ![t].returned = ~ok,
                                ![t].phase = IF ok THEN "sent" ELSE "settled"]
        /\ busy' = [busy EXCEPT ![current] = ok]
        /\ reported' = IF ok THEN reported ELSE [reported EXCEPT ![t] = "refused"]
        /\ progress' = IF ok THEN progress ELSE [progress EXCEPT ![t].relay = "stopped"]
  /\ UNCHANGED <<unmoved, activeTurn, poll, served>>

\* The server starts the turn, and some time ends it.
serverStarts(t) ==
  /\ turn[t].phase = "sent" /\ served[t] = "none"
  /\ served' = [served EXCEPT ![t] = "running"]
  /\ UNCHANGED <<unmoved, busy, activeTurn, turn, poll, progress, reported>>

serverEnds(t, end) ==
  /\ served[t] = "running"
  /\ served' = [served EXCEPT ![t] = end]
  /\ UNCHANGED <<unmoved, busy, activeTurn, turn, poll, progress, reported>>

\* turn/start is answered with the turn's id, which is polled from then on.
turnStarted(t) ==
  /\ turn[t].phase = "sent" /\ served[t] # "none" /\ Open(t)
  /\ turn' = [turn EXCEPT ![t].phase = "pending"]
  /\ poll' = [poll EXCEPT ![t].timer = TRUE]
  /\ UNCHANGED <<unmoved, busy, activeTurn, progress, served, reported>>

\* turn/start is answered with an error, or not within ten seconds.
turnStartFails_staysBusy(t) ==
  /\ turn[t].phase = "sent"
  /\ turn' = [turn EXCEPT ![t].phase = "settled", ![t].returned = TRUE]
  /\ progress' = [progress EXCEPT ![t].relay = "stopped"]
  /\ reported' = [reported EXCEPT ![t] = "refused"]
  /\ UNCHANGED <<unmoved, busy, activeTurn, poll, served>>

turnStartFails(t) ==
  /\ turn[t].phase = "sent"
  /\ turn' = [turn EXCEPT ![t].phase = "settled", ![t].returned = TRUE]
  /\ progress' = [progress EXCEPT ![t].relay = "stopped"]
  /\ reported' = [reported EXCEPT ![t] = "refused"]
  /\ busy' = [busy EXCEPT ![turn[t].of] = FALSE]
  /\ UNCHANGED <<unmoved, activeTurn, poll, served>>

\* submitMessage resumes; the turn may be over already.
submissionReturns_unasked(t) ==
  /\ turn[t].phase \in {"pending", "settled"} /\ ~turn[t].returned
  /\ turn' = [turn EXCEPT ![t].returned = TRUE]
  /\ activeTurn' = [activeTurn EXCEPT ![turn[t].of] = t]
  /\ UNCHANGED <<unmoved, busy, poll, progress, served, reported>>

submissionReturns(t) ==
  /\ turn[t].phase \in {"pending", "settled"} /\ ~turn[t].returned
  /\ turn' = [turn EXCEPT ![t].returned = TRUE]
  /\ activeTurn' = IF busy[turn[t].of] THEN [activeTurn EXCEPT ![turn[t].of] = t] ELSE activeTurn
  /\ UNCHANGED <<unmoved, busy, poll, progress, served, reported>>

\* turn/interrupt for the active turn; the server may be done with it.
stopTurn(s) ==
  /\ current = s /\ busy[s] /\ activeTurn[s] # NoTurn /\ appClient[s] = "open"
  /\ served[activeTurn[s]] = "running"
  /\ served' = [served EXCEPT ![activeTurn[s]] = "interrupted"]
  /\ UNCHANGED <<unmoved, busy, activeTurn, turn, poll, progress, reported>>

-----------------------------------------------------------------------------
(***************************************************************************)
(* What the server sends.                                                  *)
(***************************************************************************)

\* item/started and the others that the progress relay takes.
onProgress(t) ==
  /\ Open(t) /\ Pending(t) /\ progress[t].relay = "idle" /\ progress[t].sent < MaxUpdates
  /\ progress' = [progress EXCEPT ![t].relay = "timer"]
  /\ UNCHANGED <<unmoved, busy, activeTurn, turn, poll, served, reported>>

\* The relay's timer.
progressTimer(t) ==
  /\ progress[t].relay = "timer"
  /\ progress' = IF current = turn[t].of /\ busy[current]
                 THEN [progress EXCEPT ![t].relay = "idle", ![t].sent = @ + 1]
                 ELSE [progress EXCEPT ![t].relay = "stopped"]
  /\ UNCHANGED <<unmoved, busy, activeTurn, turn, poll, served, reported>>

\* turn/completed, when the text is known from it or from the item events, or
\* is not: a completed turn without any is polled for it at once.
turnCompleted(t, text) ==
  /\ Open(t) /\ Pending(t) /\ served[t] \in Ends
  /\ IF served[t] = "completed" /\ ~text
     THEN /\ turn' = [turn EXCEPT ![t].ended = TRUE]
          /\ poll' = [poll EXCEPT ![t].timer = TRUE]
          /\ UNCHANGED <<busy, activeTurn, progress, reported>>
     ELSE settleTurn(t, served[t])
  /\ UNCHANGED <<unmoved, served>>

-----------------------------------------------------------------------------
(***************************************************************************)
(* The poll.                                                               *)
(***************************************************************************)

\* The timer of scheduleTurnPoll: thread/read, unless one is under way.
pollTurn(t) ==
  /\ Pending(t) /\ poll[t].timer /\ Open(t)
  /\ poll' = [poll EXCEPT ![t].timer = FALSE, ![t].inFlight = TRUE]
  /\ UNCHANGED <<unmoved, busy, activeTurn, turn, progress, served, reported>>

\* The answer: no end yet, an end still without text, or an end.
pollAnswered_once(t, seen, text) ==
  /\ Pending(t) /\ poll[t].inFlight /\ Open(t) /\ seen \in {"running", served[t]}
  /\ IF seen = "running"
     THEN /\ poll' = [poll EXCEPT ![t].inFlight = FALSE, ![t].failures = 0]
          /\ UNCHANGED <<busy, activeTurn, turn, progress, reported>>
     ELSE settleTurn(t, seen)
  /\ UNCHANGED <<unmoved, served>>

pollAnswered(t, seen, text) ==
  /\ Pending(t) /\ poll[t].inFlight /\ Open(t) /\ seen \in {"running", served[t]}
  /\ LET again == [poll EXCEPT ![t].inFlight = FALSE, ![t].timer = TRUE, ![t].failures = 0]
     IN CASE seen = "running" ->
               /\ poll' = again
               /\ UNCHANGED <<busy, activeTurn, turn, progress, reported>>
          [] seen = "completed" /\ ~text /\ poll[t].empty < EmptyPolls ->
               /\ poll' = [again EXCEPT ![t].empty = @ + 1]
               /\ UNCHANGED <<busy, activeTurn, turn, progress, reported>>
          [] OTHER -> settleTurn(t, seen)
  /\ UNCHANGED <<unmoved, served>>

\* thread/read fails or is not answered within ten seconds.
pollFails(t) ==
  /\ Pending(t) /\ poll[t].inFlight /\ pollFailures < MaxPollFailures
  /\ pollFailures' = pollFailures + 1
  /\ LET failures == poll[t].failures + 1
     IN IF turn[t].ended /\ failures >= FailedPolls
        THEN settleTurn(t, "completed")
        ELSE /\ poll' = [poll EXCEPT ![t].inFlight = FALSE, ![t].timer = TRUE,
                                     ![t].failures = IF failures < FailedPolls
                                                     THEN failures ELSE FailedPolls]
             /\ UNCHANGED <<busy, activeTurn, turn, progress, reported>>
  /\ UNCHANGED <<starting, current, appClient, served>>

-----------------------------------------------------------------------------
AgentTurnsNext ==
  \/ \E t \in Turns : submissionReturns(t) \/ (\E text \in BOOLEAN : turnCompleted(t, text))
  \/ /\ ~Resuming
     /\ \/ \E s \in Starts :
             \/ startAgent(s) \/ appServerReady(s) \/ notReady(s) \/ threadStarted(s)
             \/ startFails(s) \/ finish(s) \/ handleDisconnect(s) \/ stopTurn(s)
        \/ \E t \in Turns :
             \/ submitMessage(t) \/ serverStarts(t) \/ turnStarted(t) \/ turnStartFails(t)
             \/ onProgress(t) \/ progressTimer(t) \/ pollTurn(t) \/ pollFails(t)
             \/ \E end \in Ends : serverEnds(t, end)
             \/ \E seen \in {"running"} \cup Ends, text \in BOOLEAN : pollAnswered(t, seen, text)

\* Timers fire, and turn/start has one.  All but MaxPollFailures polls are
\* answered, and of those not all while the turn still runs.
AgentTurnsSpec ==
  /\ AgentTurnsInit /\ [][AgentTurnsNext]_agentTurnsVars
  /\ \A t \in Turns : /\ WF_agentTurnsVars(submissionReturns(t))
                      /\ WF_agentTurnsVars(~Resuming /\ turnStartFails(t))
                      /\ WF_agentTurnsVars(~Resuming /\ pollTurn(t))
                      /\ SF_agentTurnsVars(~Resuming /\ \E end \in Ends, text \in BOOLEAN :
                                               pollAnswered(t, end, text))

-----------------------------------------------------------------------------
(***************************************************************************)
(* Properties.                                                             *)
(***************************************************************************)

\* The record a console has is busy exactly while one turn of it is between
\* its submission and its end: no end, refusal, disconnect or timeout leaves
\* the console refusing every message (agentRuntimeService.ts:908), and no
\* second turn of the same record is submitted beside a first.  The turn that
\* stopTurn would interrupt is one that is pending, also when it ended before
\* its submission returned (996).
BusyHasTurn ==
  \A s \in Starts : current = s =>
    /\ busy[s] <=> Unfinished(s) # {}
    /\ Cardinality(Unfinished(s)) <= 1
    /\ activeTurn[s] # NoTurn =>
         busy[s] /\ Pending(activeTurn[s]) /\ turn[activeTurn[s]].of = s

\* No progress is reported of a turn whose end has been.
ProgressEndsWithTurn ==
  [][\A t \in Turns : progress'[t].sent # progress[t].sent => reported[t] = "none"]_agentTurnsVars

\* A message that was taken is answered for: refused to its sender, or its
\* turn's end is reported once the server has ended it, announced or not.
EndedTurnIsReported ==
  \A t \in Turns : served[t] \in Ends /\ turn[t].phase # "none" ~> reported[t] # "none"
=============================================================================
