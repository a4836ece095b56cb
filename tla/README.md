# TellyMCP in TLA+

Models, model-checking runs and proofs for `@deadragdoll/tellymcp`, the Telegram
control plane for MCP-connected coding agents. Paths are relative to
`src/src/services/features/telegram-mcp/` unless they start with `src/`.

## 1. The system

One *gateway* process owns the Telegram bot, the PostgreSQL database and the
WebSocket server. Any number of *client* processes, one per agent console or a few,
connect to it. Every process is one Node.js event loop: a handler runs alone between
two `await`s, and everything else may happen at an `await`.

| Component | State | Operations | What is hard | What makes it correct | Module |
|---|---|---|---|---|---|
| External inbox (`external-inbox.service.ts`, `inbox-worker.service.ts`) | rows of `inbox_messages`, bindings of identity and route, in-memory poll timer | put, claim, park, prompt, decide, type, retry, reconcile | two runs of the poll loop, a menu beside a prompt, failed calls, restarts | no row is stranded, nothing is typed unapproved or into another console, a settled row stays out, every message is served | `Inbox` |
| Partner note deliveries (`gateway.service.ts`, `gateway-socket.service.ts`, `gateway-delivery.service.ts`) | rows of `gateway_deliveries`, `connectedClients`, the client's socket, its xchange records | send, announce, hello and poll, materialize, ack, fail | lost and duplicated copies, reports on another socket, half-open sockets, restarts | the row tells what became of a copy, no wake-up is lost, a queued note is settled | `Deliveries` |
| Live consoles (`syncLiveConsolesRecord`, `removeLiveConsolesRecord`) | rows of `gateway_live_consoles` | hello, close, prune | hello and close of one or two sockets at once | a listed console has a connection, a connected one is listed | `LiveConsoles` |
| Projects (`gateway.service.ts`) | projects, members, sessions, consoles of a project | create, join, register, leave, delete | requests that interleave between statements, failed statements and their compensation | a console in the project belongs to a member, a joinable project has one | `Projects` |
| Request relays (`requestLiveRelay`, `requestClientAction`, `openLiveRelayStream`, `publishAgentNotification`) | maps of pending requests, stream handlers, timers, the client's routes | call, subscribe, notify, answer, time out, shut down | late and foreign answers, half-open sockets, viewers that leave | each caller is told once and truly, routes lead to peers that are there | `Relays` |
| Message broker (`gateway-rmq.service.ts`) | connection, channel, consumer, reconnect timer | connect, publish, consume, ack, requeue | overlapping attempts to connect, failing dispatches | it never stops trying, nothing is acknowledged undispatched | `Broker` |
| OAuth facade (`app/oauthFacade.ts`) | codes, logins, refresh tokens, failed attempts | form, login, approve, exchange, rotate | the same grant shown twice at once, failures half-way, restarts | a grant is spent once, a token not shown stays good | `OAuth` |
| Human requests (`processes/human-approval`, `transportRequestFlow.ts`) | queue, active request, waiters on both sides | ask, tap, reply, time out, proxy | an answer racing a timeout, failed stores, dropped sockets | an answer that is recorded is heard, every request ends | `HumanRequests` |
| Agent runtime (`agent-runtime`) | one record per console, app-server client, turns | start, submit, interrupt, poll, disconnect | starts that overlap, ends that are not announced or come early | busy exactly while a turn is, each end reported | `AgentTurns` |
| File links (`temporaryFileLinkStore.ts`) | tickets, records, a cache by file, files on disk | get, upload, link, download, expire, discard | calls for one file share a cache key | a link serves its file until its time is over | `FileLinks` |
| Browser automation (`browserService.ts`) | one launch, one context per session, the attachment | open, close, reset, attach, detach, some twenty tools | calls overlap at every `await` | the entry names an open context, a detach holds | `BrowserTools` |
| Browser recordings (`browserAttachServer.ts`) | recordings in memory, one stored record | start, stop, event, throttled write, disconnect | five writers of one record | stopped stays stopped, a stop ends it | `BrowserRecordings` |
| Browser attach (`browserAttachServer.ts`, `chrome-attach-extension/src/background.js`) | sockets on both ends, registry | connect, hello, replace, reap, close, switch | overlapping connects, replaced and dead sockets | the newest socket is listed, an enabled extension gets attached | `BrowserAttach` |
| Stores, terminals, menus, HTTP, CLI and the rest | see `components` of PROJECT.json, with the reason | | | | none |

Interaction: the inbox worker calls the gateway service (create a delivery record)
and the gateway socket service (relay text to a console), and asks the human through
the Telegram transport; a partner note passes from the HTTP service through the
gateway service to the broker, which calls the socket service back; a client answers
on its socket. A human's answer passes from the bot through a waiter at the gateway and
the client's socket to the orchestrator that asked. Calls between services go through Moleculer's `broker.call` and are
`await`s, so each is a point where others run and a call that can fail.

## 2. Modules

| Module | What it is | Proofs | Run through |
|---|---|---|---|
| `Inbox` | table, poll loops, menu, sweep, restarts | `InboxProofs` | `MCGatewayTables`, `MCInbox` |
| `DeliveryContract` | what the gateway promises about a note, in three actions | | as `KeepsContract` |
| `Deliveries` | the transport of a note, which implements the contract | `DeliveriesProofs` | `MCDeliveries`, `MCConnections` |
| `LiveConsoles` | the live presence table under hellos and closes | `LiveConsolesProofs` | `MCLiveConsoles` |
| `Projects` | a project's rows under overlapping requests | `ProjectsProofs` | `MCGatewayTables` |
| `Relays` | calls, live streams and notifications over a client's sockets | `GatewayServicesProofs` | `MCGatewayServices` |
| `OAuth` | grants and tokens | `GatewayServicesProofs` | `MCGatewayServices` |
| `FileLinks` | file links that share a cache key | `GatewayServicesProofs` | `MCGatewayServices` |
| `Broker` | the link to RabbitMQ | `ConsoleServicesProofs` | `MCConsoleServices` |
| `HumanRequests` | questions to a human, local and proxied | `ConsoleServicesProofs` | `MCConsoleServices` |
| `AgentTurns` | turns of a coding agent | `ConsoleServicesProofs` | `MCConsoleServices` |
| `BrowserTools` | tools on Playwright's page and on an attached tab | `BrowserProofs` | `MCBrowser` |
| `BrowserRecordings` | the one record of a session's recording | `BrowserProofs` | `MCBrowser` |
| `BrowserAttach` | an extension's connection to the console | `ConnectionsProofs` | `MCConnections` |

The modules `MC*` give the values of constants and symmetry. `MCGatewayTables`,
`MCGatewayServices`, `MCConsoleServices`, `MCBrowser` and `MCConnections` each hold two or
three components that share no state: a variable `service` picks one at the start, the
others keep their initial states, and fairness is stated for the steps of the chosen one.
TLC then explores the sum of the state spaces and not their product, and each component's
properties are those of its own specification. The types of these components are one
conjunction, `ServicesTypeOK`, `BrowserTypeOK` or `ConnectionsTypeOK`. Their proofs are in one
module too, which ends with the types of the composed specification: a step of it is a step
of one component and leaves the others alone.

Everywhere a module's action is the code from one `await` to the next, and its variables
bear the code's names where it has one.

### Inbox

`row` is the table, `binding` the route's console, `delivery` the console that a
message's gateway record names, `live` the connected consoles, `task` the activities that hold a message: the runs of the poll
loop (`Loops`) and the decisions taken in the Telegram menu (`Taps`). A task's `pc`
names the `await` it is suspended at, `msg` the message, and the rest what the code
keeps in locals over that `await`. One action is the code from one `await` to the
next. `timer` is `pollTimer`, which `schedulePollSoon` sets and `runPollLoop` clears
as it starts: that is why two runs can overlap while the first waits for a human.
`offer` and `binding` prompts are one `sendRichRequest`; a task waits for an answer, a
timeout or an error. Claims are `UPDATE ... WHERE` statements and hence single steps.

Left out, with the reason:

- one recipient and one route; identities are bound once and not rebound;
- `pruneGatewayStateRecord` wipes the tables and is not modelled, so the early return
  of a missing binding after its write is unreachable and omitted;
- an error of the database is the steps `handlerThrows`, `decisionWriteFails`,
  `catchWriteFails`; a claim that throws ends the run and changes no row;
- a stray second timer and the first are one; a reconnect of LISTEN is lost
  notifications; `stopped()` is a restart that happens to be announced;
- listings and counts, which only read.

History variables: `saidYes` (the recipient pressed Approve), `typed` (the consoles a
message's text was typed into) and `lost` (messages whose holder ended without writing
the row). No guard reads them.

### Deliveries

One client with one console. `near`, `registered` and `greeting` are the gateway's side
of each socket (`connectedClients`, and the hello handlers suspended before
`pollDeliveries`); `far`, `wsClient` and `snapshot` the client's; `copies` the delivery
events in flight, `upstream` the client's messages in order. Copies are not ordered: a
handler that materializes one suspends, so their effects are not ordered either.
`updating` holds ack and fail handlers before their `UPDATE`, `writing` the
materializations that have found the session and not yet stored the record.

Stated abstractions:

- losing a connection empties both directions at once, though the two ends notice it
  later and separately (`gatewayCloses`, `clientCloses`): what was sent just before the
  loss may or may not have been consumed, which is the order of the two steps;
- the gateway sends no heartbeat, so nothing forces `gatewayCloses`; a half-open socket
  can stay first in `connectedClients`;
- a broker is a number of notifications still owed, 0 to 2 for each note; zero is a
  publish that throws, two a redelivery or a publish that returned false though the
  message was buffered;
- the hello and the snapshot are taken in one step; two hellos collected concurrently
  are ordered by the socket, and the next refresh repairs a stale one;
- the console is listed when its session is in the client's store (client mode; in mode
  "both" it must also have a binding);
- a hello refused for its version, the loopback to a console of the gateway's own
  process and the sender's status messages are not modelled (section 6);
- the inserts of a note are one step (see `hazards`).

History: `outcomes` is how the copies handled so far ended, `missed` the notes that an
error, the poll's limit or a half-open socket hid from the client until the next poll.
No guard reads them. `missed` is what the code really loses; `NothingForgotten` says it
loses nothing else.

### LiveConsoles

`gateway_live_consoles` (`row`) as the statements of one client's handlers write it. Each
statement is awaited, so each is a step: `deleteOwn`, then `lookUp` and `updateRow` or
`insertRow` for each console of the hello (`sync[h]` holds the handler's locals), and one
`removeLiveConsoles` for each socket that closes after a hello. A row keeps the uuid of
its insertion, because the update names the uuid and not the console. A connection id is
new for every socket and stands for it; all statements name the client or the connection,
so clients do not meet. `connectedClients` is the gateway's map from a socket to its last
hello; hellos of several sockets may arrive in any order.

History: `collided` tells whether two hellos, or a hello and a close, ran at once;
`spoiled`, whether a statement failed or the tables were wiped. A restart resets both,
because the table is cleared at the start. No guard reads them.

This table is `live` of `Inbox`, which lets consoles come and go at any time, and so
covers the rows that the races above lose or leave.

### Projects

One project; a request is a record of the locals of its handler (`request[s]`: its kind,
the client and console, the statement `at` which it is suspended, and what it has found).
Only the creation of the project and of its owner's membership is a transaction. What
fails between `try` and `catch` goes to `undo`, which is the catch of the creation or join
that the registration belongs to. The constraints of `ensuredb.service.ts` decide what an
insertion can meet: a primary key on members, unique sessions and consoles, and foreign
keys that delete members and consoles with their project. A slot is free again when its
request returns, so that a behaviour has more requests than slots.

History: `overlapped` and `abandoned` are the clients whose own requests overlapped or
whose leave failed halfway, `mixed` tells whether a leave met a join or a creation,
`rolledBack` whether a join has taken its membership back. They are the exceptions of
`ConsolesBelongToMembers` and `ProjectFollowsMembers`, found with TLC, each a way in which
the code does leave the tables apart: a registration that overlaps its own client's leave
inserts an active console of somebody who has left; a member who joins between the leave's
look at the others and its write belongs to a project that nobody can join any more.

### Relays

One client, one console and its successive sockets. `promise` is what each caller has been
told, `near` and `far` the two ends of a socket, `down` and `up` what is in flight,
`working` the client's handlers and where they are. `connectedClients` keeps the Map's
order because `findConnectedSocketForSession` takes the first socket that lists the
console; `connectedClientsByUuid` is the other route, and `Successor` is what a closing
socket leaves it to. `viewer` is the Mini App behind a stream (`http.ts`). `cut` are the
streams that one closing socket takes from all of a client's viewers.

### Broker

`attempt[a]` is a call of `connectRmq` and the connection it opened: connecting, opening a
channel, setting up, connected, broken, closed. Nothing keeps two from overlapping, and an
event of any of them resets `channel` and sets the timer. `message` is the durable queue's
view of a message and `holder` the consumer that has it; a consumer whose connection the
service has forgotten still gets messages. `dispatchMessage` succeeds or fails.

### OAuth

Time passes in units of a code's lifetime; requests, callbacks and exchanges are named, and
a code or a token goes by the request that was given it. Contents of tokens, PKCE and
redirect URIs are whether a request has what it must. Codes live in the process and refresh
tokens in Redis, which is why a restart forgets the first and keeps the second.

### HumanRequests

`proxied` and `mode` are chosen at the start: the asker runs the bot itself or is a client
behind a gateway; requests queue or are rejected while one is active. `asked` is how far a
request has come, `waiter` and `gatewayWaiters` the two ends' waiters, `tap` an update from
the human and where its handling is. `LocalAnswerIsHeard` is `RecordedIsHeard` for local
askers: for a proxied one the code does not keep it, as the gateway ignores whether the
forwarding reached anybody, deletes its waiter and tells the human that the answer is
recorded (`transportRequestFlow.ts:298-316`).

### AgentTurns

`starting` is a call of `startAgent`; two may overlap, and the record in `current` is that
of the last to set it. The app-server is external: it starts turns, ends them, announces
the end or not, with a text or without. `poll` keeps the two counters that decide when an
unannounced end is reported. A promise continuation that is due (`Resuming`) runs before
any other event, as in Node.

### FileLinks

Calls of `get` for one file, of every kind of answer (a link, an image, bytes), so that
they share a cache key. A record's ticket, upload and file go by the call that made it.
`removing` is a `deleteRecord` suspended while it removes files; expiry may come at any
moment.

### BrowserTools, BrowserRecordings, BrowserAttach

`BrowserTools`: each tool is its own action that joins a shared shape, either an action on
the attached tab, which awaits the extension and writes back the attachment it read
(`runAttachedTabAction`), or on the page of the session's context. Contexts are named by
the call that made them and `sessionState` is the entry of the session. What the tools do
in a page is external.

`BrowserRecordings`: what the server holds (`active`, `status`, `persisting`) beside the
store's one record and the extension's two maps. The fields of a recording are left out but
for its status.

`BrowserAttach`: the extension has one variable for its socket, which a close event of any
socket clears. Timing enters twice, where a timer is far longer than what it waits for: the
3 s reconnect timer outlasts the awaits of `connect()` and a local server's answer
(`NoneConnects`), and the 45 s reaper outlasts everything that is under way (`Quiet`).
The extension's storage answers reads in order.
Sockets have finitely many names, which are used again; `EnabledAttaches` excepts
behaviours in which forgotten open sockets hold all of them.

## 3. Properties and runs

| Run | Instance | Shows |
|---|---|---|
| `gateway_tables` | inbox: 1 message, 2 consoles, 2 overlapping loops, 1 menu decision, a restart, every call may fail; a project: 2 clients with 2 consoles each, 4 requests, 1 failed statement | `TypedWhereQueued`, `NothingStranded`, `ApprovedBeforeTyped`, `SettledIsNotRequeued`, `ConsolesBelongToMembers`, `ProjectFollowsMembers` |
| `inbox_live` | 2 messages, 1 loop, lost notifications, silent recipients, a restart | `PendingIsServed`, `WorkEnds` |
| `inbox_never_asked_again` | 1 message, 1 console, 2 loops, 1 menu decision | a recipient who approved is asked again (finding) |
| `inbox_terminal_outcomes` | 1 message, 1 console, 2 loops, 1 menu decision | a menu decision is overwritten (finding) |
| `deliveries_safety` | 1 note, 2 sockets, a console that comes or goes | `NothingForgotten`, `KeepsContract` (refinement) |
| `connections_live` | 1 note, 2 sockets; an extension with 2 sockets, its switch and a fault | `QueuedIsSettled`, `NewestIsListed`, `EnabledAttaches` |
| `live_consoles` | 2 consoles, 2 sockets, 3 hellos, failing statements, restarts | `SerialSyncsAreExact` |
| `live_consoles_routable` | 1 console, 2 sockets, 2 hellos | a reconnect loses a running console (finding) |
| `gateway_services` | relays: a call, a stream, a notice, 2 sockets; OAuth: a form, 2 callbacks, 2 exchanges, a restart; links: 2 calls, 2 downloads | `AnswersAreTrue`, `RoutesMatchPeers`, `ClosedStreamIsReleased`, `ToldOnce`, `EveryRequestSettles`, `GrantSpentOnce`, `HeldTokenIsGood`, `LinkServesFile` |
| `console_services` | broker: 3 attempts, a failed dispatch, a restart; 2 questions, a tap; 2 starts, 2 turns | `NeverGivesUp`, `AcknowledgedWasDispatched`, `QueuedIsDispatched`, `LocalAnswerIsHeard`, `ReturnedIsNotActive`, `EveryQuestionReturns`, `BusyHasTurn`, `ProgressEndsWithTurn`, `EndedTurnIsReported` |
| `browser` | 3 tool calls, 1 tab; 2 recordings, 2 stops, a break | `EntryIsOpen`, `SerialOpensLeakNothing`, `ActiveHasInstance`, `StoppedStaysStopped`, `StopEndsRecording` |
| `browser_cleared_stays_cleared` | as `browser` | an answer after a detach attaches the tab again (finding) |

The comment before each property says what it states and names the code.

Bounds. Every race that the hazards list is one of two activities, or of one activity with
a reconnect or a restart: so two of each kind that can meet, and one fault of each kind.
Two loops and one tap are every pair of activities that can meet on an inbox row, and
`MaxAttempts` 1 there makes a retry the last one; `inbox_live` retries once. Two sockets
are a reconnect: a third adds another of the same kind, as nothing relates more than the
current socket and an older one. Of the sockets of `Deliveries` only the last cannot break,
so that the number of reconnects is bounded and something can eventually happen. The poll's
limit of 50 notes is `PollLimit`; that a note it leaves behind counts as missed until the
next poll, and no other note is, is what `NoNoteSlips` proves for every limit and number of
notes. Three hellos are a half-open socket, its successor and a changed listing on either.
Four requests of two clients reach every pair of kinds that can overlap after a creation
and a join; `Projects` was also checked on its own with 5 requests, with 6 of clients that
have one console, and with three slots. Three attempts to connect are two that overlap and
the one the timer makes. Counters that the code sets to 3 or 5 (downloads, updates, polls)
are 1, as only reaching them matters. `browser` was also checked with a break and a
restart together.
`CHECK_DEADLOCK FALSE` is set where nothing may be left to do: all messages settled, all
requests answered, every bound used up.

Fairness. Weak fairness stands for what Node runs eventually: timers and promise
continuations.

- `Inbox`: the loop's, the menu's and the sweep's steps. No human is assumed to answer (a
  prompt times out), no notification to arrive, no restart to happen.
- `Deliveries`: handlers and the client's timers and connection attempts. Losses, restarts,
  close events at the gateway and the agent's reading have none.
- `Relays`: the timers of requests alone, neither answers nor close events.
- `Broker`: the steps of an attempt to its end, delivery of what is queued, and the
  dispatch. Failures and restarts have none, and are bounded.
- `HumanRequests`: the loop, the steps of an asker, which include that Telegram's API
  answers a send, and the timeout of a reply; no human's tap.
- `AgentTurns`: continuations, the timeout of an unanswered `turn/start`, polls, and strong
  fairness on the answer to a poll of a turn that has ended: not every such poll meets a
  turn still running. Failing polls are bounded. No announcement is assumed.
- `BrowserAttach`: the steps of `connect()`, of each socket (an error or a close is
  reported), the two timers and the server's start. No toggle, break or restart.

Every checked property has a mutant: a changed definition, such as a hello that polls
only the first time, for which the run fails.

## 4. Findings

- **Asked twice.** `resetRetryableNoLiveSessionMessages` cannot tell an approval that
  found no console from a precheck that found none, because both write the same
  reason, although the comment above it says that only the precheck is retried.
- **A terminal outcome is overwritten.** Failure writes of the poll loop name no
  expected status, so they overwrite a row that the menu has rejected or delivered.
- **A detach is undone.** A tool on an attached tab writes back the attachment it read
  before awaiting the extension (`browserService.ts:2377`). When the tab is detached
  meanwhile the session is attached to it again, although the detach calls the cleared
  local state "the source of truth" (556).
- **A reconnect loses a console.** A hello's `lookUp` finds the row of the client's old
  socket, that socket's removal deletes it, and the hello's update by uuid then touches
  nothing. The console runs, its client is connected, and no row says so until the client
  has a reason for another hello, although docs/DECISIONS.md calls every running console a
  routable destination. The mirror image is in the model too: a hello that still inserts
  when its socket closes leaves a row without a connection. `SerialSyncsAreExact` shows
  that these meetings are the only cause, together with failed statements.

Hazards that no run can carry as a finding, because no line of the repository promises the
contrary, or because they are exceptions that a property names:

- a push of a note is lost when the hello handler throws before its poll, when publish
  throws after the inserts, or in a half-open socket; the note then waits for the next hello;
- an answer of a human is dropped when its client has no socket, as above;
- a request id popped from the queue is lost when the read of its record fails, and its
  caller is never told;
- the lifetime of an OAuth code is counted from before the administrator's approval
  (`oauthFacade.ts:1281`), so a slow approval issues a code that is about to expire, or has;
- overlapping calls of `startAgent` launch two agents and keep the last one's record
  (`agentRuntimeService.ts:647`);
- `connect()` of the extension opens a socket after awaiting though it was switched off
  meanwhile (`background.js:1341`);
- a throttled write of an older recording may replace a newer one's record, the store having
  one per session; a rejected `browserPromise` stays cached (`browserService.ts:2020`);
- overlapping requests of one client on a project, a leave that meets a join, and a leave
  that fails halfway (section 2).

## 5. Proofs

For every value of the constants that satisfies the modules' `ASSUME`s:

| Theorem | States |
|---|---|
| `InboxTypes` | types of the inbox |
| `NothingTypedUnapproved` | `[]ApprovedBeforeTyped` |
| `TypedOnlyWhereQueued` | `[]TypedWhereQueued` |
| `NoRowStranded` | `[]NothingStranded` |
| `SettledStaysOut` | `SettledIsNotRequeued`, an action property |
| `DeliveryTypes` | types of the deliveries |
| `ReportsAreHonest` | `[](Traced /\ Honest)` |
| `DeliveriesKeepContract` | `KeepsContract`: the transport implements `DeliveryContract` |
| `NoNoteSlips` | `[]NothingForgotten` |
| `LiveConsoleTypes` | types of the live consoles |
| `SerialSyncsStayExact` | `[]SerialSyncsAreExact` |
| `ProjectTypes` | types of a project's rows and requests |
| `ConsolesStayWithMembers` | `[]ConsolesBelongToMembers` |
| `ProjectStaysWithMembers` | `[]ProjectFollowsMembers` |
| `CallersAreToldOnce` | `ToldOnce`, an action property |
| `CallersHearTheTruth` | `[]AnswersAreTrue` |
| `RoutesAreKept`, `ClosedStreamsStayReleased` | `[]RoutesMatchPeers`, `[]ClosedStreamIsReleased` |
| `OAuthTypes`, `GrantsAreSpentOnce`, `HeldTokensAreGood` | types, `[]GrantSpentOnce`, `[]HeldTokenIsGood` |
| `FileLinkTypes`, `LinksServeTheirFiles` | types, `[]LinkServesFile` |
| `GatewayServicesTypes` | `[]ServicesTypeOK` of relays, OAuth and links |
| `BrokerTypes`, `BrokerNeverGivesUp`, `NothingDroppedUnhandled` | types, `[]NeverGivesUp`, `[]AcknowledgedWasDispatched` |
| `HumanRequestTypes`, `ReturnedQuestionsAreClosed`, `LocalAnswersAreHeard` | types, `[]ReturnedIsNotActive`, `[]LocalAnswerIsHeard` |
| `AgentTurnTypes`, `RecordsAreBusyWithTurns`, `ToldTurnsAreSilent` | types, `[]BusyHasTurn`, `ProgressEndsWithTurn`, an action property |
| `ConsoleServicesTypes` | `[]ServicesTypeOK` of broker, questions and turns |
| `EntriesAreOpen`, `NoContextLeaks` | `[]EntryIsOpen`, `[]SerialOpensLeakNothing` |
| `ActiveRecordingsHaveInstances` | `[]ActiveHasInstance` |
| `StoppedRecordingsStayStopped`, `StopsEndTheirRecordings` | `StoppedStaysStopped`, `StopEndsRecording`, action properties |
| `BrowserTypes` | `[]BrowserTypeOK` |
| `NewestStaysListed` | `[]NewestIsListed` |
| `ConnectionTypes` | `[]ConnectionsTypeOK` |

Inbox. `TypeInv` adds to `TypeOK` where each kind of activity can be. `ApprovalInv` is
needed because `ApprovedBeforeTyped` speaks of the console alone: it carries the
decision from the answer through every `pc` at which the approval is held in a local
variable. `HoldingInv` relates the transient statuses to holders: a row that is
`processing`, `offered` or `awaiting_route_binding` has an activity at a `pc` that will
write it, or one that ended on a failed prompt or write; it needs in turn that two
activities never hold the same claim.

Deliveries. `KeepsContract` is not inductive: that a row says "delivered" only after a
copy ended so depends on what is still on its way. `Honest` adds that every report in
`upstream` and every handler in `updating` names an outcome in `outcomes`; `Traced` that
a notification, a copy and a materialization stand for a note that was queued.
`IInv == TypeOK /\ Traced /\ Honest` is inductive, and each of its steps is a step of
the contract or leaves `status` and `outcomes` alone. Losses only remove what `IInv`
constrains, which is why restarts need no argument of their own. `NothingForgotten`
speaks of quiet states too; `OneLink` adds which socket of the client can still carry
anything, and `Noticed` that a queued note which is not missed has a notification, a copy
or a report to come as soon as the gateway has polled, whatever the client still sends.

Live consoles. `SerialSyncsAreExact` speaks of quiet states; `SerialInv` adds what holds
in between. `Alone`: a running handler is the only one, of the newest hello and its
socket's last. `Founded`: a row's socket is about to be removed, lists the console, or has
a hello that is about to delete its rows. `Recorded`: the newest hello's consoles that its
handler is past are its own. `Fresh`: what a handler looked up is still so when it writes,
which is why the unique index cannot refuse it. `HandlerInv` holds whether handlers meet
or not. That a listing has a first console (`MinExists`) follows from the well-foundedness
of the naturals.

Projects. For the consoles, `SoleRequest`: a client that has not overlapped has one
request at most; `GoneIsEmpty`: a project that is not there has no members and no
consoles; `ActiveBelongs`: an active console's client is a member, or its leave is about
to write the consoles; `RegistersMember`: what is registered is a console of an active
member; `JoinIsFresh`: a join that may yet be taken back has no active console to leave.
For the project, beside these, `NoneYet` (before the creation), `KeepsSettled` and
`KeepsStaffed`: while a project is active it has a member whom no undo can take away, or at
least a member, or a leave is about to look; and `Unmixed`: while no leave has met a join,
an active member has an active project, and a leave deactivates one without.

Relays. `ToldOnce` and the routes need the types and `Routed`: the by-uuid entry is one of
the Map's keys. `AnswersAreTrue` is about two moments far apart, the effect and the answer.
`OnePlace` says that a request is in one place at most, on one wire or in one handler;
`Truth` follows it from there: under way it has had no effect and no answer, and every answer
in any queue agrees with `done`, also one that comes over a dead or a later socket or after
the timer. Every action is shown to move each request by one of three changes (`Flows`: asked,
ended with an answer, unchanged) and `TruthFlows` does the rest. For the streams, `Watched`
says how far a Mini App's visit agrees with its handler and with what its two requests
have been told: an unsubscribe is asked only after the subscribe was answered "ok" and the
viewer has closed. `Subscribed` ties the client's subscriptions to the requests that took
effect, so that no late request can bring one back; `NoticesBelow` says that no answer to
these travels from the gateway.

Broker. `NeverGivesUp` and `AcknowledgedWasDispatched` are inductive beside the types, which
here say also that a channel the service holds is alive or has a closing event to come:
every step that ends an attempt leaves another reason to go on.

OAuth. `LoginInv`: one callback at most is past the deletion of its login; `CodeInv`: the
code of an exchange that is past its check is gone, and no other exchange passed with it;
`TokenInv`: an exchange that has not begun shows nothing, which makes `HeldTokenIsGood`
inductive.

File links. `ListedInv`, `UploadInv`, `LinkedInv` and `CountInv`: which calls still own
their record, what a finished upload has left on disk, that a returned link's record is
listed and ready, and that a count admits as many downloads as are under way or done.

Human requests. `LoopRunsOne`: in queue mode one request at a time is past the queue, and
only while the loop runs. `ActiveIsRunning`: while the store has not failed, the pending
record is that of a request which has written it and has not cleared it, which is
`ReturnedIsNotActive`. `LocalWaiters` makes `LocalAnswerIsHeard` inductive: in one process
nothing is in flight between bot and asker, a waiter that is open or was replied to before
anybody waited belongs to a request that has sent and will look at it, and a request that
was told something looks no more. `AwaitedWaits` ties the other waiters to the one `await`
that a timeout or an answer ends.

Agent turns. `RecordIsBusy` is `BusyHasTurn` with the turn itself for the cardinality. It
adds that a turn which ended before its submission returned leaves the record free until
it does, else the submission would make an ended turn the active one; `FreshStarts` that a
record no app-server backs yet has nothing, which is what lets it replace another; and
`TurnsHaveRecords` when a turn has one. That `submitMessage` runs only when no other
submission is resuming is used in one place, `SubmitKeepsFacts`. `ToldIsStopped` gives the
action property: a turn that was reported has its relay stopped, for good.

Browser tools. `Sessions`: the call that the entry names has its page or is done, nobody else
is closing its context, and the browser behind it was launched by a call that is known; so
`EntryIsOpen` survives overlapping opens, closes and resets, which close only what they took
out of the entry themselves. `OpensAlone`: as long as `excused` is false there is at most one
open between launch and page, and none beside an entry; that is why it overwrites nothing.

Recordings. `Noted` is what the store, the map and the writers know of a recording: one that
a writer still has is active, stopped or of a failed start, and a stopped one in the store is
stopped in memory or out of the map. `StopKnows` is what a stop that read the store's record
knows of it over its awaits, whoever stopped the recording meanwhile. Every step but
`created` is `Orderly`, that is does one of a few things to these: a status only goes from
running to stopped, nothing enters `active`, and what is written to the store as running is
running or failed to start. Both action properties follow from `Orderly`; `StopEndsRecording`
needs besides that only a stop's own three steps finish it (`OnlyStopsFinish`).
`ActiveHasInstance` needs `Linked`: a control request that is answered "ok" is on a socket
that still carries data, which is the instance's.

Browser attach. `ListingKept` adds that a listed socket is greeted and greeted sockets are at
the server. The types need a count: `HellosBounded` says that the hellos of the current
socket and the sockets which are still opening are together no more than there are sockets,
because each socket that opens says its one hello over whichever is current.

Every safety invariant and every action property that a passing run checks, and the
refinement, is stated by a theorem. Only model-checked are the liveness properties
(`PendingIsServed`, `WorkEnds`, `QueuedIsSettled`, `EveryRequestSettles`,
`QueuedIsDispatched`, `EveryQuestionReturns`, `EndedTurnIsReported`, `EnabledAttaches`),
which with fairness and ENABLED are out of the prover's reach, as are induction over data
and RECURSIVE operators; no module uses the latter two. The types of `Inbox`, `LiveConsoles`
and `Projects` are proved and have no run of their own.

The assumptions are no more than what the constants are: the value for "none" is none of the
names, names of different kinds are distinct, bounds and limits are natural numbers, sockets,
attempts, consoles and notes that are counted or ordered are finitely many or numbered. None
bounds how many there are.

## 6. Not modelled, and the plan

The status of each part, with what is left out of it, is in `components` of PROJECT.json.
What is left, in the order of its use:

1. The sender's notice and Telegram message against status events that arrive first, twice
   or in the wrong order, with `DeliveryContract` as their environment; the loopback to a
   console of the gateway's own process.
2. Claude's client and attached agents beside `AgentTurns`, and approvals asked for within a
   turn; live approvals beside `HumanRequests`.
3. `pruneGatewayStateRecord`, which wipes the tables of several modules at once.
4. Steps of liveness by hand: that a measure of the work which is left never grows
   (`WorkEnds`, `EveryRequestSettles`), as action properties that can be proved.

Not planned: terminals (synchronous calls of node-pty, whose timing decides what matters),
single-key stores, the version handshake (a pure comparison with unit tests), menus'
wording and layout, terminal prompt detection, DDL, object storage, command line and
configuration. They are text, pure I/O or one-shot programs. They, with the page tools of
the browser, the recorder page and the HTTP routing, are most of the repository's lines.
