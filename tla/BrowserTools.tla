----------------------------- MODULE BrowserTools -----------------------------
(***************************************************************************)
(* BrowserService: the browser tools of one console.  A tool acts on the   *)
(* tab of the user's own browser that the store says is attached, over the *)
(* WebSocket of the extension, and otherwise on the page of a Playwright   *)
(* context that browser_open made.  Calls overlap at every await.          *)
(* Playwright, the browser and the extension's execution are external.     *)
(***************************************************************************)
EXTENDS Naturals

CONSTANTS Calls,   \* tool calls; each is made at most once
          Tabs,    \* tabs of the attached browser
          NoCall, NoTab

ASSUME BrowserToolsAssumption == NoCall \notin Calls /\ NoTab \notin Tabs

VARIABLES
  call,             \* the tool calls: operation, where it waits, its tab,
                    \* its context (named by the call that made it), its launch
  wire,             \* a call's tab_action: being carried, or its answer
  attachment,       \* the store's browser attachment
  sessionState,     \* sessionStates: the context in use
  contexts,         \* contexts that are open in their browser
  browserPromise,   \* the call whose launch it is
  browsers,         \* what became of each launch
  stopping,         \* the service's shutdown
  selected,         \* history: the tab last attached and not detached
  excused           \* history: two opens overlapped, or a page was refused

toolsVars == <<call, wire, attachment, sessionState, contexts, browserPromise,
               browsers, stopping, selected, excused>>
attached == <<attachment, selected>>
playwright == <<sessionState, contexts, browserPromise, browsers, excused>>

Ops == {"none", "tool", "open", "attach", "detach", "close"}
Places == {"idle", "tab", "clearing", "closing", "browser", "context", "page", "done"}
Contexts == Calls \cup {NoCall}

BrowserToolsTypeOK ==
  /\ call \in [Calls -> [op : Ops, at : Places, tab : Tabs \cup {NoTab},
                         context : Contexts, launch : Contexts]]
  /\ wire \in [Calls -> {"none", "asked", "ok", "error"}]
  /\ attachment \in Tabs \cup {NoTab} /\ selected \in Tabs \cup {NoTab}
  /\ sessionState \in Contexts /\ contexts \subseteq Calls
  /\ browserPromise \in Contexts
  /\ browsers \in [Calls -> {"none", "launching", "up", "failed", "gone"}]
  /\ stopping \in {"no", "closing", "browser", "done"}
  /\ excused \in BOOLEAN

BrowserToolsInit ==
  /\ call = [c \in Calls |-> [op |-> "none", at |-> "idle", tab |-> NoTab,
                              context |-> NoCall, launch |-> NoCall]]
  /\ wire = [c \in Calls |-> "none"]
  /\ attachment \in Tabs \cup {NoTab} /\ selected = attachment
  /\ sessionState = NoCall /\ contexts = {}
  /\ browserPromise = NoCall /\ browsers = [c \in Calls |-> "none"]
  /\ stopping = "no"
  /\ excused = FALSE

Begins(c) == call[c].at = "idle" /\ stopping = "no"
At(c, op, place) == call[c].op = op /\ call[c].at = place
Goes(c, op, place) == call' = [call EXCEPT ![c].op = op, ![c].at = place]
Ends(c) == call' = [call EXCEPT ![c].at = "done"]
InBrowser(b) == {x \in contexts : call[x].launch = b}

-----------------------------------------------------------------------------
(* Tools on the attached tab.                                               *)

\* The instance is not connected and the call throws; or its request goes out,
\* into a socket that may be dead.
invokeTabAction(c, op, t) ==
  /\ \/ op # "detach" /\ Goes(c, op, "done") /\ UNCHANGED <<wire, attached>>
     \/ op = "detach" /\ Goes(c, op, "done") /\ UNCHANGED wire
        /\ attachment' = NoTab /\ selected' = NoTab
     \/ /\ call' = [call EXCEPT ![c].op = op, ![c].at = "tab", ![c].tab = t]
        /\ wire' \in {wire, [wire EXCEPT ![c] = "asked"]}
        /\ UNCHANGED attached

\* A tool on the page: it throws if no session is open.
requireSessionState(c) ==
  IF sessionState = NoCall THEN Goes(c, "tool", "done")
  ELSE call' = [call EXCEPT ![c].op = "tool", ![c].at = "page", ![c].context = sessionState]

\* Every tool asks the store first.
OnTabOrPage(c) ==
  /\ Begins(c)
  /\ IF attachment # NoTab THEN invokeTabAction(c, "tool", attachment)
                           ELSE requireSessionState(c) /\ UNCHANGED <<wire, attached>>
  /\ UNCHANGED <<playwright, stopping>>

\* They differ in what they ask of the tab or page, not in what they keep.
getConsole(c) == OnTabOrPage(c)
click(c) == OnTabOrPage(c)
fill(c) == OnTabOrPage(c)
press(c) == OnTabOrPage(c)
reload(c) == OnTabOrPage(c)
waitFor(c) == OnTabOrPage(c)
waitForUrl(c) == OnTabOrPage(c)
getErrors(c) == OnTabOrPage(c)
getNetworkFailures(c) == OnTabOrPage(c)
clearLogs(c) == OnTabOrPage(c)
getDom(c) == OnTabOrPage(c)
getComputedStyle(c) == OnTabOrPage(c)
screenshot(c) == OnTabOrPage(c)

\* Without a source there is nothing to inject.
injectScript(c) ==
  \/ OnTabOrPage(c)
  \/ /\ Begins(c) /\ Goes(c, "tool", "done")
     /\ UNCHANGED <<wire, attached, playwright, stopping>>

\* A tab the registry does not list is refused.
attachTab(c, t) ==
  /\ Begins(c)
  /\ \/ invokeTabAction(c, "attach", t)
     \/ Goes(c, "attach", "done") /\ UNCHANGED <<wire, attached>>
  /\ UNCHANGED <<playwright, stopping>>

\* The tab that is active in the one browser there is, or an error.
attachActiveTab(c) == \E t \in Tabs : attachTab(c, t)

\* The user chooses the tab in the extension's panel.
persistSelectedTab(c, t) ==
  /\ Begins(c)
  /\ Goes(c, "attach", "done")
  /\ attachment' = t /\ selected' = t
  /\ UNCHANGED <<wire, playwright, stopping>>

detachTab(c) ==
  /\ Begins(c)
  /\ IF attachment # NoTab THEN invokeTabAction(c, "detach", attachment)
     ELSE Goes(c, "detach", "done") /\ UNCHANGED <<wire, attached>>
  /\ UNCHANGED <<playwright, stopping>>

\* The extension runs the action and answers over the socket it has.
runTabAction(c) ==
  /\ wire[c] = "asked"
  /\ wire' \in {[wire EXCEPT ![c] = a] : a \in {"ok", "error"}}
  /\ UNCHANGED <<call, attached, playwright, stopping>>

socketLost ==
  /\ \E c \in Calls : wire[c] # "none"
  /\ wire' = [c \in Calls |-> "none"]
  /\ UNCHANGED <<call, attached, playwright, stopping>>

\* After a good answer a tool writes back the attachment it had read.
tabActionDone(c) ==
  /\ Goes(c, call[c].op, IF call[c].op = "close" THEN "clearing" ELSE "done")
  /\ attachment' = IF call[c].op = "detach" THEN NoTab ELSE call[c].tab
  /\ selected' = CASE call[c].op = "detach" -> NoTab
                   [] call[c].op = "attach" -> call[c].tab
                   [] OTHER -> selected

\* A detach clears the attachment all the same.
tabActionFails(c) ==
  /\ Ends(c)
  /\ IF call[c].op = "detach" THEN attachment' = NoTab /\ selected' = NoTab
                              ELSE UNCHANGED attached

\* An answer that comes after the timer is ignored.
resolvePendingTabAction(c) ==
  /\ wire[c] \in {"ok", "error"}
  /\ wire' = [wire EXCEPT ![c] = "none"]
  /\ IF call[c].at # "tab" THEN UNCHANGED <<call, attached>>
     ELSE IF wire[c] = "ok" THEN tabActionDone(c) ELSE tabActionFails(c)
  /\ UNCHANGED <<playwright, stopping>>

tabActionTimesOut(c) ==
  /\ call[c].at = "tab"
  /\ tabActionFails(c)
  /\ UNCHANGED <<wire, playwright, stopping>>

clearAttachment(c) ==
  /\ At(c, "close", "clearing")
  /\ Ends(c)
  /\ attachment' = NoTab /\ selected' = NoTab
  /\ UNCHANGED <<wire, playwright, stopping>>

-----------------------------------------------------------------------------
(* Playwright's browser, contexts and pages.                                *)

\* The first launch is everybody's, whatever becomes of it.
ensureBrowser(c, op) ==
  LET b == IF browserPromise = NoCall THEN c ELSE browserPromise IN
  /\ call' = [call EXCEPT ![c].op = op, ![c].at = "browser", ![c].launch = b]
  /\ browserPromise' = b
  /\ browsers' = IF b = c THEN [browsers EXCEPT ![c] = "launching"] ELSE browsers

\* The entry is left until the context is closed.
closeState_late(c, op) ==
  /\ UNCHANGED sessionState
  /\ call' = [call EXCEPT ![c].op = op, ![c].at = "closing", ![c].context = sessionState]

\* reset_context forgets the old context without closing it.
closeState_forgets(c, op) ==
  /\ sessionState' = NoCall
  /\ call' = [call EXCEPT ![c].op = op, ![c].at = "closing"]

\* The entry goes at once, the context when Playwright has closed it.
closeState(c, op) ==
  /\ sessionState' = NoCall
  /\ call' = [call EXCEPT ![c].op = op, ![c].at = "closing", ![c].context = sessionState]

Opening == {c \in Calls : call[c].op = "open"
                            /\ call[c].at \in {"closing", "browser", "context"}}

open(c) ==
  /\ Begins(c)
  /\ excused' = (excused \/ Opening # {})
  /\ \E reset \in BOOLEAN :
       IF sessionState = NoCall
       THEN ensureBrowser(c, "open") /\ UNCHANGED sessionState
       ELSE /\ IF reset THEN closeState(c, "open")
               ELSE /\ call' = [call EXCEPT ![c].op = "open", ![c].at = "page",
                                            ![c].context = sessionState]
                    /\ UNCHANGED sessionState
            /\ UNCHANGED <<browserPromise, browsers>>
  /\ UNCHANGED <<wire, attached, contexts, stopping>>

\* close() asks for an attachment first and closes its tab.
close(c) ==
  /\ Begins(c)
  /\ IF attachment # NoTab
     THEN invokeTabAction(c, "close", attachment) /\ UNCHANGED sessionState
     ELSE /\ IF sessionState # NoCall THEN closeState(c, "close")
             ELSE Goes(c, "close", "done") /\ UNCHANGED sessionState
          /\ UNCHANGED <<wire, attached>>
  /\ UNCHANGED <<contexts, browserPromise, browsers, excused, stopping>>

contextClosed(c) ==
  /\ call[c].at = "closing"
  /\ contexts' = contexts \ {call[c].context}
  /\ IF call[c].op = "open" THEN ensureBrowser(c, "open")
     ELSE Ends(c) /\ UNCHANGED <<browserPromise, browsers>>
  /\ UNCHANGED <<wire, attached, sessionState, excused, stopping>>

launchEnds(b) ==
  /\ browsers[b] = "launching"
  /\ browsers' \in {[browsers EXCEPT ![b] = s] : s \in {"up", "failed"}}
  /\ UNCHANGED <<call, wire, attached, sessionState, contexts, browserPromise, excused,
                 stopping>>

\* The browser's window is closed or its process dies; nobody listens for it.
browserDies(b) ==
  /\ browsers[b] = "up"
  /\ browsers' = [browsers EXCEPT ![b] = "gone"]
  /\ contexts' = contexts \ InBrowser(b)
  /\ UNCHANGED <<call, wire, attached, sessionState, browserPromise, excused, stopping>>

newContext(c) ==
  /\ call[c].at = "browser" /\ browsers[call[c].launch] # "launching"
  /\ IF browsers[call[c].launch] = "up"
     THEN contexts' = contexts \cup {c} /\ Goes(c, "open", "context")
     ELSE Ends(c) /\ UNCHANGED contexts
  /\ UNCHANGED <<wire, attached, sessionState, browserPromise, browsers, excused, stopping>>

\* The page is made and the context becomes the session's, whichever was.
ensureSessionState(c) ==
  /\ call[c].at = "context" /\ c \in contexts
  /\ sessionState' = c
  /\ call' = [call EXCEPT ![c].at = "page", ![c].context = c]
  /\ UNCHANGED <<wire, attached, contexts, browserPromise, browsers, excused, stopping>>

newPageFails(c) ==
  /\ call[c].at = "context"
  /\ Ends(c)
  /\ excused' = (excused \/ c \in contexts)
  /\ UNCHANGED <<wire, attached, sessionState, contexts, browserPromise, browsers, stopping>>

\* The operation on the page returns, throws or times out.
pageDone(c) ==
  /\ call[c].at = "page"
  /\ Ends(c)
  /\ UNCHANGED <<wire, attached, playwright, stopping>>

\* The session's context is closed, then the browser of the promise.
shutdown ==
  \/ /\ stopping = "no" /\ stopping' = "closing"
     /\ UNCHANGED <<sessionState, contexts, browserPromise, browsers>>
  \/ /\ stopping = "closing" /\ sessionState # NoCall
     /\ sessionState' = NoCall
     /\ contexts' = contexts \ {sessionState}
     /\ UNCHANGED <<browserPromise, browsers, stopping>>
  \/ /\ stopping = "closing" /\ sessionState = NoCall
     /\ stopping' = IF browserPromise = NoCall THEN "done" ELSE "browser"
     /\ UNCHANGED <<sessionState, contexts, browserPromise, browsers>>
  \/ /\ stopping = "browser" /\ browsers[browserPromise] # "launching"
     /\ stopping' = "done"
     /\ contexts' = contexts \ InBrowser(browserPromise)
     /\ browsers' = [browsers EXCEPT ![browserPromise] = IF @ = "up" THEN "gone" ELSE @]
     /\ browserPromise' = NoCall
     /\ UNCHANGED sessionState

shutdownSteps == shutdown /\ UNCHANGED <<call, wire, attached, excused>>

-----------------------------------------------------------------------------
ToolCall(c) ==
  \/ getConsole(c) \/ click(c) \/ fill(c) \/ press(c) \/ reload(c) \/ waitFor(c)
  \/ waitForUrl(c) \/ getErrors(c) \/ getNetworkFailures(c) \/ clearLogs(c)
  \/ getDom(c) \/ getComputedStyle(c) \/ screenshot(c) \/ injectScript(c)

BrowserToolsNext ==
  \/ \E c \in Calls :
       \/ ToolCall(c) \/ open(c) \/ close(c) \/ detachTab(c) \/ attachActiveTab(c)
       \/ \E t \in Tabs : attachTab(c, t) \/ persistSelectedTab(c, t)
       \/ runTabAction(c) \/ resolvePendingTabAction(c) \/ ensureSessionState(c)
       \/ tabActionTimesOut(c) \/ clearAttachment(c) \/ contextClosed(c) \/ newContext(c)
       \/ newPageFails(c) \/ pageDone(c) \/ launchEnds(c) \/ browserDies(c)
  \/ socketLost \/ shutdownSteps

BrowserToolsSpec == BrowserToolsInit /\ [][BrowserToolsNext]_toolsVars

-----------------------------------------------------------------------------
(***************************************************************************)
(* Properties.                                                             *)
(***************************************************************************)

\* The session's entry never names a context the service has closed: a tool
\* that finds it can work, as long as the browser lives, whatever open, close
\* and reset overlapped (browserService.ts:684, 2058, 2528).
EntryIsOpen ==
  sessionState # NoCall =>
    (browsers[call[sessionState].launch] = "up" => sessionState \in contexts)

\* A context that no entry names is one that a call is about to name or to
\* close.  Overlapping opens, and a page that is refused, do leave contexts
\* behind: the entry of the first is overwritten (browserService.ts:2121).
SerialOpensLeakNothing ==
  ~excused =>
    \A x \in contexts :
      \/ x = sessionState
      \/ call[x].at = "context"
      \/ \E c \in Calls : call[c].at = "closing" /\ call[c].context = x

\* A detached session stays detached until a tab is attached again: "Clearing
\* local state is still the source of truth" (browserService.ts:556).  A tool
\* whose answer comes after the detach writes the attachment it had read.
ClearedStaysCleared == selected = NoTab => attachment = NoTab
=============================================================================
